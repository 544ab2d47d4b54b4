------------------------------ MODULE Standalone ------------------------------
(***************************************************************************)
(* discovery/standalone: the registry of a single process, whose callers    *)
(* wait on a channel per method that nobody removes but registration, and   *)
(* its key-value store.                                                     *)
(***************************************************************************)
EXTENDS Integers, FiniteSets

CONSTANTS Callers,
          Services,   \* sets of methods, disjoint
          MaxCalls,
          Keys, Values

Methods == UNION Services
NoChan == 0

VARIABLES methods,
          wait,      \* [Methods -> number of a channel, or NoChan]
          chans,     \* channels made
          closed,    \* channels closed
          call,      \* [Callers -> [pc, method, chan]]
          calls,
          kv         \* [Keys -> Values or "none"]

vars == <<methods, wait, chans, closed, call, calls, kv>>
registry == <<methods, wait, chans, closed, call, calls>>

Idle == [pc |-> "idle", method |-> "", chan |-> NoChan]

Init ==
    /\ methods = {} /\ wait = [m \in Methods |-> NoChan] /\ chans = 0 /\ closed = {}
    /\ call = [c \in Callers |-> Idle] /\ calls = 0
    /\ kv = [k \in Keys |-> "none"]

RegisterService(s) ==
    /\ s \cap methods = {} /\ methods' = methods \cup s
    /\ closed' = closed \cup ({wait[m] : m \in s} \ {NoChan})
    /\ wait' = [x \in Methods |-> IF x \in s THEN NoChan ELSE wait[x]]
    /\ UNCHANGED <<chans, call, calls, kv>>

(* getMethod, up to the select. *)
getMethod(c, m) ==
    /\ call[c].pc = "idle" /\ calls < MaxCalls /\ calls' = calls + 1
    /\ \/ /\ m \in methods
          /\ call' = [call EXCEPT ![c] = [Idle EXCEPT !.pc = "invoke", !.method = m]]
          /\ UNCHANGED <<wait, chans>>
       \/ /\ m \notin methods
          /\ chans' = IF wait[m] = NoChan THEN chans + 1 ELSE chans
          /\ wait' = IF wait[m] = NoChan THEN [wait EXCEPT ![m] = chans + 1] ELSE wait
          /\ call' = [call EXCEPT ![c] = [pc |-> "wait", method |-> m, chan |-> wait'[m]]]
    /\ UNCHANGED <<methods, closed, kv>>

(* The select: context or timer, or the channel and another look. *)
getMethodEnds(c) ==
    /\ call[c].pc = "wait"
    /\ \/ call' = [call EXCEPT ![c].pc = "error"]
       \/ /\ call[c].chan \in closed
          /\ call' = [call EXCEPT ![c].pc = IF call[c].method \in methods THEN "invoke" ELSE "missing"]
    /\ UNCHANGED <<methods, wait, chans, closed, calls, kv>>

(* Invoke: the handler and the reply, or the error. *)
Invoke(c) ==
    /\ call[c].pc \in {"invoke", "error", "missing"} /\ call' = [call EXCEPT ![c] = Idle]
    /\ UNCHANGED <<methods, wait, chans, closed, calls, kv>>
-----------------------------------------------------------------------------
SetKey(k, v) ==
    /\ kv' = [kv EXCEPT ![k] = v]
    /\ UNCHANGED registry

DelData(k) ==
    /\ kv' = [kv EXCEPT ![k] = "none"]
    /\ UNCHANGED registry
-----------------------------------------------------------------------------
Next ==
    \/ \E s \in Services : RegisterService(s)
    \/ \E c \in Callers : (\E m \in Methods : getMethod(c, m)) \/ getMethodEnds(c) \/ Invoke(c)
    \/ \E k \in Keys : DelData(k) \/ \E v \in Values : SetKey(k, v)

(* Callers run on, and the timer ends every wait. *)
Spec == Init /\ [][Next]_vars /\ \A c \in Callers : WF_vars(getMethodEnds(c)) /\ WF_vars(Invoke(c))
-----------------------------------------------------------------------------
(* A caller waits for a method that is not registered, or its channel has   *)
(* been closed, however many callers of the channel have given up.          *)
NoStranded == \A c \in Callers : call[c].pc = "wait" => call[c].chan \in closed \/ wait[call[c].method] = call[c].chan

(* A caller that is woken finds its method: the "internal error" of         *)
(* getMethod does not happen.                                               *)
WokenFinds == \A c \in Callers : call[c].pc # "missing"
=============================================================================
