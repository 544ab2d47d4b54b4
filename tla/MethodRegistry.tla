---------------------------- MODULE MethodRegistry ----------------------------
(***************************************************************************)
(* discovery/inprocess method_registry.go and local_conn.go: a call waits   *)
(* for its method to be registered, for a bounded time.  The callers of one *)
(* method share a waiter, a channel that registration or close closes and   *)
(* that the last caller to give up removes.                                 *)
(***************************************************************************)
EXTENDS Integers, FiniteSets

CONSTANTS Callers,
          Services,    \* sets of methods, disjoint
          MaxCalls,
          MaxCloses

Methods == UNION Services
Waiters == 1..MaxCalls      \* a call makes at most one
NoWaiter == 0

VARIABLES methods,   \* the registered ones
          waiters,   \* [Methods -> Waiters or NoWaiter]
          refs, ready,
          made,      \* waiters made
          call,      \* [Callers -> [pc, method, waiter, result]]
          calls, closes,
          closing,   \* waiters close has taken and not yet closed
          panicked   \* a channel was closed twice

vars == <<methods, waiters, refs, ready, made, call, calls, closes, closing, panicked>>

Idle == [pc |-> "idle", method |-> "", waiter |-> NoWaiter, result |-> ""]

Init ==
    /\ methods = {} /\ waiters = [m \in Methods |-> NoWaiter]
    /\ refs = [w \in Waiters |-> 0] /\ ready = {} /\ made = 0
    /\ call = [c \in Callers |-> Idle] /\ calls = 0 /\ closes = 0
    /\ closing = {} /\ panicked = FALSE
-----------------------------------------------------------------------------
(* A second registration of a service panics and is not a step. *)
RegisterService(s) ==
    LET woken == {waiters[m] : m \in s} \ {NoWaiter} IN
    /\ s \cap methods = {} /\ methods' = methods \cup s
    /\ panicked' = (panicked \/ woken \cap ready # {}) /\ ready' = ready \cup woken
    /\ waiters' = [x \in Methods |-> IF x \in s THEN NoWaiter ELSE waiters[x]]
    /\ UNCHANGED <<refs, made, call, calls, closes, closing>>

(* getUnaryHandler, up to the select. *)
getUnaryHandler(c, m) ==
    /\ call[c].pc = "idle" /\ calls < MaxCalls /\ calls' = calls + 1
    /\ \/ /\ m \in methods
          /\ call' = [call EXCEPT ![c] = [Idle EXCEPT !.pc = "invoke", !.method = m]]
          /\ UNCHANGED <<waiters, refs, made>>
       \/ /\ m \notin methods
          /\ LET new == waiters[m] = NoWaiter
                 w == IF new THEN made + 1 ELSE waiters[m]
             IN /\ made' = IF new THEN w ELSE made
                /\ waiters' = [waiters EXCEPT ![m] = w]
                /\ refs' = [refs EXCEPT ![w] = @ + 1]
                /\ call' = [call EXCEPT ![c] = [pc |-> "wait", method |-> m, waiter |-> w, result |-> ""]]
    /\ UNCHANGED <<methods, ready, closes, closing, panicked>>

(* The select: the context or the timer ends the wait ... *)
giveUp(c) ==
    /\ call[c].pc = "wait"
    /\ call' = [call EXCEPT ![c] = [@ EXCEPT !.pc = "release", !.result = "timeout"]]
    /\ UNCHANGED <<methods, waiters, refs, ready, made, calls, closes, closing, panicked>>

(* ... or the channel is closed and the method is looked up again. *)
wakeUp(c) ==
    /\ call[c].pc = "wait" /\ call[c].waiter \in ready
    /\ call' = [call EXCEPT ![c] = [@ EXCEPT !.pc = "release",
                   !.result = IF call[c].method \in methods THEN "handler" ELSE "internal error"]]
    /\ UNCHANGED <<methods, waiters, refs, ready, made, calls, closes, closing, panicked>>

(* The faulty variant: the references are not counted. *)
releaseWaiterAlways(c) ==
    LET m == call[c].method
        w == call[c].waiter
    IN
    /\ call[c].pc = "release"
    /\ waiters' = IF waiters[m] = w THEN [waiters EXCEPT ![m] = NoWaiter] ELSE waiters
    /\ call' = [call EXCEPT ![c].pc = IF call[c].result = "handler" THEN "invoke" ELSE "return"]
    /\ UNCHANGED <<methods, refs, ready, made, calls, closes, closing, panicked>>

(* releaseWaiter: a waiter that is no longer in the map is left alone. *)
releaseWaiter(c) ==
    LET m == call[c].method
        w == call[c].waiter
    IN
    /\ call[c].pc = "release"
    /\ refs' = IF waiters[m] = w THEN [refs EXCEPT ![w] = @ - 1] ELSE refs
    /\ waiters' = IF waiters[m] = w /\ refs[w] = 1 THEN [waiters EXCEPT ![m] = NoWaiter] ELSE waiters
    /\ call' = [call EXCEPT ![c].pc = IF call[c].result = "handler" THEN "invoke" ELSE "return"]
    /\ UNCHANGED <<methods, ready, made, calls, closes, closing, panicked>>

(* Invoke goes on with the handler, or returns the error. *)
Invoke(c) ==
    /\ call[c].pc \in {"invoke", "return"}
    /\ call' = [call EXCEPT ![c] = Idle]
    /\ UNCHANGED <<methods, waiters, refs, ready, made, calls, closes, closing, panicked>>

close ==
    /\ closes < MaxCloses /\ closes' = closes + 1
    /\ closing' = closing \cup ({waiters[m] : m \in Methods} \ {NoWaiter})
    /\ waiters' = [m \in Methods |-> NoWaiter]
    /\ UNCHANGED <<methods, refs, ready, made, call, calls, panicked>>

(* After the unlock, waiter by waiter. *)
closeReady(w) ==
    /\ w \in closing /\ closing' = closing \ {w}
    /\ panicked' = (panicked \/ w \in ready) /\ ready' = ready \cup {w}
    /\ UNCHANGED <<methods, waiters, refs, made, call, calls, closes>>
-----------------------------------------------------------------------------
Next ==
    \/ \E s \in Services : RegisterService(s)
    \/ \E c \in Callers : \/ \E m \in Methods : getUnaryHandler(c, m)
                          \/ giveUp(c) \/ wakeUp(c) \/ releaseWaiter(c) \/ Invoke(c)
    \/ close \/ \E w \in Waiters : closeReady(w)

Spec == Init /\ [][Next]_vars
-----------------------------------------------------------------------------
TypeOK ==
    /\ methods \subseteq Methods /\ waiters \in [Methods -> 0..made]
    /\ refs \in [Waiters -> 0..Cardinality(Callers)] /\ ready \cup closing \subseteq 1..made
    /\ \A c \in Callers : call[c].pc \in {"idle", "wait", "release", "invoke", "return"}

(* A caller that waits for a method that has been registered has been       *)
(* woken, whoever gave up, and whatever was closed, in between.             *)
NoStranded == \A c \in Callers : call[c].pc = "wait" /\ call[c].method \in methods => call[c].waiter \in ready \cup closing

(* A waiter in the map counts exactly the callers that hold it, so it goes  *)
(* with the last one, and nobody waits on a waiter nobody can wake.         *)
WaitersCounted ==
    \A m \in Methods : waiters[m] # NoWaiter =>
        /\ refs[waiters[m]] = Cardinality({c \in Callers : call[c].pc \in {"wait", "release"} /\ call[c].waiter = waiters[m]})
        /\ refs[waiters[m]] > 0 /\ m \notin methods

(* Registration and close never close a channel twice. *)
ClosedOnce == ~panicked

(* A call that was woken fails only if the registry was closed. *)
WokenHasHandler == closes = 0 => \A c \in Callers : call[c].result # "internal error"
=============================================================================
