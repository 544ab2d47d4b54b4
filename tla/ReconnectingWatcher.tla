------------------------- MODULE ReconnectingWatcher -------------------------
(***************************************************************************)
(* discovery/etcd reconnecting_watcher.go: the watches share one stream     *)
(* (a generation of clientv3.Watcher) whose token expires; a watch that     *)
(* fails replaces it, and its caller watches again.                         *)
(***************************************************************************)
EXTENDS Integers

CONSTANTS Users, MaxGens

Nil == 0

VARIABLES watcher, made, closed,
          expired, shut,     \* generations whose token expired, and closed ones
          watch              \* each caller's goroutine: [pc, gen]

vars == <<watcher, made, closed, expired, shut, watch>>

Init == /\ watcher = 1 /\ made = 1 /\ closed = FALSE /\ expired = {} /\ shut = {}
        /\ watch = [u \in Users |-> [pc |-> "idle", gen |-> Nil]]

Goto(u, pc) == watch' = [watch EXCEPT ![u].pc = pc]

tokenExpires(g) ==
    /\ g \notin expired \cup shut /\ g <= made /\ g < MaxGens /\ expired' = expired \cup {g}
    /\ UNCHANGED <<watcher, made, closed, shut, watch>>

(* Watch, by current(): a closed watcher yields a closed channel. *)
Watch(u) ==
    /\ watch[u].pc = "idle"
    /\ watch' = [watch EXCEPT ![u] = IF closed THEN [pc |-> "end", gen |-> Nil] ELSE [pc |-> "open", gen |-> watcher]]
    /\ UNCHANGED <<watcher, made, closed, expired, shut>>

(* The channel closes or yields an error. *)
updates(u) ==
    /\ watch[u].pc = "open" /\ watch[u].gen \in expired \cup shut /\ Goto(u, "replace")
    /\ UNCHANGED <<watcher, made, closed, expired, shut>>

(* replace: only the first to fail on the current watcher makes a new one. *)
replace(u) ==
    /\ watch[u].pc = "replace"
    /\ \/ (closed \/ watcher # watch[u].gen) /\ Goto(u, "idle") /\ UNCHANGED <<watcher, made>>
       \/ /\ ~closed /\ watcher = watch[u].gen /\ made < MaxGens
          /\ made' = made + 1 /\ watcher' = made + 1 /\ Goto(u, "close")
    /\ UNCHANGED <<closed, expired, shut>>

replaceCloses(u) ==
    /\ watch[u].pc = "close" /\ shut' = shut \cup {watch[u].gen} /\ Goto(u, "idle")
    /\ UNCHANGED <<watcher, made, closed, expired>>

Close ==
    /\ ~closed /\ closed' = TRUE /\ watcher' = Nil /\ shut' = shut \cup {watcher}
    /\ UNCHANGED <<made, expired, watch>>

Caller(u) == Watch(u) \/ updates(u) \/ replace(u) \/ replaceCloses(u)

Next == Close \/ (\E g \in 1..MaxGens : tokenExpires(g)) \/ (\E u \in Users : Caller(u))
Spec == Init /\ [][Next]_vars
-----------------------------------------------------------------------------
(* A watcher that is not closed is the current one, or a caller is about to *)
(* close it: several watches that fail together leave no stream behind, and *)
(* neither does one that fails after Close.                                 *)
NoLeak == \A g \in 1..made : g \in shut \/ g = watcher \/ \E u \in Users : watch[u] = [pc |-> "close", gen |-> g]
=============================================================================
