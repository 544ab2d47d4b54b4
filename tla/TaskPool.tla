------------------------------- MODULE TaskPool -------------------------------
(***************************************************************************)
(* What task.QueueManager promises of its tasks, whichever queue they are   *)
(* in: a task that was accepted is held until it, or its key, is deleted.   *)
(***************************************************************************)
CONSTANT Data
VARIABLES held, deleted

Init == held = {} /\ deleted = {}

Insert(d) ==
    /\ d \notin held \cup deleted
    /\ held' = held \cup {d} /\ UNCHANGED deleted

Delete(d) ==
    /\ d \in held
    /\ held' = held \ {d} /\ deleted' = deleted \cup {d}

DeleteKey(D) == held' = held \ D /\ deleted' = deleted \cup D

Next ==
    \/ \E d \in Data : Insert(d) \/ Delete(d)
    \/ \E D \in SUBSET held : DeleteKey(D)

Spec == Init /\ [][Next]_<<held, deleted>>
=============================================================================
