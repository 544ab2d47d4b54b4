------------------------------ MODULE AckWindow ------------------------------
(***************************************************************************)
(* What an offset-committing consumer is promised, in the words of         *)
(* acker.go: "marking id X must mean every delivered id <= X is also       *)
(* done", and a commit acknowledges delivered ids up to the highest marked *)
(* one and nothing above it.  There is no concurrency here and no failed   *)
(* XACK: one step acknowledges any part of what the watermark covers.      *)
(* Acker.tla shows that the code's flush implements this.                  *)
(***************************************************************************)
EXTENDS Naturals

CONSTANT Ids            \* stream entry ids, in stream order

VARIABLES
    window,             \* delivered ids whose acknowledgement is not confirmed
    watermark,          \* highest marked id; 0 while nothing has been marked
    acked               \* ids removed from the group's pending entries list

absVars == <<window, watermark, acked>>

Init ==
    /\ window = {}
    /\ watermark = 0
    /\ acked = {}

(* Each id is delivered at most once per window. *)
Deliver(id) ==
    /\ id \notin window \cup acked
    /\ window' = window \cup {id}
    /\ UNCHANGED <<watermark, acked>>

(* The watermark only rises. *)
Mark(id) ==
    /\ id > watermark
    /\ watermark' = id
    /\ UNCHANGED <<window, acked>>

(* The ids a commit may acknowledge. *)
Committable == {id \in window : id <= watermark}

(* Some committable ids S are acknowledged.  The client learns of all, some *)
(* or none of that, and keeps the rest in its window.                      *)
Commit ==
    \E S \in SUBSET Committable :
        /\ acked' = acked \cup S
        /\ window' \in SUBSET window
        /\ window \ S \subseteq window'
        /\ UNCHANGED watermark

Next == (\E id \in Ids : Deliver(id) \/ Mark(id)) \/ Commit

Spec == Init /\ [][Next]_absVars
=============================================================================
