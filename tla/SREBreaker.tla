----------------------------- MODULE SREBreaker -----------------------------
(***************************************************************************)
(* stability/circuitbreaker/sre: requests are counted in a rolling window,  *)
(* 1 for a success and 0 for a failure; Allow drops some of them when the   *)
(* successes fall behind.  k is K100 / 100.                                 *)
(***************************************************************************)
EXTENDS RollingWindow

CONSTANTS MinRequests,   \* b.request
          K100           \* 100 / success

VARIABLES state, verdict \* the last Allow

vars == <<wvars, state, verdict>>

Init == WindowInit /\ state = "closed" /\ verdict = "none"
-----------------------------------------------------------------------------
(* getStat: what Reduce iterates over. *)
getStat == [success |-> Sum(Read), total |-> Len(Read)]

Healthy(s) == s.total < MinRequests \/ 100 * s.total < K100 * s.success

(* Allow: dropProb is positive only if total exceeds requests. *)
Allow ==
    /\ Reduce
    /\ LET s == getStat IN
       \/ Healthy(s) /\ state' = "closed" /\ verdict' = "allowed"
       \/ /\ ~Healthy(s) /\ state' = "open"
          /\ verdict' \in {"allowed"} \cup (IF 100 * s.total > K100 * s.success THEN {"dropped"} ELSE {})

(* MarkSuccess and MarkFailed. *)
Mark(v) == Add(v) /\ UNCHANGED <<state, verdict>>

Next == (Tick /\ UNCHANGED <<state, verdict>>) \/ (\E v \in Values : Mark(v)) \/ Allow
Spec == Init /\ [][Next]_vars
-----------------------------------------------------------------------------
RecentSuccess == Sum(Values_(Recent))
(* What the window should let the breaker do: drop only when there are      *)
(* enough requests and too few successes among the recent ones.             *)
Deserved == Len(Recent) >= MinRequests /\ 100 * Len(Recent) > K100 * RecentSuccess

(* A request is dropped only for the recent ones, as long as no Allow has   *)
(* met a span before.                                                       *)
FirstDropDeserved == [][Allow /\ ~moved /\ verdict' = "dropped" => Deserved]_vars
=============================================================================
