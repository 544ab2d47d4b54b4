---------------------------- MODULE RollingWindow ----------------------------
(***************************************************************************)
(* stability/internal/window: a ring of buckets, each for Width ticks of    *)
(* the clock.  Add rolls the ring to the present; Reduce skips what has     *)
(* passed since the last update, and its timespan moves the last update     *)
(* without touching the ring.                                               *)
(***************************************************************************)
EXTENDS Integers, Sequences, SequencesExt, FiniteSetsExt

CONSTANTS Size, Width, Values, MaxTime,
          MaxAdds       \* points added, at most

VARIABLES now, buckets, offset, lastUpdateTime,
          log,          \* history: every point with the bucket of its time
          result,       \* the last aggregation
          moved         \* history: a Reduce has moved lastUpdateTime

window == <<buckets, offset>>
wvars == <<now, buckets, offset, lastUpdateTime, log, result, moved>>

(* What a reader computes from the points it iterates over. *)
Nothing == [sum |-> 0, count |-> 0, max |-> 0, min |-> 0]

WindowInit ==
    /\ now = 0 /\ buckets = [i \in 0..(Size - 1) |-> <<>>] /\ offset = 0 /\ lastUpdateTime = 0
    /\ log = <<>> /\ result = Nothing /\ moved = FALSE
-----------------------------------------------------------------------------
(* Sum, Avg (as sum and count), Count, Max and Min of aggregations.go. *)
Sum(points) == FoldSeq(LAMBDA p, s : p + s, 0, points)
Largest(points) == IF points = <<>> THEN 0 ELSE FoldSeq(LAMBDA p, m : IF p > m THEN p ELSE m, Head(points), points)
Smallest(points) == IF points = <<>> THEN 0 ELSE FoldSeq(LAMBDA p, m : IF p < m THEN p ELSE m, Head(points), points)
Aggregate(points) == [sum |-> Sum(points), count |-> Len(points), max |-> Largest(points), min |-> Smallest(points)]

timespan == (now - lastUpdateTime) \div Width
Advance == lastUpdateTime' = lastUpdateTime + timespan * Width

(* Iterator(from, count): the points of count buckets around the ring. *)
Iterator(from, count) == FlattenSeq([i \in 1..count |-> buckets[(from + i - 1) % Size]])

(* ResetBuckets(from, count), or ResetWindow. *)
Reset(from, count) == [i \in DOMAIN buckets |-> IF \E k \in 0..(count - 1) : (from + k) % Size = i THEN <<>> ELSE buckets[i]]

Tick == now < MaxTime /\ now' = now + 1 /\ UNCHANGED <<window, lastUpdateTime, log, result, moved>>

(* The faulty variant: one bucket too few is emptied. *)
AddKeepsOne(v) ==
    LET off == IF timespan >= Size THEN 0 ELSE (offset + timespan) % Size
        rolled == IF timespan = 0 THEN buckets ELSE Reset(offset + 1, timespan - 1) IN
    /\ Len(log) < MaxAdds
    /\ buckets' = [rolled EXCEPT ![off] = Append(@, v)] /\ offset' = off /\ Advance
    /\ log' = Append(log, [val |-> v, at |-> now \div Width])
    /\ UNCHANGED <<now, result, moved>>

(* Add: the buckets that have passed are emptied, all of them after Size. *)
Add(v) ==
    LET off == IF timespan >= Size THEN 0 ELSE (offset + timespan) % Size
        rolled == IF timespan >= Size THEN Reset(0, Size) ELSE Reset(offset + 1, timespan) IN
    /\ Len(log) < MaxAdds
    /\ buckets' = [rolled EXCEPT ![off] = Append(@, v)] /\ offset' = off /\ Advance
    /\ log' = Append(log, [val |-> v, at |-> now \div Width])
    /\ UNCHANGED <<now, result, moved>>

(* Reduce: the buckets that are still valid, from the oldest. *)
Read == IF timespan >= Size THEN <<>> ELSE Iterator(offset + timespan + 1, Size - timespan)
Reduce == /\ Advance /\ moved' = (moved \/ timespan > 0)
          /\ result' = Aggregate(Read)
          /\ UNCHANGED <<now, window, log>>

WindowNext == Tick \/ (\E v \in Values : Add(v)) \/ Reduce
-----------------------------------------------------------------------------
(* The points of the window: those whose bucket is one of the last Size. *)
Recent == SelectSeq(log, LAMBDA p : p.at > (now \div Width) - Size)
Values_(points) == [i \in DOMAIN points |-> points[i].val]
Expected == [sum |-> Sum(Values_(Recent)), count |-> Len(Recent),
             max |-> IF Recent = <<>> THEN 0 ELSE Max({p.val : p \in ToSet(Recent)}),
             min |-> IF Recent = <<>> THEN 0 ELSE Min({p.val : p \in ToSet(Recent)})]
=============================================================================
