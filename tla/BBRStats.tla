------------------------------ MODULE BBRStats ------------------------------
(***************************************************************************)
(* The statistics behind BBR's limits: maxPass and minRt over the buckets   *)
(* that the rolling window's iterator yields (at most Bucket of them, the   *)
(* newest last), their caches, and maxInFlight.  A bucket is the sequence   *)
(* of its response times, so its length is its number of passed requests.   *)
(***************************************************************************)
EXTENDS Integers, Sequences, SequencesExt, FiniteSetsExt

CONSTANTS Bucket, BucketDuration, PerSecond,
          Buckets, Scale    \* what a bucket may hold; milliseconds to a second

VARIABLES view,         \* what Reduce iterates over now
          past,         \* history: what it iterated over in the last BucketDuration ticks
          maxPASSCache, minRtCache,   \* with the age of the value, or Nil
          stat          \* what Stat returned last, since the tick

vars == <<view, past, maxPASSCache, minRtCache, stat>>

Nil == [val |-> 0, age |-> BucketDuration]
Views == SeqOf(Buckets, Bucket)
Idle == [maxPass |-> 1, minRt |-> 1, maxInFlight |-> 0]

Init == /\ view \in Views /\ past = {view} /\ maxPASSCache = Nil /\ minRtCache = Nil /\ stat = Idle

(* Both loops stop before the Bucket-th bucket, the one still being filled. *)
Completed(v) == SubSeq(v, 1, IF Len(v) < Bucket THEN Len(v) ELSE Bucket - 1)

RawMaxPass(v) == FoldSeq(LAMBDA b, m : IF Len(b) > m THEN Len(b) ELSE m, 1, Completed(v))

Total(b) == FoldSeq(LAMBDA t, s : t + s, 0, b)
Ceil(a, b) == (a + b - 1) \div b
(* Ceil of the smallest average; with no point at all the conversion of     *)
(* MaxFloat64 gives the smallest integer (amd64), which is made 1.          *)
RawMinRt(v) == LET averages == {Ceil(Total(b), Len(b)) : b \in ToSet(Completed(v)) \ {<<>>}} IN
               IF averages = {} THEN 1 ELSE Min(averages)

(* timespan(cache.time) < 1. *)
Fresh(cache) == cache.age < BucketDuration
maxPass == IF Fresh(maxPASSCache) THEN maxPASSCache.val ELSE RawMaxPass(view)
minRt == IF Fresh(minRtCache) THEN minRtCache.val ELSE RawMinRt(view)
Cached(cache, val) == IF Fresh(cache) THEN cache ELSE [val |-> val, age |-> 0]

(* Floor, and the half that is added to it truncated away again. *)
maxInFlight == (maxPass * minRt * PerSecond) \div Scale

Stat == /\ stat' = [maxPass |-> maxPass, minRt |-> minRt, maxInFlight |-> maxInFlight]
        /\ maxPASSCache' = Cached(maxPASSCache, maxPass) /\ minRtCache' = Cached(minRtCache, minRt)
        /\ UNCHANGED <<view, past>>
(* The cooldown asks for maxPass alone: the two caches age apart. *)
AskMaxPass == maxPASSCache' = Cached(maxPASSCache, maxPass) /\ UNCHANGED <<view, past, minRtCache, stat>>

Aged(cache) == [cache EXCEPT !.age = IF @ = BucketDuration THEN @ ELSE @ + 1]
(* A tick: the window slides to any other content. *)
Tick == /\ view' \in Views
        /\ past' = {view, view'} /\ maxPASSCache' = Aged(maxPASSCache) /\ minRtCache' = Aged(minRtCache)
        /\ stat' = Idle

Next == Stat \/ AskMaxPass \/ Tick
Spec == Init /\ [][Next]_vars
-----------------------------------------------------------------------------
(* The largest number of requests that a bucket before the newest passed,   *)
(* and the least average: stated by their bounds.                           *)
IsMaxPass(n, v) ==
    LET full == {i \in DOMAIN v : i < Bucket} IN
    /\ n >= 1 /\ \A i \in full : Len(v[i]) <= n
    /\ n = 1 \/ \E i \in full : Len(v[i]) = n
IsMinRt(r, v) ==
    LET full == {i \in DOMAIN v : i < Bucket /\ v[i] # <<>>} IN
    /\ \A i \in full : r * Len(v[i]) < Total(v[i]) + Len(v[i])
    /\ IF full = {} THEN r = 1 ELSE \E i \in full : Total(v[i]) <= r * Len(v[i])

(* Stat reports the bounds of a window no older than a bucket's duration,   *)
(* without the bucket that is still being filled.                           *)
StatIsRecent == [][Stat => (\E v \in past : IsMaxPass(stat'.maxPass, v)) /\ (\E v \in past : IsMinRt(stat'.minRt, v))]_vars

(* The limit does not shrink below what a completed bucket sustained at the *)
(* least response time, Little's law for whole requests.                    *)
LimitSustains == [][Stat => \E v, w \in past : \A i \in 1..(Bucket - 1) : i \in DOMAIN v =>
                      (stat'.maxInFlight + 1) * Scale > Len(v[i]) * RawMinRt(w) * PerSecond]_vars
=============================================================================
