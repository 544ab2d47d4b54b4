---------------------------- MODULE Acker_proofs ----------------------------
(***************************************************************************)
(* Proofs about Acker, for every set of ids and of flushing goroutines and *)
(* every number of failed XACKs.                                           *)
(*                                                                         *)
(* The invariants of Acker are not inductive by themselves.  What makes    *)
(* them so is where the ids are: everything in pending, in flight or       *)
(* acknowledged was handed out earlier (at most sent), what a flush has    *)
(* taken lies below the watermark, the watermark lies at or below sent and *)
(* covers finished ids only, and the part of pending above the watermark   *)
(* is still ascending although the part below it may not be.               *)
(***************************************************************************)
EXTENDS Acker, TLAPS

(* The handed-out ids bound everything else. *)
Bounded ==
    /\ watermark <= sent
    /\ sent # 0 => sent \in held
    /\ ~recorded => sent \in held
    /\ \A id \in held : id <= sent
    /\ Image(pending) \subseteq held
    /\ \A f \in Flushers : Image(ackIDs[f]) \subseteq held
    /\ acked \subseteq held
    /\ ~recorded => sent \notin Window \cup acked

(* What is taken or acknowledged, and what is finished, by the watermark. *)
Covered ==
    /\ \A f \in Flushers : \A id \in Image(ackIDs[f]) : id <= watermark
    /\ \A id \in acked : id <= watermark
    /\ \A id \in held : id <= watermark => id \in processed

(* pending is ascending from its first uncovered id on. *)
UncoveredAscending ==
    \A i, j \in DOMAIN pending :
        i < j /\ pending[i] > watermark => pending[i] < pending[j]

IInv ==
    /\ TypeOK
    /\ Bounded
    /\ Covered
    /\ UncoveredAscending
    /\ RecordedIsKept

-----------------------------------------------------------------------------
(* Sequences. *)

(* The elements of a sequence are in its image. *)
LEMMA ImageElements ==
    ASSUME NEW S, NEW s \in Seq(S)
    PROVE  /\ \A i \in 1 .. Len(s) : s[i] \in Image(s) /\ s[i] \in S
           /\ \A e \in Image(s) : \E i \in 1 .. Len(s) : e = s[i]
           /\ Image(s) \subseteq S
BY DEF Image

(* The image of the empty sequence. *)
LEMMA ImageEmpty == Image(<<>>) = {}
BY DEF Image

(* The image of onDeliver's append. *)
LEMMA ImageAppend ==
    ASSUME NEW S, NEW s \in Seq(S), NEW e \in S
    PROVE  Image(Append(s, e)) = Image(s) \cup {e}
<1>1. DOMAIN Append(s, e) = 1 .. Len(s) + 1
  OBVIOUS
<1>2. \A i \in 1 .. Len(s) : Append(s, e)[i] = s[i]
  OBVIOUS
<1>3. Append(s, e)[Len(s) + 1] = e
  OBVIOUS
<1>4. Image(s) \cup {e} \subseteq Image(Append(s, e))
  BY <1>1, <1>2, <1>3 DEF Image
<1>5. ASSUME NEW x \in Image(Append(s, e)) PROVE x \in Image(s) \cup {e}
  <2>1. PICK i \in 1 .. Len(s) + 1 : x = Append(s, e)[i]
    BY <1>1 DEF Image
  <2>2. CASE i = Len(s) + 1
    BY <2>1, <2>2, <1>3
  <2>3. CASE i \in 1 .. Len(s)
    BY <2>1, <2>3, <1>2 DEF Image
  <2> QED
    BY <2>2, <2>3
<1> QED
  BY <1>4, <1>5

(* The image of what a failed flush puts back. *)
LEMMA ImageConcat ==
    ASSUME NEW S, NEW s \in Seq(S), NEW t \in Seq(S)
    PROVE  Image(s \o t) = Image(s) \cup Image(t)
<1>1. /\ DOMAIN (s \o t) = 1 .. Len(s) + Len(t)
      /\ \A i \in 1 .. Len(s) : (s \o t)[i] = s[i]
      /\ \A i \in 1 .. Len(t) : (s \o t)[Len(s) + i] = t[i]
  OBVIOUS
<1>2. Image(s) \subseteq Image(s \o t)
  BY <1>1 DEF Image
<1>3. ASSUME NEW x \in Image(t) PROVE x \in Image(s \o t)
  <2>1. PICK i \in 1 .. Len(t) : x = t[i]
    BY DEF Image
  <2>2. /\ Len(s) + i \in 1 .. Len(s) + Len(t)
        /\ x = (s \o t)[Len(s) + i]
    BY <2>1, <1>1
  <2> QED
    BY <2>2, <1>1 DEF Image
<1>4. ASSUME NEW x \in Image(s \o t) PROVE x \in Image(s) \cup Image(t)
  <2>1. PICK i \in 1 .. Len(s) + Len(t) : x = (s \o t)[i]
    BY <1>1 DEF Image
  <2>2. CASE i \in 1 .. Len(s)
    BY <2>1, <2>2, <1>1 DEF Image
  <2>3. CASE i > Len(s)
    <3>1. i - Len(s) \in 1 .. Len(t) /\ i = Len(s) + (i - Len(s))
      BY <2>3
    <3>2. x = t[i - Len(s)]
      BY <2>1, <3>1, <1>1
    <3> QED
      BY <3>1, <3>2 DEF Image
  <2> QED
    BY <2>2, <2>3
<1> QED
  BY <1>2, <1>3, <1>4

(* The image of what a flush takes and leaves. *)
LEMMA ImageSplit ==
    ASSUME NEW S, NEW s \in Seq(S), NEW n \in 1 .. Len(s)
    PROVE  /\ SubSeq(s, 1, n) \in Seq(S)
           /\ SubSeq(s, n + 1, Len(s)) \in Seq(S)
           /\ Len(SubSeq(s, 1, n)) = n
           /\ Len(SubSeq(s, n + 1, Len(s))) = Len(s) - n
           /\ \A i \in 1 .. n : SubSeq(s, 1, n)[i] = s[i]
           /\ \A i \in 1 .. Len(s) - n : SubSeq(s, n + 1, Len(s))[i] = s[n + i]
           /\ Image(s) = Image(SubSeq(s, 1, n)) \cup Image(SubSeq(s, n + 1, Len(s)))
<1> DEFINE p == SubSeq(s, 1, n)
           q == SubSeq(s, n + 1, Len(s))
<1>1. /\ p \in Seq(S) /\ q \in Seq(S)
      /\ Len(p) = n /\ Len(q) = Len(s) - n
      /\ \A i \in 1 .. n : p[i] = s[i]
      /\ \A i \in 1 .. Len(s) - n : q[i] = s[n + i]
  OBVIOUS
<1> HIDE DEF p, q
<1>2. ASSUME NEW x \in Image(s) PROVE x \in Image(p) \cup Image(q)
  <2>1. PICK i \in 1 .. Len(s) : x = s[i]
    BY DEF Image
  <2>2. CASE i <= n
    <3>1. i \in 1 .. Len(p) /\ x = p[i]
      BY <2>1, <2>2, <1>1
    <3> QED
      BY <3>1, <1>1 DEF Image
  <2>3. CASE i > n
    <3>1. i - n \in 1 .. Len(q) /\ x = q[i - n]
      BY <2>1, <2>3, <1>1
    <3> QED
      BY <3>1, <1>1 DEF Image
  <2> QED
    BY <2>2, <2>3
<1>3. Image(p) \subseteq Image(s)
  BY <1>1 DEF Image
<1>4. ASSUME NEW x \in Image(q) PROVE x \in Image(s)
  <2>1. PICK i \in 1 .. Len(q) : x = q[i]
    BY <1>1 DEF Image
  <2>2. n + i \in 1 .. Len(s) /\ x = s[n + i]
    BY <2>1, <1>1
  <2> QED
    BY <2>2 DEF Image
<1> QED
  BY <1>1, <1>2, <1>3, <1>4 DEF p, q
-----------------------------------------------------------------------------
(* The inductive invariant holds initially and is preserved by each action. *)

(* The initial state. *)
LEMMA InitInv == Init => IInv
<1> SUFFICES ASSUME Init PROVE IInv
  OBVIOUS
<1>1. Image(<<>>) = {}
  BY ImageEmpty
<1>2. TypeOK
  BY IdsAreNumbers, FaultsAssumption DEF Init, TypeOK
<1>3. Window = {}
  BY <1>1 DEF Init, Window
<1>4. Bounded
  BY <1>1, <1>3 DEF Init, Bounded
<1>5. Covered /\ UncoveredAscending /\ RecordedIsKept
  BY <1>1 DEF Init, Covered, UncoveredAscending, RecordedIsKept
<1> QED
  BY <1>2, <1>4, <1>5 DEF IInv

(* The ids in pending are numbers. *)
LEMMA PendingNumbers ==
    ASSUME TypeOK
    PROVE  \A i \in DOMAIN pending : pending[i] \in Nat
<1>1. pending \in Seq(Ids) /\ DOMAIN pending = 1 .. Len(pending)
  BY DEF TypeOK
<1>2. \A i \in 1 .. Len(pending) : pending[i] \in Ids
  BY <1>1
<1> QED
  BY <1>1, <1>2, IdsAreNumbers

(* Facts every step uses. *)
LEMMA WindowBound ==
    ASSUME TypeOK, Bounded
    PROVE  /\ Window \subseteq held
           /\ held \subseteq Ids
           /\ \A id \in Ids : id \in Nat /\ id > 0
           /\ watermark \in Nat /\ sent \in Nat
BY IdsAreNumbers DEF TypeOK, Bounded, Window

(* The reader sends. *)
LEMMA SendInv == \A id \in Ids : IInv /\ Send(id) => IInv'
<1> SUFFICES ASSUME NEW id \in Ids, IInv, Send(id) PROVE IInv'
  OBVIOUS
<1> USE DEF IInv
<1>0. /\ Window \subseteq held /\ held \subseteq Ids
      /\ \A x \in Ids : x \in Nat /\ x > 0
      /\ watermark \in Nat /\ sent \in Nat
  BY WindowBound
<1>1. TypeOK'
  BY DEF TypeOK, Send
<1>2. Window' = Window
  BY DEF Window, Send
<1>3. id \notin held
  BY <1>0 DEF Send, Bounded
<1>4. Bounded'
  <2>1. \A x \in held' : x <= sent'
    BY <1>0 DEF Send, Bounded
  <2>2. watermark' <= sent'
    BY <1>0 DEF Send, Bounded
  <2>3. sent' \notin Window' \cup acked'
    BY <1>0, <1>2, <1>3 DEF Send, Bounded
  <2> QED
    BY <2>1, <2>2, <2>3 DEF Send, Bounded
<1>5. Covered'
  BY <1>0 DEF Send, Bounded, Covered
<1>6. UncoveredAscending'
  BY DEF Send, UncoveredAscending
<1>7. RecordedIsKept'
  BY <1>2, <1>3 DEF Send, RecordedIsKept
<1> QED
  BY <1>1, <1>4, <1>5, <1>6, <1>7

(* The reader records. *)
LEMMA onDeliverInv == IInv /\ onDeliver => IInv'
<1> SUFFICES ASSUME IInv, onDeliver PROVE IInv'
  OBVIOUS
<1> USE DEF IInv
<1>0. /\ Window \subseteq held /\ held \subseteq Ids
      /\ \A x \in Ids : x \in Nat /\ x > 0
      /\ watermark \in Nat /\ sent \in Nat
  BY WindowBound
<1>1. sent \in held /\ sent \in Ids
  BY <1>0 DEF onDeliver, Bounded
<1>2. pending \in Seq(Ids)
  BY DEF TypeOK
<1>3. TypeOK'
  BY <1>1, <1>2 DEF TypeOK, onDeliver
<1>4. Image(pending') = Image(pending) \cup {sent}
  BY <1>1, <1>2, ImageAppend DEF onDeliver
<1>5. Window' = Window \cup {sent}
  BY <1>4 DEF Window, onDeliver
<1>6. Bounded'
  BY <1>1, <1>4 DEF onDeliver, Bounded
<1>7. Covered'
  BY DEF onDeliver, Covered
<1>8. UncoveredAscending'
  <2> SUFFICES ASSUME NEW i \in DOMAIN pending', NEW j \in DOMAIN pending',
                      i < j, pending'[i] > watermark'
               PROVE  pending'[i] < pending'[j]
    BY DEF UncoveredAscending
  <2>1. /\ i \in 1 .. Len(pending) /\ j \in 1 .. Len(pending) + 1
        /\ pending'[i] = pending[i]
    BY <1>1, <1>2 DEF onDeliver
  <2>2. CASE j \in 1 .. Len(pending)
    BY <2>1, <2>2, <1>1, <1>2 DEF onDeliver, UncoveredAscending
  <2>3. CASE j = Len(pending) + 1
    <3>1. pending'[j] = sent
      BY <2>3, <1>1, <1>2 DEF onDeliver
    <3>2. pending[i] \in Image(pending)
      BY <2>1, <1>2, ImageElements
    <3>3. pending[i] \in held /\ pending[i] # sent
      BY <3>2 DEF Bounded, Window, onDeliver
    <3> QED
      BY <2>1, <3>1, <3>3, <1>0 DEF Bounded
  <2> QED
    BY <2>1, <2>2, <2>3
<1>9. RecordedIsKept'
  BY <1>5 DEF onDeliver, RecordedIsKept
<1> QED
  BY <1>3, <1>6, <1>7, <1>8, <1>9

(* A handler finishes. *)
LEMMA FinishInv == \A id \in Ids : IInv /\ Finish(id) => IInv'
<1> SUFFICES ASSUME NEW id \in Ids, IInv, Finish(id) PROVE IInv'
  OBVIOUS
<1> USE DEF IInv
<1>1. TypeOK'
  BY DEF TypeOK, Finish
<1>2. Window' = Window
  BY DEF Window, Finish
<1>3. Bounded'
  BY <1>2 DEF Finish, Bounded
<1>4. Covered'
  BY DEF Finish, Covered
<1>5. UncoveredAscending' /\ RecordedIsKept'
  BY <1>2 DEF Finish, UncoveredAscending, RecordedIsKept
<1> QED
  BY <1>1, <1>3, <1>4, <1>5

(* A handler marks. *)
LEMMA markInv == \A id \in Ids : IInv /\ mark(id) => IInv'
<1> SUFFICES ASSUME NEW id \in Ids, IInv, mark(id) PROVE IInv'
  OBVIOUS
<1> USE DEF IInv
<1>0. /\ Window \subseteq held /\ held \subseteq Ids
      /\ \A x \in Ids : x \in Nat /\ x > 0
      /\ watermark \in Nat /\ sent \in Nat
  BY WindowBound
<1>1. TypeOK'
  BY DEF TypeOK, mark, envVars
<1>2. Window' = Window
  BY DEF Window, mark
<1>3. Bounded'
  BY <1>0, <1>2 DEF mark, envVars, Bounded
<1>4. Covered'
  <2>1. \A x \in held : x <= watermark' => x \in processed
    BY DEF mark
  <2>2. \A x \in held : x <= watermark => x <= watermark'
    BY <1>0 DEF mark
  <2> QED
    BY <2>1, <2>2 DEF mark, envVars, Covered, Bounded
<1>5. UncoveredAscending'
  <2>1. \A i \in DOMAIN pending : pending[i] \in Nat
    BY PendingNumbers
  <2> QED
    BY <1>0, <2>1 DEF mark, UncoveredAscending
<1>6. RecordedIsKept'
  BY <1>2 DEF mark, envVars, RecordedIsKept
<1> QED
  BY <1>1, <1>3, <1>4, <1>5, <1>6

(* Window is the same set before and after a flush takes a prefix, and     *)
(* after a failed flush puts it back.                                      *)
LEMMA flushTakeInv ==
    \A f \in Flushers : IInv /\ flushTake(f) => IInv' /\ Window' = Window
<1> SUFFICES ASSUME NEW f \in Flushers, IInv, flushTake(f)
             PROVE  IInv' /\ Window' = Window
  OBVIOUS
<1> USE DEF IInv
<1>0. /\ Window \subseteq held /\ held \subseteq Ids
      /\ \A x \in Ids : x \in Nat /\ x > 0
      /\ watermark \in Nat /\ sent \in Nat
  BY WindowBound
<1>1. /\ pending \in Seq(Ids)
      /\ ackIDs \in [Flushers -> Seq(Ids)]
  BY DEF TypeOK
<1>2. PICK n \in 1 .. Len(pending) :
        /\ \A i \in 1 .. n : pending[i] <= watermark
        /\ ackIDs' = [ackIDs EXCEPT ![f] = SubSeq(pending, 1, n)]
        /\ pending' = SubSeq(pending, n + 1, Len(pending))
  BY DEF flushTake
<1> DEFINE p == SubSeq(pending, 1, n)
           q == SubSeq(pending, n + 1, Len(pending))
<1>3. /\ p \in Seq(Ids) /\ q \in Seq(Ids)
      /\ Len(p) = n /\ Len(q) = Len(pending) - n
      /\ \A i \in 1 .. n : p[i] = pending[i]
      /\ \A i \in 1 .. Len(pending) - n : q[i] = pending[n + i]
      /\ Image(pending) = Image(p) \cup Image(q)
  BY <1>1, ImageSplit
<1>4. ackIDs' = [ackIDs EXCEPT ![f] = p] /\ pending' = q
  BY <1>2
<1> HIDE DEF p, q
<1>5. TypeOK'
  BY <1>1, <1>3, <1>4 DEF TypeOK, flushTake, envVars
<1>6. \A g \in Flushers : ackIDs'[g] = IF g = f THEN p ELSE ackIDs[g]
  BY <1>1, <1>4
<1>7. Image(ackIDs[f]) = {}
  BY ImageEmpty DEF flushTake
<1>8. Window' = Window
  <2>1. Window' = Image(q) \cup UNION {Image(ackIDs'[g]) : g \in Flushers}
    BY <1>4 DEF Window
  <2>2. UNION {Image(ackIDs'[g]) : g \in Flushers}
          = Image(p) \cup UNION {Image(ackIDs[g]) : g \in Flushers}
    BY <1>6, <1>7
  <2> QED
    BY <2>1, <2>2, <1>3 DEF Window
<1>9. Bounded'
  BY <1>3, <1>4, <1>6, <1>8 DEF flushTake, envVars, Bounded
<1>10. \A x \in Image(p) : x <= watermark
  BY <1>2, <1>3, ImageElements
<1>11. Covered'
  BY <1>6, <1>10 DEF flushTake, envVars, Covered
<1>12. UncoveredAscending'
  <2> SUFFICES ASSUME NEW i \in DOMAIN q, NEW j \in DOMAIN q,
                      i < j, q[i] > watermark
               PROVE  q[i] < q[j]
    BY <1>4 DEF UncoveredAscending, flushTake
  <2>0. i \in 1 .. Len(pending) - n /\ j \in 1 .. Len(pending) - n
    BY <1>3
  <2>1. q[i] = pending[n + i] /\ q[j] = pending[n + j]
    BY <2>0, <1>3
  <2>2. DOMAIN pending = 1 .. Len(pending) /\ Len(pending) \in Nat
    BY <1>1
  <2>3. n + i \in DOMAIN pending /\ n + j \in DOMAIN pending /\ n + i < n + j
    BY <2>0, <2>2
  <2> QED
    BY <2>1, <2>3 DEF UncoveredAscending
<1>13. RecordedIsKept'
  BY <1>8 DEF flushTake, envVars, RecordedIsKept
<1> QED
  BY <1>5, <1>8, <1>9, <1>11, <1>12, <1>13

(* A flush succeeds. *)
LEMMA flushAckedInv == \A f \in Flushers : IInv /\ flushAcked(f) => IInv'
<1> SUFFICES ASSUME NEW f \in Flushers, IInv, flushAcked(f) PROVE IInv'
  OBVIOUS
<1> USE DEF IInv
<1>1. ackIDs \in [Flushers -> Seq(Ids)]
  BY DEF TypeOK
<1>2. \A g \in Flushers : ackIDs'[g] = IF g = f THEN <<>> ELSE ackIDs[g]
  BY <1>1 DEF flushAcked
<1>3. Image(<<>>) = {}
  BY ImageEmpty
<1>4. Image(ackIDs[f]) \subseteq Ids
  BY <1>1, ImageElements
<1>5. TypeOK'
  BY <1>1, <1>4 DEF TypeOK, flushAcked, envVars
<1>6. Window' \subseteq Window
  BY <1>2, <1>3 DEF Window, flushAcked
<1>7. Window \subseteq Window' \cup Image(ackIDs[f])
  BY <1>2 DEF Window, flushAcked
<1>8. Image(ackIDs[f]) \subseteq Window
  BY DEF Window
<1>9. Bounded'
  BY <1>2, <1>3, <1>6, <1>8 DEF flushAcked, envVars, Bounded
<1>10. Covered'
  BY <1>2, <1>3 DEF flushAcked, envVars, Covered
<1>11. UncoveredAscending'
  BY DEF flushAcked, UncoveredAscending
<1>12. RecordedIsKept'
  BY <1>7 DEF flushAcked, envVars, RecordedIsKept
<1> QED
  BY <1>5, <1>9, <1>10, <1>11, <1>12

(* A flush fails and puts back what it took. *)
LEMMA flushFailedInv ==
    \A f \in Flushers : IInv /\ flushFailed(f) => IInv' /\ Window' = Window
<1> SUFFICES ASSUME NEW f \in Flushers, IInv, flushFailed(f)
             PROVE  IInv' /\ Window' = Window
  OBVIOUS
<1> USE DEF IInv
<1>0. /\ Window \subseteq held /\ held \subseteq Ids
      /\ \A x \in Ids : x \in Nat /\ x > 0
      /\ watermark \in Nat /\ sent \in Nat
  BY WindowBound
<1>1. /\ pending \in Seq(Ids)
      /\ ackIDs \in [Flushers -> Seq(Ids)]
      /\ ackIDs[f] \in Seq(Ids)
  BY DEF TypeOK
<1>2. \A g \in Flushers : ackIDs'[g] = IF g = f THEN <<>> ELSE ackIDs[g]
  BY <1>1 DEF flushFailed
<1>3. Image(<<>>) = {}
  BY ImageEmpty
<1>4. Image(ackIDs[f]) \subseteq Ids
  BY <1>1, ImageElements
<1>5. Image(pending') = Image(ackIDs[f]) \cup Image(pending)
  BY <1>1, ImageConcat DEF flushFailed
<1>6. TypeOK'
  BY <1>1, <1>4, FaultsAssumption DEF TypeOK, flushFailed, envVars
<1>7. Window' = Window
  BY <1>2, <1>3, <1>5 DEF Window
<1>8. Image(ackIDs[f]) \subseteq Window
  BY DEF Window
<1>9. Bounded'
  BY <1>2, <1>3, <1>5, <1>7, <1>8 DEF flushFailed, envVars, Bounded
<1>10. Covered'
  BY <1>2, <1>3 DEF flushFailed, envVars, Covered
<1>11. UncoveredAscending'
  <2> DEFINE p == ackIDs[f]
  <2> SUFFICES ASSUME NEW i \in DOMAIN pending', NEW j \in DOMAIN pending',
                      i < j, pending'[i] > watermark
               PROVE  pending'[i] < pending'[j]
    BY DEF UncoveredAscending, flushFailed
  <2>1. /\ p \in Seq(Ids)
        /\ DOMAIN pending' = 1 .. Len(p) + Len(pending)
        /\ \A k \in 1 .. Len(p) : pending'[k] = p[k]
        /\ \A k \in Len(p) + 1 .. Len(p) + Len(pending) :
                pending'[k] = pending[k - Len(p)]
    BY <1>1 DEF flushFailed
  <2>2. \A k \in 1 .. Len(p) : p[k] <= watermark /\ p[k] \in Nat
    BY <1>0, <2>1, ImageElements DEF Covered
  <2> HIDE DEF p
  <2>3. i > Len(p)
    BY <1>0, <2>1, <2>2
  <2>4. /\ i - Len(p) \in DOMAIN pending /\ j - Len(p) \in DOMAIN pending
        /\ i - Len(p) < j - Len(p)
        /\ pending'[i] = pending[i - Len(p)]
        /\ pending'[j] = pending[j - Len(p)]
    BY <1>1, <2>1, <2>3
  <2> QED
    BY <2>4 DEF UncoveredAscending
<1>12. RecordedIsKept'
  BY <1>7 DEF flushFailed, envVars, RecordedIsKept
<1> QED
  BY <1>6, <1>7, <1>9, <1>10, <1>11, <1>12

(* No step of the reader, the handlers or a flush breaks the invariant. *)
LEMMA NextInv == IInv /\ [Next]_vars => IInv'
<1> SUFFICES ASSUME IInv, [Next]_vars PROVE IInv'
  OBVIOUS
<1>1. CASE UNCHANGED vars
  BY <1>1 DEF vars, IInv, TypeOK, Bounded, Covered, UncoveredAscending,
              RecordedIsKept, Window
<1>2. CASE Next
  BY <1>2, SendInv, onDeliverInv, FinishInv, markInv, flushTakeInv,
     flushAckedInv, flushFailedInv DEF Next
<1> QED
  BY <1>1, <1>2

(* IInv is an invariant. *)
LEMMA InvHolds == Spec => []IInv
<1>1. Init => IInv
  BY InitInv
<1>2. IInv /\ [Next]_vars => IInv'
  BY NextInv
<1> QED
  BY <1>1, <1>2, PTL DEF Spec

-----------------------------------------------------------------------------
(* The results. *)

(* The acker's fields and the environment's keep their types. *)
THEOREM TypeCorrect == Spec => []TypeOK
<1>1. IInv => TypeOK
  BY DEF IInv
<1> QED
  BY <1>1, InvHolds, PTL

(* At-least-once: whatever the interleaving of flushes and however many    *)
(* XACKs fail, only ids a handler has finished are acknowledged (flush).   *)
THEOREM AckedOnlyProcessed == Spec => []AckedWereProcessed
<1>1. IInv => AckedWereProcessed
  BY DEF IInv, Bounded, Covered, AckedWereProcessed
<1> QED
  BY <1>1, InvHolds, PTL

(* A recorded id is never forgotten before it is acknowledged (flush's     *)
(* re-queueing).                                                           *)
THEOREM NothingForgotten == Spec => []RecordedIsKept
<1>1. IInv => RecordedIsKept
  BY DEF IInv
<1> QED
  BY <1>1, InvHolds, PTL

(* The loop of flush finds everything the watermark covers, although       *)
(* pending is not ascending as its comment says.                           *)
THEOREM FlushFindsCovered == Spec => []CoveredIsPrefix
<1>1. ASSUME IInv PROVE CoveredIsPrefix
  <2>1. \A i \in DOMAIN pending : pending[i] \in Nat
    BY <1>1, PendingNumbers DEF IInv
  <2>2. watermark \in Nat
    BY <1>1, IdsAreNumbers DEF IInv, TypeOK
  <2> QED
    BY <1>1, <2>1, <2>2 DEF IInv, UncoveredAscending, CoveredIsPrefix
<1> QED
  BY <1>1, InvHolds, PTL

-----------------------------------------------------------------------------
(* Refinement: onDeliver is Deliver, mark is Mark, both outcomes of an XACK *)
(* are a Commit, and everything else leaves the promise's state alone.     *)

(* Every step of the acker is a step of AckWindow, or a stutter. *)
LEMMA StepRefines == IInv /\ [Next]_vars => [Promise!Next]_(Promise!absVars)
<1> SUFFICES ASSUME IInv, [Next]_vars
             PROVE  Promise!Next \/ UNCHANGED <<Window, watermark, acked>>
  BY DEF Promise!absVars
<1>1. CASE UNCHANGED vars
  BY <1>1 DEF vars, Window
<1>2. ASSUME NEW id \in Ids, Send(id) \/ Finish(id)
      PROVE  UNCHANGED <<Window, watermark, acked>>
  BY <1>2 DEF Send, Finish, Window
<1>3. ASSUME NEW id \in Ids, mark(id) PROVE Promise!Next
  <2>1. Promise!Mark(id)
    BY <1>3 DEF mark, Window, Promise!Mark
  <2> QED
    BY <2>1 DEF Promise!Next
<1>4. CASE onDeliver
  <2>1. sent \in Ids /\ sent \notin Window \cup acked
    BY <1>4 DEF onDeliver, IInv, TypeOK, Bounded
  <2>2. Image(pending') = Image(pending) \cup {sent}
    BY <1>4, <2>1, ImageAppend DEF onDeliver, IInv, TypeOK
  <2>3. Window' = Window \cup {sent}
    BY <1>4, <2>2 DEF Window, onDeliver
  <2>4. Promise!Deliver(sent)
    BY <1>4, <2>1, <2>3 DEF onDeliver, Promise!Deliver
  <2> QED
    BY <2>1, <2>4 DEF Promise!Next
<1>5. ASSUME NEW f \in Flushers, flushTake(f)
      PROVE  UNCHANGED <<Window, watermark, acked>>
  BY <1>5, flushTakeInv DEF flushTake
<1>6. ASSUME NEW f \in Flushers
      PROVE  Image(ackIDs[f]) \in SUBSET Promise!Committable
  BY DEF Promise!Committable, IInv, Covered, Window
<1>7. ASSUME NEW f \in Flushers, flushAcked(f) PROVE Promise!Next
  <2>1. \A g \in Flushers : ackIDs'[g] = IF g = f THEN <<>> ELSE ackIDs[g]
    BY <1>7 DEF flushAcked, IInv, TypeOK
  <2>2. Window' \subseteq Window
    BY <1>7, <2>1, ImageEmpty DEF Window, flushAcked
  <2>3. Window \ Image(ackIDs[f]) \subseteq Window'
    BY <1>7, <2>1 DEF Window, flushAcked
  <2>4. Promise!Commit
    BY <1>6, <1>7, <2>2, <2>3 DEF flushAcked, Promise!Commit
  <2> QED
    BY <2>4 DEF Promise!Next
<1>8. ASSUME NEW f \in Flushers, flushFailed(f)
      PROVE  Promise!Next \/ UNCHANGED <<Window, watermark, acked>>
  <2>1. Window' = Window
    BY <1>8, flushFailedInv
  <2>2. CASE acked' = acked
    BY <1>8, <2>1, <2>2 DEF flushFailed
  <2>3. CASE acked' = acked \cup Image(ackIDs[f])
    <3>1. Promise!Commit
      BY <1>6, <1>8, <2>1, <2>3 DEF flushFailed, Promise!Commit
    <3> QED
      BY <3>1 DEF Promise!Next
  <2> QED
    BY <1>8, <2>2, <2>3 DEF flushFailed
<1> QED
  BY <1>1, <1>2, <1>3, <1>4, <1>5, <1>7, <1>8 DEF Next

(* acker.go implements the offset-commit promise: overlapping flushes and  *)
(* failed or half-failed XACKs cannot be told from one atomic commit of    *)
(* part of what the watermark covers.                                      *)
THEOREM AckerRefinesAckWindow == Spec => ImplementsAckWindow
<1>1. Init => Promise!Init
  BY ImageEmpty DEF Init, Promise!Init, Window
<1>2. IInv /\ [Next]_vars => [Promise!Next]_(Promise!absVars)
  BY StepRefines
<1> QED
  BY <1>1, <1>2, InvHolds, PTL DEF Spec, Promise!Spec, ImplementsAckWindow
=============================================================================
