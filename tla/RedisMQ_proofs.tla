--------------------------- MODULE RedisMQ_proofs ---------------------------
(***************************************************************************)
(* Proofs about RedisMQ, for every set of consumers and every value of the *)
(* bounds: any number of messages, terms, failures and crashes.            *)
(*                                                                         *)
(* Two layers.  TInv is the type invariant with what makes it inductive:   *)
(* the terms begun so far are exactly those with an owner and goroutines,  *)
(* and a reader that is delivering has something left to deliver.  SInv    *)
(* (below) adds what makes Retained inductive: the conclusions that the    *)
(* maintenance loop drew from an earlier XINFO or XPENDING are still true  *)
(* when its XTRIM and XGROUP DELCONSUMER execute.                          *)
(***************************************************************************)
EXTENDS RedisMQ, TLAPS, FiniteSetTheorems, SequenceTheorems, WellFoundedInduction

(* The terms begun so far, and only they, have an owner and goroutines. *)
Allocated ==
    \A t \in Terms :
        /\ t <= terms => owner[t] \in Consumers
        /\ t > terms => /\ owner[t] = Nobody /\ ~live[t]
                        /\ rpc[t] = "off" /\ mpc[t] = "idle"

(* A reader that is delivering has something to deliver. *)
Busy == \A t \in Terms : rpc[t] \in {"send", "record"} => entries[t] # {}

TInv == TypeOK /\ Allocated /\ Busy

-----------------------------------------------------------------------------
(* Least, Greatest and pages. *)

(* A non-empty set of naturals has a least member. *)
LEMMA HasLeast ==
    ASSUME NEW S \in SUBSET Nat, S # {}
    PROVE  \E x \in S : \A y \in S : x <= y
<1>1. PICK x \in S : \A y \in S : ~ (<<y, x>> \in OpToRel(<, Nat))
  BY NatLessThanWellFounded, WFMin, Zenon
<1>2. \A y \in S : ~ (y < x)
  BY <1>1 DEF OpToRel
<1> QED
  BY <1>2

(* Least is that member. *)
LEMMA LeastIs ==
    ASSUME NEW S \in SUBSET Nat, S # {}
    PROVE  Least(S) \in S /\ \A y \in S : Least(S) <= y
BY HasLeast DEF Least

(* Greatest is the greatest member of a bounded set. *)
LEMMA GreatestIs ==
    ASSUME NEW N \in Nat, NEW S \in SUBSET (0 .. N), S # {}
    PROVE  Greatest(S) \in S /\ \A y \in S : y <= Greatest(S)
<1> DEFINE D == {N - x : x \in S}
<1>1. D \subseteq Nat
  OBVIOUS
<1>2. D # {}
  OBVIOUS
<1>3. PICK d \in D : \A e \in D : d <= e
  <2> HIDE DEF D
  <2> QED
    BY <1>1, <1>2, HasLeast
<1>4. PICK x \in S : d = N - x
  OBVIOUS
<1>5. \A y \in S : y <= x
  <2> TAKE y \in S
  <2>1. N - x <= N - y
    BY <1>3, <1>4
  <2> QED
    BY <2>1
<1> QED
  BY <1>4, <1>5 DEF Greatest

(* A page is what the scan meets first: whatever is below a member of the  *)
(* page is in the page too.                                                *)
LEMMA PageIsPrefix ==
    ASSUME NEW N \in Nat, NEW S \in SUBSET (0 .. N), NEW n \in Nat,
           NEW x \in S, NEW y \in Page(S, n), x < y
    PROVE  x \in Page(S, n)
<1> DEFINE below(z) == {w \in S : w < z}
<1>1. y \in S /\ Cardinality(below(y)) < n
  BY DEF Page
<1>2. IsFiniteSet(0 .. N)
  BY FS_Interval
<1>3. IsFiniteSet(below(y))
  BY <1>2, FS_Subset
<1>4. below(x) \subseteq below(y)
  <2>1. x \in Int /\ y \in Int /\ \A w \in S : w \in Int
    BY <1>1
  <2>2. ASSUME NEW w \in S, w < x PROVE w < y
    BY <2>1, <2>2
  <2> QED
    BY <2>2
<1>5. Cardinality(below(x)) <= Cardinality(below(y))
  BY <1>3, <1>4, FS_Subset
<1>6. Cardinality(below(x)) \in Nat /\ Cardinality(below(y)) \in Nat
  BY <1>3, <1>4, FS_Subset, FS_CardinalityType
<1> QED
  BY <1>1, <1>5, <1>6 DEF Page

-----------------------------------------------------------------------------
(* Types. *)

(* The sorts of the constants. *)
LEMMA Numbers ==
    /\ Ids \subseteq Nat /\ Ids \subseteq 0 .. MaxId
    /\ Terms \subseteq Nat /\ MaxId \in Nat /\ MaxTerm \in Nat
    /\ ReadCount \in Nat
BY BoundsAssumption DEF Ids, Terms

(* A watermark, a cursor or a trim bound is a natural number. *)
LEMMA IdOrZero == \A x \in Ids \cup {0} : x \in Nat
BY BoundsAssumption DEF Ids

(* Least, for ids. *)
LEMMA LeastId ==
    ASSUME NEW S \in SUBSET Ids, S # {}
    PROVE  Least(S) \in Ids /\ Least(S) \in S /\ \A y \in S : Least(S) <= y
<1>1. S \in SUBSET Nat
  BY Numbers
<1> QED
  BY <1>1, LeastIs

(* Greatest, for ids. *)
LEMMA GreatestId ==
    ASSUME NEW S \in SUBSET Ids, S # {}
    PROVE  Greatest(S) \in Ids /\ Greatest(S) \in S /\ \A y \in S : y <= Greatest(S)
<1>1. S \in SUBSET (0 .. MaxId) /\ MaxId \in Nat
  BY Numbers
<1> QED
  BY <1>1, GreatestIs

(* A term whose reader or context has started has an owner. *)
LEMMA StartedHasOwner ==
    ASSUME TInv, NEW t \in Terms, live[t] \/ rpc[t] # "off" \/ mpc[t] # "idle"
    PROVE  owner[t] \in Consumers /\ t <= terms
<1>1. terms \in Nat /\ t \in Nat
  BY Numbers DEF TInv, TypeOK, TermType
<1> QED
  BY <1>1 DEF TInv, Allocated

(* The initial state is typed. *)
LEMMA InitTyped == Init => TInv
<1> SUFFICES ASSUME Init PROVE TInv
  OBVIOUS
<1>1. StreamType
  <2>1. /\ last \in 0 .. MaxId /\ stream \subseteq 1 .. last
        /\ base \in 0 .. last /\ gdel \in base .. last
    BY Numbers DEF Init
  <2>2. /\ created \in BOOLEAN
        /\ pel \in [Ids -> Consumers \cup {Nobody}]
        /\ members \subseteq Consumers
        /\ lease \in Consumers \cup {Nobody}
    BY DEF Init
  <2> QED
    BY <2>1, <2>2 DEF StreamType
<1>2. ConsumerType /\ TermType
  BY Numbers DEF Init, ConsumerType, TermType
<1>3. AckType /\ MaintType
  BY BoundsAssumption DEF Init, AckType, MaintType
<1>4. Allocated /\ Busy
  BY Numbers DEF Init, Allocated, Busy, Terms
<1> QED
  BY <1>1, <1>2, <1>3, <1>4 DEF TInv, TypeOK

(* XADD and the expiry of the lease. *)
LEMMA StreamStepsTyped ==
    ASSUME TInv, SendMessage \/ LeaseExpire
    PROVE  TInv'
<1> USE DEF TInv, TypeOK
<1>1. StreamType'
  <2>1. CASE SendMessage
    BY <2>1, Numbers DEF SendMessage, StreamType, groupVars
  <2>2. CASE LeaseExpire
    BY <2>2 DEF LeaseExpire, StreamType, streamVars, groupVars
  <2> QED
    BY <2>1, <2>2
<1>2. UNCHANGED <<consumerVars, electVars, readerVars, ackVars, maintVars, history, faults>>
  BY DEF SendMessage, LeaseExpire
<1>3. ConsumerType' /\ TermType' /\ AckType' /\ MaintType' /\ Allocated' /\ Busy'
  BY <1>2 DEF ConsumerType, TermType, AckType, MaintType, Allocated, Busy,
              consumerVars, electVars, readerVars, ackVars, maintVars, history
<1> QED
  BY <1>1, <1>3

(* XGROUP CREATE and the new consumer. *)
LEMMA NewConsumerTyped == \A c \in Consumers : TInv /\ NewConsumer(c) => TInv'
<1> SUFFICES ASSUME NEW c \in Consumers, TInv, NewConsumer(c) PROVE TInv'
  OBVIOUS
<1> USE DEF TInv, TypeOK, NewConsumer
<1>1. StreamType'
  BY DEF StreamType
<1>2. ConsumerType'
  BY DEF ConsumerType, electVars
<1>3. TermType' /\ AckType' /\ MaintType' /\ Allocated' /\ Busy'
  BY DEF TermType, AckType, MaintType, Allocated, Busy, electVars, readerVars,
         ackVars, maintVars, history
<1> QED
  BY <1>1, <1>2, <1>3

(* A new term: its owner is known before its goroutines start. *)
LEMMA tryLeaseTyped == \A c \in Consumers : TInv /\ tryLease(c) => TInv'
<1> SUFFICES ASSUME NEW c \in Consumers, TInv, tryLease(c) PROVE TInv'
  OBVIOUS
<1> USE DEF TInv, TypeOK, tryLease, startLeader
<1>1. terms + 1 \in Terms /\ terms \in Nat
  BY Numbers DEF TermType, Terms
<1>2. StreamType'
  BY DEF StreamType, streamVars, groupVars
<1>3. ConsumerType'
  BY <1>1 DEF ConsumerType, TermType, Terms
<1>4. TermType'
  BY <1>1 DEF TermType, Terms
<1>5. AckType' /\ MaintType'
  BY <1>1 DEF AckType, MaintType, maintVars, history
<1>6. Allocated'
  BY <1>1, Numbers DEF Allocated, TermType, maintVars
<1>7. Busy'
  BY <1>1 DEF Busy, TermType
<1> QED
  BY <1>2, <1>3, <1>4, <1>5, <1>6, <1>7

(* Steps that change the lease or a context only. *)
LEMMA LeaseStepsTyped ==
    ASSUME TInv,
           \/ \E c \in Consumers : tryLeaseLost(c)
           \/ \E t \in Terms : Renew(t) \/ StepDown(t)
    PROVE  TInv'
<1> USE DEF TInv, TypeOK
<1>1. ASSUME NEW c \in Consumers, tryLeaseLost(c) PROVE TInv'
  <2> USE <1>1 DEF tryLeaseLost
  <2>1. StreamType' /\ ConsumerType'
    BY DEF StreamType, ConsumerType, streamVars, groupVars, consumerVars, electVars
  <2>2. AckType'
    BY BoundsAssumption DEF AckType, Fault, ackVars, history
  <2>3. TermType' /\ MaintType' /\ Allocated' /\ Busy'
    BY DEF TermType, MaintType, Allocated, Busy, electVars, readerVars, maintVars
  <2> QED
    BY <2>1, <2>2, <2>3
<1>2. ASSUME NEW t \in Terms, Renew(t) PROVE TInv'
  <2> USE <1>2 DEF Renew
  <2>1. owner[t] \in Consumers
    BY StartedHasOwner
  <2>2. StreamType' /\ ConsumerType'
    BY <2>1 DEF StreamType, ConsumerType, streamVars, groupVars, consumerVars, electVars
  <2>3. TermType' /\ AckType' /\ MaintType' /\ Allocated' /\ Busy'
    BY DEF TermType, AckType, MaintType, Allocated, Busy, electVars, readerVars,
           ackVars, maintVars, history
  <2> QED
    BY <2>2, <2>3
<1>3. ASSUME NEW t \in Terms, StepDown(t) PROVE TInv'
  <2> USE <1>3 DEF StepDown
  <2>1. StreamType' /\ ConsumerType'
    BY DEF StreamType, ConsumerType, streamVars, groupVars, consumerVars
  <2>2. AckType'
    BY BoundsAssumption DEF AckType, Fault, ackVars, history
  <2>3. TermType' /\ MaintType' /\ Busy'
    BY DEF TermType, MaintType, Busy, readerVars, maintVars
  <2>4. Allocated'
    BY DEF Allocated, TermType, readerVars, maintVars
  <2> QED
    BY <2>1, <2>2, <2>3, <2>4
<1> QED
  BY <1>1, <1>2, <1>3

(* The Redis commands of the reader. *)
LEMMA ClaimTyped ==
    ASSUME TInv, NEW t \in Terms, owner[t] \in Consumers,
           NEW page \in SUBSET Ids, XAutoClaim(t, page),
           UNCHANGED streamVars, UNCHANGED lease
    PROVE  StreamType'
BY DEF TInv, TypeOK, StreamType, XAutoClaim, streamVars

(* XREADGROUP advances within the stream. *)
LEMMA ReadTyped ==
    ASSUME TInv, NEW t \in Terms, owner[t] \in Consumers, ReadExec(t),
           UNCHANGED streamVars, UNCHANGED lease
    PROVE  /\ StreamType'
           /\ Page({id \in stream : id > gdel}, ReadCount) \in SUBSET Ids
<1> DEFINE page == Page({id \in stream : id > gdel}, ReadCount)
<1> USE DEF TInv, TypeOK
<1>0. stream \subseteq Ids
  BY Numbers DEF StreamType, Ids
<1>1. page \in SUBSET Ids /\ \A id \in page : id \in stream /\ id > gdel
  BY <1>0 DEF Page
<1>2. page # {}
  BY DEF ReadExec
<1>3. /\ gdel' = Greatest(page)
      /\ pel' = [id \in Ids |-> IF id \in page THEN owner[t] ELSE pel[id]]
      /\ members' = members \cup {owner[t]}
  BY DEF ReadExec
<1> HIDE DEF page
<1>4. gdel' \in page
  BY <1>1, <1>2, <1>3, GreatestId
<1>5. gdel' \in base .. last
  BY <1>1, <1>4, Numbers DEF StreamType
<1>6. StreamType'
  BY <1>1, <1>3, <1>5 DEF StreamType, streamVars
<1> QED
  BY <1>1, <1>6 DEF page

(* XAUTOCLAIM collects ids. *)
LEMMA claimPageTyped ==
    \A t \in Terms : \A aged \in SUBSET ToScan(t) :
        TInv /\ claimPage(t, aged) => TInv'
<1> SUFFICES ASSUME NEW t \in Terms, NEW aged \in SUBSET ToScan(t), TInv,
                    claimPage(t, aged)
             PROVE  TInv'
  OBVIOUS
<1> USE DEF TInv, TypeOK
<1> DEFINE page == Page(aged, ReadCount)
           next == IF Cardinality(page) < ReadCount THEN {}
                   ELSE {id \in ToScan(t) : id > Greatest(page)}
<1>1. page \in SUBSET Ids /\ next \in SUBSET Ids
  BY DEF Page, ToScan, Pending
<1>2. /\ rpc[t] = "scan"
      /\ XAutoClaim(t, page)
      /\ entries' = [entries EXCEPT ![t] = @ \cup page]
      /\ cursor' = [cursor EXCEPT ![t] = IF next = {} THEN 0 ELSE Least(next)]
      /\ rpc' = [rpc EXCEPT ![t] = Loop(t, IF next = {} THEN "orphans" ELSE "scan")]
      /\ UNCHANGED <<streamVars, lease, consumerVars, electVars, ch, ackVars,
                     maintVars, history, faults>>
  BY DEF claimPage
<1> HIDE DEF page, next
<1>3. next # {} => Least(next) \in Ids
  BY <1>1, LeastId
<1>4. owner[t] \in Consumers
  BY <1>2, StartedHasOwner
<1>5. StreamType'
  BY <1>1, <1>2, <1>4, ClaimTyped
<1>6. ConsumerType' /\ AckType' /\ MaintType'
  BY <1>2 DEF ConsumerType, AckType, MaintType, consumerVars, electVars, ackVars,
              maintVars, history
<1>7. TermType'
  BY <1>1, <1>2, <1>3 DEF TermType, Loop, electVars
<1>8. Allocated' /\ Busy'
  BY <1>2 DEF Allocated, Busy, TermType, Loop, electVars, maintVars
<1> QED
  BY <1>5, <1>6, <1>7, <1>8

(* A failed scan. *)
LEMMA claimScanFailedTyped == \A t \in Terms : TInv /\ claimScanFailed(t) => TInv'
<1> SUFFICES ASSUME NEW t \in Terms, TInv, claimScanFailed(t) PROVE TInv'
  OBVIOUS
<1> USE DEF TInv, TypeOK, claimScanFailed
<1>1. owner[t] \in Consumers
  BY StartedHasOwner
<1>3. ASSUME NEW aged \in SUBSET ToScan(t), XAutoClaim(t, Page(aged, ReadCount))
      PROVE  StreamType'
  <2>1. Page(aged, ReadCount) \in SUBSET Ids
    BY DEF Page, ToScan, Pending
  <2> QED
    BY <1>1, <1>3, <2>1, ClaimTyped
<1>4. StreamType'
  <2>1. CASE UNCHANGED groupVars
    BY <2>1 DEF StreamType, streamVars, groupVars
  <2> QED
    BY <1>3, <2>1
<1>5. ConsumerType' /\ MaintType'
  BY DEF ConsumerType, MaintType, consumerVars, electVars, maintVars
<1>6. AckType'
  BY BoundsAssumption DEF AckType, Fault, ackVars, history
<1>7. TermType'
  BY DEF TermType, Loop, electVars
<1>8. Allocated' /\ Busy'
  BY DEF Allocated, Busy, TermType, Loop, electVars, maintVars
<1> QED
  BY <1>4, <1>5, <1>6, <1>7, <1>8

(* The read loop, with and without its reply. *)
LEMMA readTyped ==
    \A t \in Terms : TInv /\ (readLoop(t) \/ readLoopLost(t)) => TInv'
<1> SUFFICES ASSUME NEW t \in Terms, TInv, readLoop(t) \/ readLoopLost(t)
             PROVE  TInv'
  OBVIOUS
<1> USE DEF TInv, TypeOK
<1> DEFINE page == Page({id \in stream : id > gdel}, ReadCount)
<1>1. rpc[t] = "read" /\ ReadExec(t) /\ UNCHANGED streamVars /\ UNCHANGED lease
  BY DEF readLoop, readLoopLost
<1>2. owner[t] \in Consumers
  BY <1>1, StartedHasOwner
<1>3. StreamType' /\ page \in SUBSET Ids
  BY <1>1, <1>2, ReadTyped
<1>4. page # {}
  BY <1>1 DEF ReadExec
<1>5. \/ entries' = [entries EXCEPT ![t] = page] /\ rpc' = [rpc EXCEPT ![t] = "send"]
      \/ entries' = entries /\ rpc' = [rpc EXCEPT ![t] = Loop(t, "read")]
  BY DEF readLoop, readLoopLost
<1> HIDE DEF page
<1>6. ConsumerType' /\ MaintType'
  BY DEF readLoop, readLoopLost, ConsumerType, MaintType, consumerVars, electVars,
         maintVars
<1>7. AckType'
  BY BoundsAssumption DEF readLoop, readLoopLost, Fault, AckType, ackVars, history
<1>8. TermType'
  BY <1>3, <1>5 DEF readLoop, readLoopLost, TermType, Loop, electVars
<1>9. Allocated'
  BY <1>1, <1>5 DEF readLoop, readLoopLost, Allocated, TermType, Loop, electVars,
                    maintVars
<1>10. Busy'
  BY <1>4, <1>5 DEF Busy, TermType, Loop
<1> QED
  BY <1>3, <1>6, <1>7, <1>8, <1>9, <1>10

(* XPENDING after a scan. *)
LEMMA orphanedPendingTyped == \A t \in Terms : TInv /\ orphanedPending(t) => TInv'
<1> SUFFICES ASSUME NEW t \in Terms, TInv, orphanedPending(t) PROVE TInv'
  OBVIOUS
<1> USE DEF TInv, TypeOK, orphanedPending
<1>1. StreamType' /\ ConsumerType' /\ MaintType'
  BY DEF StreamType, ConsumerType, MaintType, streamVars, groupVars, consumerVars,
         electVars, maintVars
<1>2. TermType' /\ AckType'
  <2>1. TermType'
    BY DEF TermType, Loop, AfterDelivery, electVars
  <2>2. AckType'
    BY BoundsAssumption DEF AckType, Fault, ackVars, history
  <2> QED
    BY <2>1, <2>2
<1>3. Allocated'
  BY DEF Allocated, TermType, electVars, maintVars
<1>4. Busy'
  BY DEF Busy, TermType, Loop, AfterDelivery
<1> QED
  BY <1>1, <1>2, <1>3, <1>4

(* The send into the channel. *)
LEMMA deliverTyped == \A t \in Terms : TInv /\ deliver(t) => TInv'
<1> SUFFICES ASSUME NEW t \in Terms, TInv, deliver(t) PROVE TInv'
  OBVIOUS
<1> USE DEF TInv, TypeOK, deliver
<1>1. Least(entries[t]) \in Ids
  BY LeastId DEF Busy, TermType
<1>2. StreamType' /\ ConsumerType' /\ AckType' /\ MaintType'
  BY DEF StreamType, ConsumerType, AckType, MaintType, streamVars, groupVars,
         consumerVars, electVars, ackVars, maintVars, history
<1>3. TermType'
  BY <1>1 DEF TermType, electVars
<1>4. Allocated' /\ Busy'
  BY DEF Allocated, Busy, TermType, electVars, maintVars
<1> QED
  BY <1>2, <1>3, <1>4

(* The record of the sent entry. *)
LEMMA onDeliverTyped == \A t \in Terms : TInv /\ onDeliver(t) => TInv'
<1> SUFFICES ASSUME NEW t \in Terms, TInv, onDeliver(t) PROVE TInv'
  OBVIOUS
<1> USE DEF TInv, TypeOK, onDeliver
<1>1. Least(entries[t]) \in Ids
  BY LeastId DEF Busy, TermType
<1>2. StreamType' /\ ConsumerType' /\ MaintType'
  BY DEF StreamType, ConsumerType, MaintType, streamVars, groupVars,
         consumerVars, electVars, maintVars
<1>3. AckType'
  BY <1>1 DEF AckType, history
<1>4. TermType'
  BY DEF TermType, Loop, AfterDelivery, electVars
<1>5. Allocated'
  BY DEF Allocated, TermType, electVars, maintVars
<1>6. Busy'
  BY DEF Busy, TermType, Loop, AfterDelivery
<1> QED
  BY <1>2, <1>3, <1>4, <1>5, <1>6

(* The end of a reader. *)
LEMMA endTermTyped == \A t \in Terms : TInv /\ endTerm(t) => TInv'
<1> SUFFICES ASSUME NEW t \in Terms, TInv, endTerm(t) PROVE TInv'
  OBVIOUS
<1> USE DEF TInv, TypeOK, endTerm
<1>1. owner[t] \in Consumers /\ t <= terms
  BY StartedHasOwner
<1>2. StreamType' /\ AckType' /\ MaintType'
  BY DEF StreamType, AckType, MaintType, streamVars, groupVars, ackVars, maintVars,
         history
<1>3. ConsumerType'
  BY <1>1, Numbers DEF ConsumerType, TermType, electVars
<1>4. TermType'
  BY DEF TermType, electVars
<1>5. Allocated' /\ Busy'
  BY <1>1 DEF Allocated, Busy, TermType, electVars, maintVars
<1> QED
  BY <1>2, <1>3, <1>4, <1>5

(* The handler takes a message. *)
LEMMA SubscribeTyped == \A t \in Terms : TInv /\ Subscribe(t) => TInv'
<1> SUFFICES ASSUME NEW t \in Terms, TInv, Subscribe(t) PROVE TInv'
  OBVIOUS
<1> USE DEF TInv, TypeOK, Subscribe
<1>1. owner[t] \in Consumers
  BY Numbers DEF Allocated, TermType
<1>2. ch[t] \in Seq(Ids) /\ ch[t] # <<>>
  BY DEF TermType
<1>3. Head(ch[t]) \in Ids /\ Tail(ch[t]) \in Seq(Ids)
  BY <1>2
<1>4. StreamType' /\ AckType' /\ MaintType'
  BY DEF StreamType, AckType, MaintType, streamVars, groupVars, ackVars, maintVars,
         history
<1>5. ConsumerType'
  <2>1. hand[owner[t]] \in Seq(Terms \X Ids)
    BY <1>1 DEF ConsumerType
  <2>2. Append(hand[owner[t]], <<t, Head(ch[t])>>) \in Seq(Terms \X Ids)
    BY <1>3, <2>1
  <2> QED
    BY <1>1, <2>2 DEF ConsumerType, electVars
<1>6. TermType'
  BY <1>3 DEF TermType, electVars
<1>7. Allocated' /\ Busy'
  BY DEF Allocated, Busy, electVars, maintVars
<1> QED
  BY <1>4, <1>5, <1>6, <1>7

(* The handler finishes a batch. *)
LEMMA MarkTyped ==
    \A c \in Consumers, n \in 1 .. MaxBatch : TInv /\ Mark(c, n) => TInv'
<1> SUFFICES ASSUME NEW c \in Consumers, NEW n \in 1 .. MaxBatch, TInv, Mark(c, n)
             PROVE  TInv'
  OBVIOUS
<1> USE DEF TInv, TypeOK, Mark
<1>1. hand[c] \in Seq(Terms \X Ids) /\ n \in 1 .. Len(hand[c])
  BY DEF ConsumerType
<1>2. \A i \in 1 .. n : hand[c][i] \in Terms \X Ids
  BY <1>1
<1>3. \A i \in 1 .. n : hand[c][i][1] \in Terms /\ hand[c][i][2] \in Ids
  BY <1>2
<1>4. hand[c][n][1] \in Terms /\ hand[c][n][2] \in Ids
  BY <1>1, <1>3
<1>5. SubSeq(hand[c], n + 1, Len(hand[c])) \in Seq(Terms \X Ids)
  BY <1>1
<1>6. StreamType' /\ TermType' /\ MaintType'
  BY DEF StreamType, TermType, MaintType, streamVars, groupVars, electVars,
         readerVars, maintVars
<1>7. ConsumerType'
  BY <1>5 DEF ConsumerType, electVars
<1>8. AckType'
  BY <1>3, <1>4 DEF AckType
<1>9. Allocated' /\ Busy'
  BY DEF Allocated, Busy, electVars, readerVars, maintVars
<1> QED
  BY <1>6, <1>7, <1>8, <1>9

(* The two callers of XACK. *)
LEMMA flushTyped ==
    \A t \in Terms : TInv /\ (flush(t) \/ autoCommitExit(t)) => TInv'
<1> SUFFICES ASSUME NEW t \in Terms, TInv, flush(t) \/ autoCommitExit(t)
             PROVE  TInv'
  OBVIOUS
<1> USE DEF TInv, TypeOK
<1>1. Covered(t) \subseteq Ids
  BY DEF Covered, AckType
<1>2. /\ XAck(t) \/ UNCHANGED <<groupVars, acked>>
      /\ pend' \in {pend, [pend EXCEPT ![t] = @ \ Covered(t)]}
      /\ ac' \in {ac, [ac EXCEPT ![t] = "done"]}
      /\ UNCHANGED faults \/ Fault("reject") \/ Fault("lostAck")
      /\ UNCHANGED <<streamVars, lease, consumerVars, electVars, readerVars, wm,
                     maintVars, processed>>
  BY DEF flush, autoCommitExit
<1>3. StreamType'
  <2>1. CASE XAck(t)
    BY <1>2, <2>1 DEF XAck, StreamType, streamVars
  <2>2. CASE UNCHANGED <<groupVars, acked>>
    BY <1>2, <2>2 DEF StreamType, streamVars, groupVars
  <2> QED
    BY <1>2, <2>1, <2>2
<1>4. AckType'
  <2>1. acked' \subseteq Ids
    BY <1>1, <1>2 DEF XAck, AckType
  <2>2. faults' \in 0 .. MaxFaults
    BY <1>2, BoundsAssumption DEF Fault, AckType
  <2> QED
    BY <1>2, <2>1, <2>2 DEF AckType
<1>5. ConsumerType' /\ TermType' /\ MaintType'
  BY <1>2 DEF ConsumerType, TermType, MaintType, consumerVars, electVars, readerVars,
              maintVars
<1>6. Allocated' /\ Busy'
  BY <1>2 DEF Allocated, Busy, electVars, readerVars, maintVars
<1> QED
  BY <1>3, <1>4, <1>5, <1>6

(* The seven steps of the maintenance loop. *)
LEMMA maintTyped ==
    \A t \in Terms :
        /\ TInv
        /\ \/ trimInfo(t) \/ trimPending(t) \/ trimExec(t) \/ pruneInfo(t)
           \/ \E c \in Consumers : pruneDel(t, c)
           \/ maintFailed(t) \/ maintCancelled(t)
        => TInv'
<1> SUFFICES ASSUME NEW t \in Terms, TInv,
                    \/ trimInfo(t) \/ trimPending(t) \/ trimExec(t) \/ pruneInfo(t)
                    \/ \E c \in Consumers : pruneDel(t, c)
                    \/ maintFailed(t) \/ maintCancelled(t)
             PROVE  TInv'
  OBVIOUS
<1> USE DEF TInv, TypeOK
<1>1. UNCHANGED <<lease, consumerVars, electVars, readerVars, ackVars, history>>
  BY DEF trimInfo, trimPending, trimExec, pruneInfo, pruneDel, maintFailed,
         maintCancelled
<1>2. live[t] \/ mpc[t] # "idle"
  BY DEF trimInfo, trimPending, trimExec, pruneInfo, pruneDel, maintFailed,
         maintCancelled
<1>3. owner[t] \in Consumers /\ t <= terms
  BY <1>2, StartedHasOwner
<1>4. ConsumerType' /\ TermType' /\ Busy'
  BY <1>1 DEF ConsumerType, TermType, Busy, consumerVars, electVars, readerVars
<1>5. AckType'
  <2>1. UNCHANGED faults \/ Fault("reject")
    BY DEF trimInfo, trimPending, trimExec, pruneInfo, pruneDel, maintFailed,
           maintCancelled
  <2> QED
    BY <1>1, <2>1, BoundsAssumption DEF AckType, Fault, ackVars, history
<1>6. gdel \in Ids \cup {0}
  BY Numbers DEF StreamType, Ids
<1>7. Pending # {} => Least(Pending) \in Ids
  BY LeastId DEF Pending
<1>8. /\ MaintType'
      /\ \A u \in Terms : u # t => mpc'[u] = mpc[u]
  <2>1. CASE trimInfo(t)
    BY <2>1, <1>6 DEF trimInfo, MaintType
  <2>2. CASE trimPending(t)
    BY <2>2, <1>7 DEF trimPending, Stage, MaintType
  <2>3. CASE trimExec(t)
    BY <2>3 DEF trimExec, Stage, MaintType
  <2>4. CASE pruneInfo(t)
    BY <2>4 DEF pruneInfo, MaintType, StreamType
  <2>5. ASSUME NEW c \in Consumers, pruneDel(t, c)
        PROVE  MaintType' /\ \A u \in Terms : u # t => mpc'[u] = mpc[u]
    BY <2>5 DEF pruneDel, MaintType
  <2>6. CASE maintFailed(t)
    BY <2>6 DEF maintFailed, MaintType
  <2>7. CASE maintCancelled(t)
    BY <2>7 DEF maintCancelled, MaintType
  <2> QED
    BY <2>1, <2>2, <2>3, <2>4, <2>5, <2>6, <2>7
<1>9. Allocated'
  BY <1>1, <1>3, <1>8, Numbers DEF Allocated, TermType, electVars, readerVars
<1>10. StreamType'
  <2>1. CASE trimExec(t)
    BY <2>1 DEF trimExec, StreamType, groupVars
  <2>2. ASSUME NEW c \in Consumers, pruneDel(t, c) PROVE StreamType'
    BY <2>2 DEF pruneDel, XGroupDelConsumer, StreamType, streamVars, groupVars
  <2>3. CASE trimInfo(t) \/ trimPending(t) \/ pruneInfo(t) \/ maintFailed(t)
              \/ maintCancelled(t)
    BY <2>3 DEF trimInfo, trimPending, pruneInfo, maintFailed, maintCancelled,
                StreamType, streamVars, groupVars
  <2> QED
    BY <2>1, <2>2, <2>3
<1> QED
  BY <1>4, <1>5, <1>8, <1>9, <1>10

(* The end of a consumer. *)
LEMMA endTyped ==
    \A c \in Consumers : TInv /\ (Close(c) \/ CloseDone(c) \/ Crash(c)) => TInv'
<1> SUFFICES ASSUME NEW c \in Consumers, TInv, Close(c) \/ CloseDone(c) \/ Crash(c)
             PROVE  TInv'
  OBVIOUS
<1> USE DEF TInv, TypeOK
<1>1. CASE Close(c)
  <2> USE <1>1 DEF Close
  <2>1. StreamType' /\ AckType' /\ MaintType'
    BY DEF StreamType, AckType, MaintType, streamVars, groupVars, ackVars, maintVars,
           history
  <2>2. ConsumerType'
    BY DEF ConsumerType
  <2>3. TermType'
    BY DEF TermType, readerVars
  <2>4. Allocated' /\ Busy'
    BY DEF Allocated, Busy, readerVars, maintVars
  <2> QED
    BY <2>1, <2>2, <2>3, <2>4
<1>2. CASE CloseDone(c)
  <2> USE <1>2 DEF CloseDone
  <2>1. StreamType'
    BY DEF StreamType, streamVars, groupVars
  <2>2. ConsumerType'
    BY DEF ConsumerType, electVars
  <2>3. AckType'
    BY BoundsAssumption DEF AckType, Fault, ackVars, history
  <2>4. TermType' /\ MaintType' /\ Allocated' /\ Busy'
    BY DEF TermType, MaintType, Allocated, Busy, electVars, readerVars, maintVars
  <2> QED
    BY <2>1, <2>2, <2>3, <2>4
<1>3. CASE Crash(c)
  <2> USE <1>3 DEF Crash
  <2>1. StreamType'
    BY DEF StreamType, streamVars, groupVars
  <2>2. ConsumerType'
    BY Numbers DEF ConsumerType, TermType
  <2>3. TermType'
    <3>1. live' \in [Terms -> BOOLEAN] /\ UNCHANGED <<terms, owner>>
      BY DEF TermType
    <3>2. rpc' \in [Terms -> {"off", "scan", "orphans", "send", "record", "read",
                              "stop", "done"}]
      BY DEF TermType
    <3>3. cursor' \in [Terms -> Ids \cup {0}] /\ entries' \in [Terms -> SUBSET Ids]
      BY DEF TermType
    <3>4. ch' \in [Terms -> Seq(Ids)]
      BY DEF TermType
    <3> QED
      BY <3>1, <3>2, <3>3, <3>4 DEF TermType
  <2>4. AckType'
    BY BoundsAssumption DEF AckType, Fault, history
  <2>5. MaintType'
    BY DEF MaintType
  <2>6. Allocated' /\ Busy'
    BY ConsumersAssumption DEF Allocated, Busy, TermType, MaintType
  <2> QED
    BY <2>1, <2>2, <2>3, <2>4, <2>5, <2>6
<1> QED
  BY <1>1, <1>2, <1>3

(* Every step keeps TInv. *)
LEMMA NextTyped == TInv /\ [Next]_vars => TInv'
<1> SUFFICES ASSUME TInv, [Next]_vars PROVE TInv'
  OBVIOUS
<1>1. CASE UNCHANGED vars
  BY <1>1 DEF TInv, TypeOK, StreamType, ConsumerType, TermType, AckType, MaintType,
              Allocated, Busy, vars, streamVars, groupVars, consumerVars, electVars,
              readerVars, ackVars, maintVars, history
<1>2. CASE SendMessage \/ LeaseExpire
  BY <1>2, StreamStepsTyped
<1>3. ASSUME NEW t \in Terms, TermStep(t) PROVE TInv'
  BY <1>3, LeaseStepsTyped, claimPageTyped, claimScanFailedTyped,
     orphanedPendingTyped, readTyped, deliverTyped, onDeliverTyped, endTermTyped,
     SubscribeTyped, flushTyped, maintTyped DEF TermStep, claimScan
<1>4. ASSUME NEW c \in Consumers, ConsumerStep(c) PROVE TInv'
  BY <1>4, NewConsumerTyped, tryLeaseTyped, LeaseStepsTyped, MarkTyped, endTyped
     DEF ConsumerStep
<1> QED
  BY <1>1, <1>2, <1>3, <1>4 DEF Next

(* TInv is an invariant. *)
LEMMA TInvHolds == Spec => []TInv
<1>1. Init => TInv
  BY InitTyped
<1>2. TInv /\ [Next]_vars => TInv'
  BY NextTyped
<1> QED
  BY <1>1, <1>2, PTL DEF Spec

(* Types are kept by every step of every goroutine, whatever fails and     *)
(* whoever leads: among them that the group's last-delivered id stays      *)
(* between the "$" of its creation and the end of the stream.              *)
THEOREM TypeCorrect == Spec => []TypeOK
<1>1. TInv => TypeOK
  BY DEF TInv
<1> QED
  BY <1>1, TInvHolds, PTL

-----------------------------------------------------------------------------
(* Retention.  Retained alone is not inductive: XTRIM and XGROUP DELCONSUMER *)
(* act on what an earlier command has read.  The strengthening says that    *)
(* what was read stays good: below a trim's bound everything is            *)
(* acknowledged for good, and a name chosen for pruning belongs to a       *)
(* process that is gone, which nothing can hand an entry any more.  The    *)
(* latter needs ~QuietLive: a name that has been silent for                *)
(* ConsumerIdleTimeout is not that of a standby.                           *)

(* Consumers and terms exist only once the group does. *)
GroupFirst ==
    /\ \A c \in Consumers : life[c] # "off" => created
    /\ terms > 0 => created

(* The readers of a process that is gone have stopped. *)
DeadStops == \A t \in Terms : \A c \in Consumers :
    owner[t] = c /\ Dead(c) => rpc[t] = "done"

(* Only what has been read is pending. *)
PendingWasRead == \A id \in Ids : pel[id] # Nobody => id <= gdel

TrimSafe ==
    \A t \in Terms :
        /\ mpc[t] = "pending" => minID[t] <= gdel
        /\ mpc[t] = "trim" => \A id \in Ids : id > base /\ id < minID[t] => id \in acked

PruneSafe ==
    \A t \in Terms : \A c \in prunes[t] :
        Dead(c) /\ \A id \in Ids : pel[id] # c

(* Retained, in terms of Ids. *)
Kept ==
    created => \A id \in Ids : id > base /\ id <= last =>
        \/ id \in acked
        \/ id \in stream /\ (id > gdel \/ pel[id] # Nobody)

SInv == GroupFirst /\ DeadStops /\ PendingWasRead /\ TrimSafe /\ PruneSafe /\ Kept

(* Kept says the same as Retained. *)
LEMMA KeptIsRetained == TypeOK => (Kept <=> Retained)
<1> SUFFICES ASSUME TypeOK PROVE Kept <=> Retained
  OBVIOUS
<1>1. last \in Nat /\ base \in Nat /\ last <= MaxId
  BY Numbers DEF TypeOK, StreamType
<1>2. \A id : id \in base + 1 .. last <=> id \in Ids /\ id > base /\ id <= last
  BY <1>1, Numbers DEF Ids
<1> QED
  BY <1>2 DEF Kept, Retained

(* Nothing is lost, trimmed or pruned initially. *)
LEMMA InitKept == Init => SInv
BY Numbers DEF Init, SInv, GroupFirst, DeadStops, PendingWasRead, TrimSafe, PruneSafe,
               Kept, Dead

(* Steps that leave the stream, the group, the maintenance loops and every *)
(* life alone, and start no reader.                                        *)
LEMMA FrameKept ==
    ASSUME TInv, SInv,
           UNCHANGED <<streamVars, groupVars, maintVars, acked, life, terms, owner>>,
           \A u \in Terms : rpc[u] = "done" => rpc'[u] = "done"
    PROVE  SInv'
<1> USE DEF SInv
<1>1. GroupFirst' /\ PendingWasRead' /\ TrimSafe' /\ Kept'
  BY DEF GroupFirst, PendingWasRead, TrimSafe, Kept, streamVars, groupVars, maintVars
<1>2. DeadStops' /\ PruneSafe'
  BY DEF DeadStops, PruneSafe, Dead, groupVars, maintVars
<1> QED
  BY <1>1, <1>2

(* The steps of leases, readers and handlers to which this applies. *)
LEMMA QuietKept ==
    ASSUME TInv, SInv,
           \/ LeaseExpire
           \/ \E c \in Consumers : tryLeaseLost(c) \/ \E n \in 1 .. MaxBatch : Mark(c, n)
           \/ \E t \in Terms : \/ Renew(t) \/ StepDown(t) \/ orphanedPending(t)
                               \/ deliver(t) \/ onDeliver(t) \/ endTerm(t)
                               \/ Subscribe(t)
    PROVE  SInv'
<1>1. UNCHANGED <<streamVars, groupVars, maintVars, acked, life, terms, owner>>
  BY DEF LeaseExpire, tryLeaseLost, Mark, Renew, StepDown, orphanedPending, deliver,
         onDeliver, endTerm, Subscribe, electVars, consumerVars, history
<1>2. \A u \in Terms : rpc[u] = "done" => rpc'[u] = "done"
  <2>1. CASE rpc' = rpc
    BY <2>1
  <2>2. ASSUME NEW t \in Terms, orphanedPending(t) \/ deliver(t) \/ onDeliver(t)
                                 \/ endTerm(t)
        PROVE  rpc[t] # "done" /\ \A u \in Terms : u # t => rpc'[u] = rpc[u]
    BY <2>2 DEF orphanedPending, deliver, onDeliver, endTerm, TInv, TypeOK, TermType
  <2> QED
    BY <2>1, <2>2 DEF LeaseExpire, tryLeaseLost, Mark, Renew, StepDown, Subscribe,
                      readerVars
<1> QED
  BY <1>1, <1>2, FrameKept

(* A new message is stored and unread. *)
LEMMA SendKept == TInv /\ SInv /\ SendMessage => SInv'
<1> SUFFICES ASSUME TInv, SInv, SendMessage PROVE SInv'
  OBVIOUS
<1> USE DEF SInv
<1>1. GroupFirst' /\ DeadStops' /\ PendingWasRead' /\ TrimSafe' /\ PruneSafe'
  BY DEF SendMessage, GroupFirst, DeadStops, PendingWasRead, TrimSafe, PruneSafe, Dead,
         groupVars, consumerVars, electVars, readerVars, maintVars, history
<1>2. Kept'
  <2>1. gdel \in Nat /\ last \in Nat /\ gdel <= last
    BY Numbers DEF TInv, TypeOK, StreamType
  <2>2. last' = last + 1 /\ stream' = stream \cup {last + 1}
        /\ UNCHANGED <<created, base, gdel, pel, acked>>
    BY DEF SendMessage, groupVars, history
  <2>3. \A id \in Ids : id <= last' => id <= last \/ id = last + 1
    BY <2>1, <2>2, Numbers
  <2>4. last + 1 > gdel
    BY <2>1
  <2> QED
    BY <2>2, <2>3, <2>4 DEF Kept
<1> QED
  BY <1>1, <1>2

(* The group begins at the end of the stream, before any term. *)
LEMMA NewConsumerKept ==
    \A c \in Consumers : TInv /\ SInv /\ NewConsumer(c) => SInv'
<1> SUFFICES ASSUME NEW c \in Consumers, TInv, SInv, NewConsumer(c) PROVE SInv'
  OBVIOUS
<1> USE DEF SInv
<1>1. UNCHANGED <<last, stream, pel, members, terms, owner, rpc, mpc, minID, prunes, acked>>
  BY DEF NewConsumer, electVars, readerVars, maintVars, history
<1>2. \A d \in Consumers : Dead(d)' => Dead(d)
  BY DEF NewConsumer, Dead, TInv, TypeOK, ConsumerType
<1>3. \A d \in Consumers : Dead(d) => Dead(d)'
  BY DEF NewConsumer, Dead, TInv, TypeOK, ConsumerType
<1>4. GroupFirst'
  BY DEF NewConsumer, GroupFirst
<1>5. DeadStops'
  BY <1>1, <1>2 DEF DeadStops
<1>6. PruneSafe'
  BY <1>1, <1>3 DEF PruneSafe, TInv, TypeOK, MaintType
<1>7. CASE created
  BY <1>1, <1>4, <1>5, <1>6, <1>7
     DEF NewConsumer, PendingWasRead, TrimSafe, Kept
<1>8. CASE ~created
  <2>1. terms = 0
    BY <1>8, Numbers DEF GroupFirst, TInv, TypeOK, TermType
  <2>2. \A t \in Terms : mpc[t] = "idle"
    BY <2>1, Numbers DEF TInv, Allocated, Terms
  <2>3. gdel' = last /\ base' = last
    BY <1>8 DEF NewConsumer
  <2>4. gdel <= last /\ gdel \in Nat /\ last \in Nat
    BY Numbers DEF TInv, TypeOK, StreamType
  <2>5. PendingWasRead'
    BY <1>1, <2>3, <2>4, Numbers DEF PendingWasRead
  <2>6. TrimSafe'
    BY <1>1, <2>2 DEF TrimSafe
  <2>7. Kept'
    BY <1>1, <2>3, <2>4, Numbers DEF Kept
  <2> QED
    BY <1>4, <1>5, <1>6, <2>5, <2>6, <2>7
<1> QED
  BY <1>7, <1>8

(* A new term belongs to a consumer that is up. *)
LEMMA tryLeaseKept == \A c \in Consumers : TInv /\ SInv /\ tryLease(c) => SInv'
<1> SUFFICES ASSUME NEW c \in Consumers, TInv, SInv, tryLease(c) PROVE SInv'
  OBVIOUS
<1> USE DEF SInv
<1>1. UNCHANGED <<streamVars, groupVars, maintVars, acked, life>>
  BY DEF tryLease, history
<1>2. created
  BY DEF tryLease, GroupFirst
<1>3. GroupFirst' /\ PendingWasRead' /\ TrimSafe' /\ PruneSafe' /\ Kept'
  BY <1>1, <1>2 DEF GroupFirst, PendingWasRead, TrimSafe, PruneSafe, Kept, Dead,
                    streamVars, groupVars, maintVars
<1>4. ~Dead(c)
  BY DEF tryLease, Dead
<1>5. DeadStops'
  BY <1>1, <1>4 DEF DeadStops, Dead, tryLease, startLeader, TInv, TypeOK, TermType
<1> QED
  BY <1>3, <1>5

(* Entries move to a reader that runs, hence to nobody who is dead. *)
LEMMA ClaimKept ==
    ASSUME TInv, SInv, NEW t \in Terms, rpc[t] = "scan",
           NEW page \in SUBSET Pending, XAutoClaim(t, page),
           UNCHANGED <<streamVars, maintVars, acked, life, terms, owner>>,
           \A u \in Terms : rpc[u] = "done" => rpc'[u] = "done"
    PROVE  SInv'
<1> USE DEF SInv
<1>1. owner[t] \in Consumers /\ owner[t] # Nobody
  BY StartedHasOwner, ConsumersAssumption
<1>2. ~Dead(owner[t])
  BY <1>1 DEF DeadStops
<1>3. \A id \in Ids : /\ pel[id] # Nobody <=> pel'[id] # Nobody
                      /\ pel'[id] = pel[id] \/ pel'[id] = owner[t]
  BY <1>1 DEF XAutoClaim, Pending
<1>4. gdel' = gdel
  BY DEF XAutoClaim
<1>5. GroupFirst' /\ DeadStops' /\ PendingWasRead' /\ TrimSafe' /\ Kept'
  BY <1>3, <1>4 DEF GroupFirst, DeadStops, PendingWasRead, TrimSafe, Kept, Dead,
                    streamVars, maintVars
<1>6. PruneSafe'
  BY <1>2, <1>3 DEF PruneSafe, Dead, maintVars
<1> QED
  BY <1>5, <1>6

(* A scan, failed or not. *)
LEMMA claimScanKept ==
    \A t \in Terms : TInv /\ SInv /\ (claimScan(t) \/ claimScanFailed(t)) => SInv'
<1> SUFFICES ASSUME NEW t \in Terms, TInv, SInv, claimScan(t) \/ claimScanFailed(t)
             PROVE  SInv'
  OBVIOUS
<1>1. /\ rpc[t] = "scan"
      /\ UNCHANGED <<streamVars, maintVars, acked, life, terms, owner>>
  BY DEF claimScan, claimPage, claimScanFailed, consumerVars, electVars, history
<1>2. \A u \in Terms : rpc[u] = "done" => rpc'[u] = "done"
  BY <1>1 DEF claimScan, claimPage, claimScanFailed, TInv, TypeOK, TermType
<1>3. \/ UNCHANGED groupVars
      \/ \E aged \in SUBSET ToScan(t) : XAutoClaim(t, Page(aged, ReadCount))
  BY DEF claimScan, claimPage, claimScanFailed
<1>4. CASE UNCHANGED groupVars
  BY <1>1, <1>2, <1>4, FrameKept
<1>5. ASSUME NEW aged \in SUBSET ToScan(t), XAutoClaim(t, Page(aged, ReadCount))
      PROVE  SInv'
  <2>1. Page(aged, ReadCount) \in SUBSET Pending
    BY DEF Page, ToScan
  <2> QED
    BY <1>1, <1>2, <1>5, <2>1, ClaimKept
<1> QED
  BY <1>3, <1>4, <1>5

(* XREADGROUP advances over exactly the entries it makes pending. *)
LEMMA readKept ==
    \A t \in Terms : TInv /\ SInv /\ (readLoop(t) \/ readLoopLost(t)) => SInv'
<1> SUFFICES ASSUME NEW t \in Terms, TInv, SInv, readLoop(t) \/ readLoopLost(t)
             PROVE  SInv'
  OBVIOUS
<1> USE DEF SInv
<1> DEFINE new == {id \in stream : id > gdel}
           page == Page(new, ReadCount)
<1>1. /\ rpc[t] = "read"
      /\ ReadExec(t)
      /\ UNCHANGED <<streamVars, maintVars, acked, life, terms, owner>>
  BY DEF readLoop, readLoopLost, consumerVars, electVars, history
<1>2. \A u \in Terms : rpc[u] = "done" => rpc'[u] = "done"
  BY <1>1 DEF readLoop, readLoopLost, TInv, TypeOK, TermType
<1>3. owner[t] \in Consumers /\ owner[t] # Nobody /\ ~Dead(owner[t])
  BY <1>1, StartedHasOwner, ConsumersAssumption DEF DeadStops
<1>4. new \in SUBSET Ids /\ new \in SUBSET (0 .. MaxId)
  <2>1. last \in 0 .. MaxId /\ stream \subseteq 1 .. last
    BY DEF TInv, TypeOK, StreamType
  <2>2. stream \subseteq Ids
    BY <2>1, Numbers DEF Ids
  <2> QED
    BY <2>2, Numbers
<1>5. page \in SUBSET Ids /\ page \subseteq new /\ page # {}
  BY <1>1, <1>4 DEF Page, ReadExec
<1>6. /\ gdel' = Greatest(page)
      /\ pel' = [id \in Ids |-> IF id \in page THEN owner[t] ELSE pel[id]]
  BY <1>1 DEF ReadExec
<1>7. \A x \in new, y \in page : x < y => x \in page
  BY <1>4, Numbers, PageIsPrefix
<1>8. /\ gdel' \in page /\ \A id \in page : id <= gdel'
      /\ gdel \in Nat /\ gdel' \in Nat
  <2> HIDE DEF page
  <2>1. gdel' \in page /\ gdel' \in Ids /\ \A id \in page : id <= gdel'
    BY <1>5, <1>6, GreatestId
  <2>2. gdel \in Nat
    BY Numbers DEF TInv, TypeOK, StreamType
  <2> QED
    BY <2>1, <2>2, Numbers
<1>9. gdel' > gdel
  BY <1>5, <1>8
<1> HIDE DEF page
<1>10. \A id \in new : id <= gdel' => id \in page
  BY <1>4, <1>7, <1>8, Numbers
<1>11. GroupFirst' /\ DeadStops'
  BY <1>1, <1>2 DEF GroupFirst, DeadStops, Dead, streamVars
<1>12. PendingWasRead'
  <2> SUFFICES ASSUME NEW id \in Ids, pel'[id] # Nobody PROVE id <= gdel'
    BY DEF PendingWasRead
  <2>1. CASE id \in page
    BY <1>8, <2>1
  <2>2. CASE id \notin page
    <3>1. pel[id] # Nobody
      BY <1>6, <2>2
    <3>2. id <= gdel /\ id \in Nat
      BY <3>1, Numbers DEF PendingWasRead
    <3> QED
      BY <1>8, <1>9, <3>2
  <2> QED
    BY <2>1, <2>2
<1>13. TrimSafe'
  <2>1. \A u \in Terms : minID[u] \in Nat
    <3>1. \A u \in Terms : minID[u] \in Ids \cup {0}
      BY DEF TInv, TypeOK, MaintType
    <3> QED
      BY <3>1, IdOrZero
  <2> QED
    BY <1>1, <1>8, <1>9, <2>1 DEF TrimSafe, streamVars, maintVars
<1>14. PruneSafe'
  BY <1>1, <1>3, <1>6 DEF PruneSafe, Dead, maintVars
<1>15. Kept'
  <2> SUFFICES ASSUME created, NEW id \in Ids, id > base, id <= last, id \notin acked
               PROVE  id \in stream /\ (id > gdel' \/ pel'[id] # Nobody)
    BY <1>1 DEF Kept, streamVars
  <2>1. id \in stream /\ (id > gdel \/ pel[id] # Nobody)
    BY DEF Kept
  <2>2. CASE id > gdel /\ id <= gdel'
    BY <1>3, <1>6, <1>10, <2>1, <2>2
  <2>3. CASE id > gdel'
    BY <2>1, <2>3
  <2>4. CASE pel[id] # Nobody
    BY <1>3, <1>6, <2>1, <2>4
  <2> QED
    BY <1>8, <2>1, <2>2, <2>3, <2>4, Numbers
<1> QED
  BY <1>11, <1>12, <1>13, <1>14, <1>15

(* What leaves the PEL by XACK is acknowledged. *)
LEMMA flushKept ==
    \A t \in Terms : TInv /\ SInv /\ (flush(t) \/ autoCommitExit(t)) => SInv'
<1> SUFFICES ASSUME NEW t \in Terms, TInv, SInv, flush(t) \/ autoCommitExit(t)
             PROVE  SInv'
  OBVIOUS
<1> USE DEF SInv
<1>1. UNCHANGED <<streamVars, maintVars, life, terms, owner, rpc>>
  BY DEF flush, autoCommitExit, consumerVars, electVars, readerVars
<1>2. CASE UNCHANGED groupVars /\ UNCHANGED acked
  BY <1>1, <1>2, FrameKept
<1>3. CASE XAck(t)
  <2>1. /\ \A id \in Ids : pel'[id] = IF id \in Covered(t) THEN Nobody ELSE pel[id]
        /\ acked' = acked \cup Covered(t) /\ gdel' = gdel
    BY <1>3 DEF XAck
  <2>2. GroupFirst' /\ DeadStops' /\ PendingWasRead' /\ TrimSafe' /\ Kept'
    BY <1>1, <2>1 DEF GroupFirst, DeadStops, PendingWasRead, TrimSafe, Kept, Dead,
                      streamVars, maintVars
  <2>3. \A u \in Terms : prunes[u] \subseteq Consumers
    BY DEF TInv, TypeOK, MaintType
  <2>4. PruneSafe'
    BY <1>1, <2>1, <2>3, ConsumersAssumption DEF PruneSafe, Dead, maintVars
  <2> QED
    BY <2>2, <2>4
<1> QED
  BY <1>2, <1>3 DEF flush, autoCommitExit

(* What is not pending and has been read is acknowledged. *)
LEMMA ReadIsPendingOrAcked ==
    ASSUME TInv, Kept, created,
           NEW id \in Ids, id > base, id <= gdel, pel[id] = Nobody
    PROVE  id \in acked
<1>1. gdel \in Nat /\ last \in Nat /\ gdel <= last /\ id \in Nat
  BY Numbers DEF TInv, TypeOK, StreamType
<1>2. id <= last /\ ~(id > gdel)
  BY <1>1
<1> QED
  BY <1>2 DEF Kept

(* XINFO GROUPS and XPENDING find a bound below which all is acknowledged. *)
LEMMA trimKept ==
    \A t \in Terms : TInv /\ SInv /\ (trimInfo(t) \/ trimPending(t)) => SInv'
<1> SUFFICES ASSUME NEW t \in Terms, TInv, SInv, trimInfo(t) \/ trimPending(t)
             PROVE  SInv'
  OBVIOUS
<1> USE DEF SInv
<1>1. UNCHANGED <<streamVars, groupVars, prunes, acked, life, terms, owner, rpc>>
  BY DEF trimInfo, trimPending, consumerVars, electVars, readerVars, history
<1>2. GroupFirst' /\ DeadStops' /\ PendingWasRead' /\ PruneSafe' /\ Kept'
  BY <1>1 DEF GroupFirst, DeadStops, PendingWasRead, PruneSafe, Kept, Dead,
              streamVars, groupVars
<1>3. created
  <2>1. t <= terms /\ t \in Terms
    BY StartedHasOwner DEF trimInfo, trimPending
  <2>2. terms \in Nat /\ t \in Nat /\ t > 0
    BY Numbers DEF TInv, TypeOK, TermType, Terms
  <2> QED
    BY <2>1, <2>2 DEF GroupFirst
<1>4. gdel \in Nat /\ \A id \in Ids : id \in Nat
  BY Numbers DEF TInv, TypeOK, StreamType
<1>5. \A u \in Terms : u # t => mpc'[u] = mpc[u] /\ minID'[u] = minID[u]
  BY DEF trimInfo, trimPending, TInv, TypeOK, MaintType
<1>6. ASSUME mpc'[t] = "pending" PROVE minID'[t] <= gdel
  BY <1>4, <1>6 DEF trimInfo, trimPending, Stage, TInv, TypeOK, MaintType
<1>7. ASSUME mpc'[t] = "trim", NEW id \in Ids, id > base, id < minID'[t]
      PROVE  id \in acked
  <2>1. CASE trimInfo(t)
    <3>1. minID'[t] = gdel /\ Pending = {}
      BY <1>7, <2>1 DEF trimInfo, TInv, TypeOK, MaintType
    <3>2. id <= gdel /\ pel[id] = Nobody
      BY <1>4, <1>7, <3>1 DEF Pending
    <3> QED
      BY <1>3, <1>7, <3>2, ReadIsPendingOrAcked
  <2>2. CASE trimPending(t)
    <3>1. minID[t] <= gdel /\ minID[t] \in Nat
      <4>1. minID[t] \in Ids \cup {0}
        BY DEF TInv, TypeOK, MaintType
      <4> QED
        BY <2>2, <4>1, Numbers DEF trimPending, TrimSafe
    <3>2. CASE Pending = {}
      <4>1. minID'[t] = minID[t]
        BY <2>2, <3>2 DEF trimPending, TInv, TypeOK, MaintType
      <4>2. id <= gdel /\ pel[id] = Nobody
        BY <1>4, <1>7, <3>1, <3>2, <4>1 DEF Pending
      <4> QED
        BY <1>3, <1>7, <4>2, ReadIsPendingOrAcked
    <3>3. CASE Pending # {}
      <4>1. minID'[t] = Least(Pending)
        BY <2>2, <3>3 DEF trimPending, TInv, TypeOK, MaintType
      <4>2. /\ Least(Pending) \in Pending
            /\ \A y \in Pending : Least(Pending) <= y
            /\ Least(Pending) \in Nat
        <5>1. Pending \in SUBSET Ids
          BY DEF Pending
        <5> QED
          BY <3>3, <5>1, LeastId, Numbers
      <4>3. Least(Pending) <= gdel
        BY <4>2 DEF Pending, PendingWasRead
      <4>4. id \notin Pending /\ id <= gdel
        BY <1>4, <1>7, <4>1, <4>2, <4>3
      <4>5. pel[id] = Nobody
        BY <4>4 DEF Pending
      <4> QED
        BY <1>3, <1>7, <4>4, <4>5, ReadIsPendingOrAcked
    <3> QED
      BY <3>2, <3>3
  <2> QED
    BY <2>1, <2>2
<1>8. TrimSafe'
  <2>1. UNCHANGED <<gdel, base, acked>>
    BY <1>1 DEF streamVars, groupVars
  <2> QED
    BY <1>5, <1>6, <1>7, <2>1 DEF TrimSafe
<1> QED
  BY <1>2, <1>8

(* XTRIM drops acknowledged entries only. *)
LEMMA trimExecKept == \A t \in Terms : TInv /\ SInv /\ trimExec(t) => SInv'
<1> SUFFICES ASSUME NEW t \in Terms, TInv, SInv, trimExec(t) PROVE SInv'
  OBVIOUS
<1> USE DEF SInv
<1>1. UNCHANGED <<last, created, base, groupVars, prunes, acked, life, terms, owner, rpc>>
  BY DEF trimExec, consumerVars, electVars, readerVars, history
<1>2. GroupFirst' /\ DeadStops' /\ PendingWasRead' /\ PruneSafe'
  BY <1>1 DEF GroupFirst, DeadStops, PendingWasRead, PruneSafe, Dead, groupVars
<1>3. TrimSafe'
  BY <1>1 DEF trimExec, Stage, TrimSafe, groupVars, TInv, TypeOK, MaintType
<1>4. Kept'
  <2> SUFFICES ASSUME created, NEW id \in Ids, id > base, id <= last, id \notin acked
               PROVE  id \in stream' /\ (id > gdel \/ pel[id] # Nobody)
    BY <1>1 DEF Kept, groupVars
  <2>1. id \in stream /\ (id > gdel \/ pel[id] # Nobody)
    BY DEF Kept
  <2>2. ~(id < minID[t])
    BY DEF trimExec, TrimSafe
  <2>3. id \in Nat /\ minID[t] \in Nat
    <3>1. minID[t] \in Ids \cup {0}
      BY DEF TInv, TypeOK, MaintType
    <3> QED
      BY <3>1, IdOrZero
  <2>4. id >= minID[t]
    BY <2>2, <2>3
  <2> QED
    BY <2>1, <2>4 DEF trimExec
<1> QED
  BY <1>2, <1>3, <1>4

(* XINFO CONSUMERS chooses the names of processes that are gone. *)
LEMMA pruneInfoKept ==
    ASSUME ~QuietLive
    PROVE  \A t \in Terms : TInv /\ SInv /\ pruneInfo(t) => SInv'
<1> SUFFICES ASSUME NEW t \in Terms, TInv, SInv, pruneInfo(t) PROVE SInv'
  OBVIOUS
<1> USE DEF SInv
<1>1. UNCHANGED <<streamVars, groupVars, minID, acked, life, terms, owner, rpc>>
  BY DEF pruneInfo, consumerVars, electVars, readerVars, history
<1>2. GroupFirst' /\ DeadStops' /\ PendingWasRead' /\ Kept'
  BY <1>1 DEF GroupFirst, DeadStops, PendingWasRead, Kept, Dead, streamVars, groupVars
<1>3. TrimSafe'
  BY <1>1 DEF pruneInfo, TrimSafe, streamVars, groupVars, TInv, TypeOK, MaintType
<1>4. \A u \in Terms : u # t => prunes'[u] = prunes[u]
  BY DEF pruneInfo, TInv, TypeOK, MaintType
<1>5. \A c \in prunes'[t] : Dead(c) /\ \A id \in Ids : pel[id] # c
  BY DEF pruneInfo, Silent, PendingOf, TInv, TypeOK, MaintType
<1>6. PruneSafe'
  BY <1>1, <1>4, <1>5 DEF PruneSafe, Dead, groupVars
<1> QED
  BY <1>2, <1>3, <1>6

(* XGROUP DELCONSUMER deletes names without pending entries. *)
LEMMA pruneDelKept ==
    \A t \in Terms, c \in Consumers : TInv /\ SInv /\ pruneDel(t, c) => SInv'
<1> SUFFICES ASSUME NEW t \in Terms, NEW c \in Consumers, TInv, SInv, pruneDel(t, c)
             PROVE  SInv'
  OBVIOUS
<1> USE DEF SInv
<1>1. UNCHANGED <<streamVars, minID, acked, life, terms, owner, rpc>>
  BY DEF pruneDel, consumerVars, electVars, readerVars, history
<1>2. gdel' = gdel /\ \A id \in Ids : pel'[id] = pel[id]
  <2>1. \A id \in Ids : pel[id] # c
    BY DEF pruneDel, PruneSafe
  <2> QED
    BY <2>1 DEF pruneDel, XGroupDelConsumer, groupVars
<1>3. GroupFirst' /\ DeadStops' /\ PendingWasRead' /\ Kept'
  BY <1>1, <1>2 DEF GroupFirst, DeadStops, PendingWasRead, Kept, Dead, streamVars
<1>4. \A u \in Terms : /\ prunes'[u] \subseteq prunes[u]
                       /\ mpc'[u] = mpc[u] \/ mpc'[u] \in {"idle", "del"}
  BY DEF pruneDel, TInv, TypeOK, MaintType
<1>5. TrimSafe'
  BY <1>1, <1>2, <1>4 DEF TrimSafe, streamVars
<1>6. PruneSafe'
  BY <1>1, <1>2, <1>4 DEF PruneSafe, Dead
<1> QED
  BY <1>3, <1>5, <1>6

(* A round that fails or is cancelled trims and prunes nothing. *)
LEMMA maintEndKept ==
    \A t \in Terms : TInv /\ SInv /\ (maintFailed(t) \/ maintCancelled(t)) => SInv'
<1> SUFFICES ASSUME NEW t \in Terms, TInv, SInv, maintFailed(t) \/ maintCancelled(t)
             PROVE  SInv'
  OBVIOUS
<1> USE DEF SInv
<1>1. UNCHANGED <<streamVars, groupVars, acked, life, terms, owner, rpc>>
  BY DEF maintFailed, maintCancelled, consumerVars, electVars, readerVars, history
<1>2. GroupFirst' /\ DeadStops' /\ PendingWasRead' /\ Kept'
  BY <1>1 DEF GroupFirst, DeadStops, PendingWasRead, Kept, Dead, streamVars, groupVars
<1>3. \A u \in Terms : /\ prunes'[u] \subseteq prunes[u]
                       /\ \/ mpc'[u] = mpc[u] /\ minID'[u] = minID[u]
                          \/ mpc'[u] \in {"idle", "info"}
  BY DEF maintFailed, maintCancelled, TInv, TypeOK, MaintType
<1>4. TrimSafe'
  BY <1>1, <1>3 DEF TrimSafe, streamVars, groupVars
<1>5. PruneSafe'
  BY <1>1, <1>3 DEF PruneSafe, Dead, groupVars
<1> QED
  BY <1>2, <1>4, <1>5

(* A process that ends, by Close or by a crash, leaves no reader behind.   *)
LEMMA endKept ==
    \A c \in Consumers :
        TInv /\ SInv /\ (Close(c) \/ CloseDone(c) \/ Crash(c)) => SInv'
<1> SUFFICES ASSUME NEW c \in Consumers, TInv, SInv,
                    Close(c) \/ CloseDone(c) \/ Crash(c)
             PROVE  SInv'
  OBVIOUS
<1> USE DEF SInv
<1>1. UNCHANGED <<streamVars, groupVars, acked, terms, owner>>
  BY DEF Close, CloseDone, Crash, electVars, history
<1>2. \A d \in Consumers : /\ life'[d] # "off" => life[d] # "off"
                           /\ Dead(d) => Dead(d)'
                           /\ d # c => life'[d] = life[d]
  BY DEF Close, CloseDone, Crash, Dead, TInv, TypeOK, ConsumerType
<1>3. GroupFirst' /\ PendingWasRead' /\ Kept'
  BY <1>1, <1>2 DEF GroupFirst, PendingWasRead, Kept, streamVars, groupVars
<1>4. \A u \in Terms : /\ prunes'[u] \subseteq prunes[u]
                       /\ \/ mpc'[u] = mpc[u] /\ minID'[u] = minID[u]
                          \/ mpc'[u] = "idle"
  <2>1. CASE Crash(c)
    BY <2>1 DEF Crash, TInv, TypeOK, MaintType
  <2>2. CASE UNCHANGED maintVars
    BY <2>2 DEF maintVars
  <2> QED
    BY <2>1, <2>2 DEF Close, CloseDone
<1>5. TrimSafe'
  BY <1>1, <1>4 DEF TrimSafe, streamVars, groupVars
<1>6. PruneSafe'
  <2>1. \A u \in Terms : prunes[u] \subseteq Consumers
    BY DEF TInv, TypeOK, MaintType
  <2> QED
    BY <1>1, <1>2, <1>4, <2>1 DEF PruneSafe, groupVars
<1>7. DeadStops'
  <2> SUFFICES ASSUME NEW t \in Terms, NEW d \in Consumers, owner[t] = d, Dead(d)'
               PROVE  rpc'[t] = "done"
    BY <1>1 DEF DeadStops
  <2>1. CASE Close(c)
    <3>1. ~Dead(c)' /\ rpc' = rpc
      BY <2>1 DEF Close, Dead, readerVars, TInv, TypeOK, ConsumerType
    <3> QED
      BY <1>2, <3>1 DEF DeadStops, Dead
  <2>2. CASE CloseDone(c)
    <3>1. rpc' = rpc /\ \A u \in Terms : owner[u] = c => rpc[u] = "done"
      BY <2>2 DEF CloseDone, TermsOf, readerVars
    <3> QED
      BY <1>2, <3>1 DEF DeadStops, Dead
  <2>3. CASE Crash(c)
    <3>1. \A u \in Terms : rpc'[u] = IF owner[u] = c THEN "done" ELSE rpc[u]
      BY <2>3 DEF Crash
    <3> QED
      BY <1>2, <3>1 DEF DeadStops, Dead
  <2> QED
    BY <2>1, <2>2, <2>3
<1> QED
  BY <1>3, <1>5, <1>6, <1>7

(* Every step keeps SInv. *)
LEMMA NextKept == ASSUME ~QuietLive PROVE TInv /\ SInv /\ [Next]_vars => SInv'
<1> SUFFICES ASSUME TInv, SInv, [Next]_vars PROVE SInv'
  OBVIOUS
<1>1. CASE UNCHANGED vars
  <2>1. /\ UNCHANGED <<streamVars, groupVars, maintVars, acked, life, terms, owner>>
        /\ rpc' = rpc
    BY <1>1 DEF vars, consumerVars, electVars, readerVars, history
  <2> QED
    BY <2>1, FrameKept
<1>2. CASE SendMessage \/ LeaseExpire
  BY <1>2, SendKept, QuietKept
<1>3. ASSUME NEW t \in Terms, TermStep(t) PROVE SInv'
  <2>1. CASE \/ Renew(t) \/ StepDown(t) \/ orphanedPending(t) \/ deliver(t)
             \/ onDeliver(t) \/ endTerm(t) \/ Subscribe(t)
    BY <2>1, QuietKept
  <2>2. CASE \/ claimScan(t) \/ claimScanFailed(t) \/ readLoop(t) \/ readLoopLost(t)
             \/ flush(t) \/ autoCommitExit(t)
    BY <2>2, claimScanKept, readKept, flushKept
  <2>3. CASE \/ trimInfo(t) \/ trimPending(t) \/ trimExec(t) \/ pruneInfo(t)
             \/ (\E c \in Consumers : pruneDel(t, c))
             \/ maintFailed(t) \/ maintCancelled(t)
    BY <2>3, trimKept, trimExecKept, pruneInfoKept, pruneDelKept, maintEndKept
  <2> QED
    BY <1>3, <2>1, <2>2, <2>3 DEF TermStep
<1>4. ASSUME NEW c \in Consumers, ConsumerStep(c) PROVE SInv'
  <2>1. CASE tryLeaseLost(c) \/ \E n \in 1 .. MaxBatch : Mark(c, n)
    BY <2>1, QuietKept
  <2> QED
    BY <1>4, <2>1, NewConsumerKept, tryLeaseKept, endKept DEF ConsumerStep
<1> QED
  BY <1>1, <1>2, <1>3, <1>4 DEF Next

(* No message is lost: if a name that has been silent for                  *)
(* ConsumerIdleTimeout is never that of a running process, then whatever   *)
(* was sent after the group was created is acknowledged, or stored and     *)
(* unread or pending, after any number of messages, consumers, terms,      *)
(* crashes and failed commands (trimStream, pruneConsumers).               *)
THEOREM NothingLost == ASSUME ~QuietLive PROVE Spec => []Retained
<1>1. Init => SInv
  BY InitKept
<1>2. TInv /\ SInv /\ [Next]_vars => SInv'
  BY NextKept
<1>3. TInv /\ SInv => Retained
  BY KeptIsRetained DEF TInv, SInv
<1> QED
  BY <1>1, <1>2, <1>3, TInvHolds, PTL DEF Spec

-----------------------------------------------------------------------------
(***************************************************************************)
(* Order, acknowledgement, leadership and reclaim in RedisMQ, for every    *)
(* set of consumers and every value of the bounds.                         *)
(*                                                                         *)
(* Order and acknowledgement hold in every regime of failures: partitions, *)
(* zombie leaders, lost replies and crashes included.                      *)
(* Neither AckedWereProcessed nor DeliveredInOrder is inductive.  A flush  *)
(* acknowledges what the term has recorded up to its watermark, so one has *)
(* to know that whatever is recorded and not finished yet lies above the   *)
(* watermark: it is in a handler's hands or in the channel, or the term    *)
(* has ended and it will never be handed out.  That in turn needs the      *)
(* order of the whole path of a message: watermark, hands, channel,        *)
(* entries still to send, unread entries.  OInv states this path.          *)
(*                                                                         *)
(* OneActive and NothingStranded need leaders that renew in time.  LInv    *)
(* ties the active term to the lease; KInv says that a leader knows of     *)
(* every entry that is pending for it, and that entries of others are      *)
(* pending only as long as its reclaim has not come to them.               *)
(***************************************************************************)

(* The messages of term t that handlers hold. *)
Held(t) ==
    {id \in Ids : \E c \in Consumers : \E i \in DOMAIN hand[c] : hand[c][i] = <<t, id>>}

(* What term t has sent into its channel, as far as it still matters. *)
Sent(t) == Held(t) \cup Image(ch[t]) \cup pend[t] \cup {wm[t]}

(* A handler holds messages of its own consumer's terms. *)
HandOwned ==
    \A c \in Consumers : \A i \in DOMAIN hand[c] : owner[hand[c][i][1]] = c

(* It got those of one term in stream order. *)
HandOrdered ==
    \A c \in Consumers : \A i, j \in DOMAIN hand[c] :
        i < j /\ hand[c][i][1] = hand[c][j][1] => hand[c][i][2] < hand[c][j][2]

(* The path of a message: watermark, hands, channel. *)
PathOrdered(t) ==
    /\ \A i, j \in DOMAIN ch[t] : i < j => ch[t][i] < ch[t][j]
    /\ \A id \in Held(t) \cup Image(ch[t]) : id > wm[t]
    /\ \A h \in Held(t) : \A id \in Image(ch[t]) : h < id

(* Nothing has been sent while the reader still reclaims, and the channel  *)
(* of an ended term is gone.                                               *)
Fresh(t) ==
    /\ rpc[t] \in {"off", "scan", "orphans"} =>
            pend[t] = {} /\ wm[t] = 0 /\ ch[t] = <<>> /\ Held(t) = {}
    /\ rpc[t] = "done" => ch[t] = <<>>

(* Entries the reader still has to send lie above all it has sent. *)
SendOrdered(t) ==
    /\ rpc[t] = "send" => \A id \in entries[t] : \A got \in Sent(t) : id > got
    /\ rpc[t] = "record" =>
            \A id \in entries[t] \ {Least(entries[t])} : \A got \in Sent(t) : id > got

(* Whatever the reader knows of has been read by the group. *)
ReadBefore(t) == \A id \in Sent(t) \cup entries[t] : id <= gdel

(* An entry that is recorded is finished, or in somebody's hands, or in    *)
(* the channel, or the term has ended and it lies above what was handed    *)
(* out.  The entry that is about to be recorded is in one of the first     *)
(* three places.                                                           *)
Accounted(t) ==
    /\ \A id \in pend[t] :
        \/ id \in processed \cup Held(t) \cup Image(ch[t])
        \/ rpc[t] = "done" /\ id > wm[t] /\ \A h \in Held(t) : h < id
    /\ rpc[t] = "record" =>
        Least(entries[t]) \in processed \cup Held(t) \cup Image(ch[t])

InOrder(t) ==
    PathOrdered(t) /\ Fresh(t) /\ SendOrdered(t) /\ ReadBefore(t) /\ Accounted(t)

(* What is pending was read. *)
PendingRead == \A id \in Pending : id <= gdel

OInv ==
    /\ HandOwned /\ HandOrdered /\ PendingRead /\ AckedWereProcessed
    /\ \A t \in Terms : InOrder(t)

-----------------------------------------------------------------------------
(* Facts about one state. *)

(* The sorts of a term's state. *)
LEMMA Sorts ==
    ASSUME TInv, NEW t \in Terms
    PROVE  /\ Ids \subseteq Nat /\ 0 \notin Ids
           /\ entries[t] \subseteq Ids /\ pend[t] \subseteq Ids
           /\ wm[t] \in Nat /\ wm[t] \in Ids \cup {0}
           /\ ch[t] \in Seq(Ids) /\ Image(ch[t]) \subseteq Ids
           /\ Held(t) \subseteq Ids /\ Sent(t) \subseteq Nat
           /\ gdel \in Nat
<1>1. Ids \subseteq Nat /\ 0 \notin Ids
  BY BoundsAssumption DEF Ids
<1>2. /\ entries[t] \subseteq Ids /\ pend[t] \subseteq Ids
      /\ wm[t] \in Ids \cup {0} /\ ch[t] \in Seq(Ids)
  BY DEF TInv, TypeOK, TermType, AckType
<1>3. Image(ch[t]) \subseteq Ids /\ Held(t) \subseteq Ids
  <2>1. Image(ch[t]) \subseteq Ids
    BY <1>2, ElementOfSeq DEF Image
  <2> QED
    BY <2>1 DEF Held
<1>4. gdel \in Nat
  BY Numbers DEF TInv, TypeOK, StreamType
<1>5. wm[t] \in Nat
  BY <1>2, IdOrZero
<1>6. Sent(t) \subseteq Nat
  BY <1>1, <1>2, <1>3, <1>5 DEF Sent
<1> QED
  BY <1>1, <1>2, <1>3, <1>4, <1>5, <1>6

(* The invariant of a term says what DeliveredInOrder asks of it. *)
LEMMA OInvOrders == TInv /\ OInv => DeliveredInOrder
BY Sorts DEF OInv, InOrder, PathOrdered, SendOrdered, Sent, DeliveredInOrder

-----------------------------------------------------------------------------
(* Steps. *)

(* A term keeps its order while its own state stays and the group reads on. *)
LEMMA OtherTerm ==
    ASSUME TInv, NEW t \in Terms, InOrder(t), gdel' \in Nat, gdel <= gdel',
           processed \subseteq processed',
           Held(t)' = Held(t), ch'[t] = ch[t], pend'[t] = pend[t], wm'[t] = wm[t],
           rpc'[t] = rpc[t], entries'[t] = entries[t]
    PROVE  InOrder(t)'
<1>1. Sent(t)' = Sent(t)
  BY DEF Sent, Image
<1>2. PathOrdered(t)' /\ Fresh(t)'
  BY DEF InOrder, PathOrdered, Fresh, Image
<1>3. SendOrdered(t)'
  BY <1>1 DEF InOrder, SendOrdered
<1>4. ReadBefore(t)'
  BY <1>1, Sorts DEF InOrder, ReadBefore
<1>5. Accounted(t)'
  BY DEF InOrder, Accounted, Image
<1> QED
  BY <1>2, <1>3, <1>4, <1>5 DEF InOrder

(* Steps that leave hands and terms alone and only read on or take pending *)
(* entries away.                                                           *)
LEMMA FrameOrder ==
    ASSUME TInv, OInv, gdel' \in Nat, gdel <= gdel', Pending' \subseteq Pending,
           UNCHANGED <<hand, owner, ch, pend, wm, rpc, entries, processed, acked>>
    PROVE  OInv'
<1>1. HandOwned' /\ HandOrdered' /\ AckedWereProcessed'
  BY DEF OInv, HandOwned, HandOrdered, AckedWereProcessed
<1>2. PendingRead'
  BY Numbers DEF OInv, PendingRead, Pending, TInv, TypeOK, StreamType
<1>3. ASSUME NEW t \in Terms PROVE InOrder(t)'
  <2>1. Held(t)' = Held(t)
    BY DEF Held
  <2> QED
    BY <2>1, OtherTerm DEF OInv
<1> QED
  BY <1>1, <1>2, <1>3 DEF OInv

(* The steps of the election, of the producer, of the maintenance and of   *)
(* Close do not touch the path of a message; XGROUP DELCONSUMER only takes *)
(* pending entries away, and XGROUP CREATE starts at the end.              *)
LEMMA QuietOrder ==
    ASSUME TInv, OInv,
           \/ SendMessage \/ LeaseExpire
           \/ \E c \in Consumers : \/ NewConsumer(c) \/ tryLeaseLost(c)
                                   \/ Close(c) \/ CloseDone(c)
           \/ \E t \in Terms : \/ Renew(t) \/ StepDown(t)
                               \/ trimInfo(t) \/ trimPending(t) \/ trimExec(t)
                               \/ pruneInfo(t) \/ maintFailed(t) \/ maintCancelled(t)
                               \/ \E c \in Consumers : pruneDel(t, c)
    PROVE  OInv'
<1>0. gdel \in Nat /\ last \in Nat /\ gdel <= last
  BY Numbers DEF TInv, TypeOK, StreamType
<1>1. CASE \/ SendMessage \/ LeaseExpire
           \/ \E c \in Consumers : \/ NewConsumer(c) \/ tryLeaseLost(c)
                                   \/ Close(c) \/ CloseDone(c)
  <2>1. UNCHANGED <<hand, owner, ch, pend, wm, rpc, entries, processed, acked>>
    BY <1>1 DEF SendMessage, LeaseExpire, NewConsumer, tryLeaseLost, Close, CloseDone,
                consumerVars, electVars, readerVars, ackVars, history
  <2>2. pel' = pel /\ gdel' \in Nat /\ gdel <= gdel'
    BY <1>0, <1>1 DEF SendMessage, LeaseExpire, NewConsumer, tryLeaseLost, Close,
                      CloseDone, groupVars
  <2>3. Pending' \subseteq Pending
    BY <2>2 DEF Pending
  <2> QED
    BY <2>1, <2>2, <2>3, FrameOrder
<1>2. ASSUME NEW t \in Terms,
             \/ Renew(t) \/ StepDown(t) \/ trimInfo(t) \/ trimPending(t)
             \/ trimExec(t) \/ pruneInfo(t) \/ maintFailed(t) \/ maintCancelled(t)
      PROVE  OInv'
  <2>1. UNCHANGED <<hand, owner, ch, pend, wm, rpc, entries, processed, acked>>
    BY <1>2 DEF Renew, StepDown, trimInfo, trimPending, trimExec, pruneInfo,
                maintFailed, maintCancelled, consumerVars, electVars, readerVars,
                ackVars, history
  <2>2. pel' = pel /\ gdel' = gdel
    BY <1>2 DEF Renew, StepDown, trimInfo, trimPending, trimExec, pruneInfo,
                maintFailed, maintCancelled, groupVars
  <2>3. Pending' \subseteq Pending
    BY <2>2 DEF Pending
  <2> QED
    BY <1>0, <2>1, <2>2, <2>3, FrameOrder
<1>3. ASSUME NEW t \in Terms, NEW c \in Consumers, pruneDel(t, c) PROVE OInv'
  <2>1. UNCHANGED <<hand, owner, ch, pend, wm, rpc, entries, processed, acked>>
    BY <1>3 DEF pruneDel, consumerVars, electVars, readerVars, ackVars, history
  <2>2. gdel' = gdel /\ \A id \in Ids : pel'[id] \in {pel[id], Nobody}
    BY <1>3 DEF pruneDel, XGroupDelConsumer, groupVars
  <2>3. Pending' \subseteq Pending
    BY <2>2 DEF Pending
  <2> QED
    BY <1>0, <2>1, <2>2, <2>3, FrameOrder
<1> QED
  BY <1>1, <1>2, <1>3

(* A new term: nobody holds a message of it. *)
LEMMA tryLeaseOrder == \A c \in Consumers : TInv /\ OInv /\ tryLease(c) => OInv'
<1> SUFFICES ASSUME NEW c \in Consumers, TInv, OInv, tryLease(c) PROVE OInv'
  OBVIOUS
<1> DEFINE t == terms + 1
<1>1. /\ t \in Terms /\ owner[t] = Nobody /\ rpc[t] = "off"
  BY Numbers DEF tryLease, TInv, TypeOK, TermType, Allocated, Terms
<1>2. /\ owner' = [owner EXCEPT ![t] = c] /\ rpc' = [rpc EXCEPT ![t] = "scan"]
      /\ UNCHANGED <<hand, ch, pend, wm, entries, processed, acked, gdel, pel>>
  BY DEF tryLease, startLeader, groupVars, history
<1> HIDE DEF t
<1>3. HandOwned'
  <2>1. \A d \in Consumers : \A i \in DOMAIN hand[d] :
            hand[d][i][1] # t /\ hand[d][i][1] \in Terms
    <3> TAKE d \in Consumers
    <3> TAKE i \in DOMAIN hand[d]
    <3>1. hand[d] \in Seq(Terms \X Ids)
      BY DEF TInv, TypeOK, ConsumerType
    <3>2. hand[d][i] \in Terms \X Ids
      BY <3>1
    <3>3. owner[hand[d][i][1]] = d
      BY DEF OInv, HandOwned
    <3> QED
      BY <1>1, <3>2, <3>3, ConsumersAssumption
  <2>2. owner \in [Terms -> Consumers \cup {Nobody}]
    BY DEF TInv, TypeOK, TermType
  <2> QED
    BY <1>2, <2>1, <2>2 DEF OInv, HandOwned
<1>4. HandOrdered' /\ AckedWereProcessed' /\ PendingRead'
  BY <1>2 DEF OInv, HandOrdered, AckedWereProcessed, PendingRead, Pending
<1>5. \A u \in Terms : Held(u)' = Held(u)
  BY <1>2 DEF Held
<1>6. gdel \in Nat
  BY <1>1, Sorts
<1>7. ASSUME NEW u \in Terms PROVE InOrder(u)'
  <2>0. rpc \in [Terms -> {"off", "scan", "orphans", "send", "record", "read", "stop", "done"}]
    BY DEF TInv, TypeOK, TermType
  <2>1. CASE u # t
    <3>1. rpc'[u] = rpc[u]
      BY <1>2, <2>0, <2>1
    <3> QED
      BY <1>2, <1>5, <1>6, <3>1, OtherTerm DEF OInv
  <2>2. CASE u = t
    <3>1. rpc'[u] = "scan" /\ rpc[u] = "off" /\ InOrder(u)
      BY <1>1, <1>2, <2>0, <2>2 DEF OInv
    <3>2. Sent(u)' = Sent(u)
      BY <1>2, <1>5 DEF Sent, Image
    <3>3. PathOrdered(u)' /\ Fresh(u)'
      BY <1>2, <1>5, <3>1 DEF InOrder, PathOrdered, Fresh, Image
    <3>4. SendOrdered(u)' /\ ReadBefore(u)'
      BY <1>2, <3>1, <3>2 DEF InOrder, SendOrdered, ReadBefore
    <3>5. Accounted(u)'
      BY <1>2, <1>5, <3>1 DEF InOrder, Accounted, Fresh
    <3> QED
      BY <3>3, <3>4, <3>5 DEF InOrder
  <2> QED
    BY <2>1, <2>2
<1> QED
  BY <1>3, <1>4, <1>5, <1>7 DEF OInv

(* A step of one reader: the other terms keep their order, the hands and   *)
(* what was finished stay.                                                 *)
LEMMA ReaderStep ==
    ASSUME TInv, OInv, NEW t \in Terms, gdel' \in Nat, gdel <= gdel', PendingRead',
           UNCHANGED <<hand, owner, wm, processed, acked>>,
           \A u \in Terms \ {t} : /\ ch'[u] = ch[u] /\ pend'[u] = pend[u]
                                  /\ rpc'[u] = rpc[u] /\ entries'[u] = entries[u],
           InOrder(t)'
    PROVE  OInv'
<1>1. HandOwned' /\ HandOrdered' /\ AckedWereProcessed'
  BY DEF OInv, HandOwned, HandOrdered, AckedWereProcessed
<1>2. ASSUME NEW u \in Terms \ {t} PROVE InOrder(u)'
  <2>1. Held(u)' = Held(u)
    BY DEF Held
  <2> QED
    BY <2>1, OtherTerm DEF OInv
<1> QED
  BY <1>1, <1>2 DEF OInv

(* Reclaiming: what is claimed was read before, and nothing is sent yet. *)
LEMMA claimOrder ==
    \A t \in Terms : TInv /\ OInv /\ (claimScan(t) \/ claimScanFailed(t)) => OInv'
<1> SUFFICES ASSUME NEW t \in Terms, TInv, OInv, claimScan(t) \/ claimScanFailed(t)
             PROVE  OInv'
  OBVIOUS
<1>1. /\ rpc[t] = "scan" /\ rpc'[t] \in {"scan", "orphans", "stop"}
      /\ entries[t] \subseteq entries'[t]
      /\ \A id \in entries'[t] \ entries[t] : id \in Pending
      /\ \A u \in Terms \ {t} : rpc'[u] = rpc[u] /\ entries'[u] = entries[u]
      /\ UNCHANGED <<hand, owner, ch, pend, wm, processed, acked, gdel>>
      /\ Pending' \subseteq Pending
  <2>0. /\ rpc \in [Terms -> {"off", "scan", "orphans", "send", "record", "read",
                              "stop", "done"}]
        /\ entries \in [Terms -> SUBSET Ids]
    BY DEF TInv, TypeOK, TermType
  <2>1. ASSUME NEW aged \in SUBSET ToScan(t), NEW page, page = Page(aged, ReadCount)
        PROVE  page \subseteq Pending /\ (XAutoClaim(t, page) => Pending' \subseteq Pending)
    <3>1. page \subseteq Pending
      BY <2>1 DEF Page, ToScan
    <3> QED
      BY <3>1 DEF XAutoClaim, Pending
  <2>2. ASSUME NEW aged \in SUBSET ToScan(t), claimPage(t, aged) PROVE <1>1!:
    BY <2>0, <2>1, <2>2 DEF claimPage, XAutoClaim, Loop, consumerVars, electVars,
                            ackVars, history
  <2>3. CASE claimScanFailed(t)
    <3>1. gdel' = gdel /\ Pending' \subseteq Pending
      <4>1. CASE UNCHANGED groupVars
        BY <4>1 DEF groupVars, Pending
      <4>2. ASSUME NEW aged \in SUBSET ToScan(t), XAutoClaim(t, Page(aged, ReadCount))
            PROVE  <3>1!:
        BY <2>1, <4>2 DEF XAutoClaim
      <4> QED
        BY <2>3, <4>1, <4>2 DEF claimScanFailed
    <3> QED
      BY <2>0, <2>3, <3>1 DEF claimScanFailed, Loop, consumerVars, electVars, ackVars,
                              history
  <2> QED
    BY <2>2, <2>3 DEF claimScan
<1>2. gdel \in Nat /\ InOrder(t) /\ PendingRead /\ Held(t)' = Held(t)
  BY <1>1, Sorts DEF OInv, Held
<1>3. Sent(t)' = Sent(t)
  BY <1>1, <1>2 DEF Sent, Image
<1>4. PathOrdered(t)' /\ Fresh(t)' /\ Accounted(t)'
  BY <1>1, <1>2 DEF InOrder, PathOrdered, Fresh, Accounted, Image
<1>5. SendOrdered(t)' /\ ReadBefore(t)'
  BY <1>1, <1>2, <1>3 DEF InOrder, SendOrdered, ReadBefore, PendingRead
<1>6. PendingRead'
  BY <1>1, <1>2 DEF PendingRead
<1>7. InOrder(t)'
  BY <1>4, <1>5 DEF InOrder
<1> QED
  BY <1>1, <1>2, <1>6, <1>7, ReaderStep

(* The first send, if any, is above 0. *)
LEMMA orphansOrder == \A t \in Terms : TInv /\ OInv /\ orphanedPending(t) => OInv'
<1> SUFFICES ASSUME NEW t \in Terms, TInv, OInv, orphanedPending(t) PROVE OInv'
  OBVIOUS
<1>0. rpc \in [Terms -> {"off", "scan", "orphans", "send", "record", "read", "stop", "done"}]
  BY DEF TInv, TypeOK, TermType
<1>1. /\ rpc[t] = "orphans" /\ rpc'[t] \in {"scan", "send", "read", "stop"}
      /\ \A u \in Terms \ {t} : rpc'[u] = rpc[u]
      /\ UNCHANGED <<hand, owner, ch, pend, wm, processed, acked, entries, gdel, pel>>
  BY <1>0 DEF orphanedPending, AfterDelivery, Loop, groupVars, consumerVars, electVars,
              ackVars, history
<1>2. gdel \in Nat /\ InOrder(t) /\ Held(t)' = Held(t)
  BY <1>1, Sorts DEF OInv, Held
<1>3. Sent(t)' = Sent(t) /\ Sent(t) = {0}
  BY <1>1, <1>2 DEF Sent, Image, InOrder, Fresh
<1>4. PathOrdered(t)' /\ Fresh(t)' /\ Accounted(t)'
  BY <1>1, <1>2 DEF InOrder, PathOrdered, Fresh, Accounted, Image
<1>5. SendOrdered(t)' /\ ReadBefore(t)'
  BY <1>1, <1>2, <1>3, Sorts DEF InOrder, SendOrdered, ReadBefore
<1>6. PendingRead'
  BY <1>1 DEF OInv, PendingRead, Pending
<1>7. InOrder(t)'
  BY <1>4, <1>5 DEF InOrder
<1> QED
  BY <1>1, <1>2, <1>6, <1>7, ReaderStep

(* XREADGROUP: what is new lies above whatever was read before. *)
LEMMA readOrder ==
    \A t \in Terms : TInv /\ OInv /\ (readLoop(t) \/ readLoopLost(t)) => OInv'
<1> SUFFICES ASSUME NEW t \in Terms, TInv, OInv, readLoop(t) \/ readLoopLost(t)
             PROVE  OInv'
  OBVIOUS
<1> DEFINE page == Page({id \in stream : id > gdel}, ReadCount)
<1>0. /\ rpc \in [Terms -> {"off", "scan", "orphans", "send", "record", "read",
                            "stop", "done"}]
      /\ entries \in [Terms -> SUBSET Ids]
  BY DEF TInv, TypeOK, TermType
<1>1. /\ rpc[t] = "read" /\ page # {}
      /\ \A u \in Terms \ {t} : rpc'[u] = rpc[u] /\ entries'[u] = entries[u]
      /\ \/ rpc'[t] = "send" /\ entries'[t] = page
         \/ rpc'[t] \in {"read", "stop"} /\ entries'[t] = entries[t]
      /\ UNCHANGED <<hand, owner, ch, pend, wm, processed, acked>>
      /\ gdel' = Greatest(page)
      /\ \A id \in Pending' : id \in Pending \cup page
  BY <1>0 DEF readLoop, readLoopLost, ReadExec, Loop, consumerVars, electVars,
              readerVars, ackVars, history, Pending
<1>2. page \subseteq Ids /\ \A id \in page : id > gdel
  <2>1. stream \subseteq Ids
    BY Numbers DEF TInv, TypeOK, StreamType, Ids
  <2> QED
    BY <2>1 DEF Page
<1> HIDE DEF page
<1>3. gdel' \in Ids /\ gdel' \in page /\ \A id \in page : id <= gdel'
  BY <1>1, <1>2, GreatestId
<1>4. gdel \in Nat /\ gdel' \in Nat /\ gdel <= gdel' /\ page \subseteq Nat
  BY <1>2, <1>3, Sorts
<1>5. InOrder(t) /\ Held(t)' = Held(t)
  BY <1>1 DEF OInv, Held
<1>6. Sent(t)' = Sent(t) /\ Sent(t) \subseteq Nat /\ entries[t] \subseteq Nat
  BY <1>1, <1>5, Sorts DEF Sent, Image
<1>7. PathOrdered(t)' /\ Fresh(t)' /\ Accounted(t)'
  BY <1>1, <1>5 DEF InOrder, PathOrdered, Fresh, Accounted, Image
<1>8. SendOrdered(t)' /\ ReadBefore(t)'
  <2>1. \A got \in Sent(t) : got <= gdel
    BY <1>5 DEF InOrder, ReadBefore
  <2>2. SendOrdered(t)'
    BY <1>1, <1>2, <1>4, <1>6, <2>1 DEF SendOrdered
  <2>3. ReadBefore(t)'
    <3>1. \A x \in Sent(t) \cup entries[t] : x <= gdel'
      <4>1. \A x \in Sent(t) \cup entries[t] : x <= gdel /\ x \in Nat
        BY <1>5, <1>6 DEF InOrder, ReadBefore
      <4> QED
        BY <1>4, <4>1
    <3>2. \A x \in Sent(t) \cup entries'[t] : x <= gdel'
      BY <1>1, <1>3, <3>1
    <3> QED
      BY <1>6, <3>2 DEF ReadBefore
  <2> QED
    BY <2>2, <2>3
<1>9. PendingRead'
  <2>1. \A id \in Pending : id <= gdel /\ id \in Nat
    BY Numbers DEF OInv, PendingRead, Pending
  <2>2. \A id \in Pending : id <= gdel'
    BY <1>4, <2>1
  <2> QED
    BY <1>1, <1>3, <2>2 DEF PendingRead
<1>10. InOrder(t)'
  BY <1>7, <1>8 DEF InOrder
<1> QED
  BY <1>1, <1>4, <1>9, <1>10, ReaderStep

(* The send: the lowest entry goes to the end of the channel. *)
LEMMA deliverOrder == \A t \in Terms : TInv /\ OInv /\ deliver(t) => OInv'
<1> SUFFICES ASSUME NEW t \in Terms, TInv, OInv, deliver(t) PROVE OInv'
  OBVIOUS
<1> DEFINE id == Least(entries[t])
<1>0. /\ rpc \in [Terms -> {"off", "scan", "orphans", "send", "record", "read",
                            "stop", "done"}]
      /\ ch \in [Terms -> Seq(Ids)]
  BY DEF TInv, TypeOK, TermType
<1>1. /\ rpc[t] = "send" /\ rpc'[t] = "record"
      /\ ch'[t] = Append(ch[t], id)
      /\ \A u \in Terms \ {t} : rpc'[u] = rpc[u] /\ ch'[u] = ch[u]
      /\ UNCHANGED <<hand, owner, entries, pend, wm, processed, acked, gdel, pel>>
  BY <1>0 DEF deliver, groupVars, consumerVars, electVars, ackVars, history
<1>2. entries[t] # {}
  BY <1>1 DEF TInv, Busy
<1>3. id \in Ids /\ id \in entries[t] /\ \A x \in entries[t] : id <= x
  BY <1>2, LeastId, Sorts
<1>4. InOrder(t) /\ Held(t)' = Held(t) /\ gdel \in Nat
  BY <1>1, Sorts DEF OInv, Held
<1> DEFINE sent == Sent(t)
<1>5. \A x \in entries[t] : \A got \in Sent(t) : x > got
  BY <1>1, <1>4 DEF InOrder, SendOrdered
<1>6. Sent(t) \subseteq Nat /\ entries[t] \subseteq Nat /\ ch[t] \in Seq(Ids)
  BY Sorts
<1> HIDE DEF id
<1>7. Image(ch'[t]) = Image(ch[t]) \cup {id}
  <2>1. /\ Len(ch'[t]) = Len(ch[t]) + 1 /\ DOMAIN ch'[t] = 1 .. Len(ch[t]) + 1
        /\ \A i \in 1 .. Len(ch[t]) : ch'[t][i] = ch[t][i]
        /\ ch'[t][Len(ch[t]) + 1] = id
        /\ DOMAIN ch[t] = 1 .. Len(ch[t]) /\ Len(ch[t]) \in Nat
    BY <1>1, <1>3, <1>6
  <2> QED
    BY <2>1 DEF Image
<1>8. Sent(t)' = Sent(t) \cup {id}
  BY <1>1, <1>4, <1>7 DEF Sent
<1>9. PathOrdered(t)'
  <2>1. \A i, j \in DOMAIN ch'[t] : i < j => ch'[t][i] < ch'[t][j]
    <3> SUFFICES ASSUME NEW i \in DOMAIN ch'[t], NEW j \in DOMAIN ch'[t], i < j
                 PROVE  ch'[t][i] < ch'[t][j]
      OBVIOUS
    <3>1. /\ DOMAIN ch'[t] = 1 .. Len(ch[t]) + 1 /\ Len(ch[t]) \in Nat
          /\ \A k \in 1 .. Len(ch[t]) : ch'[t][k] = ch[t][k]
          /\ ch'[t][Len(ch[t]) + 1] = id /\ DOMAIN ch[t] = 1 .. Len(ch[t])
      BY <1>1, <1>3, <1>6
    <3>2. i \in 1 .. Len(ch[t]) /\ ch'[t][i] = ch[t][i]
      BY <3>1
    <3>3. CASE j = Len(ch[t]) + 1
      <4>1. ch[t][i] \in Image(ch[t])
        BY <3>1, <3>2 DEF Image
      <4>2. ch[t][i] \in Sent(t) /\ ch[t][i] \in Nat
        BY <4>1, <1>6 DEF Sent
      <4> QED
        BY <1>3, <1>5, <1>6, <3>1, <3>2, <3>3, <4>2
    <3>4. CASE j # Len(ch[t]) + 1
      <4>1. j \in 1 .. Len(ch[t]) /\ ch'[t][j] = ch[t][j]
        BY <3>1, <3>4
      <4> QED
        BY <1>4, <3>1, <3>2, <4>1 DEF InOrder, PathOrdered
    <3> QED
      BY <3>3, <3>4
  <2>2. \A x \in Held(t) \cup Image(ch[t]) \cup {id} : x > wm[t]
    BY <1>3, <1>4, <1>5 DEF InOrder, PathOrdered, Sent
  <2>3. \A h \in Held(t) : \A x \in Image(ch[t]) \cup {id} : h < x
    BY <1>3, <1>4, <1>5, <1>6 DEF InOrder, PathOrdered, Sent
  <2> QED
    BY <1>1, <1>4, <1>7, <2>1, <2>2, <2>3 DEF PathOrdered
<1>10. Fresh(t)'
  BY <1>1 DEF Fresh
<1>11. SendOrdered(t)'
  <2>1. entries'[t] = entries[t] /\ Least(entries'[t]) = id
    BY <1>1 DEF id
  <2>2. \A x \in entries[t] \ {id} : x > id
    BY <1>3, <1>6
  <2> QED
    BY <1>1, <1>5, <1>8, <2>1, <2>2 DEF SendOrdered
<1>12. ReadBefore(t)'
  BY <1>1, <1>3, <1>4, <1>8 DEF InOrder, ReadBefore
<1>13. Accounted(t)'
  <2>1. Least(entries'[t]) = id
    BY <1>1 DEF id
  <2> QED
    BY <1>1, <1>4, <1>7, <2>1 DEF InOrder, Accounted
<1>14. PendingRead'
  BY <1>1 DEF OInv, PendingRead, Pending
<1>15. InOrder(t)'
  BY <1>9, <1>10, <1>11, <1>12, <1>13 DEF InOrder
<1> QED
  BY <1>1, <1>4, <1>14, <1>15, ReaderStep

(* The record: it may come after the message was taken, finished and even  *)
(* marked.                                                                 *)
LEMMA onDeliverOrder == \A t \in Terms : TInv /\ OInv /\ onDeliver(t) => OInv'
<1> SUFFICES ASSUME NEW t \in Terms, TInv, OInv, onDeliver(t) PROVE OInv'
  OBVIOUS
<1> DEFINE id == Least(entries[t])
<1>0. /\ rpc \in [Terms -> {"off", "scan", "orphans", "send", "record", "read",
                            "stop", "done"}]
      /\ entries \in [Terms -> SUBSET Ids] /\ pend \in [Terms -> SUBSET Ids]
  BY DEF TInv, TypeOK, TermType, AckType
<1>1. /\ rpc[t] = "record" /\ rpc'[t] \in {"send", "read", "stop"}
      /\ pend'[t] = pend[t] \cup {id} /\ entries'[t] = entries[t] \ {id}
      /\ \A u \in Terms \ {t} : /\ rpc'[u] = rpc[u] /\ pend'[u] = pend[u]
                                /\ entries'[u] = entries[u]
      /\ UNCHANGED <<hand, owner, ch, wm, processed, acked, gdel, pel>>
  BY <1>0 DEF onDeliver, AfterDelivery, Loop, groupVars, consumerVars, electVars, history
<1>2. entries[t] # {}
  BY <1>1 DEF TInv, Busy
<1>3. id \in Ids /\ id \in entries[t] /\ \A x \in entries[t] : id <= x
  BY <1>2, LeastId, Sorts
<1>4. InOrder(t) /\ Held(t)' = Held(t) /\ gdel \in Nat /\ entries[t] \subseteq Nat
  BY <1>1, Sorts DEF OInv, Held
<1>5. /\ \A x \in entries[t] \ {id} : \A got \in Sent(t) : x > got
      /\ id \in processed \cup Held(t) \cup Image(ch[t])
  BY <1>1, <1>4 DEF InOrder, SendOrdered, Accounted
<1> HIDE DEF id
<1>6. Sent(t)' = Sent(t) \cup {id}
  BY <1>1, <1>4 DEF Sent, Image
<1>7. PathOrdered(t)' /\ Fresh(t)'
  BY <1>1, <1>4 DEF InOrder, PathOrdered, Fresh, Image
<1>8. SendOrdered(t)'
  <2>1. \A x \in entries[t] \ {id} : x > id
    BY <1>3, <1>4
  <2> QED
    BY <1>1, <1>5, <1>6, <2>1 DEF SendOrdered
<1>9. ReadBefore(t)'
  BY <1>1, <1>3, <1>4, <1>6 DEF InOrder, ReadBefore
<1>10. Accounted(t)'
  BY <1>1, <1>4, <1>5 DEF InOrder, Accounted, Image
<1>11. PendingRead'
  BY <1>1 DEF OInv, PendingRead, Pending
<1>12. InOrder(t)'
  BY <1>7, <1>8, <1>9, <1>10 DEF InOrder
<1> QED
  BY <1>1, <1>4, <1>11, <1>12, ReaderStep

(* The end of a term: what its channel still held lies above all that was  *)
(* handed out.                                                             *)
LEMMA endTermOrder == \A t \in Terms : TInv /\ OInv /\ endTerm(t) => OInv'
<1> SUFFICES ASSUME NEW t \in Terms, TInv, OInv, endTerm(t) PROVE OInv'
  OBVIOUS
<1>0. /\ rpc \in [Terms -> {"off", "scan", "orphans", "send", "record", "read",
                            "stop", "done"}]
      /\ entries \in [Terms -> SUBSET Ids] /\ ch \in [Terms -> Seq(Ids)]
  BY DEF TInv, TypeOK, TermType
<1>1. /\ rpc[t] # "done" /\ rpc'[t] = "done" /\ ch'[t] = <<>> /\ entries'[t] = {}
      /\ \A u \in Terms \ {t} : /\ rpc'[u] = rpc[u] /\ ch'[u] = ch[u]
                                /\ entries'[u] = entries[u]
      /\ UNCHANGED <<hand, owner, pend, wm, processed, acked, gdel, pel>>
  BY <1>0 DEF endTerm, groupVars, electVars, ackVars, history
<1>2. InOrder(t) /\ Held(t)' = Held(t) /\ gdel \in Nat
  BY <1>1, Sorts DEF OInv, Held
<1>3. Image(ch'[t]) = {} /\ Sent(t)' \subseteq Sent(t)
  BY <1>1, <1>2 DEF Sent, Image
<1>4. PathOrdered(t)' /\ Fresh(t)' /\ SendOrdered(t)'
  BY <1>1, <1>2, <1>3 DEF InOrder, PathOrdered, Fresh, SendOrdered
<1>5. ReadBefore(t)'
  BY <1>1, <1>2, <1>3 DEF InOrder, ReadBefore
<1>6. Accounted(t)'
  BY <1>1, <1>2, <1>3 DEF InOrder, Accounted, PathOrdered
<1>7. PendingRead'
  BY <1>1 DEF OInv, PendingRead, Pending
<1>8. InOrder(t)'
  BY <1>4, <1>5, <1>6 DEF InOrder
<1> QED
  BY <1>1, <1>2, <1>7, <1>8, ReaderStep
-----------------------------------------------------------------------------
(* Handlers. *)

(* Subscribe: the head of the channel is handed out; it lies above what is *)
(* held of the term and below what is left in the channel.                 *)
LEMMA SubscribeOrder == \A t \in Terms : TInv /\ OInv /\ Subscribe(t) => OInv'
<1> SUFFICES ASSUME NEW t \in Terms, TInv, OInv, Subscribe(t) PROVE OInv'
  OBVIOUS
<1> DEFINE c == owner[t]
           id == Head(ch[t])
<1>0. /\ hand \in [Consumers -> Seq(Terms \X Ids)] /\ ch \in [Terms -> Seq(Ids)]
  BY DEF TInv, TypeOK, ConsumerType, TermType
<1>1. c \in Consumers
  BY Numbers DEF Subscribe, TInv, TypeOK, TermType, Allocated
<1>2. /\ ch[t] # <<>> /\ ch'[t] = Tail(ch[t])
      /\ \A u \in Terms \ {t} : ch'[u] = ch[u]
      /\ hand'[c] = Append(hand[c], <<t, id>>)
      /\ \A d \in Consumers \ {c} : hand'[d] = hand[d]
      /\ UNCHANGED <<owner, rpc, entries, pend, wm, processed, acked, gdel, pel>>
  BY <1>0, <1>1 DEF Subscribe, groupVars, electVars, ackVars, history
<1>3. /\ id \in Ids /\ id \in Image(ch[t])
      /\ Image(ch[t]) = Image(ch'[t]) \cup {id}
      /\ \A x \in Image(ch'[t]) : id < x
      /\ \A i, j \in DOMAIN ch'[t] : i < j => ch'[t][i] < ch'[t][j]
  <2>1. ch[t] \in Seq(Ids) /\ Len(ch[t]) \in Nat /\ Len(ch[t]) > 0
    BY <1>0, <1>2, EmptySeq
  <2>2. /\ DOMAIN ch[t] = 1 .. Len(ch[t]) /\ DOMAIN ch'[t] = 1 .. Len(ch[t]) - 1
        /\ \A i \in 1 .. Len(ch[t]) - 1 : ch'[t][i] = ch[t][i + 1]
        /\ id = ch[t][1]
    BY <1>2, <2>1
  <2>3. \A i, j \in DOMAIN ch[t] : i < j => ch[t][i] < ch[t][j]
    BY DEF OInv, InOrder, PathOrdered
  <2>4. id \in Ids /\ id \in Image(ch[t])
    BY <2>1, <2>2 DEF Image
  <2>5. Image(ch'[t]) \subseteq Image(ch[t])
    BY <2>1, <2>2 DEF Image
  <2>6. Image(ch[t]) \subseteq Image(ch'[t]) \cup {id}
    <3> SUFFICES ASSUME NEW i \in DOMAIN ch[t], i # 1 PROVE ch[t][i] \in Image(ch'[t])
      BY <2>2 DEF Image
    <3>1. i - 1 \in DOMAIN ch'[t] /\ ch'[t][i - 1] = ch[t][i]
      BY <2>1, <2>2
    <3> QED
      BY <3>1 DEF Image
  <2>7. \A x \in Image(ch'[t]) : id < x
    <3> SUFFICES ASSUME NEW i \in DOMAIN ch'[t] PROVE id < ch'[t][i]
      BY DEF Image
    <3>1. 1 \in DOMAIN ch[t] /\ i + 1 \in DOMAIN ch[t] /\ 1 < i + 1
      BY <2>1, <2>2
    <3> QED
      BY <2>2, <2>3, <3>1
  <2>8. \A i, j \in DOMAIN ch'[t] : i < j => ch'[t][i] < ch'[t][j]
    <3> TAKE i, j \in DOMAIN ch'[t]
    <3> HAVE i < j
    <3>1. /\ i + 1 \in DOMAIN ch[t] /\ ch'[t][i] = ch[t][i + 1]
          /\ j + 1 \in DOMAIN ch[t] /\ ch'[t][j] = ch[t][j + 1]
          /\ i + 1 < j + 1
      BY <2>1, <2>2
    <3> QED
      BY <2>3, <3>1
  <2> QED
    BY <2>4, <2>5, <2>6, <2>7, <2>8
<1> HIDE DEF id, c
<1>4. /\ hand[c] \in Seq(Terms \X Ids) /\ Len(hand[c]) \in Nat
      /\ DOMAIN hand[c] = 1 .. Len(hand[c])
      /\ DOMAIN hand'[c] = 1 .. Len(hand[c]) + 1
      /\ \A i \in DOMAIN hand[c] : hand'[c][i] = hand[c][i]
      /\ hand'[c][Len(hand[c]) + 1] = <<t, id>>
  BY <1>0, <1>1, <1>2, <1>3
<1>5. /\ Held(t)' = Held(t) \cup {id}
      /\ \A u \in Terms \ {t} : Held(u)' = Held(u)
  <2>1. ASSUME NEW u \in Terms, NEW x \in Held(u) PROVE x \in Held(u)'
    <3>0. PICK d \in Consumers : \E i \in DOMAIN hand[d] : hand[d][i] = <<u, x>>
      BY <2>1 DEF Held
    <3>1. PICK i \in DOMAIN hand[d] : hand[d][i] = <<u, x>>
      BY <3>0
    <3>2. i \in DOMAIN hand'[d] /\ hand'[d][i] = <<u, x>>
      <4>1. CASE d # c
        BY <1>2, <3>1, <4>1
      <4>2. CASE d = c
        BY <1>4, <3>1, <4>2
      <4> QED
        BY <4>1, <4>2
    <3> QED
      BY <2>1, <3>2 DEF Held
  <2>2. ASSUME NEW u \in Terms, NEW x \in Held(u)' PROVE x \in Held(u) \/ (u = t /\ x = id)
    <3>0. PICK d \in Consumers : \E i \in DOMAIN hand'[d] : hand'[d][i] = <<u, x>>
      BY <2>2 DEF Held
    <3>1. PICK i \in DOMAIN hand'[d] : hand'[d][i] = <<u, x>>
      BY <3>0
    <3>2. CASE d = c /\ i = Len(hand[c]) + 1
      BY <1>4, <3>1, <3>2
    <3>3. CASE ~(d = c /\ i = Len(hand[c]) + 1)
      <4>1. i \in DOMAIN hand[d] /\ hand[d][i] = <<u, x>>
        <5>1. CASE d # c
          BY <1>2, <3>1, <5>1
        <5>2. CASE d = c
          <6>1. i \in DOMAIN hand[c]
            BY <1>4, <3>3, <5>2
          <6> QED
            BY <1>4, <3>1, <5>2, <6>1
        <5> QED
          BY <5>1, <5>2
      <4> QED
        BY <2>2, <4>1 DEF Held
    <3> QED
      BY <3>2, <3>3
  <2>3. id \in Held(t)'
    <3>1. Len(hand[c]) + 1 \in DOMAIN hand'[c]
      BY <1>4
    <3> QED
      BY <1>1, <1>3, <1>4, <3>1 DEF Held
  <2> QED
    BY <2>1, <2>2, <2>3
<1>6. InOrder(t) /\ gdel \in Nat /\ Held(t) \subseteq Nat /\ id \in Nat
  BY <1>3, Sorts DEF OInv
<1>7. HandOwned'
  <2>1. \A d \in Consumers : \A i \in DOMAIN hand[d] : owner[hand[d][i][1]] = d
    BY DEF OInv, HandOwned
  <2> SUFFICES ASSUME NEW d \in Consumers, NEW i \in DOMAIN hand'[d]
               PROVE  owner[hand'[d][i][1]] = d
    BY <1>2 DEF HandOwned
  <2>2. CASE d # c
    BY <1>2, <2>1, <2>2
  <2>3. CASE d = c /\ i \in DOMAIN hand[c]
    BY <1>4, <2>1, <2>3
  <2>4. CASE d = c /\ i \notin DOMAIN hand[c]
    <3>1. i = Len(hand[c]) + 1
      BY <1>4, <2>4
    <3> QED
      BY <1>4, <2>4, <3>1 DEF c
  <2> QED
    BY <2>2, <2>3, <2>4
<1>8. HandOrdered'
  <2> SUFFICES ASSUME NEW d \in Consumers, NEW i \in DOMAIN hand'[d],
                      NEW j \in DOMAIN hand'[d], i < j,
                      hand'[d][i][1] = hand'[d][j][1]
               PROVE  hand'[d][i][2] < hand'[d][j][2]
    BY DEF HandOrdered
  <2>1. CASE d # c
    BY <1>2, <2>1 DEF OInv, HandOrdered
  <2>2. CASE d = c /\ j # Len(hand[c]) + 1
    <3>1. i \in DOMAIN hand[c] /\ j \in DOMAIN hand[c]
      BY <1>4, <2>2
    <3> QED
      BY <1>1, <1>4, <2>2, <3>1 DEF OInv, HandOrdered
  <2>3. CASE d = c /\ j = Len(hand[c]) + 1
    <3>1. i \in DOMAIN hand[c] /\ hand[c][i] \in Terms \X Ids
      BY <1>4, <2>3
    <3>2. hand[c][i][1] = t /\ hand'[c][j][2] = id
      BY <1>4, <2>3, <3>1
    <3>3. hand[c][i] = <<t, hand[c][i][2]>> /\ hand[c][i][2] \in Ids
      BY <3>1, <3>2
    <3>4. hand[c][i][2] \in Held(t)
      BY <1>1, <3>1, <3>3 DEF Held
    <3>5. hand[c][i][2] < id
      BY <1>3, <1>6, <3>4 DEF InOrder, PathOrdered
    <3> QED
      BY <1>4, <2>3, <3>1, <3>2, <3>5
  <2> QED
    BY <2>1, <2>2, <2>3
<1>9. AckedWereProcessed' /\ PendingRead'
  BY <1>2 DEF OInv, AckedWereProcessed, PendingRead, Pending
<1>10. ASSUME NEW u \in Terms \ {t} PROVE InOrder(u)'
  BY <1>2, <1>5, <1>6, OtherTerm DEF OInv
<1>11. InOrder(t)'
  <2>1. Sent(t)' = Sent(t)
    BY <1>2, <1>3, <1>5 DEF Sent
  <2>2. PathOrdered(t)'
    <3>1. \A x \in Held(t)' \cup Image(ch'[t]) : x > wm[t]
      BY <1>3, <1>5, <1>6 DEF InOrder, PathOrdered
    <3>2. \A h \in Held(t)' : \A x \in Image(ch'[t]) : h < x
      BY <1>3, <1>5, <1>6 DEF InOrder, PathOrdered
    <3> QED
      BY <1>2, <1>3, <3>1, <3>2 DEF PathOrdered
  <2>3. Fresh(t)'
    BY <1>2, <1>6 DEF InOrder, Fresh
  <2>4. SendOrdered(t)' /\ ReadBefore(t)'
    BY <1>2, <1>6, <2>1 DEF InOrder, SendOrdered, ReadBefore
  <2>5. Accounted(t)'
    <3>1. rpc[t] # "done"
      BY <1>2, <1>6 DEF InOrder, Fresh
    <3> QED
      BY <1>2, <1>3, <1>5, <1>6, <3>1 DEF InOrder, Accounted
  <2> QED
    BY <2>2, <2>3, <2>4, <2>5 DEF InOrder
<1> QED
  BY <1>7, <1>8, <1>9, <1>10, <1>11 DEF OInv

(* Mark: the handler has finished everything up to the message it marks,   *)
(* in the order in which it got it, whatever terms the messages are of.    *)
LEMMA MarkOrder ==
    \A c \in Consumers : \A n \in 1 .. MaxBatch : TInv /\ OInv /\ Mark(c, n) => OInv'
<1> SUFFICES ASSUME NEW c \in Consumers, NEW n \in 1 .. MaxBatch, TInv, OInv, Mark(c, n)
             PROVE  OInv'
  OBVIOUS
<1> DEFINE t == hand[c][n][1]
           id == hand[c][n][2]
<1>0. /\ hand \in [Consumers -> Seq(Terms \X Ids)] /\ wm \in [Terms -> Ids \cup {0}]
  BY DEF TInv, TypeOK, ConsumerType, AckType
<1>1. /\ n \in DOMAIN hand[c] /\ hand[c] \in Seq(Terms \X Ids) /\ Len(hand[c]) \in Nat
      /\ DOMAIN hand[c] = 1 .. Len(hand[c])
      /\ \A i \in DOMAIN hand[c] : hand[c][i] \in Terms \X Ids
      /\ t \in Terms /\ id \in Ids /\ hand[c][n] = <<t, id>>
  BY <1>0 DEF Mark
<1>2. /\ processed' = processed \cup {hand[c][i][2] : i \in 1 .. n}
      /\ hand'[c] = SubSeq(hand[c], n + 1, Len(hand[c]))
      /\ \A d \in Consumers \ {c} : hand'[d] = hand[d]
      /\ wm'[t] = IF id > wm[t] THEN id ELSE wm[t]
      /\ \A u \in Terms \ {t} : wm'[u] = wm[u]
      /\ UNCHANGED <<owner, rpc, entries, ch, pend, acked, gdel, pel>>
  BY <1>0, <1>1 DEF Mark, groupVars, electVars, readerVars
<1> HIDE DEF t, id
<1>3. /\ DOMAIN hand'[c] = 1 .. Len(hand[c]) - n
      /\ \A i \in DOMAIN hand'[c] : i + n \in DOMAIN hand[c] /\ hand'[c][i] = hand[c][i + n]
  BY <1>1, <1>2
<1>4. id \in Held(t) /\ InOrder(t)
  BY <1>1 DEF Held, OInv
<1>5. wm'[t] = id
  BY <1>2, <1>4 DEF InOrder, PathOrdered
<1>6. ASSUME NEW u \in Terms
      PROVE  /\ Held(u)' \subseteq Held(u)
             /\ Held(u) \subseteq Held(u)' \cup processed'
             /\ u = t => \A h \in Held(u)' : h > id
  <2>1. ASSUME NEW x \in Held(u)' PROVE x \in Held(u) /\ (u = t => x > id)
    <3>0. PICK d \in Consumers : \E i \in DOMAIN hand'[d] : hand'[d][i] = <<u, x>>
      BY <2>1 DEF Held
    <3>1. PICK i \in DOMAIN hand'[d] : hand'[d][i] = <<u, x>>
      BY <3>0
    <3>2. CASE d # c
      <4>1. i \in DOMAIN hand[d] /\ hand[d][i] = <<u, x>>
        BY <1>2, <3>1, <3>2
      <4>2. owner[u] = d /\ owner[t] = c
        <5>1. owner[hand[d][i][1]] = d /\ owner[hand[c][n][1]] = c
          BY <1>1, <4>1 DEF OInv, HandOwned
        <5> QED
          BY <4>1, <5>1 DEF t
      <4> QED
        BY <2>1, <3>2, <4>1, <4>2 DEF Held
    <3>3. CASE d = c
      <4>1. i + n \in DOMAIN hand[c] /\ hand[c][i + n] = <<u, x>>
        BY <1>3, <3>1, <3>3
      <4>2. u = t => x > id
        <5>1. i \in Nat /\ i > 0 /\ n \in Nat
          BY <1>1, <1>3, <3>1, <3>3
        <5>2. n < i + n
          BY <5>1
        <5>3. hand[c][n][1] = hand[c][i + n][1] => hand[c][n][2] < hand[c][i + n][2]
          BY <1>1, <4>1, <5>2 DEF OInv, HandOrdered
        <5>4. x \in Ids /\ x \in Nat /\ id \in Nat
          BY <1>1, <2>1, Numbers DEF Held
        <5> QED
          BY <1>1, <4>1, <5>3, <5>4
      <4> QED
        BY <2>1, <4>1, <4>2 DEF Held
    <3> QED
      BY <3>2, <3>3
  <2>2. ASSUME NEW x \in Held(u) PROVE x \in Held(u)' \cup processed'
    <3>0. PICK d \in Consumers : \E i \in DOMAIN hand[d] : hand[d][i] = <<u, x>>
      BY <2>2 DEF Held
    <3>1. PICK i \in DOMAIN hand[d] : hand[d][i] = <<u, x>>
      BY <3>0
    <3>2. CASE d # c
      <4>1. i \in DOMAIN hand'[d] /\ hand'[d][i] = <<u, x>>
        BY <1>2, <3>1, <3>2
      <4> QED
        BY <2>2, <4>1 DEF Held
    <3>3. CASE d = c /\ i <= n
      <4>1. i \in 1 .. n /\ x = hand[c][i][2]
        BY <1>1, <3>1, <3>3
      <4> QED
        BY <1>2, <4>1
    <3>4. CASE d = c /\ ~(i <= n)
      <4>1. i - n \in DOMAIN hand'[c] /\ hand'[c][i - n] = hand[c][i]
        <5>0. i \in 1 .. Len(hand[c]) /\ n \in 1 .. Len(hand[c]) /\ ~(i <= n)
          BY <1>1, <3>1, <3>4
        <5>1. i - n \in DOMAIN hand'[c] /\ (i - n) + n = i
          BY <1>1, <1>3, <5>0
        <5> QED
          BY <1>3, <5>1
      <4> QED
        BY <2>2, <3>1, <3>4, <4>1 DEF Held
    <3> QED
      BY <3>2, <3>3, <3>4
  <2> QED
    BY <2>1, <2>2
<1>7. HandOwned'
  <2> SUFFICES ASSUME NEW d \in Consumers, NEW i \in DOMAIN hand'[d]
               PROVE  owner[hand'[d][i][1]] = d
    BY <1>2 DEF HandOwned
  <2>1. CASE d # c
    BY <1>2, <2>1 DEF OInv, HandOwned
  <2>2. CASE d = c
    BY <1>3, <2>2 DEF OInv, HandOwned
  <2> QED
    BY <2>1, <2>2
<1>8. HandOrdered'
  <2> SUFFICES ASSUME NEW d \in Consumers, NEW i \in DOMAIN hand'[d],
                      NEW j \in DOMAIN hand'[d], i < j,
                      hand'[d][i][1] = hand'[d][j][1]
               PROVE  hand'[d][i][2] < hand'[d][j][2]
    BY DEF HandOrdered
  <2>1. CASE d # c
    BY <1>2, <2>1 DEF OInv, HandOrdered
  <2>2. CASE d = c
    <3>1. i + n \in DOMAIN hand[c] /\ j + n \in DOMAIN hand[c] /\ i + n < j + n
      BY <1>1, <1>3, <2>2
    <3> QED
      BY <1>3, <2>2, <3>1 DEF OInv, HandOrdered
  <2> QED
    BY <2>1, <2>2
<1>9. AckedWereProcessed' /\ PendingRead'
  BY <1>2 DEF OInv, AckedWereProcessed, PendingRead, Pending
<1>10. ASSUME NEW u \in Terms PROVE InOrder(u)'
  <2>0. /\ InOrder(u) /\ wm[u] \in Nat /\ Held(u) \subseteq Nat
        /\ Image(ch[u]) \subseteq Nat /\ entries[u] \subseteq Nat /\ Sent(u) \subseteq Nat
        /\ pend[u] \subseteq Nat
    BY Sorts DEF OInv
  <2>1. wm'[u] \in Held(u) \cup {wm[u]} /\ (u = t => wm'[u] = id)
    BY <1>2, <1>4, <1>5
  <2>2. Sent(u)' \subseteq Sent(u)
    BY <1>2, <1>6, <2>1 DEF Sent
  <2>3. PathOrdered(u)'
    <3>1. \A x \in Held(u)' : x > wm'[u]
      BY <1>2, <1>6, <2>0, <2>1 DEF InOrder, PathOrdered
    <3>2. \A x \in Image(ch[u]) : x > wm'[u]
      BY <2>0, <2>1 DEF InOrder, PathOrdered
    <3>3. \A h \in Held(u)' : \A x \in Image(ch[u]) : h < x
      BY <1>6, <2>0 DEF InOrder, PathOrdered
    <3> QED
      BY <1>2, <2>0, <3>1, <3>2, <3>3 DEF InOrder, PathOrdered
  <2>4. Fresh(u)'
    BY <1>2, <1>4, <1>6, <2>0, <2>1 DEF InOrder, Fresh
  <2>5. SendOrdered(u)' /\ ReadBefore(u)'
    BY <1>2, <2>0, <2>2 DEF InOrder, SendOrdered, ReadBefore
  <2>6. Accounted(u)'
    <3>1. ASSUME NEW x \in pend[u], rpc[u] = "done", x > wm[u], \A h \in Held(u) : h < x
          PROVE  x > wm'[u] /\ \A h \in Held(u)' : h < x
      BY <1>6, <2>0, <2>1, <3>1
    <3> QED
      BY <1>2, <1>6, <2>0, <3>1 DEF InOrder, Accounted
  <2> QED
    BY <2>3, <2>4, <2>5, <2>6 DEF InOrder
<1> QED
  BY <1>7, <1>8, <1>9, <1>10 DEF OInv

(* XACK: what is recorded up to the watermark is finished; whatever is     *)
(* recorded and not finished lies above it.                                *)
LEMMA CoveredIsProcessed ==
    ASSUME TInv, OInv, NEW t \in Terms
    PROVE  Covered(t) \subseteq processed
<1> SUFFICES ASSUME NEW id \in pend[t], id <= wm[t] PROVE id \in processed
  BY DEF Covered
<1>1. wm[t] \in Nat /\ id \in Nat /\ InOrder(t)
  BY Sorts DEF OInv
<1> QED
  BY <1>1 DEF InOrder, Accounted, PathOrdered

(* flush and the last flush of a term. *)
LEMMA flushOrder ==
    \A t \in Terms : TInv /\ OInv /\ (flush(t) \/ autoCommitExit(t)) => OInv'
<1> SUFFICES ASSUME NEW t \in Terms, TInv, OInv, flush(t) \/ autoCommitExit(t)
             PROVE  OInv'
  OBVIOUS
<1>0. pend \in [Terms -> SUBSET Ids]
  BY DEF TInv, TypeOK, AckType
<1>1. /\ pend'[t] \subseteq pend[t] /\ \A u \in Terms \ {t} : pend'[u] = pend[u]
      /\ acked' \subseteq acked \cup Covered(t)
      /\ \A id \in Ids : pel'[id] \in {pel[id], Nobody}
      /\ UNCHANGED <<hand, owner, wm, ch, rpc, entries, processed, gdel>>
  BY <1>0 DEF flush, autoCommitExit, XAck, groupVars, consumerVars, electVars,
              readerVars
<1>2. gdel \in Nat /\ InOrder(t) /\ Held(t)' = Held(t)
  BY <1>1, Sorts DEF OInv, Held
<1>3. AckedWereProcessed'
  BY <1>1, CoveredIsProcessed DEF OInv, AckedWereProcessed
<1>4. HandOwned' /\ HandOrdered'
  BY <1>1 DEF OInv, HandOwned, HandOrdered
<1>5. PendingRead'
  BY <1>1 DEF OInv, PendingRead, Pending
<1>6. ASSUME NEW u \in Terms \ {t} PROVE InOrder(u)'
  <2>1. Held(u)' = Held(u)
    BY <1>1 DEF Held
  <2> QED
    BY <1>1, <1>2, <2>1, OtherTerm DEF OInv
<1>7. InOrder(t)'
  <2>1. Sent(t)' \subseteq Sent(t)
    BY <1>1, <1>2 DEF Sent, Image
  <2>2. PathOrdered(t)' /\ Fresh(t)' /\ Accounted(t)'
    BY <1>1, <1>2 DEF InOrder, PathOrdered, Fresh, Accounted, Image
  <2>3. SendOrdered(t)' /\ ReadBefore(t)'
    BY <1>1, <1>2, <2>1 DEF InOrder, SendOrdered, ReadBefore
  <2> QED
    BY <2>2, <2>3 DEF InOrder
<1> QED
  BY <1>3, <1>4, <1>5, <1>6, <1>7 DEF OInv

(* A crash: the terms of the process lose their state, and its handlers    *)
(* what they held, which was of those terms only.                          *)
LEMMA CrashOrder == \A c \in Consumers : TInv /\ OInv /\ Crash(c) => OInv'
<1> SUFFICES ASSUME NEW c \in Consumers, TInv, OInv, Crash(c) PROVE OInv'
  OBVIOUS
<1>0. hand \in [Consumers -> Seq(Terms \X Ids)]
  BY DEF TInv, TypeOK, ConsumerType
<1>1. /\ hand'[c] = <<>> /\ \A d \in Consumers \ {c} : hand'[d] = hand[d]
      /\ UNCHANGED <<owner, processed, acked, gdel, pel>>
  BY <1>0 DEF Crash, groupVars, history
<1>2. \A u \in Terms : owner[u] = c =>
        /\ rpc'[u] = "done" /\ entries'[u] = {} /\ ch'[u] = <<>>
        /\ pend'[u] = {} /\ wm'[u] = 0
  BY DEF Crash
<1>3. \A u \in Terms : owner[u] # c =>
        /\ rpc'[u] = rpc[u] /\ entries'[u] = entries[u] /\ ch'[u] = ch[u]
        /\ pend'[u] = pend[u] /\ wm'[u] = wm[u]
  BY DEF Crash
<1>4. HandOwned' /\ HandOrdered'
  BY <1>1 DEF OInv, HandOwned, HandOrdered
<1>5. AckedWereProcessed' /\ PendingRead'
  BY <1>1 DEF OInv, AckedWereProcessed, PendingRead, Pending
<1>6. ASSUME NEW u \in Terms, owner[u] = c PROVE InOrder(u)'
  <2>1. Held(u)' = {}
    <3> SUFFICES ASSUME NEW x \in Held(u)' PROVE FALSE
      OBVIOUS
    <3>1. PICK d \in Consumers : \E i \in DOMAIN hand'[d] : hand'[d][i] = <<u, x>>
      BY DEF Held
    <3>2. PICK i \in DOMAIN hand'[d] : hand'[d][i] = <<u, x>>
      BY <3>1
    <3>3. d # c
      BY <1>1, <3>2
    <3>4. hand[d][i] = <<u, x>> /\ i \in DOMAIN hand[d]
      BY <1>1, <3>2, <3>3
    <3>5. owner[hand[d][i][1]] = d
      BY <3>4 DEF OInv, HandOwned
    <3> QED
      BY <1>6, <3>3, <3>4, <3>5
  <2>2. Image(ch'[u]) = {}
    BY <1>2, <1>6 DEF Image
  <2>3. Sent(u)' = {0}
    BY <1>2, <1>6, <2>1, <2>2 DEF Sent
  <2>4. gdel \in Nat
    BY Sorts
  <2>5. PathOrdered(u)' /\ Fresh(u)' /\ Accounted(u)'
    BY <1>2, <1>6, <2>1, <2>2 DEF PathOrdered, Fresh, Accounted
  <2>6. SendOrdered(u)' /\ ReadBefore(u)'
    BY <1>1, <1>2, <1>6, <2>3, <2>4 DEF SendOrdered, ReadBefore
  <2> QED
    BY <2>5, <2>6 DEF InOrder
<1>7. ASSUME NEW u \in Terms, owner[u] # c PROVE InOrder(u)'
  <2>1. Held(u)' = Held(u)
    <3>1. \A i \in DOMAIN hand[c] : \A x : hand[c][i] # <<u, x>>
      <4>1. \A i \in DOMAIN hand[c] : owner[hand[c][i][1]] = c
        BY DEF OInv, HandOwned
      <4> QED
        BY <1>7, <4>1
    <3> QED
      BY <1>1, <3>1 DEF Held
  <2>2. gdel \in Nat
    BY Sorts
  <2> QED
    BY <1>1, <1>3, <1>7, <2>1, <2>2, OtherTerm DEF OInv
<1> QED
  BY <1>4, <1>5, <1>6, <1>7 DEF OInv

-----------------------------------------------------------------------------
(* Every step keeps OInv. *)
LEMMA NextOrder == TInv /\ OInv /\ [Next]_vars => OInv'
<1> SUFFICES ASSUME TInv, OInv, [Next]_vars PROVE OInv'
  OBVIOUS
<1>1. CASE UNCHANGED vars
  <2>1. gdel \in Nat
    BY Numbers DEF TInv, TypeOK, StreamType
  <2>2. UNCHANGED <<gdel, hand, owner, ch, pend, wm, rpc, entries, processed, acked>>
    BY <1>1 DEF vars, groupVars, consumerVars, electVars, readerVars, ackVars, history
  <2>3. Pending' \subseteq Pending
    BY <1>1 DEF vars, groupVars, Pending
  <2> QED
    BY <2>1, <2>2, <2>3, FrameOrder
<1>2. CASE SendMessage \/ LeaseExpire
  BY <1>2, QuietOrder
<1>3. ASSUME NEW t \in Terms, TermStep(t) PROVE OInv'
  <2>1. CASE \/ Renew(t) \/ StepDown(t)
             \/ trimInfo(t) \/ trimPending(t) \/ trimExec(t) \/ pruneInfo(t)
             \/ (\E c \in Consumers : pruneDel(t, c))
             \/ maintFailed(t) \/ maintCancelled(t)
    BY <2>1, QuietOrder
  <2>2. CASE \/ claimScan(t) \/ claimScanFailed(t) \/ orphanedPending(t)
             \/ readLoop(t) \/ readLoopLost(t) \/ deliver(t) \/ onDeliver(t) \/ endTerm(t)
    BY <2>2, claimOrder, orphansOrder, readOrder, deliverOrder, onDeliverOrder,
       endTermOrder
  <2>3. CASE Subscribe(t) \/ flush(t) \/ autoCommitExit(t)
    BY <2>3, SubscribeOrder, flushOrder
  <2> QED
    BY <1>3, <2>1, <2>2, <2>3 DEF TermStep
<1>4. ASSUME NEW c \in Consumers, ConsumerStep(c) PROVE OInv'
  <2>1. CASE NewConsumer(c) \/ tryLeaseLost(c) \/ Close(c) \/ CloseDone(c)
    BY <2>1, QuietOrder
  <2> QED
    BY <1>4, <2>1, tryLeaseOrder, MarkOrder, CrashOrder DEF ConsumerStep
<1> QED
  BY <1>1, <1>2, <1>3, <1>4 DEF Next

(* Nothing is under way at the start. *)
LEMMA InitOrder == Init => OInv
<1> SUFFICES ASSUME Init PROVE OInv
  OBVIOUS
<1>1. HandOwned /\ HandOrdered /\ AckedWereProcessed /\ PendingRead
  BY DEF Init, HandOwned, HandOrdered, AckedWereProcessed, PendingRead, Pending
<1>2. ASSUME NEW t \in Terms PROVE InOrder(t)
  <2>1. Held(t) = {} /\ Image(ch[t]) = {} /\ Sent(t) = {0}
    BY DEF Init, Held, Image, Sent
  <2> QED
    BY <2>1 DEF Init, InOrder, PathOrdered, Fresh, SendOrdered, ReadBefore, Accounted
<1> QED
  BY <1>1, <1>2 DEF OInv

(* OInv is an invariant, in every regime of failures. *)
LEMMA OInvHolds == Spec => []OInv
<1>1. Init => OInv
  BY InitOrder
<1>2. TInv /\ OInv /\ [Next]_vars => OInv'
  BY NextOrder
<1> QED
  BY <1>1, <1>2, TInvHolds, PTL DEF Spec

(* At-least-once: whatever is acknowledged has been finished by a handler, *)
(* though only the last message of a batch is marked, terms overlap, the   *)
(* record of a delivery may come after its mark, and replies, processes    *)
(* and leases are lost (acker.flush, Mark, deliver).                       *)
THEOREM OnlyProcessedAcked == Spec => []AckedWereProcessed
<1>1. OInv => AckedWereProcessed
  BY DEF OInv
<1> QED
  BY <1>1, OInvHolds, PTL

(* Within a term, the watermark, the channel and the entries still to send *)
(* are in stream order at all times, so that an ack up to the watermark    *)
(* never covers what is not handed out yet (reclaimPending, readLoop).     *)
THEOREM InStreamOrder == Spec => []DeliveredInOrder
<1>1. TInv /\ OInv => DeliveredInOrder
  BY OInvOrders
<1> QED
  BY <1>1, OInvHolds, TInvHolds, PTL
-----------------------------------------------------------------------------
(* Leadership, while leaders renew their leases in time (~Partitions).     *)
(* OneActive needs more than the lease: a reader goes on after its context *)
(* is cancelled.  LInv says why it still excludes the next leader: a term  *)
(* ends only with its consumer, and Close keeps the lease until the        *)
(* goroutines have returned.                                               *)

(* The reader goroutine of term t runs. *)
Reading(t) == rpc[t] \notin {"off", "done"}

(* The consumer of a running reader holds the lease and is not gone. *)
ReaderLeads ==
    \A t \in Terms : Reading(t) =>
        lease = owner[t] /\ life[owner[t]] \in {"up", "closing"}

(* A term lasts as long as its consumer is up. *)
TermLasts ==
    \A t \in Terms :
        /\ live[t] => Reading(t) /\ life[owner[t]] = "up"
        /\ owner[t] \in Consumers /\ life[owner[t]] \in {"off", "up"} =>
                live[t] /\ life[owner[t]] = "up"

OneReader == \A t, u \in Terms : Reading(t) /\ Reading(u) => t = u

LInv == ReaderLeads /\ TermLasts /\ OneReader

(* Steps of a reader that goes on. *)
LEMMA FrameLeads ==
    ASSUME LInv, UNCHANGED <<lease, owner, life, live>>,
           \A t \in Terms : Reading(t)' <=> Reading(t)
    PROVE  LInv'
BY DEF LInv, ReaderLeads, TermLasts, OneReader

(* The steps that change neither the lease nor a life nor a context. *)
LEMMA ReaderStepLeads ==
    ASSUME TInv, LInv,
           \/ SendMessage
           \/ \E c \in Consumers : \E n \in 1 .. MaxBatch : Mark(c, n)
           \/ \E t \in Terms :
                \/ claimScan(t) \/ claimScanFailed(t) \/ orphanedPending(t)
                \/ readLoop(t) \/ readLoopLost(t) \/ deliver(t) \/ onDeliver(t)
                \/ Subscribe(t) \/ flush(t) \/ autoCommitExit(t)
                \/ trimInfo(t) \/ trimPending(t) \/ trimExec(t) \/ pruneInfo(t)
                \/ \E c \in Consumers : pruneDel(t, c)
                \/ maintFailed(t) \/ maintCancelled(t)
    PROVE  LInv'
<1>0. rpc \in [Terms -> {"off", "scan", "orphans", "send", "record", "read", "stop", "done"}]
  BY DEF TInv, TypeOK, TermType
<1>1. UNCHANGED <<lease, owner, life, live>>
  BY DEF SendMessage, Mark, claimScan, claimPage, claimScanFailed, orphanedPending,
         readLoop, readLoopLost, deliver, onDeliver, Subscribe, flush, autoCommitExit,
         trimInfo, trimPending, trimExec, pruneInfo, pruneDel, maintFailed,
         maintCancelled, consumerVars, electVars
<1>2. CASE \E t \in Terms :
                \/ claimScan(t) \/ claimScanFailed(t) \/ orphanedPending(t)
                \/ readLoop(t) \/ readLoopLost(t) \/ deliver(t) \/ onDeliver(t)
  <2>1. PICK t \in Terms :
            \/ claimScan(t) \/ claimScanFailed(t) \/ orphanedPending(t)
            \/ readLoop(t) \/ readLoopLost(t) \/ deliver(t) \/ onDeliver(t)
    BY <1>2
  <2>2. /\ rpc[t] \notin {"off", "done"} /\ rpc'[t] \notin {"off", "done"}
        /\ \A u \in Terms \ {t} : rpc'[u] = rpc[u]
    BY <1>0, <2>1 DEF claimScan, claimPage, claimScanFailed, orphanedPending, readLoop,
                      readLoopLost, deliver, onDeliver, Loop, AfterDelivery
  <2> QED
    BY <1>1, <2>2, FrameLeads DEF Reading
<1>3. CASE ~ \E t \in Terms :
                \/ claimScan(t) \/ claimScanFailed(t) \/ orphanedPending(t)
                \/ readLoop(t) \/ readLoopLost(t) \/ deliver(t) \/ onDeliver(t)
  <2>1. rpc' = rpc
    BY <1>3 DEF SendMessage, Mark, Subscribe, flush, autoCommitExit, trimInfo,
                trimPending, trimExec, pruneInfo, pruneDel, maintFailed, maintCancelled,
                readerVars
  <2> QED
    BY <1>1, <2>1, FrameLeads DEF Reading
<1> QED
  BY <1>2, <1>3

(* The election: with ~Partitions a lease goes only from a consumer that   *)
(* is gone, or that has waited for its goroutines.                         *)
LEMMA ElectionLeads ==
    ASSUME ~Partitions, TInv, LInv,
           \/ LeaseExpire
           \/ \E t \in Terms : Renew(t) \/ StepDown(t) \/ endTerm(t)
           \/ \E c \in Consumers : NewConsumer(c) \/ tryLease(c) \/ tryLeaseLost(c)
    PROVE  LInv'
<1>0. /\ rpc \in [Terms -> {"off", "scan", "orphans", "send", "record", "read",
                            "stop", "done"}]
      /\ owner \in [Terms -> Consumers \cup {Nobody}]
      /\ live \in [Terms -> BOOLEAN]
      /\ life \in [Consumers -> {"off", "up", "closing", "closed", "crashed"}]
  BY DEF TInv, TypeOK, TermType, ConsumerType
<1>1. ASSUME NEW t \in Terms, Reading(t) PROVE owner[t] \in Consumers /\ lease # Nobody
  <2>1. owner[t] \in Consumers
    BY <1>1, StartedHasOwner DEF Reading
  <2> QED
    BY <1>1, <2>1, ConsumersAssumption DEF LInv, ReaderLeads
<1>2. CASE LeaseExpire
  <2>1. \A t \in Terms : ~Reading(t)
    BY <1>2 DEF LeaseExpire, Dead, LInv, ReaderLeads
  <2>2. UNCHANGED <<owner, life, live, rpc>>
    BY <1>2 DEF LeaseExpire, consumerVars, electVars, readerVars
  <2> QED
    BY <2>1, <2>2 DEF LInv, ReaderLeads, TermLasts, OneReader, Reading
<1>3. ASSUME NEW t \in Terms, Renew(t) PROVE FALSE
  BY <1>1, <1>3 DEF Renew, LInv, TermLasts
<1>4. ASSUME NEW t \in Terms, StepDown(t) PROVE FALSE
  BY <1>4 DEF StepDown, LInv, TermLasts, ReaderLeads
<1>5. ASSUME NEW t \in Terms, endTerm(t) PROVE LInv'
  <2>1. /\ UNCHANGED <<lease, owner, life, live>> /\ ~live[t] /\ rpc'[t] = "done"
        /\ \A u \in Terms \ {t} : rpc'[u] = rpc[u]
    BY <1>0, <1>5 DEF endTerm, electVars
  <2> QED
    BY <2>1 DEF LInv, ReaderLeads, TermLasts, OneReader, Reading
<1>6. ASSUME NEW c \in Consumers, NewConsumer(c) PROVE LInv'
  <2>1. /\ UNCHANGED <<lease, owner, live, rpc>> /\ life[c] = "off"
        /\ \A d \in Consumers \ {c} : life'[d] = life[d]
    BY <1>0, <1>6 DEF NewConsumer, electVars, readerVars
  <2>2. \A t \in Terms : owner[t] # c
    BY <2>1 DEF LInv, TermLasts
  <2>3. \A t \in Terms : owner[t] \in Consumers => life'[owner[t]] = life[owner[t]]
    BY <2>1, <2>2
  <2>4. \A t \in Terms : Reading(t) \/ live[t] => owner[t] \in Consumers
    BY <1>1 DEF LInv, TermLasts
  <2> QED
    BY <2>1, <2>3, <2>4 DEF LInv, ReaderLeads, TermLasts, OneReader, Reading
<1>7. ASSUME NEW c \in Consumers, tryLease(c) PROVE LInv'
  <2> DEFINE n == terms + 1
  <2>1. /\ n \in Terms /\ life[c] = "up" /\ lease \in {Nobody, c} /\ lease' = c
        /\ owner'[n] = c /\ live'[n] = TRUE /\ rpc'[n] = "scan" /\ life' = life
        /\ \A u \in Terms \ {n} : /\ owner'[u] = owner[u] /\ live'[u] = live[u]
                                  /\ rpc'[u] = rpc[u]
        /\ \A u \in Terms : owner[u] = c => ~live[u]
    BY <1>0, <1>7, Numbers DEF tryLease, startLeader, TermsOf, Terms, TInv, TypeOK, TermType
  <2> HIDE DEF n
  <2>2. \A u \in Terms : owner[u] # c
    BY <2>1 DEF LInv, TermLasts
  <2>3. \A u \in Terms : ~Reading(u) /\ ~live[u]
    BY <1>1, <2>1, <2>2 DEF LInv, ReaderLeads, TermLasts
  <2>4. ReaderLeads' /\ OneReader'
    BY <2>1, <2>3 DEF ReaderLeads, OneReader, Reading
  <2>5. TermLasts'
    <3> SUFFICES ASSUME NEW u \in Terms
                 PROVE  /\ live'[u] => Reading(u)' /\ life'[owner'[u]] = "up"
                        /\ owner'[u] \in Consumers /\ life'[owner'[u]] \in {"off", "up"}
                                => live'[u] /\ life'[owner'[u]] = "up"
      BY DEF TermLasts
    <3>1. CASE u = n
      BY <2>1, <3>1 DEF Reading
    <3>2. CASE u # n
      BY <2>1, <2>3, <3>2 DEF LInv, TermLasts
    <3> QED
      BY <3>1, <3>2
  <2> QED
    BY <2>4, <2>5 DEF LInv
<1>8. ASSUME NEW c \in Consumers, tryLeaseLost(c) PROVE LInv'
  <2>1. \A t \in Terms : ~Reading(t)
    BY <1>1, <1>8 DEF tryLeaseLost
  <2>2. UNCHANGED <<owner, life, live, rpc>>
    BY <1>8 DEF tryLeaseLost, consumerVars, electVars, readerVars
  <2> QED
    BY <2>1, <2>2 DEF LInv, ReaderLeads, TermLasts, OneReader, Reading
<1> QED
  BY <1>2, <1>3, <1>4, <1>5, <1>6, <1>7, <1>8

(* The end of a consumer. *)
LEMMA EndLeads ==
    ASSUME TInv, LInv, NEW c \in Consumers, Close(c) \/ CloseDone(c) \/ Crash(c)
    PROVE  LInv'
<1>0. /\ live \in [Terms -> BOOLEAN]
      /\ life \in [Consumers -> {"off", "up", "closing", "closed", "crashed"}]
  BY DEF TInv, TypeOK, TermType, ConsumerType
<1>1. \A t \in Terms : Reading(t) \/ live[t] => owner[t] \in Consumers
  BY StartedHasOwner DEF Reading
<1>2. owner' = owner /\ \A d \in Consumers \ {c} : life'[d] = life[d]
  BY <1>0 DEF Close, CloseDone, Crash, electVars
<1>3. CASE Close(c)
  <2>1. /\ life'[c] = "closing" /\ life[c] = "up" /\ UNCHANGED <<lease, rpc>>
        /\ \A t \in Terms : live'[t] = (live[t] /\ owner[t] # c)
    BY <1>0, <1>3 DEF Close, readerVars
  <2>2. ReaderLeads' /\ OneReader'
    BY <1>1, <1>2, <2>1 DEF LInv, ReaderLeads, OneReader, Reading
  <2>3. TermLasts'
    BY <1>1, <1>2, <2>1 DEF LInv, TermLasts, Reading
  <2> QED
    BY <2>2, <2>3 DEF LInv
<1>4. CASE CloseDone(c)
  <2>1. /\ life'[c] = "closed" /\ UNCHANGED <<live, rpc>>
        /\ \A t \in Terms : owner[t] = c => rpc[t] = "done"
        /\ lease # c => lease' = lease
    BY <1>0, <1>4 DEF CloseDone, electVars, readerVars, TermsOf
  <2>2. \A t \in Terms : Reading(t) \/ live[t] => owner[t] # c
    BY <2>1 DEF LInv, TermLasts, Reading
  <2>3. ReaderLeads' /\ OneReader'
    BY <1>1, <1>2, <2>1, <2>2 DEF LInv, ReaderLeads, OneReader, Reading
  <2>4. TermLasts'
    BY <1>1, <1>2, <2>1, <2>2 DEF LInv, TermLasts, Reading
  <2> QED
    BY <2>3, <2>4 DEF LInv
<1>5. CASE Crash(c)
  <2>1. /\ life'[c] = "crashed" /\ lease' = lease
        /\ \A t \in Terms : owner[t] = c => rpc'[t] = "done" /\ live'[t] = FALSE
        /\ \A t \in Terms : owner[t] # c => rpc'[t] = rpc[t] /\ live'[t] = live[t]
    BY <1>0, <1>5 DEF Crash
  <2>2. ReaderLeads' /\ OneReader'
    BY <1>1, <1>2, <2>1 DEF LInv, ReaderLeads, OneReader, Reading
  <2>3. TermLasts'
    BY <1>1, <1>2, <2>1 DEF LInv, TermLasts, Reading
  <2> QED
    BY <2>2, <2>3 DEF LInv
<1> QED
  BY <1>3, <1>4, <1>5

(* Every step keeps LInv. *)
LEMMA NextLeads == ASSUME ~Partitions PROVE TInv /\ LInv /\ [Next]_vars => LInv'
<1> SUFFICES ASSUME TInv, LInv, [Next]_vars PROVE LInv'
  OBVIOUS
<1>1. CASE UNCHANGED vars
  BY <1>1, FrameLeads DEF vars, consumerVars, electVars, readerVars, Reading
<1>2. CASE SendMessage \/ LeaseExpire
  BY <1>2, ReaderStepLeads, ElectionLeads
<1>3. ASSUME NEW t \in Terms, TermStep(t) PROVE LInv'
  BY <1>3, ReaderStepLeads, ElectionLeads DEF TermStep
<1>4. ASSUME NEW c \in Consumers, ConsumerStep(c) PROVE LInv'
  BY <1>4, ReaderStepLeads, ElectionLeads, EndLeads DEF ConsumerStep
<1> QED
  BY <1>1, <1>2, <1>3, <1>4 DEF Next

(* Nobody leads at the start. *)
LEMMA InitLeads == Init => LInv
BY ConsumersAssumption
   DEF Init, LInv, ReaderLeads, TermLasts, OneReader, Reading

(* LInv is an invariant of a group whose leaders renew in time. *)
LEMMA LInvHolds == ASSUME ~Partitions PROVE Spec => []LInv
<1>1. Init => LInv
  BY InitLeads
<1>2. TInv /\ LInv /\ [Next]_vars => LInv'
  BY NextLeads
<1> QED
  BY <1>1, <1>2, TInvHolds, PTL DEF Spec

(* "At most one Consumer per (stream, group) is active at a time" (type    *)
(* Consumer) as long as leaders renew in time: the readers of two terms    *)
(* are never at work together, through crashes, closes, lost replies and   *)
(* readers that outlive their context (leaseScript, Close, runLeader).     *)
THEOREM OneLeaderReads == ASSUME ~Partitions PROVE Spec => []OneActive
<1>1. LInv => OneActive
  BY DEF LInv, OneReader, Reading, OneActive
<1> QED
  BY <1>1, LInvHolds, PTL
-----------------------------------------------------------------------------
(* Nothing is stranded, if leaders renew in time and no reply to           *)
(* XAUTOCLAIM or XREADGROUP is lost.  RedisMQ has runs in which either     *)
(* kind of failure does strand an entry, so both hypotheses are needed.    *)
(* What is inductive is the bookkeeping of the one leader: it knows every  *)
(* entry that the group has assigned to its name, and once it delivers it  *)
(* has them all.                                                           *)

(* Only a consumer that has led owns pending entries. *)
OwnerLed == \A id \in Pending : \E t \in Terms : owner[t] = pel[id]

(* A leader knows the entries assigned to it. *)
LeaderKnows ==
    \A t \in Terms : \A id \in Ids :
        live[t] /\ pel[id] = owner[t] => id \in entries[t] \cup pend[t]

(* A leader that delivers has taken over all pending entries. *)
TakenOver ==
    \A t \in Terms : live[t] /\ rpc[t] \in {"send", "record", "read"} =>
        \A id \in Pending : pel[id] = owner[t]

(* A reader that reads on has delivered what it had. *)
ReadsEmpty == \A t \in Terms : rpc[t] = "read" => entries[t] = {}

KInv == OwnerLed /\ LeaderKnows /\ TakenOver /\ ReadsEmpty

(* Steps that do not deliver, and at most take pending entries away. *)
LEMMA FrameKnows ==
    ASSUME KInv, UNCHANGED <<owner, rpc, entries, pend>>,
           \A id \in Ids : pel'[id] \in {pel[id], Nobody},
           \A t \in Terms : live'[t] => live[t],
           \A t \in Terms : live[t] => owner[t] # Nobody
    PROVE  KInv'
<1>1. OwnerLed' /\ ReadsEmpty'
  BY DEF KInv, OwnerLed, ReadsEmpty, Pending
<1>2. LeaderKnows' /\ TakenOver'
  BY DEF KInv, LeaderKnows, TakenOver, Pending
<1> QED
  BY <1>1, <1>2 DEF KInv

(* A leader has an owner. *)
LEMMA LeaderIsSomebody ==
    ASSUME TInv
    PROVE  \A t \in Terms : live[t] => owner[t] \in Consumers /\ owner[t] # Nobody
BY StartedHasOwner, ConsumersAssumption

(* Everything but the reader, the acker, the election and a crash. *)
LEMMA QuietKnows ==
    ASSUME TInv, KInv,
           \/ SendMessage \/ LeaseExpire
           \/ \E c \in Consumers :
                \/ NewConsumer(c) \/ tryLeaseLost(c) \/ Close(c) \/ CloseDone(c)
                \/ \E n \in 1 .. MaxBatch : Mark(c, n)
           \/ \E t \in Terms :
                \/ Renew(t) \/ StepDown(t) \/ Subscribe(t)
                \/ trimInfo(t) \/ trimPending(t) \/ trimExec(t) \/ pruneInfo(t)
                \/ \E c \in Consumers : pruneDel(t, c)
                \/ maintFailed(t) \/ maintCancelled(t)
    PROVE  KInv'
<1>1. \A t \in Terms : live[t] => owner[t] # Nobody
  BY LeaderIsSomebody
<1>2. CASE \/ SendMessage \/ LeaseExpire
           \/ \E c \in Consumers :
                \/ NewConsumer(c) \/ tryLeaseLost(c) \/ Close(c) \/ CloseDone(c)
                \/ \E n \in 1 .. MaxBatch : Mark(c, n)
  <2>1. UNCHANGED <<owner, rpc, entries, pend, pel>>
    BY <1>2 DEF SendMessage, LeaseExpire, NewConsumer, tryLeaseLost, Close, CloseDone,
                Mark, groupVars, electVars, readerVars, ackVars
  <2>2. \A t \in Terms : live'[t] => live[t]
    BY <1>2 DEF SendMessage, LeaseExpire, NewConsumer, tryLeaseLost, Close, CloseDone,
                Mark, electVars
  <2> QED
    BY <1>1, <2>1, <2>2, FrameKnows
<1>3. ASSUME NEW t \in Terms,
             \/ Renew(t) \/ StepDown(t) \/ Subscribe(t)
             \/ trimInfo(t) \/ trimPending(t) \/ trimExec(t) \/ pruneInfo(t)
             \/ maintFailed(t) \/ maintCancelled(t)
      PROVE  KInv'
  <2>1. UNCHANGED <<owner, rpc, entries, pend, pel>>
    BY <1>3 DEF Renew, StepDown, Subscribe, trimInfo, trimPending, trimExec, pruneInfo,
                maintFailed, maintCancelled, groupVars, electVars, readerVars, ackVars
  <2>2. \A u \in Terms : live'[u] => live[u]
    <3>1. live \in [Terms -> BOOLEAN]
      BY DEF TInv, TypeOK, TermType
    <3> QED
      BY <1>3, <3>1 DEF Renew, StepDown, Subscribe, trimInfo, trimPending, trimExec,
                        pruneInfo, maintFailed, maintCancelled, electVars
  <2> QED
    BY <1>1, <2>1, <2>2, FrameKnows
<1>4. ASSUME NEW t \in Terms, NEW c \in Consumers, pruneDel(t, c) PROVE KInv'
  <2>1. UNCHANGED <<owner, rpc, entries, pend, live>>
    BY <1>4 DEF pruneDel, electVars, readerVars, ackVars
  <2>2. \A id \in Ids : pel'[id] \in {pel[id], Nobody}
    BY <1>4 DEF pruneDel, XGroupDelConsumer, groupVars
  <2> QED
    BY <1>1, <2>1, <2>2, FrameKnows
<1> QED
  BY <1>2, <1>3, <1>4

(* XACK takes an entry from the group and, if the reply arrives, from what *)
(* the term has recorded; never from the latter alone.                     *)
LEMMA flushKnows ==
    ASSUME TInv, KInv, NEW t \in Terms, flush(t) \/ autoCommitExit(t)
    PROVE  KInv'
<1>0. pend \in [Terms -> SUBSET Ids]
  BY DEF TInv, TypeOK, AckType
<1>1. UNCHANGED <<owner, rpc, entries, live>>
  BY DEF flush, autoCommitExit, electVars, readerVars
<1>2. /\ \A id \in Ids : pel'[id] \in {pel[id], Nobody}
      /\ \A u \in Terms : \A id \in pend[u] : id \in pend'[u] \/ pel'[id] = Nobody
  <2>1. CASE XAck(t) /\ pend' = [pend EXCEPT ![t] = @ \ Covered(t)]
    <3>1. \A id \in Ids : pel'[id] = IF id \in Covered(t) THEN Nobody ELSE pel[id]
      BY <2>1 DEF XAck
    <3> QED
      BY <1>0, <2>1, <3>1
  <2>2. CASE (XAck(t) \/ UNCHANGED groupVars) /\ pend' = pend
    BY <2>2 DEF XAck, groupVars
  <2> QED
    BY <2>1, <2>2 DEF flush, autoCommitExit
<1>3. \A u \in Terms : live[u] => owner[u] # Nobody
  BY LeaderIsSomebody
<1>4. OwnerLed' /\ ReadsEmpty'
  BY <1>1, <1>2 DEF KInv, OwnerLed, ReadsEmpty, Pending
<1>5. LeaderKnows'
  BY <1>1, <1>2, <1>3 DEF KInv, LeaderKnows
<1>6. TakenOver'
  BY <1>1, <1>2 DEF KInv, TakenOver, Pending
<1> QED
  BY <1>4, <1>5, <1>6 DEF KInv

(* A new leader finds nothing assigned to it: it has not led before. *)
LEMMA tryLeaseKnows ==
    ASSUME TInv, LInv, KInv, NEW c \in Consumers, tryLease(c)
    PROVE  KInv'
<1> DEFINE n == terms + 1
<1>0. /\ rpc \in [Terms -> {"off", "scan", "orphans", "send", "record", "read",
                            "stop", "done"}]
      /\ owner \in [Terms -> Consumers \cup {Nobody}]
      /\ live \in [Terms -> BOOLEAN]
  BY DEF TInv, TypeOK, TermType
<1>1. /\ n \in Terms /\ life[c] = "up" /\ owner[n] = Nobody
      /\ owner'[n] = c /\ rpc'[n] = "scan"
      /\ \A u \in Terms \ {n} : /\ owner'[u] = owner[u] /\ live'[u] = live[u]
                                /\ rpc'[u] = rpc[u]
      /\ \A u \in Terms : owner[u] = c => ~live[u]
      /\ UNCHANGED <<pel, entries, pend>>
  BY <1>0, Numbers DEF tryLease, startLeader, TermsOf, Terms, TInv, TypeOK, TermType,
                       Allocated, groupVars
<1> HIDE DEF n
<1>2. \A u \in Terms : owner[u] # c
  BY <1>1 DEF LInv, TermLasts
<1>3. Pending' = Pending
  BY <1>1 DEF Pending
<1>4. \A id \in Ids : pel[id] # c
  <2>1. c # Nobody
    BY ConsumersAssumption
  <2> QED
    BY <1>2, <2>1 DEF KInv, OwnerLed, Pending
<1>5. OwnerLed'
  <2>1. \A id \in Pending : pel[id] # Nobody
    BY DEF Pending
  <2>2. \A u \in Terms : owner[u] # Nobody => owner'[u] = owner[u]
    BY <1>1
  <2> QED
    BY <1>1, <1>3, <2>1, <2>2 DEF KInv, OwnerLed
<1>6. LeaderKnows'
  BY <1>1, <1>4 DEF KInv, LeaderKnows
<1>7. TakenOver' /\ ReadsEmpty'
  BY <1>1, <1>3 DEF KInv, TakenOver, ReadsEmpty
<1> QED
  BY <1>5, <1>6, <1>7 DEF KInv

(* The steps of the one reader. *)
LEMMA ReaderKnows ==
    ASSUME "lostClaim" \notin Faults, "lostRead" \notin Faults,
           TInv, LInv, KInv, NEW t \in Terms,
           \/ claimScan(t) \/ claimScanFailed(t) \/ orphanedPending(t)
           \/ readLoop(t) \/ readLoopLost(t) \/ deliver(t) \/ onDeliver(t) \/ endTerm(t)
    PROVE  KInv'
<1>0. /\ rpc \in [Terms -> {"off", "scan", "orphans", "send", "record", "read",
                            "stop", "done"}]
      /\ entries \in [Terms -> SUBSET Ids] /\ pend \in [Terms -> SUBSET Ids]
  BY DEF TInv, TypeOK, TermType, AckType
<1>1. Reading(t)
  BY DEF claimScan, claimPage, claimScanFailed, orphanedPending, readLoop, readLoopLost,
         deliver, onDeliver, endTerm, Reading
<1>2. \A u \in Terms : live[u] => u = t
  BY <1>1 DEF LInv, TermLasts, OneReader
<1>3. owner[t] \in Consumers /\ owner[t] # Nobody
  BY <1>1, StartedHasOwner, ConsumersAssumption DEF Reading
<1>4. /\ UNCHANGED <<owner, live>>
      /\ \A u \in Terms \ {t} : rpc'[u] = rpc[u] /\ entries'[u] = entries[u]
  BY <1>0 DEF claimScan, claimPage, claimScanFailed, orphanedPending, readLoop,
              readLoopLost, deliver, onDeliver, endTerm, electVars, readerVars
<1>5. \A id \in Ids : pel'[id] \in {pel[id], owner[t]}
  <2>1. CASE claimScan(t)
    BY <2>1 DEF claimScan, claimPage, XAutoClaim
  <2>2. CASE claimScanFailed(t)
    BY <2>2 DEF claimScanFailed, XAutoClaim, groupVars
  <2>3. CASE readLoop(t) \/ readLoopLost(t)
    BY <2>3 DEF readLoop, readLoopLost, ReadExec
  <2>4. CASE orphanedPending(t) \/ deliver(t) \/ onDeliver(t) \/ endTerm(t)
    BY <2>4 DEF orphanedPending, deliver, onDeliver, endTerm, groupVars
  <2> QED
    BY <2>1, <2>2, <2>3, <2>4
<1>6. OwnerLed'
  BY <1>4, <1>5 DEF KInv, OwnerLed, Pending
<1>7. rpc'[t] = "read" => entries'[t] = {}
  <2>1. CASE claimScan(t) \/ claimScanFailed(t) \/ deliver(t) \/ endTerm(t)
    BY <1>0, <2>1 DEF claimScan, claimPage, claimScanFailed, deliver, endTerm, Loop
  <2>2. CASE orphanedPending(t) \/ onDeliver(t)
    BY <1>0, <2>2 DEF orphanedPending, onDeliver, AfterDelivery, Loop
  <2>3. CASE readLoop(t) \/ readLoopLost(t)
    BY <1>0, <2>3 DEF readLoop, readLoopLost, KInv, ReadsEmpty
  <2> QED
    BY <2>1, <2>2, <2>3
<1>8. ReadsEmpty'
  BY <1>4, <1>7 DEF KInv, ReadsEmpty
<1>9. live[t] => \A id \in Ids : pel'[id] = owner[t] => id \in entries'[t] \cup pend'[t]
  <2> SUFFICES ASSUME live[t], NEW id \in Ids, pel'[id] = owner[t]
               PROVE  id \in entries'[t] \cup pend'[t]
    OBVIOUS
  <2>0. pel[id] = owner[t] => id \in entries[t] \cup pend[t]
    BY DEF KInv, LeaderKnows
  <2>1. CASE claimScan(t)
    <3>1. PICK aged \in SUBSET ToScan(t) : claimPage(t, aged)
      BY <2>1 DEF claimScan
    <3> DEFINE page == Page(aged, ReadCount)
    <3>2. /\ entries'[t] = entries[t] \cup page /\ pend' = pend
          /\ pel'[id] = IF id \in page THEN owner[t] ELSE pel[id]
      BY <1>0, <3>1 DEF claimPage, XAutoClaim, ackVars
    <3> QED
      BY <2>0, <3>2
  <2>2. CASE claimScanFailed(t)
    BY <2>0, <2>2 DEF claimScanFailed, Fault, groupVars, ackVars
  <2>3. CASE orphanedPending(t) \/ deliver(t)
    BY <2>0, <2>3 DEF orphanedPending, deliver, groupVars, ackVars
  <2>4. CASE readLoop(t)
    <3> DEFINE page == Page({x \in stream : x > gdel}, ReadCount)
    <3>1. /\ entries'[t] = page /\ pend' = pend
          /\ pel'[id] = IF id \in page THEN owner[t] ELSE pel[id]
          /\ entries[t] = {}
      BY <1>0, <2>4 DEF readLoop, ReadExec, ackVars, KInv, ReadsEmpty
    <3> QED
      BY <2>0, <3>1
  <2>5. CASE readLoopLost(t)
    BY <2>5 DEF readLoopLost, Fault
  <2>6. CASE onDeliver(t)
    <3>1. /\ entries'[t] = entries[t] \ {Least(entries[t])} /\ pel' = pel
          /\ pend'[t] = pend[t] \cup {Least(entries[t])}
      BY <1>0, <2>6 DEF onDeliver, groupVars
    <3> QED
      BY <2>0, <3>1
  <2>7. CASE endTerm(t)
    BY <2>7 DEF endTerm
  <2> QED
    BY <2>1, <2>2, <2>3, <2>4, <2>5, <2>6, <2>7
<1>10. LeaderKnows'
  BY <1>2, <1>4, <1>9 DEF LeaderKnows
<1>11. live[t] /\ rpc'[t] \in {"send", "record", "read"} =>
            \A id \in Ids : pel'[id] # Nobody => pel'[id] = owner[t]
  <2>1. CASE claimScan(t) \/ claimScanFailed(t) \/ endTerm(t)
    BY <1>0, <2>1 DEF claimScan, claimPage, claimScanFailed, endTerm, Loop
  <2>2. CASE orphanedPending(t)
    BY <1>0, <2>2 DEF orphanedPending, Loop, Pending, groupVars
  <2>3. CASE readLoop(t) \/ readLoopLost(t) \/ deliver(t) \/ onDeliver(t)
    <3>1. rpc[t] \in {"send", "record", "read"}
      BY <2>3 DEF readLoop, readLoopLost, deliver, onDeliver
    <3> QED
      BY <1>5, <3>1 DEF KInv, TakenOver, Pending
  <2> QED
    BY <2>1, <2>2, <2>3
<1>12. TakenOver'
  BY <1>2, <1>4, <1>11 DEF TakenOver, Pending
<1> QED
  BY <1>6, <1>8, <1>10, <1>12 DEF KInv

(* A crash ends the terms of one consumer. *)
LEMMA CrashKnows == ASSUME TInv, KInv, NEW c \in Consumers, Crash(c) PROVE KInv'
<1>1. /\ UNCHANGED <<owner, pel>>
      /\ \A u \in Terms : owner[u] = c => rpc'[u] = "done" /\ live'[u] = FALSE
      /\ \A u \in Terms : owner[u] # c => /\ rpc'[u] = rpc[u] /\ live'[u] = live[u]
                                          /\ entries'[u] = entries[u] /\ pend'[u] = pend[u]
  BY DEF Crash, groupVars
<1>2. Pending' = Pending
  BY <1>1 DEF Pending
<1>3. OwnerLed' /\ ReadsEmpty'
  BY <1>1, <1>2 DEF KInv, OwnerLed, ReadsEmpty
<1>4. LeaderKnows' /\ TakenOver'
  BY <1>1, <1>2 DEF KInv, LeaderKnows, TakenOver
<1> QED
  BY <1>3, <1>4 DEF KInv

(* Every step keeps KInv. *)
LEMMA NextKnows ==
    ASSUME "lostClaim" \notin Faults, "lostRead" \notin Faults
    PROVE  TInv /\ LInv /\ KInv /\ [Next]_vars => KInv'
<1> SUFFICES ASSUME TInv, LInv, KInv, [Next]_vars PROVE KInv'
  OBVIOUS
<1>1. CASE UNCHANGED vars
  <2>1. UNCHANGED <<owner, rpc, entries, pend, pel, live>>
    BY <1>1 DEF vars, groupVars, electVars, readerVars, ackVars
  <2> QED
    BY <2>1, LeaderIsSomebody, FrameKnows
<1>2. CASE SendMessage \/ LeaseExpire
  BY <1>2, QuietKnows
<1>3. ASSUME NEW t \in Terms, TermStep(t) PROVE KInv'
  BY <1>3, QuietKnows, ReaderKnows, flushKnows DEF TermStep
<1>4. ASSUME NEW c \in Consumers, ConsumerStep(c) PROVE KInv'
  BY <1>4, QuietKnows, tryLeaseKnows, CrashKnows DEF ConsumerStep
<1> QED
  BY <1>1, <1>2, <1>3, <1>4 DEF Next

(* While leaders renew in time and the replies to XAUTOCLAIM and           *)
(* XREADGROUP arrive, every pending entry is in the hands of the leader    *)
(* once it reads new messages, however many leaders have crashed, closed   *)
(* or failed before it: none waits for the end of the term (reclaimPending,*)
(* orphanedPending, deliverClaimed).                                       *)
THEOREM LeaderHasAll ==
    ASSUME ~Partitions, "lostClaim" \notin Faults, "lostRead" \notin Faults
    PROVE  Spec => []NothingStranded
<1>1. Init => KInv
  BY DEF Init, KInv, OwnerLed, LeaderKnows, TakenOver, ReadsEmpty, Pending
<1>2. TInv /\ LInv /\ KInv /\ [Next]_vars => KInv'
  BY NextKnows
<1>3. TInv /\ KInv => NothingStranded
  <2> SUFFICES ASSUME TInv, KInv, NEW t \in Terms, live[t], rpc[t] = "read",
                      NEW id \in Pending
               PROVE  live[t] /\ owner[t] = pel[id] /\ id \in entries[t] \cup pend[t]
    BY DEF NothingStranded
  <2>1. pel[id] = owner[t] /\ id \in Ids
    BY DEF KInv, TakenOver, Pending
  <2> QED
    BY <2>1 DEF KInv, LeaderKnows
<1>4. Spec => []LInv
  BY LInvHolds
<1> QED
  BY <1>1, <1>2, <1>3, <1>4, TInvHolds, PTL DEF Spec
=============================================================================
