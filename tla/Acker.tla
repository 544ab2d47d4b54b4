-------------------------------- MODULE Acker --------------------------------
(***************************************************************************)
(* mq/redismq/acker.go: the watermark acknowledgement window of one        *)
(* leadership term.  Redis XACK is per entry; the consumers of this        *)
(* package commit only the last message of a batch.  The acker keeps the   *)
(* delivered ids in order (pending), the highest marked id (watermark),    *)
(* and flush acknowledges the prefix of pending that the watermark covers. *)
(*                                                                         *)
(* Concurrency.  onDeliver runs in the term's reader goroutine, mark in    *)
(* the handler's, flush both in the auto-commit goroutine and in every     *)
(* goroutine that calls message.Commit.  The mutex covers the computation  *)
(* of the prefix and the re-queueing of a failed one, NOT the XACK between *)
(* them, so two flushes overlap: a flush is two steps here.                *)
(*                                                                         *)
(* The environment is the contract acker.go states.  The reader sends ids  *)
(* in ascending order and records each with onDeliver after the send       *)
(* (consumer.go deliver), so the handler can hold - and mark - an id that  *)
(* is not recorded yet.  Workers finish ids in any order, and an id is     *)
(* marked only when every id sent so far up to it is finished.             *)
(***************************************************************************)
EXTENDS Integers, Sequences, FiniteSets

CONSTANTS
    Ids,            \* stream entry ids, in stream order
    Flushers,       \* goroutines that may run flush: auto-commit and committers
    Ticker,         \* the auto-commit goroutine
    MaxFaults       \* bound on failed XACK calls

ASSUME IdsAreNumbers == Ids \subseteq Nat \ {0}
ASSUME TickerFlushes == Ticker \in Flushers
ASSUME FaultsAssumption == MaxFaults \in Nat

VARIABLES
    pending,        \* a.pending: delivered ids not yet acknowledged
    watermark,      \* a.watermark: highest marked id, 0 for ""
    ackIDs,         \* [Flushers -> Seq(Ids)]: prefix taken by a flush in flight
    sent,           \* highest id the reader has sent to the handlers, 0 if none
    recorded,       \* is the id in sent recorded by onDeliver?
    held,           \* ids the handlers have received
    processed,      \* ids the handlers have finished
    acked,          \* ids Redis has removed from the pending entries list
    faults          \* failed XACKs so far

vars == <<pending, watermark, ackIDs, sent, recorded, held, processed, acked,
          faults>>

envVars == <<sent, recorded, held, processed>>

Image(s) == {s[i] : i \in DOMAIN s}

(* Ids delivered to this acker and not confirmed as acknowledged: those in *)
(* pending, and those a flush has taken out of it.                         *)
Window == Image(pending) \cup UNION {Image(ackIDs[f]) : f \in Flushers}

-----------------------------------------------------------------------------

Init ==
    /\ pending = <<>>
    /\ watermark = 0
    /\ ackIDs = [f \in Flushers |-> <<>>]
    /\ sent = 0
    /\ recorded = TRUE
    /\ held = {}
    /\ processed = {}
    /\ acked = {}
    /\ faults = 0

(* The reader puts the next entry of the stream into the term's channel.   *)
(* Reclaimed entries leave gaps, so any higher id may be next.             *)
Send(id) ==
    /\ recorded
    /\ id > sent
    /\ sent' = id
    /\ recorded' = FALSE
    /\ held' = held \cup {id}
    /\ UNCHANGED <<pending, watermark, ackIDs, processed, acked, faults>>

onDeliver ==
    /\ ~recorded
    /\ pending' = Append(pending, sent)
    /\ recorded' = TRUE
    /\ UNCHANGED <<watermark, ackIDs, sent, held, processed, acked, faults>>

(* A worker finishes a message it holds. *)
Finish(id) ==
    /\ id \in held \ processed
    /\ processed' = processed \cup {id}
    /\ UNCHANGED <<pending, watermark, ackIDs, sent, recorded, held, acked, faults>>

(* Faulty variant of mark: commit the next offset, as a Kafka client does. *)
markNextOffset(id) ==
    /\ id \in held
    /\ \A other \in held : other <= id => other \in processed
    /\ id + 1 > watermark
    /\ watermark' = id + 1
    /\ UNCHANGED <<pending, ackIDs, acked, faults, envVars>>

(* Faulty variant of mark: no comparison with the current watermark. *)
markAnyway(id) ==
    /\ id \in held
    /\ \A other \in held : other <= id => other \in processed
    /\ watermark' = id
    /\ UNCHANGED <<pending, ackIDs, acked, faults, envVars>>

(* Marking an id not above the watermark leaves it alone (the code's       *)
(* comparison), so only raising marks are steps.                           *)
mark(id) ==
    /\ id \in held
    /\ \A other \in held : other <= id => other \in processed
    /\ id > watermark
    /\ watermark' = id
    /\ UNCHANGED <<pending, ackIDs, acked, faults, envVars>>

(* Faulty variant of flushTake: take everything, whatever the watermark. *)
flushTakeAll(f) ==
    /\ ackIDs[f] = <<>>
    /\ watermark # 0
    /\ pending # <<>>
    /\ ackIDs' = [ackIDs EXCEPT ![f] = pending]
    /\ pending' = <<>>
    /\ UNCHANGED <<watermark, acked, faults, envVars>>

(* Faulty variant of flushTake: the comparison leaves out the marked id. *)
flushTakeBelow(f) ==
    /\ ackIDs[f] = <<>>
    /\ watermark # 0
    /\ \E n \in 1 .. Len(pending) :
        /\ \A i \in 1 .. n : pending[i] < watermark
        /\ n < Len(pending) => pending[n + 1] >= watermark
        /\ ackIDs' = [ackIDs EXCEPT ![f] = SubSeq(pending, 1, n)]
        /\ pending' = SubSeq(pending, n + 1, Len(pending))
    /\ UNCHANGED <<watermark, acked, faults, envVars>>

(* First critical section of flush: take the longest prefix of pending     *)
(* whose ids the watermark covers; return when it is empty.                *)
flushTake(f) ==
    /\ ackIDs[f] = <<>>
    /\ watermark # 0
    /\ \E n \in 1 .. Len(pending) :
        /\ \A i \in 1 .. n : pending[i] <= watermark
        /\ n < Len(pending) => pending[n + 1] > watermark
        /\ ackIDs' = [ackIDs EXCEPT ![f] = SubSeq(pending, 1, n)]
        /\ pending' = SubSeq(pending, n + 1, Len(pending))
    /\ UNCHANGED <<watermark, acked, faults, envVars>>

(* XACK answers without error: the taken ids leave the group's pending     *)
(* entries list.                                                           *)
flushAcked(f) ==
    /\ ackIDs[f] # <<>>
    /\ acked' = acked \cup Image(ackIDs[f])
    /\ ackIDs' = [ackIDs EXCEPT ![f] = <<>>]
    /\ UNCHANGED <<pending, watermark, faults, envVars>>

(* Faulty variant of flushFailed: the taken ids are not put back. *)
flushFailedDrops(f) ==
    /\ ackIDs[f] # <<>>
    /\ faults < MaxFaults
    /\ faults' = faults + 1
    /\ acked' \in {acked, acked \cup Image(ackIDs[f])}
    /\ ackIDs' = [ackIDs EXCEPT ![f] = <<>>]
    /\ UNCHANGED <<pending, watermark, envVars>>

(* Faulty variant of flushFailed: the taken ids go to the back of pending. *)
flushFailedToBack(f) ==
    /\ ackIDs[f] # <<>>
    /\ faults < MaxFaults
    /\ faults' = faults + 1
    /\ acked' \in {acked, acked \cup Image(ackIDs[f])}
    /\ pending' = pending \o ackIDs[f]
    /\ ackIDs' = [ackIDs EXCEPT ![f] = <<>>]
    /\ UNCHANGED <<watermark, envVars>>

(* XACK fails: the taken ids go back to the front of pending.  The error   *)
(* may hide an XACK that was applied (the reply was lost).                 *)
flushFailed(f) ==
    /\ ackIDs[f] # <<>>
    /\ faults < MaxFaults
    /\ faults' = faults + 1
    /\ acked' \in {acked, acked \cup Image(ackIDs[f])}
    /\ pending' = ackIDs[f] \o pending
    /\ ackIDs' = [ackIDs EXCEPT ![f] = <<>>]
    /\ UNCHANGED <<watermark, envVars>>

Next ==
    \/ \E id \in Ids : Send(id) \/ Finish(id) \/ mark(id)
    \/ onDeliver
    \/ \E f \in Flushers : flushTake(f) \/ flushAcked(f) \/ flushFailed(f)

Spec == Init /\ [][Next]_vars

(* While the term lasts the auto-commit ticker keeps calling flush; nobody *)
(* has to call Commit.  An XACK call returns, with or without an error, and *)
(* a reader that has sent an id goes on to record it.                      *)
FairSpec ==
    /\ Spec
    /\ WF_vars(onDeliver)
    /\ WF_vars(flushTake(Ticker))
    /\ \A f \in Flushers : WF_vars(flushAcked(f) \/ flushFailed(f))

-----------------------------------------------------------------------------
(* The variables range over what acker.go and its callers can store.       *)
TypeOK ==
    /\ pending \in Seq(Ids)
    /\ watermark \in Ids \cup {0}
    /\ ackIDs \in [Flushers -> Seq(Ids)]
    /\ sent \in Ids \cup {0}
    /\ recorded \in BOOLEAN
    /\ held \in SUBSET Ids
    /\ processed \in SUBSET Ids
    /\ acked \in SUBSET Ids
    /\ faults \in 0 .. MaxFaults

(* At-least-once: an id is acknowledged only after a handler finished it,  *)
(* although flush acknowledges ids nobody marked and overlapping flushes   *)
(* put ids back in any order (acker.go flush, mark).                       *)
AckedWereProcessed == acked \subseteq processed

(* No recorded id is forgotten: until Redis has dropped it, it stays in    *)
(* pending or in the hands of a flush that will drop it or put it back     *)
(* (acker.go flush: "re-queue them locally for the next flush instead of   *)
(* dropping them").                                                        *)
RecordedIsKept ==
    \A id \in held : (id # sent \/ recorded) => id \in acked \cup Window

(* The ids the watermark covers are a prefix of pending, so the loop of    *)
(* flush, which stops at the first id above the watermark, never leaves a  *)
(* covered id behind an uncovered one - even after failed flushes have     *)
(* re-queued their prefixes out of order.                                  *)
CoveredIsPrefix ==
    \A i, j \in DOMAIN pending :
        i < j /\ pending[j] <= watermark => pending[i] <= watermark

(* Every id the watermark covers is acknowledged in the end: the ticker    *)
(* retries what failed.                                                    *)
CoveredIsAcked ==
    \A id \in Ids :
        (id \in held /\ id <= watermark) ~> (id \in acked)

(* The acker implements the offset-commit promise of AckWindow. *)
Promise == INSTANCE AckWindow WITH window <- Window

ImplementsAckWindow == Promise!Spec

(* acker.go says of pending "delivered-but-unacked ids, ascending by id".  *)
PendingAscending ==
    \A i, j \in DOMAIN pending : i < j => pending[i] < pending[j]
=============================================================================
