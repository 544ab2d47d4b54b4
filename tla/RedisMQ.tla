------------------------------- MODULE RedisMQ -------------------------------
(***************************************************************************)
(* mq/redismq: one Redis stream with one consumer group, its producers and *)
(* the Consumer instances that compete for the leader lease.               *)
(*                                                                         *)
(* Every Consumer runs a manager goroutine (manage, runLeader) and, for    *)
(* each leadership term, three more: the reader (reclaimPending then       *)
(* readLoop), the auto-committer and the maintenance loop.  The callers of *)
(* Subscribe collect messages into batches, finish them and Mark the last  *)
(* message of a batch.  All of them share the stream, the group's pending  *)
(* entries list (PEL) and the lease key in Redis.                          *)
(*                                                                         *)
(* One step is one Redis command (Redis executes a command or a script     *)
(* atomically) or one critical section.  A command that is in flight when  *)
(* its term is cancelled may still execute: the client only bounds the     *)
(* wait.  An id is its position in the stream.  Time is abstracted away:   *)
(* any pending entry may have been idle for ClaimMinIdle, and the lease    *)
(* may have expired, when the code looks.                                  *)
(*                                                                         *)
(* Acker.tla models flush in two steps and shows that it implements an     *)
(* atomic commit; here a flush is one step and the window a set.           *)
(***************************************************************************)
EXTENDS Integers, Sequences, FiniteSets

CONSTANTS
    Consumers,      \* Consumer names; a restarted process has a new name
    Nobody,         \* no consumer
    Buffer,         \* cfg.Buffer: capacity of a term's channel
    ReadCount,      \* cfg.ReadCount: COUNT of XREADGROUP and XAUTOCLAIM
    MaxBatch,       \* messages the handler takes before it must finish some
    MaxId,          \* bound: messages ever sent
    MaxHistory,     \* bound: messages sent before the group exists
    MaxTerm,        \* bound: leadership terms in all
    MaxLead,        \* bound: leadership terms of one consumer
    Maintained,     \* bound: the terms whose maintenance ticker fires
    MaxFaults,      \* bound: failures of any kind
    Faults,         \* the kinds of failure that happen, see FaultKinds
    Closing,        \* may a Consumer be closed?
    Partitions,     \* may a leader that is up miss its renewals for LeaseTTL?
    QuietLive       \* may a standby be silent for ConsumerIdleTimeout?

(* reject: Redis answers a command with an error and does nothing.  lost*: *)
(* Redis executes the command and the reply is lost.  crash: a process     *)
(* ends without Close.                                                     *)
FaultKinds == {"reject", "lostLease", "lostClaim", "lostRead", "lostAck", "crash"}

ASSUME ConsumersAssumption == Nobody \notin Consumers
ASSUME BoundsAssumption ==
    /\ Buffer \in Nat /\ ReadCount \in Nat \ {0} /\ MaxBatch \in Nat
    /\ MaxId \in Nat /\ MaxHistory \in Nat
    /\ MaxTerm \in Nat /\ MaxLead \in Nat /\ MaxFaults \in Nat
    /\ Maintained \subseteq 1 .. MaxTerm
ASSUME RegimeAssumption ==
    /\ Faults \subseteq FaultKinds
    /\ Closing \in BOOLEAN
    /\ Partitions \in BOOLEAN
    /\ QuietLive \in BOOLEAN

Ids == 1 .. MaxId
Terms == 1 .. MaxTerm

VARIABLES
    \* Redis: the stream and the group
    last,           \* id of the newest message, 0 before the first
    stream,         \* ids the stream still stores
    created,        \* does the consumer group exist?
    base,           \* newest id when the group was created ("$")
    gdel,           \* the group's last-delivered id
    pel,            \* [Ids -> Consumers or Nobody]: pending entries and owners
    members,        \* consumer names the group knows
    lease,          \* value of the lease key
    \* a Consumer
    life,           \* off, up, closing, closed, crashed
    curTerm,        \* c.term, 0 for nil
    hand,           \* messages <<term, id>> taken by Subscribe, not finished
    \* a leadership term
    terms,          \* terms begun so far
    owner,          \* the consumer that leads the term
    live,           \* is the term's context alive?
    rpc,            \* reader: off, scan, orphans, send, record, read, stop, done
    cursor,         \* claimScan's cursor
    entries,        \* claimed or read entries the reader has to deliver
    ch,             \* term.ch
    pend,           \* term.ack.pending
    wm,             \* term.ack.watermark
    ac,             \* auto-committer: off, run, done
    mpc,            \* maintenance: idle, pending, trim, info, del
    minID,          \* trimStream's lower bound
    prunes,         \* names pruneConsumers still has to delete
    \* history
    processed,      \* ids some handler has finished
    acked,          \* ids removed from the PEL by XACK
    faults          \* failures so far

streamVars == <<last, stream, created, base>>
groupVars == <<gdel, pel, members>>
consumerVars == <<life, curTerm, hand>>
electVars == <<terms, owner, live>>
readerVars == <<rpc, cursor, entries, ch>>
ackVars == <<pend, wm, ac>>
maintVars == <<mpc, minID, prunes>>
history == <<processed, acked>>

vars == <<streamVars, groupVars, lease, consumerVars, electVars, readerVars,
          ackVars, maintVars, history, faults>>

-----------------------------------------------------------------------------
(* Helpers. *)

Fault(kind) ==
    /\ kind \in Faults
    /\ faults < MaxFaults
    /\ faults' = faults + 1

Least(S) == CHOOSE x \in S : \A y \in S : x <= y
Greatest(S) == CHOOSE x \in S : \A y \in S : y <= x

(* The page of n ids with which a scan of S begins. *)
Page(S, n) == {x \in S : Cardinality({y \in S : y < x}) < n}

Pending == {id \in Ids : pel[id] # Nobody}
PendingOf(c) == {id \in Ids : pel[id] = c}
TermsOf(c) == {t \in Terms : owner[t] = c}
Dead(c) == life[c] \in {"closed", "crashed"}

(* The reader's next state at the top of its loop, which checks ctx.Err(). *)
Loop(t, pc) == IF live[t] THEN pc ELSE "stop"

(* The reader's next state when it has these entries left to deliver. *)
AfterDelivery(t, left) == IF left = {} THEN Loop(t, "read") ELSE "send"

-----------------------------------------------------------------------------

Init ==
    /\ last = 0 /\ stream = {} /\ created = FALSE /\ base = 0
    /\ gdel = 0 /\ pel = [id \in Ids |-> Nobody] /\ members = {}
    /\ lease = Nobody
    /\ life = [c \in Consumers |-> "off"]
    /\ curTerm = [c \in Consumers |-> 0]
    /\ hand = [c \in Consumers |-> <<>>]
    /\ terms = 0
    /\ owner = [t \in Terms |-> Nobody]
    /\ live = [t \in Terms |-> FALSE]
    /\ rpc = [t \in Terms |-> "off"]
    /\ cursor = [t \in Terms |-> 0]
    /\ entries = [t \in Terms |-> {}]
    /\ ch = [t \in Terms |-> <<>>]
    /\ pend = [t \in Terms |-> {}]
    /\ wm = [t \in Terms |-> 0]
    /\ ac = [t \in Terms |-> "off"]
    /\ mpc = [t \in Terms |-> "idle"]
    /\ minID = [t \in Terms |-> 0]
    /\ prunes = [t \in Terms |-> {}]
    /\ processed = {} /\ acked = {} /\ faults = 0

(* Producer.SendMessage: XADD without a length cap (MaxLen = 0). *)
SendMessage ==
    /\ last < MaxId
    /\ created \/ last < MaxHistory
    /\ last' = last + 1
    /\ stream' = stream \cup {last + 1}
    /\ UNCHANGED <<created, base, groupVars, lease, consumerVars, electVars,
                   readerVars, ackVars, maintVars, history, faults>>

(* Faulty variant of NewConsumer: the group starts at "0", not at "$". *)
NewConsumerFromZero(c) ==
    /\ life[c] = "off"
    /\ life' = [life EXCEPT ![c] = "up"]
    /\ created' = TRUE
    /\ base' = IF created THEN base ELSE last
    /\ UNCHANGED <<last, stream, groupVars, lease, curTerm, hand, electVars,
                   readerVars, ackVars, maintVars, history, faults>>

(* NewConsumer: create the group at "$" unless it exists (BUSYGROUP), then *)
(* start the manager.                                                      *)
NewConsumer(c) ==
    /\ life[c] = "off"
    /\ life' = [life EXCEPT ![c] = "up"]
    /\ created' = TRUE
    /\ base' = IF created THEN base ELSE last
    /\ gdel' = IF created THEN gdel ELSE last
    /\ UNCHANGED <<last, stream, pel, members, lease, curTerm, hand,
                   electVars, readerVars, ackVars, maintVars, history, faults>>

-----------------------------------------------------------------------------
(* Leader election. *)

(* startLeader with beginTerm: a fresh term and its three goroutines. *)
startLeader(c) ==
    LET t == terms + 1 IN
    /\ terms' = t
    /\ owner' = [owner EXCEPT ![t] = c]
    /\ live' = [live EXCEPT ![t] = TRUE]
    /\ rpc' = [rpc EXCEPT ![t] = "scan"]
    /\ ac' = [ac EXCEPT ![t] = "run"]
    /\ curTerm' = [curTerm EXCEPT ![c] = t]

(* manage on standby: leaseScript grants a lease that is free or ours. *)
tryLease(c) ==
    /\ life[c] = "up"
    /\ \A t \in TermsOf(c) : ~live[t]
    /\ terms < MaxTerm
    /\ Cardinality(TermsOf(c)) < MaxLead
    /\ lease \in {Nobody, c}
    /\ lease' = c
    /\ startLeader(c)
    /\ UNCHANGED <<streamVars, groupVars, life, hand, cursor, entries, ch, pend,
                   wm, maintVars, history, faults>>

(* The grant's reply is lost, or comes after Close has cancelled the call: *)
(* Redis has us as the leader, we stand by.                                *)
tryLeaseLost(c) ==
    /\ life[c] \in {"up", "closing"}
    /\ \A t \in TermsOf(c) : ~live[t]
    /\ lease = Nobody
    /\ lease' = c
    /\ Fault("lostLease")
    /\ UNCHANGED <<streamVars, groupVars, consumerVars, electVars, readerVars,
                   ackVars, maintVars, history>>

(* runLeader's ticker: a lease that had expired and is still free is taken *)
(* again.  (A renewal of a lease we hold changes nothing here.)            *)
Renew(t) ==
    /\ live[t]
    /\ lease = Nobody
    /\ lease' = owner[t]
    /\ UNCHANGED <<streamVars, groupVars, consumerVars, electVars, readerVars,
                   ackVars, maintVars, history, faults>>

(* runLeader returns and cancels the term: another instance holds the      *)
(* lease, or renewals have failed for LeaseTTL.  It does not wait for the  *)
(* term's goroutines.                                                      *)
StepDown(t) ==
    /\ live[t]
    /\ \/ lease \notin {Nobody, owner[t]} /\ UNCHANGED faults
       \/ Partitions /\ Fault("reject")
    /\ live' = [live EXCEPT ![t] = FALSE]
    /\ UNCHANGED <<streamVars, groupVars, lease, consumerVars, terms, owner,
                   readerVars, ackVars, maintVars, history>>

(* Faulty variant of LeaseExpire: the lease key is set without a TTL. *)
LeaseExpireNever == FALSE /\ UNCHANGED vars

(* The lease key expires.  A process that is up renews it in time unless   *)
(* it is cut off.                                                          *)
LeaseExpire ==
    /\ lease # Nobody
    /\ Partitions \/ Dead(lease)
    /\ lease' = Nobody
    /\ UNCHANGED <<streamVars, groupVars, consumerVars, electVars, readerVars,
                   ackVars, maintVars, history, faults>>

-----------------------------------------------------------------------------
(* The reader of a term. *)

(* XAUTOCLAIM: of the pending entries from the cursor on, the first        *)
(* ReadCount that have been idle for ClaimMinIdle become ours.             *)
ToScan(t) == {id \in Pending : id >= cursor[t]}

XAutoClaim(t, page) ==
    /\ pel' = [id \in Ids |-> IF id \in page THEN owner[t] ELSE pel[id]]
    /\ members' = members \cup {owner[t]}
    /\ UNCHANGED gdel

(* claimScan: collect the claimed page; the reply says where the next page *)
(* starts, if there is one.                                                *)
claimPage(t, aged) ==
    LET page == Page(aged, ReadCount)
        next == IF Cardinality(page) < ReadCount THEN {}
                ELSE {id \in ToScan(t) : id > Greatest(page)}
    IN  /\ rpc[t] = "scan"
        /\ XAutoClaim(t, page)
        /\ entries' = [entries EXCEPT ![t] = @ \cup page]
        /\ cursor' = [cursor EXCEPT ![t] = IF next = {} THEN 0 ELSE Least(next)]
        /\ rpc' = [rpc EXCEPT ![t] =
                        Loop(t, IF next = {} THEN "orphans" ELSE "scan")]
        /\ UNCHANGED <<streamVars, lease, consumerVars, electVars, ch, ackVars,
                       maintVars, history, faults>>

claimScan(t) == \E aged \in SUBSET ToScan(t) : claimPage(t, aged)

(* Faulty variant of claimScanFailed: an error abandons the reclaim. *)
claimAbandoned(t) ==
    /\ rpc[t] = "scan"
    /\ Fault("reject")
    /\ rpc' = [rpc EXCEPT ![t] = AfterDelivery(t, entries[t])]
    /\ UNCHANGED <<streamVars, groupVars, lease, consumerVars, electVars, cursor,
                   entries, ch, ackVars, maintVars, history>>

(* XAUTOCLAIM fails: the scan starts over after ReclaimRetry, with what it *)
(* has collected.                                                          *)
claimScanFailed(t) ==
    /\ rpc[t] = "scan"
    /\ \/ Fault("reject") /\ UNCHANGED groupVars
       \/ /\ Fault("lostClaim")
          /\ \E aged \in SUBSET ToScan(t) : XAutoClaim(t, Page(aged, ReadCount))
    /\ cursor' = [cursor EXCEPT ![t] = 0]
    /\ rpc' = [rpc EXCEPT ![t] = Loop(t, "scan")]
    /\ UNCHANGED <<streamVars, lease, consumerVars, electVars, entries, ch,
                   ackVars, maintVars, history>>

(* Faulty variant of orphanedPending: entries that are not idle enough to  *)
(* be claimed yet are left behind.                                         *)
orphansIgnored(t) ==
    /\ rpc[t] = "orphans"
    /\ rpc' = [rpc EXCEPT ![t] = AfterDelivery(t, entries[t])]
    /\ UNCHANGED <<streamVars, groupVars, lease, consumerVars, electVars, cursor,
                   entries, ch, ackVars, maintVars, history, faults>>

(* orphanedPending: XPENDING by consumer name.  With none left but ours,   *)
(* deliverClaimed starts; otherwise, or when XPENDING fails,               *)
(* reclaimPending scans again.                                             *)
orphanedPending(t) ==
    LET orphans == {id \in Pending : pel[id] # owner[t]} IN
    /\ rpc[t] = "orphans"
    /\ \/ /\ orphans = {}
          /\ rpc' = [rpc EXCEPT ![t] = AfterDelivery(t, entries[t])]
          /\ UNCHANGED faults
       \/ /\ \/ orphans # {} /\ UNCHANGED faults
             \/ Fault("reject")
          /\ rpc' = [rpc EXCEPT ![t] = Loop(t, "scan")]
    /\ UNCHANGED <<streamVars, groupVars, lease, consumerVars, electVars, cursor,
                   entries, ch, ackVars, maintVars, history>>

(* readLoop: XREADGROUP ">" hands us the next undelivered entries. *)
ReadExec(t) ==
    LET page == Page({id \in stream : id > gdel}, ReadCount) IN
    /\ page # {}
    /\ pel' = [id \in Ids |-> IF id \in page THEN owner[t] ELSE pel[id]]
    /\ gdel' = Greatest(page)
    /\ members' = members \cup {owner[t]}

readLoop(t) ==
    /\ rpc[t] = "read"
    /\ ReadExec(t)
    /\ entries' = [entries EXCEPT ![t] = Page({id \in stream : id > gdel}, ReadCount)]
    /\ rpc' = [rpc EXCEPT ![t] = "send"]
    /\ UNCHANGED <<streamVars, lease, consumerVars, electVars, cursor, ch,
                   ackVars, maintVars, history, faults>>

(* The reply of XREADGROUP is lost: the loop goes on with the next read. *)
readLoopLost(t) ==
    /\ rpc[t] = "read"
    /\ ReadExec(t)
    /\ Fault("lostRead")
    /\ rpc' = [rpc EXCEPT ![t] = Loop(t, "read")]
    /\ UNCHANGED <<streamVars, lease, consumerVars, electVars, cursor, entries,
                   ch, ackVars, maintVars, history>>

(* deliver: send the lowest entry left into the channel.  A cancelled      *)
(* context does not exclude the send (select picks any ready case).        *)
deliver(t) ==
    /\ rpc[t] = "send"
    /\ Len(ch[t]) < Buffer
    /\ ch' = [ch EXCEPT ![t] = Append(@, Least(entries[t]))]
    /\ rpc' = [rpc EXCEPT ![t] = "record"]
    /\ UNCHANGED <<streamVars, groupVars, lease, consumerVars, electVars, cursor,
                   entries, ackVars, maintVars, history, faults>>

(* deliver, after the send: record the entry with onDeliver. *)
onDeliver(t) ==
    LET id == Least(entries[t])
        left == entries[t] \ {id}
    IN  /\ rpc[t] = "record"
        /\ pend' = [pend EXCEPT ![t] = @ \cup {id}]
        /\ entries' = [entries EXCEPT ![t] = left]
        /\ rpc' = [rpc EXCEPT ![t] = AfterDelivery(t, left)]
        /\ UNCHANGED <<streamVars, groupVars, lease, consumerVars, electVars,
                       cursor, ch, wm, ac, maintVars, history, faults>>

(* Faulty variant of endTerm: deliver does not watch the context. *)
endTermDeaf(t) ==
    /\ rpc[t] \in {"scan", "orphans", "read", "stop"}
    /\ ~live[t]
    /\ rpc' = [rpc EXCEPT ![t] = "done"]
    /\ curTerm' = [curTerm EXCEPT ![owner[t]] = IF @ = t THEN 0 ELSE @]
    /\ cursor' = [cursor EXCEPT ![t] = 0]
    /\ entries' = [entries EXCEPT ![t] = {}]
    /\ ch' = [ch EXCEPT ![t] = <<>>]
    /\ UNCHANGED <<streamVars, groupVars, lease, life, hand, electVars, ackVars,
                   maintVars, history, faults>>

(* The reader sees the cancelled context and returns; endTerm.  What the   *)
(* abandoned channel still buffers is never handed out.                    *)
endTerm(t) ==
    /\ rpc[t] \in {"scan", "orphans", "read", "send", "stop"}
    /\ ~live[t]
    /\ rpc' = [rpc EXCEPT ![t] = "done"]
    /\ curTerm' = [curTerm EXCEPT ![owner[t]] = IF @ = t THEN 0 ELSE @]
    /\ cursor' = [cursor EXCEPT ![t] = 0]
    /\ entries' = [entries EXCEPT ![t] = {}]
    /\ ch' = [ch EXCEPT ![t] = <<>>]
    /\ UNCHANGED <<streamVars, groupVars, lease, life, hand, electVars, ackVars,
                   maintVars, history, faults>>

-----------------------------------------------------------------------------
(* Handlers and acknowledgement. *)

(* Subscribe hands out the next message of the current term.  A message    *)
(* of a term that is not current any more is never handed out: the wake-up *)
(* or, when select picks the message all the same, isCurrentTerm sees to   *)
(* that.                                                                   *)
Subscribe(t) ==
    LET c == owner[t] IN
    /\ t \in 1 .. terms
    /\ curTerm[c] = t
    /\ ch[t] # <<>>
    /\ life[c] \in {"up", "closing"}
    /\ Len(hand[c]) < MaxBatch
    /\ ch' = [ch EXCEPT ![t] = Tail(@)]
    /\ hand' = [hand EXCEPT ![c] = Append(@, <<t, Head(ch[t])>>)]
    /\ UNCHANGED <<streamVars, groupVars, lease, life, curTerm, electVars, rpc,
                   cursor, entries, ackVars, maintVars, history, faults>>

(* Faulty variant of Mark: the last message taken is marked, finished or not. *)
MarkAhead(c, n) ==
    LET msg == hand[c][Len(hand[c])] IN
    /\ n \in DOMAIN hand[c]
    /\ processed' = processed \cup {hand[c][i][2] : i \in 1 .. n}
    /\ wm' = [wm EXCEPT ![msg[1]] = IF msg[2] > @ THEN msg[2] ELSE @]
    /\ hand' = [hand EXCEPT ![c] = SubSeq(@, n + 1, Len(@))]
    /\ UNCHANGED <<streamVars, groupVars, lease, life, curTerm, electVars,
                   readerVars, pend, ac, maintVars, acked, faults>>

(* Faulty variant of Mark: one watermark for all terms of a consumer. *)
MarkLeaks(c, n) ==
    LET msg == hand[c][n] IN
    /\ n \in DOMAIN hand[c]
    /\ processed' = processed \cup {hand[c][i][2] : i \in 1 .. n}
    /\ wm' = [t \in Terms |-> IF owner[t] = c /\ msg[2] > wm[t] THEN msg[2] ELSE wm[t]]
    /\ hand' = [hand EXCEPT ![c] = SubSeq(@, n + 1, Len(@))]
    /\ UNCHANGED <<streamVars, groupVars, lease, life, curTerm, electVars,
                   readerVars, pend, ac, maintVars, acked, faults>>

(* The handler finishes the first n messages it holds and calls Mark on    *)
(* the last of them only.                                                  *)
Mark(c, n) ==
    LET msg == hand[c][n] IN
    /\ n \in DOMAIN hand[c]
    /\ processed' = processed \cup {hand[c][i][2] : i \in 1 .. n}
    /\ wm' = [wm EXCEPT ![msg[1]] = IF msg[2] > @ THEN msg[2] ELSE @]
    /\ hand' = [hand EXCEPT ![c] = SubSeq(@, n + 1, Len(@))]
    /\ UNCHANGED <<streamVars, groupVars, lease, life, curTerm, electVars,
                   readerVars, pend, ac, maintVars, acked, faults>>

(* XACK of what the term's watermark covers, whoever owns it by now. *)
Covered(t) == {id \in pend[t] : id <= wm[t]}

XAck(t) ==
    /\ pel' = [id \in Ids |-> IF id \in Covered(t) THEN Nobody ELSE pel[id]]
    /\ acked' = acked \cup Covered(t)
    /\ UNCHANGED <<gdel, members>>

(* acker.flush, from the auto-commit ticker or from message.Commit. *)
flush(t) ==
    /\ Covered(t) # {}
    /\ XAck(t)
    /\ \/ pend' = [pend EXCEPT ![t] = @ \ Covered(t)] /\ UNCHANGED faults
       \/ UNCHANGED pend /\ Fault("lostAck")
    /\ UNCHANGED <<streamVars, lease, consumerVars, electVars, readerVars, wm, ac,
                   maintVars, processed>>

(* autoCommitLoop on a cancelled context: a last flush. *)
autoCommitExit(t) ==
    /\ ac[t] = "run"
    /\ ~live[t]
    /\ ac' = [ac EXCEPT ![t] = "done"]
    /\ \/ XAck(t) /\ pend' = [pend EXCEPT ![t] = @ \ Covered(t)] /\ UNCHANGED faults
       \/ UNCHANGED <<groupVars, acked, pend>> /\ Fault("reject")
    /\ UNCHANGED <<streamVars, lease, consumerVars, electVars, readerVars, wm,
                   maintVars, processed>>

-----------------------------------------------------------------------------
(* The maintenance loop of a term: trimStream, then pruneConsumers. *)

(* The next stage of a round; a cancelled context fails what is left of it. *)
Stage(t, pc) == IF live[t] THEN pc ELSE "idle"

(* Faulty variant of trimInfo: trim by the last-delivered id only. *)
trimDelivered(t) ==
    /\ live[t]
    /\ t \in Maintained
    /\ mpc[t] = "idle"
    /\ minID' = [minID EXCEPT ![t] = gdel]
    /\ mpc' = [mpc EXCEPT ![t] = IF gdel = 0 THEN "info" ELSE "trim"]
    /\ UNCHANGED <<streamVars, groupVars, lease, consumerVars, electVars,
                   readerVars, ackVars, prunes, history, faults>>

(* XINFO GROUPS: the last-delivered id, and whether anything is pending. *)
trimInfo(t) ==
    /\ live[t]
    /\ t \in Maintained
    /\ mpc[t] = "idle"
    /\ minID' = [minID EXCEPT ![t] = gdel]
    /\ mpc' = [mpc EXCEPT ![t] = IF Pending # {} THEN "pending"
                                 ELSE IF gdel = 0 THEN "info" ELSE "trim"]
    /\ UNCHANGED <<streamVars, groupVars, lease, consumerVars, electVars,
                   readerVars, ackVars, prunes, history, faults>>

(* XPENDING: the lowest pending id, unless nothing is pending any more. *)
trimPending(t) ==
    /\ mpc[t] = "pending"
    /\ minID' = [minID EXCEPT ![t] = IF Pending = {} THEN @ ELSE Least(Pending)]
    /\ mpc' = [mpc EXCEPT ![t] = Stage(t, "trim")]
    /\ UNCHANGED <<streamVars, groupVars, lease, consumerVars, electVars,
                   readerVars, ackVars, prunes, history, faults>>

(* XTRIM MINID deletes the entries below minID. *)
trimExec(t) ==
    /\ mpc[t] = "trim"
    /\ stream' = {id \in stream : id >= minID[t]}
    /\ minID' = [minID EXCEPT ![t] = 0]
    /\ mpc' = [mpc EXCEPT ![t] = Stage(t, "info")]
    /\ UNCHANGED <<last, created, base, groupVars, lease, consumerVars, electVars,
                   readerVars, ackVars, prunes, history, faults>>

(* A name that has been silent for ConsumerIdleTimeout: its process is     *)
(* gone, or stands by.                                                     *)
Silent(c) ==
    \/ Dead(c)
    \/ QuietLive /\ \A t \in TermsOf(c) : rpc[t] = "done"

(* XINFO CONSUMERS: the names without pending entries that are silent. *)
pruneInfo(t) ==
    LET names == {c \in members \ {owner[t]} : PendingOf(c) = {} /\ Silent(c)} IN
    /\ mpc[t] = "info"
    /\ prunes' = [prunes EXCEPT ![t] = IF live[t] THEN names ELSE {}]
    /\ mpc' = [mpc EXCEPT ![t] = IF prunes'[t] = {} THEN "idle" ELSE "del"]
    /\ UNCHANGED <<streamVars, groupVars, lease, consumerVars, electVars,
                   readerVars, ackVars, minID, history, faults>>

(* XGROUP DELCONSUMER: the name goes, and its pending entries with it.     *)
XGroupDelConsumer(c) ==
    /\ pel' = [id \in Ids |-> IF pel[id] = c THEN Nobody ELSE pel[id]]
    /\ members' = members \ {c}
    /\ UNCHANGED gdel

(* The loop of pruneConsumers; an error moves on to the next name. *)
pruneDel(t, c) ==
    /\ mpc[t] = "del"
    /\ c \in prunes[t]
    /\ \/ XGroupDelConsumer(c) /\ UNCHANGED faults
       \/ UNCHANGED groupVars /\ Fault("reject")
    /\ prunes' = [prunes EXCEPT ![t] = IF live[t] THEN @ \ {c} ELSE {}]
    /\ mpc' = [mpc EXCEPT ![t] = IF prunes'[t] = {} THEN "idle" ELSE "del"]
    /\ UNCHANGED <<streamVars, lease, consumerVars, electVars, readerVars,
                   ackVars, minID, history>>

(* A command of trimStream or XINFO CONSUMERS fails: the function returns. *)
maintFailed(t) ==
    /\ live[t] /\ t \in Maintained /\ mpc[t] # "del"
    /\ Fault("reject")
    /\ mpc' = [mpc EXCEPT ![t] = IF @ = "info" THEN "idle" ELSE "info"]
    /\ minID' = [minID EXCEPT ![t] = 0]
    /\ UNCHANGED <<streamVars, groupVars, lease, consumerVars, electVars,
                   readerVars, ackVars, prunes, history>>

(* The context is cancelled: what is left of the round fails. *)
maintCancelled(t) ==
    /\ ~live[t]
    /\ mpc[t] # "idle"
    /\ mpc' = [mpc EXCEPT ![t] = "idle"]
    /\ minID' = [minID EXCEPT ![t] = 0]
    /\ prunes' = [prunes EXCEPT ![t] = {}]
    /\ UNCHANGED <<streamVars, groupVars, lease, consumerVars, electVars,
                   readerVars, ackVars, history, faults>>

-----------------------------------------------------------------------------
(* The end of a Consumer. *)

(* Close cancels the consumer's context, and with it every term's. *)
Close(c) ==
    /\ Closing
    /\ life[c] = "up"
    /\ life' = [life EXCEPT ![c] = "closing"]
    /\ live' = [t \in Terms |-> live[t] /\ owner[t] # c]
    /\ UNCHANGED <<streamVars, groupVars, lease, curTerm, hand, terms, owner,
                   readerVars, ackVars, maintVars, history, faults>>

(* Faulty variant of CloseDone: the lease is released before the wait. *)
CloseAtOnce(c) ==
    /\ life[c] = "closing"
    /\ life' = [life EXCEPT ![c] = "closed"]
    /\ lease' = IF lease = c THEN Nobody ELSE lease
    /\ UNCHANGED <<streamVars, groupVars, curTerm, hand, electVars, readerVars,
                   ackVars, maintVars, history, faults>>

(* Close has waited for every goroutine and releases the lease if we still *)
(* hold it.                                                                *)
CloseDone(c) ==
    /\ life[c] = "closing"
    /\ \A t \in TermsOf(c) : rpc[t] = "done" /\ ac[t] = "done" /\ mpc[t] = "idle"
    /\ life' = [life EXCEPT ![c] = "closed"]
    /\ \/ lease' = (IF lease = c THEN Nobody ELSE lease) /\ UNCHANGED faults
       \/ UNCHANGED lease /\ Fault("reject")
    /\ UNCHANGED <<streamVars, groupVars, curTerm, hand, electVars, readerVars,
                   ackVars, maintVars, history>>

(* The process dies; all that is left of it is in Redis. *)
Crash(c) ==
    LET Gone(f, default) == [t \in Terms |-> IF owner[t] = c THEN default ELSE f[t]]
    IN  /\ life[c] \in {"up", "closing"}
        /\ Fault("crash")
        /\ life' = [life EXCEPT ![c] = "crashed"]
        /\ curTerm' = [curTerm EXCEPT ![c] = 0]
        /\ hand' = [hand EXCEPT ![c] = <<>>]
        /\ live' = Gone(live, FALSE)
        /\ rpc' = Gone(rpc, "done")
        /\ cursor' = Gone(cursor, 0)
        /\ entries' = Gone(entries, {})
        /\ ch' = Gone(ch, <<>>)
        /\ pend' = Gone(pend, {})
        /\ wm' = Gone(wm, 0)
        /\ ac' = Gone(ac, "done")
        /\ mpc' = Gone(mpc, "idle")
        /\ minID' = Gone(minID, 0)
        /\ prunes' = Gone(prunes, {})
        /\ UNCHANGED <<streamVars, groupVars, lease, terms, owner, history>>

-----------------------------------------------------------------------------

TermStep(t) ==
    \/ Renew(t) \/ StepDown(t)
    \/ claimScan(t) \/ claimScanFailed(t) \/ orphanedPending(t)
    \/ readLoop(t) \/ readLoopLost(t) \/ deliver(t) \/ onDeliver(t) \/ endTerm(t)
    \/ Subscribe(t) \/ flush(t) \/ autoCommitExit(t)
    \/ trimInfo(t) \/ trimPending(t) \/ trimExec(t) \/ pruneInfo(t)
    \/ \E c \in Consumers : pruneDel(t, c)
    \/ maintFailed(t) \/ maintCancelled(t)

ConsumerStep(c) ==
    \/ NewConsumer(c) \/ tryLease(c) \/ tryLeaseLost(c)
    \/ \E n \in 1 .. MaxBatch : Mark(c, n)
    \/ Close(c) \/ CloseDone(c) \/ Crash(c)

Next ==
    \/ SendMessage
    \/ LeaseExpire
    \/ \E t \in Terms : TermStep(t)
    \/ \E c \in Consumers : ConsumerStep(c)

Spec == Init /\ [][Next]_vars

(* Subscribe, of a consumer that nobody closes: after Close its callers    *)
(* get ErrConsumerClosed and stop.                                         *)
SubscribeUp(t) == Subscribe(t) /\ life[owner[t]] = "up"

(* A scan claims this entry. *)
claimEntry(t, id) ==
    \E aged \in SUBSET ToScan(t) : id \in Page(aged, ReadCount) /\ claimPage(t, aged)

(* Goroutines run, Redis answers, handlers finish what they hold, and time *)
(* passes: an entry that has been idle for ClaimMinIdle stays so until it  *)
(* is claimed, hence scans that keep coming back do claim it (SF).  Nobody *)
(* has to send, start, close or fail.                                      *)
FairSpec ==
    /\ Spec
    /\ WF_vars(LeaseExpire)
    /\ \A t \in Terms :
        /\ \A id \in Ids : SF_vars(claimEntry(t, id))
        /\ WF_vars(claimScan(t)) /\ WF_vars(orphanedPending(t))
        /\ WF_vars(readLoop(t)) /\ WF_vars(deliver(t)) /\ WF_vars(onDeliver(t))
        /\ WF_vars(endTerm(t)) /\ WF_vars(SubscribeUp(t)) /\ WF_vars(flush(t))
        /\ WF_vars(autoCommitExit(t))
        /\ WF_vars(trimPending(t)) /\ WF_vars(trimExec(t)) /\ WF_vars(pruneInfo(t))
        /\ WF_vars(\E c \in Consumers : pruneDel(t, c)) /\ WF_vars(maintCancelled(t))
    /\ \A c \in Consumers :
        /\ WF_vars(tryLease(c)) /\ WF_vars(\E n \in 1 .. MaxBatch : Mark(c, n))
        /\ WF_vars(CloseDone(c))

-----------------------------------------------------------------------------
(* Properties. *)

Image(s) == {s[i] : i \in DOMAIN s}

StreamType ==
    /\ last \in 0 .. MaxId /\ stream \subseteq 1 .. last
    /\ created \in BOOLEAN /\ base \in 0 .. last /\ gdel \in base .. last
    /\ pel \in [Ids -> Consumers \cup {Nobody}]
    /\ members \subseteq Consumers
    /\ lease \in Consumers \cup {Nobody}

ConsumerType ==
    /\ life \in [Consumers -> {"off", "up", "closing", "closed", "crashed"}]
    /\ curTerm \in [Consumers -> 0 .. terms]
    /\ hand \in [Consumers -> Seq(Terms \X Ids)]

TermType ==
    /\ terms \in 0 .. MaxTerm
    /\ owner \in [Terms -> Consumers \cup {Nobody}]
    /\ live \in [Terms -> BOOLEAN]
    /\ rpc \in [Terms -> {"off", "scan", "orphans", "send", "record", "read",
                          "stop", "done"}]
    /\ cursor \in [Terms -> Ids \cup {0}]
    /\ entries \in [Terms -> SUBSET Ids]
    /\ ch \in [Terms -> Seq(Ids)]

AckType ==
    /\ pend \in [Terms -> SUBSET Ids]
    /\ wm \in [Terms -> Ids \cup {0}]
    /\ ac \in [Terms -> {"off", "run", "done"}]
    /\ processed \subseteq Ids /\ acked \subseteq Ids
    /\ faults \in 0 .. MaxFaults

MaintType ==
    /\ mpc \in [Terms -> {"idle", "pending", "trim", "info", "del"}]
    /\ minID \in [Terms -> Ids \cup {0}]
    /\ prunes \in [Terms -> SUBSET Consumers]

(* Redis, the consumers and the terms keep their types; in particular the  *)
(* group never starts below the "$" of its creation, nor reads ahead of    *)
(* the stream (XREADGROUP in readLoop, XGROUP CREATE in NewConsumer).      *)
TypeOK == StreamType /\ ConsumerType /\ TermType /\ AckType /\ MaintType

(* At-least-once (redismq.go): only what a handler has finished is         *)
(* acknowledged, across failovers, zombie leaders, redelivery and commits  *)
(* that mark the last message of a batch only.                             *)
AckedWereProcessed == acked \subseteq processed

(* No message is lost (trimStream: "an unacked entry is never dropped"):   *)
(* whatever was sent after the group was created is acknowledged, or is    *)
(* stored and either still to be read or pending, so that a leader can     *)
(* deliver it.                                                             *)
Retained ==
    created => \A id \in base + 1 .. last :
        \/ id \in acked
        \/ id \in stream /\ (id > gdel \/ pel[id] # Nobody)

(* Within a term messages are handed out in stream order, and what is not  *)
(* handed out yet lies above everything recorded and marked, so that the   *)
(* watermark never covers it (reclaimPending: "the delivered stream stays  *)
(* monotonic and the watermark ack stays correct").                        *)
DeliveredInOrder ==
    \A t \in Terms :
        /\ \A i, j \in DOMAIN ch[t] : i < j => ch[t][i] < ch[t][j]
        /\ \A id \in Image(ch[t]) : id > wm[t]
        /\ rpc[t] = "send" =>
            \A id \in entries[t] : \A got \in pend[t] \cup {wm[t]} : id > got

(* While a leader reads new messages, every pending entry is in the hands  *)
(* of a leader that will deliver or acknowledge it: none is stranded for   *)
(* the rest of the leadership (deliveryTerm: "they stay unacked in the PEL *)
(* and the next leader reclaims them"; reclaimPending: falling through to  *)
(* the live read "would strand the orphans for the whole leadership term").*)
NothingStranded ==
    \A t \in Terms : live[t] /\ rpc[t] = "read" =>
        \A id \in Pending : \E u \in Terms :
            live[u] /\ owner[u] = pel[id] /\ id \in entries[u] \cup pend[u]

(* "At most one Consumer per (stream, group) is active at a time" (type    *)
(* Consumer), while leaders renew in time: no two terms read or deliver.   *)
OneActive ==
    \A t, u \in Terms :
        t # u /\ rpc[t] \in {"scan", "orphans", "send", "record", "read"}
              /\ rpc[u] \in {"scan", "orphans", "send", "record", "read"}
        => FALSE

(* If some leader stays in office, every message sent after the group was  *)
(* created is processed in the end, whatever its predecessors left behind. *)
EverythingProcessed ==
    \A t \in Terms : <>[](live[t]) =>
        \A id \in Ids : (created /\ id > base /\ id <= last) ~> (id \in processed)

(* Failover: while a consumer is up, somebody leads in the end - a lease   *)
(* left behind by a dead leader, a failed release or a lost reply does not *)
(* keep the group without a leader (leaseScript, releaseLease).            *)
SomebodyLeads ==
    \A c \in Consumers :
        (life[c] = "up") ~> (life[c] # "up" \/ \E t \in Terms : live[t])

(* Close returns: no goroutine of the consumer waits for ever. *)
CloseReturns == \A c \in Consumers : (life[c] = "closing") ~> Dead(c)
=============================================================================
