------------------------- MODULE ServiceParts_proofs -------------------------
(***************************************************************************)
(* Proofs about parts of MCServices, for every value of their constants:    *)
(* simmq, the Kafka consumer, the Redis timer, the key-value store of       *)
(* discovery/inprocess, the ZooKeeper client, the leases of discovery/etcd, *)
(* the CPU samples and memamq.  Each has its inductive invariant, one lemma *)
(* for each kind of step, and theorems that its specification implies its   *)
(* properties.  Services_proofs carries them over to the suite.             *)
(***************************************************************************)
EXTENDS Integers, Sequences, FiniteSets, TLAPS, SequenceTheorems, FiniteSetTheorems

CONSTANTS SimSenders, SimConsumers, SimClosers, Size, MaxQueues, MaxSends                   \* simmq
CONSTANTS Members, KafkaClosers, Buffer, AutoCommit, MaxLog, MaxCrashes                     \* kafka
CONSTANTS TimerKeys, TimerClients, Instances, MaxTime, MaxRegs, batchSize, MaxFailures      \* the timer
CONSTANTS KvKeys, Watchers, Full, Prefixed, MaxSets, MaxWatches                             \* the key-value store
CONSTANTS Peers, MaxDrops, MaxChanges                                                       \* ZooKeeper
CONSTANTS MaxRegisters, MaxLeases, RgrFaults, MaxLost, Calls, LeaseFaults                   \* etcd leases
CONSTANTS Pushers, Stoppers, Workers, BufferSize, BatchSize                                 \* memamq
CONSTANTS Cores, FullUsage, MaxElapsed                                                      \* CPU samples

VARIABLES topicMq, sMade, ch, sClosed, sDone, chClosed, readers, q, sPc, nsent, sAccepted, received
VARIABLES log, committed, owner, gen, from, handed, kFaults, m
VARIABLES now, failures, zset, hash, regs, state, client, inst, fired
VARIABLES items, sets, lease, toCancel, signal, closing, sub, watches, view, kept
VARIABLES others, own, nodes, link, drops, changes, events, armed, lostWatch, localConns, resolver, lock, zRemote,
          isRegistered, node, isStateDisconnected, zUnreg
VARIABLES rKey, rLeases, rGranted, reg, gens, loop, rCancelled, job, unreg, wanted, gone, rFaults, lost
VARIABLES lKey, lLeases, lGranted, lCall, keepAlives, lCancelled, lStop, lFaults
VARIABLES taskChan, mClosed, isStopped, count, mPc, mCall, sent, running, mDone, stop
VARIABLES cgroup, busy, elapsed, cFirst, usage, gCPU
-----------------------------------------------------------------------------
(* mq/simmq: the queue of a topic. *)
Sim == INSTANCE SimMQ WITH Senders <- SimSenders, Consumers <- SimConsumers, Closers <- SimClosers, made <- sMade,
           closed <- sClosed, done <- sDone, pc <- sPc, accepted <- sAccepted

(* The channel of a topic has a size; the bounds of the model are numbers. *)
SimSized == Size \in Nat /\ MaxQueues \in Nat /\ MaxSends \in Nat

(* The variables of simmq have their types: a channel holds at most Size    *)
(* messages.                                                                *)
SimTyped ==
    /\ sMade \in 0 .. MaxQueues /\ topicMq \in 0 .. sMade
    /\ ch \in [Sim!Queues -> Seq(Sim!Messages)] /\ sAccepted \in [Sim!Queues -> Seq(Sim!Messages)]
    /\ received \in [Sim!Queues -> Seq(Sim!Messages)] /\ \A mq \in Sim!Queues : Len(ch[mq]) <= Size
    /\ sClosed \in [Sim!Queues -> BOOLEAN] /\ sDone \in [Sim!Queues -> BOOLEAN]
           /\ chClosed \in [Sim!Queues -> BOOLEAN]
    /\ readers \in [Sim!Queues -> SUBSET SimSenders]
    /\ q \in [Sim!Procs -> 0 .. sMade] /\ nsent \in [SimSenders -> 0 .. MaxSends]
    /\ sPc \in [Sim!Procs -> {"idle", "ready", "lock", "select", "panic", "done", "fn", "wlock", "close"}]

(* Whoever does something with a queue has got one, and a sender on its way *)
(* to the select has counted its message.                                   *)
SimHasQueue ==
    /\ \A p \in Sim!Procs : sPc[p] \notin {"idle", "panic"} => q[p] # Sim!NoQueue
    /\ \A s \in SimSenders : sPc[s] \in {"lock", "select"} => nsent[s] # 0

(* Where a Close is that has set the flag. *)
Closing == {"done", "fn", "wlock", "close"}

(* The Close that set the flag is alone with its queue, which stays in the  *)
(* table until it has closed done.                                          *)
SimOneCloser ==
    /\ \A c, d \in SimClosers : sPc[c] \in Closing /\ sPc[d] \in Closing /\ q[c] = q[d] => c = d
    /\ \A c \in SimClosers : sPc[c] \in Closing => sClosed[q[c]]
    /\ \A c \in SimClosers : sPc[c] \in {"done", "fn"} => topicMq = q[c]
    /\ \A c \in SimClosers : sPc[c] \in {"fn", "wlock", "close"} => sDone[q[c]]
    /\ \A c \in SimClosers : sPc[c] \in {"wlock", "close"} => topicMq # q[c]

(* A queue that is not in the table has been closed up to done, and one     *)
(* that is has not been closed any further.                                 *)
SimTable ==
    /\ \A mq \in 1 .. sMade : ~sClosed[mq] => topicMq = mq
    /\ \A mq \in 1 .. sMade : topicMq # mq => sDone[mq]
    /\ \A mq \in Sim!Queues : sClosed[mq] \/ sDone[mq] \/ chClosed[mq] => mq <= sMade
    /\ \A mq \in 1 .. sMade : chClosed[mq] => topicMq # mq

(* The inductive invariant of simmq. *)
SimInv == SimTyped /\ SimHasQueue /\ SimOneCloser /\ SimTable /\ Sim!AcceptedInOrder

(* What is behind a sequence goes behind its concatenation. *)
LEMMA SimAppend ==
    \A u, v \in Seq(Sim!Messages), e \in Sim!Messages : Append(u \o v, e) = u \o Append(v, e)
  <1> SUFFICES ASSUME NEW u \in Seq(Sim!Messages), NEW v \in Seq(Sim!Messages), NEW e \in Sim!Messages
               PROVE  Append(u \o v, e) = u \o Append(v, e)
    OBVIOUS
  <1>1. u \o v \in Seq(Sim!Messages) /\ <<e>> \in Seq(Sim!Messages)
    BY ConcatProperties
  <1>2. Append(u \o v, e) = (u \o v) \o <<e>> /\ Append(v, e) = v \o <<e>>
    BY <1>1, AppendIsConcat
  <1> QED
    BY <1>1, <1>2, ConcatAssociative

(* A message sent to the channel goes behind all that were accepted. *)
LEMMA SimSendOrder ==
    ASSUME NEW mq \in Sim!Queues, NEW x \in Sim!Messages, ch[mq] \in Seq(Sim!Messages),
           received[mq] \in Seq(Sim!Messages), sAccepted[mq] = received[mq] \o ch[mq]
    PROVE  Append(sAccepted[mq], x) = received[mq] \o Append(ch[mq], x)
  BY SimAppend, Zenon

(* Moving the head of the second sequence to the end of the first leaves    *)
(* their concatenation as it is.                                            *)
LEMMA HeadMoves ==
    ASSUME NEW S, NEW u \in Seq(S), NEW v \in Seq(S), v # <<>>
    PROVE  u \o v = Append(u, Head(v)) \o Tail(v)
  <1>1. Head(v) \in S /\ Tail(v) \in Seq(S) /\ <<Head(v)>> \in Seq(S)
    BY HeadTailProperties
  <1>2. v = <<Head(v)>> \o Tail(v)
    <2>1. Len(v) \in Nat \ {0}
      BY EmptySeq
    <2> QED
      BY <1>1, <2>1
  <1>3. Append(u, Head(v)) = u \o <<Head(v)>>
    BY <1>1, AppendIsConcat
  <1> QED
    BY <1>1, <1>2, <1>3, ConcatAssociative

(* Whoever is past getTopicMemory has one of the queues made so far. *)
LEMMA SimInRange ==
    ASSUME SimSized, SimTyped, SimHasQueue, NEW p \in Sim!Procs, sPc[p] \notin {"idle", "panic"}
    PROVE  q[p] \in Sim!Queues /\ q[p] \in 1 .. sMade
  <1>1. q[p] \in 0 .. sMade /\ q[p] # 0 /\ sMade \in 0 .. MaxQueues
    BY DEF SimTyped, SimHasQueue, Sim!NoQueue
  <1> QED
    BY <1>1 DEF SimSized, Sim!Queues

(* getTopicMemory, under topicLock: a new queue is made only when the table *)
(* is empty, and then every earlier one has been closed.                    *)
LEMMA SimGetKeeps ==
    ASSUME SimSized, SimInv, NEW p \in Sim!Procs, Sim!getTopicMemory(p)
    PROVE  SimInv'
  <1> USE DEF SimInv, SimSized
  <1>1. /\ sPc[p] = "idle" /\ sPc' = [sPc EXCEPT ![p] = "ready"]
        /\ UNCHANGED <<ch, sClosed, sDone, chClosed, readers, nsent, sAccepted, received>>
    BY DEF Sim!getTopicMemory, Sim!queueVars, Sim!history
  <1>2. Sim!AcceptedInOrder'
    BY <1>1 DEF Sim!AcceptedInOrder
  <1>3. CASE topicMq # Sim!NoQueue
    <2>1. q' = [q EXCEPT ![p] = topicMq] /\ UNCHANGED <<topicMq, sMade>>
      BY <1>3 DEF Sim!getTopicMemory
    <2>2. SimTyped'
      BY <1>1, <2>1 DEF SimTyped
    <2>3. SimHasQueue'
      BY <1>1, <1>3, <2>1 DEF SimTyped, SimHasQueue
    <2>4. SimOneCloser'
      BY <1>1, <2>1 DEF SimTyped, SimOneCloser, Closing, Sim!Procs
    <2>5. SimTable'
      BY <1>1, <2>1 DEF SimTable
    <2> QED
      BY <1>2, <2>2, <2>3, <2>4, <2>5
  <1>4. CASE topicMq = Sim!NoQueue
    <2>1. /\ sMade < MaxQueues /\ sMade' = sMade + 1 /\ topicMq' = sMade + 1
          /\ q' = [q EXCEPT ![p] = sMade + 1]
      BY <1>4 DEF Sim!getTopicMemory
    <2>2. SimTyped'
      <3>1. sMade' \in 0 .. MaxQueues /\ topicMq' \in 0 .. sMade' /\ q' \in [Sim!Procs -> 0 .. sMade']
        BY <2>1 DEF SimTyped
      <3> QED
        BY <1>1, <3>1 DEF SimTyped
    <2>3. SimHasQueue'
      BY <1>1, <2>1 DEF SimTyped, SimHasQueue, Sim!NoQueue
    <2>4. SimOneCloser'
      <3>1. \A c \in SimClosers : sPc'[c] \in Closing => sPc[c] \in Closing /\ q'[c] = q[c]
                /\ q[c] \in 0 .. sMade /\ sPc'[c] = sPc[c]
        BY <1>1, <2>1 DEF SimTyped, Closing, Sim!Procs
      <3>2. \A c \in SimClosers : sPc[c] \notin {"done", "fn"}
        BY <1>4 DEF SimOneCloser, SimHasQueue, Sim!Procs
      <3> QED
        BY <1>1, <2>1, <3>1, <3>2 DEF SimOneCloser, SimTyped, Closing
    <2>5. SimTable'
      <3>1. \A mq \in 1 .. sMade : sClosed[mq] /\ sDone[mq]
        BY <1>4 DEF SimTable, Sim!NoQueue
      <3>2. sMade \in Nat /\ sMade + 1 \in Sim!Queues /\ ~chClosed[sMade + 1]
        BY <2>1 DEF SimTable, SimTyped, Sim!Queues
      <3>3. 1 .. sMade' = 1 .. sMade \cup {sMade + 1}
        BY <2>1, <3>2
      <3>4. /\ \A mq \in 1 .. sMade' : ~sClosed'[mq] => topicMq' = mq
            /\ \A mq \in 1 .. sMade' : topicMq' # mq => sDone'[mq]
            /\ \A mq \in 1 .. sMade' : chClosed'[mq] => topicMq' # mq
        BY <1>1, <2>1, <3>1, <3>2, <3>3
      <3>5. \A mq \in Sim!Queues : sClosed'[mq] \/ sDone'[mq] \/ chClosed'[mq] => mq <= sMade'
        BY <1>1, <2>1, <3>2 DEF SimTable, Sim!Queues
      <3> QED
        BY <3>4, <3>5 DEF SimTable
    <2> QED
      BY <1>2, <2>2, <2>3, <2>4, <2>5
  <1> QED
    BY <1>3, <1>4

(* SendMessage up to the select: nothing but the program point, the count   *)
(* and the read lock change.                                                *)
LEMMA SimLockKeeps ==
    ASSUME SimSized, SimInv, NEW s \in SimSenders, Sim!SendCheck(s) \/ Sim!SendLock(s)
    PROVE  SimInv'
  <1> USE DEF SimInv, SimSized
  <1>1. /\ sPc[s] \in {"ready", "lock"}
        /\ \E l \in {"idle", "lock", "select"} : sPc' = [sPc EXCEPT ![s] = l]
        /\ UNCHANGED <<topicMq, sMade, ch, sClosed, sDone, chClosed, q, sAccepted, received>>
    BY DEF Sim!SendCheck, Sim!SendLock, Sim!queueVars, Sim!history
  <1>2. s \in Sim!Procs /\ q[s] \in Sim!Queues
    BY <1>1, SimInRange DEF Sim!Procs
  <1>3. readers' \in [Sim!Queues -> SUBSET SimSenders] /\ nsent' \in [SimSenders -> 0 .. MaxSends]
    <2>1. CASE Sim!SendCheck(s)
      BY <2>1 DEF Sim!SendCheck, Sim!queueVars, SimTyped
    <2>2. CASE Sim!SendLock(s)
      BY <1>2, <2>2 DEF Sim!SendLock, SimTyped
    <2> QED
      BY <2>1, <2>2
  <1>4. SimTyped'
    BY <1>1, <1>3 DEF SimTyped
  <1>5. SimHasQueue'
    <2>1. \A p \in Sim!Procs : sPc'[p] \notin {"idle", "panic"} => q'[p] # Sim!NoQueue
      BY <1>1, <1>2 DEF SimTyped, SimHasQueue
    <2>2. \A t \in SimSenders : sPc'[t] \in {"lock", "select"} => nsent'[t] # 0
      BY DEF Sim!SendCheck, Sim!SendLock, SimTyped, SimHasQueue, Sim!Procs
    <2> QED
      BY <2>1, <2>2 DEF SimHasQueue
  <1>6. SimOneCloser'
    BY <1>1 DEF SimTyped, SimOneCloser, Closing, Sim!Procs
  <1>7. SimTable' /\ Sim!AcceptedInOrder'
    BY <1>1 DEF SimTable, Sim!AcceptedInOrder
  <1> QED
    BY <1>4, <1>5, <1>6, <1>7

(* The select of SendMessage: done, the panic of a send on a closed         *)
(* channel, or the message at the end of the channel.                       *)
LEMMA SimSendKeeps ==
    ASSUME SimSized, SimInv, NEW s \in SimSenders, Sim!SendMessage(s)
    PROVE  SimInv'
  <1> USE DEF SimInv, SimSized
  <1> DEFINE mq == q[s]
             x == <<s, nsent[s]>>
  <1>1. /\ sPc[s] = "select" /\ \E l \in {"idle", "panic", "ready"} : sPc' = [sPc EXCEPT ![s] = l]
        /\ readers' = [readers EXCEPT ![mq] = @ \ {s}]
        /\ UNCHANGED <<topicMq, sMade, sClosed, sDone, chClosed, q, nsent, received>>
    BY DEF Sim!SendMessage
  <1>2. s \in Sim!Procs /\ mq \in Sim!Queues /\ x \in Sim!Messages
    <2>1. s \in Sim!Procs /\ mq \in Sim!Queues
      BY <1>1, SimInRange DEF Sim!Procs
    <2>2. nsent[s] \in 1 .. MaxSends
      BY <1>1 DEF SimHasQueue, SimTyped
    <2> QED
      BY <2>1, <2>2 DEF Sim!Messages
  <1>3. SimHasQueue' /\ SimOneCloser' /\ SimTable'
    BY <1>1, <1>2 DEF SimTyped, SimHasQueue, SimOneCloser, SimTable, Closing, Sim!Procs
  <1>4. CASE UNCHANGED <<ch, sAccepted>>
    <2>1. SimTyped' /\ Sim!AcceptedInOrder'
      BY <1>1, <1>2, <1>4 DEF SimTyped, Sim!AcceptedInOrder
    <2> QED
      BY <1>3, <2>1
  <1>5. CASE /\ Len(ch[mq]) < Size /\ ch' = [ch EXCEPT ![mq] = Append(@, x)]
             /\ sAccepted' = [sAccepted EXCEPT ![mq] = Append(@, x)]
    <2>1. /\ ch[mq] \in Seq(Sim!Messages) /\ sAccepted[mq] \in Seq(Sim!Messages) /\ received[mq] \in Seq(Sim!Messages)
          /\ sAccepted[mq] = received[mq] \o ch[mq]
      BY <1>2 DEF SimTyped, Sim!AcceptedInOrder
    <2>2. /\ ch'[mq] = Append(ch[mq], x) /\ sAccepted'[mq] = Append(sAccepted[mq], x)
          /\ \A n \in Sim!Queues \ {mq} : ch'[n] = ch[n] /\ sAccepted'[n] = sAccepted[n]
      BY <1>2, <1>5 DEF SimTyped
    <2>3. Append(ch[mq], x) \in Seq(Sim!Messages) /\ Append(sAccepted[mq], x) \in Seq(Sim!Messages)
          /\ Len(Append(ch[mq], x)) <= Size
      BY <1>2, <1>5, <2>1
    <2>4. ch' \in [Sim!Queues -> Seq(Sim!Messages)] /\ sAccepted' \in [Sim!Queues -> Seq(Sim!Messages)]
      BY <1>2, <1>5, <2>3 DEF SimTyped
    <2>5. \A n \in Sim!Queues : Len(ch'[n]) <= Size
      BY <2>2, <2>3 DEF SimTyped
    <2>6. SimTyped'
      BY <1>1, <1>2, <2>4, <2>5 DEF SimTyped
    <2>7. Append(sAccepted[mq], x) = received[mq] \o Append(ch[mq], x)
      BY <1>2, <2>1, SimSendOrder
    <2>8. Sim!AcceptedInOrder'
      BY <1>1, <2>1, <2>2, <2>7 DEF Sim!AcceptedInOrder
    <2> QED
      BY <1>3, <2>6, <2>8
  <1> QED
    BY <1>4, <1>5 DEF Sim!SendMessage

(* Subscribe: the head of the channel, or errClosed. *)
LEMMA SimSubscribeKeeps ==
    ASSUME SimSized, SimInv, NEW c \in SimConsumers, Sim!Subscribe(c)
    PROVE  SimInv'
  <1> USE DEF SimInv, SimSized
  <1> DEFINE mq == q[c]
  <1>1. /\ sPc[c] = "ready"
        /\ UNCHANGED <<topicMq, sMade, sClosed, sDone, chClosed, readers, nsent, sAccepted>>
    BY DEF Sim!Subscribe
  <1>2. c \in Sim!Procs /\ mq \in Sim!Queues
    BY <1>1, SimInRange DEF Sim!Procs
  <1>3. CASE /\ ch[mq] # <<>> /\ received' = [received EXCEPT ![mq] = Append(@, Head(ch[mq]))]
             /\ ch' = [ch EXCEPT ![mq] = Tail(@)] /\ UNCHANGED <<sPc, q>>
    <2>1. /\ ch[mq] \in Seq(Sim!Messages) /\ received[mq] \in Seq(Sim!Messages) /\ Len(ch[mq]) \in Nat
          /\ sAccepted[mq] = received[mq] \o ch[mq] /\ Len(ch[mq]) <= Size
      BY <1>2 DEF SimTyped, Sim!AcceptedInOrder
    <2>2. /\ ch'[mq] = Tail(ch[mq]) /\ received'[mq] = Append(received[mq], Head(ch[mq]))
          /\ \A n \in Sim!Queues \ {mq} : ch'[n] = ch[n] /\ received'[n] = received[n]
      BY <1>2, <1>3 DEF SimTyped
    <2>3. Len(ch[mq]) > 0
      BY <1>3, <2>1, EmptySeq
    <2>4. Head(ch[mq]) \in Sim!Messages /\ Tail(ch[mq]) \in Seq(Sim!Messages) /\ Len(Tail(ch[mq])) = Len(ch[mq]) - 1
      BY <1>3, <2>1, <2>3
    <2>5. Append(received[mq], Head(ch[mq])) \in Seq(Sim!Messages)
      BY <2>1, <2>4
    <2>6. ch' \in [Sim!Queues -> Seq(Sim!Messages)] /\ received' \in [Sim!Queues -> Seq(Sim!Messages)]
      BY <1>2, <1>3, <2>4, <2>5 DEF SimTyped
    <2>7. \A n \in Sim!Queues : Len(ch'[n]) <= Size
      <3>1. Len(Tail(ch[mq])) <= Size
        BY <2>1, <2>4
      <3> QED
        BY <2>2, <3>1 DEF SimTyped
    <2>8. SimTyped'
      BY <1>1, <1>3, <2>6, <2>7 DEF SimTyped
    <2>9. received[mq] \o ch[mq] = Append(received[mq], Head(ch[mq])) \o Tail(ch[mq])
      BY <1>3, <2>1, HeadMoves
    <2>10. Sim!AcceptedInOrder'
      BY <1>1, <2>1, <2>2, <2>9 DEF Sim!AcceptedInOrder
    <2>11. SimHasQueue' /\ SimOneCloser' /\ SimTable'
      BY <1>1, <1>3 DEF SimHasQueue, SimOneCloser, SimTable
    <2> QED
      BY <2>8, <2>10, <2>11
  <1>4. CASE /\ sPc' = [sPc EXCEPT ![c] = "idle"] /\ q' = [q EXCEPT ![c] = Sim!NoQueue]
             /\ UNCHANGED <<ch, received>>
    <2>1. SimTyped' /\ Sim!AcceptedInOrder'
      BY <1>1, <1>2, <1>4 DEF SimTyped, Sim!AcceptedInOrder, Sim!NoQueue
    <2>2. SimHasQueue' /\ SimTable'
      BY <1>1, <1>2, <1>4 DEF SimTyped, SimHasQueue, SimTable, Sim!Procs
    <2>3. SimOneCloser'
      BY <1>1, <1>2, <1>4 DEF SimTyped, SimOneCloser, Closing, Sim!Procs
    <2> QED
      BY <2>1, <2>2, <2>3
  <1> QED
    BY <1>3, <1>4 DEF Sim!Subscribe

(* Close, from the flag that only one caller sets to the channel. *)
LEMMA SimCloseKeeps ==
    ASSUME SimSized, SimInv, NEW c \in SimClosers, Sim!CloseFlag(c) \/ Sim!CloseStep(c)
    PROVE  SimInv'
  <1> USE DEF SimInv, SimSized
  <1> DEFINE mq == q[c]
  <1>1. UNCHANGED <<sMade, ch, readers, q, nsent, sAccepted, received>>
    BY DEF Sim!CloseFlag, Sim!CloseStep, Sim!CloseDone, Sim!CloseFn, Sim!CloseLock, Sim!CloseChan, Sim!queueVars,
       Sim!history
  <1>2. c \in Sim!Procs /\ mq \in Sim!Queues /\ mq \in 1 .. sMade /\ sPc[c] \notin {"idle", "panic"}
    <2>1. c \in Sim!Procs /\ sPc[c] \notin {"idle", "panic"}
      BY DEF Sim!Procs, Sim!CloseFlag, Sim!CloseStep, Sim!CloseDone, Sim!CloseFn, Sim!CloseLock, Sim!CloseChan
    <2> QED
      BY <2>1, SimInRange
  <1>3. Sim!AcceptedInOrder'
    BY <1>1 DEF Sim!AcceptedInOrder
  <1>4. SimTyped'
    <2>1. sPc' \in [Sim!Procs -> {"idle", "ready", "lock", "select", "panic", "done", "fn", "wlock", "close"}]
      BY DEF SimTyped, Sim!CloseFlag, Sim!CloseStep, Sim!CloseDone, Sim!CloseFn, Sim!CloseLock, Sim!CloseChan
    <2>2. topicMq' \in 0 .. sMade
      BY DEF SimTyped, Sim!CloseFlag, Sim!CloseStep, Sim!CloseDone, Sim!CloseFn, Sim!CloseLock, Sim!CloseChan,
         Sim!NoQueue
    <2>3. sClosed' \in [Sim!Queues -> BOOLEAN] /\ sDone' \in [Sim!Queues -> BOOLEAN]
              /\ chClosed' \in [Sim!Queues -> BOOLEAN]
      BY DEF SimTyped, Sim!CloseFlag, Sim!CloseStep, Sim!CloseDone, Sim!CloseFn, Sim!CloseLock, Sim!CloseChan,
         Sim!queueVars
    <2> QED
      BY <1>1, <2>1, <2>2, <2>3 DEF SimTyped
  <1>5. SimHasQueue'
    <2>1. \A p \in Sim!Procs : sPc'[p] \notin {"idle", "panic"} => q'[p] # Sim!NoQueue
      BY <1>1, <1>2 DEF SimTyped, SimHasQueue, Sim!CloseFlag, Sim!CloseStep, Sim!CloseDone, Sim!CloseFn,
         Sim!CloseLock, Sim!CloseChan
    <2>2. \A s \in SimSenders : sPc'[s] \in {"lock", "select"} => nsent'[s] # 0
      BY <1>1, <1>2 DEF SimTyped, SimHasQueue, Sim!CloseFlag, Sim!CloseStep, Sim!CloseDone, Sim!CloseFn,
         Sim!CloseLock, Sim!CloseChan, Sim!Procs
    <2> QED
      BY <2>1, <2>2 DEF SimHasQueue
  <1>6. SimOneCloser' /\ SimTable'
    <2>1. CASE Sim!CloseFlag(c)
      <3>1. CASE sClosed[mq]
        <4>1. sPc' = [sPc EXCEPT ![c] = "idle"] /\ sClosed' = sClosed /\ UNCHANGED <<topicMq, sDone, chClosed>>
          BY <1>2, <2>1, <3>1 DEF Sim!CloseFlag, SimTyped
        <4> QED
          BY <1>1, <1>2, <4>1 DEF SimTyped, SimOneCloser, SimTable, Closing, Sim!Procs
      <3>2. CASE ~sClosed[mq]
        <4>1. /\ sPc' = [sPc EXCEPT ![c] = "done"] /\ sClosed' = [sClosed EXCEPT ![mq] = TRUE]
              /\ UNCHANGED <<topicMq, sDone, chClosed>>
          BY <2>1, <3>2 DEF Sim!CloseFlag
        <4>2. topicMq = mq /\ \A d \in SimClosers : sPc[d] \in Closing => q[d] # mq
          BY <1>2, <3>2 DEF SimTable, SimOneCloser
        <4> QED
          BY <1>1, <1>2, <4>1, <4>2 DEF SimTyped, SimOneCloser, SimTable, Closing, Sim!Procs
      <3> QED
        BY <3>1, <3>2
    <2>2. CASE Sim!CloseDone(c)
      <3>1. /\ sPc[c] = "done" /\ sPc' = [sPc EXCEPT ![c] = "fn"] /\ sDone' = [sDone EXCEPT ![mq] = TRUE]
            /\ UNCHANGED <<topicMq, sClosed, chClosed>>
        BY <2>2 DEF Sim!CloseDone
      <3> QED
        BY <1>1, <1>2, <3>1 DEF SimTyped, SimOneCloser, SimTable, Closing, Sim!Procs
    <2>3. CASE Sim!CloseFn(c)
      <3>1. /\ sPc[c] = "fn" /\ sPc' = [sPc EXCEPT ![c] = "wlock"] /\ topicMq' = Sim!NoQueue
            /\ UNCHANGED <<sClosed, sDone, chClosed>>
        BY <2>3 DEF Sim!CloseFn, Sim!queueVars
      <3>2. topicMq = mq /\ sClosed[mq] /\ sDone[mq]
        BY <3>1 DEF SimOneCloser, Closing
      <3>3. \A d \in SimClosers : d # c => sPc[d] \notin {"done", "fn"}
        BY <3>1, <3>2 DEF SimOneCloser, Closing
      <3>4. \A d \in SimClosers : sPc[d] \in Closing => q[d] # Sim!NoQueue
        BY DEF SimHasQueue, Closing, Sim!Procs
      <3>5. \A d \in SimClosers : /\ sPc'[d] \in Closing => sPc[d] \in Closing
                                  /\ sPc'[d] \notin {"done", "fn"}
                                  /\ sPc'[d] \in {"wlock", "close"} => sPc[d] \in {"fn", "wlock", "close"}
        BY <3>1, <3>3 DEF SimTyped, Closing, Sim!Procs
      <3>8. /\ q' = q /\ sClosed' = sClosed /\ sDone' = sDone
            /\ \A d \in SimClosers : sPc'[d] \in {"fn", "wlock", "close"} => sPc[d] \in {"fn", "wlock", "close"}
        BY <1>1, <3>1, <3>5
      <3>9. \A d \in SimClosers : sPc'[d] \in {"wlock", "close"} => q[d] # Sim!NoQueue
        BY <3>4, <3>5 DEF Closing
      <3>6. SimOneCloser'
        BY <3>1, <3>5, <3>8, <3>9 DEF SimOneCloser
      <3>7. SimTable'
        BY <1>1, <1>2, <3>1, <3>2 DEF SimTyped, SimTable, Sim!NoQueue
      <3> QED
        BY <3>6, <3>7
    <2>4. CASE Sim!CloseLock(c)
      <3>1. /\ sPc[c] = "wlock" /\ sPc' = [sPc EXCEPT ![c] = "close"]
                   /\ UNCHANGED <<topicMq, sClosed, sDone, chClosed>>
        BY <2>4 DEF Sim!CloseLock, Sim!queueVars
      <3> QED
        BY <1>1, <1>2, <3>1 DEF SimTyped, SimOneCloser, SimTable, Closing, Sim!Procs
    <2>5. CASE Sim!CloseChan(c)
      <3>1. /\ sPc[c] = "close" /\ sPc' = [sPc EXCEPT ![c] = "idle"] /\ chClosed' = [chClosed EXCEPT ![mq] = TRUE]
            /\ UNCHANGED <<topicMq, sClosed, sDone>>
        BY <2>5 DEF Sim!CloseChan
      <3> QED
        BY <1>1, <1>2, <3>1 DEF SimTyped, SimOneCloser, SimTable, Closing, Sim!Procs
    <2> QED
      BY <2>1, <2>2, <2>3, <2>4, <2>5 DEF Sim!CloseStep
  <1> QED
    BY <1>3, <1>4, <1>5, <1>6

(* Every step of senders, consumers and closers keeps the invariant. *)
LEMMA SimNext == ASSUME SimSized, SimInv, [Sim!Next]_(Sim!vars) PROVE SimInv'
  <1>1. CASE UNCHANGED Sim!vars
    BY <1>1 DEF Sim!vars, SimInv, SimTyped, SimHasQueue, SimOneCloser, SimTable, Sim!AcceptedInOrder
  <1>2. CASE Sim!Next
    BY <1>2, SimGetKeeps, SimLockKeeps, SimSendKeeps, SimSubscribeKeeps, SimCloseKeeps
       DEF Sim!Next, Sim!SendStep
  <1> QED
    BY <1>1, <1>2

(* Nobody has asked for the topic: the table is empty. *)
LEMMA SimStarts == ASSUME SimSized, Sim!Init PROVE SimInv
  <1> USE DEF Sim!Init, SimSized
  <1>1. SimTyped
    <2>1. <<>> \in Seq(Sim!Messages) /\ Len(<<>>) = 0
      OBVIOUS
    <2> QED
      BY <2>1 DEF SimTyped, Sim!NoQueue
  <1>2. SimHasQueue /\ SimOneCloser /\ SimTable
    BY DEF SimHasQueue, SimOneCloser, SimTable, Closing, Sim!Procs
  <1>3. Sim!AcceptedInOrder
    <2>1. <<>> \o <<>> = <<>>
      OBVIOUS
    <2> QED
      BY <2>1 DEF Sim!AcceptedInOrder
  <1> QED
    BY <1>1, <1>2, <1>3 DEF SimInv

(* What the invariant of simmq says of its properties. *)
LEMMA SimImplies ==
    ASSUME SimInv
    PROVE  Sim!TypeOK /\ Sim!AcceptedInOrder /\ Sim!OneOpenQueue /\ Sim!TableIsOpen
  <1>1. Sim!TypeOK
    BY DEF SimInv, SimTyped, Sim!TypeOK
  <1>2. Sim!OneOpenQueue /\ Sim!TableIsOpen
    BY DEF SimInv, SimTyped, SimTable, Sim!OneOpenQueue, Sim!TableIsOpen, Sim!NoQueue
  <1> QED
    BY <1>1, <1>2 DEF SimInv

(* The invariant of simmq holds in every reachable state. *)
LEMMA SimInvHolds == ASSUME SimSized PROVE Sim!Spec => []SimInv
  <1>1. Sim!Init => SimInv
    BY SimStarts
  <1>2. SimInv /\ [Sim!Next]_(Sim!vars) => SimInv'
    BY SimNext
  <1> QED
    BY <1>1, <1>2, PTL DEF Sim!Spec

(* simmq: the channel of a queue stays within its size, for any senders,    *)
(* consumers and closers.                                                   *)
THEOREM SimTypeCorrect == ASSUME SimSized PROVE Sim!Spec => []Sim!TypeOK
  BY SimImplies, SimInvHolds, PTL

(* simmq: what a queue has accepted is what was received from it and then   *)
(* what its channel holds, in order, also across Close.                     *)
THEOREM SimKeepsOrder == ASSUME SimSized PROVE Sim!Spec => []Sim!AcceptedInOrder
  BY SimImplies, SimInvHolds, PTL

(* simmq: two queues of a topic are never both open, and the table holds    *)
(* none that was closed to its end: closeFn takes the queue out of the      *)
(* table before another one is made.                                        *)
THEOREM SimOneOpen == ASSUME SimSized PROVE Sim!Spec => [](Sim!OneOpenQueue /\ Sim!TableIsOpen)
  BY SimImplies, SimInvHolds, PTL

(* simmq: a consumer that Subscribe tells of the end has left nothing in    *)
(* the channel, which is closed.                                            *)
THEOREM SimLeavesNothing == ASSUME SimSized PROVE Sim!Spec => Sim!NothingLeftBehind
  <1>1. SimInv /\ [Sim!Next]_(Sim!vars) =>
          [\A c \in SimConsumers : q[c] # Sim!NoQueue /\ q'[c] = Sim!NoQueue => ch[q[c]] = <<>>
              /\ chClosed[q[c]]]_(Sim!vars)
    <2> SUFFICES ASSUME SimInv, Sim!Next, NEW d \in SimConsumers, q[d] # Sim!NoQueue, q'[d] = Sim!NoQueue
                 PROVE  ch[q[d]] = <<>> /\ chClosed[q[d]]
      OBVIOUS
    <2>1. ASSUME NEW p \in Sim!Procs, Sim!getTopicMemory(p) PROVE FALSE
      BY <2>1 DEF Sim!getTopicMemory, SimInv, SimTyped, Sim!NoQueue, Sim!Procs
    <2>2. ASSUME NEW c \in SimConsumers, Sim!Subscribe(c) PROVE ch[q[d]] = <<>> /\ chClosed[q[d]]
      BY <2>2 DEF Sim!Subscribe, SimInv, SimTyped, Sim!Procs
    <2> QED
      BY <2>1, <2>2 DEF Sim!Next, Sim!SendCheck, Sim!SendStep, Sim!SendLock, Sim!SendMessage, Sim!CloseFlag,
         Sim!CloseStep, Sim!CloseDone,
         Sim!CloseFn, Sim!CloseLock, Sim!CloseChan
  <1> QED
    BY <1>1, SimInvHolds, PTL DEF Sim!Spec, Sim!NothingLeftBehind
-----------------------------------------------------------------------------
(* mq/kafka: the members of a consumer group. *)
Kafka == INSTANCE KafkaConsumer WITH Closers <- KafkaClosers, MaxFaults <- MaxCrashes, faults <- kFaults

(* The channel of a consumer group and the bounds of the model. *)
KafkaSized == Buffer \in Nat /\ MaxLog \in Nat /\ MaxCrashes \in Nat

(* A message as the channel has it, with the session it came with. *)
KafkaMsgs == [off : Nat, gen : Nat]
(* What a member of the group keeps. *)
MemberState ==
    [loop : {"loop", "session", "leaving", "exit"}, cancelled : BOOLEAN, closed : BOOLEAN,
     msg : Seq(KafkaMsgs), held : KafkaMsgs, gen : Nat, claim : {"none", "recv", "send"},
     next : Nat, last : Nat, marked : Nat]
(* A member has a session until Consume has returned. *)
InSession == {"session", "leaving"}

(* Offset o has been taken by a subscriber or skipped at the start. *)
Passed(o) == o > from => o \in handed

(* A message in a member's hands belongs to a session that has begun. *)
KafkaKnown(x) == x.gen \in 1 .. gen /\ x.off \in 1 .. log

(* What a member is, in or between sessions. *)
KafkaShape(c) ==
  LET r == m[c] IN
    /\ r \in MemberState
    /\ r.claim # "none" => r.loop \in InSession
    /\ IF r.loop \in InSession THEN r.gen \in 1 .. gen ELSE r.gen = 0
    /\ r.held = Kafka!Free \/ KafkaKnown(r.held)
    /\ \A i \in 1 .. Len(r.msg) : KafkaKnown(r.msg[i])
    /\ Len(r.msg) <= Buffer
    /\ r.last <= log /\ r.next <= log + 1 /\ r.marked <= log
    /\ r.claim = "send" => r.next <= log

(* Everything before next that nobody has taken is in the channel, in the   *)
(* order of the offsets, and nothing is marked that has others before it.   *)
KafkaChain(c) ==
  LET r == m[c] IN
    r.loop \in InSession =>
        /\ r.next >= 1
        /\ \A o \in 1 .. r.next - 1 : Passed(o) \/ \E i \in 1 .. Len(r.msg) : r.msg[i] = [off |-> o, gen |-> r.gen]
        /\ \A i \in 1 .. Len(r.msg) : r.msg[i].gen = r.gen => r.msg[i].off < r.next
        /\ \A i, j \in 1 .. Len(r.msg) :
               i < j /\ r.msg[i].gen = r.gen /\ r.msg[j].gen = r.gen => r.msg[i].off < r.msg[j].off
        /\ r.held.gen = r.gen => \A o \in 1 .. r.held.off : Passed(o)
        /\ \A o \in 1 .. r.marked : Passed(o)

(* The log, what was committed, and what was taken are within their bounds. *)
KafkaGlobal ==
    /\ log \in Nat /\ (MaxLog >= 1 => log <= MaxLog) /\ committed \in Kafka!NoOffset .. log /\ gen \in Nat
           /\ from \in 0 .. log
    /\ handed \subseteq 1 .. log /\ kFaults \in 0 .. MaxCrashes /\ owner \in Members \cup {Kafka!Nobody}
    /\ m = [c \in Members |-> m[c]]

(* The inductive invariant of the consumer group. *)
KafkaInv ==
    /\ KafkaGlobal /\ Kafka!CommittedWereHanded
    /\ \A c \in Members : KafkaShape(c) /\ KafkaChain(c)

(* Max of two offsets is one of them. *)
LEMMA KafkaMax == ASSUME NEW a \in Nat, NEW b \in Nat PROVE Kafka!Max({a, b}) \in {a, b}
  <1>1. \E x \in {a, b} : \A y \in {a, b} : x >= y
    OBVIOUS
  <1> QED
    BY <1>1 DEF Kafka!Max

(* More messages, sessions and taken offsets leave a member as it is. *)
LEMMA KafkaOthers ==
    ASSUME KafkaGlobal, log' \in Nat, gen' \in Nat, log <= log', gen <= gen', from' \in Nat, from <= from',
           handed \subseteq handed',
           NEW c \in Members, m'[c] = m[c], KafkaShape(c), KafkaChain(c)
    PROVE  KafkaShape(c)' /\ KafkaChain(c)'
  <1> DEFINE r == m[c]
  <1>1. log \in Nat /\ gen \in Nat /\ from \in Nat
    BY DEF KafkaGlobal
  <1>2. \A o \in Nat : Passed(o) => Passed(o)'
    BY <1>1 DEF Passed
  <1>3. \A x \in KafkaMsgs : KafkaKnown(x) => KafkaKnown(x)'
    BY <1>1 DEF KafkaKnown, KafkaMsgs
  <1>4. r \in MemberState
    BY DEF KafkaShape
  <1>5. r.gen \in Nat /\ r.next \in Nat /\ r.last \in Nat /\ r.marked \in Nat /\ r.held \in KafkaMsgs
        /\ r.msg \in Seq(KafkaMsgs)
    BY <1>4 DEF MemberState
  <1>6. \A i \in 1 .. Len(r.msg) : r.msg[i] \in KafkaMsgs
    BY <1>5
  <1>7. r.held.off \in Nat
    BY <1>5 DEF KafkaMsgs
  <1>8. KafkaShape(c)'
    <2>1. (IF r.loop \in InSession THEN r.gen \in 1 .. gen' ELSE r.gen = 0)
      BY <1>1, <1>5 DEF KafkaShape
    <2>2. r.held = Kafka!Free \/ KafkaKnown(r.held)'
      <3>1. PICK x \in KafkaMsgs : x = r.held
        BY <1>5
      <3>2. x = Kafka!Free \/ KafkaKnown(x)
        BY <3>1, Zenon DEF KafkaShape
      <3>3. x = Kafka!Free \/ KafkaKnown(x)'
        BY <1>3, <3>2, Zenon
      <3>4. x = r.held'
        BY <3>1
      <3> QED
        BY <3>1, <3>3, <3>4, Zenon
    <2>3. \A i \in 1 .. Len(r.msg) : KafkaKnown(r.msg[i])'
      <3>1. PICK b : b = r.msg
        OBVIOUS
      <3>2. \A i \in 1 .. Len(b) : b[i] \in KafkaMsgs /\ KafkaKnown(b[i])
        BY <1>6, <3>1, Zenon DEF KafkaShape
      <3>3. \A i \in 1 .. Len(b) : KafkaKnown(b[i])'
        BY <1>3, <3>2, Zenon
      <3>4. b = r.msg'
        BY <3>1
      <3> QED
        BY <3>1, <3>3, <3>4, Zenon
    <2>4. r.last <= log' /\ r.next <= log' + 1 /\ r.marked <= log' /\ (r.claim = "send" => r.next <= log')
      BY <1>1, <1>5 DEF KafkaShape
    <2> QED
      BY <2>1, <2>2, <2>3, <2>4 DEF KafkaShape
  <1>9. KafkaChain(c)'
    <2>1. ASSUME r.loop \in InSession PROVE KafkaChain(c)'
      <3>1. KafkaChain(c)
        OBVIOUS
      <3>2. \A o \in 1 .. r.next - 1 : o \in Nat
        BY <1>5
      <3>3. \A o \in 1 .. r.next - 1 :
               Passed(o)' \/ \E i \in 1 .. Len(r.msg) : r.msg[i] = [off |-> o, gen |-> r.gen]
        BY <1>2, <2>1, <3>1, <3>2 DEF KafkaChain
      <3>4. r.held.gen = r.gen => \A o \in 1 .. r.held.off : Passed(o)'
        BY <1>2, <1>7, <2>1, <3>1 DEF KafkaChain
      <3>5. \A o \in 1 .. r.marked : Passed(o)'
        BY <1>2, <1>5, <2>1, <3>1 DEF KafkaChain
      <3> QED
        BY <2>1, <3>1, <3>3, <3>4, <3>5 DEF KafkaChain
    <2> QED
      BY <2>1 DEF KafkaChain
  <1> QED
    BY <1>8, <1>9

(* One member moves. *)
LEMMA KafkaOneMoves ==
    ASSUME KafkaInv, NEW c \in Members, log' \in Nat, gen' \in Nat, log <= log', gen <= gen', from' \in Nat,
           from <= from', handed \subseteq handed',
           NEW e, m' = [m EXCEPT ![c] = e],
           KafkaShape(c)', KafkaChain(c)'
    PROVE  /\ \A d \in Members : KafkaShape(d)' /\ KafkaChain(d)'
           /\ m' = [d \in Members |-> m'[d]]
  <1>1. m = [d \in Members |-> m[d]]
    BY DEF KafkaInv, KafkaGlobal
  <1>2. m' = [d \in Members |-> m'[d]] /\ \A d \in Members : d # c => m'[d] = m[d]
    BY <1>1
  <1>3. ASSUME NEW d \in Members PROVE KafkaShape(d)' /\ KafkaChain(d)'
    <2>1. CASE d = c
      BY <2>1
    <2>2. CASE d # c
      <3>1. m'[d] = m[d] /\ KafkaGlobal /\ KafkaShape(d) /\ KafkaChain(d)
        BY <1>2, <2>2 DEF KafkaInv
      <3> QED
        BY <3>1, KafkaOthers
    <2> QED
      BY <2>1, <2>2
  <1> QED
    BY <1>2, <1>3

(* A step of one member that takes nothing out of the channel and marks     *)
(* nothing keeps what was taken and what was committed.                     *)
LEMMA KafkaQuiet ==
    ASSUME KafkaInv, NEW c \in Members, NEW e, m' = [m EXCEPT ![c] = e],
           UNCHANGED <<log, committed, gen, from, handed>>, owner' \in Members \cup {Kafka!Nobody},
           kFaults' \in 0 .. MaxCrashes, KafkaShape(c)', KafkaChain(c)'
    PROVE  KafkaInv'
  <1>1. /\ log' \in Nat /\ gen' \in Nat /\ from' \in Nat
        /\ log <= log' /\ gen <= gen' /\ from <= from' /\ handed \subseteq handed'
    BY DEF KafkaInv, KafkaGlobal
  <1>2. /\ \A d \in Members : KafkaShape(d)' /\ KafkaChain(d)'
        /\ m' = [d \in Members |-> m'[d]]
    BY <1>1, KafkaOneMoves
  <1>3. KafkaGlobal' /\ Kafka!CommittedWereHanded'
    BY <1>2 DEF KafkaInv, KafkaGlobal, Kafka!CommittedWereHanded
  <1> QED
    BY <1>2, <1>3 DEF KafkaInv

(* What a member's fields are. *)
LEMMA KafkaFields ==
    ASSUME KafkaInv, NEW c \in Members
    PROVE  /\ m[c] \in MemberState /\ m = [d \in Members |-> m[d]]
           /\ m[c].msg \in Seq(KafkaMsgs) /\ m[c].held \in KafkaMsgs /\ m[c].gen \in Nat
           /\ m[c].next \in Nat /\ m[c].last \in Nat /\ m[c].marked \in Nat
           /\ KafkaShape(c) /\ KafkaChain(c)
           /\ log \in Nat /\ gen \in Nat /\ from \in Nat /\ from <= log
  <1>1. KafkaShape(c) /\ KafkaChain(c)
    BY DEF KafkaInv
  <1>2. m[c] \in MemberState
    BY <1>1 DEF KafkaShape
  <1> QED
    BY <1>1, <1>2 DEF MemberState, KafkaInv, KafkaGlobal

(* The steps of a member that only move its program points: ConsumeClaim    *)
(* takes a message or ends, the context is cancelled, the channel closed,   *)
(* the session told to leave.                                               *)
LEMMA KafkaMoves ==
    ASSUME KafkaSized, KafkaInv, NEW c \in Members,
           Kafka!Receive(c) \/ Kafka!Drop(c) \/ Kafka!Finish(c) \/ Kafka!Close(c) \/ Kafka!Exit(c)
               \/ Kafka!Rebalance(c) \/ Kafka!HandlerFails(c)
    PROVE  KafkaInv'
  <1> DEFINE r == m[c]
  <1>1. PICK e : m' = [m EXCEPT ![c] = e]
    BY DEF Kafka!Receive, Kafka!Drop, Kafka!Finish, Kafka!Close, Kafka!Exit, Kafka!Rebalance, Kafka!HandlerFails
  <1>2. /\ UNCHANGED <<log, committed, gen, from, handed, owner>> /\ kFaults' \in 0 .. MaxCrashes
        /\ owner \in Members \cup {Kafka!Nobody}
    BY DEF Kafka!Receive, Kafka!Drop, Kafka!Finish, Kafka!Close, Kafka!Exit, Kafka!Rebalance, Kafka!HandlerFails,
       Kafka!broker, KafkaInv, KafkaGlobal, KafkaSized
  <1>3. /\ r \in MemberState /\ m = [d \in Members |-> m[d]] /\ KafkaShape(c) /\ KafkaChain(c)
        /\ log \in Nat /\ gen \in Nat /\ r.next \in Nat /\ r.last \in Nat
    BY KafkaFields
  <1>4. /\ m'[c] \in MemberState
        /\ m'[c].msg = r.msg /\ m'[c].gen = r.gen /\ m'[c].next = r.next /\ m'[c].marked = r.marked
        /\ m'[c].last \in {r.last, log} /\ m'[c].held \in {r.held, Kafka!Free}
        /\ m'[c].loop \in InSession <=> r.loop \in InSession
        /\ m'[c].claim # "none" => r.loop \in InSession
        /\ m'[c].claim = "send" => r.next <= log
    <2>1. CASE Kafka!Receive(c)
      <3>1. m'[c] = [r EXCEPT !.claim = "send"]
        BY <1>3, <2>1 DEF Kafka!Receive
      <3>2. r.claim = "recv" /\ r.next <= log
        BY <1>3, <2>1 DEF Kafka!Receive, KafkaShape
      <3> QED
        BY <1>3, <3>1, <3>2 DEF MemberState, KafkaShape
    <2>2. CASE Kafka!Drop(c) \/ Kafka!Finish(c)
      <3>1. m'[c] = [r EXCEPT !.claim = "none"]
        BY <1>3, <2>2 DEF Kafka!Drop, Kafka!Finish
      <3> QED
        BY <1>3, <3>1 DEF MemberState
    <2>3. CASE Kafka!Close(c)
      <3>1. m'[c] = [r EXCEPT !.cancelled = TRUE]
        BY <1>3, <2>3 DEF Kafka!Close
      <3> QED
        BY <1>3, <3>1 DEF MemberState, KafkaShape
    <2>4. CASE Kafka!Exit(c)
      <3>1. m'[c] = [r EXCEPT !.loop = "exit", !.closed = TRUE] /\ r.loop = "loop"
        BY <1>3, <2>4 DEF Kafka!Exit
      <3> QED
        BY <1>3, <3>1 DEF MemberState, KafkaShape, InSession
    <2>5. CASE Kafka!Rebalance(c)
      <3>1. m'[c] = [r EXCEPT !.loop = "leaving", !.last = log] /\ r.loop = "session"
        BY <1>3, <2>5 DEF Kafka!Rebalance
      <3> QED
        BY <1>3, <3>1 DEF MemberState, KafkaShape, InSession
    <2>6. CASE Kafka!HandlerFails(c)
      <3>1. m'[c] = [r EXCEPT !.held = Kafka!Free]
        BY <1>3, <2>6 DEF Kafka!HandlerFails
      <3>2. Kafka!Free \in KafkaMsgs
        BY DEF Kafka!Free, KafkaMsgs
      <3> QED
        BY <1>3, <3>1, <3>2 DEF MemberState, KafkaShape
    <2> QED
      BY <2>1, <2>2, <2>3, <2>4, <2>5, <2>6
  <1>5. KafkaShape(c)'
    <2>1. m'[c].held = Kafka!Free \/ KafkaKnown(m[c].held)'
      BY <1>2, <1>3, <1>4 DEF KafkaShape, KafkaKnown
    <2>2. \A i \in 1 .. Len(m'[c].msg) : KafkaKnown(m[c].msg[i])'
      BY <1>2, <1>3, <1>4 DEF KafkaShape, KafkaKnown
    <2> QED
      BY <1>2, <1>3, <1>4, <2>1, <2>2 DEF KafkaShape
  <1>6. KafkaChain(c)'
    <2>1. Kafka!Free.gen = 0 /\ (r.loop \in InSession => r.gen # 0)
      BY <1>3 DEF Kafka!Free, KafkaShape
    <2> QED
      BY <1>2, <1>3, <1>4, <2>1 DEF KafkaChain, Passed
  <1> QED
    BY <1>1, <1>2, <1>5, <1>6, KafkaQuiet
(* ConsumeClaim sends the next message of its session into the channel. *)
LEMMA KafkaSends ==
    ASSUME KafkaSized, KafkaInv, NEW c \in Members, Kafka!Send(c)
    PROVE  KafkaInv'
  <1> DEFINE r == m[c]
             x == [off |-> r.next, gen |-> r.gen]
  <1>1. /\ r \in MemberState /\ m = [d \in Members |-> m[d]] /\ KafkaShape(c) /\ KafkaChain(c)
        /\ log \in Nat /\ gen \in Nat /\ r.next \in Nat /\ r.gen \in Nat /\ r.msg \in Seq(KafkaMsgs)
    BY KafkaFields
  <1>2. /\ r.claim = "send" /\ Len(r.msg) < Buffer
        /\ m' = [m EXCEPT ![c] = [r EXCEPT !.claim = "recv", !.next = r.next + 1, !.msg = Append(r.msg, x)]]
        /\ UNCHANGED <<log, committed, owner, gen, from, handed, kFaults>>
    BY DEF Kafka!Send, Kafka!broker
  <1>3. m'[c] = [r EXCEPT !.claim = "recv", !.next = r.next + 1, !.msg = Append(r.msg, x)]
    BY <1>1, <1>2
  <1>4. /\ r.loop \in InSession /\ r.gen \in 1 .. gen /\ r.next >= 1 /\ r.next <= log
    BY <1>1, <1>2 DEF KafkaShape, KafkaChain
  <1>5. x \in KafkaMsgs /\ x.off \in 1 .. log /\ x.gen \in 1 .. gen
    BY <1>1, <1>4 DEF KafkaMsgs
  <1>6. /\ Append(r.msg, x) \in Seq(KafkaMsgs) /\ Len(Append(r.msg, x)) = Len(r.msg) + 1 /\ Len(r.msg) \in Nat
        /\ \A i \in 1 .. Len(r.msg) : Append(r.msg, x)[i] = r.msg[i]
        /\ Append(r.msg, x)[Len(r.msg) + 1] = x
    <2> HIDE DEF x
    <2> QED
      BY <1>1, <1>5
  <1>7. /\ m'[c] \in MemberState /\ m'[c].msg = Append(r.msg, x) /\ m'[c].next = r.next + 1
        /\ m'[c].claim = "recv" /\ m'[c].loop = r.loop /\ m'[c].gen = r.gen /\ m'[c].held = r.held
        /\ m'[c].last = r.last /\ m'[c].marked = r.marked
    <2> DEFINE y == Append(r.msg, x)
    <2>1. y \in Seq(KafkaMsgs) /\ m'[c] = [r EXCEPT !.claim = "recv", !.next = r.next + 1, !.msg = y]
      BY <1>3, <1>6
    <2> HIDE DEF y
    <2> DEFINE n == r.next + 1
    <2>2. n \in Nat
      BY <1>1
    <2> HIDE DEF n
    <2>3. m'[c] = [r EXCEPT !.claim = "recv", !.next = n, !.msg = y]
      BY <2>1 DEF n
    <2>4. m'[c] \in MemberState
      BY <1>1, <2>1, <2>2, <2>3 DEF MemberState
    <2>5. /\ m'[c].msg = y /\ m'[c].next = n
          /\ m'[c].claim = "recv" /\ m'[c].loop = r.loop /\ m'[c].gen = r.gen /\ m'[c].held = r.held
          /\ m'[c].last = r.last /\ m'[c].marked = r.marked
      BY <1>1, <2>3 DEF MemberState
    <2> QED
      BY <2>4, <2>5 DEF y, n
  <1> DEFINE l == m'[c].msg
  <1>8. /\ Len(l) = Len(r.msg) + 1 /\ \A i \in 1 .. Len(r.msg) : l[i] = r.msg[i]
        /\ l[Len(r.msg) + 1] = x /\ 1 .. Len(l) = 1 .. Len(r.msg) \cup {Len(r.msg) + 1}
    BY <1>6, <1>7
  <1> HIDE DEF l
  <1>9. KafkaShape(c)'
    <2>1. m'[c].held = Kafka!Free \/ KafkaKnown(m[c].held)'
      BY <1>1, <1>2, <1>7 DEF KafkaShape, KafkaKnown
    <2>2. \A i \in 1 .. Len(l) : l[i].gen \in 1 .. gen' /\ l[i].off \in 1 .. log'
      BY <1>1, <1>2, <1>5, <1>8 DEF KafkaShape, KafkaKnown
    <2>3. \A i \in 1 .. Len(m'[c].msg) : KafkaKnown(m[c].msg[i])'
      BY <2>2 DEF KafkaKnown, l
    <2>4. Len(m'[c].msg) <= Buffer
      BY <1>2, <1>6, <1>8 DEF KafkaSized, l
    <2> QED
      BY <1>1, <1>2, <1>4, <1>7, <2>1, <2>3, <2>4 DEF KafkaShape
  <1>10. KafkaChain(c)'
    <2>1. \A o \in 1 .. m'[c].next - 1 : Passed(o)' \/ \E i \in 1 .. Len(l) : l[i] = [off |-> o, gen |-> m'[c].gen]
      <3> SUFFICES ASSUME NEW o \in 1 .. m'[c].next - 1
                   PROVE  Passed(o)' \/ \E i \in 1 .. Len(l) : l[i] = [off |-> o, gen |-> m'[c].gen]
        OBVIOUS
      <3>1. CASE o = r.next
        BY <1>6, <1>7, <1>8, <3>1
      <3>2. CASE o # r.next
        <4>1. o \in 1 .. r.next - 1
          BY <1>1, <1>7, <3>2
        <4>2. Passed(o) \/ \E i \in 1 .. Len(r.msg) : r.msg[i] = [off |-> o, gen |-> r.gen]
          BY <1>1, <1>4, <4>1 DEF KafkaChain
        <4> QED
          BY <1>2, <1>7, <1>8, <4>2 DEF Passed
      <3> QED
        BY <3>1, <3>2
    <2>2. \A i \in 1 .. Len(r.msg) : r.msg[i].off \in Nat
      BY <1>1 DEF KafkaShape, KafkaKnown
    <2>3. \A i \in 1 .. Len(r.msg) : r.msg[i].gen = r.gen => r.msg[i].off < r.next
      BY <1>1, <1>4 DEF KafkaChain
    <2>4. \A i \in 1 .. Len(l) : l[i].gen = m'[c].gen => l[i].off < m'[c].next
      BY <1>1, <1>7, <1>8, <2>2, <2>3
    <2>5. \A i, j \in 1 .. Len(l) : i < j /\ l[i].gen = m'[c].gen /\ l[j].gen = m'[c].gen => l[i].off < l[j].off
      <3> SUFFICES ASSUME NEW i \in 1 .. Len(l), NEW j \in 1 .. Len(l), i < j, l[i].gen = r.gen, l[j].gen = r.gen
                   PROVE  l[i].off < l[j].off
        BY <1>7
      <3>1. i \in 1 .. Len(r.msg) /\ l[i] = r.msg[i]
        BY <1>6, <1>8
      <3>2. CASE j = Len(r.msg) + 1
        BY <1>8, <2>3, <3>1, <3>2
      <3>3. CASE j # Len(r.msg) + 1
        BY <1>1, <1>4, <1>8, <3>1, <3>3 DEF KafkaChain
      <3> QED
        BY <3>2, <3>3
    <2>6. /\ m'[c].held.gen = m'[c].gen => \A o \in 1 .. m'[c].held.off : Passed(o)'
          /\ \A o \in 1 .. m'[c].marked : Passed(o)'
      BY <1>1, <1>2, <1>4, <1>7 DEF KafkaChain, Passed
    <2>7. m'[c].next >= 1
      BY <1>1, <1>4, <1>7
    <2>8. l = m'[c].msg
      BY DEF l
    <2> QED
      BY <2>1, <2>4, <2>5, <2>6, <2>7, <2>8 DEF KafkaChain, Passed
  <1> QED
    <2>1. owner' \in Members \cup {Kafka!Nobody} /\ kFaults' \in 0 .. MaxCrashes
      BY <1>2 DEF KafkaInv, KafkaGlobal
    <2> HIDE DEF x
    <2> QED
      BY <1>2, <1>9, <1>10, <2>1, KafkaQuiet
(* Subscribe takes the head of the channel: of its session everything       *)
(* before it has been taken already.                                        *)
LEMMA KafkaTakes ==
    ASSUME KafkaSized, KafkaInv, NEW c \in Members, Kafka!Subscribe(c)
    PROVE  KafkaInv'
  <1> DEFINE r == m[c]
             h == Head(r.msg)
             y == Tail(r.msg)
  <1>1. /\ r \in MemberState /\ m = [d \in Members |-> m[d]] /\ KafkaShape(c) /\ KafkaChain(c)
        /\ log \in Nat /\ gen \in Nat /\ from \in Nat /\ r.next \in Nat /\ r.gen \in Nat /\ r.msg \in Seq(KafkaMsgs)
    BY KafkaFields
  <1>2. /\ r.msg # <<>> /\ handed' = handed \cup {h.off}
        /\ m' = [m EXCEPT ![c] = [r EXCEPT !.held = h, !.msg = y]]
        /\ UNCHANGED <<log, committed, owner, gen, from, kFaults>>
    BY DEF Kafka!Subscribe, Kafka!broker
  <1>3. /\ y \in Seq(KafkaMsgs) /\ Len(y) = Len(r.msg) - 1 /\ Len(r.msg) \in Nat /\ Len(r.msg) >= 1
        /\ \A i \in 1 .. Len(y) : y[i] = r.msg[i + 1]
        /\ h = r.msg[1] /\ h \in KafkaMsgs
    <2>1. Len(r.msg) \in Nat \ {0}
      BY <1>1, <1>2, EmptySeq
    <2> QED
      BY <1>1, <1>2, <2>1
  <1>4. h.gen \in 1 .. gen /\ h.off \in 1 .. log
    BY <1>1, <1>3 DEF KafkaShape, KafkaKnown
  <1> HIDE DEF h, y
  <1>5. m'[c] = [r EXCEPT !.held = h, !.msg = y]
    BY <1>1, <1>2
  <1>6. m'[c] \in MemberState
    BY <1>1, <1>3, <1>5 DEF MemberState
  <1>7. /\ m'[c].msg = y /\ m'[c].held = h /\ m'[c].next = r.next /\ m'[c].claim = r.claim
        /\ m'[c].loop = r.loop /\ m'[c].gen = r.gen /\ m'[c].last = r.last /\ m'[c].marked = r.marked
    BY <1>1, <1>5 DEF MemberState
  <1>8. \A i \in 1 .. Len(y) : i + 1 \in 1 .. Len(r.msg)
    BY <1>3
  <1>9. \A o \in Nat : (Passed(o) \/ o = h.off) => Passed(o)'
    BY <1>2 DEF Passed
  <1>10. KafkaShape(c)'
    <2>1. KafkaKnown(m[c].held)'
      BY <1>2, <1>4, <1>7 DEF KafkaKnown
    <2>2. \A i \in 1 .. Len(y) : y[i].gen \in 1 .. gen' /\ y[i].off \in 1 .. log'
      BY <1>1, <1>2, <1>3, <1>8 DEF KafkaShape, KafkaKnown
    <2>3. \A i \in 1 .. Len(m'[c].msg) : KafkaKnown(m[c].msg[i])'
      BY <1>7, <2>2 DEF KafkaKnown
    <2>4. Len(m'[c].msg) <= Buffer
      BY <1>1, <1>3, <1>7 DEF KafkaSized, KafkaShape
    <2> QED
      BY <1>1, <1>2, <1>6, <1>7, <2>1, <2>3, <2>4 DEF KafkaShape
  <1>11. KafkaChain(c)'
    <2> SUFFICES ASSUME r.loop \in InSession PROVE KafkaChain(c)'
      BY <1>7 DEF KafkaChain
    <2>1. \A o \in 1 .. r.next - 1 :
              Passed(o) \/ \E i \in 1 .. Len(r.msg) : r.msg[i] = [off |-> o, gen |-> r.gen]
      BY <1>1 DEF KafkaChain
    <2>2. \A i, j \in 1 .. Len(r.msg) :
              i < j /\ r.msg[i].gen = r.gen /\ r.msg[j].gen = r.gen => r.msg[i].off < r.msg[j].off
      BY <1>1 DEF KafkaChain
    <2>3. \A o \in 1 .. m'[c].next - 1 :
              Passed(o)' \/ \E i \in 1 .. Len(y) : y[i] = [off |-> o, gen |-> m'[c].gen]
      <3> SUFFICES ASSUME NEW o \in 1 .. r.next - 1, ~Passed(o)'
                   PROVE  \E i \in 1 .. Len(y) : y[i] = [off |-> o, gen |-> r.gen]
        BY <1>7
      <3>1. o \in Nat /\ ~Passed(o) /\ o # h.off
        BY <1>9
      <3>2. PICK i \in 1 .. Len(r.msg) : r.msg[i] = [off |-> o, gen |-> r.gen]
        BY <2>1, <3>1
      <3>3. i # 1
        BY <1>3, <3>1, <3>2
      <3>4. i - 1 \in 1 .. Len(y) /\ (i - 1) + 1 = i
        BY <1>3, <3>2, <3>3
      <3>5. y[i - 1] = [off |-> o, gen |-> r.gen]
        BY <1>3, <3>2, <3>4
      <3> QED
        BY <3>4, <3>5
    <2>4. \A i \in 1 .. Len(y) : y[i].gen = m'[c].gen => y[i].off < m'[c].next
      BY <1>1, <1>3, <1>7, <1>8 DEF KafkaChain
    <2>5. \A i, j \in 1 .. Len(y) : i < j /\ y[i].gen = m'[c].gen /\ y[j].gen = m'[c].gen => y[i].off < y[j].off
      <3> SUFFICES ASSUME NEW i \in 1 .. Len(y), NEW j \in 1 .. Len(y), i < j, y[i].gen = r.gen, y[j].gen = r.gen
                   PROVE  y[i].off < y[j].off
        BY <1>7
      <3>1. i + 1 \in 1 .. Len(r.msg) /\ j + 1 \in 1 .. Len(r.msg) /\ i + 1 < j + 1
        BY <1>3, <1>8
      <3> QED
        BY <1>3, <2>2, <3>1
    <2>6. h.gen = r.gen => \A o \in 1 .. h.off : Passed(o)'
      <3> SUFFICES ASSUME h.gen = r.gen, NEW o \in 1 .. h.off, ~Passed(o)' PROVE FALSE
        OBVIOUS
      <3>1. o \in Nat /\ ~Passed(o) /\ o < h.off
        BY <1>4, <1>9
      <3>2. h.off < r.next
        BY <1>1, <1>3 DEF KafkaChain
      <3>3. o \in 1 .. r.next - 1
        BY <1>1, <1>4, <3>1, <3>2
      <3>4. PICK i \in 1 .. Len(r.msg) : r.msg[i] = [off |-> o, gen |-> r.gen]
        BY <2>1, <3>1, <3>3
      <3>5. r.msg[i].gen = r.gen /\ r.msg[i].off = o
        BY <3>4
      <3>6. i = 1 \/ (1 < i /\ r.msg[1].off < r.msg[i].off)
        BY <1>3, <2>2, <3>5
      <3> QED
        BY <1>3, <1>4, <3>1, <3>5, <3>6
    <2>7. \A o \in 1 .. m'[c].marked : Passed(o)'
      BY <1>1, <1>7, <1>9 DEF KafkaChain
    <2>8. m'[c].next >= 1
      BY <1>1, <1>7 DEF KafkaChain
    <2> QED
      BY <1>7, <2>3, <2>4, <2>5, <2>6, <2>7, <2>8 DEF KafkaChain, Passed
  <1>12. /\ \A d \in Members : KafkaShape(d)' /\ KafkaChain(d)'
         /\ m' = [d \in Members |-> m'[d]]
    <2>1. /\ log' \in Nat /\ gen' \in Nat /\ from' \in Nat
          /\ log <= log' /\ gen <= gen' /\ from <= from' /\ handed \subseteq handed'
      BY <1>1, <1>2
    <2> QED
      BY <1>2, <1>10, <1>11, <2>1, KafkaOneMoves
  <1>13. KafkaGlobal' /\ Kafka!CommittedWereHanded'
    <2>1. handed' \subseteq 1 .. log'
      BY <1>2, <1>4 DEF KafkaInv, KafkaGlobal
    <2> QED
      BY <1>2, <1>12, <2>1 DEF KafkaInv, KafkaGlobal, Kafka!CommittedWereHanded
  <1> QED
    BY <1>12, <1>13 DEF KafkaInv

(* MarkMessage: a mark counts in its own session, and covers what was taken. *)
LEMMA KafkaMarks ==
    ASSUME KafkaSized, KafkaInv, NEW c \in Members, Kafka!Mark(c)
    PROVE  KafkaInv'
  <1> DEFINE r == m[c]
             n == IF r.held.gen = r.gen THEN Kafka!Max({r.marked, r.held.off}) ELSE r.marked
  <1>1. /\ r \in MemberState /\ m = [d \in Members |-> m[d]] /\ KafkaShape(c) /\ KafkaChain(c)
        /\ log \in Nat /\ gen \in Nat /\ r.gen \in Nat /\ r.held \in KafkaMsgs /\ r.marked \in Nat
    BY KafkaFields
  <1>2. /\ r.held # Kafka!Free /\ m' = [m EXCEPT ![c] = [r EXCEPT !.held = Kafka!Free, !.marked = n]]
        /\ UNCHANGED <<log, committed, owner, gen, from, handed, kFaults>>
    BY DEF Kafka!Mark, Kafka!broker
  <1>3. /\ n \in Nat /\ n <= log
        /\ r.loop \in InSession => \A o \in 1 .. n : Passed(o)
    <2>1. r.held.off \in Nat /\ r.held.off <= log /\ r.marked <= log
      BY <1>1, <1>2 DEF KafkaShape, KafkaKnown, KafkaMsgs
    <2>2. n = r.marked \/ (r.held.gen = r.gen /\ n = r.held.off)
      BY <1>1, <2>1, KafkaMax
    <2> HIDE DEF n
    <2>3. n \in Nat /\ n <= log
      BY <1>1, <2>1, <2>2
    <2>4. r.loop \in InSession => \A o \in 1 .. n : Passed(o)
      BY <1>1, <2>2 DEF KafkaChain
    <2> QED
      BY <2>3, <2>4
  <1> HIDE DEF n
  <1>4. m'[c] = [r EXCEPT !.held = Kafka!Free, !.marked = n] /\ Kafka!Free \in KafkaMsgs
    BY <1>1, <1>2 DEF Kafka!Free, KafkaMsgs
  <1>5. m'[c] \in MemberState
    BY <1>1, <1>3, <1>4 DEF MemberState
  <1>6. /\ m'[c].msg = r.msg /\ m'[c].held = Kafka!Free /\ m'[c].next = r.next /\ m'[c].claim = r.claim
        /\ m'[c].loop = r.loop /\ m'[c].gen = r.gen /\ m'[c].last = r.last /\ m'[c].marked = n
    BY <1>1, <1>4 DEF MemberState
  <1>7. KafkaShape(c)'
    <2>1. \A i \in 1 .. Len(m'[c].msg) : KafkaKnown(m[c].msg[i])'
      BY <1>1, <1>2, <1>6 DEF KafkaShape, KafkaKnown
    <2> QED
      BY <1>1, <1>2, <1>3, <1>5, <1>6, <2>1 DEF KafkaShape
  <1>8. KafkaChain(c)'
    <2>1. Kafka!Free.gen = 0 /\ (r.loop \in InSession => r.gen # 0)
      BY <1>1 DEF Kafka!Free, KafkaShape
    <2> QED
      BY <1>1, <1>2, <1>3, <1>6, <2>1 DEF KafkaChain, Passed
  <1> QED
    <2>1. owner' \in Members \cup {Kafka!Nobody} /\ kFaults' \in 0 .. MaxCrashes
      BY <1>2 DEF KafkaInv, KafkaGlobal
    <2> QED
      BY <1>2, <1>7, <1>8, <2>1, KafkaQuiet
(* Consume starts a session behind the committed offset, or at the end of   *)
(* the log; what is left in the channel is of earlier sessions.             *)
LEMMA KafkaJoins ==
    ASSUME KafkaSized, KafkaInv, NEW c \in Members, Kafka!Join(c)
    PROVE  KafkaInv'
  <1> DEFINE r == m[c]
             s == IF committed = Kafka!NoOffset THEN log ELSE committed
             g == gen + 1
             n == s + 1
  <1>1. /\ r \in MemberState /\ m = [d \in Members |-> m[d]] /\ KafkaShape(c) /\ KafkaChain(c)
        /\ log \in Nat /\ gen \in Nat /\ from \in Nat /\ from <= log /\ r.gen \in Nat /\ r.held \in KafkaMsgs
        /\ r.msg \in Seq(KafkaMsgs)
    BY KafkaFields
  <1>2. /\ r.loop = "loop" /\ owner' = c /\ gen' = g
        /\ from' = (IF committed = Kafka!NoOffset THEN log ELSE from)
        /\ m' = [m EXCEPT ![c] = [r EXCEPT !.loop = "session", !.gen = g, !.claim = "recv", !.next = n, !.marked = s]]
        /\ UNCHANGED <<log, committed, handed, kFaults>>
    BY DEF Kafka!Join
  <1>3. s \in Nat /\ s <= log /\ n \in Nat /\ g \in Nat /\ from' \in Nat /\ from <= from' /\ from' <= log
        /\ n - 1 = s /\ n >= 1 /\ n <= log + 1
    BY <1>1, <1>2 DEF KafkaInv, KafkaGlobal, Kafka!NoOffset
  <1>4. \A o \in 1 .. s : Passed(o)'
    <2>1. CASE committed = Kafka!NoOffset
      BY <1>1, <1>2, <1>3, <2>1 DEF Passed
    <2>2. CASE committed # Kafka!NoOffset
      BY <1>1, <1>2, <1>3, <2>2 DEF Passed, KafkaInv, Kafka!CommittedWereHanded
    <2> QED
      BY <2>1, <2>2
  <1>5. /\ \A i \in 1 .. Len(r.msg) : r.msg[i].gen \in 1 .. gen /\ r.msg[i].off \in 1 .. log
        /\ r.held = Kafka!Free \/ (r.held.gen \in 1 .. gen /\ r.held.off \in 1 .. log)
        /\ r.held.gen <= gen /\ r.held.gen \in Nat
    BY <1>1 DEF KafkaShape, KafkaKnown, Kafka!Free, KafkaMsgs
  <1> HIDE DEF s, n, g
  <1>6. m'[c] = [r EXCEPT !.loop = "session", !.gen = g, !.claim = "recv", !.next = n, !.marked = s]
    BY <1>1, <1>2
  <1>7. m'[c] \in MemberState
    BY <1>1, <1>3, <1>6 DEF MemberState
  <1>8. /\ m'[c].msg = r.msg /\ m'[c].held = r.held /\ m'[c].next = n /\ m'[c].claim = "recv"
        /\ m'[c].loop = "session" /\ m'[c].gen = g /\ m'[c].last = r.last /\ m'[c].marked = s
    BY <1>1, <1>6 DEF MemberState
  <1>9. g > gen
    BY <1>1 DEF g
  <1>10. KafkaShape(c)'
    <2>1. m'[c].held = Kafka!Free \/ KafkaKnown(m[c].held)'
      BY <1>1, <1>2, <1>3, <1>5, <1>8, <1>9 DEF KafkaKnown
    <2>2. \A i \in 1 .. Len(m'[c].msg) : KafkaKnown(m[c].msg[i])'
      BY <1>1, <1>2, <1>3, <1>5, <1>8, <1>9 DEF KafkaKnown
    <2>3. g \in 1 .. gen'
      BY <1>1, <1>2, <1>3, <1>9
    <2> QED
      BY <1>1, <1>2, <1>3, <1>7, <1>8, <2>1, <2>2, <2>3 DEF KafkaShape, InSession
  <1>11. KafkaChain(c)'
    <2>1. /\ \A i \in 1 .. Len(r.msg) : r.msg[i].gen # g
          /\ r.held.gen # g
      BY <1>1, <1>3, <1>5, <1>9
    <2>2. \A o \in 1 .. m'[c].next - 1 : Passed(o)'
      BY <1>3, <1>4, <1>8
    <2> QED
      BY <1>3, <1>4, <1>8, <2>1, <2>2 DEF KafkaChain, Passed
  <1>12. /\ \A d \in Members : KafkaShape(d)' /\ KafkaChain(d)'
         /\ m' = [d \in Members |-> m'[d]]
    <2>1. /\ log' \in Nat /\ gen' \in Nat /\ from' \in Nat
          /\ log <= log' /\ gen <= gen' /\ from <= from' /\ handed \subseteq handed'
      BY <1>1, <1>2, <1>3, <1>9
    <2> QED
      BY <1>2, <1>10, <1>11, <2>1, KafkaOneMoves
  <1>13. KafkaGlobal' /\ Kafka!CommittedWereHanded'
    <2>1. Kafka!CommittedWereHanded'
      BY <1>1, <1>2, <1>3 DEF KafkaInv, KafkaGlobal, Kafka!CommittedWereHanded
    <2> QED
      BY <1>1, <1>2, <1>3, <1>12, <2>1 DEF KafkaInv, KafkaGlobal
  <1> QED
    BY <1>12, <1>13 DEF KafkaInv

(* A member that leaves its session, or dies and is started again, holds    *)
(* nothing that could be marked.                                            *)
LEMMA KafkaLeaves ==
    ASSUME KafkaSized, KafkaInv, NEW c \in Members, Kafka!Leave(c) \/ Kafka!Crash(c)
    PROVE  KafkaInv'
  <1> DEFINE r == m[c]
  <1>1. /\ r \in MemberState /\ m = [d \in Members |-> m[d]] /\ KafkaShape(c) /\ KafkaChain(c)
        /\ log \in Nat /\ gen \in Nat /\ from \in Nat /\ r.marked \in Nat
    BY KafkaFields
  <1>2. /\ UNCHANGED <<log, gen, from, handed>> /\ kFaults' \in 0 .. MaxCrashes
        /\ owner' \in Members \cup {Kafka!Nobody}
    BY DEF Kafka!Leave, Kafka!Crash, KafkaInv, KafkaGlobal, KafkaSized
  <1>3. PICK e : m' = [m EXCEPT ![c] = e]
    BY DEF Kafka!Leave, Kafka!Crash
  <1>4. KafkaShape(c)' /\ KafkaChain(c)'
    <2>1. CASE Kafka!Leave(c)
      <3>1. m'[c] = [r EXCEPT !.loop = "loop", !.gen = 0, !.last = 0]
        BY <1>1, <2>1 DEF Kafka!Leave
      <3>2. m'[c] \in MemberState
        <4>1. r \in MemberState /\ 0 \in Nat
          BY <1>1
        <4> HIDE DEF r
        <4> QED
          BY <3>1, <4>1 DEF MemberState
      <3>3. /\ m'[c].msg = r.msg /\ m'[c].held = r.held /\ m'[c].next = r.next /\ m'[c].claim = "none"
            /\ m'[c].loop = "loop" /\ m'[c].gen = 0 /\ m'[c].last = 0 /\ m'[c].marked = r.marked
        BY <1>1, <2>1, <3>1 DEF MemberState, Kafka!Leave
      <3>4. m'[c].held = Kafka!Free \/ KafkaKnown(m[c].held)'
        BY <1>1, <1>2, <3>3 DEF KafkaShape, KafkaKnown
      <3>5. \A i \in 1 .. Len(m'[c].msg) : KafkaKnown(m[c].msg[i])'
        BY <1>1, <1>2, <3>3 DEF KafkaShape, KafkaKnown
      <3> QED
        BY <1>1, <1>2, <3>2, <3>3, <3>4, <3>5 DEF KafkaShape, KafkaChain, InSession
    <2>2. CASE Kafka!Crash(c)
      <3>1. m'[c] = Kafka!Fresh
        BY <1>1, <2>2 DEF Kafka!Crash
      <3>2. Kafka!Fresh \in MemberState /\ Len(Kafka!Fresh.msg) = 0
        BY DEF Kafka!Fresh, Kafka!Free, MemberState, KafkaMsgs
      <3> QED
        BY <1>1, <1>2, <3>1, <3>2 DEF KafkaShape, KafkaChain, InSession, Kafka!Fresh, KafkaSized
    <2> QED
      BY <2>1, <2>2
  <1>5. /\ \A d \in Members : KafkaShape(d)' /\ KafkaChain(d)'
        /\ m' = [d \in Members |-> m'[d]]
    <2>1. /\ log' \in Nat /\ gen' \in Nat /\ from' \in Nat
          /\ log <= log' /\ gen <= gen' /\ from <= from' /\ handed \subseteq handed'
      BY <1>1, <1>2
    <2> QED
      BY <1>3, <1>4, <2>1, KafkaOneMoves
  <1>6. committed' \in {committed, r.marked} /\ (committed' # committed => r.loop \in InSession)
    BY DEF Kafka!Leave, Kafka!Crash, InSession
  <1>7. Kafka!CommittedWereHanded' /\ committed' \in Kafka!NoOffset .. log'
    <2>1. CASE committed' = committed
      BY <1>2, <2>1 DEF KafkaInv, KafkaGlobal, Kafka!CommittedWereHanded
    <2>2. CASE committed' = r.marked /\ r.loop \in InSession
      BY <1>1, <1>2, <2>2 DEF KafkaChain, KafkaShape, Passed, Kafka!CommittedWereHanded, Kafka!NoOffset
    <2> QED
      BY <1>6, <2>1, <2>2
  <1>8. KafkaGlobal'
    BY <1>2, <1>5, <1>7 DEF KafkaInv, KafkaGlobal
  <1> QED
    BY <1>5, <1>7, <1>8 DEF KafkaInv

(* Commit, an eviction and a new message leave the members as they are. *)
LEMMA KafkaBroker ==
    ASSUME KafkaSized, KafkaInv, Kafka!Produce \/ \E c \in Members : Kafka!Commit(c) \/ Kafka!Evict(c)
    PROVE  KafkaInv'
  <1>1. /\ UNCHANGED <<gen, from, handed, kFaults, m>> /\ (MaxLog >= 1 => log' <= MaxLog) /\ log <= log'
        /\ owner' \in Members \cup {Kafka!Nobody} /\ log \in Nat /\ log' \in Nat
    BY DEF Kafka!Produce, Kafka!Commit, Kafka!Evict, KafkaInv, KafkaGlobal, KafkaSized
  <1>2. \A d \in Members : KafkaShape(d)' /\ KafkaChain(d)'
    <2> SUFFICES ASSUME NEW d \in Members PROVE KafkaShape(d)' /\ KafkaChain(d)'
      OBVIOUS
    <2>1. /\ KafkaShape(d) /\ KafkaChain(d) /\ KafkaGlobal /\ m'[d] = m[d]
          /\ gen' \in Nat /\ from' \in Nat /\ gen <= gen' /\ from <= from' /\ handed \subseteq handed'
      BY <1>1 DEF KafkaInv, KafkaGlobal
    <2> QED
      BY <1>1, <2>1, KafkaOthers
  <1>3. Kafka!CommittedWereHanded' /\ committed' \in Kafka!NoOffset .. log'
    <2>1. CASE committed' = committed
      BY <1>1, <2>1 DEF KafkaInv, KafkaGlobal, Kafka!CommittedWereHanded, Kafka!NoOffset
    <2>2. ASSUME NEW c \in Members, Kafka!Commit(c) PROVE Kafka!CommittedWereHanded'
                     /\ committed' \in Kafka!NoOffset .. log'
      <3>1. m[c].loop \in InSession /\ committed' = m[c].marked /\ m[c].marked \in Nat /\ KafkaShape(c)
            /\ KafkaChain(c)
        BY <2>2, KafkaFields DEF Kafka!Commit, InSession
      <3> QED
        BY <1>1, <3>1 DEF KafkaChain, KafkaShape, Passed, Kafka!CommittedWereHanded, Kafka!NoOffset
    <2> QED
      BY <2>1, <2>2 DEF Kafka!Produce, Kafka!Evict
  <1>4. KafkaGlobal'
    <2>1. m' = [d \in Members |-> m'[d]]
      BY <1>1 DEF KafkaInv, KafkaGlobal
    <2>2. handed' \subseteq 1 .. log' /\ from' \in 0 .. log'
      BY <1>1 DEF KafkaInv, KafkaGlobal
    <2> QED
      BY <1>1, <1>3, <2>1, <2>2 DEF KafkaInv, KafkaGlobal
  <1> QED
    BY <1>2, <1>3, <1>4 DEF KafkaInv

(* Every step of the group keeps the invariant. *)
LEMMA KafkaNext == ASSUME KafkaSized, KafkaInv, [Kafka!Next]_(Kafka!vars) PROVE KafkaInv'
  <1>1. CASE UNCHANGED Kafka!vars
    BY <1>1 DEF Kafka!vars, Kafka!broker, KafkaInv, KafkaGlobal, Kafka!CommittedWereHanded, KafkaShape, KafkaChain,
       KafkaKnown, Passed
  <1>2. CASE Kafka!Next
    BY <1>2, KafkaMoves, KafkaSends, KafkaTakes, KafkaMarks, KafkaJoins, KafkaLeaves, KafkaBroker
       DEF Kafka!Next, Kafka!Claim, Kafka!Loop, Kafka!Reader
  <1> QED
    BY <1>1, <1>2

(* A group nobody has joined yet. *)
LEMMA KafkaStarts == ASSUME KafkaSized, Kafka!Init PROVE KafkaInv
  <1>1. Kafka!Fresh \in MemberState /\ Len(Kafka!Fresh.msg) = 0
    BY DEF Kafka!Fresh, Kafka!Free, MemberState, KafkaMsgs
  <1>2. \A c \in Members : KafkaShape(c) /\ KafkaChain(c)
    <2> SUFFICES ASSUME NEW c \in Members PROVE KafkaShape(c) /\ KafkaChain(c)
      OBVIOUS
    <2>1. m[c] = Kafka!Fresh /\ log \in Nat
      BY DEF Kafka!Init
    <2>2. /\ Kafka!Fresh.loop = "loop" /\ Kafka!Fresh.claim = "none" /\ Kafka!Fresh.gen = 0
                 /\ Kafka!Fresh.held = Kafka!Free
          /\ Kafka!Fresh.next = 0 /\ Kafka!Fresh.last = 0 /\ Kafka!Fresh.marked = 0
      BY DEF Kafka!Fresh
    <2> QED
      BY <1>1, <2>1, <2>2 DEF KafkaShape, KafkaChain, InSession, KafkaSized
  <1>3. KafkaGlobal
    BY DEF Kafka!Init, KafkaGlobal, KafkaSized, Kafka!NoOffset
  <1>4. Kafka!CommittedWereHanded
    BY DEF Kafka!Init, Kafka!CommittedWereHanded, Kafka!NoOffset
  <1> QED
    BY <1>2, <1>3, <1>4 DEF KafkaInv

(* What the invariant of the consumer group says of its properties. *)
LEMMA KafkaImplies ==
    ASSUME KafkaSized, KafkaInv
    PROVE  Kafka!CommittedWereHanded /\ (MaxLog >= 1 => Kafka!TypeOK)
  BY DEF KafkaInv, KafkaGlobal, KafkaSized, KafkaShape, MemberState, Kafka!TypeOK, Kafka!NoOffset

(* The invariant of the consumer group holds in every reachable state. *)
LEMMA KafkaInvHolds == ASSUME KafkaSized PROVE Kafka!Spec => []KafkaInv
  <1>1. Kafka!Init => KafkaInv
    BY KafkaStarts
  <1>2. KafkaInv /\ [Kafka!Next]_(Kafka!vars) => KafkaInv'
    BY KafkaNext
  <1> QED
    BY <1>1, <1>2, PTL DEF Kafka!Spec

(* kafka: channels stay within their buffer and offsets within the log, for *)
(* any members and any length of the log.                                   *)
THEOREM KafkaTypeCorrect == ASSUME KafkaSized, MaxLog >= 1 PROVE Kafka!Spec => []Kafka!TypeOK
  <1>1. KafkaInv => Kafka!TypeOK
    BY KafkaImplies
  <1> QED
    BY <1>1, KafkaInvHolds, PTL

(* kafka: what is committed was handed to a handler, through rebalances and *)
(* crashes, because a mark counts in its own session only and the channel   *)
(* keeps the order of the claim.                                            *)
THEOREM KafkaCommitsHanded == ASSUME KafkaSized PROVE Kafka!Spec => []Kafka!CommittedWereHanded
  <1>1. KafkaInv => Kafka!CommittedWereHanded
    BY KafkaImplies
  <1> QED
    BY <1>1, KafkaInvHolds, PTL
-----------------------------------------------------------------------------
(* timer/redistimer: a key in use by one caller, pipelines that do not break off within a key. *)
Timer == INSTANCE RedisTimer WITH Keys <- TimerKeys, Clients <- TimerClients, Upsert <- FALSE, Torn <- FALSE

(* Finitely many keys, a batch size and a last moment. *)
TimerSized == IsFiniteSet(TimerKeys) /\ batchSize \in Nat /\ MaxTime \in Nat

(* Commands of a pipeline. *)
Cmds == [name : {"zadd", "hset", "zrem", "hdel"}, key : TimerKeys, reg : Nat]
(* The call of a client, with the commands that Redis has not executed yet. *)
TimerClient == [op : {"idle", "register", "ifNotExists", "cancel"}, key : TimerKeys \cup {""},
                reg : Nat, pipe : Seq(Cmds)]
(* The locals of process. *)
TimerInst == [pc : {"idle", "fetch", "handle"}, keys : Seq(TimerKeys), items : Seq(Nat), pipe : Seq(Cmds)]
(* A registration made so far. *)
IsReg(r) == r \in Nat /\ r # 0 /\ r <= Len(regs)

(* Deadlines, items, registrations and locals have their types. *)
TimerTyped ==
    /\ now \in Nat /\ zset \in [TimerKeys -> Int] /\ (\A k \in TimerKeys : zset[k] = -1 \/ zset[k] >= 0)
    /\ hash \in [TimerKeys -> Nat]
    /\ regs \in Seq([key : TimerKeys, at : Nat])
    /\ state \in Seq({"pending", "registered", "cancelled"}) /\ Len(state) = Len(regs)
    /\ client \in [TimerClients -> TimerClient] /\ inst \in [Instances -> TimerInst]
    /\ \A f \in fired : IsReg(f.reg) /\ f.at \in Nat

(* An instance has an item of the key or a removal under way. *)
Works(i, k) == \/ \E n \in 1..Len(inst[i].items) : regs[inst[i].items[n]].key = k
               \/ \E n \in 1..Len(inst[i].pipe) : inst[i].pipe[n].key = k
(* Nor has it the key in its list. *)
Touches(i, k) == Works(i, k) \/ \E n \in 1..Len(inst[i].keys) : inst[i].keys[n] = k

(* A handler of the registration has succeeded. *)
Fired(r) == \E f \in fired : f.reg = r
(* The timers of the key that were registered have fired. *)
Done(k) == \A r \in 1..Len(regs) : regs[r].key = k /\ state[r] = "registered" => Fired(r)

(* The caller is in Register or RegisterIfNotExists. *)
Registers(c) == client[c].op \in {"register", "ifNotExists"}
(* It has its deadline stored, and the item is still to come. *)
Half(c) == client[c].pipe = <<Timer!Cmd("hset", client[c].key, client[c].reg)>>
(* Cancel has removed the deadline, and the item is still to go. *)
Deletes(c) == client[c].pipe = <<Timer!Cmd("hdel", client[c].key, 0)>>

(* A registration in progress: nobody else uses the key. *)
RegClient(c) ==
    LET k == client[c].key  r == client[c].reg IN
    /\ k \in TimerKeys /\ IsReg(r) /\ regs[r].key = k /\ state[r] = "pending"
    /\ hash[k] = 0 /\ \A i \in Instances : ~Works(i, k)
    /\ \/ /\ client[c].pipe = Timer!AddPipe(k, r) /\ zset[k] = -1
          /\ \A i \in Instances : ~Touches(i, k)
       \/ Half(c) /\ zset[k] = regs[r].at

(* A cancellation in progress: no timer of the key counts any more. *)
CancelClient(c) ==
    LET k == client[c].key IN
    /\ k \in TimerKeys /\ client[c].reg = 0
    /\ client[c].pipe = Timer!RemovePipe(k) \/ (Deletes(c) /\ zset[k] = -1)
    /\ \A r \in 1..Len(regs) : regs[r].key = k => state[r] = "cancelled"

(* A caller is where its call says. *)
ClientOK(c) ==
    /\ client[c].op = "idle" => client[c] = Timer!IdleClient
    /\ Registers(c) => RegClient(c)
    /\ client[c].op = "cancel" => CancelClient(c)

(* Callers in progress have different keys. *)
OneCaller == \A c, d \in TimerClients : client[c].op # "idle" /\ client[d].op # "idle"
        /\ client[c].key = client[d].key => c = d

(* A registration that does not count yet has a caller. *)
Pending == \A r \in 1..Len(regs) : state[r] = "pending" => \E c \in TimerClients : Registers(c) /\ client[c].reg = r

(* The removals of an instance come in pairs, deadline before item; the     *)
(* second of the first pair may be left alone.                              *)
Pairs(p) == \A n \in 1..Len(p) :
    /\ p[n].name = IF (Len(p) - n) % 2 = 1 THEN "zrem" ELSE "hdel"
    /\ (Len(p) - n) % 2 = 1 => p[n + 1].key = p[n].key

(* Somebody is about to delete the item of k *)
DelHead(i, k) == inst[i].pipe # <<>> /\ inst[i].pipe[1].name = "hdel" /\ inst[i].pipe[1].key = k

(* An item that was fetched is that of its key or has been deleted, and its deadline has passed. *)
ItemOK(r) == IsReg(r) /\ hash[regs[r].key] \in {0, r} /\ regs[r].at <= now
(* The deadline of a key that was listed has passed, and so has that of an item it gets. *)
Expires(k) == zset[k] <= now /\ (hash[k] # 0 => regs[hash[k]].at <= now)

(* What an instance has listed, fetched and is about to remove. *)
InstOK(i) ==
    /\ inst[i].pc = "fetch" => inst[i].keys # <<>>
    /\ inst[i].pc = "idle" => inst[i].pipe = <<>>
    /\ \A k \in TimerKeys : DelHead(i, k) => zset[k] = -1
    /\ Pairs(inst[i].pipe)
    /\ \A n \in 1..Len(inst[i].items) : ItemOK(inst[i].items[n])
    /\ \A n \in 1..Len(inst[i].pipe) : Done(inst[i].pipe[n].key)
    /\ \A n \in 1..Len(inst[i].keys) : Expires(inst[i].keys[n])

(* A key has both a deadline and an item, or neither, but for a pipeline    *)
(* that is half done.                                                       *)
KeyOK(k) ==
    /\ hash[k] # 0 => IsReg(hash[k]) /\ regs[hash[k]].key = k /\ (zset[k] # -1 => zset[k] = regs[hash[k]].at)
    /\ zset[k] # -1 /\ hash[k] = 0 => \E c \in TimerClients : Registers(c) /\ client[c].key = k /\ Half(c)
    /\ zset[k] = -1 /\ hash[k] # 0 => \/ \E c \in TimerClients : client[c].op = "cancel" /\ client[c].key = k
                                         /\ Deletes(c)
                                      \/ \E i \in Instances : DelHead(i, k)

(* A timer that was registered stays stored until its handler has succeeded. *)
Stored == \A r \in 1..Len(regs) : state[r] = "registered" /\ ~Fired(r) =>
             zset[regs[r].key] = regs[r].at /\ hash[regs[r].key] = r

(* The inductive invariant of the timer. *)
TimerInv ==
    /\ TimerTyped
    /\ \A c \in TimerClients : ClientOK(c)
    /\ OneCaller /\ Pending
    /\ \A i \in Instances : InstOK(i)
    /\ \A k \in TimerKeys : KeyOK(k)
    /\ Stored /\ Timer!NotEarly

(* The variables of the timer. *)
TimerVars == <<now, failures, zset, hash, regs, state, client, inst, fired>>

(* What a caller that waits for nothing looks like. *)
LEMMA IdleFits ==
    Timer!IdleClient \in TimerClient /\ Timer!IdleClient.op = "idle" /\ Timer!IdleClient.pipe = <<>>
  BY DEF Timer!IdleClient, TimerClient

(* An empty store, and nobody polls. *)
LEMMA TimerStarts == ASSUME TimerSized, Timer!Init PROVE TimerInv
  <1>1. /\ now = 0 /\ zset = [k \in TimerKeys |-> -1] /\ hash = [k \in TimerKeys |-> 0]
        /\ regs = <<>> /\ state = <<>> /\ fired = {}
        /\ client = [c \in TimerClients |-> Timer!IdleClient] /\ inst = [i \in Instances |-> Timer!IdleInst]
    BY DEF Timer!Init, Timer!NoScore, Timer!NoItem
  <1>2. Timer!IdleClient \in TimerClient /\ Timer!IdleInst \in TimerInst
    BY DEF Timer!IdleClient, Timer!IdleInst, TimerClient, TimerInst
  <1>3. TimerTyped
    BY <1>1, <1>2 DEF TimerTyped
  <1>4. \A c \in TimerClients : client[c] = Timer!IdleClient /\ client[c].op = "idle"
    BY <1>1 DEF Timer!IdleClient
  <1>5. \A c \in TimerClients : ClientOK(c)
    BY <1>4 DEF ClientOK, Registers
  <1>6. \A i \in Instances : inst[i].pc = "idle" /\ inst[i].keys = <<>> /\ inst[i].items = <<>> /\ inst[i].pipe = <<>>
    BY <1>1 DEF Timer!IdleInst
  <1>7. \A i \in Instances : InstOK(i)
    <2> SUFFICES ASSUME NEW i \in Instances PROVE InstOK(i)
      OBVIOUS
    <2>1. inst[i].pc = "idle" /\ Len(inst[i].keys) = 0 /\ Len(inst[i].items) = 0 /\ Len(inst[i].pipe) = 0
      BY <1>6
    <2>2. 1..0 = {}
      OBVIOUS
    <2> QED
      BY <1>6, <2>1, <2>2 DEF InstOK, Pairs, DelHead
  <1>8. \A k \in TimerKeys : KeyOK(k)
    BY <1>1 DEF KeyOK
  <1>9. OneCaller /\ Pending
    BY <1>1, <1>4 DEF OneCaller, Pending
  <1>10. Stored /\ Timer!NotEarly
    BY <1>1 DEF Stored, Timer!NotEarly
  <1> QED
    BY <1>3, <1>5, <1>7, <1>8, <1>9, <1>10 DEF TimerInv

(* Registrations have keys and deadlines, ... *)
LEMMA TimerRegs ==
    ASSUME TimerTyped
    PROVE  /\ \A r : IsReg(r) => regs[r].key \in TimerKeys /\ regs[r].at \in Nat
           /\ \A r : IsReg(r) <=> r \in 1..Len(regs)
           /\ Len(regs) \in Nat
  <1>1. Len(regs) \in Nat /\ \A r \in 1..Len(regs) : regs[r] \in [key : TimerKeys, at : Nat]
    <2>1. regs \in Seq([key : TimerKeys, at : Nat])
      BY DEF TimerTyped
    <2> QED
      BY <2>1, LenProperties, ElementOfSeq
  <1>2. \A r : IsReg(r) <=> r \in 1..Len(regs)
    BY <1>1 DEF IsReg
  <1>3. \A r : IsReg(r) => regs[r].key \in TimerKeys /\ regs[r].at \in Nat
    BY <1>1, <1>2
  <1> QED
    BY <1>1, <1>2, <1>3

(* ... and instances have keys, items and commands. *)
LEMMA TimerInsts ==
    ASSUME TimerTyped, NEW i \in Instances
    PROVE  /\ inst[i] \in TimerInst
           /\ inst[i].keys \in Seq(TimerKeys) /\ inst[i].items \in Seq(Nat)
           /\ inst[i].pipe \in Seq(Cmds)
           /\ \A n \in 1..Len(inst[i].keys) : inst[i].keys[n] \in TimerKeys
           /\ \A n \in 1..Len(inst[i].pipe) : inst[i].pipe[n].key \in TimerKeys
           /\ \A n \in 1..Len(inst[i].items) : inst[i].items[n] \in Nat
  <1>1. inst[i] \in TimerInst
    BY DEF TimerTyped
  <1>2. inst[i].keys \in Seq(TimerKeys) /\ inst[i].items \in Seq(Nat) /\ inst[i].pipe \in Seq(Cmds)
    BY <1>1 DEF TimerInst
  <1>3. \A n \in 1..Len(inst[i].pipe) : inst[i].pipe[n] \in Cmds
    BY <1>2
  <1>4. \A n \in 1..Len(inst[i].pipe) : inst[i].pipe[n].key \in TimerKeys
    BY <1>3 DEF Cmds
  <1> QED
    BY <1>1, <1>2, <1>4

(* The timers of a step: what was registered stays, and what has fired. *)
Kept == UNCHANGED <<now, zset, hash, regs, state, client>>

(* A step of one instance that leaves the store alone: it works on no key   *)
(* without an item, and lists none without a deadline.                      *)
LEMMA InstMoves ==
    ASSUME TimerInv, NEW i \in Instances, NEW x \in TimerInst, Kept, inst' = [inst EXCEPT ![i] = x],
           fired \subseteq fired', \A f \in fired' \ fired : IsReg(f.reg) /\ f.at \in Nat /\ f.at >= regs[f.reg].at,
           InstOK(i)', \A k \in TimerKeys : /\ Works(i, k)' => Works(i, k) \/ hash[k] # 0
                                            /\ Touches(i, k)' => Touches(i, k) \/ zset[k] # -1
                                            /\ DelHead(i, k) => DelHead(i, k)'
    PROVE  TimerInv'
  <1>1. now' = now /\ zset' = zset /\ hash' = hash /\ regs' = regs /\ state' = state /\ client' = client
    BY DEF Kept
  <1>2. inst' \in [Instances -> TimerInst] /\ \A j \in Instances : j # i => inst'[j] = inst[j]
    BY DEF TimerInv, TimerTyped
  <1>3. TimerTyped'
    BY <1>1, <1>2 DEF TimerInv, TimerTyped, IsReg
  <1>4. \A j \in Instances, k \in TimerKeys :
          (Works(j, k)' => Works(j, k) \/ hash[k] # 0) /\ (Touches(j, k)' => Touches(j, k) \/ zset[k] # -1)
          /\ (DelHead(j, k) => DelHead(j, k)')
    BY <1>1, <1>2 DEF Works, Touches, DelHead
  <1>5. ASSUME NEW c \in TimerClients PROVE ClientOK(c)'
    <2>1. CASE Registers(c)
      <3>1. RegClient(c)
        BY <2>1 DEF TimerInv, ClientOK
      <3>2. RegClient(c)'
        BY <1>1, <1>4, <3>1 DEF RegClient, Half, IsReg
      <3> QED
        BY <1>1, <2>1, <3>2 DEF ClientOK, Registers
    <2>2. CASE ~Registers(c)
      BY <1>1, <2>2 DEF TimerInv, ClientOK, CancelClient, Registers, Deletes
    <2> QED
      BY <2>1, <2>2
  <1>6. OneCaller' /\ Pending'
    BY <1>1 DEF TimerInv, OneCaller, Pending, Registers
  <1>7. \A k \in TimerKeys : Done(k) => Done(k)'
    BY <1>1 DEF Done, Fired
  <1>8. ASSUME NEW j \in Instances, j # i PROVE InstOK(j)'
    <2>1. inst'[j] = inst[j] /\ inst[j] \in TimerInst /\ InstOK(j)
      BY <1>2, <1>8 DEF TimerInv, TimerTyped
    <2>2. \A n \in 1..Len(inst'[j].pipe) : Done(inst[j].pipe[n].key)'
      <3>1. TimerTyped
        BY DEF TimerInv
      <3>2. \A n \in 1..Len(inst[j].pipe) : inst[j].pipe[n].key \in TimerKeys
        BY <3>1, TimerInsts
      <3>3. \A n \in 1..Len(inst[j].pipe) : Done(inst[j].pipe[n].key)
        BY <2>1 DEF InstOK
      <3> SUFFICES ASSUME NEW n \in 1..Len(inst[j].pipe) PROVE Done(inst[j].pipe[n].key)'
        BY <2>1
      <3> PICK k \in TimerKeys : k = inst[j].pipe[n].key
        BY <3>2
      <3>4. Done(k)'
        BY <1>7, <3>3
      <3> QED
        BY <2>1, <3>4 DEF Done
    <2>3. \A k \in TimerKeys : DelHead(j, k)' => zset'[k] = -1
      BY <1>1, <2>1 DEF InstOK, DelHead
    <2>4. Pairs(inst[j].pipe)'
      <3>1. Pairs(inst[j].pipe)
        BY <2>1 DEF InstOK
      <3> QED
        BY <2>1, <3>1, Zenon DEF Pairs
    <2>5. \A n \in 1..Len(inst'[j].items) : ItemOK(inst[j].items[n])'
      <3>1. \A n \in 1..Len(inst[j].items) : ItemOK(inst[j].items[n])
        BY <2>1 DEF InstOK
      <3> QED
        BY <1>1, <2>1, <3>1, Zenon DEF ItemOK, IsReg
    <2> QED
      BY <1>1, <2>1, <2>2, <2>3, <2>4, <2>5, Zenon DEF InstOK, Expires
  <1>9. ASSUME NEW k \in TimerKeys PROVE KeyOK(k)'
    BY <1>1, <1>4 DEF TimerInv, KeyOK, IsReg, Registers, Half, Deletes
  <1>10. Stored' /\ Timer!NotEarly'
    BY <1>1 DEF TimerInv, Stored, Timer!NotEarly, Fired
  <1> QED
    BY <1>3, <1>5, <1>6, <1>8, <1>9, <1>10 DEF TimerInv

(* Time passes, and what has expired stays expired. *)
LEMMA TimerTicks == ASSUME TimerInv, Timer!Tick \/ UNCHANGED TimerVars PROVE TimerInv'
  <1>1. /\ zset' = zset /\ hash' = hash /\ regs' = regs /\ state' = state /\ client' = client /\ inst' = inst
        /\ fired' = fired /\ now' \in Nat /\ now <= now'
    BY DEF Timer!Tick, Timer!store, TimerVars, TimerInv, TimerTyped
  <1>2. TimerTyped'
    BY <1>1 DEF TimerInv, TimerTyped, IsReg
  <1>3. ASSUME NEW c \in TimerClients PROVE ClientOK(c)'
    BY <1>1 DEF TimerInv, ClientOK, RegClient, CancelClient, Registers, Half, Deletes, IsReg, Works, Touches
  <1>4. ASSUME NEW i \in Instances PROVE InstOK(i)'
    <2>1. inst[i] \in TimerInst /\ InstOK(i) /\ now \in Nat
      BY DEF TimerInv, TimerTyped
    <2>5. /\ \A r : IsReg(r) => regs[r].at \in Nat
          /\ \A n \in 1..Len(inst[i].keys) : inst[i].keys[n] \in TimerKeys
      BY TimerRegs, TimerInsts DEF TimerInv
    <2>2. \A n \in 1..Len(inst[i].keys) : inst[i].keys[n] \in TimerKeys
      BY <2>5
    <2>3. \A k \in TimerKeys : zset[k] \in Int /\ (hash[k] # 0 => regs[hash[k]].at \in Nat)
      BY <2>5 DEF TimerInv, TimerTyped, KeyOK
    <2>4. \A n \in 1..Len(inst[i].keys) : Expires(inst[i].keys[n])'
      BY <1>1, <2>1, <2>2, <2>3 DEF InstOK, Expires
    <2>6. \A n \in 1..Len(inst[i].items) : ItemOK(inst[i].items[n])'
      BY <1>1, <2>1, <2>5 DEF InstOK, ItemOK, IsReg
    <2> QED
      BY <1>1, <2>1, <2>4, <2>6 DEF InstOK, Pairs, DelHead, Done, Fired
  <1>5. ASSUME NEW k \in TimerKeys PROVE KeyOK(k)'
    BY <1>1 DEF TimerInv, KeyOK, IsReg, Registers, Half, Deletes, DelHead
  <1>6. OneCaller' /\ Pending' /\ Stored' /\ Timer!NotEarly'
    BY <1>1 DEF TimerInv, OneCaller, Pending, Registers, Stored, Fired, Timer!NotEarly
  <1> QED
    BY <1>2, <1>3, <1>4, <1>5, <1>6 DEF TimerInv

(* The cardinality in the module of the timer is that of the library. *)
LEMMA SameTimerCard == \A S : Timer!Cardinality(S) = Cardinality(S)
  BY DEF Timer!Cardinality, Cardinality, Timer!IsFiniteSet, IsFiniteSet

(* A batch is a sequence of expired keys. *)
LEMMA BatchSeq ==
    ASSUME TimerSized, NEW b \in Timer!Batches(Timer!Expired)
    PROVE  b \in Seq(TimerKeys) /\ \A n \in 1..Len(b) : b[n] \in Timer!Expired
  <1>1. Timer!Expired \subseteq TimerKeys
    BY DEF Timer!Expired
  <1>2. Cardinality(Timer!Expired) \in Nat
    BY <1>1, FS_Subset, FS_CardinalityType DEF TimerSized
  <1>3. PICK n \in {IF Cardinality(Timer!Expired) < batchSize THEN Cardinality(Timer!Expired) ELSE batchSize} :
           b \in [1..n -> Timer!Expired]
    BY SameTimerCard DEF Timer!Batches
  <1>4. n \in Nat
    BY <1>2 DEF TimerSized
  <1>5. b \in Seq(Timer!Expired)
    BY <1>3, <1>4
  <1> QED
    BY <1>1, <1>3, <1>4, <1>5

(* getExpired lists keys whose deadline has passed. *)
LEMMA TimerGetsExpired ==
    ASSUME TimerSized, TimerInv, NEW i \in Instances, Timer!getExpired(i) PROVE TimerInv'
  <1>1. PICK b \in Timer!Batches(Timer!Expired) :
          b # <<>> /\ inst' = [inst EXCEPT ![i] = [Timer!IdleInst EXCEPT !.pc = "fetch", !.keys = b]]
    BY DEF Timer!getExpired
  <1>2. b \in Seq(TimerKeys) /\ \A n \in 1..Len(b) : b[n] \in Timer!Expired
    BY BatchSeq
  <1> DEFINE x == [Timer!IdleInst EXCEPT !.pc = "fetch", !.keys = b]
  <1>3. Timer!IdleInst \in TimerInst /\ Timer!IdleInst.items = <<>> /\ Timer!IdleInst.pipe = <<>>
    BY DEF Timer!IdleInst, TimerInst
  <1>4. x \in TimerInst
    BY <1>2, <1>3 DEF TimerInst
  <1>5. inst' = [inst EXCEPT ![i] = x] /\ x.pc = "fetch" /\ x.keys = b /\ Len(x.items) = 0 /\ Len(x.pipe) = 0
            /\ x.pipe = <<>>
    BY <1>1, <1>3 DEF TimerInst
  <1> HIDE DEF x
  <1>6. Kept /\ fired' = fired /\ inst[i].pipe = <<>> /\ inst'[i] = x
    BY <1>5 DEF Timer!getExpired, Timer!store, Kept, TimerInv, InstOK, TimerTyped
  <1>7. \A k \in Timer!Expired : k \in TimerKeys /\ zset[k] # -1 /\ Expires(k)
    BY DEF Timer!Expired, Timer!NoScore, Expires, TimerInv, KeyOK
  <1>8. 1..0 = {}
    OBVIOUS
  <1>9. InstOK(i)'
    <2>1. now' = now /\ zset' = zset /\ hash' = hash /\ regs' = regs
      BY <1>6 DEF Kept
    <2>2. \A n \in 1..Len(b) : Expires(b[n])'
      BY <1>2, <1>7, <2>1 DEF Expires
    <2> QED
      BY <1>1, <1>5, <1>6, <1>8, <2>1, <2>2 DEF InstOK, DelHead, Pairs, Expires
  <1>10. \A k \in TimerKeys : ~Works(i, k)' /\ (Touches(i, k)' => zset[k] # -1) /\ ~DelHead(i, k)
    BY <1>2, <1>5, <1>6, <1>7, <1>8 DEF Works, Touches, DelHead
  <1> QED
    BY <1>4, <1>5, <1>6, <1>9, <1>10, InstMoves

(* getItem: the item of a listed key has the deadline that has passed,      *)
(* whoever has deleted it since.                                            *)
LEMMA TimerGetsItem ==
    ASSUME TimerInv, NEW i \in Instances, Timer!getItem(i) PROVE TimerInv'
  <1>1. /\ inst[i].pc = "fetch" /\ inst[i] \in TimerInst /\ inst[i].keys \in Seq(TimerKeys)
               /\ inst[i].items \in Seq(Nat)
        /\ inst[i].pipe \in Seq(Cmds) /\ inst[i].keys # <<>> /\ InstOK(i)
    BY TimerInsts DEF Timer!getItem, TimerInv, InstOK
  <1> PICK y : y = inst[i]
    OBVIOUS
  <1> PICK k : k = Head(y.keys)
    OBVIOUS
  <1> DEFINE s == IF hash[k] = 0 THEN y.items ELSE Append(y.items, hash[k])
             x == [y EXCEPT !.keys = Tail(y.keys), !.items = s, !.pc = IF Len(y.keys) = 1 THEN "handle" ELSE "fetch"]
  <1>2. k \in TimerKeys /\ Tail(y.keys) \in Seq(TimerKeys) /\ Len(Tail(y.keys)) = Len(y.keys) - 1
        /\ (\A n \in 1..Len(Tail(y.keys)) : n + 1 \in 1..Len(y.keys) /\ Tail(y.keys)[n] = y.keys[n + 1])
               /\ Len(y.keys) \in Nat
        /\ k = y.keys[1] /\ 1 \in 1..Len(y.keys)
    BY <1>1, HeadTailProperties
  <1>3. inst' = [inst EXCEPT ![i] = x]
    <2>1. inst' = [inst EXCEPT ![i] =
                     [inst[i] EXCEPT !.keys = Tail(inst[i].keys),
                                     !.items = IF hash[Head(inst[i].keys)] = 0 THEN inst[i].items
                                               ELSE Append(inst[i].items, hash[Head(inst[i].keys)]),
                                     !.pc = IF Len(inst[i].keys) = 1 THEN "handle" ELSE "fetch"]]
      BY Zenon DEF Timer!getItem, Timer!NoItem
    <2> QED
      BY <2>1, Zenon
  <1>4. Kept /\ fired' = fired
    BY DEF Timer!getItem, Timer!store, Kept
  <1>5. hash[k] \in Nat /\ (hash[k] # 0 => ItemOK(hash[k]) /\ regs[hash[k]].key = k)
    <2>1. Expires(k)
      BY <1>1, <1>2 DEF InstOK
    <2>2. KeyOK(k) /\ hash[k] \in Nat
      BY <1>2 DEF TimerInv, TimerTyped
    <2> QED
      BY <2>1, <2>2 DEF KeyOK, ItemOK, Expires
  <1>6. s \in Seq(Nat) /\ \A n \in 1..Len(s) : (n \in 1..Len(y.items) /\ s[n] = y.items[n])
            \/ (s[n] = hash[k] /\ hash[k] # 0)
    <2>1. CASE hash[k] = 0
      BY <1>1, <2>1
    <2>2. CASE hash[k] # 0
      <3>1. s = Append(y.items, hash[k]) /\ y.items \in Seq(Nat) /\ Len(y.items) \in Nat
        BY <1>1, <2>2
      <3> HIDE DEF s
      <3>2. /\ s \in Seq(Nat) /\ Len(s) = Len(y.items) + 1
            /\ (\A n \in 1..Len(y.items) : s[n] = y.items[n]) /\ s[Len(y.items) + 1] = hash[k]
        BY <1>5, <3>1, AppendProperties
      <3> QED
        BY <2>2, <3>1, <3>2
    <2> QED
      BY <2>1, <2>2
  <1>7. x \in TimerInst
    BY <1>1, <1>2, <1>6 DEF TimerInst
  <1>8. x.keys = Tail(y.keys) /\ x.items = s /\ x.pipe = y.pipe /\ (x.pc = "fetch" => Len(y.keys) # 1)
            /\ x.pc # "idle"
    BY <1>1 DEF TimerInst
  <1> HIDE DEF x, s
  <1>9. /\ now' = now /\ zset' = zset /\ hash' = hash /\ regs' = regs /\ state' = state
        /\ inst'[i] = x
    BY <1>3, <1>4 DEF Kept, TimerInv, TimerTyped
  <1>10. InstOK(i)'
    <2>1. \A n \in 1..Len(x.items) : ItemOK(x.items[n])
      BY <1>1, <1>5, <1>6, <1>8 DEF InstOK
    <2>2. \A n \in 1..Len(x.keys) : Expires(x.keys[n])
      BY <1>1, <1>2, <1>8 DEF InstOK
    <2>3. x.pc = "fetch" => x.keys # <<>>
      <3>1. Len(Tail(y.keys)) = 0 => Len(y.keys) = 1
        BY <1>2
      <3>2. Len(<<>>) = 0
        OBVIOUS
      <3> QED
        BY <1>8, <3>1, <3>2
    <2>4. /\ Pairs(x.pipe) /\ (\A n \in 1..Len(x.pipe) : Done(x.pipe[n].key))
          /\ \A l \in TimerKeys : x.pipe # <<>> /\ x.pipe[1].name = "hdel" /\ x.pipe[1].key = l => zset[l] = -1
      BY <1>1, <1>8 DEF InstOK, DelHead
    <2>5. \A n \in 1..Len(inst'[i].items) : ItemOK(inst[i].items[n])'
      BY <1>9, <2>1, Zenon DEF ItemOK, IsReg
    <2>6. \A n \in 1..Len(inst'[i].keys) : Expires(inst[i].keys[n])'
      BY <1>9, <2>2, Zenon DEF Expires
    <2>7. Pairs(inst[i].pipe)'
      BY <1>9, <2>4, Zenon DEF Pairs
    <2>8. \A n \in 1..Len(inst'[i].pipe) : Done(inst[i].pipe[n].key)'
      BY <1>4, <1>9, <2>4, Zenon DEF Done, Fired
    <2>9. \A l \in TimerKeys : DelHead(i, l)' => zset'[l] = -1
      BY <1>9, <2>4, Zenon DEF DelHead
    <2> QED
      BY <1>8, <1>9, <2>3, <2>5, <2>6, <2>7, <2>8, <2>9, Zenon DEF InstOK
  <1>11. \A l \in TimerKeys : Works(i, l)' => Works(i, l) \/ hash[l] # 0
    BY <1>5, <1>6, <1>8, <1>9 DEF Works
  <1>12. \A l \in TimerKeys : Touches(i, l)' => Touches(i, l) \/ zset[l] # -1
    <2>1. Touches(i, k)
      BY <1>2 DEF Touches
    <2>2. \A l \in TimerKeys : Works(i, l)' => Touches(i, l)
      BY <1>5, <1>6, <1>8, <1>9, <2>1 DEF Works, Touches
    <2>3. ASSUME NEW l, NEW n \in 1..Len(x.keys), x.keys[n] = l PROVE Touches(i, l)
      BY <1>2, <1>8, <2>3 DEF Touches
    <2> QED
      BY <1>9, <2>2, <2>3 DEF Touches
  <1>13. \A l \in TimerKeys : DelHead(i, l) => DelHead(i, l)'
    BY <1>8, <1>9 DEF DelHead
  <1> QED
    BY <1>3, <1>4, <1>7, <1>10, <1>11, <1>12, <1>13, InstMoves

(* Appending a removal. *)
LEMMA PairsGrow ==
    ASSUME NEW p \in Seq(Cmds), Pairs(p), NEW k \in TimerKeys
    PROVE  LET rest == p \o Timer!RemovePipe(k) IN
             /\ rest \in Seq(Cmds) /\ Pairs(rest) /\ Len(rest) = Len(p) + 2
             /\ \A n \in 1..Len(rest) : (n \in 1..Len(p) /\ rest[n] = p[n]) \/ rest[n].key = k
             /\ p # <<>> => rest # <<>> /\ rest[1] = p[1]
  <1> DEFINE t == Timer!RemovePipe(k)
             rest == p \o t
  <1>1. t \in Seq(Cmds) /\ Len(t) = 2 /\ t[1].name = "zrem" /\ t[2].name = "hdel" /\ t[1].key = k /\ t[2].key = k
    BY DEF Timer!RemovePipe, Timer!Cmd, Cmds
  <1> HIDE DEF t
  <1>2. Len(p) \in Nat
    OBVIOUS
  <1>3. rest \in Seq(Cmds) /\ Len(rest) = Len(p) + 2
        /\ \A n \in 1..Len(p) + 2 : rest[n] = IF n <= Len(p) THEN p[n] ELSE t[n - Len(p)]
    <2>1. /\ p \o t \in Seq(Cmds) /\ Len(p \o t) = Len(p) + Len(t)
          /\ \A n \in 1 .. Len(p) + Len(t) : (p \o t)[n] = IF n <= Len(p) THEN p[n] ELSE t[n - Len(p)]
      BY <1>1, ConcatProperties, Zenon
    <2> QED
      BY <1>1, <2>1, Zenon
  <1> HIDE DEF rest
  <1>4. rest[Len(p) + 1] = t[1] /\ rest[Len(p) + 2] = t[2] /\ \A n \in 1..Len(p) : rest[n] = p[n]
    <2>1. Len(p) + 1 \in 1..Len(p) + 2 /\ Len(p) + 2 \in 1..Len(p) + 2 /\ Len(p) + 1 - Len(p) = 1
              /\ Len(p) + 2 - Len(p) = 2
      BY <1>2
    <2> QED
      BY <1>2, <1>3, <2>1
  <1>5. \A n \in 1..Len(rest) : n \in 1..Len(p) \/ n = Len(p) + 1 \/ n = Len(p) + 2
    BY <1>2, <1>3
  <1>6. \A n \in 1..Len(rest) : (n \in 1..Len(p) /\ rest[n] = p[n]) \/ rest[n].key = k
    BY <1>1, <1>4, <1>5
  <1>7. Pairs(rest)
    <2> SUFFICES ASSUME NEW n \in 1..Len(rest)
                 PROVE  /\ rest[n].name = IF (Len(rest) - n) % 2 = 1 THEN "zrem" ELSE "hdel"
                        /\ (Len(rest) - n) % 2 = 1 => rest[n + 1].key = rest[n].key
      BY DEF Pairs
    <2>1. CASE n \in 1..Len(p)
      <3>1. (Len(rest) - n) % 2 = (Len(p) - n) % 2
        BY <1>2, <1>3, <2>1
      <3>2. rest[n] = p[n] /\ p[n].name = (IF (Len(p) - n) % 2 = 1 THEN "zrem" ELSE "hdel")
            /\ ((Len(p) - n) % 2 = 1 => p[n + 1].key = p[n].key)
        BY <1>4, <2>1 DEF Pairs
      <3>3. (Len(p) - n) % 2 = 1 => n + 1 \in 1..Len(p)
        BY <1>2, <2>1
      <3> QED
        BY <1>4, <3>1, <3>2, <3>3
    <2>2. CASE n = Len(p) + 1
      <3>1. (Len(rest) - n) % 2 = 1 /\ n + 1 = Len(p) + 2
        BY <1>2, <1>3, <2>2
      <3> QED
        BY <1>1, <1>4, <2>2, <3>1
    <2>3. CASE n = Len(p) + 2
      <3>1. (Len(rest) - n) % 2 = 0
        BY <1>2, <1>3, <2>3
      <3> QED
        BY <1>1, <1>4, <2>3, <3>1
    <2> QED
      BY <1>5, <2>1, <2>2, <2>3
  <1>8. p # <<>> => rest # <<>> /\ rest[1] = p[1]
    <2>1. p # <<>> => 1 \in 1..Len(p)
      BY <1>2
    <2>2. Len(rest) # 0
      BY <1>2, <1>3
    <2>3. Len(<<>>) = 0
      OBVIOUS
    <2> QED
      BY <1>4, <2>1, <2>2, <2>3
  <1> QED
    BY <1>3, <1>6, <1>7, <1>8 DEF rest, t

(* An instance goes on with its items and removals: what x has must be fit. *)
LEMMA TimerRunsHandler ==
    ASSUME TimerInv, NEW i \in Instances, Timer!processExpired(i) PROVE TimerInv'
  <1>1. /\ inst[i] \in TimerInst /\ inst[i].items \in Seq(Nat) /\ inst[i].pipe \in Seq(Cmds)
        /\ inst[i].items # <<>> /\ InstOK(i) /\ inst[i].pc = "handle"
    BY TimerInsts DEF Timer!processExpired, TimerInv
  <1> PICK y : y = inst[i]
    OBVIOUS
  <1> PICK r : r = Head(y.items)
    OBVIOUS
  <1> PICK t : t = Tail(y.items)
    OBVIOUS
  <1>2. /\ t \in Seq(Nat) /\ Len(t) = Len(y.items) - 1 /\ Len(y.items) \in Nat /\ r = y.items[1]
               /\ 1 \in 1..Len(y.items)
        /\ \A n \in 1..Len(t) : n + 1 \in 1..Len(y.items) /\ t[n] = y.items[n + 1]
    BY <1>1, HeadTailProperties
  <1>3. ItemOK(r) /\ \A n \in 1..Len(t) : ItemOK(t[n])
    BY <1>1, <1>2 DEF InstOK
  <1> PICK k : k = regs[r].key
    OBVIOUS
  <1>4. k \in TimerKeys /\ regs[r].at \in Nat /\ IsReg(r) /\ regs[r].at <= now /\ now \in Nat
    BY <1>3, TimerRegs DEF ItemOK, TimerInv, TimerTyped
  <1>5. Kept
    BY DEF Timer!processExpired, Timer!store, Kept
  <1>6. now' = now /\ zset' = zset /\ hash' = hash /\ regs' = regs /\ state' = state
    BY <1>5 DEF Kept
  <1> DEFINE p == y.pipe \o Timer!RemovePipe(k)
  <1>7. /\ p \in Seq(Cmds) /\ Pairs(p) /\ \A n \in 1..Len(p) : (n \in 1..Len(y.pipe) /\ p[n] = y.pipe[n])
               \/ p[n].key = k
        /\ y.pipe # <<>> => p # <<>> /\ p[1] = y.pipe[1]
        /\ y.pipe = <<>> => p[1].name = "zrem"
    <2>1. y.pipe \in Seq(Cmds) /\ Pairs(y.pipe)
      BY <1>1 DEF InstOK
    <2>2. /\ p \in Seq(Cmds) /\ Pairs(p) /\ \A n \in 1..Len(p) : (n \in 1..Len(y.pipe) /\ p[n] = y.pipe[n])
                 \/ p[n].key = k
          /\ y.pipe # <<>> => p # <<>> /\ p[1] = y.pipe[1]
          /\ Len(p) = Len(y.pipe) + 2
      BY <1>4, <2>1, PairsGrow
    <2> HIDE DEF p
    <2>3. y.pipe = <<>> => Len(p) = 2
      BY <2>2
    <2>4. Len(p) = 2 => p[1].name = "zrem"
      <3>1. 1 \in 1..2 /\ (2 - 1) % 2 = 1
        OBVIOUS
      <3> QED
        BY <2>2, <3>1 DEF Pairs
    <2> QED
      BY <2>2, <2>3, <2>4
  <1>8. CASE /\ fired' = fired \cup {[reg |-> r, at |-> now]}
             /\ inst' = [inst EXCEPT ![i] = [inst[i] EXCEPT !.items = t, !.pipe = p]]
    <2> DEFINE x == [y EXCEPT !.items = t, !.pipe = p]
    <2>1. inst' = [inst EXCEPT ![i] = x]
      BY <1>8
    <2>2. x \in TimerInst /\ x.items = t /\ x.pipe = p /\ x.keys = y.keys /\ x.pc = "handle"
      BY <1>1, <1>2, <1>7 DEF TimerInst
    <2> HIDE DEF x, p
    <2>3. inst'[i] = x
      BY <2>1 DEF TimerInv, TimerTyped
    <2>4. fired \subseteq fired' /\ \A f \in fired' \ fired : IsReg(f.reg) /\ f.at \in Nat /\ f.at >= regs[f.reg].at
      BY <1>4, <1>8
    <2>5. Done(k)'
      <3> SUFFICES ASSUME NEW z \in 1..Len(regs), regs[z].key = k, state[z] = "registered" PROVE Fired(z)'
        BY <1>6 DEF Done
      <3>1. CASE Fired(z)
        BY <2>4, <3>1 DEF Fired
      <3>2. CASE ~Fired(z)
        <4>1. hash[k] = z
          BY <3>2 DEF TimerInv, Stored
        <4>2. z = r
          BY <1>3, <4>1 DEF ItemOK
        <4>3. [reg |-> r, at |-> now] \in fired' /\ [reg |-> r, at |-> now].reg = r
          BY <1>8
        <4> QED
          BY <4>2, <4>3 DEF Fired
      <3> QED
        BY <3>1, <3>2
    <2>6. \A n \in 1..Len(p) : Done(p[n].key)'
      <3> SUFFICES ASSUME NEW n \in 1..Len(p) PROVE Done(p[n].key)'
        OBVIOUS
      <3> PICK l : l = p[n].key
        OBVIOUS
      <3>1. Done(l)'
        <4>1. CASE l = k
          BY <2>5, <4>1
        <4>2. CASE l # k
          <5>1. Done(l)
            BY <1>1, <1>7, <4>2 DEF InstOK
          <5> QED
            BY <1>6, <2>4, <5>1 DEF Done, Fired
        <4> QED
          BY <4>1, <4>2
      <3> QED
        BY <3>1 DEF Done
    <2>7. InstOK(i)'
      <3>1. \A n \in 1..Len(inst'[i].items) : ItemOK(inst[i].items[n])'
        BY <1>3, <1>6, <2>2, <2>3, Zenon DEF ItemOK, IsReg
      <3>2. \A n \in 1..Len(inst'[i].keys) : Expires(inst[i].keys[n])'
        <4>1. \A n \in 1..Len(x.keys) : Expires(x.keys[n])
          BY <1>1, <2>2 DEF InstOK
        <4> QED
          BY <1>6, <2>3, <4>1, Zenon DEF Expires
      <3>3. Pairs(inst[i].pipe)'
        BY <1>7, <2>2, <2>3, Zenon DEF Pairs
      <3>4. \A n \in 1..Len(inst'[i].pipe) : Done(inst[i].pipe[n].key)'
        BY <2>2, <2>3, <2>6 DEF Done
      <3>5. \A l \in TimerKeys : DelHead(i, l)' => zset'[l] = -1
        BY <1>1, <1>6, <1>7, <2>2, <2>3 DEF InstOK, DelHead
      <3>6. inst'[i].pc = "handle"
        BY <2>2, <2>3
      <3> QED
        BY <3>1, <3>2, <3>3, <3>4, <3>5, <3>6, Zenon DEF InstOK
    <2>8. Works(i, k)
      BY <1>2 DEF Works
    <2>9. \A l \in TimerKeys : Works(i, l)' => Works(i, l)
      <3>1. ASSUME NEW l \in TimerKeys, NEW n \in 1..Len(t), regs[t[n]].key = l PROVE Works(i, l)
        BY <1>2, <3>1 DEF Works
      <3>2. ASSUME NEW l \in TimerKeys, NEW n \in 1..Len(p), p[n].key = l PROVE Works(i, l)
        BY <1>7, <2>8, <3>2 DEF Works
      <3> QED
        BY <1>6, <2>2, <2>3, <3>1, <3>2, Zenon DEF Works
    <2>10. \A l \in TimerKeys : (Touches(i, l)' => Touches(i, l)) /\ (DelHead(i, l) => DelHead(i, l)')
      BY <1>7, <2>2, <2>3, <2>9 DEF Touches, DelHead
    <2> QED
      BY <1>5, <2>1, <2>2, <2>4, <2>7, <2>9, <2>10, InstMoves
  <1>9. CASE fired' = fired /\ inst' = [inst EXCEPT ![i] = [inst[i] EXCEPT !.items = t]]
    <2> DEFINE x == [y EXCEPT !.items = t]
    <2>1. inst' = [inst EXCEPT ![i] = x]
      BY <1>9
    <2>2. x \in TimerInst /\ x.items = t /\ x.pipe = y.pipe /\ x.keys = y.keys /\ x.pc = "handle"
      BY <1>1, <1>2 DEF TimerInst
    <2> HIDE DEF x, p
    <2>3. inst'[i] = x
      BY <2>1 DEF TimerInv, TimerTyped
    <2>7. InstOK(i)'
      <3>1. \A n \in 1..Len(inst'[i].items) : ItemOK(inst[i].items[n])'
        BY <1>3, <1>6, <2>2, <2>3, Zenon DEF ItemOK, IsReg
      <3>2. \A n \in 1..Len(inst'[i].keys) : Expires(inst[i].keys[n])'
        <4>1. \A n \in 1..Len(x.keys) : Expires(x.keys[n])
          BY <1>1, <2>2 DEF InstOK
        <4> QED
          BY <1>6, <2>3, <4>1, Zenon DEF Expires
      <3>3. Pairs(inst[i].pipe)'
        <4>1. Pairs(y.pipe)
          BY <1>1 DEF InstOK
        <4> QED
          BY <2>2, <2>3, <4>1, Zenon DEF Pairs
      <3>4. \A n \in 1..Len(inst'[i].pipe) : Done(inst[i].pipe[n].key)'
        <4>1. \A n \in 1..Len(x.pipe) : Done(x.pipe[n].key)
          BY <1>1, <2>2 DEF InstOK
        <4> QED
          BY <1>6, <1>9, <2>3, <4>1, Zenon DEF Done, Fired
      <3>5. \A l \in TimerKeys : DelHead(i, l)' => zset'[l] = -1
        BY <1>1, <1>6, <2>2, <2>3 DEF InstOK, DelHead
      <3>6. inst'[i].pc = "handle"
        BY <2>2, <2>3
      <3> QED
        BY <3>1, <3>2, <3>3, <3>4, <3>5, <3>6, Zenon DEF InstOK
    <2>9. \A l \in TimerKeys : Works(i, l)' => Works(i, l)
      <3>1. ASSUME NEW l \in TimerKeys, NEW n \in 1..Len(t), regs[t[n]].key = l PROVE Works(i, l)
        BY <1>2, <3>1 DEF Works
      <3>2. ASSUME NEW l \in TimerKeys, NEW n \in 1..Len(y.pipe), y.pipe[n].key = l PROVE Works(i, l)
        BY <3>2 DEF Works
      <3> QED
        BY <1>6, <2>2, <2>3, <3>1, <3>2, Zenon DEF Works
    <2>10. \A l \in TimerKeys : (Touches(i, l)' => Touches(i, l)) /\ (DelHead(i, l) => DelHead(i, l)')
      BY <2>2, <2>3, <2>9 DEF Touches, DelHead
    <2> QED
      BY <1>5, <1>9, <2>1, <2>2, <2>7, <2>9, <2>10, InstMoves
  <1> QED
    BY <1>8, <1>9 DEF Timer!processExpired

(* The first command of the removals is executed. *)
LEMMA PairsShrink ==
    ASSUME NEW p \in Seq(Cmds), Pairs(p), p # <<>>
    PROVE  /\ Tail(p) \in Seq(Cmds) /\ Pairs(Tail(p)) /\ Len(p) \in Nat
           /\ \A n \in 1..Len(Tail(p)) : n + 1 \in 1..Len(p) /\ Tail(p)[n] = p[n + 1]
           /\ Head(p) = p[1] /\ 1 \in 1..Len(p) /\ p[1].name \in {"zrem", "hdel"} /\ p[1].key \in TimerKeys
           /\ p[1].name = "zrem" => Tail(p) # <<>> /\ Tail(p)[1].name = "hdel" /\ Tail(p)[1].key = p[1].key
           /\ p[1].name = "hdel" => Tail(p) = <<>> \/ Tail(p)[1].name = "zrem"
           /\ Len(p) % 2 = 0 => p[1].name = "zrem"
  <1> PICK rest : rest = Tail(p)
    OBVIOUS
  <1>1. /\ rest \in Seq(Cmds) /\ Len(rest) = Len(p) - 1 /\ Len(p) \in Nat /\ Head(p) = p[1] /\ 1 \in 1..Len(p)
        /\ \A n \in 1..Len(rest) : n + 1 \in 1..Len(p) /\ rest[n] = p[n + 1]
        /\ p[1].key \in TimerKeys /\ Len(rest) \in Nat
    <2>1. p[1] \in Cmds
      OBVIOUS
    <2>2. p[1].key \in TimerKeys
      BY <2>1 DEF Cmds
    <2> QED
      BY <2>2, HeadTailProperties
  <1>2. \A n \in 1..Len(rest) : Len(rest) - n = Len(p) - (n + 1)
    BY <1>1
  <1>3. Pairs(rest)
    <2> SUFFICES ASSUME NEW n \in 1..Len(rest)
                 PROVE  /\ rest[n].name = IF (Len(rest) - n) % 2 = 1 THEN "zrem" ELSE "hdel"
                        /\ (Len(rest) - n) % 2 = 1 => rest[n + 1].key = rest[n].key
      BY DEF Pairs
    <2>1. PICK after : after = n + 1
      OBVIOUS
    <2>2. after \in 1..Len(p) /\ rest[n] = p[after] /\ Len(rest) - n = Len(p) - after
      BY <1>1, <1>2, <2>1
    <2>3. (Len(rest) - n) % 2 = 1 => after \in 1..Len(rest) /\ rest[after] = p[after + 1]
      BY <1>1, <2>1
    <2> QED
      BY <2>1, <2>2, <2>3 DEF Pairs
  <1>4. /\ p[1].name = IF (Len(p) - 1) % 2 = 1 THEN "zrem" ELSE "hdel"
        /\ (Len(p) - 1) % 2 = 1 => p[2].key = p[1].key
    BY <1>1 DEF Pairs
  <1>5. (Len(p) - 1) % 2 = 1 => 1 \in 1..Len(rest) /\ rest[1] = p[2] /\ rest # <<>> /\ (Len(rest) - 1) % 2 = 0
    <2>1. (Len(p) - 1) % 2 = 1 => 1 \in 1..Len(rest) /\ (Len(rest) - 1) % 2 = 0
      BY <1>1
    <2>2. 1 \in 1..Len(rest) => rest[1] = p[2] /\ Len(rest) # 0
      <3>1. 1 + 1 = 2
        OBVIOUS
      <3> QED
        BY <1>1, <3>1
    <2>3. Len(<<>>) = 0
      OBVIOUS
    <2> QED
      BY <2>1, <2>2, <2>3
  <1>6. (Len(p) - 1) % 2 # 1 => rest = <<>> \/ (1 \in 1..Len(rest) /\ (Len(rest) - 1) % 2 = 1)
    <2>1. Len(rest) = 0 => rest = <<>>
      BY <1>1
    <2>2. (Len(p) - 1) % 2 # 1 /\ Len(rest) # 0 => 1 \in 1..Len(rest) /\ (Len(rest) - 1) % 2 = 1
      BY <1>1
    <2> QED
      BY <2>1, <2>2
  <1>7. 1 \in 1..Len(rest) => rest[1].name = IF (Len(rest) - 1) % 2 = 1 THEN "zrem" ELSE "hdel"
    BY <1>3 DEF Pairs
  <1>8. Len(p) % 2 = 0 => (Len(p) - 1) % 2 = 1
    BY <1>1
  <1> QED
    BY <1>1, <1>3, <1>4, <1>5, <1>6, <1>7, <1>8

(* removeProcessed is over, or failed before the commands of a key. *)
LEMMA TimerStops ==
    ASSUME TimerInv, NEW i \in Instances, Kept, fired' = fired, inst' = [inst EXCEPT ![i] = Timer!IdleInst],
           inst[i].pipe = <<>> \/ Len(inst[i].pipe) % 2 = 0
    PROVE  TimerInv'
  <1> PICK x : x = Timer!IdleInst
    OBVIOUS
  <1>1. x \in TimerInst /\ x.pc = "idle" /\ x.pipe = <<>> /\ Len(x.keys) = 0 /\ Len(x.items) = 0 /\ Len(x.pipe) = 0
    BY DEF Timer!IdleInst, TimerInst
  <1>2. 1..0 = {}
    OBVIOUS
  <1>3. inst' = [inst EXCEPT ![i] = x] /\ inst'[i] = x
    BY DEF TimerInv, TimerTyped
  <1>4. InstOK(i)'
    BY <1>1, <1>2, <1>3 DEF InstOK, Pairs, DelHead
  <1>5. \A k \in TimerKeys : ~Works(i, k)' /\ ~Touches(i, k)'
    BY <1>1, <1>2, <1>3 DEF Works, Touches
  <1>6. \A k \in TimerKeys : ~DelHead(i, k)
    <2>1. inst[i].pipe \in Seq(Cmds) /\ Pairs(inst[i].pipe)
      BY TimerInsts DEF TimerInv, InstOK
    <2>2. inst[i].pipe # <<>> => inst[i].pipe[1].name = "zrem"
      BY <2>1, PairsShrink
    <2> QED
      BY <2>2 DEF DelHead
  <1> QED
    BY <1>1, <1>3, <1>4, <1>5, <1>6, InstMoves

(* A command of a removal of k has been executed. *)
Removed(k) ==
    /\ now' = now /\ regs' = regs /\ state' = state /\ fired' = fired
    /\ zset' \in [TimerKeys -> Int] /\ hash' \in [TimerKeys -> Nat]
    /\ \A l \in TimerKeys : l # k => zset'[l] = zset[l] /\ hash'[l] = hash[l]
    /\ zset'[k] = -1 /\ hash'[k] \in {0, hash[k]}

(* A command that removes the deadline, or the item of a key without one,   *)
(* keeps keys and timers in order.                                          *)
LEMMA StoreRemoves ==
    ASSUME TimerInv, NEW k \in TimerKeys, Removed(k), Done(k)
    PROVE  /\ Stored' /\ Timer!NotEarly'
           /\ \A r : IsReg(r)' <=> IsReg(r)
           /\ \A r : ItemOK(r) => ItemOK(r)'
           /\ \A l \in TimerKeys : (Expires(l) => Expires(l)') /\ (Done(l) <=> Done(l)')
           /\ \A l \in TimerKeys : zset'[l] = -1 \/ zset'[l] >= 0
  <1>1. now' = now /\ regs' = regs /\ state' = state /\ fired' = fired /\ now \in Nat
    BY DEF Removed, TimerInv, TimerTyped
  <1>2. \A r : IsReg(r)' <=> IsReg(r)
    BY <1>1 DEF IsReg
  <1>3. \A r \in 1..Len(regs) : regs[r].key \in TimerKeys
    BY TimerRegs DEF TimerInv
  <1>4. Stored'
    BY <1>1, <1>3 DEF Removed, TimerInv, Stored, Done, Fired
  <1>5. ASSUME NEW r, ItemOK(r) PROVE ItemOK(r)'
    <2>1. regs[r].key \in TimerKeys
      BY <1>5, TimerRegs DEF TimerInv, ItemOK
    <2> QED
      BY <1>1, <1>2, <1>5, <2>1 DEF ItemOK, Removed
  <1>6. ASSUME NEW l \in TimerKeys, Expires(l) PROVE Expires(l)'
    BY <1>1, <1>6 DEF Expires, Removed
  <1>7. \A l \in TimerKeys : Done(l) <=> Done(l)'
    BY <1>1 DEF Done, Fired
  <1>8. Timer!NotEarly'
    BY <1>1 DEF TimerInv, Timer!NotEarly
  <1>9. \A l \in TimerKeys : zset'[l] = -1 \/ zset'[l] >= 0
    BY DEF Removed, TimerInv, TimerTyped
  <1> QED
    BY <1>2, <1>4, <1>5, <1>6, <1>7, <1>8, <1>9

(* removeProcessed, one command: the timers of its key have fired. *)
LEMMA TimerRemoves ==
    ASSUME TimerInv, NEW i \in Instances, inst[i].pipe # <<>>, inst[i].pc = "handle", inst[i].items = <<>>,
           Timer!Exec(Head(inst[i].pipe)), inst' = [inst EXCEPT ![i] = [inst[i] EXCEPT !.pipe = Tail(inst[i].pipe)]],
           UNCHANGED <<now, regs, state, client, fired>>
    PROVE  TimerInv'
  <1>1. inst[i] \in TimerInst /\ inst[i].pipe \in Seq(Cmds) /\ InstOK(i) /\ Pairs(inst[i].pipe)
    BY TimerInsts DEF TimerInv, InstOK
  <1> PICK y : y = inst[i]
    OBVIOUS
  <1> PICK rest : rest = Tail(y.pipe)
    OBVIOUS
  <1> PICK k : k = y.pipe[1].key
    OBVIOUS
  <1>2. /\ rest \in Seq(Cmds) /\ Pairs(rest) /\ k \in TimerKeys
        /\ \A n \in 1..Len(rest) : n + 1 \in 1..Len(y.pipe) /\ rest[n] = y.pipe[n + 1]
        /\ Head(y.pipe) = y.pipe[1] /\ 1 \in 1..Len(y.pipe) /\ y.pipe[1].name \in {"zrem", "hdel"}
        /\ y.pipe[1].name = "zrem" => rest # <<>> /\ rest[1].name = "hdel" /\ rest[1].key = k
        /\ y.pipe[1].name = "hdel" => rest = <<>> \/ rest[1].name = "zrem"
    BY <1>1, PairsShrink
  <1> DEFINE x == [y EXCEPT !.pipe = rest]
  <1>3. x \in TimerInst /\ x.items = y.items /\ x.pipe = rest /\ x.keys = y.keys /\ x.pc = "handle"
    BY <1>1, <1>2 DEF TimerInst
  <1>4. inst' = [inst EXCEPT ![i] = x]
    OBVIOUS
  <1> HIDE DEF x
  <1>5. /\ inst'[i] = x /\ inst' \in [Instances -> TimerInst] /\ \A j \in Instances : j # i => inst'[j] = inst[j]
        /\ client' = client
    BY <1>3, <1>4 DEF TimerInv, TimerTyped
  <1>6. \A l \in TimerKeys : DelHead(i, l)' <=> l = k /\ y.pipe[1].name = "zrem"
    BY <1>2, <1>3, <1>5 DEF DelHead
  <1>7. Removed(k) /\ (hash'[k] # 0 => DelHead(i, k)')
    <2>1. zset \in [TimerKeys -> Int] /\ hash \in [TimerKeys -> Nat]
      BY DEF TimerInv, TimerTyped
    <2>2. CASE y.pipe[1].name = "zrem"
      <3>1. zset' = [zset EXCEPT ![k] = -1] /\ hash' = hash
        BY <1>2, <2>2 DEF Timer!Exec, Timer!NoScore
      <3> QED
        BY <1>2, <1>6, <2>1, <2>2, <3>1 DEF Removed
    <2>3. CASE y.pipe[1].name = "hdel"
      <3>1. zset' = zset /\ hash' = [hash EXCEPT ![k] = 0]
        BY <1>2, <2>3 DEF Timer!Exec, Timer!NoItem
      <3>2. zset[k] = -1
        BY <1>1, <1>2, <2>3 DEF InstOK, DelHead
      <3> QED
        BY <1>2, <2>1, <3>1, <3>2 DEF Removed
    <2> QED
      BY <1>2, <2>2, <2>3
  <1>8. Done(k) /\ Works(i, k)
    BY <1>1, <1>2 DEF InstOK, Works
  <1>9. /\ Stored' /\ Timer!NotEarly'
        /\ \A r : IsReg(r)' <=> IsReg(r)
        /\ \A r : ItemOK(r) => ItemOK(r)'
        /\ \A l \in TimerKeys : (Expires(l) => Expires(l)') /\ (Done(l) <=> Done(l)')
        /\ \A l \in TimerKeys : zset'[l] = -1 \/ zset'[l] >= 0
    BY <1>2, <1>7, <1>8, StoreRemoves
  <1>10. /\ now' = now /\ regs' = regs /\ state' = state /\ fired' = fired
         /\ \A l \in TimerKeys : l # k => zset'[l] = zset[l] /\ hash'[l] = hash[l]
         /\ zset'[k] = -1 /\ hash'[k] \in {0, hash[k]}
         /\ zset' \in [TimerKeys -> Int] /\ hash' \in [TimerKeys -> Nat]
    BY <1>7 DEF Removed
  <1>11. TimerTyped'
    BY <1>5, <1>9, <1>10 DEF TimerInv, TimerTyped, IsReg
  <1>12. \A j \in Instances, l \in TimerKeys : (Works(j, l)' => Works(j, l)) /\ (Touches(j, l)' => Touches(j, l))
    <2>1. ASSUME NEW l \in TimerKeys, NEW n \in 1..Len(rest), rest[n].key = l PROVE Works(i, l)
      BY <1>2, <2>1 DEF Works
    <2>6. ASSUME NEW l \in TimerKeys, NEW n \in 1..Len(y.items), regs[y.items[n]].key = l PROVE Works(i, l)
      BY <2>6 DEF Works
    <2>2. \A l \in TimerKeys : Works(i, l)' => Works(i, l)
      <3> SUFFICES ASSUME NEW l \in TimerKeys, Works(i, l)' PROVE Works(i, l)
        OBVIOUS
      <3>1. \/ \E n \in 1..Len(x.items) : regs[x.items[n]].key = l
            \/ \E n \in 1..Len(x.pipe) : x.pipe[n].key = l
        <4>1. inst'[i] = x /\ regs' = regs
          BY <1>5, <1>10
        <4> QED
          BY <4>1, Zenon DEF Works
      <3> QED
        BY <1>3, <2>1, <2>6, <3>1
    <2>3. \A l \in TimerKeys : Touches(i, l)' => Touches(i, l)
      BY <1>3, <1>5, <2>2, Zenon DEF Touches
    <2>4. \A j \in Instances, l \in TimerKeys : j # i => (Works(j, l)' => Works(j, l))
      BY <1>5, <1>10, Zenon DEF Works
    <2>5. \A j \in Instances, l \in TimerKeys : j # i => (Touches(j, l)' => Touches(j, l))
      BY <1>5, <1>10, <2>4, Zenon DEF Touches
    <2> QED
      BY <2>2, <2>3, <2>4, <2>5
  <1>13. ASSUME NEW c \in TimerClients PROVE ClientOK(c)'
    <2>1. ClientOK(c)
      BY DEF TimerInv
    <2>2. CASE Registers(c)
      <3>1. RegClient(c) /\ client[c].key # k /\ client[c].key \in TimerKeys
        BY <1>8, <2>1, <2>2 DEF ClientOK, RegClient
      <3>2. RegClient(c)'
        BY <1>5, <1>9, <1>10, <1>12, <3>1 DEF RegClient, Half
      <3> QED
        BY <1>5, <2>2, <3>2 DEF ClientOK, Registers
    <2>3. CASE client[c].op = "cancel"
      <3>1. CancelClient(c) /\ client[c].key \in TimerKeys
        BY <2>1, <2>3 DEF ClientOK, CancelClient
      <3>2. CancelClient(c)'
        BY <1>5, <1>10, <3>1 DEF CancelClient, Deletes
      <3> QED
        BY <1>5, <2>3, <3>2 DEF ClientOK, Registers
    <2> QED
      BY <1>5, <2>1, <2>2, <2>3 DEF ClientOK, Registers
  <1>14. OneCaller' /\ Pending'
    BY <1>5, <1>10 DEF TimerInv, OneCaller, Pending, Registers
  <1>15. ASSUME NEW j \in Instances PROVE InstOK(j)'
    <2>1. InstOK(j) /\ inst'[j].keys = inst[j].keys /\ inst'[j].items = inst[j].items /\ inst'[j].pc = inst[j].pc
      BY <1>3, <1>5 DEF TimerInv
    <2>2. \A n \in 1..Len(inst[j].keys) : inst[j].keys[n] \in TimerKeys
      BY TimerInsts DEF TimerInv
    <2>3. \A n \in 1..Len(inst'[j].items) : ItemOK(inst[j].items[n])'
      <3>1. SUFFICES ASSUME NEW n \in 1..Len(inst[j].items) PROVE ItemOK(inst[j].items[n])'
        BY <2>1
      <3> PICK r : r = inst[j].items[n]
        OBVIOUS
      <3>2. ItemOK(r)'
        BY <1>9, <2>1 DEF InstOK
      <3> QED
        BY <2>1, <3>2 DEF ItemOK, IsReg
    <2>4. \A n \in 1..Len(inst'[j].keys) : Expires(inst[j].keys[n])'
      <3>1. SUFFICES ASSUME NEW n \in 1..Len(inst[j].keys) PROVE Expires(inst[j].keys[n])'
        BY <2>1
      <3> PICK l \in TimerKeys : l = inst[j].keys[n]
        BY <2>2
      <3>2. Expires(l)'
        BY <1>9, <2>1 DEF InstOK
      <3> QED
        BY <2>1, <3>2 DEF Expires
    <2>5. Pairs(inst[j].pipe)'
      <3>1. CASE j = i
        <4>1. Pairs(rest) /\ inst'[j].pipe = rest
          BY <1>2, <1>3, <1>5, <3>1
        <4> QED
          BY <4>1, Zenon DEF Pairs
      <3>2. CASE j # i
        <4>1. Pairs(inst[j].pipe) /\ inst'[j] = inst[j]
          BY <1>5, <2>1, <3>2 DEF InstOK
        <4> QED
          BY <4>1, Zenon DEF Pairs
      <3> QED
        BY <3>1, <3>2
    <2>6. \A n \in 1..Len(inst'[j].pipe) : \E z \in 1..Len(inst[j].pipe) : inst'[j].pipe[n] = inst[j].pipe[z]
      <3>1. CASE j = i
        <4>1. inst'[j].pipe = rest /\ inst[j].pipe = y.pipe
          BY <1>3, <1>5, <3>1
        <4> QED
          BY <1>2, <4>1
      <3>2. CASE j # i
        BY <1>5, <3>2
      <3> QED
        BY <3>1, <3>2
    <2>7. \A n \in 1..Len(inst'[j].pipe) : Done(inst'[j].pipe[n].key)
      BY <2>1, <2>6 DEF InstOK
    <2>8. \A n \in 1..Len(inst'[j].pipe) : Done(inst[j].pipe[n].key)'
      <3> SUFFICES ASSUME NEW n \in 1..Len(inst'[j].pipe) PROVE Done(inst[j].pipe[n].key)'
        OBVIOUS
      <3> PICK l : l = inst'[j].pipe[n].key
        OBVIOUS
      <3>1. Done(l)
        BY <2>7
      <3> QED
        BY <1>10, <3>1 DEF Done, Fired
    <2>9. \A l \in TimerKeys : DelHead(j, l)' => zset'[l] = -1
      <3>1. CASE j = i
        BY <1>6, <1>10, <3>1
      <3>2. CASE j # i
        <4>1. \A l \in TimerKeys : DelHead(j, l)' => DelHead(j, l)
          BY <1>5, <3>2 DEF DelHead
        <4> QED
          BY <1>10, <2>1, <4>1 DEF InstOK
      <3> QED
        BY <3>1, <3>2
    <2>10. (inst'[j].pc = "fetch" => inst'[j].keys # <<>>) /\ (inst'[j].pc = "idle" => inst'[j].pipe = <<>>)
      BY <1>3, <1>5, <2>1 DEF InstOK
    <2> QED
      BY <2>3, <2>4, <2>5, <2>8, <2>9, <2>10, Zenon DEF InstOK
  <1>16. ASSUME NEW l \in TimerKeys PROVE KeyOK(l)'
    <2>1. CASE l = k
      <3>1. KeyOK(k)
        BY <1>2 DEF TimerInv
      <3> QED
        BY <1>7, <1>9, <1>10, <2>1, <3>1 DEF KeyOK
    <2>2. CASE l # k
      <3>1. KeyOK(l) /\ zset'[l] = zset[l] /\ hash'[l] = hash[l]
        BY <1>10, <2>2 DEF TimerInv
      <3>2. \A j \in Instances : DelHead(j, l) => DelHead(j, l)'
        BY <1>5, <2>2 DEF DelHead
      <3> QED
        BY <1>5, <1>9, <1>10, <3>1, <3>2 DEF KeyOK, Registers, Half, Deletes
    <2> QED
      BY <2>1, <2>2
  <1> QED
    BY <1>9, <1>11, <1>13, <1>14, <1>15, <1>16 DEF TimerInv

(* removeProcessed: a command, an error before the next key, or the end. *)
LEMMA TimerRemoveProcessed ==
    ASSUME TimerInv, NEW i \in Instances, Timer!removeProcessed(i) PROVE TimerInv'
  <1>1. CASE /\ inst[i].pipe # <<>> /\ Timer!Exec(Head(inst[i].pipe))
             /\ inst' = [inst EXCEPT ![i] = [inst[i] EXCEPT !.pipe = Tail(inst[i].pipe)]]
    BY <1>1, TimerRemoves DEF Timer!removeProcessed
  <1>2. CASE inst' = [inst EXCEPT ![i] = Timer!IdleInst] /\ (inst[i].pipe = <<>> \/ Len(inst[i].pipe) % 2 = 0)
                 /\ UNCHANGED Timer!store
    BY <1>2, TimerStops DEF Timer!removeProcessed, Kept, Timer!store
  <1> QED
    BY <1>1, <1>2, Zenon DEF Timer!removeProcessed

(* No client and no instance works on k: a new registration of it. *)
LEMMA TimerRegistersNew ==
    ASSUME TimerInv, NEW c \in TimerClients, NEW k \in TimerKeys, NEW at \in 0..MaxTime, MaxTime \in Nat,
           client[c].op = "idle", ~Timer!InUse(k), zset[k] = -1, Timer!NewReg(k, at),
           NEW op \in {"register", "ifNotExists"},
           client' = [client EXCEPT ![c] = [op |-> op, key |-> k, reg |-> Len(regs) + 1,
                                            pipe |-> Timer!AddPipe(k, Len(regs) + 1)]],
           UNCHANGED <<now, zset, hash, inst, fired>>
    PROVE  TimerInv'
  <1> PICK r : r = Len(regs) + 1
    OBVIOUS
  <1>1. /\ regs \in Seq([key : TimerKeys, at : Nat]) /\ Len(regs) \in Nat /\ Len(state) = Len(regs)
        /\ state \in Seq({"pending", "registered", "cancelled"}) /\ r \in Nat /\ r # 0
    BY TimerRegs DEF TimerInv, TimerTyped
  <1>2. /\ regs' \in Seq([key : TimerKeys, at : Nat]) /\ Len(regs') = r /\ regs'[r].key = k /\ regs'[r].at = at
        /\ \A z \in 1..Len(regs) : regs'[z] = regs[z]
    <2>1. [key |-> k, at |-> at] \in [key : TimerKeys, at : Nat]
      OBVIOUS
    <2> PICK e : e = [key |-> k, at |-> at]
      OBVIOUS
    <2>2. e.key = k /\ e.at = at
      OBVIOUS
    <2>3. regs' = Append(regs, e)
      BY DEF Timer!NewReg
    <2> QED
      BY <1>1, <2>1, <2>2, <2>3, AppendProperties
  <1>3. /\ state' \in Seq({"pending", "registered", "cancelled"}) /\ Len(state') = r /\ state'[r] = "pending"
        /\ \A z \in 1..Len(regs) : state'[z] = state[z]
    <2>1. state' = Append(state, "pending")
      BY DEF Timer!NewReg
    <2> QED
      BY <1>1, <2>1, AppendProperties
  <1> DEFINE v == [op |-> op, key |-> k, reg |-> r, pipe |-> Timer!AddPipe(k, r)]
  <1>4. v \in TimerClient /\ v.op = op /\ v.key = k /\ v.reg = r /\ v.pipe = Timer!AddPipe(k, r)
    <2>1. Timer!Cmd("zadd", k, r) \in Cmds /\ Timer!Cmd("hset", k, r) \in Cmds
      BY <1>1 DEF Timer!Cmd, Cmds
    <2>2. Timer!AddPipe(k, r) \in Seq(Cmds)
      BY <2>1 DEF Timer!AddPipe
    <2> QED
      BY <1>1, <2>2 DEF TimerClient
  <1>5. client' = [client EXCEPT ![c] = v]
    OBVIOUS
  <1> HIDE DEF v
  <1>6. /\ client' \in [TimerClients -> TimerClient] /\ client'[c] = v
        /\ \A d \in TimerClients : d # c => client'[d] = client[d]
    BY <1>4, <1>5 DEF TimerInv, TimerTyped
  <1>7. \A z : (IsReg(z) => IsReg(z)' /\ z # r /\ regs'[z] = regs[z] /\ state'[z] = state[z])
            /\ (IsReg(z)' => IsReg(z) \/ z = r)
    <2>1. \A z : IsReg(z) => z \in 1..Len(regs) /\ z # r
      BY <1>1 DEF IsReg
    <2>2. \A z : (IsReg(z) => IsReg(z)') /\ (IsReg(z)' => IsReg(z) \/ z = r)
      BY <1>1, <1>2 DEF IsReg
    <2> QED
      BY <1>2, <1>3, <2>1, <2>2
  <1>8. /\ \A z : z \in 1..Len(regs) <=> IsReg(z)
        /\ \A z : z \in 1..Len(regs') <=> IsReg(z)'
        /\ IsReg(r)' /\ ~IsReg(r)
        /\ \A z : IsReg(z) => regs[z].key \in TimerKeys
    BY <1>1, <1>2, TimerRegs DEF IsReg, TimerInv
  <1>9. TimerTyped'
    BY <1>1, <1>2, <1>3, <1>6, <1>7 DEF TimerInv, TimerTyped
  <1>10. /\ \A d \in TimerClients : client[d].key # k
         /\ \A i \in Instances : ~Touches(i, k) /\ ~Works(i, k)
    <2>1. \A i \in Instances : /\ DOMAIN inst[i].keys = 1..Len(inst[i].keys)
                                  /\ DOMAIN inst[i].items = 1..Len(inst[i].items)
                               /\ DOMAIN inst[i].pipe = 1..Len(inst[i].pipe)
      BY TimerInsts DEF TimerInv
    <2>2. \A i \in Instances : Timer!ToSet(inst[i].keys) = {inst[i].keys[n] : n \in 1..Len(inst[i].keys)}
      BY <2>1 DEF Timer!ToSet
    <2> QED
      BY <2>1, <2>2 DEF Timer!InUse, Touches, Works
  <1>11. \A i \in Instances, l \in TimerKeys : (Works(i, l)' <=> Works(i, l)) /\ (Touches(i, l)' <=> Touches(i, l))
    <2>1. \A i \in Instances : \A n \in 1..Len(inst[i].items) : regs'[inst[i].items[n]] = regs[inst[i].items[n]]
      BY <1>7 DEF TimerInv, InstOK, ItemOK
    <2>2. \A i \in Instances, l \in TimerKeys : Works(i, l)' <=> Works(i, l)
      BY <2>1, Zenon DEF Works
    <2> QED
      BY <2>2 DEF Touches
  <1>12. hash[k] = 0
    <2>1. \A i \in Instances : ~DelHead(i, k)
      <3>1. \A i \in Instances : inst[i].pipe \in Seq(Cmds)
        BY TimerInsts DEF TimerInv
      <3>2. \A i \in Instances : inst[i].pipe # <<>> => 1 \in 1..Len(inst[i].pipe)
        BY <3>1
      <3> QED
        BY <1>10, <3>2 DEF DelHead, Works
    <2> QED
      BY <1>10, <2>1 DEF TimerInv, KeyOK
  <1>13. ASSUME NEW d \in TimerClients PROVE ClientOK(d)'
    <2>1. CASE d = c
      <3>1. RegClient(c)'
        BY <1>2, <1>3, <1>4, <1>6, <1>8, <1>10, <1>11, <1>12 DEF RegClient
      <3>2. Registers(c)' /\ client'[c].op # "idle" /\ client'[c].op # "cancel"
        BY <1>4, <1>6 DEF Registers
      <3> QED
        BY <2>1, <3>1, <3>2 DEF ClientOK
    <2>2. CASE d # c
      <3>1. ClientOK(d) /\ client'[d] = client[d] /\ client[d].key # k
        BY <1>6, <1>10, <2>2 DEF TimerInv
      <3>2. ASSUME Registers(d) PROVE RegClient(d)'
        <4>1. RegClient(d) /\ IsReg(client[d].reg) /\ client[d].key \in TimerKeys
          BY <3>1, <3>2 DEF ClientOK, RegClient
        <4>2. IsReg(client[d].reg)' /\ regs'[client[d].reg] = regs[client[d].reg]
                  /\ state'[client[d].reg] = state[client[d].reg]
          BY <1>7, <3>1, <4>1 DEF IsReg
        <4> QED
          BY <1>11, <3>1, <4>1, <4>2 DEF RegClient, Half
      <3>3. ASSUME client[d].op = "cancel" PROVE CancelClient(d)'
        <4>1. CancelClient(d)
          BY <3>1, <3>3 DEF ClientOK
        <4>2. \A z : IsReg(z)' /\ regs'[z].key = client[d].key => state'[z] = "cancelled"
          BY <1>2, <1>7, <1>8, <3>1, <4>1 DEF CancelClient
        <4> QED
          BY <1>8, <3>1, <4>1, <4>2 DEF CancelClient, Deletes
      <3> QED
        BY <3>1, <3>2, <3>3 DEF ClientOK, Registers
    <2> QED
      BY <2>1, <2>2
  <1>14. OneCaller'
    BY <1>4, <1>6, <1>10 DEF TimerInv, OneCaller
  <1>15. Pending'
    <2> SUFFICES ASSUME NEW z \in 1..Len(regs'), state'[z] = "pending"
                 PROVE  \E d \in TimerClients : Registers(d)' /\ client'[d].reg = z
      BY DEF Pending
    <2>1. CASE z = r
      BY <1>4, <1>6, <2>1 DEF Registers
    <2>2. CASE z # r
      <3>1. IsReg(z) /\ state[z] = "pending" /\ z \in 1..Len(regs)
        BY <1>7, <1>8, <2>2
      <3>2. PICK d \in TimerClients : Registers(d) /\ client[d].reg = z
        BY <3>1 DEF TimerInv, Pending
      <3>3. d # c
        BY <3>2 DEF Registers
      <3> QED
        BY <1>6, <3>2, <3>3 DEF Registers
    <2> QED
      BY <2>1, <2>2
  <1>16. ASSUME NEW j \in Instances PROVE InstOK(j)'
    <2>1. InstOK(j)
      BY DEF TimerInv
    <2>2. ASSUME NEW z, ItemOK(z) PROVE ItemOK(z)'
      BY <1>7, <2>2 DEF ItemOK
    <2>3. \A n \in 1..Len(inst'[j].items) : ItemOK(inst[j].items[n])'
      <3> SUFFICES ASSUME NEW n \in 1..Len(inst[j].items) PROVE ItemOK(inst[j].items[n])'
        OBVIOUS
      <3> PICK z : z = inst[j].items[n]
        OBVIOUS
      <3>1. ItemOK(z)'
        BY <2>1, <2>2 DEF InstOK
      <3> QED
        BY <3>1 DEF ItemOK, IsReg
    <2>4. ASSUME NEW l \in TimerKeys, Expires(l) PROVE Expires(l)'
      BY <1>7, <2>4 DEF Expires, TimerInv, KeyOK
    <2>5. \A n \in 1..Len(inst'[j].keys) : Expires(inst[j].keys[n])'
      <3> SUFFICES ASSUME NEW n \in 1..Len(inst[j].keys) PROVE Expires(inst[j].keys[n])'
        OBVIOUS
      <3> PICK l \in TimerKeys : l = inst[j].keys[n]
        BY TimerInsts DEF TimerInv
      <3>1. Expires(l)'
        BY <2>1, <2>4 DEF InstOK
      <3> QED
        BY <3>1 DEF Expires
    <2>6. \A n \in 1..Len(inst'[j].pipe) : Done(inst[j].pipe[n].key)'
      <3> SUFFICES ASSUME NEW n \in 1..Len(inst[j].pipe) PROVE Done(inst[j].pipe[n].key)'
        OBVIOUS
      <3> PICK l : l = inst[j].pipe[n].key
        OBVIOUS
      <3>1. l # k /\ Done(l)
        BY <1>10, <2>1 DEF Works, InstOK
      <3>2. Done(l)'
        <4> SUFFICES ASSUME NEW z, IsReg(z)', regs'[z].key = l, state'[z] = "registered" PROVE Fired(z)
          BY <1>8 DEF Done, Fired
        <4>1. IsReg(z) /\ regs[z].key = l /\ state[z] = "registered"
          BY <1>2, <1>7, <3>1
        <4> QED
          BY <1>8, <3>1, <4>1 DEF Done
      <3> QED
        BY <3>2 DEF Done
    <2> QED
      BY <2>1, <2>3, <2>5, <2>6, Zenon DEF InstOK, Pairs, DelHead
  <1>17. ASSUME NEW l \in TimerKeys PROVE KeyOK(l)'
    <2>1. KeyOK(l)
      BY DEF TimerInv
    <2>2. hash[l] # 0 => IsReg(hash[l])' /\ regs'[hash[l]] = regs[hash[l]]
      BY <1>7, <2>1 DEF KeyOK
    <2>3. \A d \in TimerClients : /\ Registers(d) => d # c
                                  /\ client[d].op = "cancel" => d # c
      BY DEF Registers
    <2>4. \A d \in TimerClients : d # c => client'[d] = client[d]
      BY <1>6
    <2> QED
      BY <2>1, <2>2, <2>3, <2>4 DEF KeyOK, Registers, Half, Deletes, DelHead, IsReg
  <1>18. Stored'
    <2> SUFFICES ASSUME NEW z, IsReg(z)', state'[z] = "registered", ~Fired(z)'
                 PROVE  zset'[regs'[z].key] = regs'[z].at /\ hash'[regs'[z].key] = z
      BY <1>8 DEF Stored
    <2>1. IsReg(z) /\ regs'[z] = regs[z] /\ state[z] = "registered"
      BY <1>3, <1>7
    <2> QED
      BY <1>8, <2>1 DEF TimerInv, Stored, Fired
  <1>19. Timer!NotEarly'
    BY <1>7 DEF TimerInv, Timer!NotEarly, TimerTyped
  <1> QED
    BY <1>9, <1>13, <1>14, <1>15, <1>16, <1>17, <1>18, <1>19 DEF TimerInv

(* Cancel: from the call on the timers of the key count as cancelled. *)
LEMMA TimerCancels ==
    ASSUME TimerInv, NEW c \in TimerClients, NEW k \in TimerKeys, Timer!Cancel(c, k) PROVE TimerInv'
  <1>1. /\ client[c].op = "idle" /\ (\A d \in TimerClients : client[d].key # k)
        /\ state' = [r \in DOMAIN state |-> IF regs[r].key = k THEN "cancelled" ELSE state[r]]
        /\ now' = now /\ zset' = zset /\ hash' = hash /\ regs' = regs /\ inst' = inst /\ fired' = fired
    BY DEF Timer!Cancel, Timer!MayUse, Timer!InUse, Timer!store
  <1> DEFINE v == [op |-> "cancel", key |-> k, reg |-> 0, pipe |-> Timer!RemovePipe(k)]
  <1>2. v \in TimerClient /\ v.op = "cancel" /\ v.key = k /\ v.reg = 0 /\ v.pipe = Timer!RemovePipe(k)
    <2>1. Timer!Cmd("zrem", k, 0) \in Cmds /\ Timer!Cmd("hdel", k, 0) \in Cmds
      BY DEF Timer!Cmd, Cmds
    <2>2. Timer!RemovePipe(k) \in Seq(Cmds)
      BY <2>1 DEF Timer!RemovePipe
    <2> QED
      BY <2>2 DEF TimerClient
  <1>3. client' = [client EXCEPT ![c] = v]
    BY DEF Timer!Cancel
  <1> HIDE DEF v
  <1>4. /\ client' \in [TimerClients -> TimerClient] /\ client'[c] = v
        /\ \A d \in TimerClients : d # c => client'[d] = client[d]
    BY <1>2, <1>3 DEF TimerInv, TimerTyped
  <1>5. /\ Len(regs) \in Nat /\ DOMAIN state = 1..Len(regs) /\ state \in Seq({"pending", "registered", "cancelled"})
        /\ \A r : IsReg(r) <=> r \in 1..Len(regs)
    BY TimerRegs DEF TimerInv, TimerTyped
  <1>6. /\ \A r \in 1..Len(regs) : state'[r] = IF regs[r].key = k THEN "cancelled" ELSE state[r]
        /\ DOMAIN state' = 1..Len(regs)
    BY <1>1, <1>5
  <1>7. state' \in Seq({"pending", "registered", "cancelled"}) /\ Len(state') = Len(regs)
    <2>1. state' \in [1..Len(regs) -> {"pending", "registered", "cancelled"}]
      <3>1. \A r \in 1..Len(regs) : state[r] \in {"pending", "registered", "cancelled"}
        BY <1>5
      <3> QED
        BY <1>1, <1>5, <3>1
    <2> QED
      BY <1>5, <2>1
  <1>8. TimerTyped'
    BY <1>1, <1>4, <1>7 DEF TimerInv, TimerTyped, IsReg
  <1>9. \A i \in Instances, l \in TimerKeys : (Works(i, l)' <=> Works(i, l)) /\ (Touches(i, l)' <=> Touches(i, l))
    BY <1>1 DEF Works, Touches
  <1>10. ASSUME NEW d \in TimerClients PROVE ClientOK(d)'
    <2>1. CASE d = c
      <3>1. CancelClient(c)'
        BY <1>1, <1>2, <1>4, <1>6 DEF CancelClient
      <3> QED
        BY <1>2, <1>4, <2>1, <3>1 DEF ClientOK, Registers
    <2>2. CASE d # c
      <3>1. ClientOK(d) /\ client'[d] = client[d] /\ client[d].key # k
        BY <1>1, <1>4, <2>2 DEF TimerInv
      <3>2. ASSUME Registers(d) PROVE RegClient(d)'
        <4>1. RegClient(d) /\ client[d].reg \in 1..Len(regs) /\ client[d].key \in TimerKeys
          BY <1>5, <3>1, <3>2 DEF ClientOK, RegClient
        <4>2. state'[client[d].reg] = state[client[d].reg] /\ IsReg(client[d].reg)'
          BY <1>1, <1>6, <3>1, <4>1 DEF RegClient, IsReg
        <4> QED
          BY <1>1, <1>9, <3>1, <4>1, <4>2 DEF RegClient, Half
      <3>3. ASSUME client[d].op = "cancel" PROVE CancelClient(d)'
        BY <1>1, <1>6, <3>1, <3>3 DEF ClientOK, CancelClient, Deletes
      <3> QED
        BY <3>1, <3>2, <3>3 DEF ClientOK, Registers
    <2> QED
      BY <2>1, <2>2
  <1>11. OneCaller'
    BY <1>1, <1>2, <1>4 DEF TimerInv, OneCaller
  <1>12. Pending'
    <2> SUFFICES ASSUME NEW z \in 1..Len(regs), state'[z] = "pending"
                 PROVE  \E d \in TimerClients : Registers(d)' /\ client'[d].reg = z
      BY <1>1 DEF Pending
    <2>1. state[z] = "pending"
      BY <1>6
    <2>2. PICK d \in TimerClients : Registers(d) /\ client[d].reg = z
      BY <2>1 DEF TimerInv, Pending
    <2>3. d # c
      BY <1>1, <2>2 DEF Registers
    <2> QED
      BY <1>4, <2>2, <2>3 DEF Registers
  <1>13. ASSUME NEW j \in Instances PROVE InstOK(j)'
    <2>1. InstOK(j)
      BY DEF TimerInv
    <2>2. \A l : Done(l) => Done(l)'
      BY <1>1, <1>6 DEF Done, Fired
    <2>3. \A n \in 1..Len(inst'[j].pipe) : Done(inst[j].pipe[n].key)'
      <3> SUFFICES ASSUME NEW n \in 1..Len(inst[j].pipe) PROVE Done(inst[j].pipe[n].key)'
        BY <1>1
      <3> PICK l : l = inst[j].pipe[n].key
        OBVIOUS
      <3>1. Done(l)'
        BY <2>1, <2>2 DEF InstOK
      <3> QED
        BY <1>1, <3>1 DEF Done
    <2> QED
      BY <1>1, <2>1, <2>3, Zenon DEF InstOK, Pairs, DelHead, ItemOK, IsReg, Expires
  <1>14. ASSUME NEW l \in TimerKeys PROVE KeyOK(l)'
    <2>1. KeyOK(l)
      BY DEF TimerInv
    <2>2. \A d \in TimerClients : (Registers(d) => d # c) /\ (client[d].op = "cancel" => d # c)
      BY <1>1 DEF Registers
    <2>3. \A d \in TimerClients : d # c => client'[d] = client[d]
      BY <1>4
    <2> QED
      BY <1>1, <2>1, <2>2, <2>3 DEF KeyOK, Registers, Half, Deletes, DelHead, IsReg
  <1>15. Stored' /\ Timer!NotEarly'
    BY <1>1, <1>6 DEF TimerInv, Stored, Fired, Timer!NotEarly
  <1> QED
    BY <1>8, <1>10, <1>11, <1>12, <1>13, <1>14, <1>15 DEF TimerInv

(* The commands of a pipeline of two, one after the other. *)
LEMMA TwoCommands ==
    ASSUME NEW a, NEW b
    PROVE  /\ Head(<<a, b>>) = a /\ Tail(<<a, b>>) = <<b>> /\ Len(<<a, b>>) = 2
           /\ Head(<<b>>) = b /\ Len(<<b>>) = 1
  OBVIOUS

(* A command of Cancel: client c has v left. *)
LEMMA ClientRemoves ==
    ASSUME TimerInv, NEW c \in TimerClients, client[c].op = "cancel", NEW k, k = client[c].key, Removed(k),
           NEW v \in TimerClient, client' = [client EXCEPT ![c] = v], inst' = inst,
           v = Timer!IdleClient \/ (v.op = "cancel" /\ v.key = k /\ v.reg = 0
               /\ v.pipe = <<Timer!Cmd("hdel", k, 0)>>),
           hash'[k] # 0 => v # Timer!IdleClient
    PROVE  TimerInv'
  <1>1. CancelClient(c) /\ k \in TimerKeys /\ \A r \in 1..Len(regs) : regs[r].key = k => state[r] = "cancelled"
    BY DEF TimerInv, ClientOK, CancelClient
  <1>2. Done(k)
    BY <1>1 DEF Done
  <1>3. /\ Stored' /\ Timer!NotEarly'
        /\ \A r : IsReg(r)' <=> IsReg(r)
        /\ \A r : ItemOK(r) => ItemOK(r)'
        /\ \A l \in TimerKeys : (Expires(l) => Expires(l)') /\ (Done(l) <=> Done(l)')
        /\ \A l \in TimerKeys : zset'[l] = -1 \/ zset'[l] >= 0
    BY <1>1, <1>2, StoreRemoves
  <1>4. /\ now' = now /\ regs' = regs /\ state' = state /\ fired' = fired /\ inst' = inst
        /\ \A l \in TimerKeys : l # k => zset'[l] = zset[l] /\ hash'[l] = hash[l]
        /\ zset'[k] = -1 /\ hash'[k] \in {0, hash[k]}
        /\ zset' \in [TimerKeys -> Int] /\ hash' \in [TimerKeys -> Nat]
    BY DEF Removed
  <1>5. /\ client' \in [TimerClients -> TimerClient] /\ client'[c] = v
        /\ \A d \in TimerClients : d # c => client'[d] = client[d]
    BY DEF TimerInv, TimerTyped
  <1>6. TimerTyped'
    BY <1>3, <1>4, <1>5 DEF TimerInv, TimerTyped, IsReg
  <1>7. \A i \in Instances, l \in TimerKeys : (Works(i, l)' <=> Works(i, l)) /\ (Touches(i, l)' <=> Touches(i, l))
    BY <1>4 DEF Works, Touches
  <1>8. Timer!IdleClient.op = "idle"
    BY DEF Timer!IdleClient
  <1>9. \A d \in TimerClients : d # c /\ client[d].op # "idle" => client[d].key # k
    BY DEF TimerInv, OneCaller
  <1>10. ASSUME NEW d \in TimerClients PROVE ClientOK(d)'
    <2>1. CASE d = c
      <3>1. CASE v = Timer!IdleClient
        BY <1>5, <1>8, <2>1, <3>1 DEF ClientOK, Registers
      <3>2. CASE v.op = "cancel" /\ v.key = k /\ v.reg = 0 /\ v.pipe = <<Timer!Cmd("hdel", k, 0)>>
        <4>1. CancelClient(c)'
          BY <1>1, <1>4, <1>5, <3>2 DEF CancelClient, Deletes
        <4> QED
          BY <1>5, <2>1, <3>2, <4>1 DEF ClientOK, Registers
      <3> QED
        BY <3>1, <3>2
    <2>2. CASE d # c
      <3>1. ClientOK(d) /\ client'[d] = client[d]
        BY <1>5, <2>2 DEF TimerInv
      <3>2. ASSUME Registers(d) PROVE RegClient(d)'
        <4>1. RegClient(d) /\ client[d].key \in TimerKeys /\ client[d].key # k
          BY <1>9, <2>2, <3>1, <3>2 DEF ClientOK, RegClient, Registers
        <4> QED
          BY <1>3, <1>4, <1>7, <3>1, <4>1 DEF RegClient, Half
      <3>3. ASSUME client[d].op = "cancel" PROVE CancelClient(d)'
        <4>1. CancelClient(d) /\ client[d].key \in TimerKeys /\ client[d].key # k
          BY <1>9, <2>2, <3>1, <3>3 DEF ClientOK, CancelClient
        <4> QED
          BY <1>4, <3>1, <4>1 DEF CancelClient, Deletes
      <3> QED
        BY <3>1, <3>2, <3>3 DEF ClientOK, Registers
    <2> QED
      BY <2>1, <2>2
  <1>11. OneCaller'
    BY <1>5, <1>8, <1>9 DEF TimerInv, OneCaller
  <1>12. Pending'
    BY <1>4, <1>5 DEF TimerInv, Pending, Registers
  <1>13. ASSUME NEW j \in Instances PROVE InstOK(j)'
    <2>1. InstOK(j) /\ inst'[j] = inst[j]
      BY <1>4 DEF TimerInv
    <2>2. \A n \in 1..Len(inst[j].keys) : inst[j].keys[n] \in TimerKeys
      BY TimerInsts DEF TimerInv
    <2>3. \A n \in 1..Len(inst'[j].items) : ItemOK(inst[j].items[n])'
      <3>1. SUFFICES ASSUME NEW n \in 1..Len(inst[j].items) PROVE ItemOK(inst[j].items[n])'
        BY <2>1
      <3> PICK r : r = inst[j].items[n]
        OBVIOUS
      <3>2. ItemOK(r)'
        BY <1>3, <2>1 DEF InstOK
      <3> QED
        BY <2>1, <3>2 DEF ItemOK, IsReg
    <2>4. \A n \in 1..Len(inst'[j].keys) : Expires(inst[j].keys[n])'
      <3>1. SUFFICES ASSUME NEW n \in 1..Len(inst[j].keys) PROVE Expires(inst[j].keys[n])'
        BY <2>1
      <3> PICK l \in TimerKeys : l = inst[j].keys[n]
        BY <2>2
      <3>2. Expires(l)'
        BY <1>3, <2>1 DEF InstOK
      <3> QED
        BY <2>1, <3>2 DEF Expires
    <2>5. \A n \in 1..Len(inst'[j].pipe) : Done(inst[j].pipe[n].key)'
      <3> SUFFICES ASSUME NEW n \in 1..Len(inst[j].pipe) PROVE Done(inst[j].pipe[n].key)'
        BY <2>1
      <3> PICK l : l = inst[j].pipe[n].key
        OBVIOUS
      <3>1. Done(l)
        BY <2>1 DEF InstOK
      <3> QED
        BY <1>4, <3>1 DEF Done, Fired
    <2>6. \A l \in TimerKeys : DelHead(j, l)' => zset'[l] = -1
      <3>1. \A l \in TimerKeys : DelHead(j, l)' => DelHead(j, l)
        BY <2>1 DEF DelHead
      <3> QED
        BY <1>4, <2>1, <3>1 DEF InstOK
    <2> QED
      BY <2>1, <2>3, <2>4, <2>5, <2>6, Zenon DEF InstOK, Pairs
  <1>14. ASSUME NEW l \in TimerKeys PROVE KeyOK(l)'
    <2>1. CASE l = k
      <3>1. KeyOK(k)
        BY <1>1 DEF TimerInv
      <3>2. hash'[k] # 0 => client'[c].op = "cancel" /\ client'[c].key = k /\ Deletes(c)'
        BY <1>5 DEF Deletes
      <3> QED
        BY <1>3, <1>4, <2>1, <3>1, <3>2 DEF KeyOK
    <2>2. CASE l # k
      <3>1. KeyOK(l) /\ zset'[l] = zset[l] /\ hash'[l] = hash[l]
        BY <1>4, <2>2 DEF TimerInv
      <3>2. \A d \in TimerClients : client[d].key = l => d # c
        BY <2>2
      <3>3. \A d \in TimerClients : d # c => client'[d] = client[d]
        BY <1>5
      <3> QED
        BY <1>3, <1>4, <3>1, <3>2, <3>3 DEF KeyOK, Registers, Half, Deletes, DelHead
    <2> QED
      BY <2>1, <2>2
  <1> QED
    BY <1>3, <1>6, <1>10, <1>11, <1>12, <1>13, <1>14 DEF TimerInv

(* ZADD of a registration: the key has its deadline, and no item yet. *)
LEMMA ClientAdds ==
    ASSUME TimerInv, NEW c \in TimerClients, Registers(c), NEW k, k = client[c].key, NEW r, r = client[c].reg,
           zset[k] = -1, \A i \in Instances : ~Touches(i, k),
           zset' = [zset EXCEPT ![k] = regs[r].at],
           client' = [client EXCEPT ![c] = [client[c] EXCEPT !.pipe = <<Timer!Cmd("hset", k, r)>>]],
           UNCHANGED <<now, hash, regs, state, inst, fired>>
    PROVE  TimerInv'
  <1>1. /\ RegClient(c) /\ k \in TimerKeys /\ IsReg(r) /\ regs[r].key = k /\ state[r] = "pending" /\ hash[k] = 0
        /\ \A i \in Instances : ~Works(i, k)
    BY DEF TimerInv, ClientOK, RegClient
  <1>2. \A d \in TimerClients : d # c /\ client[d].op # "idle" => client[d].key # k
    BY DEF TimerInv, OneCaller, Registers
  <1>3. /\ zset \in [TimerKeys -> Int] /\ hash \in [TimerKeys -> Nat] /\ regs[r].at \in Nat /\ now \in Nat
        /\ \A z : IsReg(z) <=> z \in 1..Len(regs)
        /\ \A z : IsReg(z) => regs[z].key \in TimerKeys
    BY <1>1, TimerRegs DEF TimerInv, TimerTyped
  <1> DEFINE v == [client[c] EXCEPT !.pipe = <<Timer!Cmd("hset", k, r)>>]
  <1>4. v \in TimerClient /\ v.op = client[c].op /\ v.key = k /\ v.reg = r /\ v.pipe = <<Timer!Cmd("hset", k, r)>>
    <2>1. Timer!Cmd("hset", k, r) \in Cmds
      BY <1>1 DEF Timer!Cmd, Cmds, IsReg
    <2>2. <<Timer!Cmd("hset", k, r)>> \in Seq(Cmds) /\ client[c] \in TimerClient
      BY <2>1 DEF TimerInv, TimerTyped
    <2> QED
      BY <2>2 DEF TimerClient
  <1>5. client' = [client EXCEPT ![c] = v]
    OBVIOUS
  <1> HIDE DEF v
  <1>6. /\ client' \in [TimerClients -> TimerClient] /\ client'[c] = v
        /\ \A d \in TimerClients : d # c => client'[d] = client[d]
        /\ zset'[k] = regs[r].at /\ zset'[k] # -1 /\ zset' \in [TimerKeys -> Int]
        /\ \A l \in TimerKeys : l # k => zset'[l] = zset[l]
    <2>1. client \in [TimerClients -> TimerClient]
      BY DEF TimerInv, TimerTyped
    <2>2. /\ client' \in [TimerClients -> TimerClient] /\ client'[c] = v
          /\ \A d \in TimerClients : d # c => client'[d] = client[d]
      BY <1>4, <1>5, <2>1
    <2>3. /\ zset'[k] = regs[r].at /\ zset' \in [TimerKeys -> Int]
          /\ \A l \in TimerKeys : l # k => zset'[l] = zset[l]
      BY <1>1, <1>3
    <2>4. regs[r].at # -1
      BY <1>3
    <2> QED
      BY <2>2, <2>3, <2>4
  <1>7. TimerTyped'
    <2>1. TimerTyped
      BY Zenon DEF TimerInv
    <2>2. \A l \in TimerKeys : zset'[l] = -1 \/ zset'[l] >= 0
      BY <1>3, <1>6, <2>1 DEF TimerTyped
    <2>3. \A f \in fired : IsReg(f.reg)'
      BY <2>1, Zenon DEF TimerTyped, IsReg
    <2> QED
      BY <1>6, <2>1, <2>2, <2>3, Zenon DEF TimerTyped
  <1>8. \A i \in Instances, l \in TimerKeys : (Works(i, l)' <=> Works(i, l)) /\ (Touches(i, l)' <=> Touches(i, l))
    BY DEF Works, Touches
  <1>9. ASSUME NEW d \in TimerClients PROVE ClientOK(d)'
    <2>1. CASE d = c
      <3>1. RegClient(c)'
        BY <1>1, <1>4, <1>6, <1>8 DEF RegClient, Half, IsReg
      <3>2. client'[c].op = client[c].op
        BY <1>4, <1>6
      <3> QED
        BY <2>1, <3>1, <3>2 DEF ClientOK, Registers
    <2>2. CASE d # c
      <3>1. ClientOK(d) /\ client'[d] = client[d]
        BY <1>6, <2>2 DEF TimerInv
      <3>2. ASSUME Registers(d) PROVE RegClient(d)'
        <4>1. RegClient(d) /\ client[d].key \in TimerKeys /\ client[d].key # k
          BY <1>2, <2>2, <3>1, <3>2 DEF ClientOK, RegClient, Registers
        <4> QED
          BY <1>6, <1>8, <3>1, <4>1 DEF RegClient, Half, IsReg
      <3>3. ASSUME client[d].op = "cancel" PROVE CancelClient(d)'
        <4>1. CancelClient(d) /\ client[d].key \in TimerKeys /\ client[d].key # k
          BY <1>2, <2>2, <3>1, <3>3 DEF ClientOK, CancelClient
        <4> QED
          BY <1>6, <3>1, <4>1 DEF CancelClient, Deletes
      <3> QED
        BY <3>1, <3>2, <3>3 DEF ClientOK, Registers
    <2> QED
      BY <2>1, <2>2
  <1>10. OneCaller'
    BY <1>2, <1>4, <1>6 DEF TimerInv, OneCaller
  <1>11. Pending'
    <2>1. \A d \in TimerClients : client'[d].op = client[d].op /\ client'[d].reg = client[d].reg
      BY <1>4, <1>6
    <2> QED
      BY <2>1 DEF TimerInv, Pending, Registers
  <1>12. ASSUME NEW j \in Instances PROVE InstOK(j)'
    <2>1. InstOK(j) /\ inst'[j] = inst[j]
      BY DEF TimerInv
    <2>2. \A n \in 1..Len(inst[j].keys) : inst[j].keys[n] \in TimerKeys /\ inst[j].keys[n] # k
      BY TimerInsts DEF TimerInv, Touches
    <2>3. \A n \in 1..Len(inst'[j].items) : ItemOK(inst[j].items[n])'
      BY <2>1, Zenon DEF InstOK, ItemOK, IsReg
    <2>4. \A n \in 1..Len(inst'[j].keys) : Expires(inst[j].keys[n])'
      BY <1>6, <2>1, <2>2 DEF InstOK, Expires
    <2>5. \A n \in 1..Len(inst'[j].pipe) : Done(inst[j].pipe[n].key)'
      <3> SUFFICES ASSUME NEW n \in 1..Len(inst[j].pipe) PROVE Done(inst[j].pipe[n].key)'
        BY <2>1
      <3> PICK l : l = inst[j].pipe[n].key
        OBVIOUS
      <3>1. Done(l)
        BY <2>1 DEF InstOK
      <3> QED
        BY <3>1 DEF Done, Fired
    <2>6. \A l \in TimerKeys : DelHead(j, l)' => zset'[l] = -1
      <3>1. \A l \in TimerKeys : DelHead(j, l)' => DelHead(j, l)
        BY <2>1 DEF DelHead
      <3>2. ~DelHead(j, k)
        <4>1. inst[j].pipe \in Seq(Cmds)
          BY TimerInsts DEF TimerInv
        <4>2. inst[j].pipe # <<>> => 1 \in 1..Len(inst[j].pipe)
          BY <4>1
        <4> QED
          BY <1>1, <4>2 DEF DelHead, Works
      <3> QED
        BY <1>6, <2>1, <3>1, <3>2 DEF InstOK
    <2> QED
      BY <2>1, <2>3, <2>4, <2>5, <2>6, Zenon DEF InstOK, Pairs
  <1>13. ASSUME NEW l \in TimerKeys PROVE KeyOK(l)'
    <2>1. CASE l = k
      <3>1. Registers(c)' /\ client'[c].key = k /\ Half(c)'
        BY <1>4, <1>6 DEF Registers, Half
      <3> QED
        BY <1>1, <1>6, <2>1, <3>1 DEF KeyOK
    <2>2. CASE l # k
      <3>1. KeyOK(l) /\ zset'[l] = zset[l]
        BY <1>6, <2>2 DEF TimerInv
      <3>2. \A d \in TimerClients : client[d].key = l => d # c
        BY <2>2
      <3>3. \A d \in TimerClients : d # c => client'[d] = client[d]
        BY <1>6
      <3> QED
        BY <3>1, <3>2, <3>3 DEF KeyOK, Registers, Half, Deletes, DelHead, IsReg
    <2> QED
      BY <2>1, <2>2
  <1>14. Stored'
    <2>1. \A z \in 1..Len(regs) : state[z] = "registered" /\ ~Fired(z) =>
             zset[regs[z].key] = regs[z].at /\ hash[regs[z].key] = z /\ regs[z].key # k
      BY <1>1, <1>3 DEF TimerInv, Stored, IsReg
    <2> QED
      BY <1>3, <1>6, <2>1 DEF Stored, Fired
  <1>15. Timer!NotEarly'
    BY DEF TimerInv, Timer!NotEarly
  <1> QED
    BY <1>7, <1>9, <1>10, <1>11, <1>12, <1>13, <1>14, <1>15 DEF TimerInv

(* With its last command a registration counts, and earlier ones of the key *)
(* do not any more.                                                         *)
Counts(k, r) ==
    state' = [x \in DOMAIN state |-> IF x = r THEN "registered"
                                     ELSE IF regs[x].key = k THEN "cancelled" ELSE state[x]]

(* HSET of a registration: it counts, and earlier ones of the key do not. *)
LEMMA ClientSets ==
    ASSUME TimerInv, NEW c \in TimerClients, Registers(c), NEW k, k = client[c].key, NEW r, r = client[c].reg,
           zset[k] = regs[r].at, hash' = [hash EXCEPT ![k] = r],
           client' = [client EXCEPT ![c] = Timer!IdleClient],
           Counts(k, r),
           UNCHANGED <<now, zset, regs, inst, fired>>
    PROVE  TimerInv'
  <1>1. /\ RegClient(c) /\ k \in TimerKeys /\ IsReg(r) /\ regs[r].key = k /\ state[r] = "pending" /\ hash[k] = 0
        /\ \A i \in Instances : ~Works(i, k)
    BY DEF TimerInv, ClientOK, RegClient
  <1>2. \A d \in TimerClients : d # c /\ client[d].op # "idle" => client[d].key # k
    BY DEF TimerInv, OneCaller, Registers
  <1>3. /\ zset \in [TimerKeys -> Int] /\ hash \in [TimerKeys -> Nat] /\ regs[r].at \in Nat /\ now \in Nat
        /\ \A z : IsReg(z) <=> z \in 1..Len(regs)
        /\ \A z : IsReg(z) => regs[z].key \in TimerKeys
    BY <1>1, TimerRegs DEF TimerInv, TimerTyped
  <1> PICK v : v = Timer!IdleClient
    OBVIOUS
  <1>4. v \in TimerClient /\ v.op = "idle"
    BY IdleFits
  <1>6. /\ client' \in [TimerClients -> TimerClient] /\ client'[c] = v
        /\ \A d \in TimerClients : d # c => client'[d] = client[d]
        /\ hash'[k] = r /\ hash' \in [TimerKeys -> Nat]
        /\ \A l \in TimerKeys : l # k => hash'[l] = hash[l]
    BY <1>1, <1>3, <1>4 DEF TimerInv, TimerTyped, IsReg
  <1>5. /\ Len(regs) \in Nat /\ DOMAIN state = 1..Len(regs) /\ state \in Seq({"pending", "registered", "cancelled"})
    BY TimerRegs DEF TimerInv, TimerTyped
  <1>16. /\ \A x \in 1..Len(regs) : state'[x] = IF x = r THEN "registered"
                                            ELSE IF regs[x].key = k THEN "cancelled" ELSE state[x]
         /\ state' \in Seq({"pending", "registered", "cancelled"}) /\ Len(state') = Len(regs)
    <2>1. state' \in [1..Len(regs) -> {"pending", "registered", "cancelled"}]
      <3>1. \A x \in 1..Len(regs) : state[x] \in {"pending", "registered", "cancelled"}
        BY <1>5
      <3> QED
        BY <1>5, <3>1 DEF Counts
    <2> QED
      BY <1>5, <2>1 DEF Counts
  <1>7. TimerTyped'
    BY <1>3, <1>6, <1>16 DEF TimerInv, TimerTyped, IsReg
  <1>8. \A i \in Instances, l \in TimerKeys : (Works(i, l)' <=> Works(i, l)) /\ (Touches(i, l)' <=> Touches(i, l))
    BY DEF Works, Touches
  <1>17. \A x \in 1..Len(regs) : regs[x].key # k => state'[x] = state[x]
    BY <1>1, <1>16
  <1>9. ASSUME NEW d \in TimerClients PROVE ClientOK(d)'
    <2>1. CASE d = c
      BY <1>4, <1>6, <2>1 DEF ClientOK, Registers
    <2>2. CASE d # c
      <3>1. ClientOK(d) /\ client'[d] = client[d]
        BY <1>6, <2>2 DEF TimerInv
      <3>2. ASSUME Registers(d) PROVE RegClient(d)'
        <4>1. RegClient(d) /\ client[d].key \in TimerKeys /\ client[d].key # k /\ client[d].reg \in 1..Len(regs)
          BY <1>2, <1>3, <2>2, <3>1, <3>2 DEF ClientOK, RegClient, Registers
        <4>2. state'[client[d].reg] = state[client[d].reg]
          BY <1>17, <4>1 DEF RegClient
        <4> QED
          BY <1>6, <1>8, <3>1, <4>1, <4>2 DEF RegClient, Half, IsReg
      <3>3. ASSUME client[d].op = "cancel" PROVE CancelClient(d)'
        <4>1. CancelClient(d) /\ client[d].key \in TimerKeys /\ client[d].key # k
          BY <1>2, <2>2, <3>1, <3>3 DEF ClientOK, CancelClient
        <4> QED
          BY <1>6, <1>17, <3>1, <4>1 DEF CancelClient, Deletes
      <3> QED
        BY <3>1, <3>2, <3>3 DEF ClientOK, Registers
    <2> QED
      BY <2>1, <2>2
  <1>10. OneCaller'
    BY <1>4, <1>6 DEF TimerInv, OneCaller
  <1>11. Pending'
    <2> SUFFICES ASSUME NEW z \in 1..Len(regs), state'[z] = "pending"
                 PROVE  \E d \in TimerClients : Registers(d)' /\ client'[d].reg = z
      BY DEF Pending
    <2>1. state[z] = "pending" /\ z # r
      BY <1>16
    <2>2. PICK d \in TimerClients : Registers(d) /\ client[d].reg = z
      BY <2>1 DEF TimerInv, Pending
    <2>3. d # c
      BY <2>1, <2>2
    <2> QED
      BY <1>6, <2>2, <2>3 DEF Registers
  <1>12. ASSUME NEW j \in Instances PROVE InstOK(j)'
    <2>1. InstOK(j) /\ inst'[j] = inst[j]
      BY DEF TimerInv
    <2>2. \A n \in 1..Len(inst[j].keys) : inst[j].keys[n] \in TimerKeys
      BY TimerInsts DEF TimerInv
    <2>3. \A n \in 1..Len(inst'[j].items) : ItemOK(inst[j].items[n])'
      <3> SUFFICES ASSUME NEW n \in 1..Len(inst[j].items) PROVE ItemOK(inst[j].items[n])'
        BY <2>1
      <3> PICK z : z = inst[j].items[n]
        OBVIOUS
      <3>1. ItemOK(z) /\ regs[z].key # k /\ regs[z].key \in TimerKeys
        BY <1>1, <1>3, <2>1 DEF InstOK, Works, ItemOK
      <3> QED
        BY <1>6, <2>1, <3>1 DEF ItemOK, IsReg
    <2>4. \A n \in 1..Len(inst'[j].keys) : Expires(inst[j].keys[n])'
      <3> SUFFICES ASSUME NEW n \in 1..Len(inst[j].keys) PROVE Expires(inst[j].keys[n])'
        BY <2>1
      <3> PICK l \in TimerKeys : l = inst[j].keys[n]
        BY <2>2
      <3>1. Expires(l)
        BY <2>1 DEF InstOK
      <3>2. Expires(l)'
        BY <1>3, <1>6, <3>1 DEF Expires
      <3> QED
        BY <2>1, <3>2 DEF Expires
    <2>5. \A n \in 1..Len(inst'[j].pipe) : Done(inst[j].pipe[n].key)'
      <3> SUFFICES ASSUME NEW n \in 1..Len(inst[j].pipe) PROVE Done(inst[j].pipe[n].key)'
        BY <2>1
      <3> PICK l : l = inst[j].pipe[n].key
        OBVIOUS
      <3>1. Done(l) /\ l # k
        BY <1>1, <2>1 DEF InstOK, Works
      <3> QED
        BY <1>17, <3>1 DEF Done, Fired
    <2>6. \A l \in TimerKeys : DelHead(j, l)' => zset'[l] = -1
      BY <2>1 DEF DelHead, InstOK
    <2> QED
      BY <2>1, <2>3, <2>4, <2>5, <2>6, Zenon DEF InstOK, Pairs
  <1>13. ASSUME NEW l \in TimerKeys PROVE KeyOK(l)'
    <2>1. CASE l = k
      BY <1>1, <1>3, <1>6, <2>1 DEF KeyOK, IsReg
    <2>2. CASE l # k
      <3>1. KeyOK(l) /\ hash'[l] = hash[l]
        BY <1>6, <2>2 DEF TimerInv
      <3>2. \A d \in TimerClients : client[d].key = l => d # c
        BY <2>2
      <3>3. \A d \in TimerClients : d # c => client'[d] = client[d]
        BY <1>6
      <3> QED
        BY <3>1, <3>2, <3>3 DEF KeyOK, Registers, Half, Deletes, DelHead, IsReg
    <2> QED
      BY <2>1, <2>2
  <1>14. Stored'
    <2> SUFFICES ASSUME NEW z \in 1..Len(regs), state'[z] = "registered", ~Fired(z)
                 PROVE  zset[regs[z].key] = regs[z].at /\ hash'[regs[z].key] = z
      BY DEF Stored, Fired
    <2>1. CASE z = r
      BY <1>1, <1>6, <2>1
    <2>2. CASE z # r
      <3>1. regs[z].key # k /\ state[z] = "registered" /\ regs[z].key \in TimerKeys
        BY <1>3, <1>16, <2>2
      <3> QED
        BY <1>6, <3>1 DEF TimerInv, Stored
    <2> QED
      BY <2>1, <2>2
  <1>15. Timer!NotEarly'
    BY DEF TimerInv, Timer!NotEarly
  <1> QED
    BY <1>7, <1>9, <1>10, <1>11, <1>12, <1>13, <1>14, <1>15 DEF TimerInv

(* The next command of a caller's pipeline. *)
LEMMA TimerClientExec ==
    ASSUME TimerInv, NEW c \in TimerClients, Timer!ClientExec(c) PROVE TimerInv'
  <1> PICK k : k = client[c].key
    OBVIOUS
  <1> PICK r : r = client[c].reg
    OBVIOUS
  <1>1. ClientOK(c) /\ client[c] \in TimerClient /\ client[c].pipe # <<>>
    BY DEF TimerInv, TimerTyped, Timer!ClientExec
  <1>2. client[c].op # "idle"
    BY <1>1, IdleFits DEF ClientOK
  <1>3. now' = now /\ regs' = regs /\ inst' = inst /\ fired' = fired
    BY DEF Timer!ClientExec
  <1>4. /\ Timer!Cmd("zadd", k, r).name = "zadd" /\ Timer!Cmd("zadd", k, r).key = k /\ Timer!Cmd("zadd", k, r).reg = r
        /\ Timer!Cmd("hset", k, r).name = "hset" /\ Timer!Cmd("hset", k, r).key = k /\ Timer!Cmd("hset", k, r).reg = r
        /\ Timer!Cmd("zrem", k, 0).name = "zrem" /\ Timer!Cmd("zrem", k, 0).key = k
        /\ Timer!Cmd("hdel", k, 0).name = "hdel" /\ Timer!Cmd("hdel", k, 0).key = k
    BY DEF Timer!Cmd
  <1>5. CASE Registers(c)
    <2>1. RegClient(c)
      BY <1>1, <1>5 DEF ClientOK
    <2>2. CASE client[c].pipe = Timer!AddPipe(k, r) /\ zset[k] = -1 /\ \A i \in Instances : ~Touches(i, k)
      <3>1. /\ Head(client[c].pipe) = Timer!Cmd("zadd", k, r) /\ Len(client[c].pipe) = 2
            /\ Tail(client[c].pipe) = <<Timer!Cmd("hset", k, r)>>
        BY <2>2, TwoCommands DEF Timer!AddPipe
      <3>5. Len(client[c].pipe) # 1
        BY <3>1
      <3>6. Timer!Exec(Head(client[c].pipe)) /\ state' = state
            /\ client' = [client EXCEPT ![c] = [client[c] EXCEPT !.pipe = Tail(client[c].pipe)]]
        BY <3>5 DEF Timer!ClientExec
      <3>2. Timer!Exec(Timer!Cmd("zadd", k, r)) /\ state' = state
            /\ client' = [client EXCEPT ![c] = [client[c] EXCEPT !.pipe = <<Timer!Cmd("hset", k, r)>>]]
        BY <3>1, <3>6, Zenon
      <3>3. zset' = [zset EXCEPT ![k] = regs[r].at] /\ hash' = hash
        BY <1>4, <3>2 DEF Timer!Exec
      <3> QED
        BY <1>3, <1>5, <2>2, <3>2, <3>3, ClientAdds
    <2>3. CASE Half(c) /\ zset[k] = regs[r].at
      <3>1. Head(client[c].pipe) = Timer!Cmd("hset", k, r) /\ Len(client[c].pipe) = 1
        BY <2>3, TwoCommands DEF Half
      <3>2. Timer!Exec(Timer!Cmd("hset", k, r)) /\ client' = [client EXCEPT ![c] = Timer!IdleClient]
            /\ state' = IF r # 0 /\ state[r] = "pending"
                        THEN [x \in DOMAIN state |-> IF x = r THEN "registered"
                                                     ELSE IF regs[x].key = k THEN "cancelled" ELSE state[x]]
                        ELSE state
        BY <1>4, <3>1 DEF Timer!ClientExec
      <3>3. hash' = [hash EXCEPT ![k] = r] /\ zset' = zset
        BY <1>4, <3>2 DEF Timer!Exec
      <3>4. r # 0 /\ state[r] = "pending"
        BY <2>1 DEF RegClient, IsReg
      <3>5. Counts(k, r)
        BY <3>2, <3>4, Zenon DEF Counts
      <3>6. UNCHANGED <<now, zset, regs, inst, fired>> /\ hash' = [hash EXCEPT ![k] = r]
        BY <1>3, <3>3
      <3>7. client' = [client EXCEPT ![c] = Timer!IdleClient] /\ zset[k] = regs[r].at
        BY <2>3, <3>2
      <3> QED
        BY <1>5, <3>5, <3>6, <3>7, ClientSets
    <2> QED
      BY <2>1, <2>2, <2>3 DEF RegClient
  <1>6. CASE client[c].op = "cancel"
    <2>1. CancelClient(c) /\ r = 0 /\ k \in TimerKeys
      BY <1>1, <1>6 DEF ClientOK, CancelClient
    <2>2. zset \in [TimerKeys -> Int] /\ hash \in [TimerKeys -> Nat] /\ state' = state
      BY <2>1 DEF TimerInv, TimerTyped, Timer!ClientExec
    <2>3. CASE client[c].pipe = Timer!RemovePipe(k)
      <3>1. /\ Head(client[c].pipe) = Timer!Cmd("zrem", k, 0) /\ Len(client[c].pipe) = 2
            /\ Tail(client[c].pipe) = <<Timer!Cmd("hdel", k, 0)>>
        BY <2>3, TwoCommands DEF Timer!RemovePipe
      <3> DEFINE v == [client[c] EXCEPT !.pipe = <<Timer!Cmd("hdel", k, 0)>>]
      <3>7. Len(client[c].pipe) # 1
        BY <3>1
      <3>8. Timer!Exec(Head(client[c].pipe))
            /\ client' = [client EXCEPT ![c] = [client[c] EXCEPT !.pipe = Tail(client[c].pipe)]]
        BY <3>7 DEF Timer!ClientExec
      <3>2. Timer!Exec(Timer!Cmd("zrem", k, 0)) /\ client' = [client EXCEPT ![c] = v]
        BY <3>1, <3>8, Zenon
      <3>3. zset' = [zset EXCEPT ![k] = -1] /\ hash' = hash
        BY <1>4, <3>2 DEF Timer!Exec, Timer!NoScore
      <3>4. Removed(k)
        BY <1>3, <2>1, <2>2, <3>3 DEF Removed
      <3>5. v \in TimerClient /\ v.op = "cancel" /\ v.key = k /\ v.reg = 0 /\ v.pipe = <<Timer!Cmd("hdel", k, 0)>>
        <4>1. Timer!Cmd("hdel", k, 0) \in Cmds
          BY <2>1 DEF Timer!Cmd, Cmds
        <4>2. <<Timer!Cmd("hdel", k, 0)>> \in Seq(Cmds)
          BY <4>1
        <4> QED
          BY <1>1, <1>6, <2>1, <4>2 DEF TimerClient
      <3>6. v # Timer!IdleClient
        <4>1. Timer!IdleClient.op = "idle"
          BY DEF Timer!IdleClient
        <4> QED
          BY <3>5, <4>1
      <3> HIDE DEF v
      <3> QED
        BY <1>3, <1>6, <3>2, <3>4, <3>5, <3>6, ClientRemoves
    <2>4. CASE Deletes(c) /\ zset[k] = -1
      <3>1. Head(client[c].pipe) = Timer!Cmd("hdel", k, 0) /\ Len(client[c].pipe) = 1
        BY <2>4, TwoCommands DEF Deletes
      <3> PICK v : v = Timer!IdleClient
        OBVIOUS
      <3>2. Timer!Exec(Timer!Cmd("hdel", k, 0)) /\ client' = [client EXCEPT ![c] = v]
        BY <3>1 DEF Timer!ClientExec
      <3>3. hash' = [hash EXCEPT ![k] = 0] /\ zset' = zset
        BY <1>4, <3>2 DEF Timer!Exec, Timer!NoItem
      <3>4. Removed(k) /\ hash'[k] = 0
        BY <1>3, <2>1, <2>2, <2>4, <3>3 DEF Removed
      <3>5. v \in TimerClient
        BY IdleFits
      <3> QED
        BY <1>3, <1>6, <3>2, <3>4, <3>5, ClientRemoves
    <2> QED
      BY <2>1, <2>3, <2>4 DEF CancelClient
  <1> QED
    BY <1>1, <1>2, <1>5, <1>6 DEF TimerClient, Registers

(* Every step of callers, instances and the clock. *)
LEMMA TimerNext == ASSUME TimerSized, TimerInv, [Timer!Next]_(Timer!vars) PROVE TimerInv'
  <1>1. CASE UNCHANGED Timer!vars
    BY <1>1, TimerTicks DEF Timer!vars, TimerVars
  <1>2. CASE Timer!Tick
    BY <1>2, TimerTicks
  <1>3. ASSUME NEW c \in TimerClients, NEW k \in TimerKeys, NEW at \in 0..MaxTime,
               Timer!RegisterAt(c, k, at) \/ Timer!RegisterAtIfNotExists(c, k, at)
        PROVE  TimerInv'
    <2>1. client[c].op = "idle" /\ ~Timer!InUse(k) /\ zset[k] = -1 /\ Timer!NewReg(k, at)
          /\ UNCHANGED <<now, zset, hash, inst, fired>>
      BY <1>3 DEF Timer!RegisterAt, Timer!RegisterAtIfNotExists, Timer!MayUse, Timer!NoScore, Timer!store
    <2>2. \E op \in {"register", "ifNotExists"} :
            client' = [client EXCEPT ![c] = [op |-> op, key |-> k, reg |-> Len(regs) + 1,
                                             pipe |-> Timer!AddPipe(k, Len(regs) + 1)]]
      BY <1>3, Zenon DEF Timer!RegisterAt, Timer!RegisterAtIfNotExists
    <2> QED
      BY <2>1, <2>2, TimerRegistersNew DEF TimerSized
  <1>4. ASSUME NEW c \in TimerClients, NEW k \in TimerKeys, Timer!Cancel(c, k) PROVE TimerInv'
    BY <1>4, TimerCancels
  <1>5. ASSUME NEW c \in TimerClients, Timer!ClientExec(c) PROVE TimerInv'
    BY <1>5, TimerClientExec
  <1>6. ASSUME NEW i \in Instances, Timer!InstStep(i) PROVE TimerInv'
    BY <1>6, TimerGetsExpired, TimerGetsItem, TimerRunsHandler, TimerRemoveProcessed DEF Timer!InstStep
  <1> QED
    BY <1>1, <1>2, <1>3, <1>4, <1>5, <1>6 DEF Timer!Next

(* What the invariant of the timer says of its properties. *)
LEMMA TimerImplies ==
    ASSUME TimerInv
    PROVE  Timer!NotForgotten /\ Timer!NotEarly /\ Timer!NoResidue
  <1>1. DOMAIN regs = 1..Len(regs)
    BY DEF TimerInv, TimerTyped
  <1>2. Timer!NotForgotten
    BY <1>1 DEF TimerInv, Stored, Fired, Timer!NotForgotten, Timer!Regs, Timer!HasFired
  <1>3. Timer!NoResidue
    <2> SUFFICES ASSUME Timer!Quiet, NEW k \in TimerKeys PROVE zset[k] = -1 <=> hash[k] = 0
      BY DEF Timer!NoResidue, Timer!NoScore, Timer!NoItem
    <2>1. \A c \in TimerClients : client[c].op = "idle"
      BY IdleFits DEF Timer!Quiet
    <2>2. \A i \in Instances : inst[i].pipe = <<>>
      BY DEF Timer!Quiet, Timer!IdleInst
    <2>3. KeyOK(k)
      BY DEF TimerInv
    <2> QED
      BY <2>1, <2>2, <2>3 DEF KeyOK, Registers, DelHead
  <1> QED
    BY <1>2, <1>3 DEF TimerInv

(* redistimer: a timer that is neither cancelled nor replaced stays stored  *)
(* until its handler has succeeded, which is not called before the          *)
(* deadline, and when nothing is in progress a key has a deadline exactly   *)
(* when it has an item: for any keys, callers and instances, any batch size *)
(* and any failures, if a key has one caller at a time and no pipeline      *)
(* breaks off between the two commands of a key.                            *)
THEOREM TimerKeeps ==
    ASSUME TimerSized
    PROVE  Timer!Spec => [](Timer!NotForgotten /\ Timer!NotEarly /\ Timer!NoResidue)
  <1>1. Timer!Init => TimerInv
    BY TimerStarts
  <1>2. TimerInv /\ [Timer!Next]_(Timer!vars) => TimerInv'
    BY TimerNext
  <1>3. TimerInv => Timer!NotForgotten /\ Timer!NotEarly /\ Timer!NoResidue
    BY TimerImplies
  <1> QED
    BY <1>1, <1>2, <1>3, PTL DEF Timer!Spec

(* The instance's batch: what it has listed and what it has fetched. *)
Batch(i) == Len(inst[i].keys) + Len(inst[i].items)

(* Time, failures and registrations stay within the bounds of the model,    *)
(* deadlines within the clock, and what an instance has listed and fetched  *)
(* within a batch.                                                          *)
TimerBounds ==
    /\ MaxRegs \in Nat /\ MaxFailures \in Nat /\ failures \in 0..MaxFailures /\ now <= MaxTime /\ Len(regs) <= MaxRegs
    /\ \A r \in 1..Len(regs) : regs[r].at <= MaxTime
    /\ \A i \in Instances : Batch(i) <= batchSize

(* An empty timer is within its bounds. *)
LEMMA TimerStartsSmall ==
    ASSUME TimerSized, MaxRegs \in Nat, MaxFailures \in Nat, Timer!Init
    PROVE  TimerBounds
  <1>1. \A i \in Instances : inst[i].keys = << >> /\ inst[i].items = << >>
    BY DEF Timer!Init, Timer!IdleInst
  <1>2. regs = << >> /\ Len(regs) = 0 /\ now = 0 /\ failures = 0 /\ 1..0 = {}
    BY DEF Timer!Init
  <1>3. \A i \in Instances : Batch(i) = 0
    <2> SUFFICES ASSUME NEW i \in Instances PROVE Len(inst[i].keys) + Len(inst[i].items) = 0
      BY DEF Batch
    <2>1. Len(inst[i].keys) = 0 /\ Len(inst[i].items) = 0
      BY <1>1
    <2> QED
      BY <2>1
  <1> QED
    BY <1>2, <1>3 DEF TimerBounds, TimerSized

(* Registrations, deadlines and time: all but what an instance does. *)
LEMMA TimerOutside ==
    ASSUME TimerSized, TimerInv, TimerBounds, UNCHANGED inst, UNCHANGED failures,
           \/ UNCHANGED <<now, regs>>
           \/ UNCHANGED regs /\ now < MaxTime /\ now' = now + 1
           \/ UNCHANGED now /\ Len(regs) < MaxRegs
                /\ \E k \in TimerKeys, at \in 0..MaxTime : regs' = Append(regs, [key |-> k, at |-> at])
    PROVE  TimerBounds'
  <1>1. regs \in Seq([key : TimerKeys, at : Nat]) /\ now \in Nat /\ MaxTime \in Nat /\ Len(regs) \in Nat
    BY DEF TimerInv, TimerTyped, TimerSized
  <1>2. now' <= MaxTime
    BY <1>1 DEF TimerBounds
  <1>3. Len(regs') <= MaxRegs /\ \A r \in 1..Len(regs') : regs'[r].at <= MaxTime
    <2>1. CASE UNCHANGED regs
      BY <2>1 DEF TimerBounds
    <2>2. ASSUME NEW k \in TimerKeys, NEW at \in 0..MaxTime, regs' = Append(regs, [key |-> k, at |-> at]),
                 Len(regs) < MaxRegs
          PROVE  Len(regs') <= MaxRegs /\ \A r \in 1..Len(regs') : regs'[r].at <= MaxTime
      <3>1. [key |-> k, at |-> at] \in [key : TimerKeys, at : Nat] /\ at <= MaxTime
        BY <1>1
      <3>2. /\ Len(regs') = Len(regs) + 1 /\ regs'[Len(regs) + 1].at = at
            /\ \A r \in 1..Len(regs) : regs'[r] = regs[r]
        BY <1>1, <2>2, <3>1
      <3> QED
        BY <1>1, <2>2, <3>1, <3>2 DEF TimerBounds
    <2> QED
      BY <2>1, <2>2
  <1>4. \A i \in Instances : Batch(i)' = Batch(i)
    BY DEF Batch
  <1> QED
    BY <1>2, <1>3, <1>4 DEF TimerBounds

(* An instance that goes on has no more than a batch. *)
LEMMA TimerInstSmall ==
    ASSUME TimerSized, TimerInv, TimerBounds, NEW i \in Instances, NEW x, inst' = [inst EXCEPT ![i] = x],
           Len(x.keys) + Len(x.items) <= batchSize, UNCHANGED <<now, regs>>,
           failures' = failures \/ (failures < MaxFailures /\ failures' = failures + 1)
    PROVE  TimerBounds'
  <1>1. inst'[i] = x /\ \A j \in Instances : j # i => inst'[j] = inst[j]
    BY DEF TimerInv, TimerTyped
  <1>2. \A j \in Instances : Batch(j)' <= batchSize
    BY <1>1 DEF Batch, TimerBounds
  <1>3. failures' \in 0..MaxFailures
    BY DEF TimerBounds
  <1> QED
    BY <1>2, <1>3 DEF TimerBounds

(* getExpired asks for at most a batch. *)
LEMMA BatchSmall ==
    ASSUME TimerSized, NEW b \in Timer!Batches(Timer!Expired)
    PROVE  Len(b) \in Nat /\ Len(b) <= batchSize
  <1>1. Timer!Expired \subseteq TimerKeys
    BY DEF Timer!Expired
  <1>2. Cardinality(Timer!Expired) \in Nat
    BY <1>1, FS_Subset, FS_CardinalityType DEF TimerSized
  <1>3. PICK n \in {IF Cardinality(Timer!Expired) < batchSize THEN Cardinality(Timer!Expired) ELSE batchSize} :
           b \in [1..n -> Timer!Expired]
    BY SameTimerCard DEF Timer!Batches
  <1>4. n \in Nat /\ n <= batchSize
    BY <1>2 DEF TimerSized
  <1>5. b \in Seq(Timer!Expired) /\ Len(b) = n
    BY <1>3, <1>4
  <1> QED
    BY <1>4, <1>5

(* The steps of an instance: an item takes the place of its key. *)
LEMMA TimerInstBounds ==
    ASSUME TimerSized, TimerInv, TimerBounds, NEW i \in Instances, Timer!InstStep(i)
    PROVE  TimerBounds'
  <1> PICK y : y = inst[i]
    OBVIOUS
  <1>1. /\ y \in TimerInst /\ y.keys \in Seq(TimerKeys) /\ y.items \in Seq(Nat)
        /\ Len(y.keys) \in Nat /\ Len(y.items) \in Nat /\ Len(y.keys) + Len(y.items) <= batchSize
        /\ batchSize \in Nat
    <2>1. y \in TimerInst /\ y.keys \in Seq(TimerKeys) /\ y.items \in Seq(Nat)
      BY TimerInsts DEF TimerInv
    <2>2. Len(y.keys) + Len(y.items) <= batchSize
      BY Zenon DEF TimerBounds, Batch
    <2> QED
      BY <2>1, <2>2, LenProperties DEF TimerSized
  <1>2. CASE Timer!getExpired(i)
    <2>1. PICK b \in Timer!Batches(Timer!Expired) :
            inst' = [inst EXCEPT ![i] = [Timer!IdleInst EXCEPT !.pc = "fetch", !.keys = b]]
      BY <1>2 DEF Timer!getExpired
    <2> DEFINE x == [Timer!IdleInst EXCEPT !.pc = "fetch", !.keys = b]
    <2>2. x.keys = b /\ x.items = << >> /\ Len(x.items) = 0
      BY DEF Timer!IdleInst
    <2>3. Len(x.keys) + Len(x.items) <= batchSize
      BY <2>2, BatchSmall
    <2>4. UNCHANGED <<now, regs, failures>>
      BY <1>2 DEF Timer!getExpired
    <2> HIDE DEF x
    <2> QED
      BY <2>1, <2>3, <2>4, TimerInstSmall DEF x
  <1>3. CASE Timer!getItem(i)
    <2>1. inst[i].pc = "fetch" /\ y.keys # << >> /\ UNCHANGED <<now, regs, failures>>
      BY <1>3 DEF Timer!getItem, TimerInv, InstOK
    <2> DEFINE s == IF hash[Head(y.keys)] = 0 THEN y.items ELSE Append(y.items, hash[Head(y.keys)])
               x == [y EXCEPT !.keys = Tail(y.keys), !.items = s, !.pc = IF Len(y.keys) = 1 THEN "handle" ELSE "fetch"]
    <2>2. inst' = [inst EXCEPT ![i] = x]
      <3>1. inst' = [inst EXCEPT ![i] =
                       [inst[i] EXCEPT !.keys = Tail(inst[i].keys),
                                       !.items = IF hash[Head(inst[i].keys)] = 0 THEN inst[i].items
                                                 ELSE Append(inst[i].items, hash[Head(inst[i].keys)]),
                                       !.pc = IF Len(inst[i].keys) = 1 THEN "handle" ELSE "fetch"]]
        BY <1>3, Zenon DEF Timer!getItem, Timer!NoItem
      <3> QED
        BY <3>1, Zenon
    <2>3. Len(Tail(y.keys)) = Len(y.keys) - 1
      BY <1>1, <2>1
    <2>4. hash[Head(y.keys)] \in Nat
      <3>1. Head(y.keys) \in TimerKeys
        BY <1>1, <2>1, HeadTailProperties
      <3> QED
        BY <3>1 DEF TimerInv, TimerTyped
    <2>5. Len(s) <= Len(y.items) + 1 /\ Len(s) \in Nat
      BY <1>1, <2>4
    <2>6. x.keys = Tail(y.keys) /\ x.items = s
      <3> HIDE DEF s
      <3> QED
        BY <1>1 DEF TimerInst
    <2>7. Len(x.keys) + Len(x.items) <= batchSize
      <3> HIDE DEF s, x
      <3>1. Len(x.keys) = Len(y.keys) - 1 /\ Len(x.items) = Len(s)
        BY <2>3, <2>6
      <3>2. ASSUME NEW a \in Nat, NEW d \in Nat, NEW e \in Nat, a + d <= batchSize, e <= d + 1
            PROVE  (a - 1) + e <= batchSize
        BY <1>1, <3>2
      <3> QED
        BY <1>1, <2>5, <3>1, <3>2
    <2> HIDE DEF x
    <2> QED
      BY <2>1, <2>2, <2>7, TimerInstSmall
  <1>4. CASE Timer!processExpired(i)
    <2>1. y.items # << >> /\ UNCHANGED <<now, regs>>
      BY <1>4 DEF Timer!processExpired
    <2>2. Len(Tail(y.items)) = Len(y.items) - 1
      BY <1>1, <2>1
    <2> DEFINE more == y.pipe \o Timer!RemovePipe(regs[Head(y.items)].key)
               x == [y EXCEPT !.items = Tail(y.items), !.pipe = more]
               z == [y EXCEPT !.items = Tail(y.items)]
    <2>3. /\ failures' = failures \/ (failures < MaxFailures /\ failures' = failures + 1)
          /\ inst' = [inst EXCEPT ![i] = x] \/ inst' = [inst EXCEPT ![i] = z]
      <3>1. \/ /\ inst' = [inst EXCEPT ![i] = [inst[i] EXCEPT !.items = Tail(inst[i].items),
                                   !.pipe = inst[i].pipe \o Timer!RemovePipe(regs[Head(inst[i].items)].key)]]
               /\ UNCHANGED failures
            \/ /\ failures < MaxFailures /\ failures' = failures + 1
               /\ inst' = [inst EXCEPT ![i] = [inst[i] EXCEPT !.items = Tail(inst[i].items)]]
        BY <1>4, Zenon DEF Timer!processExpired
      <3> QED
        BY <3>1, Zenon
    <2>4. /\ x.keys = y.keys /\ x.items = Tail(y.items)
          /\ z.keys = y.keys /\ z.items = Tail(y.items)
      <3> HIDE DEF more
      <3> QED
        BY <1>1 DEF TimerInst
    <2>5. Len(x.keys) + Len(x.items) <= batchSize /\ Len(z.keys) + Len(z.items) <= batchSize
      <3> HIDE DEF x, z
      <3>1. /\ Len(x.keys) = Len(y.keys) /\ Len(x.items) = Len(y.items) - 1
            /\ Len(z.keys) = Len(y.keys) /\ Len(z.items) = Len(y.items) - 1
        BY <2>2, <2>4
      <3>2. ASSUME NEW a \in Nat, NEW d \in Nat, a + d <= batchSize PROVE a + (d - 1) <= batchSize
        BY <1>1, <3>2
      <3> QED
        BY <1>1, <3>1, <3>2
    <2> HIDE DEF x, z
    <2> QED
      BY <2>1, <2>3, <2>5, TimerInstSmall
  <1>5. CASE Timer!removeProcessed(i)
    <2> DEFINE x == [y EXCEPT !.pipe = Tail(y.pipe)]
    <2>1. /\ UNCHANGED <<now, regs>> /\ (failures' = failures \/ (failures < MaxFailures /\ failures' = failures + 1))
          /\ inst' = [inst EXCEPT ![i] = x] \/ inst' = [inst EXCEPT ![i] = Timer!IdleInst]
      <3>1. \/ inst' = [inst EXCEPT ![i] = [inst[i] EXCEPT !.pipe = Tail(inst[i].pipe)]]
            \/ inst' = [inst EXCEPT ![i] = Timer!IdleInst]
        BY <1>5, Zenon DEF Timer!removeProcessed
      <3>2. /\ UNCHANGED <<now, regs>>
            /\ (failures' = failures \/ (failures < MaxFailures /\ failures' = failures + 1))
        BY <1>5 DEF Timer!removeProcessed
      <3> QED
        BY <3>1, <3>2, Zenon
    <2>2. x.keys = y.keys /\ x.items = y.items
      BY <1>1 DEF TimerInst
    <2>3. Len(Timer!IdleInst.keys) + Len(Timer!IdleInst.items) <= batchSize
      BY <1>1 DEF Timer!IdleInst
    <2>4. Len(x.keys) + Len(x.items) <= batchSize
      <3> HIDE DEF x
      <3> QED
        BY <1>1, <2>2
    <2> HIDE DEF x
    <2> QED
      BY <2>1, <2>3, <2>4, TimerInstSmall
  <1> QED
    BY <1>2, <1>3, <1>4, <1>5 DEF Timer!InstStep

(* Every step keeps the bounds. *)
LEMMA TimerStaysSmall ==
    ASSUME TimerSized, TimerInv, TimerBounds, [Timer!Next]_(Timer!vars)
    PROVE  TimerBounds'
  <1>1. CASE UNCHANGED Timer!vars
    BY <1>1, TimerOutside DEF Timer!vars
  <1>2. CASE Timer!Tick
    BY <1>2, TimerOutside DEF Timer!Tick
  <1>3. ASSUME NEW c \in TimerClients, Timer!ClientExec(c) \/ \E k \in TimerKeys : Timer!Cancel(c, k)
        PROVE  TimerBounds'
    BY <1>3, TimerOutside DEF Timer!ClientExec, Timer!Cancel
  <1>4. ASSUME NEW c \in TimerClients, NEW k \in TimerKeys, NEW at \in 0..MaxTime,
               Timer!RegisterAt(c, k, at) \/ Timer!RegisterAtIfNotExists(c, k, at)
        PROVE  TimerBounds'
    BY <1>4, TimerOutside DEF Timer!RegisterAt, Timer!RegisterAtIfNotExists, Timer!NewReg
  <1>5. ASSUME NEW i \in Instances, Timer!InstStep(i) PROVE TimerBounds'
    BY <1>5, TimerInstBounds
  <1> QED
    BY <1>1, <1>2, <1>3, <1>4, <1>5 DEF Timer!Next

(* The two invariants of the timer imply its types: a deadline is that of a *)
(* registration.                                                            *)
LEMMA TimerImpliesTypes == ASSUME TimerSized, TimerInv, TimerBounds PROVE Timer!TypeOK
  <1>1. /\ DOMAIN regs = 1..Len(regs) /\ DOMAIN state = 1..Len(regs) /\ Len(regs) \in Nat /\ Len(state) = Len(regs)
        /\ \A r \in 1..Len(regs) : regs[r].key \in TimerKeys /\ regs[r].at \in 0..MaxTime
        /\ \A r \in 1..Len(regs) : state[r] \in {"pending", "registered", "cancelled"}
    <2>1. /\ regs \in Seq([key : TimerKeys, at : Nat]) /\ state \in Seq({"pending", "registered", "cancelled"})
          /\ Len(state) = Len(regs) /\ MaxTime \in Nat
      BY DEF TimerInv, TimerTyped, TimerSized
    <2>2. \A r \in 1..Len(regs) : regs[r].at <= MaxTime
      BY DEF TimerBounds
    <2>3. \A r \in 1..Len(regs) : regs[r] \in [key : TimerKeys, at : Nat]
      BY <2>1, ElementOfSeq
    <2> QED
      BY <2>1, <2>2, <2>3
  <1>2. \A r : IsReg(r) => r \in 1..Len(regs)
    BY <1>1 DEF IsReg
  <1>3. ASSUME NEW k \in TimerKeys PROVE zset[k] \in {-1} \cup 0..MaxTime /\ hash[k] \in 0..Len(regs)
    <2>1. KeyOK(k) /\ hash[k] \in Nat /\ zset[k] \in Int
      BY DEF TimerInv, TimerTyped
    <2>2. CASE hash[k] # 0
      <3>1. hash[k] \in 1..Len(regs) /\ (zset[k] # -1 => zset[k] = regs[hash[k]].at)
        BY <1>2, <2>1, <2>2 DEF KeyOK
      <3> QED
        BY <1>1, <3>1
    <2>3. CASE hash[k] = 0 /\ zset[k] # -1
      <3>1. PICK c \in TimerClients : Registers(c) /\ client[c].key = k /\ Half(c)
        BY <2>1, <2>3 DEF KeyOK
      <3>2. RegClient(c)
        BY <3>1 DEF TimerInv, ClientOK
      <3>3. IsReg(client[c].reg) /\ zset[k] = regs[client[c].reg].at
        BY <2>3, <3>1, <3>2 DEF RegClient
      <3>4. client[c].reg \in 1..Len(regs)
        BY <1>2, <3>3
      <3> QED
        BY <1>1, <2>3, <3>3, <3>4
    <2> QED
      BY <1>1, <2>2, <2>3
  <1>4. \A i \in Instances : inst[i].pc \in {"idle", "fetch", "handle"} /\ Len(inst[i].items) <= batchSize
    <2> SUFFICES ASSUME NEW i \in Instances
                 PROVE  inst[i].pc \in {"idle", "fetch", "handle"} /\ Len(inst[i].items) <= batchSize
      OBVIOUS
    <2>1. inst[i] \in TimerInst /\ inst[i].keys \in Seq(TimerKeys) /\ inst[i].items \in Seq(Nat)
      BY TimerInsts DEF TimerInv, TimerTyped
    <2>2. Len(inst[i].keys) \in Nat /\ Len(inst[i].items) \in Nat /\ inst[i].pc \in {"idle", "fetch", "handle"}
      BY <2>1 DEF TimerInst
    <2>3. Len(inst[i].keys) + Len(inst[i].items) <= batchSize
      BY DEF TimerBounds, Batch
    <2>4. ASSUME NEW a \in Nat, NEW d \in Nat, a + d <= batchSize PROVE d <= batchSize
      BY <2>4 DEF TimerSized
    <2> QED
      BY <2>2, <2>3, <2>4
  <1>5. zset \in [TimerKeys -> {-1} \cup 0..MaxTime] /\ hash \in [TimerKeys -> 0..Len(regs)]
    <2>1. zset \in [TimerKeys -> Int] /\ hash \in [TimerKeys -> Nat]
      BY DEF TimerInv, TimerTyped
    <2> QED
      BY <1>3, <2>1
  <1>6. failures \in 0..MaxFailures /\ now \in 0..MaxTime /\ Len(regs) <= MaxRegs
    BY DEF TimerBounds, TimerInv, TimerTyped, TimerSized
  <1> QED
    BY <1>1, <1>4, <1>5, <1>6 DEF Timer!TypeOK, Timer!NoScore, Timer!Regs

(* redistimer: the variables of the timer have their types, and an instance *)
(* never has more than a batch in its hands.                                *)
THEOREM TimerTypeCorrect ==
    ASSUME TimerSized, MaxRegs \in Nat, MaxFailures \in Nat
    PROVE  Timer!Spec => []Timer!TypeOK
  <1>1. Timer!Init => TimerInv /\ TimerBounds
    BY TimerStarts, TimerStartsSmall
  <1>2. TimerInv /\ TimerBounds /\ [Timer!Next]_(Timer!vars) => TimerInv' /\ TimerBounds'
    BY TimerNext, TimerStaysSmall
  <1>3. TimerInv /\ TimerBounds => Timer!TypeOK
    BY TimerImpliesTypes
  <1> QED
    BY <1>1, <1>2, <1>3, PTL DEF Timer!Spec
-----------------------------------------------------------------------------
(* discovery/inprocess: memory_kv.go. *)
Kv == INSTANCE MemoryKV WITH Keys <- KvKeys

(* The number of values is a number. *)
KvSized == MaxSets \in Nat
(* An event has a key and its new value, which is zero for a deletion. *)
KvEvents == KvKeys \X (0..MaxSets)

(* A subscriber: its queue, and what it has taken from it. *)
KvSubs == [pc : {"idle", "wait", "handle"}, on : BOOLEAN, queue : Seq(KvEvents), batch : Seq(KvEvents),
           notify : BOOLEAN, cancelled : BOOLEAN]

(* The variables of the map and of its watchers have their types. *)
KvTyped ==
    /\ KvSized /\ items \in [KvKeys -> [val : 0..MaxSets, lease : 0..MaxSets]] /\ sets \in 0..MaxSets
    /\ lease \in [1..MaxSets -> {"none", "live", "fired", "cancelled", "done"}]
    /\ toCancel \subseteq 1..MaxSets /\ signal \subseteq Watchers /\ closing \subseteq Watchers /\ kept \subseteq KvKeys
    /\ sub \in [Watchers -> KvSubs] /\ view \in [Watchers -> [KvKeys -> 0..MaxSets]]

(* Who is still to be signalled is subscribed, since the mutex is held;     *)
(* what is in a queue has been signalled or will be.                        *)
KvWoken ==
    \A w \in Watchers :
        /\ sub[w].pc = "idle" => sub[w] = Kv!IdleSub
        /\ sub[w].pc = "wait" => sub[w].batch = << >>
        /\ w \in signal => sub[w].on
        /\ sub[w].queue # << >> => sub[w].notify \/ w \in signal

(* A value without a lease has none that could expire. *)
KvKept == \A k \in kept : items[k].val # 0 /\ items[k].lease = 0

(* After the events es the value of k, which was x, is y. *)
Latest(es, x, k, y) ==
    \/ x = y /\ \A i \in DOMAIN es : es[i][1] # k
    \/ \E i \in DOMAIN es : es[i] = <<k, y>> /\ \A j \in DOMAIN es : j > i => es[j][1] # k

(* The events a watcher has still to handle. *)
KvPending(w) == sub[w].batch \o sub[w].queue
(* The value that a watcher is to come to see. *)
Target(w, k) == IF k \in Kv!Prefix[w] THEN items[k].val ELSE 0

(* A subscriber follows the map. *)
KvFollows == \A w \in Watchers : sub[w].on => \A k \in KvKeys : Latest(KvPending(w), view[w][k], k, Target(w, k))

(* The inductive invariant of the map. *)
KvInv == KvTyped /\ KvWoken /\ KvKept /\ KvFollows

(* A subscriber that does nothing. *)
LEMMA KvIdle ==
    /\ Kv!IdleSub \in KvSubs /\ Kv!IdleSub.pc = "idle" /\ Kv!IdleSub.on = FALSE /\ Kv!IdleSub.queue = << >>
    /\ Kv!IdleSub.batch = << >> /\ Kv!IdleSub.notify = FALSE /\ Kv!IdleSub.cancelled = FALSE
  BY DEF Kv!IdleSub, KvSubs

(* A subscriber is what its fields are. *)
LEMMA KvSame ==
    ASSUME NEW r \in KvSubs, NEW s \in KvSubs, r.pc = s.pc, r.on = s.on, r.queue = s.queue, r.batch = s.batch,
           r.notify = s.notify, r.cancelled = s.cancelled
    PROVE  r = s
  BY DEF KvSubs

(* It holds initially. *)
LEMMA KvStarts == ASSUME KvSized, Kv!Init PROVE KvInv
  <1>1. /\ items = [k \in KvKeys |-> [val |-> 0, lease |-> 0]] /\ sets = 0 /\ toCancel = {} /\ signal = {}
        /\ closing = {}
        /\ lease = [v \in 1..MaxSets |-> "none"] /\ kept = {} /\ sub = [w \in Watchers |-> Kv!IdleSub]
        /\ view = [w \in Watchers |-> [k \in KvKeys |-> 0]]
    BY DEF Kv!Init, Kv!NoEntry, Kv!Values, Kv!Empty
  <1>2. sub \in [Watchers -> KvSubs] /\ \A w \in Watchers : sub[w] = Kv!IdleSub
    BY <1>1, KvIdle
  <1>3. KvTyped
    BY <1>1, <1>2 DEF KvTyped, KvSized
  <1> QED
    BY <1>1, <1>2, <1>3, KvIdle DEF KvInv, KvWoken, KvKept, KvFollows

(* A subscriber's fields. *)
LEMMA KvField ==
    ASSUME KvTyped, NEW w \in Watchers
    PROVE  sub[w] \in KvSubs /\ sub[w].queue \in Seq(KvEvents) /\ sub[w].batch \in Seq(KvEvents)
  BY DEF KvTyped, KvSubs

(* A new event of a key is its last one. *)
LEMMA LatestAppend ==
    ASSUME NEW es \in Seq(KvEvents), NEW x, NEW k, NEW y, NEW j, NEW v, k # j => Latest(es, x, k, y)
    PROVE  Latest(Append(es, <<j, v>>), x, k, IF k = j THEN v ELSE y)
  <1> DEFINE fs == Append(es, <<j, v>>)
  <1>1. DOMAIN es = 1..Len(es) /\ DOMAIN fs = 1..(Len(es) + 1) /\ fs[Len(es) + 1] = <<j, v>> /\ Len(es) \in Nat
        /\ \A i \in 1..Len(es) : fs[i] = es[i]
    OBVIOUS
  <1> HIDE DEF fs
  <1>2. CASE k = j
    BY <1>1, <1>2 DEF Latest, fs
  <1>3. CASE k # j
    <2>1. Latest(es, x, k, y) /\ fs[Len(es) + 1][1] # k
      BY <1>1, <1>3
    <2>2. CASE x = y /\ \A i \in DOMAIN es : es[i][1] # k
      <3>1. \A i \in DOMAIN fs : fs[i][1] # k
        BY <1>1, <2>1, <2>2
      <3> QED
        BY <1>3, <2>2, <3>1 DEF Latest, fs
    <2>3. CASE \E i \in DOMAIN es : es[i] = <<k, y>> /\ \A l \in DOMAIN es : l > i => es[l][1] # k
      <3>1. PICK i \in DOMAIN es : es[i] = <<k, y>> /\ \A l \in DOMAIN es : l > i => es[l][1] # k
        BY <2>3
      <3>2. i \in DOMAIN fs /\ fs[i] = <<k, y>> /\ \A l \in DOMAIN fs : l > i => fs[l][1] # k
        BY <1>1, <2>1, <3>1
      <3> QED
        BY <1>3, <3>2 DEF Latest, fs
    <2> QED
      BY <2>1, <2>2, <2>3 DEF Latest
  <1> QED
    BY <1>2, <1>3

(* The first event handled, the others lead to the same value. *)
LEMMA LatestTail ==
    ASSUME NEW es \in Seq(KvEvents), es # << >>, NEW x, NEW k, NEW y, Latest(es, x, k, y)
    PROVE  Latest(Tail(es), IF Head(es)[1] = k THEN Head(es)[2] ELSE x, k, y)
  <1> DEFINE fs == Tail(es)
  <1>1. /\ DOMAIN es = 1..Len(es) /\ DOMAIN fs = 1..(Len(es) - 1) /\ Head(es) = es[1] /\ Len(es) \in Nat \ {0}
        /\ \A i \in 1..(Len(es) - 1) : fs[i] = es[i + 1]
    OBVIOUS
  <1> HIDE DEF fs
  <1>2. CASE x = y /\ \A i \in DOMAIN es : es[i][1] # k
    <2>1. es[1][1] # k /\ \A i \in DOMAIN fs : fs[i][1] # k
      BY <1>1, <1>2
    <2> QED
      BY <1>1, <1>2, <2>1 DEF Latest, fs
  <1>3. CASE \E i \in DOMAIN es : es[i] = <<k, y>> /\ \A l \in DOMAIN es : l > i => es[l][1] # k
    <2>1. PICK i \in DOMAIN es : es[i] = <<k, y>> /\ \A l \in DOMAIN es : l > i => es[l][1] # k
      BY <1>3
    <2>2. CASE i = 1
      <3>1. Head(es)[1] = k /\ Head(es)[2] = y /\ \A l \in DOMAIN fs : fs[l][1] # k
        <4>1. \A l \in DOMAIN fs : l + 1 \in DOMAIN es /\ l + 1 > 1 /\ fs[l] = es[l + 1]
          BY <1>1
        <4> QED
          BY <1>1, <2>1, <2>2, <4>1
      <3> QED
        BY <3>1 DEF Latest, fs
    <2>3. CASE i # 1
      <3>1. i - 1 \in DOMAIN fs /\ fs[i - 1] = <<k, y>>
        BY <1>1, <2>1, <2>3
      <3>2. \A l \in DOMAIN fs : l > i - 1 => fs[l][1] # k
        <4>1. \A l \in DOMAIN fs : l > i - 1 => l + 1 \in DOMAIN es /\ l + 1 > i /\ fs[l] = es[l + 1]
          BY <1>1
        <4> QED
          BY <2>1, <4>1
      <3> QED
        BY <3>1, <3>2 DEF Latest, fs
    <2> QED
      BY <2>2, <2>3
  <1> QED
    BY <1>2, <1>3 DEF Latest

(* What is behind a queue is behind what is pending, and the first of a     *)
(* batch is the first of it.                                                *)
LEMMA KvPendingMoves ==
    ASSUME NEW u \in Seq(KvEvents), NEW v \in Seq(KvEvents)
    PROVE  /\ u \o v \in Seq(KvEvents) /\ << >> \o v = v /\ v \o << >> = v
           /\ \A e \in KvEvents : u \o Append(v, e) = Append(u \o v, e)
           /\ u # << >> => u \o v # << >> /\ Head(u \o v) = Head(u) /\ Tail(u \o v) = Tail(u) \o v
  <1>1. u \o v \in Seq(KvEvents) /\ << >> \o v = v /\ v \o << >> = v
    OBVIOUS
  <1>2. \A e \in KvEvents : u \o Append(v, e) = Append(u \o v, e)
    OBVIOUS
  <1>3. ASSUME u # << >> PROVE u \o v # << >> /\ Head(u \o v) = Head(u)
    BY <1>3
  <1>4. ASSUME u # << >> PROVE Tail(u \o v) = Tail(u) \o v
    BY <1>4
  <1> QED
    BY <1>1, <1>2, <1>3, <1>4

(* publishWatchEventLocked: whoever has the prefix gets the event and will  *)
(* be signalled.                                                            *)
LEMMA KvPublishes ==
    ASSUME KvInv, signal = {}, NEW j \in KvKeys, NEW v \in 0..MaxSets, Kv!publishWatchEventLocked(j, v), view' = view,
           items' \in [KvKeys -> [val : 0..MaxSets, lease : 0..MaxSets]], items'[j].val = v,
           \A k \in KvKeys : k # j => items'[k] = items[k]
    PROVE  sub' \in [Watchers -> KvSubs] /\ signal' \subseteq Watchers /\ KvWoken' /\ KvFollows'
  <1> DEFINE to == {w \in Watchers : sub[w].on /\ j \in Kv!Prefix[w]}
  <1>1. signal' = to /\ <<j, v>> \in KvEvents
    BY DEF Kv!publishWatchEventLocked, KvEvents
  <1>2. sub' = [w \in Watchers |-> IF w \in to THEN [sub[w] EXCEPT !.queue = Append(sub[w].queue, <<j, v>>)]
                                    ELSE sub[w]]
    BY DEF Kv!publishWatchEventLocked
  <1>3. \A w \in Watchers : sub[w] \in KvSubs /\ sub[w].queue \in Seq(KvEvents) /\ sub[w].batch \in Seq(KvEvents)
    BY KvField DEF KvInv
  <1>4. \A w \in to : /\ sub'[w] \in KvSubs /\ sub'[w].queue = Append(sub[w].queue, <<j, v>>)
                      /\ sub'[w].batch = sub[w].batch /\ sub'[w].on = sub[w].on /\ sub'[w].pc = sub[w].pc
                      /\ sub'[w].notify = sub[w].notify
    <2> SUFFICES ASSUME NEW w \in to
                 PROVE  /\ sub'[w] \in KvSubs /\ sub'[w].queue = Append(sub[w].queue, <<j, v>>)
                        /\ sub'[w].batch = sub[w].batch /\ sub'[w].on = sub[w].on /\ sub'[w].pc = sub[w].pc
                        /\ sub'[w].notify = sub[w].notify
      OBVIOUS
    <2>1. sub'[w] = [sub[w] EXCEPT !.queue = Append(sub[w].queue, <<j, v>>)] /\ sub[w] \in KvSubs
      BY <1>2, <1>3
    <2>2. Append(sub[w].queue, <<j, v>>) \in Seq(KvEvents)
      BY <1>1, <1>3
    <2> QED
      BY <2>1, <2>2 DEF KvSubs
  <1>5. \A w \in Watchers : w \notin to => sub'[w] = sub[w]
    BY <1>2
  <1>6. sub' \in [Watchers -> KvSubs]
    BY <1>2, <1>3, <1>4, <1>5
  <1>7. \A w \in to : sub[w].on = TRUE /\ j \in Kv!Prefix[w] /\ sub[w].pc # "idle"
    <2> SUFFICES ASSUME NEW w \in to PROVE sub[w].on = TRUE /\ sub[w].pc # "idle"
      OBVIOUS
    <2>1. sub[w].on = TRUE
      BY <1>3 DEF KvSubs
    <2> QED
      BY <2>1, KvIdle DEF KvInv, KvWoken
  <1> HIDE DEF to
  <1>8. to \subseteq Watchers
    BY DEF to
  <1>9. KvWoken'
    <2> SUFFICES ASSUME NEW w \in Watchers
                 PROVE  /\ sub'[w].pc = "idle" => sub'[w] = Kv!IdleSub
                        /\ sub'[w].pc = "wait" => sub'[w].batch = << >>
                        /\ w \in signal' => sub'[w].on
                        /\ sub'[w].queue # << >> => sub'[w].notify \/ w \in signal'
      BY DEF KvWoken, Kv!IdleSub
    <2>1. CASE w \in to
      BY <1>1, <1>4, <1>7, <2>1 DEF KvInv, KvWoken
    <2>2. CASE w \notin to
      BY <1>1, <1>5, <2>2 DEF KvInv, KvWoken
    <2> QED
      BY <2>1, <2>2
  <1>10. KvFollows'
    <2> SUFFICES ASSUME NEW w \in Watchers, sub'[w].on, NEW k \in KvKeys
                 PROVE  Latest(sub'[w].batch \o sub'[w].queue, view'[w][k], k,
                               IF k \in Kv!Prefix[w] THEN items'[k].val ELSE 0)
      BY Zenon DEF KvFollows, KvPending, Target, Latest, Kv!Prefix
    <2>1. sub[w].on
          /\ Latest(sub[w].batch \o sub[w].queue, view[w][k], k, IF k \in Kv!Prefix[w] THEN items[k].val ELSE 0)
      BY <1>4, <1>5 DEF KvInv, KvFollows, KvPending, Target
    <2>2. CASE w \in to
      <3> DEFINE es == sub[w].batch \o sub[w].queue
                 y == IF k \in Kv!Prefix[w] THEN items[k].val ELSE 0
      <3>1. es \in Seq(KvEvents) /\ sub'[w].batch \o sub'[w].queue = Append(es, <<j, v>>)
        <4>1. sub[w].batch \in Seq(KvEvents) /\ sub[w].queue \in Seq(KvEvents) /\ <<j, v>> \in KvEvents
          BY <1>1, <1>3
        <4>2. sub[w].batch \o Append(sub[w].queue, <<j, v>>) = Append(es, <<j, v>>) /\ es \in Seq(KvEvents)
          BY <4>1, KvPendingMoves
        <4> QED
          BY <1>4, <2>2, <4>2
      <3>2. Latest(es, view[w][k], k, y)
        BY <2>1
      <3>3. (IF k \in Kv!Prefix[w] THEN items'[k].val ELSE 0) = IF k = j THEN v ELSE y
        BY <1>7, <2>2
      <3> HIDE DEF es, y
      <3>4. Latest(Append(es, <<j, v>>), view[w][k], k, IF k = j THEN v ELSE y)
        BY <3>1, <3>2, LatestAppend
      <3> QED
        BY <3>1, <3>3, <3>4
    <2>3. CASE w \notin to
      <3>1. sub'[w] = sub[w] /\ j \notin Kv!Prefix[w]
        BY <1>5, <2>1, <2>3 DEF to
      <3>2. (IF k \in Kv!Prefix[w] THEN items'[k].val ELSE 0) = IF k \in Kv!Prefix[w] THEN items[k].val ELSE 0
        BY <3>1
      <3> QED
        BY <2>1, <3>1, <3>2
    <2> QED
      BY <2>2, <2>3
  <1> QED
    BY <1>1, <1>6, <1>8, <1>9, <1>10

(* Setting or deleting a key, or its lease running out. *)
LEMMA KvWrites ==
    ASSUME KvInv, signal = {}, NEW j \in KvKeys, NEW v \in 0..MaxSets, Kv!publishWatchEventLocked(j, v),
           view' = view, closing' = closing,
           NEW e \in [val : 0..MaxSets, lease : 0..MaxSets], e.val = v, items' = [items EXCEPT ![j] = e],
           sets' \in 0..MaxSets, toCancel' \subseteq 1..MaxSets,
           lease' \in [1..MaxSets -> {"none", "live", "fired", "cancelled", "done"}],
           kept' \subseteq KvKeys, \A k \in kept' : k # j => k \in kept, j \in kept' => e.val # 0 /\ e.lease = 0
    PROVE  KvInv'
  <1>1. items \in [KvKeys -> [val : 0..MaxSets, lease : 0..MaxSets]]
    BY DEF KvInv, KvTyped
  <1>2. items' \in [KvKeys -> [val : 0..MaxSets, lease : 0..MaxSets]] /\ items'[j] = e
        /\ \A k \in KvKeys : k # j => items'[k] = items[k]
    BY <1>1
  <1>3. sub' \in [Watchers -> KvSubs] /\ signal' \subseteq Watchers /\ KvWoken' /\ KvFollows'
    BY <1>2, KvPublishes
  <1>4. KvTyped'
    BY <1>2, <1>3 DEF KvInv, KvTyped
  <1>5. KvKept'
    BY <1>2 DEF KvInv, KvTyped, KvKept
  <1> QED
    BY <1>3, <1>4, <1>5 DEF KvInv

(* The lease of an entry is one, or none. *)
LEMMA KvLeased == ASSUME KvInv, NEW k \in KvKeys PROVE toCancel \cup ({items[k].lease} \ {0}) \subseteq 1..MaxSets
  <1>1. items[k].lease \in 0..MaxSets /\ toCancel \subseteq 1..MaxSets /\ MaxSets \in Nat
    BY DEF KvInv, KvTyped, KvSized
  <1>2. items[k].lease # 0 => items[k].lease \in 1..MaxSets
    BY <1>1
  <1> QED
    BY <1>1, <1>2

(* SetKey and SetWithLease. *)
LEMMA KvSets == ASSUME KvInv, NEW k \in KvKeys, NEW leased \in BOOLEAN, Kv!setValue(k, leased) PROVE KvInv'
  <1> DEFINE v == sets + 1
             e == [val |-> v, lease |-> IF leased THEN v ELSE 0]
  <1>1. /\ signal = {} /\ sets < MaxSets /\ sets' = v /\ items' = [items EXCEPT ![k] = e]
        /\ lease' = [lease EXCEPT ![v] = IF leased THEN "live" ELSE "none"]
        /\ toCancel' = toCancel \cup ({items[k].lease} \ {0}) /\ Kv!publishWatchEventLocked(k, v)
        /\ kept' = (IF leased THEN kept \ {k} ELSE kept \cup {k}) /\ closing' = closing /\ view' = view
    BY DEF Kv!setValue, Kv!Unlocked
  <1>2. v \in 1..MaxSets /\ v \in 0..MaxSets
    BY <1>1 DEF KvInv, KvTyped, KvSized
  <1>3. e \in [val : 0..MaxSets, lease : 0..MaxSets] /\ e.val = v /\ e.lease = IF leased THEN v ELSE 0
    <2>1. (IF leased THEN v ELSE 0) \in 0..MaxSets
      BY <1>2 DEF KvInv, KvTyped, KvSized
    <2> QED
      BY <1>2, <2>1
  <1>4. toCancel' \subseteq 1..MaxSets
    BY <1>1, KvLeased
  <1>5. lease' \in [1..MaxSets -> {"none", "live", "fired", "cancelled", "done"}]
    BY <1>1, <1>2 DEF KvInv, KvTyped
  <1>6. kept' \subseteq KvKeys /\ (\A x \in kept' : x # k => x \in kept) /\ (k \in kept' => e.val # 0 /\ e.lease = 0)
    BY <1>1, <1>2, <1>3 DEF KvInv, KvTyped
  <1> HIDE DEF v, e
  <1> QED
    BY <1>1, <1>2, <1>3, <1>4, <1>5, <1>6, KvWrites

(* An entry goes. *)
LEMMA KvDrops ==
    ASSUME KvInv, signal = {}, NEW k \in KvKeys, items' = [items EXCEPT ![k] = Kv!NoEntry],
           Kv!publishWatchEventLocked(k, 0), view' = view, closing' = closing, sets' = sets,
           toCancel' \subseteq 1..MaxSets, lease' \in [1..MaxSets -> {"none", "live", "fired", "cancelled", "done"}],
           kept' \subseteq kept, k \notin kept'
    PROVE  KvInv'
  <1>1. 0 \in 0..MaxSets /\ sets' \in 0..MaxSets /\ kept' \subseteq KvKeys
    BY DEF KvInv, KvTyped, KvSized
  <1>2. Kv!NoEntry \in [val : 0..MaxSets, lease : 0..MaxSets] /\ Kv!NoEntry.val = 0
    BY <1>1 DEF Kv!NoEntry
  <1> QED
    BY <1>1, <1>2, KvWrites

(* deleteKey. *)
LEMMA KvDeletes == ASSUME KvInv, NEW k \in KvKeys, Kv!deleteKey(k) PROVE KvInv'
  <1>1. /\ signal = {} /\ items' = [items EXCEPT ![k] = Kv!NoEntry]
        /\ toCancel' = toCancel \cup ({items[k].lease} \ {0})
        /\ Kv!publishWatchEventLocked(k, 0) /\ kept' = kept \ {k} /\ UNCHANGED <<sets, lease, closing, view>>
    BY DEF Kv!deleteKey, Kv!Unlocked
  <1>2. toCancel' \subseteq 1..MaxSets /\ lease' \in [1..MaxSets -> {"none", "live", "fired", "cancelled", "done"}]
    BY <1>1, KvLeased DEF KvInv, KvTyped
  <1> QED
    BY <1>1, <1>2, KvDrops

(* Only the leases change. *)
LEMMA KvLeases ==
    ASSUME KvInv, UNCHANGED <<items, sets, signal, closing, sub, view, kept>>, toCancel' \subseteq 1..MaxSets,
           lease' \in [1..MaxSets -> {"none", "live", "fired", "cancelled", "done"}]
    PROVE  KvInv'
  <1>1. KvTyped'
    BY DEF KvInv, KvTyped
  <1>2. KvWoken' /\ KvKept'
    BY DEF KvInv, KvWoken, KvKept, Kv!IdleSub
  <1>3. KvFollows'
    <2> SUFFICES ASSUME NEW w \in Watchers, sub'[w].on, NEW k \in KvKeys
                 PROVE  Latest(sub'[w].batch \o sub'[w].queue, view'[w][k], k,
                               IF k \in Kv!Prefix[w] THEN items'[k].val ELSE 0)
      BY Zenon DEF KvFollows, KvPending, Target, Latest, Kv!Prefix
    <2>1. sub[w].on /\ Latest(KvPending(w), view[w][k], k, Target(w, k))
      BY DEF KvInv, KvFollows
    <2> QED
      BY <2>1 DEF Target, KvPending
  <1> QED
    BY <1>1, <1>2, <1>3 DEF KvInv

(* A lease is cancelled, its timer fires, and the timer deletes the key if  *)
(* the lease is still its own: a key that is kept has none.                 *)
LEMMA KvExpires ==
    ASSUME KvInv, NEW v \in 1..MaxSets, Kv!cancelLease(v) \/ Kv!expireAfter(v) \/ Kv!deleteIfLeaseMatches(v)
    PROVE  KvInv'
  <1>1. lease \in [1..MaxSets -> {"none", "live", "fired", "cancelled", "done"}] /\ toCancel \subseteq 1..MaxSets
    BY DEF KvInv, KvTyped
  <1>2. lease' \in [1..MaxSets -> {"none", "live", "fired", "cancelled", "done"}] /\ toCancel' \subseteq 1..MaxSets
    BY <1>1 DEF Kv!cancelLease, Kv!expireAfter, Kv!deleteIfLeaseMatches
  <1>3. CASE UNCHANGED <<items, sub, signal>>
    BY <1>2, <1>3, KvLeases DEF Kv!cancelLease, Kv!expireAfter, Kv!deleteIfLeaseMatches
  <1>4. CASE /\ signal = {} /\ UNCHANGED <<sets, closing, view, kept>>
             /\ \E k \in Kv!LeasedKey(v) : items' = [items EXCEPT ![k] = Kv!NoEntry] /\ Kv!publishWatchEventLocked(k, 0)
    <2>1. PICK k \in Kv!LeasedKey(v) : items' = [items EXCEPT ![k] = Kv!NoEntry] /\ Kv!publishWatchEventLocked(k, 0)
      BY <1>4
    <2>2. k \in KvKeys /\ items[k].lease # 0
      BY DEF Kv!LeasedKey
    <2>3. k \notin kept
      BY <2>2 DEF KvInv, KvKept
    <2> QED
      BY <1>2, <1>4, <2>1, <2>2, <2>3, KvDrops
  <1> QED
    BY <1>3, <1>4 DEF Kv!cancelLease, Kv!expireAfter, Kv!deleteIfLeaseMatches, Kv!Unlocked

(* close: nobody is subscribed any more. *)
LEMMA KvCloses == ASSUME KvInv, Kv!close PROVE KvInv'
  <1>1. /\ signal = {} /\ items' = [k \in KvKeys |-> Kv!NoEntry] /\ closing' = closing \cup {w \in Watchers : sub[w].on}
        /\ toCancel' = toCancel \cup ({items[k].lease : k \in KvKeys} \ {0})
        /\ sub' = [w \in Watchers |-> [sub[w] EXCEPT !.on = FALSE]] /\ kept' = {}
        /\ UNCHANGED <<sets, lease, signal, view>>
    BY DEF Kv!close, Kv!Unlocked
  <1>2. \A w \in Watchers : /\ sub'[w] \in KvSubs /\ sub'[w].on = FALSE /\ sub'[w].pc = sub[w].pc
                            /\ sub'[w].batch = sub[w].batch
                            /\ sub'[w].queue = sub[w].queue /\ sub'[w].notify = sub[w].notify
                            /\ (sub[w] = Kv!IdleSub => sub'[w] = Kv!IdleSub)
    <2> SUFFICES ASSUME NEW w \in Watchers
                 PROVE  /\ sub'[w] \in KvSubs /\ sub'[w].on = FALSE /\ sub'[w].pc = sub[w].pc
                        /\ sub'[w].batch = sub[w].batch
                        /\ sub'[w].queue = sub[w].queue /\ sub'[w].notify = sub[w].notify
                        /\ (sub[w] = Kv!IdleSub => sub'[w] = Kv!IdleSub)
      OBVIOUS
    <2>1. sub'[w] = [sub[w] EXCEPT !.on = FALSE] /\ sub[w] \in KvSubs
      BY <1>1, KvField DEF KvInv
    <2>2. sub[w] = Kv!IdleSub => sub'[w] = Kv!IdleSub
      BY <2>1, KvIdle, KvSame DEF KvSubs
    <2> QED
      BY <2>1, <2>2 DEF KvSubs
  <1>3. sub' \in [Watchers -> KvSubs]
    BY <1>1, <1>2
  <1>4. items' \in [KvKeys -> [val : 0..MaxSets, lease : 0..MaxSets]] /\ toCancel' \subseteq 1..MaxSets
    BY <1>1 DEF KvInv, KvTyped, KvSized, Kv!NoEntry
  <1>5. KvTyped'
    BY <1>1, <1>3, <1>4 DEF KvInv, KvTyped
  <1>6. KvWoken'
    BY <1>1, <1>2 DEF KvInv, KvWoken, Kv!IdleSub
  <1>7. KvKept' /\ KvFollows'
    BY <1>1, <1>2 DEF KvKept, KvFollows
  <1> QED
    BY <1>5, <1>6, <1>7 DEF KvInv

(* One watcher moves; the map stays as it is. *)
LEMMA KvMoves ==
    ASSUME KvInv, NEW w \in Watchers, UNCHANGED <<items, sets, lease, toCancel, kept>>, closing' \subseteq Watchers,
           NEW r \in KvSubs, sub' = [sub EXCEPT ![w] = r],
           NEW seen \in [KvKeys -> 0..MaxSets], view' = [view EXCEPT ![w] = seen],
           signal' = signal \/ (signal' = signal \ {w} /\ r.notify),
           r.pc = "idle" => r = Kv!IdleSub, r.pc = "wait" => r.batch = << >>, w \in signal' => r.on,
           r.queue # << >> => r.notify \/ w \in signal',
           r.on => \A k \in KvKeys : Latest(r.batch \o r.queue, seen[k], k, Target(w, k))
    PROVE  KvInv'
  <1>1. /\ sub' \in [Watchers -> KvSubs] /\ sub'[w] = r /\ \A x \in Watchers : x # w => sub'[x] = sub[x]
        /\ view' \in [Watchers -> [KvKeys -> 0..MaxSets]] /\ view'[w] = seen
        /\ \A x \in Watchers : x # w => view'[x] = view[x]
    BY DEF KvInv, KvTyped
  <1>2. signal' \subseteq Watchers /\ \A x \in Watchers : x # w => (x \in signal' <=> x \in signal)
    BY DEF KvInv, KvTyped
  <1>3. KvTyped'
    BY <1>1, <1>2 DEF KvInv, KvTyped
  <1>4. KvWoken'
    <2> SUFFICES ASSUME NEW x \in Watchers
                 PROVE  /\ sub'[x].pc = "idle" => sub'[x] = Kv!IdleSub
                        /\ sub'[x].pc = "wait" => sub'[x].batch = << >>
                        /\ x \in signal' => sub'[x].on
                        /\ sub'[x].queue # << >> => sub'[x].notify \/ x \in signal'
      BY DEF KvWoken, Kv!IdleSub
    <2> QED
      BY <1>1, <1>2 DEF KvInv, KvWoken
  <1>5. KvKept'
    BY DEF KvInv, KvKept
  <1>6. KvFollows'
    <2> SUFFICES ASSUME NEW x \in Watchers, sub'[x].on, NEW k \in KvKeys
                 PROVE  Latest(sub'[x].batch \o sub'[x].queue, view'[x][k], k,
                               IF k \in Kv!Prefix[x] THEN items'[k].val ELSE 0)
      BY Zenon DEF KvFollows, KvPending, Target, Latest, Kv!Prefix
    <2>1. CASE x = w
      <3>1. Latest(r.batch \o r.queue, seen[k], k, Target(w, k))
        BY <1>1, <2>1
      <3> QED
        BY <1>1, <2>1, <3>1 DEF Target
    <2>2. CASE x # w
      <3>1. sub[x].on /\ Latest(KvPending(x), view[x][k], k, Target(x, k))
        BY <1>1, <2>2 DEF KvInv, KvFollows
      <3> QED
        BY <1>1, <2>2, <3>1 DEF Target, KvPending
    <2> QED
      BY <2>1, <2>2
  <1> QED
    BY <1>3, <1>4, <1>5, <1>6 DEF KvInv

(* addSubscriber: nothing is pending and the view is the map. *)
LEMMA KvSubscribes == ASSUME KvInv, NEW w \in Watchers, Kv!addSubscriber(w) PROVE KvInv'
  <1> DEFINE r == [Kv!IdleSub EXCEPT !.pc = "wait", !.on = TRUE]
             seen == [k \in KvKeys |-> IF k \in Kv!Prefix[w] THEN items[k].val ELSE 0]
  <1>1. /\ sub' = [sub EXCEPT ![w] = r] /\ view' = [view EXCEPT ![w] = seen] /\ signal' = signal
        /\ UNCHANGED <<items, sets, lease, toCancel, kept, closing>> /\ signal = {}
    BY DEF Kv!addSubscriber, Kv!Unlocked
  <1>2. r \in KvSubs /\ r.pc = "wait" /\ r.queue = << >> /\ r.batch = << >>
    BY KvIdle DEF KvSubs
  <1>3. seen \in [KvKeys -> 0..MaxSets] /\ \A k \in KvKeys : seen[k] = Target(w, k)
    BY DEF KvInv, KvTyped, KvSized, Target
  <1> HIDE DEF r, seen
  <1>4. r.batch \o r.queue = << >>
    BY <1>2
  <1>5. \A k \in KvKeys : Latest(r.batch \o r.queue, seen[k], k, Target(w, k))
    BY <1>3, <1>4 DEF Latest
  <1>6. closing' \subseteq Watchers
    BY <1>1 DEF KvInv, KvTyped
  <1> QED
    BY <1>1, <1>2, <1>3, <1>5, <1>6, KvMoves

(* A watcher moves and neither its view nor what it is to see changes. *)
LEMMA KvStaysTrue ==
    ASSUME KvInv, NEW w \in Watchers, UNCHANGED <<items, sets, lease, toCancel, kept, view>>,
           closing' \subseteq closing,
           NEW r \in KvSubs, sub' = [sub EXCEPT ![w] = r],
           signal' = signal \/ (signal' = signal \ {w} /\ r.notify),
           r.pc = "idle" => r = Kv!IdleSub, r.pc = "wait" => r.batch = << >>, w \in signal' => r.on,
           r.queue # << >> => r.notify \/ w \in signal',
           r.on => sub[w].on /\ r.batch \o r.queue = KvPending(w)
    PROVE  KvInv'
  <1> DEFINE seen == view[w]
  <1>1. seen \in [KvKeys -> 0..MaxSets] /\ view' = [view EXCEPT ![w] = seen] /\ closing' \subseteq Watchers
    BY DEF KvInv, KvTyped
  <1>2. r.on => \A k \in KvKeys : Latest(r.batch \o r.queue, seen[k], k, Target(w, k))
    BY DEF KvInv, KvFollows
  <1> HIDE DEF seen
  <1> QED
    BY <1>1, <1>2, KvMoves

(* The signal, the end of a watcher, and the way back to the select. *)
LEMMA KvSignals ==
    ASSUME KvInv, NEW w \in Watchers,
           Kv!enqueueNotify(w) \/ Kv!take(w) \/ Kv!handled(w) \/ Kv!watchEnds(w) \/ Kv!closeCancel(w)
    PROVE  KvInv'
  <1>1. sub[w] \in KvSubs /\ sub \in [Watchers -> KvSubs] /\ sub[w].queue \in Seq(KvEvents)
        /\ sub[w].batch \in Seq(KvEvents)
    BY KvField DEF KvInv, KvTyped
  <1>2. UNCHANGED <<items, sets, lease, toCancel, kept, view>> /\ closing' \subseteq closing
    BY DEF Kv!enqueueNotify, Kv!take, Kv!handled, Kv!watchEnds, Kv!closeCancel
  <1>3. /\ sub[w].pc = "idle" => sub[w] = Kv!IdleSub
        /\ sub[w].pc = "wait" => sub[w].batch = << >>
        /\ w \in signal => sub[w].on
        /\ sub[w].queue # << >> => sub[w].notify \/ w \in signal
    BY DEF KvInv, KvWoken
  <1>4. CASE Kv!enqueueNotify(w)
    <2> DEFINE r == [sub[w] EXCEPT !.notify = TRUE]
    <2>1. w \in signal /\ signal' = signal \ {w} /\ sub' = [sub EXCEPT ![w].notify = TRUE]
      BY <1>4 DEF Kv!enqueueNotify
    <2>2. /\ r \in KvSubs /\ r.notify = TRUE /\ r.pc = sub[w].pc /\ r.on = sub[w].on /\ r.batch = sub[w].batch
          /\ r.queue = sub[w].queue
      BY <1>1 DEF KvSubs
    <2>3. sub' = [sub EXCEPT ![w] = r]
      BY <1>1, <2>1
    <2>4. r.pc # "idle" /\ r.batch \o r.queue = KvPending(w)
      BY <1>3, <2>1, <2>2, KvIdle DEF KvPending
    <2> HIDE DEF r
    <2> QED
      BY <1>2, <1>3, <2>1, <2>2, <2>3, <2>4, KvStaysTrue
  <1>5. CASE Kv!take(w)
    <2> DEFINE r == [sub[w] EXCEPT !.notify = FALSE, !.pc = "handle", !.batch = sub[w].queue, !.queue = << >>]
    <2>1. /\ sub[w].pc = "wait" /\ signal' = signal
          /\ sub' = [sub EXCEPT ![w].notify = FALSE, ![w].pc = "handle", ![w].batch = sub[w].queue, ![w].queue = << >>]
      BY <1>5 DEF Kv!take
    <2>2. r \in KvSubs /\ r.notify = FALSE /\ r.pc = "handle" /\ r.on = sub[w].on /\ r.batch = sub[w].queue
          /\ r.queue = << >>
      <3>1. sub[w] \in KvSubs /\ << >> \in Seq(KvEvents) /\ sub[w].queue \in Seq(KvEvents)
        BY <1>1
      <3>2. r.notify = FALSE /\ r.pc = "handle" /\ r.on = sub[w].on /\ r.batch = sub[w].queue /\ r.queue = << >>
        BY <3>1 DEF KvSubs
      <3>3. r \in KvSubs
        BY <3>1 DEF KvSubs
      <3> QED
        BY <3>2, <3>3
    <2>3. sub' = [sub EXCEPT ![w] = r]
      BY <1>1, <2>1
    <2>4. r.batch \o r.queue = KvPending(w)
      <3>1. sub[w].queue \o << >> = sub[w].queue /\ << >> \o sub[w].queue = sub[w].queue
        BY <1>1
      <3> QED
        BY <1>3, <2>1, <2>2, <3>1 DEF KvPending
    <2> HIDE DEF r
    <2> QED
      BY <1>2, <1>3, <2>1, <2>2, <2>3, <2>4, KvStaysTrue
  <1>6. CASE Kv!handled(w)
    <2> DEFINE r == [sub[w] EXCEPT !.pc = "wait"]
    <2>1. sub[w].batch = << >> /\ signal' = signal /\ sub' = [sub EXCEPT ![w].pc = "wait"]
      BY <1>6 DEF Kv!handled
    <2>2. /\ r \in KvSubs /\ r.notify = sub[w].notify /\ r.pc = "wait" /\ r.on = sub[w].on /\ r.batch = sub[w].batch
          /\ r.queue = sub[w].queue
      BY <1>1 DEF KvSubs
    <2>3. sub' = [sub EXCEPT ![w] = r]
      BY <1>1, <2>1
    <2>4. /\ r.on => sub[w].on /\ r.batch \o r.queue = KvPending(w)
          /\ w \in signal' => r.on
          /\ r.queue # << >> => r.notify \/ w \in signal'
      BY <1>3, <2>1, <2>2 DEF KvPending
    <2> HIDE DEF r
    <2> QED
      BY <1>2, <2>1, <2>2, <2>3, <2>4, KvStaysTrue
  <1>7. CASE Kv!watchEnds(w)
    <2>1. signal = {} /\ signal' = signal /\ sub' = [sub EXCEPT ![w] = Kv!IdleSub]
      BY <1>7 DEF Kv!watchEnds, Kv!Unlocked
    <2> QED
      BY <1>2, <2>1, KvIdle, KvStaysTrue
  <1>8. CASE Kv!closeCancel(w)
    <2> DEFINE r == [sub[w] EXCEPT !.cancelled = (sub[w].pc # "idle")]
    <2>1. signal' = signal /\ sub' = [sub EXCEPT ![w].cancelled = (sub[w].pc # "idle")]
      BY <1>8 DEF Kv!closeCancel
    <2>2. /\ r \in KvSubs /\ r.notify = sub[w].notify /\ r.pc = sub[w].pc /\ r.on = sub[w].on /\ r.batch = sub[w].batch
          /\ r.queue = sub[w].queue
      BY <1>1 DEF KvSubs
    <2>3. sub' = [sub EXCEPT ![w] = r]
      BY <1>1, <2>1
    <2>4. /\ r.on => sub[w].on /\ r.batch \o r.queue = KvPending(w)
          /\ w \in signal' => r.on
          /\ r.queue # << >> => r.notify \/ w \in signal'
          /\ r.pc = "wait" => r.batch = << >>
      BY <1>3, <2>1, <2>2 DEF KvPending
    <2>5. r.pc = "idle" => r = Kv!IdleSub
      <3>1. r.cancelled = (sub[w].pc # "idle")
        BY <1>1 DEF KvSubs
      <3> QED
        BY <1>3, <2>2, <3>1, KvIdle, KvSame
    <2> HIDE DEF r
    <2> QED
      BY <1>2, <2>1, <2>2, <2>3, <2>4, <2>5, KvStaysTrue
  <1> QED
    BY <1>4, <1>5, <1>6, <1>7, <1>8

(* The handler of an event. *)
LEMMA KvHandles == ASSUME KvInv, NEW w \in Watchers, Kv!handle(w) PROVE KvInv'
  <1> DEFINE e == Head(sub[w].batch)
             r == [sub[w] EXCEPT !.batch = Tail(sub[w].batch)]
             seen == [view[w] EXCEPT ![e[1]] = e[2]]
  <1>1. /\ sub[w].pc = "handle" /\ sub[w].batch # << >> /\ view' = [view EXCEPT ![w][e[1]] = e[2]]
        /\ sub' = [sub EXCEPT ![w].batch = Tail(sub[w].batch)]
        /\ UNCHANGED <<items, sets, lease, toCancel, signal, closing, kept>>
    BY DEF Kv!handle
  <1>2. sub[w] \in KvSubs /\ sub[w].queue \in Seq(KvEvents) /\ sub[w].batch \in Seq(KvEvents)
    BY KvField DEF KvInv
  <1>3. /\ e \in KvEvents /\ Tail(sub[w].batch) \in Seq(KvEvents)
    BY <1>1, <1>2
  <1>4. /\ r \in KvSubs /\ r.notify = sub[w].notify /\ r.pc = "handle" /\ r.on = sub[w].on
        /\ r.batch = Tail(sub[w].batch) /\ r.queue = sub[w].queue
    BY <1>1, <1>2, <1>3 DEF KvSubs
  <1>5. sub' = [sub EXCEPT ![w] = r] /\ closing' \subseteq Watchers
    BY <1>1 DEF KvInv, KvTyped
  <1>6. e[1] \in KvKeys /\ e[2] \in 0..MaxSets
    BY <1>3 DEF KvEvents
  <1>7. /\ seen \in [KvKeys -> 0..MaxSets] /\ view' = [view EXCEPT ![w] = seen]
        /\ \A k \in KvKeys : seen[k] = IF e[1] = k THEN e[2] ELSE view[w][k]
    BY <1>1, <1>6 DEF KvInv, KvTyped
  <1>8. /\ KvPending(w) \in Seq(KvEvents) /\ KvPending(w) # << >> /\ Head(KvPending(w)) = e
        /\ r.batch \o r.queue = Tail(KvPending(w))
    <2> DEFINE u == sub[w].batch
               x == sub[w].queue
    <2>1. u \in Seq(KvEvents) /\ x \in Seq(KvEvents) /\ u # << >> /\ KvPending(w) = u \o x
      BY <1>1, <1>2 DEF KvPending
    <2>2. e = Head(u) /\ r.batch \o r.queue = Tail(u) \o x
      BY <1>4
    <2> HIDE DEF u, x, e, r
    <2>3. u \o x \in Seq(KvEvents) /\ u \o x # << >> /\ Head(u \o x) = Head(u) /\ Tail(u \o x) = Tail(u) \o x
      BY <2>1, KvPendingMoves
    <2> QED
      BY <2>1, <2>2, <2>3
  <1>9. /\ w \in signal => sub[w].on
        /\ sub[w].queue # << >> => sub[w].notify \/ w \in signal
    BY DEF KvInv, KvWoken
  <1> HIDE DEF e, r, seen
  <1>10. ASSUME r.on, NEW k \in KvKeys PROVE Latest(r.batch \o r.queue, seen[k], k, Target(w, k))
    <2>1. Latest(KvPending(w), view[w][k], k, Target(w, k))
      BY <1>4, <1>10 DEF KvInv, KvFollows
    <2>2. Latest(Tail(KvPending(w)), IF Head(KvPending(w))[1] = k THEN Head(KvPending(w))[2] ELSE view[w][k], k,
                 Target(w, k))
      BY <1>8, <2>1, LatestTail
    <2> QED
      BY <1>7, <1>8, <2>2
  <1>11. (w \in signal' => r.on) /\ (r.queue # << >> => r.notify \/ w \in signal')
    BY <1>1, <1>4, <1>9
  <1> QED
    BY <1>1, <1>4, <1>5, <1>7, <1>10, <1>11, KvMoves

(* Every step of the map and of its watchers keeps the invariant. *)
LEMMA KvNext == ASSUME KvInv, Kv!Next PROVE KvInv'
  BY KvSets, KvDeletes, KvExpires, KvCloses, KvSubscribes, KvSignals, KvHandles DEF Kv!Next, Kv!Values

(* Steps of others leave the map as it is. *)
LEMMA KvStutters == ASSUME KvInv, UNCHANGED Kv!vars PROVE KvInv'
  BY KvLeases DEF Kv!vars, KvInv, KvTyped

(* What it says of the watchers and of the values without a lease. *)
LEMMA KvImplies ==
    ASSUME KvInv PROVE Kv!TypeOK /\ Kv!ViewFollows /\ Kv!NoLostWakeup /\ Kv!StaleLeaseHarmless
  <1>1. \A w \in Watchers : sub[w].pc \in {"idle", "wait", "handle"}
    BY KvField DEF KvInv, KvSubs
  <1>2. Kv!TypeOK
    BY <1>1 DEF KvInv, KvTyped, KvWoken, Kv!TypeOK, Kv!Values
  <1>3. Kv!ViewFollows
    BY Zenon DEF KvInv, KvFollows, Latest, KvPending, Target, Kv!ViewFollows, Kv!Leads
  <1>4. Kv!NoLostWakeup
    BY DEF KvInv, KvWoken, Kv!NoLostWakeup
  <1>5. Kv!StaleLeaseHarmless
    BY DEF KvInv, KvKept, Kv!StaleLeaseHarmless, Kv!NoEntry
  <1> QED
    BY <1>2, <1>3, <1>4, <1>5

(* The key-value store: a watcher that handles what it was given ends up with *)
(* the map, one with events queued has been woken, and the timer of an old  *)
(* lease deletes nothing that was set since.                                *)
THEOREM KvWatchersFollow ==
    ASSUME KvSized
    PROVE  Kv!Spec => [](Kv!TypeOK /\ Kv!ViewFollows /\ Kv!NoLostWakeup /\ Kv!StaleLeaseHarmless)
  <1>1. Kv!Init => KvInv
    BY KvStarts
  <1>2. KvInv /\ [Kv!Next]_(Kv!vars) => KvInv'
    BY KvNext, KvStutters
  <1>3. KvInv =>
          Kv!TypeOK /\ Kv!ViewFollows /\ Kv!NoLostWakeup /\ Kv!StaleLeaseHarmless
    BY KvImplies
  <1> QED
    BY <1>1, <1>2, <1>3, PTL DEF Kv!Spec
-----------------------------------------------------------------------------
(* discovery/zookeeper: the cache of connections and its one-shot watch. *)
Zk == INSTANCE ZkClient WITH remote <- zRemote, unreg <- zUnreg

(* The events of the channel. *)
ZkEvents == {"children", "connected", "disconnected", "hasSession"}
(* The processes that take the lock and read from ZooKeeper. *)
ZkLockers == {"GetConns", "watch", "refresh"}

(* An event of the children is under way. *)
UnderWay == \E i \in DOMAIN events : events[i] = "children"
(* The lock is held by one that empties the cache. *)
Flushing == lock \in {"watch", "refresh"}

(* The variables around the cache have their types. *)
ZkTyped ==
    /\ events \in Seq(ZkEvents) /\ armed \in BOOLEAN /\ lostWatch \in BOOLEAN
    /\ zRemote \in [Zk!Procs -> {"idle", "watch", "read", "list"}]

(* Who is at the server inside GetConns or a flush holds the lock, and      *)
(* GetConns goes there only for an empty cache.                             *)
ZkLock ==
    /\ \A p \in ZkLockers : zRemote[p] # "idle" => lock = p
    /\ zUnreg = "sleep" => lock = "unregister"
    /\ zRemote["GetConns"] # "idle" => localConns = {}

(* A cache that is filled, or about to be, has its watch, or the watch has  *)
(* fired.                                                                   *)
ZkWatched ==
    /\ localConns # {} /\ ~lostWatch => armed \/ UnderWay \/ Flushing
    /\ zRemote["GetConns"] = "read" /\ ~lostWatch => armed \/ UnderWay

(* The inductive invariant of the client. *)
ZkInv == ZkTyped /\ ZkLock /\ ZkWatched /\ Zk!NoMissedChange

(* It holds initially. *)
LEMMA ZkStarts == ASSUME Zk!Init PROVE ZkInv
  <1>1. /\ events = << >> /\ armed = FALSE /\ lostWatch = FALSE /\ localConns = {} /\ zUnreg = "idle"
        /\ zRemote = [p \in Zk!Procs |-> "idle"]
    BY DEF Zk!Init
  <1>2. \A p \in ZkLockers : zRemote[p] = "idle"
    BY <1>1 DEF ZkLockers, Zk!Procs
  <1>3. zRemote["GetConns"] = "idle"
    BY <1>2 DEF ZkLockers
  <1>4. ZkTyped
    <2>1. zRemote \in [Zk!Procs -> {"idle", "watch", "read", "list"}]
      BY <1>1
    <2>2. << >> \in Seq(ZkEvents)
      OBVIOUS
    <2> QED
      BY <1>1, <2>1, <2>2 DEF ZkTyped
  <1> QED
    BY <1>1, <1>2, <1>3, <1>4 DEF ZkInv, ZkLock, ZkWatched, Zk!NoMissedChange

(* Events stay in the channel, and the first one is consumed. *)
LEMMA ZkEventStays ==
    ASSUME NEW es \in Seq(ZkEvents)
    PROVE  /\ \A e \in ZkEvents : /\ Append(es, e) \in Seq(ZkEvents)
                                  /\ \A i \in DOMAIN es : i \in DOMAIN Append(es, e) /\ Append(es, e)[i] = es[i]
                                  /\ Len(es) + 1 \in DOMAIN Append(es, e) /\ Append(es, e)[Len(es) + 1] = e
           /\ es # << >> => /\ Tail(es) \in Seq(ZkEvents) /\ Head(es) \in ZkEvents
                            /\ \A i \in DOMAIN es :
                                  es[i] = Head(es) \/ (i - 1 \in DOMAIN Tail(es) /\ Tail(es)[i - 1] = es[i])
  <1>1. ASSUME NEW e \in ZkEvents
        PROVE  /\ Append(es, e) \in Seq(ZkEvents)
               /\ \A i \in DOMAIN es : i \in DOMAIN Append(es, e) /\ Append(es, e)[i] = es[i]
               /\ Len(es) + 1 \in DOMAIN Append(es, e) /\ Append(es, e)[Len(es) + 1] = e
    OBVIOUS
  <1>2. ASSUME es # << >>
        PROVE  /\ Tail(es) \in Seq(ZkEvents) /\ Head(es) \in ZkEvents
               /\ \A i \in DOMAIN es : es[i] = Head(es) \/ (i - 1 \in DOMAIN Tail(es) /\ Tail(es)[i - 1] = es[i])
    BY <1>2
  <1> QED
    BY <1>1, <1>2

(* An event is added. *)
LEMMA ZkAppends ==
    ASSUME events \in Seq(ZkEvents), NEW e \in ZkEvents, events' = Append(events, e)
    PROVE  events' \in Seq(ZkEvents) /\ (UnderWay => UnderWay') /\ (e = "children" => UnderWay')
  BY ZkEventStays DEF UnderWay

(* An event that is not of the children is consumed. *)
LEMMA ZkConsumes ==
    ASSUME events \in Seq(ZkEvents), events # << >>, Head(events) # "children", events' = Tail(events)
    PROVE  events' \in Seq(ZkEvents) /\ (UnderWay => UnderWay')
  <1> DEFINE Moved(i) == events[i] = Head(events) \/ (i - 1 \in DOMAIN Tail(events) /\ Tail(events)[i - 1] = events[i])
  <1>1. /\ Tail(events) \in Seq(ZkEvents)
        /\ \A i \in DOMAIN events : Moved(i)
    <2>1. events # << >> => /\ Tail(events) \in Seq(ZkEvents) /\ Head(events) \in ZkEvents
                            /\ \A i \in DOMAIN events : Moved(i)
      BY ZkEventStays, Zenon
    <2> QED
      BY <2>1
  <1>2. ASSUME UnderWay PROVE UnderWay'
    <2>1. PICK i \in DOMAIN events : events[i] = "children"
      BY <1>2 DEF UnderWay
    <2>2. i - 1 \in DOMAIN events' /\ events'[i - 1] = "children"
      BY <1>1, <2>1
    <2> QED
      BY <2>2 DEF UnderWay
  <1> QED
    BY <1>1, <1>2

(* A change of the children fires the watch that is set. *)
LEMMA ZkFires ==
    ASSUME ZkTyped, Zk!Fire
    PROVE  events' \in Seq(ZkEvents) /\ armed' = FALSE /\ (UnderWay => UnderWay') /\ (armed => UnderWay')
  <1>1. events \in Seq(ZkEvents) /\ "children" \in ZkEvents
    BY DEF ZkTyped, ZkEvents
  <1>2. CASE armed
    BY <1>1, <1>2, ZkAppends DEF Zk!Fire
  <1>3. CASE ~armed
    BY <1>1, <1>3 DEF Zk!Fire, UnderWay
  <1> QED
    BY <1>2, <1>3 DEF Zk!Fire

(* The server changes: the watch fires, or has been lost. *)
LEMMA ZkServer ==
    ASSUME ZkInv, UNCHANGED <<localConns, zRemote>>, lock' = lock \/ (lock = "free" /\ lock' = "unregister"),
           zUnreg' = "sleep" => lock' = "unregister",
           events' \in Seq(ZkEvents), armed' \in BOOLEAN, lostWatch' \in BOOLEAN, UnderWay => UnderWay',
           lostWatch => lostWatch', armed /\ ~armed' => UnderWay' \/ lostWatch',
           Zk!children' # Zk!children => ~armed \/ UnderWay' \/ lostWatch'
    PROVE  ZkInv'
  <1>1. ZkTyped'
    BY DEF ZkInv, ZkTyped
  <1>2. Flushing' <=> Flushing
    BY DEF Flushing
  <1>3. ZkLock'
    BY DEF ZkInv, ZkLock, ZkLockers
  <1>4. ZkWatched'
    BY <1>2 DEF ZkInv, ZkWatched
  <1>5. Zk!NoMissedChange'
    <2> SUFFICES ASSUME localConns # {}, localConns # Zk!children', ~lostWatch' PROVE UnderWay' \/ Flushing'
      BY DEF Zk!NoMissedChange, UnderWay, Flushing
    <2>1. CASE Zk!children' = Zk!children
      <3>1. UnderWay \/ Flushing
        BY <2>1 DEF ZkInv, Zk!NoMissedChange, UnderWay, Flushing
      <3> QED
        BY <1>2, <3>1
    <2>2. CASE Zk!children' # Zk!children
      BY <1>2, <2>2 DEF ZkInv, ZkWatched
    <2> QED
      BY <2>1, <2>2
  <1> QED
    BY <1>1, <1>3, <1>4, <1>5 DEF ZkInv

(* Peers come and go, and this client registers and unregisters. *)
LEMMA ZkChanges ==
    ASSUME ZkInv, (\E a \in Peers : Zk!PeerChanges(a)) \/ Zk!Register \/ Zk!UnRegister
    PROVE  ZkInv'
  <1>1. Zk!Fire /\ UNCHANGED <<localConns, zRemote, lostWatch>>
    BY DEF Zk!PeerChanges, Zk!Register, Zk!UnRegister, Zk!CreateTempNode
  <1>2. /\ lock' = lock \/ (lock = "free" /\ lock' = "unregister")
        /\ zUnreg' = "sleep" => lock' = "unregister"
    BY DEF Zk!PeerChanges, Zk!Register, Zk!UnRegister, ZkInv, ZkLock, Zk!reg
  <1>3. events' \in Seq(ZkEvents) /\ armed' = FALSE /\ (UnderWay => UnderWay') /\ (armed => UnderWay')
        /\ lostWatch \in BOOLEAN
    BY <1>1, ZkFires DEF ZkInv, ZkTyped
  <1> QED
    BY <1>1, <1>2, <1>3, ZkServer

(* The connection is lost and comes back, with the session or without. *)
LEMMA ZkConnects == ASSUME ZkInv, Zk!Disconnect \/ Zk!Reconnects PROVE ZkInv'
  <1>1. events \in Seq(ZkEvents) /\ {"connected", "disconnected", "hasSession"} \subseteq ZkEvents
        /\ armed \in BOOLEAN /\ lostWatch \in BOOLEAN
    BY DEF ZkInv, ZkTyped, ZkEvents
  <1>2. zUnreg = "sleep" => lock = "unregister"
    BY DEF ZkInv, ZkLock
  <1>3. CASE Zk!Disconnect
    <2>1. events' = Append(events, "disconnected")
          /\ UNCHANGED <<others, own, armed, lostWatch, localConns, lock, zRemote, zUnreg>>
      BY <1>3 DEF Zk!Disconnect, Zk!reg
    <2>2. events' \in Seq(ZkEvents) /\ (UnderWay => UnderWay')
      BY <1>1, <2>1, ZkAppends
    <2>3. Zk!children' = Zk!children
      BY <2>1 DEF Zk!children, Zk!Self
    <2> QED
      BY <1>1, <1>2, <2>1, <2>2, <2>3, ZkServer
  <1>4. CASE Zk!Reconnects
    <2>1. PICK expired \in BOOLEAN : Zk!Reconnect(expired)
      BY <1>4 DEF Zk!Reconnects
    <2>2. /\ events' = events \o <<"connected", "hasSession">>
          /\ UNCHANGED <<others, localConns, lock, zRemote, zUnreg>>
          /\ own' = (IF expired THEN {} ELSE own) /\ armed' = (armed /\ ~expired)
          /\ lostWatch' = (lostWatch \/ (expired /\ (armed \/ own # {})))
      BY <2>1 DEF Zk!Reconnect, Zk!reg
    <2>3. events' \in Seq(ZkEvents) /\ (UnderWay => UnderWay')
      <3>1. events' \in Seq(ZkEvents) /\ \A i \in DOMAIN events : i \in DOMAIN events' /\ events'[i] = events[i]
        BY <1>1, <2>2
      <3> QED
        BY <3>1 DEF UnderWay
    <2>4. Zk!children' # Zk!children => lostWatch'
      BY <2>2 DEF Zk!children, Zk!Self
    <2>5. /\ armed' \in BOOLEAN /\ lostWatch' \in BOOLEAN /\ (lostWatch => lostWatch')
          /\ (armed /\ ~armed' => lostWatch')
      BY <1>1, <2>2
    <2> QED
      BY <1>2, <2>2, <2>3, <2>4, <2>5, ZkServer
  <1> QED
    BY <1>3, <1>4

(* The watch loop consumes an event of the session. *)
LEMMA ZkSession == ASSUME ZkInv, Zk!watchState \/ Zk!watchHasSession PROVE ZkInv'
  <1>1. UNCHANGED <<others, lostWatch, localConns, lock, zRemote, zUnreg>> /\ events # << >>
        /\ Head(events) # "children"
    BY DEF Zk!watchState, Zk!watchHasSession, Zk!Idle, Zk!server
  <1>2. events \in Seq(ZkEvents) /\ "children" \in ZkEvents /\ armed \in BOOLEAN /\ lostWatch \in BOOLEAN
    BY DEF ZkInv, ZkTyped, ZkEvents
  <1>3. zUnreg = "sleep" => lock = "unregister"
    BY DEF ZkInv, ZkLock
  <1>4. CASE events' = Tail(events) /\ UNCHANGED <<own, armed>>
    <2>1. events' \in Seq(ZkEvents) /\ (UnderWay => UnderWay')
      BY <1>1, <1>2, <1>4, ZkConsumes
    <2>2. Zk!children' = Zk!children
      BY <1>1, <1>4 DEF Zk!children, Zk!Self
    <2> QED
      BY <1>1, <1>2, <1>3, <1>4, <2>1, <2>2, ZkServer
  <1>5. CASE armed' = FALSE /\ events' = IF armed THEN Append(Tail(events), "children") ELSE Tail(events)
    <2>1. CASE armed
      <3> DEFINE es == Tail(events)
      <3>1. es \in Seq(ZkEvents) /\ events' = Append(es, "children")
        BY <1>1, <1>2, <1>5, <2>1
      <3>2. Len(es) + 1 \in DOMAIN events' /\ events'[Len(es) + 1] = "children" /\ events' \in Seq(ZkEvents)
        BY <1>2, <3>1, ZkEventStays
      <3>3. UnderWay'
        BY <3>2 DEF UnderWay
      <3> QED
        BY <1>1, <1>2, <1>3, <1>5, <3>2, <3>3, ZkServer
    <2>2. CASE ~armed
      <3>1. events' \in Seq(ZkEvents) /\ (UnderWay => UnderWay')
        BY <1>1, <1>2, <1>5, <2>2, ZkConsumes
      <3> QED
        BY <1>1, <1>2, <1>3, <1>5, <2>2, <3>1, ZkServer
    <2> QED
      BY <2>1, <2>2
  <1> QED
    BY <1>4, <1>5 DEF Zk!watchState, Zk!watchHasSession, Zk!Idle, Zk!server

(* The cache is emptied. *)
LEMMA ZkEmpties ==
    ASSUME ZkInv, localConns' = {}, events' \in Seq(ZkEvents), UNCHANGED <<armed, lostWatch>>,
           zRemote' \in [Zk!Procs -> {"idle", "watch", "read", "list"}],
           \A p \in ZkLockers : zRemote'[p] # "idle" => lock' = p,
           zUnreg' = "sleep" => lock' = "unregister",
           zRemote'["GetConns"] = "read" /\ ~lostWatch => armed \/ UnderWay'
    PROVE  ZkInv'
  BY DEF ZkInv, ZkTyped, ZkLock, ZkWatched, Zk!NoMissedChange

(* UnRegister forgets the cache. *)
LEMMA ZkForgets == ASSUME ZkInv, Zk!unregisterEnds PROVE ZkInv'
  <1>1. /\ zUnreg = "sleep" /\ zUnreg' = "done" /\ lock' = "free" /\ localConns' = {}
        /\ UNCHANGED <<armed, lostWatch, events, zRemote>>
    BY DEF Zk!unregisterEnds, Zk!server
  <1>2. \A p \in ZkLockers : zRemote[p] = "idle"
    BY <1>1 DEF ZkInv, ZkLock, ZkLockers
  <1>3. zRemote["GetConns"] = "idle"
    BY <1>2 DEF ZkLockers
  <1>4. zRemote' \in [Zk!Procs -> {"idle", "watch", "read", "list"}] /\ events' \in Seq(ZkEvents)
    BY <1>1 DEF ZkInv, ZkTyped
  <1> QED
    BY <1>1, <1>2, <1>3, <1>4, ZkEmpties

(* A process moves. *)
LEMMA ZkMoves ==
    ASSUME ZkTyped, NEW p \in Zk!Procs, NEW pc \in {"idle", "watch", "read", "list"}, Zk!SetRemote(p, pc)
    PROVE  /\ zRemote' \in [Zk!Procs -> {"idle", "watch", "read", "list"}] /\ zRemote'[p] = pc
           /\ \A x \in Zk!Procs : x # p => zRemote'[x] = zRemote[x]
  BY DEF ZkTyped, Zk!SetRemote

(* A flush takes the lock, or empties the cache at once.  The event that    *)
(* it was for may be gone.                                                  *)
LEMMA ZkFlushes == ASSUME ZkInv, Zk!refresh \/ Zk!watchChildren PROVE ZkInv'
  <1>1. PICK p \in {"refresh", "watch"} :
            Zk!Flush(p) /\ UNCHANGED <<others, own, armed, lostWatch, zUnreg>>
            /\ (events' = events \/ (events # << >> /\ events' = Tail(events)))
    BY DEF Zk!refresh, Zk!watchChildren, Zk!Idle, Zk!server, Zk!reg
  <1>2. lock = "free" /\ p \in ZkLockers /\ p \in Zk!Procs /\ ZkLockers \subseteq Zk!Procs /\ "GetConns" \in ZkLockers
    BY <1>1 DEF Zk!Flush, ZkLockers, Zk!Procs
  <1>3. zUnreg # "sleep" /\ \A x \in ZkLockers : zRemote[x] = "idle"
    BY <1>2 DEF ZkInv, ZkLock, ZkLockers
  <1>4. events' \in Seq(ZkEvents)
    BY <1>1, ZkEventStays DEF ZkInv, ZkTyped
  <1>5. CASE Zk!SetRemote(p, "watch") /\ lock' = p /\ UNCHANGED localConns
    <2>1. /\ zRemote' \in [Zk!Procs -> {"idle", "watch", "read", "list"}] /\ zRemote'[p] = "watch"
          /\ \A x \in Zk!Procs : x # p => zRemote'[x] = zRemote[x]
      BY <1>2, <1>5, ZkMoves DEF ZkInv
    <2>2. Flushing' /\ zRemote'["GetConns"] = "idle" /\ p # "GetConns"
      BY <1>2, <1>3, <1>5, <2>1 DEF Flushing
    <2>3. ZkTyped'
      BY <1>1, <1>4, <2>1 DEF ZkInv, ZkTyped
    <2>4. ZkLock'
      BY <1>1, <1>2, <1>3, <1>5, <2>1, <2>2 DEF ZkLock
    <2>5. ZkWatched' /\ Zk!NoMissedChange'
      BY <2>2 DEF ZkWatched, Zk!NoMissedChange, Flushing
    <2> QED
      BY <2>3, <2>4, <2>5 DEF ZkInv
  <1>6. CASE localConns' = {} /\ UNCHANGED <<zRemote, lock>>
    <2>1. zRemote' \in [Zk!Procs -> {"idle", "watch", "read", "list"}]
      BY <1>6 DEF ZkInv, ZkTyped
    <2> QED
      BY <1>1, <1>2, <1>3, <1>4, <1>6, <2>1, ZkEmpties
  <1> QED
    BY <1>1, <1>5, <1>6 DEF Zk!Flush

(* GetConns takes the lock for an empty cache. *)
LEMMA ZkGets == ASSUME ZkInv, Zk!GetConns PROVE ZkInv'
  <1>1. /\ lock = "free" /\ localConns = {} /\ lock' = "GetConns" /\ Zk!SetRemote("GetConns", "watch")
        /\ UNCHANGED <<armed, lostWatch, events, localConns, zUnreg>>
    BY DEF Zk!GetConns, Zk!server, Zk!reg
  <1>2. "GetConns" \in Zk!Procs /\ ZkLockers \subseteq Zk!Procs
    BY DEF Zk!Procs, ZkLockers
  <1>3. /\ zRemote' \in [Zk!Procs -> {"idle", "watch", "read", "list"}] /\ zRemote'["GetConns"] = "watch"
        /\ \A x \in Zk!Procs : x # "GetConns" => zRemote'[x] = zRemote[x]
    BY <1>1, <1>2, ZkMoves DEF ZkInv
  <1>4. zUnreg # "sleep" /\ \A x \in ZkLockers : zRemote[x] = "idle"
    BY <1>1 DEF ZkInv, ZkLock, ZkLockers
  <1>5. events' \in Seq(ZkEvents)
    BY <1>1 DEF ZkInv, ZkTyped
  <1> QED
    BY <1>1, <1>2, <1>3, <1>4, <1>5, ZkEmpties

(* The resolver of a connection: its steps concern neither the cache nor    *)
(* the lock, but they may set the watch.                                    *)
LEMMA ZkBuilds ==
    ASSUME ZkInv, UNCHANGED <<others, own, lostWatch, events, localConns, lock, zUnreg>>, armed' \in {armed, TRUE},
           NEW pc \in {"idle", "watch", "read", "list"}, Zk!SetRemote("Build", pc)
    PROVE  ZkInv'
  <1>1. "Build" \in Zk!Procs /\ ZkLockers \subseteq Zk!Procs /\ "Build" \notin ZkLockers /\ "GetConns" \in ZkLockers
    BY DEF Zk!Procs, ZkLockers
  <1>2. /\ zRemote' \in [Zk!Procs -> {"idle", "watch", "read", "list"}]
        /\ \A x \in ZkLockers : zRemote'[x] = zRemote[x]
    BY <1>1, ZkMoves DEF ZkInv
  <1>3. zRemote'["GetConns"] = zRemote["GetConns"] /\ armed' \in BOOLEAN /\ (armed => armed')
    BY <1>1, <1>2 DEF ZkInv, ZkTyped
  <1>4. ZkTyped' /\ ZkLock'
    BY <1>2, <1>3 DEF ZkInv, ZkTyped, ZkLock
  <1>5. Zk!children' = Zk!children /\ UnderWay' = UnderWay /\ Flushing' = Flushing
    BY DEF Zk!children, Zk!Self, UnderWay, Flushing
  <1>6. ZkWatched'
    BY <1>3, <1>5 DEF ZkInv, ZkWatched
  <1>7. Zk!NoMissedChange'
    BY <1>5 DEF ZkInv, Zk!NoMissedChange
  <1> QED
    BY <1>4, <1>6, <1>7 DEF ZkInv

(* The watch is set before the children are read. *)
LEMMA ZkArms == ASSUME ZkInv, NEW p \in Zk!Procs, p # "Build", Zk!childrenW(p) PROVE ZkInv'
  <1>1. /\ zRemote[p] = "watch" /\ armed' = TRUE /\ Zk!SetRemote(p, "read")
        /\ lostWatch' = (lostWatch /\ p # "GetConns")
        /\ UNCHANGED <<others, own, events, localConns, lock, zUnreg>>
    BY DEF Zk!childrenW, Zk!reg
  <1>2. p \in ZkLockers /\ ZkLockers \subseteq Zk!Procs /\ "GetConns" \in ZkLockers
    BY DEF ZkLockers, Zk!Procs
  <1>3. /\ zRemote' \in [Zk!Procs -> {"idle", "watch", "read", "list"}] /\ zRemote'[p] = "read"
        /\ \A x \in Zk!Procs : x # p => zRemote'[x] = zRemote[x]
    BY <1>1, ZkMoves DEF ZkInv
  <1>4. lock = p /\ (p = "GetConns" => localConns = {})
    BY <1>1, <1>2 DEF ZkInv, ZkLock
  <1>5. ZkTyped'
    BY <1>1, <1>3 DEF ZkInv, ZkTyped
  <1>6. ZkLock'
    BY <1>1, <1>2, <1>3, <1>4 DEF ZkInv, ZkLock
  <1>7. ZkWatched'
    BY <1>1 DEF ZkWatched
  <1>8. Zk!NoMissedChange'
    <2>1. CASE p = "GetConns"
      BY <1>1, <1>4, <2>1 DEF Zk!NoMissedChange
    <2>2. CASE p # "GetConns"
      BY <1>1, <1>2, <1>4, <2>2 DEF Zk!NoMissedChange, ZkLockers
    <2> QED
      BY <2>1, <2>2
  <1> QED
    BY <1>5, <1>6, <1>7, <1>8 DEF ZkInv

(* The children are read, or the connection is down. *)
LEMMA ZkReads ==
    ASSUME ZkInv, NEW p \in Zk!Procs, p # "Build", Zk!childrenRead(p) \/ Zk!remoteFails(p)
    PROVE  ZkInv'
  <1>1. /\ zRemote[p] # "idle" /\ Zk!SetRemote(p, "idle") /\ lock' = "free"
        /\ UNCHANGED <<others, own, armed, lostWatch, events, zUnreg>>
    BY DEF Zk!childrenRead, Zk!remoteFails, Zk!server, Zk!reg
  <1>2. p \in ZkLockers /\ ZkLockers \subseteq Zk!Procs /\ "GetConns" \in ZkLockers
    BY DEF ZkLockers, Zk!Procs
  <1>3. /\ zRemote' \in [Zk!Procs -> {"idle", "watch", "read", "list"}] /\ zRemote'[p] = "idle"
        /\ \A x \in Zk!Procs : x # p => zRemote'[x] = zRemote[x]
    BY <1>1, ZkMoves DEF ZkInv
  <1>4. lock = p /\ zUnreg # "sleep" /\ \A x \in ZkLockers : zRemote'[x] = "idle"
    <2>1. lock = p
      BY <1>1, <1>2 DEF ZkInv, ZkLock
    <2>2. zUnreg # "sleep" /\ \A x \in ZkLockers : x # p => zRemote[x] = "idle"
      BY <1>2, <2>1 DEF ZkInv, ZkLock, ZkLockers
    <2> QED
      BY <1>2, <1>3, <2>1, <2>2
  <1>5. events' \in Seq(ZkEvents)
    BY <1>1 DEF ZkInv, ZkTyped
  <1>6. CASE localConns' = {}
    BY <1>1, <1>2, <1>3, <1>4, <1>5, <1>6, ZkEmpties
  <1>7. CASE p = "GetConns" /\ localConns' = Zk!children /\ zRemote[p] = "read"
    <2>1. lostWatch \/ armed \/ UnderWay
      BY <1>7 DEF ZkInv, ZkWatched
    <2>2. ZkTyped' /\ ZkLock'
      BY <1>1, <1>2, <1>3, <1>4, <1>5 DEF ZkInv, ZkTyped, ZkLock
    <2>3. ZkWatched'
      BY <1>1, <1>2, <1>4, <2>1 DEF ZkWatched, UnderWay
    <2>4. Zk!children' = Zk!children
      BY <1>1 DEF Zk!children, Zk!Self
    <2>5. Zk!NoMissedChange'
      BY <1>7, <2>4 DEF Zk!NoMissedChange
    <2> QED
      BY <2>2, <2>3, <2>5 DEF ZkInv
  <1>8. CASE p = "GetConns" /\ localConns' = localConns
    <2>1. localConns = {}
      BY <1>1, <1>8 DEF ZkInv, ZkLock
    <2> QED
      BY <1>6, <1>8, <2>1
  <1>9. CASE Zk!childrenRead(p)
    BY <1>6, <1>7, <1>9 DEF Zk!childrenRead
  <1>10. CASE Zk!remoteFails(p)
    BY <1>2, <1>6, <1>8, <1>10 DEF Zk!remoteFails, ZkLockers
  <1> QED
    BY <1>9, <1>10

(* Every step of the client and of the server keeps the invariant. *)
LEMMA ZkNext == ASSUME ZkInv, Zk!Next PROVE ZkInv'
  <1>1. CASE Zk!Build \/ Zk!buildLists
    <2>1. PICK pc \in {"watch", "idle"} :
              Zk!SetRemote("Build", pc) /\ UNCHANGED <<others, own, armed, lostWatch, events, localConns, lock, zUnreg>>
      BY <1>1 DEF Zk!Build, Zk!buildLists, Zk!server, Zk!reg
    <2> QED
      BY <2>1, ZkBuilds
  <1>2. CASE \E p \in Zk!Procs : Zk!Remote(p)
    <2>1. PICK p \in Zk!Procs : Zk!Remote(p)
      BY <1>2
    <2>2. CASE p = "Build"
      <3>1. PICK pc \in {"read", "list"} :
                /\ Zk!SetRemote("Build", pc) /\ armed' \in {armed, TRUE}
                /\ UNCHANGED <<others, own, lostWatch, events, localConns, lock, zUnreg>>
        BY <2>1, <2>2 DEF Zk!Remote, Zk!childrenW, Zk!childrenRead, Zk!remoteFails, Zk!server, Zk!reg, ZkInv, ZkTyped
      <3> QED
        BY <3>1, ZkBuilds
    <2>3. CASE p # "Build"
      BY <2>1, <2>3, ZkArms, ZkReads DEF Zk!Remote
    <2> QED
      BY <2>2, <2>3
  <1> QED
    BY <1>1, <1>2, ZkChanges, ZkConnects, ZkSession, ZkForgets, ZkFlushes, ZkGets DEF Zk!Next, Zk!watch

(* Steps of others leave the client as it is. *)
LEMMA ZkStutters == ASSUME ZkInv, UNCHANGED Zk!vars PROVE ZkInv'
  <1>1. UNCHANGED <<others, own, armed, lostWatch, events, localConns, lock, zUnreg, zRemote>>
    BY DEF Zk!vars, Zk!server, Zk!reg
  <1>2. UnderWay' = UnderWay /\ Zk!children' = Zk!children
    BY <1>1 DEF UnderWay, Zk!children, Zk!Self
  <1>3. events' \in Seq(ZkEvents) /\ armed' \in BOOLEAN /\ lostWatch' \in BOOLEAN
        /\ (zUnreg' = "sleep" => lock' = "unregister")
    BY <1>1 DEF ZkInv, ZkTyped, ZkLock
  <1> QED
    BY <1>1, <1>2, <1>3, ZkServer

(* The ZooKeeper client: cached connections that are out of date have an    *)
(* event under way, although the watch of ZooKeeper fires only once.        *)
THEOREM ZkMissesNothing ==
    Zk!Spec => [](Zk!NoMissedChange)
  <1>1. Zk!Init => ZkInv
    BY ZkStarts
  <1>2. ZkInv /\ [Zk!Next]_(Zk!vars) => ZkInv'
    BY ZkNext, ZkStutters
  <1>3. ZkInv =>
          Zk!NoMissedChange
    BY DEF ZkInv
  <1> QED
    BY <1>1, <1>2, <1>3, PTL DEF Zk!Spec
-----------------------------------------------------------------------------
(* discovery/etcd: etcd_registry.go. *)
Rgr == INSTANCE EtcdRegistrar WITH MaxFaults <- RgrFaults, key <- rKey, leases <- rLeases, granted <- rGranted,
           cancelled <- rCancelled, faults <- rFaults

(* The bounds of the model are numbers. *)
RgrSized == MaxRegisters \in Nat /\ MaxLeases \in Nat /\ RgrFaults \in Nat /\ MaxLost \in Nat

(* The steps of a registration. *)
JobPcs == {"none", "revoke", "grant", "add", "undo", "revokeOld", "done"}
(* The steps of a keepAliveLoop. *)
LoopPcs == {"start", "alive", "lost", "locked", "sleep", "end"}

(* The variables of the registrar have their types; the key's lease is      *)
(* alive.                                                                   *)
RgrTyped ==
    /\ RgrSized /\ rGranted \in Nat /\ rKey \in 0..rGranted /\ rLeases \subseteq 1..rGranted
    /\ rKey # 0 => rKey \in rLeases
    /\ reg \in [lease : 0..rGranted, known : BOOLEAN]
    /\ gens \in 0..MaxRegisters /\ loop \in [1..MaxRegisters -> [pc : LoopPcs, lease : 0..rGranted]]
    /\ job \in [who : {Rgr!Nobody} \cup 0..MaxRegisters, pc : JobPcs, new : 0..rGranted]
    /\ rFaults \in 0..RgrFaults /\ lost \in 0..MaxLost

(* The mutex: who holds it is on a step of a registration.  The lease that  *)
(* is being put in place is alive, and a goroutine that has been granted    *)
(* one is not cancelled.                                                    *)
RgrJob ==
    /\ job.pc = "none" <=> job.who = Rgr!Nobody
    /\ job.who = Rgr!Nobody => job = Rgr!NoJob
    /\ job.pc \in {"add", "undo"} => job.new \in rLeases
    /\ job.who = 0 => /\ gens < MaxRegisters /\ ~wanted /\ job.pc # "revokeOld"
                      /\ job.pc \in {"grant", "add", "undo"} => reg.lease = 0
    /\ job.pc = "revoke" => job.who = 0
    /\ job.who > 0 /\ job.pc \in {"add", "undo", "revokeOld", "done"} => job.who \notin rCancelled
    /\ job.pc \in {"revokeOld", "done"} => reg.lease # 0

(* Goroutines: all but the last are cancelled, and that one only by a call. *)
RgrLoops ==
    /\ rCancelled \subseteq 1..gens
    /\ \A g \in 1..gens : g # gens => g \in rCancelled
    /\ \A g \in 1..MaxRegisters : (loop[g].pc = "locked" <=> job.who = g) /\ (g > gens => loop[g] = Rgr!NoLoop)
    /\ \A g \in 1..gens : g \notin rCancelled => wanted /\ job.who # 0

(* After UnRegister there is nothing to renew. *)
RgrGone ==
    /\ gone => ~reg.known /\ job.who = Rgr!Nobody /\ rKey = 0
    /\ unreg # Rgr!NoUnreg => ~reg.known /\ job.who = Rgr!Nobody /\ ~wanted

(* The last goroutine goes on as long as there is a lease to keep. *)
RgrKeeper == job.who # 0 /\ reg.lease # 0 => gens > 0 /\ gens \notin rCancelled /\ loop[gens].pc # "end"

(* As long as nothing fails, nothing is lost. *)
RgrSteady ==
    rFaults = 0 /\ lost = 0 =>
        /\ job.pc = "done" \/ (wanted /\ job.who = Rgr!Nobody) => rKey = reg.lease /\ reg.lease # 0
        /\ job.who < 1
        /\ \A g \in 1..gens : loop[g].pc \in {"start", "alive", "end"}
        /\ \A g \in 1..gens : g \notin rCancelled /\ loop[g].pc = "alive" => loop[g].lease = reg.lease

(* The inductive invariant of the registrar. *)
RgrInv == RgrTyped /\ RgrJob /\ RgrLoops /\ RgrGone /\ RgrKeeper /\ RgrSteady

(* Nobody is not one of the goroutines and not the user. *)
LEMMA RgrNobody == Rgr!Nobody \in Int /\ Rgr!Nobody < 0
  BY DEF Rgr!Nobody

(* A registrar that nobody has called satisfies it. *)
LEMMA RgrStarts == ASSUME RgrSized, Rgr!Init PROVE RgrInv
  <1>1. /\ rKey = 0 /\ rLeases = {} /\ rGranted = 0 /\ gens = 0 /\ rCancelled = {} /\ unreg = Rgr!NoUnreg
        /\ wanted = FALSE /\ gone = FALSE /\ rFaults = 0 /\ lost = 0 /\ job = Rgr!NoJob
        /\ reg = [lease |-> 0, known |-> FALSE] /\ loop = [g \in 1..MaxRegisters |-> Rgr!NoLoop]
    BY DEF Rgr!Init, Rgr!NoLease, Rgr!Gens
  <1>2. /\ job.who = Rgr!Nobody /\ job.pc = "none" /\ job.new = 0 /\ reg.lease = 0 /\ reg.known = FALSE
        /\ job \in [who : {Rgr!Nobody} \cup 0..MaxRegisters, pc : JobPcs, new : 0..rGranted]
        /\ reg \in [lease : 0..rGranted, known : BOOLEAN]
    BY <1>1 DEF Rgr!NoJob, Rgr!NoLease, JobPcs
  <1>3. /\ loop \in [1..MaxRegisters -> [pc : LoopPcs, lease : 0..rGranted]]
        /\ \A g \in 1..MaxRegisters : loop[g] = Rgr!NoLoop /\ loop[g].pc = "end"
    BY <1>1 DEF Rgr!NoLoop, Rgr!NoLease, LoopPcs
  <1>4. RgrTyped
    <2>1. /\ rGranted \in Nat /\ rKey \in 0..rGranted /\ rLeases \subseteq 1..rGranted /\ gens \in 0..MaxRegisters
          /\ rFaults \in 0..RgrFaults /\ lost \in 0..MaxLost /\ rKey = 0
      BY <1>1 DEF RgrSized
    <2> QED
      BY <1>2, <1>3, <2>1 DEF RgrTyped
  <1>5. RgrJob
    BY <1>1, <1>2, RgrNobody DEF RgrJob
  <1>6. RgrLoops
    BY <1>1, <1>2, <1>3, RgrNobody DEF RgrLoops
  <1>7. RgrGone /\ RgrKeeper
    BY <1>1, <1>2 DEF RgrGone, RgrKeeper
  <1>8. RgrSteady
    BY <1>1, <1>2, RgrNobody DEF RgrSteady
  <1> QED
    BY <1>4, <1>5, <1>6, <1>7, <1>8 DEF RgrInv

(* Calls that fail are counted; if none has failed, none fails in this step. *)
LEMMA RgrBudget ==
    ASSUME RgrTyped, Rgr!Fault \/ Rgr!Lose \/ UNCHANGED Rgr!budget
    PROVE  /\ rFaults' \in 0..RgrFaults /\ lost' \in 0..MaxLost
           /\ Rgr!Fault \/ Rgr!Lose => ~(rFaults' = 0 /\ lost' = 0)
           /\ rFaults' = 0 /\ lost' = 0 => rFaults = 0 /\ lost = 0
  BY DEF RgrTyped, RgrSized, Rgr!Fault, Rgr!Lose, Rgr!budget

(* Revoke: the key goes with its lease. *)
LEMMA RgrRevokes ==
    ASSUME RgrTyped, NEW l, Rgr!Revoke(l)
    PROVE  /\ rLeases' \subseteq 1..rGranted /\ rKey' \in 0..rGranted /\ (rKey' # 0 => rKey' \in rLeases')
           /\ rKey' = rKey \/ (rKey' = 0 /\ rKey = l)
           /\ \A x \in rLeases : x # l => x \in rLeases'
  <1>1. rLeases' = rLeases \ {l} /\ rKey' = (IF rKey = l THEN 0 ELSE rKey)
    BY DEF Rgr!Revoke, Rgr!NoLease
  <1>2. 0 \in 0..rGranted
    BY DEF RgrTyped
  <1> QED
    BY <1>1, <1>2 DEF RgrTyped

(* One goroutine moves. *)
LEMMA RgrLoopMoves ==
    ASSUME RgrTyped, NEW g \in 1..MaxRegisters, NEW pc \in LoopPcs, Rgr!SetLoop(g, pc)
    PROVE  /\ loop' \in [1..MaxRegisters -> [pc : LoopPcs, lease : 0..rGranted]]
           /\ loop'[g].pc = pc /\ loop'[g].lease = loop[g].lease
           /\ \A h \in 1..MaxRegisters : h # g => loop'[h] = loop[h]
  BY DEF RgrTyped, Rgr!SetLoop

(* The end of a failed registration. *)
LEMMA RgrFails ==
    ASSUME RgrTyped, RgrJob, job.who # Rgr!Nobody, Rgr!Fail
    PROVE  /\ loop' \in [1..MaxRegisters -> [pc : LoopPcs, lease : 0..rGranted]]
           /\ \A g \in 1..MaxRegisters : IF job.who = g THEN loop'[g].pc = "sleep" ELSE loop'[g] = loop[g]
           /\ job' = Rgr!NoJob /\ job'.who = Rgr!Nobody /\ job'.pc = "none" /\ job'.new = 0
           /\ job.who \in 0..MaxRegisters
  <1>1. job.who \in 0..MaxRegisters /\ job' = Rgr!NoJob
    BY DEF RgrTyped, Rgr!Fail
  <1>2. job'.who = Rgr!Nobody /\ job'.pc = "none" /\ job'.new = 0
    BY <1>1 DEF Rgr!NoJob, Rgr!NoLease
  <1>3. CASE job.who = 0
    BY <1>1, <1>2, <1>3 DEF Rgr!Fail, Rgr!User, RgrTyped
  <1>4. CASE job.who # 0
    <2>1. job.who \in 1..MaxRegisters /\ Rgr!SetLoop(job.who, "sleep")
      BY <1>1, <1>4 DEF Rgr!Fail, Rgr!User, Rgr!SetLoop, RgrTyped, RgrSized
    <2>2. "sleep" \in LoopPcs
      BY DEF LoopPcs
    <2> QED
      BY <1>1, <1>2, <2>1, <2>2, RgrLoopMoves
  <1> QED
    BY <1>3, <1>4

(* Nobody holds the mutex. *)
LEMMA RgrFree == ASSUME RgrInv, job = Rgr!NoJob PROVE job.who = Rgr!Nobody /\ job.pc = "none" /\ job.new = 0
  BY DEF Rgr!NoJob, Rgr!NoLease

(* Register: all goroutines are cancelled. *)
LEMMA RgrRegister == ASSUME RgrInv, Rgr!Register PROVE RgrInv'
  <1>1. /\ job = Rgr!NoJob /\ unreg = Rgr!NoUnreg /\ gens < MaxRegisters /\ rCancelled' = rCancelled \cup 1..gens
        /\ wanted' = FALSE /\ gone' = FALSE
        /\ UNCHANGED <<rKey, rLeases, rGranted, reg, gens, loop, unreg, rFaults, lost>>
        /\ job' = [who |-> 0, pc |-> IF reg.lease = 0 THEN "grant" ELSE "revoke", new |-> 0]
    BY DEF Rgr!Register, Rgr!etcd, Rgr!budget, Rgr!User, Rgr!NoLease
  <1>2. job.who = Rgr!Nobody /\ job.pc = "none"
    BY <1>1, RgrFree
  <1>3. /\ job'.who = 0 /\ job'.pc \in {"grant", "revoke"} /\ (job'.pc = "grant" => reg.lease = 0) /\ job'.new = 0
        /\ job' \in [who : {Rgr!Nobody} \cup 0..MaxRegisters, pc : JobPcs, new : 0..rGranted]
    BY <1>1 DEF RgrInv, RgrTyped, RgrSized, JobPcs
  <1>4. RgrTyped'
    BY <1>1, <1>3 DEF RgrInv, RgrTyped
  <1>5. RgrJob'
    BY <1>1, <1>3, RgrNobody DEF RgrInv, RgrJob
  <1>6. RgrLoops'
    <2>1. \A g \in 1..MaxRegisters : loop[g].pc # "locked"
      BY <1>2, RgrNobody DEF RgrInv, RgrLoops
    <2>2. rCancelled' \subseteq 1..gens /\ \A g \in 1..gens : g \in rCancelled'
      BY <1>1 DEF RgrInv, RgrLoops
    <2>3. \A g \in 1..MaxRegisters : loop[g].pc # "locked" /\ job'.who # g /\ (g > gens => loop[g] = Rgr!NoLoop)
      BY <1>3, <2>1 DEF RgrInv, RgrLoops
    <2> QED
      BY <1>1, <2>2, <2>3 DEF RgrLoops, Rgr!NoLoop
  <1>7. RgrGone'
    BY <1>1 DEF RgrGone, Rgr!NoUnreg
  <1>8. RgrKeeper'
    BY <1>3 DEF RgrKeeper
  <1>9. RgrSteady'
    BY <1>1, <1>3, RgrNobody DEF RgrInv, RgrSteady
  <1> QED
    BY <1>4, <1>5, <1>6, <1>7, <1>8, <1>9 DEF RgrInv

(* The old lease is revoked, or left to expire. *)
LEMMA RgrRevoke == ASSUME RgrInv, Rgr!registerRevoke PROVE RgrInv'
  <1>1. /\ job.pc = "revoke"
        /\ ((Rgr!Revoke(reg.lease) /\ UNCHANGED Rgr!budget) \/ (Rgr!Fault /\ UNCHANGED <<rKey, rLeases>>))
        /\ reg' = [reg EXCEPT !.lease = 0] /\ job' = [job EXCEPT !.pc = "grant"]
        /\ UNCHANGED <<rGranted, gens, loop, rCancelled, unreg, wanted, gone>>
    BY DEF Rgr!registerRevoke, Rgr!Goto, Rgr!NoLease
  <1>2. job.who = 0 /\ job.who # Rgr!Nobody
    BY <1>1, RgrNobody DEF RgrInv, RgrJob
  <1>3. /\ job'.who = 0 /\ job'.pc = "grant" /\ reg'.lease = 0 /\ reg'.known = reg.known
        /\ job' \in [who : {Rgr!Nobody} \cup 0..MaxRegisters, pc : JobPcs, new : 0..rGranted]
        /\ reg' \in [lease : 0..rGranted, known : BOOLEAN]
    BY <1>1, <1>2 DEF RgrInv, RgrTyped, JobPcs
  <1>4. /\ rLeases' \subseteq 1..rGranted /\ rKey' \in 0..rGranted /\ (rKey' # 0 => rKey' \in rLeases')
        /\ rFaults' \in 0..RgrFaults /\ lost' \in 0..MaxLost
        /\ rFaults' = 0 /\ lost' = 0 => rFaults = 0 /\ lost = 0
    BY <1>1, RgrBudget, RgrRevokes DEF RgrInv, RgrTyped
  <1>5. RgrTyped'
    BY <1>1, <1>3, <1>4 DEF RgrInv, RgrTyped
  <1>6. RgrJob'
    BY <1>1, <1>2, <1>3, RgrNobody DEF RgrInv, RgrJob
  <1>7. RgrLoops'
    BY <1>1, <1>2, <1>3 DEF RgrInv, RgrLoops
  <1>8. RgrGone'
    BY <1>1, <1>2 DEF RgrInv, RgrGone
  <1>9. RgrKeeper'
    BY <1>3 DEF RgrKeeper
  <1>10. RgrSteady'
    <2>1. \A g \in 1..gens : g \in rCancelled
      BY <1>2 DEF RgrInv, RgrLoops
    <2> QED
      BY <1>1, <1>2, <1>3, <1>4, <2>1, RgrNobody DEF RgrInv, RgrSteady
  <1> QED
    BY <1>5, <1>6, <1>7, <1>8, <1>9, <1>10 DEF RgrInv

(* A registration that fails. *)
LEMMA RgrEnds ==
    ASSUME RgrInv, Rgr!Fail, job.pc \in {"grant", "undo"},
           UNCHANGED <<rGranted, reg, gens, rCancelled, unreg, wanted, gone>>,
           rLeases' \subseteq 1..rGranted, rKey' \in 0..rGranted, rKey' # 0 => rKey' \in rLeases',
           Rgr!Fault \/ UNCHANGED Rgr!budget
    PROVE  RgrInv'
  <1>1. job.who # Rgr!Nobody
    BY DEF RgrInv, RgrJob
  <1>2. /\ loop' \in [1..MaxRegisters -> [pc : LoopPcs, lease : 0..rGranted]]
        /\ \A g \in 1..MaxRegisters : IF job.who = g THEN loop'[g].pc = "sleep" ELSE loop'[g] = loop[g]
        /\ job' = Rgr!NoJob /\ job'.who = Rgr!Nobody /\ job'.pc = "none" /\ job'.new = 0
        /\ job.who \in 0..MaxRegisters
    BY <1>1, RgrFails DEF RgrInv
  <1>3. /\ rFaults' \in 0..RgrFaults /\ lost' \in 0..MaxLost
        /\ rFaults' = 0 /\ lost' = 0 => rFaults = 0 /\ lost = 0
    BY RgrBudget DEF RgrInv
  <1>4. job' \in [who : {Rgr!Nobody} \cup 0..MaxRegisters, pc : JobPcs, new : 0..rGranted]
    BY <1>2 DEF Rgr!NoJob, Rgr!NoLease, JobPcs, RgrInv, RgrTyped
  <1>5. RgrTyped'
    BY <1>2, <1>3, <1>4 DEF RgrInv, RgrTyped
  <1>6. RgrJob'
    BY <1>2, RgrNobody DEF RgrJob
  <1>7. RgrLoops'
    <2>1. \A g \in 1..MaxRegisters : loop'[g].pc # "locked" /\ job'.who # g /\ (g > gens => loop'[g] = Rgr!NoLoop)
      <3> SUFFICES ASSUME NEW g \in 1..MaxRegisters
                   PROVE  loop'[g].pc # "locked" /\ job'.who # g /\ (g > gens => loop'[g] = Rgr!NoLoop)
        OBVIOUS
      <3>1. job'.who # g
        BY <1>2, RgrNobody
      <3>2. CASE job.who = g
        <4>1. loop[g].pc = "locked"
          BY <3>2 DEF RgrInv, RgrLoops
        <4>2. ~(g > gens)
          BY <4>1 DEF RgrInv, RgrLoops, Rgr!NoLoop
        <4> QED
          BY <1>2, <3>1, <3>2, <4>2
      <3>3. CASE job.who # g
        BY <1>2, <3>1, <3>3 DEF RgrInv, RgrLoops
      <3> QED
        BY <3>2, <3>3
    <2>2. \A g \in 1..gens : g \notin rCancelled => wanted /\ job'.who # 0
      BY <1>2, RgrNobody DEF RgrInv, RgrLoops
    <2> QED
      BY <2>1, <2>2 DEF RgrInv, RgrLoops, Rgr!NoLoop
  <1>8. RgrGone'
    BY <1>1 DEF RgrInv, RgrGone
  <1>9. RgrKeeper'
    <2> SUFFICES ASSUME reg.lease # 0 PROVE gens > 0 /\ gens \notin rCancelled /\ loop'[gens].pc # "end"
      BY DEF RgrKeeper
    <2>1. job.who # 0
      BY DEF RgrInv, RgrJob
    <2>2. gens > 0 /\ gens \notin rCancelled /\ loop[gens].pc # "end" /\ gens \in 1..MaxRegisters
      BY <2>1 DEF RgrInv, RgrKeeper, RgrTyped, RgrSized
    <2> QED
      BY <1>2, <2>2
  <1>10. RgrSteady'
    <2> SUFFICES ASSUME rFaults' = 0, lost' = 0
                 PROVE  /\ ~wanted /\ job'.who < 1 /\ job'.pc = "none"
                        /\ \A g \in 1..gens : loop'[g] = loop[g]
      BY <1>3 DEF RgrInv, RgrSteady
    <2>1. job.who = 0
      BY <1>2, <1>3 DEF RgrInv, RgrSteady
    <2>2. 1..gens \subseteq 1..MaxRegisters
      BY DEF RgrInv, RgrTyped, RgrSized
    <2> QED
      BY <1>2, <2>1, <2>2, RgrNobody DEF RgrInv, RgrJob
  <1> QED
    BY <1>5, <1>6, <1>7, <1>8, <1>9, <1>10 DEF RgrInv

(* Grant. *)
LEMMA RgrGrant == ASSUME RgrInv, Rgr!registerGrant PROVE RgrInv'
  <1>1. job.pc = "grant" /\ UNCHANGED <<rKey, reg, gens, rCancelled, unreg, wanted, gone>>
    BY DEF Rgr!registerGrant
  <1>2. CASE Rgr!Fail /\ UNCHANGED <<rGranted, rLeases>> /\ (Rgr!Fault \/ UNCHANGED Rgr!budget)
    BY <1>1, <1>2, RgrEnds DEF RgrInv, RgrTyped
  <1>3. CASE /\ job.who \notin rCancelled /\ rGranted' = rGranted + 1 /\ rLeases' = rLeases \cup {rGranted + 1}
             /\ job' = [job EXCEPT !.pc = "add", !.new = rGranted + 1]
             /\ UNCHANGED <<loop, rFaults, lost>>
    <2>1. /\ rGranted' \in Nat /\ rKey \in 0..rGranted' /\ rLeases' \subseteq 1..rGranted'
          /\ rKey # 0 => rKey \in rLeases'
          /\ reg \in [lease : 0..rGranted', known : BOOLEAN]
      BY <1>3 DEF RgrInv, RgrTyped
    <2>2. loop \in [1..MaxRegisters -> [pc : LoopPcs, lease : 0..rGranted']]
      <3>1. 0..rGranted \subseteq 0..rGranted'
        BY <1>3 DEF RgrInv, RgrTyped
      <3> QED
        BY <3>1 DEF RgrInv, RgrTyped
    <2>3. /\ job' \in [who : {Rgr!Nobody} \cup 0..MaxRegisters, pc : JobPcs, new : 0..rGranted']
          /\ job'.who = job.who /\ job'.pc = "add" /\ job'.new \in rLeases'
      <3>1. rGranted + 1 \in 0..rGranted' /\ rGranted + 1 \in rLeases'
        BY <1>3 DEF RgrInv, RgrTyped
      <3>2. job \in [who : {Rgr!Nobody} \cup 0..MaxRegisters, pc : JobPcs, new : 0..rGranted]
        BY DEF RgrInv, RgrTyped
      <3>3. job' = [job EXCEPT !.pc = "add", !.new = rGranted + 1]
        BY <1>3
      <3> QED
        BY <3>1, <3>2, <3>3 DEF JobPcs
    <2>4. RgrTyped'
      BY <1>1, <1>3, <2>1, <2>2, <2>3 DEF RgrInv, RgrTyped
    <2>5. RgrJob'
      <3>1. job.who # Rgr!Nobody
        BY <1>1 DEF RgrInv, RgrJob
      <3> QED
        BY <1>1, <1>3, <2>3, <3>1, RgrNobody DEF RgrInv, RgrJob
    <2>6. RgrLoops' /\ RgrGone' /\ RgrKeeper'
      BY <1>1, <1>3, <2>3 DEF RgrInv, RgrLoops, RgrGone, RgrKeeper, Rgr!NoLoop, Rgr!NoUnreg
    <2>7. RgrSteady'
      BY <1>1, <1>3, <2>3 DEF RgrInv, RgrSteady
    <2> QED
      BY <2>4, <2>5, <2>6, <2>7 DEF RgrInv
  <1> QED
    BY <1>2, <1>3 DEF Rgr!registerGrant, Rgr!budget

(* An error of AddEndpoint is undone. *)
LEMMA RgrUndo == ASSUME RgrInv, Rgr!registerUndo PROVE RgrInv'
  <1>1. /\ job.pc = "undo" /\ Rgr!Fail /\ UNCHANGED <<rGranted, reg, gens, rCancelled, unreg, wanted, gone>>
        /\ \/ Rgr!Revoke(job.new) /\ UNCHANGED Rgr!budget
           \/ Rgr!Fault /\ UNCHANGED <<rKey, rLeases>>
    BY DEF Rgr!registerUndo
  <1>2. rLeases' \subseteq 1..rGranted /\ rKey' \in 0..rGranted /\ (rKey' # 0 => rKey' \in rLeases')
    BY <1>1, RgrRevokes DEF RgrInv, RgrTyped
  <1> QED
    BY <1>1, <1>2, RgrEnds

(* AddEndpoint under the new lease. *)
LEMMA RgrAdd == ASSUME RgrInv, Rgr!registerAdd PROVE RgrInv'
  <1>1. job.pc = "add" /\ UNCHANGED <<rLeases, rGranted, gens, loop, rCancelled, unreg, wanted, gone>>
    BY DEF Rgr!registerAdd
  <1>2. /\ job.who # Rgr!Nobody /\ job.new \in rLeases /\ job.new \in 1..rGranted /\ ~gone /\ unreg = Rgr!NoUnreg
        /\ job.who > 0 => job.who \notin rCancelled
    BY <1>1 DEF RgrInv, RgrTyped, RgrJob, RgrGone
  <1>3. job.who \in 0..MaxRegisters /\ reg.lease \in 0..rGranted
    BY <1>2 DEF RgrInv, RgrTyped
  <1>4. CASE /\ (Rgr!Fault /\ UNCHANGED rKey) \/ (Rgr!Lose /\ rKey' = job.new)
             /\ job' = [job EXCEPT !.pc = "undo"] /\ UNCHANGED reg
    <2>1. /\ job' \in [who : {Rgr!Nobody} \cup 0..MaxRegisters, pc : JobPcs, new : 0..rGranted]
          /\ job'.who = job.who /\ job'.pc = "undo" /\ job'.new = job.new
      BY <1>4 DEF RgrInv, RgrTyped, JobPcs
    <2>2. rFaults' \in 0..RgrFaults /\ lost' \in 0..MaxLost /\ ~(rFaults' = 0 /\ lost' = 0)
      BY <1>4, RgrBudget DEF RgrInv
    <2>3. rKey' \in 0..rGranted /\ (rKey' # 0 => rKey' \in rLeases)
      BY <1>2, <1>4 DEF RgrInv, RgrTyped
    <2>4. RgrTyped'
      BY <1>1, <1>4, <2>1, <2>2, <2>3 DEF RgrInv, RgrTyped
    <2>5. RgrJob'
      BY <1>1, <1>2, <1>4, <2>1, RgrNobody DEF RgrInv, RgrJob
    <2>6. RgrLoops' /\ RgrGone' /\ RgrKeeper'
      BY <1>1, <1>2, <1>4, <2>1 DEF RgrInv, RgrLoops, RgrGone, RgrKeeper, Rgr!NoLoop, Rgr!NoUnreg
    <2>7. RgrSteady'
      BY <2>2 DEF RgrSteady
    <2> QED
      BY <2>4, <2>5, <2>6, <2>7 DEF RgrInv
  <1>5. CASE /\ rKey' = job.new /\ UNCHANGED Rgr!budget /\ reg' = [lease |-> job.new, known |-> TRUE]
             /\ job' = [job EXCEPT !.pc = IF job.who = 0 \/ reg.lease = 0 THEN "done" ELSE "revokeOld",
                                    !.new = reg.lease]
    <2>1. /\ job' \in [who : {Rgr!Nobody} \cup 0..MaxRegisters, pc : JobPcs, new : 0..rGranted]
          /\ job'.who = job.who /\ job'.pc \in {"done", "revokeOld"} /\ (job.who = 0 => job'.pc = "done")
      BY <1>5 DEF RgrInv, RgrTyped, JobPcs
    <2>2. /\ reg' \in [lease : 0..rGranted, known : BOOLEAN] /\ reg'.lease = job.new /\ reg'.lease # 0
          /\ rKey' \in 0..rGranted /\ rKey' \in rLeases
      BY <1>2, <1>5 DEF RgrInv, RgrTyped
    <2>3. UNCHANGED <<rFaults, lost>>
      BY <1>5 DEF Rgr!budget
    <2>4. RgrTyped'
      BY <1>1, <2>1, <2>2, <2>3 DEF RgrInv, RgrTyped
    <2>5. RgrJob'
      BY <1>1, <1>2, <2>1, <2>2, RgrNobody DEF RgrInv, RgrJob
    <2>6. RgrLoops' /\ RgrGone'
      BY <1>1, <1>2, <2>1 DEF RgrInv, RgrLoops, RgrGone, Rgr!NoLoop, Rgr!NoUnreg
    <2>7. RgrKeeper'
      <3> SUFFICES ASSUME job.who # 0 PROVE gens > 0 /\ gens \notin rCancelled /\ loop[gens].pc # "end"
        BY <1>1, <2>1 DEF RgrKeeper
      <3>1. job.who \in 1..MaxRegisters /\ job.who \notin rCancelled
        BY <1>2, <1>3
      <3>2. loop[job.who].pc = "locked"
        BY <3>1 DEF RgrInv, RgrLoops
      <3>3. job.who \in 1..gens
        BY <3>1, <3>2 DEF RgrInv, RgrLoops, RgrTyped, Rgr!NoLoop
      <3>4. job.who = gens
        BY <3>1, <3>3 DEF RgrInv, RgrLoops
      <3> QED
        BY <3>1, <3>2, <3>4
    <2>8. RgrSteady'
      <3> SUFFICES ASSUME rFaults = 0, lost = 0
                   PROVE  /\ rKey' = reg'.lease /\ reg'.lease # 0 /\ job.who < 1
                          /\ \A g \in 1..gens : loop[g].pc \in {"start", "alive", "end"} /\ g \in rCancelled
        BY <1>1, <2>1, <2>3 DEF RgrSteady
      <3>1. job.who < 1 /\ \A g \in 1..gens : loop[g].pc \in {"start", "alive", "end"}
        BY DEF RgrInv, RgrSteady
      <3>2. job.who = 0
        BY <1>3, <3>1
      <3> QED
        BY <1>5, <2>2, <3>1, <3>2 DEF RgrInv, RgrLoops
    <2> QED
      BY <2>4, <2>5, <2>6, <2>7, <2>8 DEF RgrInv
  <1> QED
    BY <1>4, <1>5 DEF Rgr!registerAdd, Rgr!Goto, Rgr!User, Rgr!NoLease

(* reRegister revokes the lease that was lost, which is not the new one. *)
LEMMA RgrRevokeOld == ASSUME RgrInv, Rgr!reRegisterRevokeOld PROVE RgrInv'
  <1>1. /\ job.pc = "revokeOld" /\ job' = [job EXCEPT !.pc = "done"]
        /\ UNCHANGED <<rGranted, reg, gens, loop, rCancelled, unreg, wanted, gone>>
        /\ \/ Rgr!Revoke(job.new) /\ UNCHANGED Rgr!budget
           \/ Rgr!Fault /\ UNCHANGED <<rKey, rLeases>>
    BY DEF Rgr!reRegisterRevokeOld, Rgr!Goto
  <1>2. /\ job.who # Rgr!Nobody /\ job.who # 0 /\ reg.lease # 0 /\ ~gone /\ unreg = Rgr!NoUnreg
        /\ job.who \in 1..MaxRegisters
    BY <1>1 DEF RgrInv, RgrTyped, RgrSized, RgrJob, RgrGone
  <1>3. /\ job' \in [who : {Rgr!Nobody} \cup 0..MaxRegisters, pc : JobPcs, new : 0..rGranted]
        /\ job'.who = job.who /\ job'.pc = "done"
    BY <1>1 DEF RgrInv, RgrTyped, JobPcs
  <1>4. /\ rLeases' \subseteq 1..rGranted /\ rKey' \in 0..rGranted /\ (rKey' # 0 => rKey' \in rLeases')
        /\ rFaults' \in 0..RgrFaults /\ lost' \in 0..MaxLost
        /\ rFaults' = 0 /\ lost' = 0 => rFaults = 0 /\ lost = 0
    BY <1>1, RgrBudget, RgrRevokes DEF RgrInv, RgrTyped
  <1>5. RgrTyped'
    BY <1>1, <1>3, <1>4 DEF RgrInv, RgrTyped
  <1>6. RgrJob'
    BY <1>1, <1>2, <1>3 DEF RgrInv, RgrJob
  <1>7. RgrLoops' /\ RgrKeeper'
    BY <1>1, <1>3 DEF RgrInv, RgrLoops, RgrKeeper, Rgr!NoLoop
  <1>8. RgrGone'
    BY <1>1, <1>2 DEF RgrGone, Rgr!NoUnreg
  <1>9. RgrSteady'
    BY <1>2, <1>4 DEF RgrInv, RgrSteady
  <1> QED
    BY <1>5, <1>6, <1>7, <1>8, <1>9 DEF RgrInv

(* Register starts a goroutine, which is the only one not cancelled; one    *)
(* that registered anew goes on.                                            *)
LEMMA RgrDone == ASSUME RgrInv, Rgr!registerDone PROVE RgrInv'
  <1>1. /\ job.pc = "done" /\ job' = Rgr!NoJob /\ wanted' = TRUE
        /\ UNCHANGED <<rKey, rLeases, rGranted, reg, rCancelled, unreg, gone, rFaults, lost>>
        /\ \/ job.who = 0 /\ gens' = gens + 1 /\ Rgr!SetLoop(gens + 1, "start")
           \/ job.who \in 1..MaxRegisters /\ Rgr!SetLoop(job.who, "start") /\ UNCHANGED gens
    BY DEF Rgr!registerDone, Rgr!etcd, Rgr!budget, Rgr!User, Rgr!Gens
  <1>2. job.who # Rgr!Nobody /\ reg.lease # 0 /\ ~gone /\ unreg = Rgr!NoUnreg /\ gens \in Nat /\ MaxRegisters \in Nat
    BY <1>1 DEF RgrInv, RgrJob, RgrGone, RgrTyped, RgrSized
  <1>3. /\ job'.who = Rgr!Nobody /\ job'.pc = "none" /\ job'.new = 0
        /\ job' \in [who : {Rgr!Nobody} \cup 0..MaxRegisters, pc : JobPcs, new : 0..rGranted]
    BY <1>1 DEF Rgr!NoJob, Rgr!NoLease, JobPcs, RgrInv, RgrTyped
  <1> DEFINE g == gens'
  <1>4. /\ g \in 1..MaxRegisters /\ g \notin rCancelled /\ Rgr!SetLoop(g, "start") /\ gens <= g
        /\ \A h \in 1..g : h # g => h \in rCancelled
        /\ rCancelled \subseteq 1..g
        /\ \A h \in 1..MaxRegisters : h # g => loop[h].pc # "locked"
    <2>1. CASE job.who = 0
      <3>1. gens' = gens + 1 /\ Rgr!SetLoop(g, "start") /\ gens < MaxRegisters
        BY <1>1, <1>2, <2>1 DEF RgrInv, RgrJob
      <3>2. \A h \in 1..gens : h \in rCancelled
        BY <2>1 DEF RgrInv, RgrLoops
      <3>3. \A h \in 1..MaxRegisters : loop[h].pc # "locked"
        BY <2>1 DEF RgrInv, RgrLoops
      <3>4. rCancelled \subseteq 1..gens
        BY DEF RgrInv, RgrLoops
      <3> QED
        BY <1>2, <3>1, <3>2, <3>3, <3>4
    <2>2. CASE job.who # 0
      <3>1. job.who \in 1..MaxRegisters /\ Rgr!SetLoop(job.who, "start") /\ gens' = gens
        BY <1>1, <2>2
      <3>2. loop[job.who].pc = "locked" /\ job.who \notin rCancelled
        BY <1>1, <3>1 DEF RgrInv, RgrLoops, RgrJob
      <3>3. job.who \in 1..gens
        BY <1>2, <3>1, <3>2 DEF RgrInv, RgrLoops, Rgr!NoLoop
      <3>4. job.who = gens
        BY <3>2, <3>3 DEF RgrInv, RgrLoops
      <3> QED
        BY <3>1, <3>2, <3>4 DEF RgrInv, RgrLoops
    <2> QED
      BY <2>1, <2>2
  <1>5. /\ loop' \in [1..MaxRegisters -> [pc : LoopPcs, lease : 0..rGranted]]
        /\ loop'[g].pc = "start" /\ \A h \in 1..MaxRegisters : h # g => loop'[h] = loop[h]
    <2>1. "start" \in LoopPcs
      BY DEF LoopPcs
    <2> QED
      BY <1>4, <2>1, RgrLoopMoves DEF RgrInv
  <1>6. RgrTyped'
    <2>1. g \in 0..MaxRegisters
      BY <1>2, <1>4
    <2> QED
      BY <1>1, <1>3, <1>5, <2>1 DEF RgrInv, RgrTyped
  <1> HIDE DEF g
  <1>7. RgrJob'
    BY <1>1, <1>3, RgrNobody DEF RgrJob, Rgr!NoJob
  <1>8. RgrLoops'
    <2>1. \A h \in 1..MaxRegisters : loop'[h].pc # "locked" /\ job'.who # h /\ (h > g => loop'[h] = Rgr!NoLoop)
      <3> SUFFICES ASSUME NEW h \in 1..MaxRegisters
                   PROVE  loop'[h].pc # "locked" /\ job'.who # h /\ (h > g => loop'[h] = Rgr!NoLoop)
        OBVIOUS
      <3>1. job'.who # h
        BY <1>3, RgrNobody
      <3>2. h > g => h > gens /\ h # g
        BY <1>2, <1>4
      <3> QED
        BY <1>4, <1>5, <3>1, <3>2 DEF RgrInv, RgrLoops
    <2>2. \A h \in 1..g : h \notin rCancelled => wanted' /\ job'.who # 0
      BY <1>1, <1>3, RgrNobody
    <2> QED
      BY <1>1, <1>4, <2>1, <2>2 DEF RgrLoops, Rgr!NoLoop, g
  <1>9. RgrGone'
    BY <1>1, <1>2 DEF RgrGone, Rgr!NoUnreg
  <1>10. RgrKeeper'
    BY <1>1, <1>4, <1>5 DEF RgrKeeper, g
  <1>11. RgrSteady'
    <2> SUFFICES ASSUME rFaults = 0, lost = 0
                 PROVE  /\ rKey = reg.lease /\ job'.who < 1
                        /\ \A h \in 1..g : loop'[h].pc \in {"start", "alive", "end"}
                        /\ \A h \in 1..g : h \notin rCancelled => loop'[h].pc # "alive"
      BY <1>1, <1>2 DEF RgrSteady, g
    <2>1. rKey = reg.lease /\ \A h \in 1..gens : loop[h].pc \in {"start", "alive", "end"}
      BY <1>1 DEF RgrInv, RgrSteady
    <2>2. \A h \in 1..g : h # g => h \in 1..gens /\ h \in 1..MaxRegisters
      <3>1. g = gens \/ g = gens + 1
        BY <1>1 DEF g
      <3> QED
        BY <1>2, <1>4, <3>1
    <2> QED
      BY <1>3, <1>4, <1>5, <2>1, <2>2, RgrNobody
  <1> QED
    BY <1>6, <1>7, <1>8, <1>9, <1>10, <1>11 DEF RgrInv

(* A goroutine that moves outside the mutex. *)
LEMMA RgrMoves ==
    ASSUME RgrInv, NEW g \in 1..MaxRegisters,
           UNCHANGED <<rKey, rLeases, rGranted, reg, gens, rCancelled, job, unreg, wanted, gone>>,
           Rgr!Fault \/ UNCHANGED Rgr!budget,
           loop' \in [1..MaxRegisters -> [pc : LoopPcs, lease : 0..rGranted]],
           \A h \in 1..MaxRegisters : h # g => loop'[h] = loop[h],
           loop[g].pc \notin {"end", "locked"}, loop'[g].pc # "locked",
           loop'[g].pc = "end" => g \in rCancelled \/ reg.lease = 0,
           rFaults' = 0 /\ lost' = 0 =>
               /\ loop'[g].pc \in {"start", "alive", "end"}
               /\ g \notin rCancelled /\ loop'[g].pc = "alive" => loop'[g].lease = reg.lease
    PROVE  RgrInv'
  <1>1. /\ rFaults' \in 0..RgrFaults /\ lost' \in 0..MaxLost
        /\ rFaults' = 0 /\ lost' = 0 => rFaults = 0 /\ lost = 0
    BY RgrBudget DEF RgrInv
  <1>2. RgrTyped'
    BY <1>1 DEF RgrInv, RgrTyped
  <1>3. RgrJob' /\ RgrGone'
    BY DEF RgrInv, RgrJob, RgrGone, Rgr!NoJob, Rgr!NoUnreg
  <1>4. RgrLoops'
    <2>1. job.who # g /\ ~(g > gens)
      BY DEF RgrInv, RgrLoops, Rgr!NoLoop
    <2>2. \A h \in 1..MaxRegisters : (loop'[h].pc = "locked" <=> job.who = h) /\ (h > gens => loop'[h] = Rgr!NoLoop)
      BY <2>1 DEF RgrInv, RgrLoops
    <2> QED
      BY <2>2 DEF RgrInv, RgrLoops, Rgr!NoLoop
  <1>5. RgrKeeper'
    <2> SUFFICES ASSUME job.who # 0, reg.lease # 0
                 PROVE  gens > 0 /\ gens \notin rCancelled /\ loop'[gens].pc # "end"
      BY DEF RgrKeeper
    <2>1. gens > 0 /\ gens \notin rCancelled /\ loop[gens].pc # "end" /\ gens \in 1..MaxRegisters
      BY DEF RgrInv, RgrKeeper, RgrTyped, RgrSized
    <2> QED
      BY <2>1
  <1>6. RgrSteady'
    <2> SUFFICES ASSUME rFaults' = 0, lost' = 0
                 PROVE  /\ \A h \in 1..gens : loop'[h].pc \in {"start", "alive", "end"}
                        /\ \A h \in 1..gens : h \notin rCancelled /\ loop'[h].pc = "alive" => loop'[h].lease = reg.lease
      BY <1>1 DEF RgrInv, RgrSteady
    <2>1. 1..gens \subseteq 1..MaxRegisters
      BY DEF RgrInv, RgrTyped, RgrSized
    <2>2. \A h \in 1..gens : loop[h].pc \in {"start", "alive", "end"}
      BY <1>1 DEF RgrInv, RgrSteady
    <2>3. \A h \in 1..gens : h \notin rCancelled /\ loop[h].pc = "alive" => loop[h].lease = reg.lease
      BY <1>1 DEF RgrInv, RgrSteady
    <2> QED
      BY <2>1, <2>2, <2>3
  <1> QED
    BY <1>2, <1>3, <1>4, <1>5, <1>6 DEF RgrInv

(* keepAliveLoop, the close of its channel, and its sleep. *)
LEMMA RgrLoop ==
    ASSUME RgrInv, NEW g \in 1..MaxRegisters,
           Rgr!keepAliveLoop(g) \/ Rgr!keepAliveCloses(g) \/ Rgr!keepAliveSleep(g)
    PROVE  RgrInv'
  <1>1. UNCHANGED <<rKey, rLeases, rGranted, reg, gens, rCancelled, job, unreg, wanted, gone>>
    BY DEF Rgr!keepAliveLoop, Rgr!keepAliveCloses, Rgr!keepAliveSleep, Rgr!etcd
  <1>2. Rgr!Fault \/ UNCHANGED Rgr!budget
    BY DEF Rgr!keepAliveLoop, Rgr!keepAliveCloses, Rgr!keepAliveSleep
  <1>3. {"start", "alive", "lost", "sleep", "end"} \subseteq LoopPcs
    BY DEF LoopPcs
  <1>4. /\ rFaults' = 0 /\ lost' = 0 => rFaults = 0 /\ lost = 0
        /\ Rgr!Fault => ~(rFaults' = 0 /\ lost' = 0)
    BY <1>2, RgrBudget DEF RgrInv
  <1>5. g \in rCancelled \/ loop[g].pc = "end" \/ g = gens
    BY DEF RgrInv, RgrLoops, RgrTyped, RgrSized, Rgr!NoLoop
  <1>6. ASSUME NEW pc \in {"lost", "sleep", "start", "end"}, Rgr!SetLoop(g, pc), loop[g].pc \notin {"end", "locked"},
               pc = "end" => g \in rCancelled \/ reg.lease = 0,
               rFaults' = 0 /\ lost' = 0 => pc \in {"start", "end"}
        PROVE  RgrInv'
    <2>1. pc \in LoopPcs
      BY <1>3, <1>6
    <2>2. /\ loop' \in [1..MaxRegisters -> [pc : LoopPcs, lease : 0..rGranted]]
          /\ loop'[g].pc = pc /\ \A h \in 1..MaxRegisters : h # g => loop'[h] = loop[h]
      BY <1>6, <2>1, RgrLoopMoves DEF RgrInv
    <2>3. pc # "locked" /\ pc # "alive"
      BY <1>6
    <2> QED
      BY <1>1, <1>2, <1>6, <2>2, <2>3, RgrMoves
  <1>7. CASE Rgr!keepAliveLoop(g)
    <2>1. loop[g].pc = "start"
      BY <1>7 DEF Rgr!keepAliveLoop
    <2>2. CASE (g \in rCancelled \/ reg.lease = 0) /\ Rgr!SetLoop(g, "end")
      BY <1>6, <2>1, <2>2
    <2>3. CASE loop' = [loop EXCEPT ![g] = [pc |-> "alive", lease |-> reg.lease]]
      <3>1. loop \in [1..MaxRegisters -> [pc : LoopPcs, lease : 0..rGranted]] /\ reg.lease \in 0..rGranted
        BY DEF RgrInv, RgrTyped
      <3>2. /\ loop' \in [1..MaxRegisters -> [pc : LoopPcs, lease : 0..rGranted]]
            /\ loop'[g].pc = "alive" /\ loop'[g].lease = reg.lease
            /\ \A h \in 1..MaxRegisters : h # g => loop'[h] = loop[h]
        BY <2>3, <3>1 DEF LoopPcs
      <3> QED
        BY <1>1, <1>2, <2>1, <3>2, RgrMoves
    <2>4. CASE Rgr!Fault /\ Rgr!SetLoop(g, "lost")
      BY <1>4, <1>6, <2>1, <2>4
    <2> QED
      BY <1>7, <2>2, <2>3, <2>4 DEF Rgr!keepAliveLoop, Rgr!NoLease
  <1>8. CASE Rgr!keepAliveCloses(g)
    <2>1. loop[g].pc = "alive"
      BY <1>8 DEF Rgr!keepAliveCloses
    <2>2. CASE g \in rCancelled /\ Rgr!SetLoop(g, "end")
      BY <1>6, <2>1, <2>2
    <2>3. CASE g \notin rCancelled /\ loop[g].lease \notin rLeases /\ Rgr!SetLoop(g, "lost")
      <3>1. ~(rFaults = 0 /\ lost = 0)
        <4> SUFFICES ASSUME rFaults = 0, lost = 0 PROVE FALSE
          OBVIOUS
        <4>1. g \in 1..gens
          BY <1>5, <2>1, <2>3
        <4>2. loop[g].lease = reg.lease /\ job.who < 1
          BY <2>1, <2>3, <4>1 DEF RgrInv, RgrSteady
        <4>3. wanted /\ job.who # 0
          BY <2>3, <4>1 DEF RgrInv, RgrLoops
        <4>4. job.who = Rgr!Nobody
          BY <4>2, <4>3 DEF RgrInv, RgrTyped, RgrSized
        <4> QED
          BY <2>3, <4>2, <4>3, <4>4 DEF RgrInv, RgrSteady, RgrTyped
      <3> QED
        BY <1>4, <1>6, <2>1, <2>3, <3>1
    <2>4. CASE Rgr!Fault /\ Rgr!SetLoop(g, "lost")
      BY <1>4, <1>6, <2>1, <2>4
    <2> QED
      BY <1>8, <2>2, <2>3, <2>4 DEF Rgr!keepAliveCloses
  <1>9. CASE Rgr!keepAliveSleep(g)
    <2>1. loop[g].pc = "sleep" /\ Rgr!SetLoop(g, IF g \in rCancelled THEN "end" ELSE "start")
      BY <1>9 DEF Rgr!keepAliveSleep
    <2>2. PICK pc \in {"end", "start"} : Rgr!SetLoop(g, pc) /\ (pc = "end" => g \in rCancelled)
      BY <2>1
    <2> QED
      BY <1>6, <2>1, <2>2
  <1> QED
    BY <1>7, <1>8, <1>9

(* reRegister takes the mutex; this only happens after a fault. *)
LEMMA RgrAnew == ASSUME RgrInv, NEW g \in 1..MaxRegisters, Rgr!reRegister(g) PROVE RgrInv'
  <1>1. /\ loop[g].pc = "lost" /\ job = Rgr!NoJob
        /\ UNCHANGED <<rKey, rLeases, rGranted, reg, gens, rCancelled, unreg, wanted, gone, rFaults, lost>>
    BY DEF Rgr!reRegister, Rgr!etcd, Rgr!budget
  <1>2. g \in 1..gens
    BY <1>1 DEF RgrInv, RgrLoops, RgrTyped, RgrSized, Rgr!NoLoop
  <1>3. ~(rFaults = 0 /\ lost = 0)
    BY <1>1, <1>2 DEF RgrInv, RgrSteady
  <1>4. CASE Rgr!SetLoop(g, "sleep") /\ UNCHANGED job
    <2>1. "sleep" \in LoopPcs
      BY DEF LoopPcs
    <2>2. /\ loop' \in [1..MaxRegisters -> [pc : LoopPcs, lease : 0..rGranted]]
          /\ loop'[g].pc = "sleep" /\ \A h \in 1..MaxRegisters : h # g => loop'[h] = loop[h]
      BY <1>4, <2>1, RgrLoopMoves DEF RgrInv
    <2>3. UNCHANGED Rgr!budget
      BY <1>1 DEF Rgr!budget
    <2> QED
      BY <1>1, <1>3, <1>4, <2>2, <2>3, RgrMoves
  <1>5. CASE reg.known /\ Rgr!SetLoop(g, "locked") /\ job' = [who |-> g, pc |-> "grant", new |-> 0]
    <2>1. "locked" \in LoopPcs
      BY DEF LoopPcs
    <2>2. /\ loop' \in [1..MaxRegisters -> [pc : LoopPcs, lease : 0..rGranted]]
          /\ loop'[g].pc = "locked" /\ \A h \in 1..MaxRegisters : h # g => loop'[h] = loop[h]
      BY <1>5, <2>1, RgrLoopMoves DEF RgrInv
    <2>3. /\ job'.who = g /\ job'.pc = "grant" /\ job'.new = 0
          /\ job' \in [who : {Rgr!Nobody} \cup 0..MaxRegisters, pc : JobPcs, new : 0..rGranted]
      BY <1>5 DEF RgrInv, RgrTyped, RgrSized, JobPcs
    <2>4. ~gone /\ unreg = Rgr!NoUnreg /\ job.who = Rgr!Nobody
      BY <1>1, <1>5, RgrFree DEF RgrInv, RgrGone
    <2>5. RgrTyped'
      BY <1>1, <2>2, <2>3 DEF RgrInv, RgrTyped
    <2>6. RgrJob'
      BY <1>1, <2>3, RgrNobody DEF RgrJob
    <2>7. RgrLoops'
      <3>1. \A h \in 1..MaxRegisters : (loop'[h].pc = "locked" <=> g = h) /\ (h > gens => loop'[h] = Rgr!NoLoop)
        <4>1. \A h \in 1..MaxRegisters : loop[h].pc # "locked" /\ (h > gens => loop[h] = Rgr!NoLoop)
          BY <2>4, RgrNobody DEF RgrInv, RgrLoops
        <4>2. ~(g > gens)
          BY <1>2 DEF RgrInv, RgrTyped
        <4> QED
          BY <2>2, <4>1, <4>2
      <3>2. g # 0
        OBVIOUS
      <3> QED
        BY <1>1, <2>3, <3>1, <3>2 DEF RgrInv, RgrLoops, Rgr!NoLoop
    <2>8. RgrGone'
      BY <1>1, <2>4 DEF RgrGone, Rgr!NoUnreg
    <2>9. RgrKeeper'
      <3> SUFFICES ASSUME reg.lease # 0 PROVE gens > 0 /\ gens \notin rCancelled /\ loop'[gens].pc # "end"
        BY <1>1 DEF RgrKeeper
      <3>1. gens > 0 /\ gens \notin rCancelled /\ loop[gens].pc # "end" /\ gens \in 1..MaxRegisters
        BY <2>4, RgrNobody DEF RgrInv, RgrKeeper, RgrTyped, RgrSized
      <3> QED
        BY <2>2, <3>1
    <2>10. RgrSteady'
      BY <1>1, <1>3 DEF RgrSteady
    <2> QED
      BY <2>5, <2>6, <2>7, <2>8, <2>9, <2>10 DEF RgrInv
  <1> QED
    BY <1>4, <1>5 DEF Rgr!reRegister, Rgr!NoLease

(* UnRegister: the goroutines are cancelled and there is nothing to renew. *)
LEMMA RgrUnregisters == ASSUME RgrInv, Rgr!UnRegister PROVE RgrInv'
  <1>1. /\ job = Rgr!NoJob /\ unreg = Rgr!NoUnreg /\ reg.known /\ reg' = [lease |-> 0, known |-> FALSE]
        /\ rCancelled' = rCancelled \cup 1..gens /\ wanted' = FALSE
        /\ UNCHANGED <<rKey, rLeases, rGranted, gens, loop, job, gone, rFaults, lost>>
    BY DEF Rgr!UnRegister, Rgr!etcd, Rgr!budget, Rgr!NoLease
  <1>2. job.who = Rgr!Nobody /\ job.pc = "none" /\ ~gone
    BY <1>1, RgrFree DEF RgrInv, RgrGone
  <1>3. reg'.lease = 0 /\ reg'.known = FALSE /\ reg' \in [lease : 0..rGranted, known : BOOLEAN]
    BY <1>1 DEF RgrInv, RgrTyped
  <1>4. RgrTyped'
    BY <1>1, <1>3 DEF RgrInv, RgrTyped
  <1>5. RgrJob'
    BY <1>1, <1>2, RgrNobody DEF RgrJob, Rgr!NoJob
  <1>6. RgrLoops'
    <2>1. rCancelled' \subseteq 1..gens /\ \A g \in 1..gens : g \in rCancelled'
      BY <1>1 DEF RgrInv, RgrLoops
    <2> QED
      BY <1>1, <2>1 DEF RgrInv, RgrLoops, Rgr!NoLoop
  <1>7. RgrGone' /\ RgrKeeper'
    BY <1>1, <1>2, <1>3 DEF RgrGone, RgrKeeper
  <1>8. RgrSteady'
    <2>1. \A g \in 1..gens : g \in rCancelled'
      BY <1>1
    <2> QED
      BY <1>1, <1>2, <2>1 DEF RgrInv, RgrSteady
  <1> QED
    BY <1>4, <1>5, <1>6, <1>7, <1>8 DEF RgrInv

(* Leases and the key go, with a fault or without: what stays in place is   *)
(* what a registered endpoint needs.                                        *)
LEMMA RgrGoes ==
    ASSUME RgrInv, UNCHANGED <<rGranted, reg, gens, loop, rCancelled, job, wanted>>,
           Rgr!Fault \/ UNCHANGED Rgr!budget,
           rLeases' \subseteq 1..rGranted, rKey' = rKey \/ rKey' = 0, rKey' # 0 => rKey' \in rLeases',
           job.pc \in {"add", "undo"} => job.new \in rLeases',
           gone' => gone \/ (unreg # Rgr!NoUnreg /\ rKey' = 0), unreg' # Rgr!NoUnreg => unreg # Rgr!NoUnreg,
           rFaults' = 0 /\ lost' = 0 => rKey' = rKey \/ rKey # reg.lease \/ (~wanted /\ job.pc = "none")
    PROVE  RgrInv'
  <1>1. /\ rFaults' \in 0..RgrFaults /\ lost' \in 0..MaxLost
        /\ rFaults' = 0 /\ lost' = 0 => rFaults = 0 /\ lost = 0
    BY RgrBudget DEF RgrInv
  <1>2. RgrTyped'
    BY <1>1 DEF RgrInv, RgrTyped
  <1>3. RgrJob'
    BY DEF RgrInv, RgrJob, Rgr!NoJob
  <1>4. RgrLoops' /\ RgrKeeper'
    BY DEF RgrInv, RgrLoops, RgrKeeper, Rgr!NoLoop
  <1>5. RgrGone'
    BY DEF RgrInv, RgrGone, Rgr!NoUnreg
  <1>6. RgrSteady'
    BY <1>1 DEF RgrInv, RgrSteady
  <1> QED
    BY <1>2, <1>3, <1>4, <1>5, <1>6 DEF RgrInv

(* UnRegister after its unlock. *)
LEMMA RgrDeletes == ASSUME RgrInv, Rgr!unregisterDelete \/ Rgr!unregisterRevoke PROVE RgrInv'
  <1>1. unreg # Rgr!NoUnreg
    BY DEF Rgr!unregisterDelete, Rgr!unregisterRevoke, Rgr!NoUnreg
  <1>2. ~wanted /\ job.pc = "none"
    BY <1>1 DEF RgrInv, RgrGone, RgrJob
  <1>3. UNCHANGED <<rGranted, reg, gens, loop, rCancelled, job, wanted>> /\ (Rgr!Fault \/ UNCHANGED Rgr!budget)
    BY DEF Rgr!unregisterDelete, Rgr!unregisterRevoke
  <1>4. CASE Rgr!unregisterDelete
    <2>1. /\ rLeases' = rLeases /\ ((rKey' = 0 /\ gone' = TRUE) \/ (rKey' = rKey /\ gone' = gone))
      BY <1>4 DEF Rgr!unregisterDelete, Rgr!NoLease
    <2>2. rLeases' \subseteq 1..rGranted /\ (rKey' # 0 => rKey' \in rLeases')
      BY <2>1 DEF RgrInv, RgrTyped
    <2>3. (rKey' = rKey \/ rKey' = 0) /\ (gone' => gone \/ (unreg # Rgr!NoUnreg /\ rKey' = 0))
      BY <1>1, <2>1
    <2> QED
      BY <1>1, <1>2, <1>3, <2>2, <2>3, RgrGoes
  <1>5. CASE Rgr!unregisterRevoke
    <2>1. gone' = gone
      BY <1>5 DEF Rgr!unregisterRevoke
    <2>2. rLeases' \subseteq 1..rGranted /\ (rKey' # 0 => rKey' \in rLeases') /\ (rKey' = rKey \/ rKey' = 0)
      BY <1>5, RgrRevokes DEF Rgr!unregisterRevoke, RgrInv, RgrTyped
    <2> QED
      BY <1>1, <1>2, <1>3, <2>1, <2>2, RgrGoes
  <1> QED
    BY <1>4, <1>5

(* A lease expires; the one in use only by a fault. *)
LEMMA RgrExpires == ASSUME RgrInv, NEW l, Rgr!leaseExpires(l) PROVE RgrInv'
  <1>1. /\ ~(job.pc \in {"add", "undo"} /\ job.new = l) /\ Rgr!Revoke(l)
        /\ IF l = reg.lease THEN Rgr!Fault ELSE UNCHANGED Rgr!budget
        /\ UNCHANGED <<rGranted, reg, gens, loop, rCancelled, job, unreg, wanted, gone>>
    BY DEF Rgr!leaseExpires
  <1>2. /\ rLeases' \subseteq 1..rGranted /\ (rKey' # 0 => rKey' \in rLeases')
        /\ rKey' = rKey \/ (rKey' = 0 /\ rKey = l)
        /\ \A x \in rLeases : x # l => x \in rLeases'
    BY <1>1, RgrRevokes DEF RgrInv
  <1>3. job.pc \in {"add", "undo"} => job.new \in rLeases'
    BY <1>1, <1>2 DEF RgrInv, RgrJob
  <1>4. (Rgr!Fault \/ UNCHANGED Rgr!budget) /\ (Rgr!Fault => ~(rFaults' = 0 /\ lost' = 0))
    BY <1>1, RgrBudget DEF RgrInv
  <1>5. rFaults' = 0 /\ lost' = 0 => rKey' = rKey \/ rKey # reg.lease
    BY <1>1, <1>2, <1>4
  <1> QED
    BY <1>1, <1>2, <1>3, <1>4, <1>5, RgrGoes

(* Every step of the registrar keeps the invariant. *)
LEMMA RgrNext == ASSUME RgrInv, Rgr!Next PROVE RgrInv'
  <1>1. CASE Rgr!Locked
    BY <1>1, RgrRevoke, RgrGrant, RgrAdd, RgrUndo, RgrRevokeOld, RgrDone DEF Rgr!Locked
  <1>2. CASE \E g \in Rgr!Gens : Rgr!Looping(g)
    BY <1>2, RgrLoop, RgrAnew DEF Rgr!Looping, Rgr!Gens
  <1>3. CASE Rgr!Unregistering
    BY <1>3, RgrDeletes DEF Rgr!Unregistering
  <1> QED
    BY <1>1, <1>2, <1>3, RgrRegister, RgrUnregisters, RgrExpires DEF Rgr!Next

(* Steps of others leave the registrar as it is. *)
LEMMA RgrStutters == ASSUME RgrInv, UNCHANGED Rgr!vars PROVE RgrInv'
  <1>1. UNCHANGED <<rKey, rLeases, rGranted, reg, gens, loop, rCancelled, job, unreg, wanted, gone, rFaults, lost>>
    BY DEF Rgr!vars
  <1>2. RgrTyped'
    BY <1>1 DEF RgrInv, RgrTyped, RgrSized
  <1>3. RgrJob' /\ RgrGone'
    BY <1>1 DEF RgrInv, RgrJob, RgrGone, Rgr!NoJob, Rgr!NoUnreg
  <1>4. RgrLoops' /\ RgrKeeper'
    BY <1>1 DEF RgrInv, RgrLoops, RgrKeeper, Rgr!NoLoop
  <1>5. RgrSteady'
    BY <1>1 DEF RgrInv, RgrSteady
  <1> QED
    BY <1>2, <1>3, <1>4, <1>5 DEF RgrInv

(* What it says of the endpoint and of its keepers. *)
LEMMA RgrImplies ==
    ASSUME RgrInv PROVE Rgr!TypeOK /\ Rgr!NoGhost /\ Rgr!SteadyInPlace /\ Rgr!OneKeeper
  <1>1. Rgr!TypeOK
    BY DEF RgrInv, RgrTyped, RgrLoops, Rgr!TypeOK, Rgr!Gens, Rgr!NoLease
  <1>2. Rgr!NoGhost
    BY DEF RgrInv, RgrGone, Rgr!NoGhost, Rgr!NoLease
  <1>3. Rgr!SteadyInPlace
    <2> SUFFICES ASSUME rFaults = 0, lost = 0, wanted, job = Rgr!NoJob PROVE rKey = reg.lease /\ rKey # 0
      BY DEF Rgr!SteadyInPlace, Rgr!NoLease
    <2>1. job.who = Rgr!Nobody
      BY DEF Rgr!NoJob
    <2> QED
      BY <2>1 DEF RgrInv, RgrSteady
  <1>4. Rgr!OneKeeper
    <2> SUFFICES ASSUME job = Rgr!NoJob, reg.lease # 0
                 PROVE  Rgr!Cardinality({g \in 1..MaxRegisters : g \notin rCancelled /\ loop[g].pc # "end"}) = 1
      BY DEF Rgr!OneKeeper, Rgr!Gens, Rgr!NoLease
    <2>1. job.who = Rgr!Nobody
      BY DEF Rgr!NoJob
    <2>2. gens \in 1..MaxRegisters /\ gens \notin rCancelled /\ loop[gens].pc # "end"
      BY <2>1, RgrNobody DEF RgrInv, RgrTyped, RgrSized, RgrKeeper
    <2>3. \A g \in 1..MaxRegisters : g \notin rCancelled /\ loop[g].pc # "end" => g = gens
      BY DEF RgrInv, RgrTyped, RgrSized, RgrLoops, Rgr!NoLoop
    <2>4. {g \in 1..MaxRegisters : g \notin rCancelled /\ loop[g].pc # "end"} = {gens}
      BY <2>2, <2>3
    <2>5. Cardinality({gens}) = 1
      BY FS_Singleton
    <2> QED
      BY <2>4, <2>5 DEF Rgr!Cardinality, Cardinality, Rgr!IsFiniteSet, IsFiniteSet
  <1> QED
    BY <1>1, <1>2, <1>3, <1>4

(* An endpoint that was unregistered does not come back, one that is        *)
(* registered is in place as long as nothing fails, and its lease has one   *)
(* live keeper.                                                             *)
THEOREM RegistrationHolds ==
    ASSUME RgrSized
    PROVE  Rgr!Spec => [](Rgr!TypeOK /\ Rgr!NoGhost /\ Rgr!SteadyInPlace /\ Rgr!OneKeeper)
  <1>1. Rgr!Init => RgrInv
    BY RgrStarts
  <1>2. RgrInv /\ [Rgr!Next]_(Rgr!vars) => RgrInv'
    BY RgrNext, RgrStutters
  <1>3. RgrInv =>
          Rgr!TypeOK /\ Rgr!NoGhost /\ Rgr!SteadyInPlace /\ Rgr!OneKeeper
    BY RgrImplies
  <1> QED
    BY <1>1, <1>2, <1>3, PTL DEF Rgr!Spec
-----------------------------------------------------------------------------
(* discovery/etcd: etcd_kv.go. *)
Lea == INSTANCE EtcdLease WITH MaxFaults <- LeaseFaults, key <- lKey, leases <- lLeases, granted <- lGranted,
           call <- lCall, cancelled <- lCancelled, stop <- lStop, faults <- lFaults

(* A SetWithLease and its goroutine. *)
CallSet == [pc : {"idle", "grant", "put", "keep", "sleep", "done"}, lease : 0..lGranted, new : 0..lGranted,
            first : BOOLEAN]

(* Leases have been granted; nobody is cancelled before the stop. *)
LeaTyped == lGranted \in Nat /\ lLeases \subseteq 1..lGranted /\ lCall \in [Calls -> CallSet] /\ lCancelled = {}

(* A lease about to be put is alive and no other call has it. *)
LeaFresh ==
    \A c \in Calls : lCall[c].pc = "put" =>
        /\ lCall[c].new \in lLeases
        /\ \A d \in Calls : /\ lCall[d].lease # lCall[c].new
                            /\ (d # c /\ lCall[d].pc = "put" => lCall[d].new # lCall[c].new)

(* The key's lease is alive, and the one of the call that put it. *)
LeaKey ==
    lKey # Lea!NoKey => lKey.by \in Calls /\ lKey.lease \in lLeases /\ lKey.lease = lCall[lKey.by].lease

(* stopKVKeepAlives and the goroutines it stops. *)
LeaStop == keepAlives \subseteq Calls /\ lStop \in [pc : {"idle", "wait", "revoke", "end"}, list : SUBSET Calls]

(* The inductive invariant of the leases, which matters up to the stop. *)
LeaInv == LeaStop /\ (lStop.pc = "idle" => LeaTyped /\ LeaFresh /\ LeaKey)

(* It holds initially. *)
LEMMA LeaStarts == ASSUME Lea!Init PROVE LeaInv
  <1>1. /\ lKey = Lea!NoKey /\ lLeases = {} /\ lGranted = 0 /\ lCancelled = {}
        /\ lCall = [c \in Calls |-> [pc |-> "idle", lease |-> 0, new |-> 0, first |-> TRUE]]
    BY DEF Lea!Init, Lea!None
  <1>2. lCall \in [Calls -> CallSet] /\ \A c \in Calls : lCall[c].pc = "idle"
    BY <1>1 DEF CallSet
  <1>3. LeaStop
    BY DEF Lea!Init, LeaStop
  <1> QED
    BY <1>1, <1>2, <1>3 DEF LeaInv, LeaTyped, LeaFresh, LeaKey

(* A call moves without a lease in hand, and without giving one up. *)
LEMMA LeaMoves ==
    ASSUME LeaTyped, LeaFresh, LeaKey, NEW c \in Calls, NEW pc \in {"idle", "grant", "keep", "sleep", "done"},
           lCall' = [lCall EXCEPT ![c].pc = pc], lCancelled' = lCancelled, lGranted' = lGranted,
           UNCHANGED lLeases \/ (lCall[c].pc = "put" /\ lLeases' = lLeases \ {lCall[c].new}), UNCHANGED lKey
    PROVE  (LeaTyped /\ LeaFresh /\ LeaKey)'
  <1>1. lCall \in [Calls -> CallSet]
    BY DEF LeaTyped
  <1>2. /\ lCall' \in [Calls -> CallSet] /\ lCall'[c].pc = pc
        /\ \A d \in Calls : lCall'[d].lease = lCall[d].lease /\ lCall'[d].new = lCall[d].new
        /\ \A d \in Calls : d # c => lCall'[d].pc = lCall[d].pc
    BY <1>1 DEF CallSet
  <1>3. LeaTyped'
    BY <1>2 DEF LeaTyped, CallSet
  <1>4. LeaFresh'
    <2> SUFFICES ASSUME NEW d \in Calls, lCall'[d].pc = "put"
                 PROVE  /\ lCall[d].new \in lLeases'
                        /\ \A e \in Calls : /\ lCall[e].lease # lCall[d].new
                                            /\ e # d /\ lCall'[e].pc = "put" => lCall[e].new # lCall[d].new
      BY <1>2 DEF LeaFresh
    <2>1. d # c /\ lCall[d].pc = "put"
      BY <1>2
    <2>2. lCall[d].new \in lLeases /\ (lCall[c].pc = "put" => lCall[c].new # lCall[d].new)
      BY <2>1 DEF LeaFresh
    <2>3. \A e \in Calls : lCall'[e].pc = "put" => lCall[e].pc = "put"
      BY <1>2
    <2> QED
      BY <2>1, <2>2, <2>3 DEF LeaFresh
  <1>5. LeaKey'
    BY <1>2 DEF LeaKey, LeaFresh, Lea!NoKey
  <1> QED
    BY <1>3, <1>4, <1>5

(* setKeyWithLease is granted a lease that is new. *)
LEMMA LeaGrants == ASSUME LeaInv, lStop.pc = "idle", NEW c \in Calls, Lea!setKeyGrant(c)
                   PROVE  (LeaTyped /\ LeaFresh /\ LeaKey)'
  <1>1. LeaTyped /\ LeaFresh /\ LeaKey
    BY DEF LeaInv
  <1>2. UNCHANGED <<lKey, lCancelled>>
    BY DEF Lea!setKeyGrant
  <1>3. CASE Lea!Goto(c, Lea!Failed(c)) /\ UNCHANGED <<lLeases, lGranted>>
    <2>1. PICK pc \in {"idle", "keep"} : pc = Lea!Failed(c)
      BY DEF Lea!Failed
    <2> QED
      BY <1>1, <1>2, <1>3, <2>1, LeaMoves DEF Lea!Goto
  <1>4. CASE /\ lGranted' = lGranted + 1 /\ lLeases' = lLeases \cup {lGranted + 1}
             /\ lCall' = [lCall EXCEPT ![c].pc = "put", ![c].new = lGranted + 1]
    <2> DEFINE n == lGranted + 1
    <2>1. n \in Nat /\ n \in lLeases' /\ n \notin 0..lGranted /\ lLeases' \subseteq 1..n
          /\ 0..lGranted \subseteq 0..n /\ n \in 0..n
      BY <1>1, <1>4 DEF LeaTyped
    <2>2. lCall \in [Calls -> CallSet] /\ lCall' = [lCall EXCEPT ![c].pc = "put", ![c].new = n] /\ lGranted' = n
      BY <1>1, <1>4 DEF LeaTyped
    <2> HIDE DEF n
    <2>3. /\ lCall' \in [Calls -> CallSet'] /\ lCall'[c].pc = "put" /\ lCall'[c].new = n
          /\ lCall'[c].lease = lCall[c].lease
          /\ \A d \in Calls : d # c => lCall'[d] = lCall[d]
      BY <2>1, <2>2 DEF CallSet
    <2>4. \A d \in Calls : lCall[d].lease \in 0..lGranted /\ lCall[d].new \in 0..lGranted
      BY <2>2 DEF CallSet
    <2>5. LeaTyped'
      BY <1>1, <1>2, <2>1, <2>2, <2>3 DEF LeaTyped
    <2>6. LeaFresh'
      <3> SUFFICES ASSUME NEW d \in Calls, lCall'[d].pc = "put"
                   PROVE  /\ lCall'[d].new \in lLeases'
                          /\ \A e \in Calls : /\ lCall'[e].lease # lCall'[d].new
                                              /\ e # d /\ lCall'[e].pc = "put" => lCall'[e].new # lCall'[d].new
        BY DEF LeaFresh
      <3>1. CASE d = c
        BY <2>1, <2>3, <2>4, <3>1
      <3>2. CASE d # c
        <4>1. lCall'[d] = lCall[d] /\ lCall[d].pc = "put"
          BY <2>3, <3>2
        <4>2. /\ lCall[d].new \in lLeases /\ lCall[d].new # n
              /\ \A e \in Calls : /\ lCall[e].lease # lCall[d].new
                                  /\ e # d /\ lCall[e].pc = "put" => lCall[e].new # lCall[d].new
          BY <1>1, <2>1, <2>4, <4>1 DEF LeaFresh
        <4>3. lCall[d].new \in lLeases'
          BY <1>4, <4>2
        <4> QED
          BY <2>3, <4>1, <4>2, <4>3
      <3> QED
        BY <3>1, <3>2
    <2>7. LeaKey'
      <3>1. \A d \in Calls : lCall'[d].lease = lCall[d].lease
        BY <2>3
      <3> QED
        BY <1>1, <1>2, <1>4, <3>1 DEF LeaKey, Lea!NoKey
    <2> QED
      BY <2>5, <2>6, <2>7
  <1> QED
    BY <1>3, <1>4 DEF Lea!setKeyGrant

(* Put: the key gets the lease that was granted, or the lease goes. *)
LEMMA LeaPuts == ASSUME LeaInv, lStop.pc = "idle", NEW c \in Calls, Lea!setKeyPut(c)
                 PROVE  (LeaTyped /\ LeaFresh /\ LeaKey)'
  <1>1. LeaTyped /\ LeaFresh /\ LeaKey /\ lCall[c].pc = "put" /\ c \notin lCancelled
        /\ UNCHANGED <<lGranted, lCancelled>>
    BY DEF LeaInv, LeaTyped, Lea!setKeyPut
  <1>2. CASE Lea!Goto(c, Lea!Failed(c)) /\ lLeases' \in {lLeases, lLeases \ {lCall[c].new}} /\ UNCHANGED lKey
    <2>1. PICK pc \in {"idle", "keep"} : pc = Lea!Failed(c)
      BY DEF Lea!Failed
    <2> QED
      BY <1>1, <1>2, <2>1, LeaMoves DEF Lea!Goto
  <1>3. CASE /\ lKey' = [lease |-> lCall[c].new, by |-> c] /\ UNCHANGED lLeases
             /\ lCall' = [lCall EXCEPT ![c].pc = "keep", ![c].lease = lCall[c].new, ![c].first = FALSE]
    <2>1. lCall \in [Calls -> CallSet] /\ lCall[c].new \in lLeases
      BY <1>1 DEF LeaTyped, LeaFresh
    <2>2. /\ lCall' \in [Calls -> CallSet] /\ lCall'[c].pc = "keep" /\ lCall'[c].lease = lCall[c].new
          /\ \A d \in Calls : d # c => lCall'[d] = lCall[d]
      BY <1>3, <2>1 DEF CallSet
    <2>3. LeaTyped'
      BY <1>1, <1>3, <2>2 DEF LeaTyped, CallSet
    <2>4. LeaFresh'
      <3> SUFFICES ASSUME NEW d \in Calls, lCall'[d].pc = "put"
                   PROVE  /\ lCall'[d].new \in lLeases'
                          /\ \A e \in Calls : /\ lCall'[e].lease # lCall'[d].new
                                              /\ e # d /\ lCall'[e].pc = "put" => lCall'[e].new # lCall'[d].new
        BY DEF LeaFresh
      <3>1. d # c /\ lCall'[d] = lCall[d] /\ lCall[d].pc = "put"
        BY <2>2
      <3>2. lCall[c].new # lCall[d].new
        BY <1>1, <3>1 DEF LeaFresh
      <3>3. /\ lCall[d].new \in lLeases
            /\ \A e \in Calls : /\ lCall[e].lease # lCall[d].new
                                /\ e # d /\ lCall[e].pc = "put" => lCall[e].new # lCall[d].new
        BY <1>1, <3>1 DEF LeaFresh
      <3> QED
        BY <1>3, <2>2, <3>1, <3>2, <3>3
    <2>5. LeaKey'
      BY <1>3, <2>1, <2>2 DEF LeaKey
    <2> QED
      BY <2>3, <2>4, <2>5
  <1> QED
    BY <1>1, <1>2, <1>3 DEF Lea!setKeyPut

(* A lease expires, and with it its key; one that is being put does not. *)
LEMMA LeaExpires == ASSUME LeaInv, lStop.pc = "idle", NEW l, Lea!leaseExpires(l) PROVE (LeaTyped /\ LeaFresh /\ LeaKey)'
  <1>1. LeaTyped /\ LeaFresh /\ LeaKey
    BY DEF LeaInv
  <1>2. /\ lLeases' = lLeases \ {l} /\ lKey' = (IF lKey.lease = l THEN Lea!NoKey ELSE lKey)
        /\ \A c \in Calls : ~(lCall[c].pc = "put" /\ lCall[c].new = l)
        /\ UNCHANGED <<lGranted, lCall, lCancelled>>
    BY DEF Lea!leaseExpires, Lea!Revoke
  <1>3. LeaTyped'
    BY <1>1, <1>2 DEF LeaTyped, CallSet
  <1>4. LeaFresh'
    BY <1>1, <1>2 DEF LeaFresh
  <1>5. LeaKey'
    BY <1>1, <1>2 DEF LeaKey, Lea!NoKey
  <1> QED
    BY <1>3, <1>4, <1>5

(* Every step keeps the invariant; a stop is for good. *)
LEMMA LeaNext == ASSUME LeaInv, Lea!Next PROVE LeaInv'
  <1>0. LeaStop' /\ (lStop'.pc = "idle" => lStop.pc = "idle")
    <2>1. CASE Lea!Stopping
      BY <2>1 DEF LeaInv, LeaStop, Lea!Stopping, Lea!stopWait, Lea!stopRevoke
    <2>2. CASE Lea!stopKVKeepAlives
      BY <2>2 DEF LeaInv, LeaStop, Lea!stopKVKeepAlives
    <2>3. CASE \E c \in Calls : Lea!setKeyPut(c)
      BY <2>3 DEF LeaInv, LeaStop, Lea!setKeyPut
    <2> QED
      BY <2>1, <2>2, <2>3 DEF LeaInv, LeaStop, Lea!Next, Lea!setKeyGrant, Lea!keepAliveLease, Lea!SetWithLeaseRetry,
                              Lea!DelData, Lea!leaseExpires
  <1> SUFFICES ASSUME lStop'.pc = "idle", lStop.pc = "idle" PROVE (LeaTyped /\ LeaFresh /\ LeaKey)'
    BY <1>0 DEF LeaInv
  <1>1. CASE Lea!stopKVKeepAlives
    BY <1>1 DEF Lea!stopKVKeepAlives
  <1>2. CASE Lea!Stopping
    BY <1>2 DEF Lea!Stopping, Lea!stopWait, Lea!stopRevoke
  <1>3. CASE Lea!DelData
    <2>1. UNCHANGED <<lLeases, lGranted, lCall, lCancelled, lStop>> /\ lKey' = Lea!NoKey
      BY <1>3 DEF Lea!DelData
    <2> QED
      BY <2>1 DEF LeaInv, LeaTyped, LeaFresh, LeaKey, CallSet, Lea!NoKey
  <1>4. ASSUME NEW c \in Calls, Lea!keepAliveLease(c) \/ Lea!SetWithLeaseRetry(c)
        PROVE  (LeaTyped /\ LeaFresh /\ LeaKey)'
    <2>1. UNCHANGED <<lKey, lLeases, lGranted, lCancelled, lStop>>
      BY <1>4 DEF Lea!keepAliveLease, Lea!SetWithLeaseRetry
    <2>2. PICK pc \in {"keep", "done", "sleep", "grant"} : Lea!Goto(c, pc)
      BY <1>4 DEF Lea!keepAliveLease, Lea!SetWithLeaseRetry
    <2> QED
      BY <2>1, <2>2, LeaMoves DEF Lea!Goto, LeaInv
  <1>5. ASSUME NEW c \in Calls, Lea!setKeyGrant(c) \/ Lea!setKeyPut(c)
        PROVE  (LeaTyped /\ LeaFresh /\ LeaKey)'
    <2>1. UNCHANGED lStop
      BY <1>5 DEF Lea!setKeyGrant, Lea!setKeyPut
    <2> QED
      BY <1>5, <2>1, LeaGrants, LeaPuts
  <1>6. ASSUME NEW l, Lea!leaseExpires(l) PROVE (LeaTyped /\ LeaFresh /\ LeaKey)'
    <2>1. UNCHANGED lStop
      BY <1>6 DEF Lea!leaseExpires
    <2> QED
      BY <1>6, <2>1, LeaExpires
  <1> QED
    BY <1>1, <1>2, <1>3, <1>4, <1>5, <1>6 DEF Lea!Next

(* Steps of others leave the leases as they are. *)
LEMMA LeaStutters == ASSUME LeaInv, UNCHANGED Lea!vars PROVE LeaInv'
  <1>1. UNCHANGED <<lKey, lLeases, lGranted, lCall, lCancelled, lStop>>
    BY DEF Lea!vars
  <1>2. LeaStop'
    BY DEF LeaInv, LeaStop, Lea!vars
  <1> QED
    BY <1>1, <1>2 DEF LeaInv, LeaTyped, LeaFresh, LeaKey, CallSet, Lea!NoKey

(* What it says of the key. *)
LEMMA LeaImplies == ASSUME LeaInv PROVE Lea!LeaseKnown
  BY DEF LeaInv, LeaKey, Lea!LeaseKnown

(* SetWithLease leaves no key with a lease that its goroutine does not know. *)
THEOREM LeaseIsKnown ==
    Lea!Spec => [](Lea!LeaseKnown)
  <1>1. Lea!Init => LeaInv
    BY LeaStarts
  <1>2. LeaInv /\ [Lea!Next]_(Lea!vars) => LeaInv'
    BY LeaNext, LeaStutters
  <1>3. LeaInv =>
          Lea!LeaseKnown
    BY LeaImplies
  <1> QED
    BY <1>1, <1>2, <1>3, PTL DEF Lea!Spec
-----------------------------------------------------------------------------
(* stability/internal/cpu: the samples and their average. *)
Cpu == INSTANCE CpuUsage WITH Full <- FullUsage, first <- cFirst

(* A machine has cores. *)
CpuSized == Cores \in Nat \ {0} /\ FullUsage \in Nat

(* The inductive invariant of the samples: only the counter of a container  *)
(* starts again.                                                            *)
CpuInv ==
    /\ CpuSized /\ elapsed \in Nat /\ cgroup \in BOOLEAN /\ busy \in Nat \cup {Cpu!Wrapped}
    /\ ~cgroup => busy \in Nat
    /\ Cpu!Bounded

(* It holds initially. *)
LEMMA CpuStarts == ASSUME CpuSized, Cpu!Init PROVE CpuInv
  BY DEF CpuSized, Cpu!Init, CpuInv, Cpu!Bounded

(* A share of what has passed is not negative. *)
LEMMA CpuShare == ASSUME NEW x \in Nat, NEW n \in Nat \ {0}, NEW y \in Nat PROVE Cpu!AtMost(x \div n, y) \in 0..y
  <1>1. x \div n \in Nat
    BY SMT
  <1> QED
    BY <1>1 DEF Cpu!AtMost

(* Both samplers stay within the full usage. *)
LEMMA CpuSamples ==
    ASSUME CpuInv, elapsed > 0
    PROVE  Cpu!CgroupUsage \in 0..FullUsage /\ (~cgroup => Cpu!PsutilUsage \in 0..FullUsage)
  <1>1. elapsed \in Nat \ {0} /\ FullUsage \in Nat /\ Cores \in Nat \ {0}
    BY DEF CpuInv, CpuSized
  <1>2. Cpu!CgroupUsage \in 0..FullUsage
    <2>1. CASE busy = Cpu!Wrapped
      BY <1>1, <2>1 DEF Cpu!CgroupUsage
    <2>2. CASE busy # Cpu!Wrapped
      <3>1. busy \in Nat
        BY <2>2 DEF CpuInv
      <3>2. busy * FullUsage * Cores \in Nat
        BY <1>1, <3>1
      <3> QED
        BY <1>1, <2>2, <3>2, CpuShare DEF Cpu!CgroupUsage
    <2> QED
      BY <2>1, <2>2
  <1>3. ASSUME ~cgroup PROVE Cpu!PsutilUsage \in 0..FullUsage
    <2>1. busy \in Nat
      BY <1>3 DEF CpuInv
    <2>2. busy * FullUsage \in Nat /\ elapsed * Cores \in Nat \ {0}
      BY <1>1, <2>1
    <2> QED
      BY <1>1, <2>2, CpuShare DEF Cpu!PsutilUsage
  <1> QED
    BY <1>2, <1>3

(* Every step of the sampler and of cpuProc keeps the invariant. *)
LEMMA CpuNext == ASSUME CpuInv, Cpu!Next PROVE CpuInv'
  <1>1. CASE Cpu!Tick
    BY <1>1 DEF Cpu!Tick, CpuInv, CpuSized, Cpu!Bounded, Cpu!Wrapped
  <1>2. CASE Cpu!CounterReset
    BY <1>2 DEF Cpu!CounterReset, CpuInv, Cpu!Bounded
  <1>3. CASE Cpu!SampleFirst
    BY <1>3 DEF Cpu!SampleFirst, CpuInv, Cpu!Bounded
  <1>4. CASE Cpu!Sample
    <2>1. /\ elapsed > 0 /\ busy' = 0 /\ elapsed' = 0 /\ UNCHANGED <<cgroup, gCPU>>
          /\ usage' = usage \/ usage' = IF cgroup THEN Cpu!CgroupUsage ELSE Cpu!PsutilUsage
      BY <1>4 DEF Cpu!Sample
    <2>2. usage' \in 0..FullUsage
      BY <2>1, CpuSamples DEF CpuInv, Cpu!Bounded
    <2> QED
      BY <2>1, <2>2 DEF CpuInv, Cpu!Bounded
  <1>5. CASE Cpu!cpuProc
    <2> DEFINE sum == 19 * gCPU + usage
    <2>1. gCPU \in 0..FullUsage /\ usage \in 0..FullUsage /\ FullUsage \in Nat
      BY DEF CpuInv, CpuSized, Cpu!Bounded
    <2>2. Cpu!AtMost(usage, FullUsage) = usage
      BY <2>1 DEF Cpu!AtMost
    <2>3. /\ UNCHANGED <<cgroup, busy, elapsed, usage>>
          /\ gCPU' = sum \div 20 \/ (sum % 20 = 0 /\ gCPU > usage /\ gCPU' = sum \div 20 - 1)
      BY <1>5, <2>2 DEF Cpu!cpuProc
    <2>4. sum \div 20 \in 0..FullUsage /\ (sum % 20 = 0 /\ gCPU > usage => sum \div 20 > 0)
      BY <2>1
    <2>5. gCPU' \in 0..FullUsage
      BY <2>1, <2>3, <2>4
    <2> QED
      BY <2>3, <2>5 DEF CpuInv, Cpu!Bounded
  <1> QED
    BY <1>1, <1>2, <1>3, <1>4, <1>5 DEF Cpu!Next

(* Steps of others leave the samples as they are. *)
LEMMA CpuStutters == ASSUME CpuInv, UNCHANGED Cpu!vars PROVE CpuInv'
  BY DEF CpuInv, Cpu!vars, Cpu!Bounded

(* CPU samples: the usage and its average stay within the full load. *)
THEOREM CpuIsBounded ==
    ASSUME CpuSized
    PROVE  Cpu!Spec => [](Cpu!Bounded)
  <1>1. Cpu!Init => CpuInv
    BY CpuStarts
  <1>2. CpuInv /\ [Cpu!Next]_(Cpu!vars) => CpuInv'
    BY CpuNext, CpuStutters
  <1>3. CpuInv =>
          Cpu!Bounded
    BY DEF CpuInv
  <1> QED
    BY <1>1, <1>2, <1>3, PTL DEF Cpu!Spec
-----------------------------------------------------------------------------
(* mq/memamq.  count is what Stop waits for, so the first layer, MemCInv,   *)
(* says what it counts: exactly the pushes between their Add(1) and their   *)
(* deferred Add(-1).  A Stop that finds 0 has set the flag before, so every *)
(* later push sees it: from then on nobody is about to send.  The second    *)
(* layer, MemPInv, follows every task from its push to its execution.       *)
Mem == INSTANCE MemoryQueue WITH closed <- mClosed, pc <- mPc, call <- mCall, done <- mDone

(* NewMemoryQueue panics on a buffer without room; a batch has a task. *)
MemSized == BufferSize \in Nat \ {0} /\ BatchSize \in Nat \ {0}

(* The pushes that have counted themselves and not returned yet. *)
MemInProgress == {p \in Pushers : mPc[p] \in {"load", "select"}}

MemCounted == IsFiniteSet(MemInProgress) /\ count = Cardinality(MemInProgress)

(* Stop sets the flag first; the one that finds no push in progress may    *)
(* close, and then no push is about to send any more.                      *)
MemStopFirst ==
    /\ \A s \in Stoppers : stop[s] # "idle" => isStopped
    /\ \A s \in Stoppers : stop[s] \in {"join", "returned"} => mClosed
    /\ mClosed \/ (\E s \in Stoppers : stop[s] = "close") =>
           isStopped /\ \A p \in Pushers : mPc[p] # "select"

(* A push that is about to send has a task left. *)
MemHasMore ==
    \A p \in Pushers : mPc[p] = "select" => mCall[p] \in Mem!Calls /\ sent[p] < Mem!Length(mCall[p])

(* A push that has not looked at the flag yet has been called. *)
MemWasCalled == \A p \in Pushers : mPc[p] = "load" => mCall[p] \in Mem!Calls /\ sent[p] = 0

MemNotYet == \A p \in Pushers : mPc[p] = "idle" => sent[p] = 0

MemCInv ==
    Mem!TypeOK /\ MemCounted /\ MemStopFirst /\ MemHasMore /\ MemWasCalled /\ MemNotYet /\ Mem!NoSendOnClosed

(* A push that enters counts one more. *)
LEMMA MemEnterCounts ==
    ASSUME Mem!TypeOK, MemCounted, NEW p \in Pushers, mPc[p] = "idle", NEW l \in {"load", "select"},
           count' = count + 1, mPc' = [mPc EXCEPT ![p] = l]
    PROVE  MemCounted' /\ count' \in Nat
  <1>1. MemInProgress' = MemInProgress \cup {p} /\ p \notin MemInProgress
    BY DEF MemInProgress, Mem!TypeOK
  <1>2. /\ IsFiniteSet(MemInProgress \cup {p})
        /\ Cardinality(MemInProgress \cup {p}) = Cardinality(MemInProgress) + 1
    BY <1>1, FS_AddElement DEF MemCounted
  <1>3. MemCounted'
    BY <1>1, <1>2 DEF MemCounted
  <1> QED
    BY <1>3, FS_CardinalityType DEF MemCounted

(* A push that returns counts one less; there was at least one. *)
LEMMA MemReturnCounts ==
    ASSUME Mem!TypeOK, MemCounted, NEW p \in Pushers, mPc[p] \in {"load", "select"},
           NEW res \in Mem!Results, Mem!Return(p, res)
    PROVE  MemCounted' /\ count' \in Nat
  <1>1. MemInProgress' = MemInProgress \ {p} /\ p \in MemInProgress
    BY DEF MemInProgress, Mem!TypeOK, Mem!Return, Mem!Results
  <1>2. /\ IsFiniteSet(MemInProgress \ {p})
        /\ Cardinality(MemInProgress \ {p}) = Cardinality(MemInProgress) - 1
    BY <1>1, FS_RemoveElement DEF MemCounted
  <1>3. MemCounted'
    BY <1>1, <1>2 DEF MemCounted, Mem!Return
  <1> QED
    BY <1>3, FS_CardinalityType DEF MemCounted

(* While no push enters or leaves, the counter stands. *)
LEMMA MemCountStands ==
    ASSUME Mem!TypeOK, MemCounted, UNCHANGED count, MemInProgress' = MemInProgress
    PROVE  MemCounted' /\ count' \in Nat
  BY DEF Mem!TypeOK, MemCounted

(* A counter of 0 means that no push is in progress. *)
LEMMA MemZeroIsNobody == ASSUME MemCounted, count = 0 PROVE MemInProgress = {}
  BY FS_EmptySet DEF MemCounted

(* count.Add(1): a push counts itself before it looks at the flag. *)
LEMMA MemEnterKeeps ==
    ASSUME MemSized, MemCInv, NEW p \in Pushers, NEW k \in Mem!Calls, Mem!Enter(p, k)
    PROVE  MemCInv'
  <1> USE DEF MemCInv, Mem!Enter
  <1>1. MemCounted' /\ count' \in Nat
    BY MemEnterCounts
  <1>2. Mem!TypeOK'
    BY <1>1 DEF Mem!TypeOK, Mem!Calls
  <1>3. MemStopFirst' /\ MemHasMore' /\ MemWasCalled' /\ MemNotYet' /\ Mem!NoSendOnClosed'
    BY DEF Mem!TypeOK, MemStopFirst, MemHasMore, MemWasCalled, MemNotYet, Mem!NoSendOnClosed
  <1> QED
    BY <1>1, <1>2, <1>3

(* isStopped.Load(): a push that finds the flag set returns ErrStop, and    *)
(* one that does not is about to send, so the channel is not closed yet.    *)
LEMMA MemLoadKeeps ==
    ASSUME MemSized, MemCInv, NEW p \in Pushers, Mem!Load(p)
    PROVE  MemCInv'
  <1> USE DEF MemCInv
  <1>1. CASE isStopped
    <2>1. /\ mPc[p] = "load" /\ Mem!Return(p, "ErrStop")
          /\ UNCHANGED <<taskChan, mClosed, isStopped, mCall, sent, running, mDone, stop>>
      BY <1>1 DEF Mem!Load
    <2>2. MemCounted' /\ count' \in Nat
      BY <2>1, MemReturnCounts DEF Mem!Results
    <2>3. mPc' = [mPc EXCEPT ![p] = "ErrStop"]
      BY <2>1 DEF Mem!Return
    <2>4. Mem!TypeOK'
      BY <2>1, <2>2, <2>3 DEF Mem!TypeOK, Mem!Results
    <2>5. MemStopFirst' /\ MemHasMore' /\ MemWasCalled' /\ MemNotYet' /\ Mem!NoSendOnClosed'
      BY <2>1, <2>3 DEF Mem!TypeOK, MemStopFirst, MemHasMore, MemWasCalled, MemNotYet, Mem!NoSendOnClosed
    <2> QED
      BY <2>2, <2>4, <2>5
  <1>2. CASE ~isStopped
    <2>1. /\ mPc[p] = "load" /\ mPc' = [mPc EXCEPT ![p] = "select"]
          /\ UNCHANGED <<count, taskChan, mClosed, isStopped, mCall, sent, running, mDone, stop>>
      BY <1>2 DEF Mem!Load
    <2>2. MemInProgress' = MemInProgress
      BY <2>1 DEF MemInProgress, Mem!TypeOK
    <2>3. MemCounted' /\ count' \in Nat
      BY <2>1, <2>2, MemCountStands
    <2>4. Mem!TypeOK'
      BY <2>1, <2>3 DEF Mem!TypeOK
    <2>5. MemStopFirst'
      BY <1>2, <2>1 DEF Mem!TypeOK, MemStopFirst
    <2>6. MemHasMore'
      BY <2>1 DEF Mem!TypeOK, MemHasMore, MemWasCalled, Mem!Length, MemSized
    <2>7. MemWasCalled' /\ MemNotYet' /\ Mem!NoSendOnClosed'
      BY <2>1 DEF Mem!TypeOK, MemWasCalled, MemNotYet, Mem!NoSendOnClosed
    <2> QED
      BY <2>3, <2>4, <2>5, <2>6, <2>7
  <1> QED
    BY <1>1, <1>2

(* A push that leaves the select without a task sent: the timer, the       *)
(* default case, the context.                                              *)
LEMMA MemLeaveKeeps ==
    ASSUME MemSized, MemCInv, NEW p \in Pushers, mPc[p] = "select", NEW res \in Mem!Results,
           res # "panic", Mem!Return(p, res),
           UNCHANGED <<taskChan, sent, mClosed, isStopped, mCall, running, mDone, stop>>
    PROVE  MemCInv'
  <1> USE DEF MemCInv
  <1>1. MemCounted' /\ count' \in Nat
    BY MemReturnCounts
  <1>2. mPc' = [mPc EXCEPT ![p] = res] /\ res \notin {"idle", "load", "select", "panic"}
    BY DEF Mem!Return, Mem!Results
  <1>3. Mem!TypeOK'
    BY <1>1, <1>2 DEF Mem!TypeOK
  <1>4. MemStopFirst' /\ MemHasMore' /\ MemWasCalled' /\ MemNotYet' /\ Mem!NoSendOnClosed'
    BY <1>2 DEF Mem!TypeOK, MemStopFirst, MemHasMore, MemWasCalled, MemNotYet, Mem!NoSendOnClosed
  <1> QED
    BY <1>1, <1>3, <1>4

(* A push that sends. *)
LEMMA MemSendKeeps ==
    ASSUME MemSized, MemCInv, NEW p \in Pushers, mPc[p] = "select", Mem!SendTask(p),
           UNCHANGED <<mClosed, isStopped, mCall, running, mDone, stop>>
    PROVE  /\ MemCInv' /\ ~mClosed /\ <<p, sent[p] + 1>> \in Mem!Tasks
           /\ taskChan' = Append(taskChan, <<p, sent[p] + 1>>)
           /\ sent' = [sent EXCEPT ![p] = sent[p] + 1]
  <1> USE DEF MemCInv
  <1>1. ~mClosed
    BY DEF MemStopFirst
  <1>2. /\ Len(taskChan) < BufferSize
        /\ taskChan' = Append(taskChan, <<p, sent[p] + 1>>)
        /\ sent' = [sent EXCEPT ![p] = sent[p] + 1]
    BY <1>1 DEF Mem!SendTask
  <1>3. /\ sent[p] \in Nat /\ sent[p] < Mem!Length(mCall[p]) /\ Mem!Length(mCall[p]) <= BatchSize
        /\ Mem!Length(mCall[p]) \in Nat
    BY DEF MemHasMore, Mem!Length, MemSized, Mem!TypeOK
  <1>4. <<p, sent[p] + 1>> \in Mem!Tasks /\ sent[p] + 1 \in 0 .. BatchSize
    BY <1>3 DEF Mem!Tasks, MemSized
  <1>5. taskChan' \in Seq(Mem!Tasks) /\ Len(taskChan') <= BufferSize
    <2>1. taskChan \in Seq(Mem!Tasks)
      BY DEF Mem!TypeOK
    <2>2. Len(taskChan') = Len(taskChan) + 1 /\ taskChan' \in Seq(Mem!Tasks) /\ Len(taskChan) \in Nat
      BY <1>2, <1>4, <2>1
    <2> QED
      BY <1>2, <2>2 DEF MemSized
  <1>6. sent' \in [Pushers -> 0 .. BatchSize]
    BY <1>2, <1>4 DEF Mem!TypeOK
  <1>7. CASE sent[p] + 1 = Mem!Length(mCall[p])
    <2>1. Mem!Return(p, "ok")
      BY <1>1, <1>7 DEF Mem!SendTask
    <2>2. MemCounted' /\ count' \in Nat
      BY <2>1, MemReturnCounts DEF Mem!Results
    <2>3. mPc' = [mPc EXCEPT ![p] = "ok"]
      BY <2>1 DEF Mem!Return
    <2>4. Mem!TypeOK'
      BY <1>5, <1>6, <2>2, <2>3 DEF Mem!TypeOK, Mem!Results
    <2>5. MemStopFirst' /\ Mem!NoSendOnClosed'
      BY <2>3 DEF Mem!TypeOK, MemStopFirst, Mem!NoSendOnClosed
    <2>6. MemHasMore' /\ MemWasCalled' /\ MemNotYet'
      BY <1>2, <2>3 DEF Mem!TypeOK, MemHasMore, MemWasCalled, MemNotYet
    <2> QED
      BY <1>1, <1>2, <1>4, <2>2, <2>4, <2>5, <2>6
  <1>8. CASE sent[p] + 1 # Mem!Length(mCall[p])
    <2>1. UNCHANGED <<count, mPc>>
      BY <1>1, <1>8 DEF Mem!SendTask
    <2>2. MemCounted' /\ count' \in Nat
      <3>1. MemInProgress' = MemInProgress
        BY <2>1 DEF MemInProgress
      <3> QED
        BY <2>1, <3>1, MemCountStands
    <2>3. Mem!TypeOK'
      BY <1>5, <1>6, <2>1 DEF Mem!TypeOK
    <2>4. MemStopFirst' /\ Mem!NoSendOnClosed' /\ MemWasCalled' /\ MemNotYet'
      BY <1>2, <2>1 DEF Mem!TypeOK, MemStopFirst, Mem!NoSendOnClosed, MemWasCalled, MemNotYet
    <2>5. MemHasMore'
      <3>1. sent[p] + 1 < Mem!Length(mCall[p])
        BY <1>3, <1>8
      <3> QED
        BY <1>2, <2>1, <3>1 DEF Mem!TypeOK, MemHasMore
    <2> QED
      BY <1>1, <1>2, <1>4, <2>2, <2>3, <2>4, <2>5
  <1> QED
    BY <1>7, <1>8

(* The four ways to push, and the end of a context. *)
LEMMA MemSelectKeeps ==
    ASSUME MemSized, MemCInv, NEW p \in Pushers,
           Mem!Push(p) \/ Mem!PushCtx(p) \/ Mem!BatchPushCtx(p) \/ Mem!NotWaitPush(p) \/ Mem!CtxDone(p)
    PROVE  MemCInv'
  <1>1. mPc[p] = "select" /\ UNCHANGED <<mClosed, isStopped, mCall, running, mDone, stop>>
    BY DEF Mem!Push, Mem!PushCtx, Mem!BatchPushCtx, Mem!NotWaitPush, Mem!CtxDone, Mem!Selects
  <1>2. CASE Mem!SendTask(p)
    BY <1>1, <1>2, MemSendKeeps
  <1>3. CASE Mem!GiveUp(p, "ErrFull")
    BY <1>1, <1>3, MemLeaveKeeps DEF Mem!GiveUp, Mem!Results
  <1>4. CASE Mem!CtxDone(p)
    BY <1>1, <1>4, MemLeaveKeeps DEF Mem!CtxDone, Mem!Results
  <1> QED
    BY <1>2, <1>3, <1>4 DEF Mem!Push, Mem!PushCtx, Mem!BatchPushCtx, Mem!NotWaitPush

(* A worker takes a task from the channel or executes the one it has; the   *)
(* counter and the flag are none of its business.                           *)
LEMMA MemWorkerKeeps ==
    ASSUME MemSized, MemCInv, NEW w \in Workers, Mem!WorkerStep(w)
    PROVE  MemCInv'
  <1> USE DEF MemCInv
  <1>1. UNCHANGED <<mClosed, isStopped, count, mPc, mCall, sent, stop>>
    BY DEF Mem!WorkerStep, Mem!WorkerTake, Mem!WorkerRun, Mem!pushVars
  <1>2. Mem!TypeOK'
    <2>1. CASE Mem!WorkerRun(w)
      BY <1>1, <2>1 DEF Mem!WorkerRun, Mem!TypeOK
    <2>2. CASE Mem!WorkerTake(w) /\ taskChan # <<>>
      <3>1. /\ running' = [running EXCEPT ![w] = Head(taskChan)]
            /\ taskChan' = Tail(taskChan)
        BY <2>2 DEF Mem!WorkerTake
      <3>2. taskChan \in Seq(Mem!Tasks) /\ Len(taskChan) \in Nat /\ Len(taskChan) > 0
        BY <2>2, EmptySeq DEF Mem!TypeOK
      <3>3. /\ Head(taskChan) \in Mem!Tasks /\ taskChan' \in Seq(Mem!Tasks)
            /\ Len(taskChan') = Len(taskChan) - 1
        BY <2>2, <3>1, <3>2
      <3>4. Len(taskChan') <= BufferSize
        BY <3>2, <3>3 DEF Mem!TypeOK, MemSized
      <3>5. mDone' = mDone
        BY <2>2 DEF Mem!WorkerTake
      <3> QED
        BY <1>1, <3>1, <3>3, <3>4, <3>5 DEF Mem!TypeOK
    <2>3. CASE Mem!WorkerTake(w) /\ taskChan = <<>>
      BY <1>1, <2>3 DEF Mem!WorkerTake, Mem!TypeOK
    <2> QED
      BY <2>1, <2>2, <2>3 DEF Mem!WorkerStep
  <1>3. MemCounted'
    <2>1. MemInProgress' = MemInProgress
      BY <1>1 DEF MemInProgress
    <2> QED
      BY <1>1, <2>1, MemCountStands
  <1>4. MemStopFirst' /\ MemHasMore' /\ MemWasCalled' /\ MemNotYet' /\ Mem!NoSendOnClosed'
    BY <1>1 DEF MemStopFirst, MemHasMore, MemWasCalled, MemNotYet, Mem!NoSendOnClosed
  <1> QED
    BY <1>2, <1>3, <1>4

(* Stop: the flag, the wait for the counter, close(taskChan), wg.Wait().    *)
LEMMA MemStopKeeps ==
    ASSUME MemSized, MemCInv, NEW s \in Stoppers, Mem!Stop(s) \/ Mem!StopStep(s)
    PROVE  MemCInv'
  <1> USE DEF MemCInv
  <1>1. UNCHANGED <<taskChan, count, mPc, mCall, sent, running, mDone>>
    BY DEF Mem!Stop, Mem!StopStep, Mem!waitSafeClose, Mem!CloseChan, Mem!WaitGroup, Mem!pushVars
  <1>2. Mem!TypeOK'
    BY <1>1 DEF Mem!Stop, Mem!StopStep, Mem!waitSafeClose, Mem!CloseChan, Mem!WaitGroup, Mem!TypeOK
  <1>3. MemCounted'
    <2>1. MemInProgress' = MemInProgress
      BY <1>1 DEF MemInProgress
    <2> QED
      BY <1>1, <2>1, MemCountStands
  <1>4. MemHasMore' /\ MemWasCalled' /\ MemNotYet' /\ Mem!NoSendOnClosed'
    BY <1>1 DEF MemHasMore, MemWasCalled, MemNotYet, Mem!NoSendOnClosed
  <1>5. MemStopFirst'
    <2>1. CASE Mem!Stop(s)
      BY <1>1, <2>1 DEF Mem!Stop, MemStopFirst, Mem!TypeOK
    <2>2. CASE Mem!waitSafeClose(s)
      <3>1. \A p \in Pushers : mPc[p] # "select"
        BY <2>2, MemZeroIsNobody DEF Mem!waitSafeClose, MemInProgress
      <3> QED
        BY <1>1, <2>2, <3>1 DEF Mem!waitSafeClose, MemStopFirst, Mem!TypeOK
    <2>3. CASE Mem!CloseChan(s)
      BY <1>1, <2>3 DEF Mem!CloseChan, MemStopFirst, Mem!TypeOK
    <2>4. CASE Mem!WaitGroup(s)
      BY <1>1, <2>4 DEF Mem!WaitGroup, MemStopFirst, Mem!TypeOK
    <2> QED
      BY <2>1, <2>2, <2>3, <2>4 DEF Mem!StopStep
  <1> QED
    BY <1>2, <1>3, <1>4, <1>5

(* Every step of a goroutine keeps what the counter and the flag promise. *)
LEMMA MemNextKeeps == ASSUME MemSized PROVE MemCInv /\ [Mem!Next]_(Mem!vars) => MemCInv'
  <1> SUFFICES ASSUME MemCInv, [Mem!Next]_(Mem!vars) PROVE MemCInv'
    OBVIOUS
  <1>1. CASE UNCHANGED Mem!vars
    <2>1. MemInProgress' = MemInProgress
      BY <1>1 DEF Mem!vars, MemInProgress
    <2>2. MemCounted'
      BY <1>1, <2>1 DEF Mem!vars, MemCInv, MemCounted
    <2> QED
      BY <1>1, <2>2 DEF Mem!vars, MemCInv, Mem!TypeOK, MemStopFirst, MemHasMore, MemWasCalled, MemNotYet,
                        Mem!NoSendOnClosed
  <1>2. ASSUME NEW p \in Pushers,
               (\E k \in Mem!Calls : Mem!Enter(p, k)) \/ Mem!PushStep(p) \/ Mem!CtxDone(p)
        PROVE  MemCInv'
    BY <1>2, MemEnterKeeps, MemLoadKeeps, MemSelectKeeps DEF Mem!PushStep
  <1>3. ASSUME NEW w \in Workers, Mem!WorkerStep(w) PROVE MemCInv'
    BY <1>3, MemWorkerKeeps
  <1>4. ASSUME NEW s \in Stoppers, Mem!Stop(s) \/ Mem!StopStep(s) PROVE MemCInv'
    BY <1>4, MemStopKeeps
  <1> QED
    BY <1>1, <1>2, <1>3, <1>4 DEF Mem!Next

(* A queue that NewMemoryQueue has just made: nobody has called it. *)
LEMMA MemInitKeeps == ASSUME MemSized PROVE Mem!Init => MemCInv
  <1> SUFFICES ASSUME Mem!Init PROVE MemCInv
    OBVIOUS
  <1>1. MemInProgress = {}
    BY DEF Mem!Init, MemInProgress
  <1>2. MemCounted
    BY <1>1, FS_EmptySet DEF Mem!Init, MemCounted
  <1>3. Mem!TypeOK
    <2>1. taskChan \in Seq(Mem!Tasks) /\ Len(taskChan) <= BufferSize
      BY DEF Mem!Init, MemSized
    <2>2. /\ mPc \in [Pushers -> {"idle", "load", "select"} \cup Mem!Results]
          /\ mCall \in [Pushers -> Mem!Calls \cup {"none"}] /\ sent \in [Pushers -> 0 .. BatchSize]
      BY DEF Mem!Init, MemSized
    <2>3. running \in [Workers -> Mem!Tasks \cup {Mem!NoTask, <<"exited">>}]
      BY DEF Mem!Init
    <2>4. stop \in [Stoppers -> {"idle", "late", "wait", "close", "join", "returned"}]
      BY DEF Mem!Init
    <2> QED
      BY <2>1, <2>2, <2>3, <2>4 DEF Mem!Init, Mem!TypeOK
  <1>4. MemStopFirst /\ MemHasMore /\ MemWasCalled /\ MemNotYet /\ Mem!NoSendOnClosed
    BY DEF Mem!Init, MemStopFirst, MemHasMore, MemWasCalled, MemNotYet, Mem!NoSendOnClosed
  <1> QED
    BY <1>2, <1>3, <1>4 DEF MemCInv

(* The first layer holds in every reachable state of the queue. *)
LEMMA MemCInvHolds == ASSUME MemSized PROVE Mem!Spec => []MemCInv
  <1>1. Mem!Init => MemCInv
    BY MemInitKeeps
  <1>2. MemCInv /\ [Mem!Next]_(Mem!vars) => MemCInv'
    BY MemNextKeeps
  <1> QED
    BY <1>1, <1>2, PTL DEF Mem!Spec

(* The channel stays within its buffer and the counter never goes below 0, *)
(* for any number of pushers, stoppers and workers.                        *)
THEOREM MemTypeCorrect == ASSUME MemSized PROVE Mem!Spec => []Mem!TypeOK
  <1>1. MemCInv => Mem!TypeOK
    BY DEF MemCInv
  <1> QED
    BY <1>1, MemCInvHolds, PTL

(* No push sends on the closed channel, whatever pushes overlap with Stop, *)
(* and however many goroutines call it (waitSafeClose).                    *)
THEOREM MemNeverPanics == ASSUME MemSized PROVE Mem!Spec => []Mem!NoSendOnClosed
  <1>1. MemCInv => Mem!NoSendOnClosed
    BY DEF MemCInv
  <1> QED
    BY <1>1, MemCInvHolds, PTL

MemQueued(t) == \E i \in 1 .. Len(taskChan) : taskChan[i] = t
MemHeld(t) == \E w \in Workers : running[w] = t

(* No two goroutines, and no two cells of the channel, have the same task. *)
MemApart ==
    /\ \A i, j \in 1 .. Len(taskChan) : taskChan[i] = taskChan[j] => i = j
    /\ \A v, w \in Workers : running[v] \in Mem!Tasks /\ running[v] = running[w] => v = w
    /\ \A t \in Mem!Tasks : ~(MemQueued(t) /\ MemHeld(t))
    /\ \A t \in mDone : ~MemQueued(t) /\ ~MemHeld(t)

(* The channel, the workers and the executed tasks are all that was sent. *)
MemCovered == \A t \in Mem!Tasks : t \in Mem!Accepted <=> (MemQueued(t) \/ MemHeld(t) \/ t \in mDone)

(* A worker leaves only a channel that is closed and empty. *)
MemExits == \A w \in Workers : running[w] = <<"exited">> => mClosed /\ taskChan = <<>>

(* The Stop that returned waited for every worker. *)
MemJoined ==
    (\E s \in Stoppers : stop[s] = "returned") => \A w \in Workers : running[w] = <<"exited">>

MemPInv == MemApart /\ MemCovered /\ MemExits /\ MemJoined

(* What a worker holds when it is idle or gone is not a task. *)
LEMMA MemNotATask == Mem!NoTask \notin Mem!Tasks /\ <<"exited">> \notin Mem!Tasks /\ Mem!NoTask # <<"exited">>
  <1>1. ASSUME NEW t \in Mem!Tasks PROVE t = <<t[1], t[2]>>
    BY DEF Mem!Tasks
  <1>2. ASSUME NEW a, NEW b PROVE <<a, b>> # <<>> /\ <<a, b>> # <<"exited">>
    BY SMT
  <1> QED
    BY <1>1, <1>2 DEF Mem!NoTask

(* A sent task is new: the one behind the last that its push has sent. *)
LEMMA MemSendPlaces ==
    ASSUME MemSized, MemCInv, MemPInv, NEW p \in Pushers, mPc[p] = "select", Mem!SendTask(p),
           UNCHANGED <<mClosed, isStopped, mCall, running, mDone, stop>>
    PROVE  MemPInv'
  <1> DEFINE n == <<p, sent[p] + 1>>
  <1>1. /\ ~mClosed /\ n \in Mem!Tasks /\ taskChan' = Append(taskChan, n)
        /\ sent' = [sent EXCEPT ![p] = sent[p] + 1]
    BY MemSendKeeps
  <1>2. taskChan \in Seq(Mem!Tasks) /\ sent[p] \in Nat /\ sent \in [Pushers -> 0 .. BatchSize]
    BY DEF MemCInv, Mem!TypeOK, MemSized
  <1>3. /\ Len(taskChan') = Len(taskChan) + 1 /\ Len(taskChan) \in Nat
        /\ \A i \in 1 .. Len(taskChan) : taskChan'[i] = taskChan[i]
        /\ taskChan'[Len(taskChan) + 1] = n
    BY <1>1, <1>2
  <1>4. n \notin Mem!Accepted /\ ~MemQueued(n) /\ ~MemHeld(n) /\ n \notin mDone
    <2>1. n \notin Mem!Accepted
      BY <1>2 DEF Mem!Accepted
    <2> QED
      BY <1>1, <2>1 DEF MemPInv, MemCovered
  <1>5. \A t \in Mem!Tasks : t \in Mem!Accepted' <=> t \in Mem!Accepted \/ t = n
    <2> SUFFICES ASSUME NEW t \in Mem!Tasks PROVE t[2] <= sent'[t[1]] <=> t[2] <= sent[t[1]] \/ t = n
      BY DEF Mem!Accepted
    <2>1. t[1] \in Pushers /\ t[2] \in Nat /\ t = <<t[1], t[2]>>
      BY DEF Mem!Tasks, MemSized
    <2>2. CASE t[1] # p
      BY <1>1, <1>2, <2>1, <2>2
    <2>3. CASE t[1] = p
      BY <1>1, <1>2, <2>1, <2>3
    <2> QED
      BY <2>2, <2>3
  <1>6. \A t : MemQueued(t)' <=> MemQueued(t) \/ t = n
    <2>1. 1 .. Len(taskChan') = 1 .. Len(taskChan) \cup {Len(taskChan) + 1}
      BY <1>3
    <2> HIDE DEF n
    <2> QED
      BY <1>3, <2>1 DEF MemQueued
  <1>7. \A t : MemHeld(t)' <=> MemHeld(t)
    BY DEF MemHeld
  <1>8. MemApart'
    <2>1. \A i, j \in 1 .. Len(taskChan') : taskChan'[i] = taskChan'[j] => i = j
      <3> SUFFICES ASSUME NEW i \in 1 .. Len(taskChan'), NEW j \in 1 .. Len(taskChan'),
                          taskChan'[i] = taskChan'[j]
                   PROVE  i = j
        OBVIOUS
      <3>1. \A k \in 1 .. Len(taskChan) : taskChan[k] # n
        BY <1>4 DEF MemQueued
      <3> QED
        BY <1>3, <3>1 DEF MemPInv, MemApart
    <2>2. \A v, w \in Workers : running'[v] \in Mem!Tasks /\ running'[v] = running'[w] => v = w
      BY DEF MemPInv, MemApart
    <2>3. \A t \in Mem!Tasks : ~(MemQueued(t)' /\ MemHeld(t)')
      BY <1>4, <1>6, <1>7 DEF MemPInv, MemApart
    <2>4. \A t \in mDone' : ~MemQueued(t)' /\ ~MemHeld(t)'
      BY <1>4, <1>6, <1>7 DEF MemPInv, MemApart
    <2> QED
      BY <2>1, <2>2, <2>3, <2>4 DEF MemApart
  <1>9. MemCovered'
    BY <1>1, <1>5, <1>6, <1>7 DEF MemPInv, MemCovered
  <1>10. MemExits' /\ MemJoined'
    BY <1>1 DEF MemPInv, MemExits, MemJoined
  <1> QED
    BY <1>8, <1>9, <1>10 DEF MemPInv

(* Steps that move no task: entering, looking at the flag, giving up, and   *)
(* the steps of Stop up to close(taskChan).                                 *)
LEMMA MemQuietPlaces ==
    ASSUME MemPInv, UNCHANGED <<taskChan, sent, running, mDone>>, mClosed => mClosed',
           \A s \in Stoppers : stop'[s] = "returned" =>
               stop[s] = "returned" \/ \A w \in Workers : running[w] = <<"exited">>
    PROVE  MemPInv'
  <1>1. MemApart'
    BY DEF MemPInv, MemApart, MemQueued, MemHeld
  <1>2. MemCovered'
    BY DEF MemPInv, MemCovered, Mem!Accepted, MemQueued, MemHeld
  <1>3. MemExits' /\ MemJoined'
    BY DEF MemPInv, MemExits, MemJoined
  <1> QED
    BY <1>1, <1>2, <1>3 DEF MemPInv

(* for task := range taskChan: the head moves from the channel into the     *)
(* hands of one worker.                                                     *)
LEMMA MemTakePlaces ==
    ASSUME MemCInv, MemPInv, NEW w \in Workers, Mem!WorkerTake(w), taskChan # <<>>
    PROVE  MemPInv'
  <1> DEFINE h == Head(taskChan)
  <1>1. /\ running[w] = Mem!NoTask /\ running' = [running EXCEPT ![w] = h] /\ taskChan' = Tail(taskChan)
        /\ UNCHANGED <<mClosed, sent, mDone, stop>>
    BY DEF Mem!WorkerTake, Mem!pushVars
  <1>2. taskChan \in Seq(Mem!Tasks) /\ Len(taskChan) \in Nat /\ Len(taskChan) > 0
    BY EmptySeq DEF MemCInv, Mem!TypeOK
  <1>3. /\ Len(taskChan') = Len(taskChan) - 1
        /\ \A i \in 1 .. Len(taskChan') : taskChan'[i] = taskChan[i + 1]
        /\ h = taskChan[1] /\ h \in Mem!Tasks
    BY <1>1, <1>2
  <1>4. MemQueued(h) /\ ~MemHeld(h) /\ h \notin mDone
    <2>1. MemQueued(h)
      BY <1>2, <1>3 DEF MemQueued
    <2> QED
      BY <1>3, <2>1 DEF MemPInv, MemApart
  <1>5. \A t : MemQueued(t)' <=> MemQueued(t) /\ t # h
    <2> SUFFICES ASSUME NEW t PROVE MemQueued(t)' <=> MemQueued(t) /\ t # h
      OBVIOUS
    <2>1. ASSUME MemQueued(t)' PROVE MemQueued(t) /\ t # h
      <3>1. PICK i \in 1 .. Len(taskChan') : taskChan'[i] = t
        BY <2>1 DEF MemQueued
      <3>2. i + 1 \in 1 .. Len(taskChan) /\ taskChan[i + 1] = t /\ 1 \in 1 .. Len(taskChan) /\ i + 1 # 1
        BY <1>2, <1>3, <3>1
      <3>3. t # taskChan[1]
        BY <3>2 DEF MemPInv, MemApart
      <3> QED
        BY <1>3, <3>2, <3>3 DEF MemQueued
    <2>2. ASSUME MemQueued(t), t # h PROVE MemQueued(t)'
      <3>1. PICK i \in 1 .. Len(taskChan) : taskChan[i] = t
        BY <2>2 DEF MemQueued
      <3>2. i # 1
        BY <1>3, <2>2, <3>1
      <3>3. i - 1 \in 1 .. Len(taskChan') /\ (i - 1) + 1 = i
        BY <1>2, <1>3, <3>1, <3>2
      <3>4. taskChan'[i - 1] = t
        BY <1>3, <3>1, <3>3
      <3> QED
        BY <3>3, <3>4 DEF MemQueued
    <2> QED
      BY <2>1, <2>2
  <1>6. \A t \in Mem!Tasks : MemHeld(t)' <=> MemHeld(t) \/ t = h
    BY <1>1, MemNotATask DEF MemHeld, MemCInv, Mem!TypeOK
  <1>7. MemApart'
    <2>1. \A i, j \in 1 .. Len(taskChan') : taskChan'[i] = taskChan'[j] => i = j
      <3> SUFFICES ASSUME NEW i \in 1 .. Len(taskChan'), NEW j \in 1 .. Len(taskChan'),
                          taskChan'[i] = taskChan'[j]
                   PROVE  i = j
        OBVIOUS
      <3>1. i + 1 \in 1 .. Len(taskChan) /\ j + 1 \in 1 .. Len(taskChan) /\ taskChan[i + 1] = taskChan[j + 1]
        BY <1>2, <1>3
      <3>2. i + 1 = j + 1
        BY <3>1 DEF MemPInv, MemApart
      <3> QED
        BY <1>2, <1>3, <3>2
    <2>2. \A v, u \in Workers : running'[v] \in Mem!Tasks /\ running'[v] = running'[u] => v = u
      <3>1. \A u \in Workers : running[u] # h
        BY <1>4 DEF MemHeld
      <3> QED
        BY <1>1, <3>1 DEF MemPInv, MemApart, MemCInv, Mem!TypeOK
    <2>3. \A t \in Mem!Tasks : ~(MemQueued(t)' /\ MemHeld(t)')
      BY <1>5, <1>6 DEF MemPInv, MemApart
    <2>4. \A t \in mDone' : ~MemQueued(t)' /\ ~MemHeld(t)'
      BY <1>1, <1>4, <1>5, <1>6 DEF MemPInv, MemApart, MemCInv, Mem!TypeOK
    <2> QED
      BY <2>1, <2>2, <2>3, <2>4 DEF MemApart
  <1>8. MemCovered'
    <2>1. Mem!Accepted' = Mem!Accepted
      BY <1>1 DEF Mem!Accepted
    <2> QED
      BY <1>1, <1>3, <1>4, <1>5, <1>6, <2>1 DEF MemPInv, MemCovered
  <1>9. MemExits'
    BY <1>1, <1>3, MemNotATask DEF MemPInv, MemExits, MemCInv, Mem!TypeOK
  <1>10. MemJoined'
    BY <1>1, MemNotATask DEF MemPInv, MemJoined, MemCInv, Mem!TypeOK
  <1> QED
    BY <1>7, <1>8, <1>9, <1>10 DEF MemPInv

(* The range ends: the channel is closed and empty, and the worker leaves. *)
LEMMA MemExitPlaces ==
    ASSUME MemCInv, MemPInv, NEW w \in Workers, Mem!WorkerTake(w), taskChan = <<>>
    PROVE  MemPInv'
  <1>1. /\ running[w] = Mem!NoTask /\ running' = [running EXCEPT ![w] = <<"exited">>]
        /\ mClosed /\ UNCHANGED <<taskChan, mClosed, sent, mDone, stop>>
    BY DEF Mem!WorkerTake, Mem!pushVars
  <1>2. \A t \in Mem!Tasks : MemHeld(t)' <=> MemHeld(t)
    BY <1>1, MemNotATask DEF MemHeld, MemCInv, Mem!TypeOK
  <1>3. \A t : MemQueued(t)' <=> MemQueued(t)
    BY <1>1 DEF MemQueued
  <1>4. MemApart'
    <2>1. \A i, j \in 1 .. Len(taskChan') : taskChan'[i] = taskChan'[j] => i = j
      BY <1>1 DEF MemPInv, MemApart
    <2>2. \A v, u \in Workers : running'[v] \in Mem!Tasks /\ running'[v] = running'[u] => v = u
      BY <1>1, MemNotATask DEF MemPInv, MemApart, MemCInv, Mem!TypeOK
    <2>3. /\ \A t \in Mem!Tasks : ~(MemQueued(t)' /\ MemHeld(t)')
          /\ \A t \in mDone' : ~MemQueued(t)' /\ ~MemHeld(t)'
      BY <1>1, <1>2, <1>3 DEF MemPInv, MemApart, MemCInv, Mem!TypeOK
    <2> QED
      BY <2>1, <2>2, <2>3 DEF MemApart
  <1>5. MemCovered'
    <2>1. Mem!Accepted' = Mem!Accepted
      BY <1>1 DEF Mem!Accepted
    <2> QED
      BY <1>1, <1>2, <1>3, <2>1 DEF MemPInv, MemCovered
  <1>6. MemExits' /\ MemJoined'
    BY <1>1 DEF MemPInv, MemExits, MemJoined, MemCInv, Mem!TypeOK
  <1> QED
    BY <1>4, <1>5, <1>6 DEF MemPInv

(* A worker executes its task, which from then on is in no other place. *)
LEMMA MemRunPlaces ==
    ASSUME MemCInv, MemPInv, NEW w \in Workers, Mem!WorkerRun(w)
    PROVE  MemPInv'
  <1> DEFINE r == running[w]
  <1>1. /\ r \in Mem!Tasks /\ mDone' = mDone \cup {r} /\ running' = [running EXCEPT ![w] = Mem!NoTask]
        /\ UNCHANGED <<taskChan, mClosed, sent, stop>>
    BY DEF Mem!WorkerRun, Mem!pushVars
  <1>2. MemHeld(r) /\ ~MemQueued(r)
    BY <1>1 DEF MemHeld, MemPInv, MemApart
  <1>3. \A t \in Mem!Tasks : MemHeld(t)' <=> MemHeld(t) /\ t # r
    BY <1>1, MemNotATask DEF MemHeld, MemCInv, Mem!TypeOK, MemPInv, MemApart
  <1>4. \A t : MemQueued(t)' <=> MemQueued(t)
    BY <1>1 DEF MemQueued
  <1>5. MemApart'
    <2>1. \A i, j \in 1 .. Len(taskChan') : taskChan'[i] = taskChan'[j] => i = j
      BY <1>1 DEF MemPInv, MemApart
    <2>2. \A v, u \in Workers : running'[v] \in Mem!Tasks /\ running'[v] = running'[u] => v = u
      BY <1>1, MemNotATask DEF MemPInv, MemApart, MemCInv, Mem!TypeOK
    <2>3. /\ \A t \in Mem!Tasks : ~(MemQueued(t)' /\ MemHeld(t)')
          /\ \A t \in mDone' : ~MemQueued(t)' /\ ~MemHeld(t)'
      BY <1>1, <1>2, <1>3, <1>4 DEF MemPInv, MemApart, MemCInv, Mem!TypeOK
    <2> QED
      BY <2>1, <2>2, <2>3 DEF MemApart
  <1>6. MemCovered'
    <2>1. Mem!Accepted' = Mem!Accepted
      BY <1>1 DEF Mem!Accepted
    <2> QED
      BY <1>1, <1>2, <1>3, <1>4, <2>1 DEF MemPInv, MemCovered
  <1>7. MemExits' /\ MemJoined'
    BY <1>1, MemNotATask DEF MemPInv, MemExits, MemJoined, MemCInv, Mem!TypeOK
  <1> QED
    BY <1>5, <1>6, <1>7 DEF MemPInv

(* Every step of a goroutine keeps each task in its one place. *)
LEMMA MemNextPlaces == ASSUME MemSized PROVE MemCInv /\ MemPInv /\ [Mem!Next]_(Mem!vars) => MemPInv'
  <1> SUFFICES ASSUME MemCInv, MemPInv, [Mem!Next]_(Mem!vars) PROVE MemPInv'
    OBVIOUS
  <1>1. CASE UNCHANGED Mem!vars
    BY <1>1, MemQuietPlaces DEF Mem!vars
  <1>2. ASSUME NEW p \in Pushers, \E k \in Mem!Calls : Mem!Enter(p, k) PROVE MemPInv'
    BY <1>2, MemQuietPlaces DEF Mem!Enter
  <1>3. ASSUME NEW p \in Pushers, Mem!Load(p) PROVE MemPInv'
    BY <1>3, MemQuietPlaces DEF Mem!Load
  <1>4. ASSUME NEW p \in Pushers,
               Mem!Push(p) \/ Mem!PushCtx(p) \/ Mem!BatchPushCtx(p) \/ Mem!NotWaitPush(p) \/ Mem!CtxDone(p)
        PROVE  MemPInv'
    <2>1. mPc[p] = "select" /\ UNCHANGED <<mClosed, isStopped, mCall, running, mDone, stop>>
      BY <1>4 DEF Mem!Push, Mem!PushCtx, Mem!BatchPushCtx, Mem!NotWaitPush, Mem!CtxDone, Mem!Selects
    <2>2. CASE Mem!SendTask(p)
      BY <2>1, <2>2, MemSendPlaces
    <2>3. CASE Mem!GiveUp(p, "ErrFull") \/ Mem!CtxDone(p)
      <3>1. UNCHANGED <<taskChan, sent>>
        BY <2>3 DEF Mem!GiveUp, Mem!CtxDone
      <3> QED
        BY <2>1, <3>1, MemQuietPlaces
    <2> QED
      BY <1>4, <2>2, <2>3 DEF Mem!Push, Mem!PushCtx, Mem!BatchPushCtx, Mem!NotWaitPush
  <1>5. ASSUME NEW w \in Workers, Mem!WorkerStep(w) PROVE MemPInv'
    BY <1>5, MemTakePlaces, MemExitPlaces, MemRunPlaces DEF Mem!WorkerStep
  <1>6. ASSUME NEW s \in Stoppers, Mem!Stop(s) \/ Mem!StopStep(s) PROVE MemPInv'
    <2>1. UNCHANGED <<taskChan, sent, running, mDone>> /\ (mClosed => mClosed')
      BY <1>6 DEF Mem!Stop, Mem!StopStep, Mem!waitSafeClose, Mem!CloseChan, Mem!WaitGroup, Mem!pushVars
    <2>2. \A v \in Stoppers : stop'[v] = "returned" =>
              stop[v] = "returned" \/ \A w \in Workers : running[w] = <<"exited">>
      BY <1>6 DEF Mem!Stop, Mem!StopStep, Mem!waitSafeClose, Mem!CloseChan, Mem!WaitGroup, MemCInv, Mem!TypeOK
    <2> QED
      BY <2>1, <2>2, MemQuietPlaces
  <1> QED
    BY <1>1, <1>2, <1>3, <1>4, <1>5, <1>6 DEF Mem!Next, Mem!PushStep

(* A queue that NewMemoryQueue has just made has no task anywhere. *)
LEMMA MemInitPlaces == ASSUME MemSized PROVE Mem!Init => MemPInv
  <1> SUFFICES ASSUME Mem!Init PROVE MemPInv
    OBVIOUS
  <1>1. taskChan = <<>> /\ Len(taskChan) = 0 /\ mDone = {} /\ \A w \in Workers : running[w] = Mem!NoTask
    BY DEF Mem!Init
  <1>2. \A t : ~MemQueued(t)
    BY <1>1 DEF MemQueued
  <1>3. \A t \in Mem!Tasks : ~MemHeld(t)
    BY <1>1, MemNotATask DEF MemHeld
  <1>4. MemApart
    BY <1>1, <1>2, <1>3, MemNotATask DEF MemApart
  <1>5. Mem!Accepted = {}
    <2>1. \A t \in Mem!Tasks : t[1] \in Pushers /\ t[2] \in Nat /\ t[2] > 0
      BY DEF Mem!Tasks, MemSized
    <2> QED
      BY <2>1 DEF Mem!Init, Mem!Accepted
  <1>6. MemCovered
    BY <1>1, <1>2, <1>3, <1>5 DEF MemCovered
  <1>7. MemExits /\ MemJoined
    BY <1>1, MemNotATask DEF MemExits, MemJoined, Mem!Init
  <1> QED
    BY <1>4, <1>6, <1>7 DEF MemPInv

(* Both layers hold in every reachable state of the queue. *)
LEMMA MemPInvHolds == ASSUME MemSized PROVE Mem!Spec => [](MemCInv /\ MemPInv)
  <1>1. Mem!Init => MemPInv
    BY MemInitPlaces
  <1>2. MemCInv /\ MemPInv /\ [Mem!Next]_(Mem!vars) => MemPInv'
    BY MemNextPlaces
  <1> QED
    BY <1>1, <1>2, MemCInvHolds, PTL DEF Mem!Spec

(* A task that is queued, held or done is in one of these places only. *)
LEMMA MemOnePlaceFollows == ASSUME MemCInv, MemPInv PROVE Mem!OnePlace
  <1> SUFFICES ASSUME NEW t \in Mem!Tasks
               PROVE  LET places == {i \in DOMAIN taskChan : taskChan[i] = t}
                          hands == {w \in Workers : running[w] = t}
                      IN  /\ t \in Mem!Accepted <=> (places # {} \/ hands # {} \/ t \in mDone)
                          /\ t \in mDone => places = {} /\ hands = {}
                          /\ places # {} => hands = {}
                          /\ \A i, j \in places : i = j
    BY DEF Mem!OnePlace
  <1> DEFINE places == {i \in DOMAIN taskChan : taskChan[i] = t}
             hands == {w \in Workers : running[w] = t}
  <1>1. DOMAIN taskChan = 1 .. Len(taskChan)
    BY DEF MemCInv, Mem!TypeOK
  <1>2. places # {} <=> MemQueued(t)
    BY <1>1 DEF MemQueued
  <1>3. hands # {} <=> MemHeld(t)
    BY DEF MemHeld
  <1>4. /\ t \in Mem!Accepted <=> (places # {} \/ hands # {} \/ t \in mDone)
        /\ t \in mDone => places = {} /\ hands = {}
        /\ places # {} => hands = {}
    BY <1>2, <1>3 DEF MemPInv, MemCovered, MemApart
  <1>5. \A i, j \in places : i = j
    BY <1>1 DEF MemPInv, MemApart
  <1> QED
    BY <1>4, <1>5

(* A Stop that has returned has seen every worker exit, and a worker exits  *)
(* from an empty channel.                                                   *)
LEMMA MemDrainsFollows == ASSUME MemCInv, MemPInv, Workers # {} PROVE Mem!StopDrains
  <1> SUFFICES ASSUME NEW s \in Stoppers, stop[s] = "returned"
               PROVE  Mem!Accepted = mDone
    BY DEF Mem!StopDrains
  <1>1. \A w \in Workers : running[w] = <<"exited">>
    BY DEF MemPInv, MemJoined
  <1>2. taskChan = <<>> /\ Len(taskChan) = 0
    BY <1>1 DEF MemPInv, MemExits
  <1>3. \A t \in Mem!Tasks : ~MemQueued(t) /\ ~MemHeld(t)
    BY <1>1, <1>2, MemNotATask DEF MemQueued, MemHeld
  <1>4. Mem!Accepted \subseteq Mem!Tasks /\ mDone \subseteq Mem!Tasks
    BY DEF Mem!Accepted, MemCInv, Mem!TypeOK
  <1> QED
    BY <1>3, <1>4 DEF MemPInv, MemCovered

(* An accepted task is in the channel once, in the hands of one worker, or  *)
(* executed: no interleaving of pushes, workers and Stop loses or repeats   *)
(* one.                                                                     *)
THEOREM MemTaskInOnePlace == ASSUME MemSized PROVE Mem!Spec => []Mem!OnePlace
  BY MemOnePlaceFollows, MemPInvHolds, PTL

(* When the Stop that closed the channel returns, what was executed is what *)
(* was accepted.  NewMemoryQueue panics on a worker count below 1; without  *)
(* a worker wg.Wait() would return at once and leave the channel as it is.  *)
THEOREM MemStopLeavesNothing == ASSUME MemSized, Workers # {} PROVE Mem!Spec => []Mem!StopDrains
  <1>1. MemCInv /\ MemPInv => Mem!StopDrains
    BY MemDrainsFollows
  <1> QED
    BY <1>1, MemPInvHolds, PTL
=============================================================================
