--------------------------- MODULE Services_proofs ---------------------------
(***************************************************************************)
(* The suite MCServices keeps what is proved of its parts.  A behaviour of  *)
(* the suite is one of a single part, so that each part's inductive         *)
(* invariant holds while that part runs; ServiceParts_proofs and            *)
(* EtcdWatch_proofs are instantiated with the sets that the suite chooses,  *)
(* the bounds stay parameters.                                              *)
(***************************************************************************)
EXTENDS MCServices, FiniteSetTheorems, TLAPS

Parts == INSTANCE ServiceParts_proofs WITH SimSenders <- {"s", "t"}, SimConsumers <- {"c"}, SimClosers <- {"k"},
             Size <- 1, Members <- {"c", "d"}, KafkaClosers <- {"c"}, Buffer <- 1, AutoCommit <- TRUE,
             TimerKeys <- {"a"}, TimerClients <- {"c"}, Instances <- {"i", "j"}, batchSize <- 1,
             KvKeys <- {"a", "b"}, Watchers <- {"w"}, Full <- {}, Prefixed <- {"a"}, Peers <- {"a"},
             RgrFaults <- 2, MaxLost <- 1, Calls <- {"c", "d"}, LeaseFaults <- MaxFaults,
             Cores <- 2, FullUsage <- 100, Pushers <- {"p", "q"}, Stoppers <- {"s", "t"}, Workers <- {"w"}
Watches == INSTANCE EtcdWatch_proofs WITH Addrs <- {"a", "b"}, MaxOpts <- 0, ready <- pReady, view <- pView,
               Subs <- {"s"}, MaxEntries <- 2, MaxBreaks <- MaxFaults, Cap <- 1, kRev <- wRev, made <- wMade,
               cancelled <- wCancelled, sub <- wSub, kFaults <- wFaults
-----------------------------------------------------------------------------
(* NewMemoryQueue gets a buffer with room, and a batch has a task. *)
LEMMA MemQSized == Parts!MemSized
  BY ServicesAssumption DEF Parts!MemSized, ServicesAssumption

(* A queue that NewMemoryQueue has just made satisfies the invariant. *)
LEMMA MemQBegins == ASSUME MemQ!Init PROVE Parts!MemCInv /\ Parts!MemPInv
  <1>1. Parts!Mem!Init
    BY Zenon DEF MemQ!NoTask, MemQ!Init, Parts!Mem!NoTask, Parts!Mem!Init
  <1> QED
    BY <1>1, MemQSized, Parts!MemInitKeeps, Parts!MemInitPlaces

(* Every step of a push, a worker or Stop keeps the invariant of memamq. *)
LEMMA MemQGoesOn == ASSUME Parts!MemCInv, Parts!MemPInv, [MemQ!Next]_memVars PROVE Parts!MemCInv' /\ Parts!MemPInv'
  <1>1. [Parts!Mem!Next]_(Parts!Mem!vars)
    BY Zenon DEF memVars, MemQ!pushVars, MemQ!vars, MemQ!Calls, MemQ!NoTask, MemQ!Tasks, MemQ!Length, MemQ!Enter,
           MemQ!Return, MemQ!Load, MemQ!SendTask, MemQ!Blocked, MemQ!GiveUp, MemQ!Selects, MemQ!Push, MemQ!PushCtx,
           MemQ!BatchPushCtx, MemQ!CtxDone, MemQ!NotWaitPush, MemQ!WorkerTake, MemQ!WorkerRun, MemQ!Stop,
           MemQ!waitSafeClose, MemQ!CloseChan, MemQ!WaitGroup, MemQ!PushStep, MemQ!WorkerStep, MemQ!StopStep, MemQ!Next,
           Parts!Mem!pushVars, Parts!Mem!vars, Parts!Mem!Calls, Parts!Mem!NoTask, Parts!Mem!Tasks, Parts!Mem!Length,
           Parts!Mem!Enter, Parts!Mem!Return, Parts!Mem!Load, Parts!Mem!SendTask, Parts!Mem!Blocked, Parts!Mem!GiveUp,
           Parts!Mem!Selects, Parts!Mem!Push, Parts!Mem!PushCtx, Parts!Mem!BatchPushCtx, Parts!Mem!CtxDone,
           Parts!Mem!NotWaitPush, Parts!Mem!WorkerTake, Parts!Mem!WorkerRun, Parts!Mem!Stop, Parts!Mem!waitSafeClose,
           Parts!Mem!CloseChan, Parts!Mem!WaitGroup, Parts!Mem!PushStep, Parts!Mem!WorkerStep, Parts!Mem!StopStep,
           Parts!Mem!Next
  <1> QED
    BY <1>1, MemQSized, Parts!MemNextKeeps, Parts!MemNextPlaces

(* memamq: types, no push sends on the closed channel, a task is in one     *)
(* place, and Stop leaves none.                                             *)
LEMMA MemQHolds ==
    ASSUME Parts!MemCInv, Parts!MemPInv
    PROVE  MemQ!TypeOK /\ MemQ!NoSendOnClosed /\ MemQ!StopDrains /\ MemQ!OnePlace
  <1>1. Parts!Mem!TypeOK /\ Parts!Mem!NoSendOnClosed /\ Parts!Mem!StopDrains /\ Parts!Mem!OnePlace
    BY Parts!MemDrainsFollows, Parts!MemOnePlaceFollows DEF Parts!MemCInv
  <1> QED
    BY <1>1, Zenon DEF MemQ!Calls, MemQ!Results, MemQ!NoTask, MemQ!Tasks, MemQ!Accepted, MemQ!TypeOK,
           MemQ!NoSendOnClosed, MemQ!StopDrains, MemQ!OnePlace, Parts!Mem!Calls, Parts!Mem!Results, Parts!Mem!NoTask,
           Parts!Mem!Tasks, Parts!Mem!Accepted, Parts!Mem!TypeOK, Parts!Mem!NoSendOnClosed, Parts!Mem!StopDrains,
           Parts!Mem!OnePlace

(* The channel of a topic in simmq has room for one message. *)
LEMMA SimSized == Parts!SimSized
  BY ServicesAssumption DEF Parts!SimSized, ServicesAssumption

(* A topic that nobody has asked for satisfies the invariant. *)
LEMMA SimBegins == ASSUME Sim!Init PROVE Parts!SimInv
  <1>1. Parts!Sim!Init
    BY Zenon DEF Sim!Procs, Sim!NoQueue, Sim!Queues, Sim!Init, Parts!Sim!Procs, Parts!Sim!NoQueue, Parts!Sim!Queues,
           Parts!Sim!Init
  <1> QED
    BY <1>1, SimSized, Parts!SimStarts

(* Every step of SendMessage, Subscribe or Close keeps the invariant of     *)
(* simmq.                                                                   *)
LEMMA SimGoesOn == ASSUME Parts!SimInv, [Sim!Next]_simVars PROVE Parts!SimInv'
  <1>1. [Parts!Sim!Next]_(Parts!Sim!vars)
    BY Zenon DEF simVars, Sim!Procs, Sim!NoQueue, Sim!vars, Sim!queueVars, Sim!history, Sim!getTopicMemory,
           Sim!SendCheck, Sim!WriteLocked, Sim!SendLock, Sim!SendMessage, Sim!Subscribe, Sim!CloseFlag,
           Sim!CloseDone, Sim!CloseFn, Sim!CloseLock, Sim!CloseChan, Sim!SendStep, Sim!CloseStep, Sim!Next,
           Parts!Sim!Procs, Parts!Sim!NoQueue, Parts!Sim!vars, Parts!Sim!queueVars, Parts!Sim!history,
           Parts!Sim!getTopicMemory, Parts!Sim!SendCheck, Parts!Sim!WriteLocked, Parts!Sim!SendLock,
           Parts!Sim!SendMessage, Parts!Sim!Subscribe, Parts!Sim!CloseFlag, Parts!Sim!CloseDone,
           Parts!Sim!CloseFn, Parts!Sim!CloseLock, Parts!Sim!CloseChan, Parts!Sim!SendStep, Parts!Sim!CloseStep,
           Parts!Sim!Next
  <1> QED
    BY <1>1, SimSized, Parts!SimNext

(* simmq: types, order across Close, one open queue, and none in the table  *)
(* that is closed.                                                          *)
LEMMA SimHolds == ASSUME Parts!SimInv PROVE Sim!TypeOK /\ Sim!AcceptedInOrder /\ Sim!OneOpenQueue /\ Sim!TableIsOpen
  <1>1. Parts!Sim!TypeOK /\ Parts!Sim!AcceptedInOrder /\ Parts!Sim!OneOpenQueue /\ Parts!Sim!TableIsOpen
    BY SimSized, Parts!SimImplies
  <1> QED
    BY <1>1, Zenon DEF Sim!Procs, Sim!NoQueue, Sim!Queues, Sim!Messages, Sim!TypeOK, Sim!AcceptedInOrder,
           Sim!TableIsOpen, Sim!OneOpenQueue, Parts!Sim!Procs, Parts!Sim!NoQueue, Parts!Sim!Queues,
           Parts!Sim!Messages, Parts!Sim!TypeOK, Parts!Sim!AcceptedInOrder, Parts!Sim!TableIsOpen,
           Parts!Sim!OneOpenQueue

(* The channel of a Kafka consumer has room for one message. *)
LEMMA KafkaSized == Parts!KafkaSized
  BY ServicesAssumption DEF Parts!KafkaSized, ServicesAssumption

(* A group that nobody has joined satisfies the invariant. *)
LEMMA KafkaBegins == ASSUME Kafka!Init PROVE Parts!KafkaInv
  <1>1. Parts!Kafka!Init
    BY Zenon DEF Kafka!NoOffset, Kafka!Nobody, Kafka!Free, Kafka!Fresh, Kafka!Init, Parts!Kafka!NoOffset,
           Parts!Kafka!Nobody, Parts!Kafka!Free, Parts!Kafka!Fresh, Parts!Kafka!Init
  <1> QED
    BY <1>1, KafkaSized, Parts!KafkaStarts

(* Every step of the broker, a claim, a loop or a subscriber keeps the      *)
(* invariant of the consumer group.                                         *)
LEMMA KafkaGoesOn == ASSUME Parts!KafkaInv, [Kafka!Next]_kafkaVars PROVE Parts!KafkaInv'
  <1>1. [Parts!Kafka!Next]_(Parts!Kafka!vars)
    BY Zenon DEF kafkaVars, Kafka!broker, Kafka!vars, Kafka!NoOffset, Kafka!Nobody, Kafka!Free, Kafka!Fresh,
           Kafka!Produce, Kafka!Join, Kafka!Exit, Kafka!Receive, Kafka!Send, Kafka!Drop, Kafka!Finish,
           Kafka!Close, Kafka!Subscribe, Kafka!Mark, Kafka!HandlerFails, Kafka!Commit, Kafka!Leave,
           Kafka!Rebalance, Kafka!Evict, Kafka!Crash, Kafka!Claim, Kafka!Loop, Kafka!Reader, Kafka!Next,
           Kafka!Max, Parts!Kafka!broker, Parts!Kafka!vars, Parts!Kafka!NoOffset, Parts!Kafka!Nobody,
           Parts!Kafka!Free, Parts!Kafka!Fresh, Parts!Kafka!Produce, Parts!Kafka!Join, Parts!Kafka!Exit,
           Parts!Kafka!Receive, Parts!Kafka!Send, Parts!Kafka!Drop, Parts!Kafka!Finish, Parts!Kafka!Close,
           Parts!Kafka!Subscribe, Parts!Kafka!Mark, Parts!Kafka!HandlerFails, Parts!Kafka!Commit,
           Parts!Kafka!Leave, Parts!Kafka!Rebalance, Parts!Kafka!Evict, Parts!Kafka!Crash, Parts!Kafka!Claim,
           Parts!Kafka!Loop, Parts!Kafka!Reader, Parts!Kafka!Next, Parts!Kafka!Max
  <1> QED
    BY <1>1, KafkaSized, Parts!KafkaNext

(* kafka: types, and what is committed was handed out. *)
LEMMA KafkaHolds == ASSUME Parts!KafkaInv PROVE Kafka!TypeOK /\ Kafka!CommittedWereHanded
  <1>1. Parts!Kafka!TypeOK /\ Parts!Kafka!CommittedWereHanded
    BY KafkaSized, ServicesAssumption, Parts!KafkaImplies DEF ServicesAssumption
  <1> QED
    BY <1>1, Zenon DEF Kafka!NoOffset, Kafka!Nobody, Kafka!TypeOK, Kafka!CommittedWereHanded, Parts!Kafka!NoOffset,
           Parts!Kafka!Nobody, Parts!Kafka!TypeOK, Parts!Kafka!CommittedWereHanded

(* redistimer: one key, and batches of one. *)
LEMMA TimerSized == Parts!TimerSized
  <1>1. IsFiniteSet({"a"})
    BY FS_Singleton, Zenon
  <1> QED
    BY <1>1, ServicesAssumption DEF Parts!TimerSized, Parts!IsFiniteSet, IsFiniteSet, ServicesAssumption

(* An empty timer satisfies its two invariants. *)
LEMMA TimerBegins == ASSUME Timer!Init PROVE Parts!TimerInv /\ Parts!TimerBounds
  <1>1. Parts!Timer!Init
    BY Zenon DEF Timer!NoScore, Timer!NoItem, Timer!IdleClient, Timer!IdleInst, Timer!Init, Parts!Timer!NoScore,
           Parts!Timer!NoItem, Parts!Timer!IdleClient, Parts!Timer!IdleInst, Parts!Timer!Init
  <1> QED
    BY <1>1, TimerSized, ServicesAssumption, Parts!TimerStarts, Parts!TimerStartsSmall DEF ServicesAssumption

(* Every step of a caller, an instance or the clock keeps them. *)
LEMMA TimerGoesOn ==
    ASSUME Parts!TimerInv, Parts!TimerBounds, [Timer!Next]_timerVars
    PROVE  Parts!TimerInv' /\ Parts!TimerBounds'
  <1>1. [Parts!Timer!Next]_(Parts!Timer!vars)
    BY Zenon DEF timerVars, Timer!ToSet, Parts!Timer!ToSet, Timer!Cardinality, Timer!IsFiniteSet,
           Parts!Timer!Cardinality, Parts!Timer!IsFiniteSet,
           Timer!store, Timer!vars, Timer!NoScore, Timer!NoItem, Timer!IdleClient, Timer!IdleInst, Timer!Exec,
           Timer!Cmd, Timer!AddPipe, Timer!RemovePipe, Timer!InUse, Timer!MayUse, Timer!NewReg, Timer!RegisterAt,
           Timer!RegisterAtIfNotExists, Timer!Cancel, Timer!ClientExec, Timer!Expired, Timer!Batches,
           Timer!getExpired, Timer!getItem, Timer!processExpired, Timer!removeProcessed, Timer!Tick, Timer!InstStep,
           Timer!Next, Parts!Timer!store, Parts!Timer!vars, Parts!Timer!NoScore, Parts!Timer!NoItem,
           Parts!Timer!IdleClient, Parts!Timer!IdleInst, Parts!Timer!Exec, Parts!Timer!Cmd, Parts!Timer!AddPipe,
           Parts!Timer!RemovePipe, Parts!Timer!InUse, Parts!Timer!MayUse, Parts!Timer!NewReg,
           Parts!Timer!RegisterAt, Parts!Timer!RegisterAtIfNotExists, Parts!Timer!Cancel, Parts!Timer!ClientExec,
           Parts!Timer!Expired, Parts!Timer!Batches, Parts!Timer!getExpired, Parts!Timer!getItem,
           Parts!Timer!processExpired, Parts!Timer!removeProcessed, Parts!Timer!Tick, Parts!Timer!InstStep,
           Parts!Timer!Next
  <1> QED
    BY <1>1, TimerSized, Parts!TimerNext, Parts!TimerStaysSmall

(* redistimer: types, timers stay until they have fired, fire in time, and  *)
(* leave nothing.                                                           *)
LEMMA TimerHolds ==
    ASSUME Parts!TimerInv, Parts!TimerBounds
    PROVE  Timer!TypeOK /\ Timer!NotForgotten /\ Timer!NotEarly /\ Timer!NoResidue
  <1>1. Parts!Timer!TypeOK /\ Parts!Timer!NotForgotten /\ Parts!Timer!NotEarly /\ Parts!Timer!NoResidue
    BY TimerSized, Parts!TimerImplies, Parts!TimerImpliesTypes
  <1> QED
    BY <1>1, Zenon DEF Timer!NoScore, Timer!NoItem, Timer!IdleClient, Timer!IdleInst, Timer!Regs, Timer!HasFired,
           Timer!Quiet, Timer!TypeOK, Timer!NotEarly, Timer!NotForgotten, Timer!NoResidue, Parts!Timer!NoScore,
           Parts!Timer!NoItem, Parts!Timer!IdleClient, Parts!Timer!IdleInst, Parts!Timer!Regs, Parts!Timer!HasFired,
           Parts!Timer!Quiet, Parts!Timer!TypeOK, Parts!Timer!NotEarly, Parts!Timer!NotForgotten,
           Parts!Timer!NoResidue

(* memory_kv: a bounded number of values. *)
LEMMA KvSized == Parts!KvSized
  BY ServicesAssumption DEF Parts!KvSized, ServicesAssumption

(* An empty map satisfies the invariant of memory_kv. *)
LEMMA KvBegins == ASSUME KV!Init PROVE Parts!KvInv
  <1>1. Parts!Kv!Init
    BY Zenon DEF KV!Values, KV!NoEntry, KV!Empty, KV!IdleSub, KV!Init, Parts!Kv!Values, Parts!Kv!NoEntry,
           Parts!Kv!Empty, Parts!Kv!IdleSub, Parts!Kv!Init
  <1> QED
    BY <1>1, KvSized, Parts!KvStarts

(* Every call, lease timer and watcher keeps it. *)
LEMMA KvGoesOn == ASSUME Parts!KvInv, [KV!Next]_kvVars PROVE Parts!KvInv'
  <1>1. [Parts!Kv!Next]_(Parts!Kv!vars)
    BY Zenon DEF kvVars, KV!vars, KV!Values, KV!Prefix, KV!NoEntry, KV!IdleSub, KV!Unlocked,
           KV!publishWatchEventLocked, KV!enqueueNotify, KV!setValue, KV!deleteKey, KV!cancelLease, KV!expireAfter,
           KV!LeasedKey, KV!deleteIfLeaseMatches, KV!close, KV!closeCancel, KV!addSubscriber, KV!take, KV!handle,
           KV!handled, KV!watchEnds, KV!Next, Parts!Kv!vars, Parts!Kv!Values, Parts!Kv!Prefix, Parts!Kv!NoEntry,
           Parts!Kv!IdleSub, Parts!Kv!Unlocked, Parts!Kv!publishWatchEventLocked, Parts!Kv!enqueueNotify,
           Parts!Kv!setValue, Parts!Kv!deleteKey, Parts!Kv!cancelLease, Parts!Kv!expireAfter, Parts!Kv!LeasedKey,
           Parts!Kv!deleteIfLeaseMatches, Parts!Kv!close, Parts!Kv!closeCancel, Parts!Kv!addSubscriber,
           Parts!Kv!take, Parts!Kv!handle, Parts!Kv!handled, Parts!Kv!watchEnds, Parts!Kv!Next
  <1> QED
    BY <1>1, KvSized, Parts!KvNext, Parts!KvStutters

(* memory_kv: types, watchers follow the map and are woken, and old leases  *)
(* delete nothing that was set since.                                       *)
LEMMA KvHolds ==
    ASSUME Parts!KvInv
    PROVE  KV!TypeOK /\ KV!ViewFollows /\ KV!NoLostWakeup /\ KV!StaleLeaseHarmless
  <1>1. Parts!Kv!TypeOK /\ Parts!Kv!ViewFollows /\ Parts!Kv!NoLostWakeup /\ Parts!Kv!StaleLeaseHarmless
    BY Parts!KvImplies
  <1> QED
    BY <1>1, Zenon DEF KV!Values, KV!Prefix, KV!NoEntry, KV!IdleSub, KV!TypeOK, KV!Leads, KV!ViewFollows,
           KV!StaleLeaseHarmless, KV!NoLostWakeup, Parts!Kv!Values, Parts!Kv!Prefix, Parts!Kv!NoEntry,
           Parts!Kv!IdleSub, Parts!Kv!TypeOK, Parts!Kv!Leads, Parts!Kv!ViewFollows, Parts!Kv!StaleLeaseHarmless,
           Parts!Kv!NoLostWakeup

(* A client without cached connections satisfies its invariant. *)
LEMMA ZkBegins == ASSUME Zk!Init PROVE Parts!ZkInv
  <1>1. Parts!Zk!Init
    BY Zenon DEF Zk!Procs, Zk!Init, Parts!Zk!Procs, Parts!Zk!Init
  <1> QED
    BY <1>1, Parts!ZkStarts

(* Every step of ZooKeeper, of its events and of the callers keeps it. *)
LEMMA ZkGoesOn == ASSUME Parts!ZkInv, [Zk!Next]_zkVars PROVE Parts!ZkInv'
  <1>1. [Parts!Zk!Next]_(Parts!Zk!vars)
    BY Zenon DEF zkVars, Zk!Self, Zk!server, Zk!reg, Zk!vars, Zk!children, Zk!Procs, Zk!Fire, Zk!PeerChanges,
           Zk!Disconnect, Zk!Reconnect, Zk!CreateTempNode, Zk!Register, Zk!UnRegister, Zk!unregisterEnds,
           Zk!SetRemote, Zk!childrenW, Zk!childrenRead, Zk!remoteFails, Zk!GetConns, Zk!Build, Zk!buildLists,
           Zk!Flush, Zk!refresh, Zk!Idle, Zk!watchChildren, Zk!watchState, Zk!watchHasSession, Zk!watch, Zk!Remote,
           Zk!Reconnects, Zk!Next, Parts!Zk!Self, Parts!Zk!server, Parts!Zk!reg, Parts!Zk!vars, Parts!Zk!children,
           Parts!Zk!Procs, Parts!Zk!Fire, Parts!Zk!PeerChanges, Parts!Zk!Disconnect, Parts!Zk!Reconnect,
           Parts!Zk!CreateTempNode, Parts!Zk!Register, Parts!Zk!UnRegister, Parts!Zk!unregisterEnds,
           Parts!Zk!SetRemote, Parts!Zk!childrenW, Parts!Zk!childrenRead, Parts!Zk!remoteFails, Parts!Zk!GetConns,
           Parts!Zk!Build, Parts!Zk!buildLists, Parts!Zk!Flush, Parts!Zk!refresh, Parts!Zk!Idle,
           Parts!Zk!watchChildren, Parts!Zk!watchState, Parts!Zk!watchHasSession, Parts!Zk!watch, Parts!Zk!Remote,
           Parts!Zk!Reconnects, Parts!Zk!Next
  <1> QED
    BY <1>1, Parts!ZkNext, Parts!ZkStutters

(* zookeeper: cached connections that are out of date have an event under   *)
(* way.                                                                     *)
LEMMA ZkHolds == ASSUME Parts!ZkInv PROVE Zk!NoMissedChange
  <1>1. Parts!Zk!NoMissedChange
    BY DEF Parts!ZkInv
  <1> QED
    BY <1>1, Zenon DEF Zk!Self, Zk!children, Zk!NoMissedChange, Parts!Zk!Self, Parts!Zk!children,
           Parts!Zk!NoMissedChange

(* The cores, the full load and the ticks of the suite are numbers. *)
LEMMA CpuSized == Parts!CpuSized
  BY ServicesAssumption DEF Parts!CpuSized, ServicesAssumption

(* Before the first sample the usage is within bounds. *)
LEMMA CpuBegins == ASSUME CPU!Init PROVE Parts!CpuInv
  <1>1. Parts!Cpu!Init
    BY Zenon DEF CPU!Init, Parts!Cpu!Init
  <1> QED
    BY <1>1, CpuSized, Parts!CpuStarts

(* Every sample keeps it there. *)
LEMMA CpuGoesOn == ASSUME Parts!CpuInv, [CPU!Next]_cpuVars PROVE Parts!CpuInv'
  <1>1. [Parts!Cpu!Next]_(Parts!Cpu!vars)
    BY Zenon DEF cpuVars, CPU!vars, CPU!Wrapped, CPU!AtMost, CPU!Tick, CPU!CounterReset, CPU!CgroupUsage,
           CPU!PsutilUsage, CPU!SampleFirst, CPU!Sample, CPU!cpuProc, CPU!Next, Parts!Cpu!vars, Parts!Cpu!Wrapped,
           Parts!Cpu!AtMost, Parts!Cpu!Tick, Parts!Cpu!CounterReset, Parts!Cpu!CgroupUsage, Parts!Cpu!PsutilUsage,
           Parts!Cpu!SampleFirst, Parts!Cpu!Sample, Parts!Cpu!cpuProc, Parts!Cpu!Next
  <1> QED
    BY <1>1, CpuSized, Parts!CpuNext, Parts!CpuStutters

(* cpu: the usage and its average stay within the full load. *)
LEMMA CpuHolds == ASSUME Parts!CpuInv PROVE CPU!Bounded
  <1>1. Parts!Cpu!Bounded
    BY DEF Parts!CpuInv
  <1> QED
    BY <1>1, Zenon DEF CPU!Bounded, Parts!Cpu!Bounded

(* The bounds of the registrar are numbers. *)
LEMMA RgrSized == Parts!RgrSized
  BY ServicesAssumption DEF Parts!RgrSized, ServicesAssumption

(* A registrar that nobody has called satisfies its invariant. *)
LEMMA RgrBegins == ASSUME Registrar!Init PROVE Parts!RgrInv
  <1>1. Parts!Rgr!Init
    BY Zenon DEF Registrar!Gens, Registrar!NoLease, Registrar!Nobody, Registrar!NoJob, Registrar!NoUnreg,
           Registrar!NoLoop, Registrar!Init, Parts!Rgr!Gens, Parts!Rgr!NoLease, Parts!Rgr!Nobody, Parts!Rgr!NoJob,
           Parts!Rgr!NoUnreg, Parts!Rgr!NoLoop, Parts!Rgr!Init
  <1> QED
    BY <1>1, RgrSized, Parts!RgrStarts

(* Every step of a call, a keeper or etcd keeps it. *)
LEMMA RgrGoesOn == ASSUME Parts!RgrInv, [Registrar!Next]_registrarVars PROVE Parts!RgrInv'
  <1>1. [Parts!Rgr!Next]_(Parts!Rgr!vars)
    BY Zenon DEF registrarVars, Registrar!Cardinality, Registrar!IsFiniteSet, Parts!Rgr!Cardinality,
           Parts!Rgr!IsFiniteSet, Registrar!Gens, Registrar!NoLease, Registrar!vars, Registrar!etcd,
           Registrar!budget, Registrar!Nobody, Registrar!User, Registrar!NoJob, Registrar!NoUnreg, Registrar!Fault,
           Registrar!Lose, Registrar!Revoke, Registrar!Goto, Registrar!SetLoop, Registrar!Fail, Registrar!Register,
           Registrar!registerRevoke, Registrar!registerGrant, Registrar!registerAdd, Registrar!registerUndo,
           Registrar!reRegisterRevokeOld, Registrar!registerDone, Registrar!keepAliveLoop,
           Registrar!keepAliveCloses, Registrar!reRegister, Registrar!keepAliveSleep, Registrar!UnRegister,
           Registrar!unregisterDelete, Registrar!unregisterRevoke, Registrar!leaseExpires, Registrar!Locked,
           Registrar!Looping, Registrar!Unregistering, Registrar!Next, Parts!Rgr!Gens, Parts!Rgr!NoLease,
           Parts!Rgr!vars, Parts!Rgr!etcd, Parts!Rgr!budget, Parts!Rgr!Nobody, Parts!Rgr!User, Parts!Rgr!NoJob,
           Parts!Rgr!NoUnreg, Parts!Rgr!Fault, Parts!Rgr!Lose, Parts!Rgr!Revoke, Parts!Rgr!Goto, Parts!Rgr!SetLoop,
           Parts!Rgr!Fail, Parts!Rgr!Register, Parts!Rgr!registerRevoke, Parts!Rgr!registerGrant,
           Parts!Rgr!registerAdd, Parts!Rgr!registerUndo, Parts!Rgr!reRegisterRevokeOld, Parts!Rgr!registerDone,
           Parts!Rgr!keepAliveLoop, Parts!Rgr!keepAliveCloses, Parts!Rgr!reRegister, Parts!Rgr!keepAliveSleep,
           Parts!Rgr!UnRegister, Parts!Rgr!unregisterDelete, Parts!Rgr!unregisterRevoke, Parts!Rgr!leaseExpires,
           Parts!Rgr!Locked, Parts!Rgr!Looping, Parts!Rgr!Unregistering, Parts!Rgr!Next
  <1> QED
    BY <1>1, RgrSized, Parts!RgrNext, Parts!RgrStutters

(* etcd: no endpoint comes back after UnRegister, it is in place as long as *)
(* nothing fails, and its lease has one keeper.                             *)
LEMMA RgrHolds ==
    ASSUME Parts!RgrInv
    PROVE  Registrar!TypeOK /\ Registrar!NoGhost /\ Registrar!SteadyInPlace /\ Registrar!OneKeeper
  <1>1. Parts!Rgr!TypeOK /\ Parts!Rgr!NoGhost /\ Parts!Rgr!SteadyInPlace /\ Parts!Rgr!OneKeeper
    BY Parts!RgrImplies
  <1> QED
    BY <1>1, Zenon DEF Registrar!Cardinality, Registrar!IsFiniteSet, Parts!Rgr!Cardinality, Parts!Rgr!IsFiniteSet,
           Registrar!Gens, Registrar!NoLease, Registrar!Nobody, Registrar!NoJob, Registrar!NoLoop, Registrar!TypeOK,
           Registrar!NoGhost, Registrar!SteadyInPlace, Registrar!OneKeeper, Parts!Rgr!Gens, Parts!Rgr!NoLease,
           Parts!Rgr!Nobody, Parts!Rgr!NoJob, Parts!Rgr!NoLoop, Parts!Rgr!TypeOK, Parts!Rgr!NoGhost,
           Parts!Rgr!SteadyInPlace, Parts!Rgr!OneKeeper

(* Without keys the invariant of the leases holds. *)
LEMMA LeaBegins == ASSUME Lease!Init PROVE Parts!LeaInv
  <1>1. Parts!Lea!Init
    BY Zenon DEF Lease!None, Lease!NoKey, Lease!Init, Parts!Lea!None, Parts!Lea!NoKey, Parts!Lea!Init
  <1> QED
    BY <1>1, Parts!LeaStarts

(* Every step of SetWithLease, its goroutines and the stop keeps it. *)
LEMMA LeaGoesOn == ASSUME Parts!LeaInv, [Lease!Next]_leaseVars PROVE Parts!LeaInv'
  <1>1. [Parts!Lea!Next]_(Parts!Lea!vars)
    BY Zenon DEF leaseVars, Lease!None, Lease!vars, Lease!NoKey, Lease!Fault, Lease!Goto, Lease!Revoke,
           Lease!Failed, Lease!setKeyGrant, Lease!setKeyPut, Lease!keepAliveLease, Lease!SetWithLeaseRetry,
           Lease!DelData, Lease!stopKVKeepAlives, Lease!stopWait, Lease!stopRevoke, Lease!Kept, Lease!leaseExpires,
           Lease!Stopping, Lease!Next, Parts!Lea!None, Parts!Lea!vars, Parts!Lea!NoKey, Parts!Lea!Fault,
           Parts!Lea!Goto, Parts!Lea!Revoke, Parts!Lea!Failed, Parts!Lea!setKeyGrant, Parts!Lea!setKeyPut,
           Parts!Lea!keepAliveLease, Parts!Lea!SetWithLeaseRetry, Parts!Lea!DelData, Parts!Lea!stopKVKeepAlives,
           Parts!Lea!stopWait, Parts!Lea!stopRevoke, Parts!Lea!Kept, Parts!Lea!leaseExpires, Parts!Lea!Stopping,
           Parts!Lea!Next
  <1> QED
    BY <1>1, Parts!LeaNext, Parts!LeaStutters

(* etcd: SetWithLease leaves no key with a lease that its goroutine does    *)
(* not know.                                                                *)
LEMMA LeaHolds == ASSUME Parts!LeaInv PROVE Lease!LeaseKnown
  <1>1. Parts!Lea!LeaseKnown
    BY Parts!LeaImplies
  <1> QED
    BY <1>1, Zenon DEF Lease!None, Lease!NoKey, Lease!LeaseKnown, Parts!Lea!None, Parts!Lea!NoKey,
           Parts!Lea!LeaseKnown

(* The revisions of the suite are numbered. *)
LEMMA PoolSized == Watches!PoolSized
  BY ServicesAssumption DEF Watches!PoolSized, ServicesAssumption

(* A pool without connections satisfies its invariant. *)
LEMMA PoolBegins == ASSUME Pool!Init PROVE Watches!PoolInv
  <1>1. Watches!Conns!Init
    BY Zenon DEF Pool!Actors, Pool!Unknown, Pool!Init, Watches!Conns!Actors, Watches!Conns!Unknown,
           Watches!Conns!Init
  <1> QED
    BY <1>1, PoolSized, Watches!PoolStarts

(* Every step of the watcher, of AddOption and of Close keeps it. *)
LEMMA PoolGoesOn == ASSUME Watches!PoolInv, [Pool!Next]_poolVars PROVE Watches!PoolInv'
  <1>1. [Watches!Conns!Next]_(Watches!Conns!vars)
    BY Zenon DEF poolVars, Pool!Cardinality, Pool!IsFiniteSet, Watches!Conns!Cardinality, Watches!Conns!IsFiniteSet,
           Pool!Pool, Pool!Resolver, Pool!Actors, Pool!Unknown, Pool!watcher, Pool!conns, Pool!vars, Pool!AddrsOf,
           Pool!ConnectionsClosed, Pool!Fault, Pool!WatcherFree, Pool!syncEndpointConnMap, Pool!resetConnMapLocked,
           Pool!CloseConn, Pool!Change, Pool!getOrCreateWatcher, Pool!addListener, Pool!GetConn, Pool!Build,
           Pool!watchSnapshot, Pool!publish, Pool!consume, Pool!published, Pool!watchUpdate, Pool!run,
           Pool!AddOption, Pool!addOptionCollect, Pool!addOptionSync, Pool!close, Pool!closeConns, Pool!Closing,
           Pool!Watching, Pool!Adding, Pool!Next, Watches!Conns!Pool, Watches!Conns!Resolver, Watches!Conns!Actors,
           Watches!Conns!Unknown, Watches!Conns!watcher, Watches!Conns!conns, Watches!Conns!vars,
           Watches!Conns!AddrsOf, Watches!Conns!ConnectionsClosed, Watches!Conns!Fault, Watches!Conns!WatcherFree,
           Watches!Conns!syncEndpointConnMap, Watches!Conns!resetConnMapLocked, Watches!Conns!CloseConn,
           Watches!Conns!Change, Watches!Conns!getOrCreateWatcher, Watches!Conns!addListener, Watches!Conns!GetConn,
           Watches!Conns!Build, Watches!Conns!watchSnapshot, Watches!Conns!publish, Watches!Conns!consume,
           Watches!Conns!published, Watches!Conns!watchUpdate, Watches!Conns!run, Watches!Conns!AddOption,
           Watches!Conns!addOptionCollect, Watches!Conns!addOptionSync, Watches!Conns!close,
           Watches!Conns!closeConns, Watches!Conns!Closing, Watches!Conns!Watching, Watches!Conns!Adding,
           Watches!Conns!Next
  <1> QED
    BY <1>1, PoolSized, Watches!PoolNext, Watches!PoolStutters

(* etcd: pool and resolver have the addresses that the watcher published    *)
(* last.                                                                    *)
LEMMA PoolHolds == ASSUME Watches!PoolInv PROVE Pool!InView
  <1>1. Watches!Conns!InView
    BY Watches!PoolImplies
  <1> QED
    BY <1>1, Zenon DEF Pool!Pool, Pool!Resolver, Pool!Unknown, Pool!AddrsOf, Pool!WatcherFree, Pool!InView,
           Watches!Conns!Pool, Watches!Conns!Resolver, Watches!Conns!Unknown, Watches!Conns!AddrsOf,
           Watches!Conns!WatcherFree, Watches!Conns!InView

(* Two entries of the map of a key. *)
LEMMA KeySized == Watches!KeySized
  BY DEF Watches!KeySized

(* A registry without watches satisfies the invariant of watch_key. *)
LEMMA KeyBegins == ASSUME WatchKey!Init PROVE Watches!KeyInv
  <1>1. Watches!Key!Init
    BY Zenon DEF WatchKey!Entries, WatchKey!None, WatchKey!Init, Watches!Key!Entries, Watches!Key!None,
           Watches!Key!Init
  <1> QED
    BY <1>1, KeySized, Watches!KeyStarts

(* Every event, push, reconnection and call keeps it. *)
LEMMA KeyGoesOn == ASSUME Watches!KeyInv, [WatchKey!Next]_watchKeyVars PROVE Watches!KeyInv'
  <1>1. [Watches!Key!Next]_(Watches!Key!vars)
    BY Zenon DEF watchKeyVars, WatchKey!Cardinality, WatchKey!IsFiniteSet, Watches!Key!Cardinality,
           Watches!Key!IsFiniteSet, WatchKey!Entries, WatchKey!None, WatchKey!vars, WatchKey!SetSub, WatchKey!Done,
           WatchKey!Drop, WatchKey!Event, WatchKey!CallerCancels, WatchKey!getOrCreateWatchKeyEntry,
           WatchKey!addSubscriber, WatchKey!WatchKey, WatchKey!removeSubscriber, WatchKey!removeWatchKeySubscriber,
           WatchKey!stopKeyWatches, WatchKey!SetRun, WatchKey!runWatch, WatchKey!runReconnect, WatchKey!broadcast,
           WatchKey!push, WatchKey!pushDrop, WatchKey!pushed, WatchKey!closeSubscribers,
           WatchKey!removeWatchKeyEntry, WatchKey!Calling, WatchKey!Running, WatchKey!Next, Watches!Key!Entries,
           Watches!Key!None, Watches!Key!vars, Watches!Key!SetSub, Watches!Key!Done, Watches!Key!Drop,
           Watches!Key!Event, Watches!Key!CallerCancels, Watches!Key!getOrCreateWatchKeyEntry,
           Watches!Key!addSubscriber, Watches!Key!WatchKey, Watches!Key!removeSubscriber,
           Watches!Key!removeWatchKeySubscriber, Watches!Key!stopKeyWatches, Watches!Key!SetRun,
           Watches!Key!runWatch, Watches!Key!runReconnect, Watches!Key!broadcast, Watches!Key!push,
           Watches!Key!pushDrop, Watches!Key!pushed, Watches!Key!closeSubscribers, Watches!Key!removeWatchKeyEntry,
           Watches!Key!Calling, Watches!Key!Running, Watches!Key!Next
  <1> QED
    BY <1>1, KeySized, Watches!KeyNext, Watches!KeyStutters

(* etcd: a subscriber of a key misses nothing but what fell into a          *)
(* reconnection, and no goroutine outlives its entry.                       *)
LEMMA KeyHolds == ASSUME Watches!KeyInv PROVE WatchKey!NoGap /\ WatchKey!NoOrphan
  <1>1. Watches!Key!NoGap /\ Watches!Key!NoOrphan
    BY Watches!KeyImplies
  <1> QED
    BY <1>1, Zenon DEF WatchKey!NoOrphan, WatchKey!NoGap, Watches!Key!NoOrphan, Watches!Key!NoGap

-----------------------------------------------------------------------------
(* While a part runs its invariant holds. *)
ServicesInv ==
    /\ part = "memamq" => Parts!MemCInv /\ Parts!MemPInv
    /\ part = "simmq" => Parts!SimInv
    /\ part = "kafka" => Parts!KafkaInv
    /\ part = "timer" => Parts!TimerInv /\ Parts!TimerBounds
    /\ part = "kv" => Parts!KvInv
    /\ part = "cpu" => Parts!CpuInv
    /\ part = "registrar" => Parts!RgrInv
    /\ part = "registrar lost" => Parts!RgrInv
    /\ part = "pool" => Watches!PoolInv
    /\ part = "watch key" => Watches!KeyInv
    /\ part = "lease" => Parts!LeaInv
    /\ part = "zookeeper" => Parts!ZkInv

(* A behaviour begins with the first states of its part. *)
LEMMA ServicesBegin == ASSUME Init PROVE ServicesInv
  <1>1. /\ MemQ!Init /\ Sim!Init /\ Timer!Init /\ Kafka!Init /\ KV!Init /\ CPU!Init
        /\ Registrar!Init /\ Pool!Init /\ WatchKey!Init /\ Lease!Init /\ Zk!Init
    BY Zenon DEF Init
  <1> QED
    BY <1>1, MemQBegins, SimBegins, KafkaBegins, TimerBegins, KvBegins, CpuBegins, RgrBegins, PoolBegins, KeyBegins,
       LeaBegins, ZkBegins, Zenon
       DEF ServicesInv

(* A step of the suite is one of its part. *)
LEMMA ServicesGoOn == ASSUME ServicesInv, [Next]_vars PROVE ServicesInv'
  <1>1. part' = part
    BY Zenon DEF Next, vars
  <1>2. CASE part = "memamq"
    <2>1. [MemQ!Next]_memVars
      BY <1>2, Zenon DEF Next, vars
    <2> QED
      BY <1>1, <1>2, <2>1, MemQGoesOn, Zenon DEF ServicesInv
  <1>3. CASE part = "simmq"
    <2>1. [Sim!Next]_simVars
      BY <1>3, Zenon DEF Next, vars
    <2> QED
      BY <1>1, <1>3, <2>1, SimGoesOn, Zenon DEF ServicesInv
  <1>4. CASE part = "kafka"
    <2>1. [Kafka!Next]_kafkaVars
      BY <1>4, Zenon DEF Next, vars
    <2> QED
      BY <1>1, <1>4, <2>1, KafkaGoesOn, Zenon DEF ServicesInv
  <1>5. CASE part = "timer"
    <2>1. [Timer!Next]_timerVars
      BY <1>5, Zenon DEF Next, vars
    <2> QED
      BY <1>1, <1>5, <2>1, TimerGoesOn, Zenon DEF ServicesInv
  <1>6. CASE part = "kv"
    <2>1. [KV!Next]_kvVars
      BY <1>6, Zenon DEF Next, vars
    <2> QED
      BY <1>1, <1>6, <2>1, KvGoesOn, Zenon DEF ServicesInv
  <1>7. CASE part = "cpu"
    <2>1. [CPU!Next]_cpuVars
      BY <1>7, Zenon DEF Next, vars
    <2> QED
      BY <1>1, <1>7, <2>1, CpuGoesOn, Zenon DEF ServicesInv
  <1>8. CASE part = "registrar"
    <2>1. [Registrar!Next]_registrarVars
      BY <1>8, Zenon DEF Next, vars
    <2> QED
      BY <1>1, <1>8, <2>1, RgrGoesOn, Zenon DEF ServicesInv
  <1>9. CASE part = "registrar lost"
    <2>1. [Registrar!Next]_registrarVars
      BY <1>9, Zenon DEF Next, vars
    <2> QED
      BY <1>1, <1>9, <2>1, RgrGoesOn, Zenon DEF ServicesInv
  <1>10. CASE part = "pool"
    <2>1. [Pool!Next]_poolVars
      BY <1>10, Zenon DEF Next, vars
    <2> QED
      BY <1>1, <1>10, <2>1, PoolGoesOn, Zenon DEF ServicesInv
  <1>11. CASE part = "watch key"
    <2>1. [WatchKey!Next]_watchKeyVars
      BY <1>11, Zenon DEF Next, vars
    <2> QED
      BY <1>1, <1>11, <2>1, KeyGoesOn, Zenon DEF ServicesInv
  <1>12. CASE part = "lease"
    <2>1. [Lease!Next]_leaseVars
      BY <1>12, Zenon DEF Next, vars
    <2> QED
      BY <1>1, <1>12, <2>1, LeaGoesOn, Zenon DEF ServicesInv
  <1>13. CASE part = "zookeeper"
    <2>1. [Zk!Next]_zkVars
      BY <1>13, Zenon DEF Next, vars
    <2> QED
      BY <1>1, <1>13, <2>1, ZkGoesOn, Zenon DEF ServicesInv
  <1> QED
    BY <1>1, <1>2, <1>3, <1>4, <1>5, <1>6, <1>7, <1>8, <1>9, <1>10, <1>11, <1>12, <1>13, Zenon DEF ServicesInv

(* What the invariants of the parts say of the properties of the suite: of  *)
(* the types and the queues ...                                             *)
LEMMA ServicesHold == ASSUME ServicesInv PROVE TypeOK /\ NoSendOnClosed /\ NothingLost
  BY MemQHolds, SimHolds, KafkaHolds, TimerHolds, KvHolds, CpuHolds, RgrHolds, Zenon
     DEF ServicesInv, TypeOK, NoSendOnClosed, NothingLost

(* ... and of what is watched and leased. *)
LEMMA ServicesKeep == ASSUME ServicesInv PROVE NothingMissed /\ LeasesHold
  BY KvHolds, RgrHolds, PoolHolds, KeyHolds, LeaHolds, ZkHolds, Zenon
     DEF ServicesInv, NothingMissed, LeasesHold

(* The invariant of the suite: whatever the bounds, each part keeps its own. *)
THEOREM ServicesInvariant == Spec => []ServicesInv
  BY ServicesBegin, ServicesGoOn, PTL DEF Spec

(* memamq in the suite: no push sends on the channel that Stop closes, for  *)
(* any size of the channel and of a batch.                                  *)
THEOREM SuiteNeverPanics == Spec => []NoSendOnClosed
  BY ServicesInvariant, ServicesHold, PTL

(* What a queue of the suite has accepted it does not lose, for any number  *)
(* of tasks, queues, messages, crashes, registrations and failures: memamq  *)
(* drains its channel before Stop returns, simmq keeps its order across     *)
(* Close, kafka commits what was handed out, and redistimer keeps a timer   *)
(* until its handler has succeeded.                                         *)
THEOREM SuiteLosesNothing == Spec => []NothingLost
  BY ServicesInvariant, ServicesHold, PTL

(* The types of the suite, for any bounds: channels and batches within      *)
(* their sizes, items and leases that exist, the CPU usage within the full  *)
(* load.                                                                    *)
THEOREM SuiteTypeCorrect == Spec => []TypeOK
  BY ServicesInvariant, ServicesHold, PTL

(* No change is missed, for any number of values, revisions, events, breaks *)
(* and sessions: the watchers of memory_kv end up with the map, pool and    *)
(* resolver with the addresses of etcd's watcher, the subscribers of a key  *)
(* with its events, and ZooKeeper's cache is out of date only while an      *)
(* event is under way.                                                      *)
THEOREM SuiteMissesNothing == Spec => []NothingMissed
  BY ServicesInvariant, ServicesKeep, PTL

(* What depends on a lease comes and goes with it, for any number of        *)
(* registrations, leases and faults: an endpoint does not come back after   *)
(* UnRegister, it has one live keeper, a key's lease is known to its        *)
(* goroutine, and the timer of an old lease deletes nothing.                *)
THEOREM SuiteLeasesHold == Spec => []LeasesHold
  BY ServicesInvariant, ServicesKeep, PTL
=============================================================================
