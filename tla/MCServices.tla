------------------------------ MODULE MCServices ------------------------------
(***************************************************************************)
(* Small instances of the services that must make progress: the queues      *)
(* (memamq, simmq, the Kafka consumer, the Redis timer), the key-value      *)
(* store of discovery/inprocess, the rate limiter with the CPU samples that *)
(* drive it, and the clients of etcd and ZooKeeper.                         *)
(***************************************************************************)
EXTENDS Integers

CONSTANTS BufferSize, BatchSize,            \* memamq
          MaxQueues, MaxSends,              \* simmq
          MaxLog, MaxCrashes,               \* kafka
          MaxTime, MaxRegs, MaxFailures,    \* the timer
          MaxSets, MaxWatches,              \* the key-value store
          Cool, MaxElapsed                  \* the limiter's cooldown, ticks between samples

CONSTANTS MaxRegisters, MaxLeases, MaxFaults,   \* etcd leases
          MaxRev, MaxEvents,                    \* the connection pool, key watches
          MaxDrops, MaxChanges                  \* ZooKeeper

ASSUME ServicesAssumption ==
    /\ {BufferSize, BatchSize, MaxQueues, MaxLog, Cool} \subseteq Nat \ {0}
    /\ {MaxSends, MaxCrashes, MaxTime, MaxRegs, MaxFailures, MaxSets, MaxWatches, MaxElapsed} \subseteq Nat
    /\ {MaxRegisters, MaxLeases, MaxFaults, MaxRev, MaxEvents, MaxDrops, MaxChanges} \subseteq Nat

(* A behaviour is one of a single part, chosen at the start; the variables  *)
(* of the others keep their initial values, so that the state space is the  *)
(* sum of those of the parts.                                               *)
VARIABLE part

VARIABLES taskChan, mClosed, isStopped, count, mPc, mCall, sent, running, mDone, stop
VARIABLES topicMq, sMade, ch, sClosed, sDone, chClosed, readers, q, sPc, nsent, sAccepted, received
VARIABLES log, committed, owner, gen, from, handed, kFaults, m
VARIABLES now, failures, zset, hash, regs, state, client, inst, fired
VARIABLES items, sets, lease, toCancel, signal, closing, sub, watches, view, kept
VARIABLES hot, inFlight, prevDropTime, bPc, bAt, hotDrop
VARIABLES cgroup, busy, elapsed, cFirst, usage, gCPU
VARIABLES rKey, rLeases, rGranted, reg, gens, loop, rCancelled, job, unreg, wanted, gone, rFaults, lost
VARIABLES rev, hist, w, listeners, addresses, pReady, creating, endpointConnMap, serviceConn, pView, open, syncs,
          dialOptions, opt, closer, toClose, faults
VARIABLES wRev, watchEntry, wMade, wCancelled, subs, run, skipped, wSub, handled, wFaults
VARIABLES lKey, lLeases, lGranted, lCall, keepAlives, lCancelled, lStop, lFaults
VARIABLES others, own, nodes, link, drops, changes, events, armed, lostWatch, localConns, resolver, lock, zRemote,
          isRegistered, node, isStateDisconnected, zUnreg

MemQ == INSTANCE MemoryQueue WITH Pushers <- {"p", "q"}, Stoppers <- {"s", "t"}, Workers <- {"w"},
            closed <- mClosed, pc <- mPc, call <- mCall, done <- mDone
Sim == INSTANCE SimMQ WITH Senders <- {"s", "t"}, Consumers <- {"c"}, Closers <- {"k"}, Size <- 1, made <- sMade,
           closed <- sClosed, done <- sDone, pc <- sPc, accepted <- sAccepted
Kafka == INSTANCE KafkaConsumer WITH Members <- {"c", "d"}, Closers <- {"c"}, Buffer <- 1, AutoCommit <- TRUE,
             MaxFaults <- MaxCrashes, faults <- kFaults
Timer == INSTANCE RedisTimer WITH Keys <- {"a"}, Clients <- {"c"}, Instances <- {"i", "j"}, batchSize <- 1,
             Upsert <- FALSE, Torn <- FALSE
KV == INSTANCE MemoryKV WITH Keys <- {"a", "b"}, Watchers <- {"w"}, Full <- {}, Prefixed <- {"a"}
Bbr == INSTANCE BBR WITH Callers <- {"c", "d"}, Limits <- {1, 2}, Skew <- 1, MaxInFlight <- 3, pc <- bPc, at <- bAt
CPU == INSTANCE CpuUsage WITH Cores <- 2, Full <- 100, first <- cFirst
(* Calls to etcd that fail, and one that takes effect though it fails. *)
Registrar == INSTANCE EtcdRegistrar WITH MaxLost <- 1, MaxFaults <- 2, key <- rKey, leases <- rLeases,
                 granted <- rGranted, cancelled <- rCancelled, faults <- rFaults
Pool == INSTANCE EtcdConnPool WITH Addrs <- {"a", "b"}, MaxOpts <- 0, ready <- pReady, view <- pView
WatchKey == INSTANCE EtcdWatchKey WITH Subs <- {"s"}, MaxEntries <- 2, MaxRev <- MaxEvents, Cap <- 1, rev <- wRev,
                made <- wMade, cancelled <- wCancelled, sub <- wSub, faults <- wFaults
Lease == INSTANCE EtcdLease WITH Calls <- {"c", "d"}, key <- lKey, leases <- lLeases, granted <- lGranted,
             call <- lCall, cancelled <- lCancelled, stop <- lStop, faults <- lFaults
Zk == INSTANCE ZkClient WITH Peers <- {"a"}, remote <- zRemote, unreg <- zUnreg

memVars == <<taskChan, mClosed, isStopped, count, mPc, mCall, sent, running, mDone, stop>>
simVars == <<topicMq, sMade, ch, sClosed, sDone, chClosed, readers, q, sPc, nsent, sAccepted, received>>
kafkaVars == <<log, committed, owner, gen, from, handed, kFaults, m>>
timerVars == <<now, failures, zset, hash, regs, state, client, inst, fired>>
kvVars == <<items, sets, lease, toCancel, signal, closing, sub, watches, view, kept>>
bbrVars == <<hot, inFlight, prevDropTime, bPc, bAt, hotDrop>>
cpuVars == <<cgroup, busy, elapsed, cFirst, usage, gCPU>>
registrarVars == <<rKey, rLeases, rGranted, reg, gens, loop, rCancelled, job, unreg, wanted, gone, rFaults, lost>>
poolVars == <<rev, hist, w, listeners, addresses, pReady, creating, endpointConnMap, serviceConn, pView, open, syncs,
              dialOptions, opt, closer, toClose, faults>>
watchKeyVars == <<wRev, watchEntry, wMade, wCancelled, subs, run, skipped, wSub, handled, wFaults>>
leaseVars == <<lKey, lLeases, lGranted, lCall, keepAlives, lCancelled, lStop, lFaults>>
zkVars == <<others, own, nodes, link, drops, changes, events, armed, lostWatch, localConns, resolver, lock, zRemote,
            isRegistered, node, isStateDisconnected, zUnreg>>
vars == <<part, memVars, simVars, kafkaVars, timerVars, kvVars, bbrVars,
          cpuVars, registrarVars, poolVars, watchKeyVars, leaseVars, zkVars>>

Init ==
    /\ part \in {"memamq", "simmq", "kafka", "timer", "kv", "bbr", "cpu",
                 "registrar", "registrar lost", "pool", "watch key", "lease", "zookeeper"}
    /\ MemQ!Init /\ Sim!Init /\ Timer!Init /\ KV!Init
    /\ Kafka!Init /\ (part # "kafka" => log = 0 /\ committed = 0)
    /\ Bbr!Init /\ (part # "bbr" => ~hot)
    /\ CPU!Init /\ (part # "cpu" => cgroup)
    /\ Registrar!Init /\ Pool!Init /\ WatchKey!Init /\ Lease!Init /\ Zk!Init

Next ==
    /\ UNCHANGED part
    /\ \/ part = "memamq" /\ MemQ!Next
       \/ part # "memamq" /\ UNCHANGED memVars
    /\ \/ part = "simmq" /\ Sim!Next
       \/ part # "simmq" /\ UNCHANGED simVars
    /\ \/ part = "kafka" /\ Kafka!Next
       \/ part # "kafka" /\ UNCHANGED kafkaVars
    /\ \/ part = "timer" /\ Timer!Next
       \/ part # "timer" /\ UNCHANGED timerVars
    /\ \/ part = "kv" /\ KV!Next
       \/ part # "kv" /\ UNCHANGED kvVars
    /\ \/ part = "bbr" /\ Bbr!Next
       \/ part # "bbr" /\ UNCHANGED bbrVars
    /\ \/ part = "cpu" /\ CPU!Next
       \/ part # "cpu" /\ UNCHANGED cpuVars
    /\ \/ part = "registrar" /\ Registrar!Next /\ lost' = 0
       \/ part = "registrar lost" /\ Registrar!Next /\ rFaults' <= MaxFaults
       \/ part \notin {"registrar", "registrar lost"} /\ UNCHANGED registrarVars
    /\ \/ part = "pool" /\ Pool!Next
       \/ part # "pool" /\ UNCHANGED poolVars
    /\ \/ part = "watch key" /\ WatchKey!Next
       \/ part # "watch key" /\ UNCHANGED watchKeyVars
    /\ \/ part = "lease" /\ Lease!Next
       \/ part # "lease" /\ UNCHANGED leaseVars
    /\ \/ part = "zookeeper" /\ Zk!Next
       \/ part # "zookeeper" /\ UNCHANGED zkVars

Spec == Init /\ [][Next]_vars
-----------------------------------------------------------------------------
(* The variables of every part have their types: channels within their      *)
(* buffers, counters that match the program points.                         *)
TypeOK ==
    /\ part = "memamq" => MemQ!TypeOK
    /\ part = "simmq" => Sim!TypeOK
    /\ part = "kafka" => Kafka!TypeOK
    /\ part = "timer" => Timer!TypeOK
    /\ part = "kv" => KV!TypeOK
    /\ part = "cpu" => CPU!Bounded
    /\ part \in {"registrar", "registrar lost"} => Registrar!TypeOK

(* memamq: no push sends on the channel that Stop closes, because           *)
(* waitSafeClose waits for every push that saw isStopped unset.             *)
NoSendOnClosed == part = "memamq" => MemQ!NoSendOnClosed

(* What a queue has accepted it does not lose. memamq: an accepted task is  *)
(* in one place, and the Stop that closes the channel returns only when     *)
(* every one has been executed. simmq: messages are received in order and   *)
(* without gaps across Close, two queues of a topic are never both open,    *)
(* and the table holds no closed one. kafka: what is committed was handed   *)
(* to a handler. redistimer: a timer neither cancelled nor replaced stays   *)
(* stored until its handler has succeeded, which is not called before its   *)
(* deadline; without failures nothing else stays.                           *)
NothingLost ==
    /\ part = "memamq" => MemQ!StopDrains /\ MemQ!OnePlace
    /\ part = "simmq" => Sim!AcceptedInOrder /\ Sim!OneOpenQueue /\ Sim!TableIsOpen
    /\ part = "kafka" => Kafka!CommittedWereHanded
    /\ part = "timer" => Timer!NotForgotten /\ Timer!NotEarly /\ Timer!NoResidue

(* Shutting down ends. memamq: Stop returns, whatever pushes are in         *)
(* progress. simmq: Close returns although a sender is blocked on a full    *)
(* channel with the read lock, and a consumer that is told of it has left   *)
(* nothing in the channel. kafka: a closed member closes its channel though *)
(* nobody reads from it. memory_kv: a watcher subscribed when the registry  *)
(* closes returns. etcd watch_key: a subscriber that left does not hold the *)
(* goroutine up for good. etcd: after the hub is closed the keys that       *)
(* SetWithLease listed go, though revocations fail, and an endpoint that is *)
(* unregistered goes though its deletion fails.                             *)
ShutdownEnds ==
    /\ MemQ!Fairness => MemQ!StopReturns
    /\ Sim!NothingLeftBehind
    /\ Sim!Fairness => Sim!CloseReturns
    /\ Kafka!Fairness => Kafka!CloseEnds
    /\ KV!Fairness => KV!CloseEndsWatchers
    /\ WatchKey!Fairness => WatchKey!PushReturns
    /\ Lease!Fairness => Lease!GoneAfterStop
    /\ (part = "registrar" /\ Registrar!Fairness) => Registrar!UnregisteredGoes

(* Accepted work is done. kafka: while a member stays, every message is     *)
(* handed to a subscriber. redistimer: every registered timer fires or is   *)
(* cancelled, though handlers and removals fail.                            *)
WorkIsDone ==
    /\ Kafka!ReadFairness => Kafka!AllHanded
    /\ Timer!Fairness => Timer!Fires

(* No change is missed. memory_kv: a watcher that handles what it was given *)
(* ends up with the map, and one with events queued has been woken. etcd    *)
(* pool and resolver have the watcher's addresses, whenever they started to *)
(* listen; a subscriber of a key misses no event but those that fell into a *)
(* reconnection. zookeeper: cached connections that are out of date have an *)
(* event under way.                                                         *)
NothingMissed ==
    /\ part = "kv" => KV!ViewFollows /\ KV!NoLostWakeup
    /\ part = "pool" => Pool!InView
    /\ part = "watch key" => WatchKey!NoGap
    /\ part = "zookeeper" => Zk!NoMissedChange

(* What depends on a lease comes and goes with it. etcd: an endpoint that   *)
(* UnRegister has deleted does not come back although keepers of this and   *)
(* of earlier registrations may be renewing it, one that is registered is   *)
(* in place as long as nothing fails, a registered lease has exactly one    *)
(* live keeper, SetWithLease leaves no key with a lease that its goroutine  *)
(* does not know of, and a goroutine of watch_key whose entry has left the  *)
(* map is cancelled. memory_kv: the timer of an old lease never deletes     *)
(* what was set since.                                                      *)
LeasesHold ==
    /\ part \in {"registrar", "registrar lost"} =>
           Registrar!NoGhost /\ Registrar!SteadyInPlace /\ Registrar!OneKeeper
    /\ part = "lease" => Lease!LeaseKnown
    /\ part = "watch key" => WatchKey!NoOrphan
    /\ part = "kv" => KV!StaleLeaseHarmless

(* What an outage took away comes back. etcd: an endpoint lost to faults is *)
(* registered again, a key whose lease was lost is set again, and the pool  *)
(* catches up with etcd: snapshot and watch leave no gap. zookeeper: a      *)
(* client whose node went with its session registers again, and a listed    *)
(* resolver comes to see the children.                                      *)
Recovers ==
    /\ (part = "registrar" /\ Registrar!Fairness) => Registrar!Recovers
    /\ Lease!Fairness => Lease!Restored
    /\ Pool!Fairness => Pool!Follows
    /\ Zk!Fairness => Zk!NodeReturns /\ Zk!ResolverCatchesUp

(* Shedding load ends. bbr: a drop at low load follows one under load       *)
(* within the cooldown; requests keep being admitted whatever the limits    *)
(* and the load; once the load stays low the drops end. cpu: a machine that *)
(* stays saturated is seen as such.                                         *)
OverloadEnds ==
    /\ Bbr!CoolDropsFollowHot
    /\ (part = "bbr" /\ Bbr!Fairness) => Bbr!KeepsAdmitting
    /\ Bbr!Fairness => Bbr!DropsEnd
    /\ (part = "cpu" /\ CPU!Fairness) => CPU!SaturationSeen
=============================================================================
