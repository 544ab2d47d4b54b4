------------------------------ MODULE MCSupport ------------------------------
(***************************************************************************)
(* Small instances of the libraries a server is built with: task queues,    *)
(* overload protection, log rotation, object storage, errors and contexts   *)
(* over gRPC, the redismq builder, calls and connections to other services, *)
(* and the helpers on slices and days.                                      *)
(***************************************************************************)
EXTENDS Integers, Sequences

CONSTANTS Tasks, MaxFaults,                 \* task queues
          MaxAdds, MaxTime,                 \* the rolling window and its clock
          MaxRestarts, MaxGen, MaxPeriods,  \* log rotation
          MaxDeletes, MaxSize,              \* object storage
          MaxHops, MaxWraps,                \* gRPC
          MaxLen, MaxNow,                   \* slices, hours
          MaxEntries,                       \* the redismq stream
          MaxCalls, MaxCloses,              \* the method registries
          MaxReports, MaxConfigs, MaxLatency,   \* the broadcast
          MaxRev, MaxOpts, MaxGens, MaxChanges, MaxOps  \* connections to etcd and Kubernetes

ASSUME SupportAssumption ==
    /\ {MaxSize, MaxHops, MaxNow, MaxGens} \subseteq Nat \ {0}
    /\ {MaxFaults, MaxAdds, MaxTime, MaxRestarts, MaxGen, MaxPeriods, MaxDeletes, MaxWraps, MaxLen} \subseteq Nat
    /\ {MaxEntries, MaxCalls, MaxCloses, MaxReports, MaxConfigs, MaxLatency} \subseteq Nat
    /\ {MaxRev, MaxOpts, MaxChanges, MaxOps} \subseteq Nat

(* A behaviour is one of a single part, chosen at the start; the variables  *)
(* of the others keep their initial values, so that the state space is the  *)
(* sum of those of the parts.                                               *)
VARIABLE part

VARIABLES globalQueue, taskQueues, processing, waiting, made, orderedKeys, lastAssignedIndex, tLock, tPc, key, to, data,
          queue, accepted, deleted
VARIABLES list, keys, lastIndex, me, faults, rAccepted, rDeleted
VARIABLES wNow, buckets, offset, lastUpdateTime, log, result, moved, state, verdict
VARIABLES view, past, maxPASSCache, minRtCache, stat
VARIABLES lNow, files, curBaseFn, curFn, generation, outFh, link, lLocks, toUnlink, order, restarts
VARIABLES store, cache, upload, parts, call, deletes
VARIABLES request, answer
VARIABLES objects, info, thumbKey, thumbs, proc
VARIABLES phase, err, ctx, sent, hops, want, related, handlers
VARIABLES given, cfg, server, version, checked, got, first, last, acked
VARIABLES methods, waiters, refs, ready, rMade, rCall, calls, closes, readying, panicked
VARIABLES localTarget, serviceTarget, config, configs, get, known, clock, remote, dead
VARIABLES alone, wait, chans, closed, ask, asks, kv
VARIABLES rev, hist, w, listeners, addresses, pReady, creating, endpointConnMap, serviceConn, pView, open, syncs,
          dialOptions, opt, closer, toClose, pFaults
VARIABLES watcher, gMade, gClosed, expired, shut, watch
VARIABLES sRev, watchEntry, sMade, sCancelled, subs, run, skipped, sub, handled, sFaults
VARIABLES endpoints, changed, connsMap, kOpen, dials, kOptions, failed, kChanges, ops
VARIABLES a, b
VARIABLES cNow, start, zone, n

TaskOps == {"AddKey", "Insert", "InsertByKey", "Delete", "DeleteKey"}

(* One caller after another, without transfers, ... *)
Task == INSTANCE TaskQueue WITH Callers <- {"c"}, Keys <- {"a", "b"}, Data <- Tasks, MaxGlobal <- 1,
            MaxProcessing <- 1, MaxWaiting <- 1, MaxMade <- 2, Strategy <- "RoundRobin", Ops <- TaskOps, Serial <- TRUE,
            lock <- tLock, pc <- tPc
(* ... and callers that overlap. *)
TaskShared == INSTANCE TaskQueue WITH Callers <- {"c", "d"}, Keys <- {"a", "b"}, Data <- {"x", "y"}, MaxGlobal <- 1,
                  MaxProcessing <- 1, MaxWaiting <- 1, MaxMade <- 2, Strategy <- "Least",
                  Ops <- {"InsertByKey", "Insert", "Delete", "Transform", "AutoTransform"}, Serial <- FALSE,
                  lock <- tLock, pc <- tPc
(* The same of the queues in Redis, and the faults of Redis. *)
Redis == INSTANCE RedisTask WITH Callers <- {"c"}, Keys <- {"a", "b"}, Data <- Tasks, MaxGlobal <- 1,
             MaxProcessing <- 1, MaxWaiting <- 1, MaxKeys <- 2, Strategy <- "RoundRobin",
             Ops <- TaskOps \cup {"AutoTransform"}, Serial <- TRUE, FaultKinds <- {}, MaxFaults <- 0,
             accepted <- rAccepted, deleted <- rDeleted
RedisShared == INSTANCE RedisTask WITH Callers <- {"c", "d"}, Keys <- {"a", "b"}, Data <- {"x", "y"}, MaxGlobal <- 1,
                   MaxProcessing <- 1, MaxWaiting <- 1, MaxKeys <- 2, Strategy <- "Least",
                   Ops <- {"Insert", "InsertByKey", "Delete"}, Serial <- FALSE,
                   FaultKinds <- {"crash"}, accepted <- rAccepted, deleted <- rDeleted
RedisRejects == INSTANCE RedisTask WITH Callers <- {"c"}, Keys <- {"a", "b"}, Data <- {"x", "y"}, MaxGlobal <- 1,
                    MaxProcessing <- 1, MaxWaiting <- 1, MaxKeys <- 2, Strategy <- "RoundRobin",
                    Ops <- {"Insert", "InsertByKey", "Delete", "Transform", "DeleteKey"}, Serial <- TRUE,
                    FaultKinds <- {"reject"}, MaxFaults <- 2, accepted <- rAccepted, deleted <- rDeleted
RedisFaulty == INSTANCE RedisTask WITH Callers <- {"c", "d"}, Keys <- {"a", "b"}, Data <- {"x", "y"}, MaxGlobal <- 1,
                   MaxProcessing <- 1, MaxWaiting <- 1, MaxKeys <- 2, Strategy <- "RoundRobin",
                   Ops <- {"InsertByKey", "Delete", "Transform"}, Serial <- TRUE,
                   FaultKinds <- {"lost", "crash"}, accepted <- rAccepted, deleted <- rDeleted

Window == INSTANCE RollingWindow WITH Size <- 3, Width <- 2, Values <- {2, 5}, MaxTime <- 2 * MaxTime, now <- wNow
Breaker == INSTANCE SREBreaker WITH Size <- 3, Width <- 1, Values <- {0, 1}, MinRequests <- 2, K100 <- 166, now <- wNow
Stats == INSTANCE BBRStats WITH Bucket <- 2, BucketDuration <- 2, PerSecond <- 2, Scale <- 4,
             Buckets <- {<<>>, <<3>>, <<1, 2>>}

(* Log files purged by age, by a process that restarts or by one whose      *)
(* rotations fail, and by number.                                           *)
ByAge == INSTANCE RotateLogs WITH RotationTime <- 2, RotationSize <- 2, RotationCount <- 0, MaxAge <- 2,
             ForceNewFile <- FALSE, Linked <- TRUE, Failing <- FALSE, MaxTime <- MaxPeriods,
             now <- lNow, locks <- lLocks
ByAgeFails == INSTANCE RotateLogs WITH RotationTime <- 2, RotationSize <- 2, RotationCount <- 0, MaxAge <- 2,
               ForceNewFile <- FALSE, Linked <- TRUE, Failing <- TRUE, MaxTime <- MaxPeriods, MaxRestarts <- 0,
               now <- lNow, locks <- lLocks
ByCount == INSTANCE RotateLogs WITH RotationTime <- 2, RotationSize <- 2, RotationCount <- 2, MaxAge <- 0,
               ForceNewFile <- TRUE, Linked <- TRUE, Failing <- FALSE, MaxTime <- MaxPeriods, MaxRestarts <- 0,
               now <- lNow, locks <- lLocks

(* Several uploads of the same content, and calls that overlap and fail. *)
Uploading == INSTANCE S3Upload WITH Contents <- {"a", "d", "b"}, Large <- {"b"}, Uploads <- {"u", "v"}, Calls <- {"c"},
              Copies <- {"k"}, Faults <- FALSE, MaxDeletes <- 0, None <- "none"
UploadFaulty == INSTANCE S3Upload WITH Contents <- {"a", "b"}, Large <- {"b"}, Uploads <- {"u"}, Calls <- {"c", "d"},
                    Copies <- {"k", "l"}, Faults <- TRUE, None <- "none"
Parts == INSTANCE S3Parts WITH MinPart <- 2, MaxPart <- 5, MaxNum <- 4, MaxParts <- 6
(* Names that stand for their content, and names that are used again. *)
Image == INSTANCE MinioImage WITH Names <- {"n", "m"}, Contents <- {"n", "m"}, Sizes <- {"s", "t"}, Callers <- {"p"},
             Addressed <- TRUE, None <- "none"
ImageAnew == INSTANCE MinioImage WITH Names <- {"n"}, Contents <- {"n", "m"}, Sizes <- {"s"}, Callers <- {"p"},
                 Addressed <- FALSE, None <- "none"
Rpc == INSTANCE RpcHop WITH Codes <- {0, 4, 9}, MaxCode <- 8, Internal <- 5, Unknown <- 2, Args <- 1,
           Opts <- {"user"}, Headers <- {"h"}, MaxAdds <- 1

(* The redismq builder, discovery without a registry, and the connections   *)
(* to etcd and Kubernetes while options are added.                          *)
Builder == INSTANCE RedisMQBuilder WITH Versions <- {509, 601, 602, 610, 700}, Topics <- {"t", "u"},
               Known <- {"t"}, Raw <- {0, 6}, MaxLen <- 3
Reg == INSTANCE MethodRegistry WITH Callers <- {"c", "d"}, Services <- {{"m", "n"}}, made <- rMade, call <- rCall,
           closing <- readying
Cast == INSTANCE Broadcast WITH Peers <- {"p", "q"}, Self <- "s"
Alone == INSTANCE Standalone WITH Callers <- {"c", "d"}, Services <- {{"m", "n"}, {"o"}}, Keys <- {"k"},
             Values <- {"v"}, methods <- alone, call <- ask, calls <- asks
Pool == INSTANCE EtcdConnPool WITH Addrs <- {"a", "b"}, ready <- pReady, view <- pView, faults <- pFaults
Reconnect == INSTANCE ReconnectingWatcher WITH Users <- {"u", "v"}, made <- gMade, closed <- gClosed
(* Two subscribers of one key of etcd. *)
WatchShared == INSTANCE EtcdWatchKey WITH Subs <- {"s", "t"}, MaxEntries <- 1, MaxRev <- 1, MaxFaults <- 0, Cap <- 1,
                   rev <- sRev, made <- sMade, cancelled <- sCancelled, faults <- sFaults
K8s == INSTANCE K8sConns WITH Services <- {"s", "t"}, WatchNames <- {"s"}, Addrs <- {"a", "b"}, open <- kOpen,
           dialOptions <- kOptions, changes <- kChanges

Slices == INSTANCE DataUtil WITH Elems <- {0, 1, 2}
Days == INSTANCE TimeCycle WITH HoursPerDay <- 4, TimeOffset <- 1, Local <- 1, Zones <- {1}, MonthEnds <- {3, 5, 9, 12},
            MaxN <- 3, Start <- 2, now <- cNow

taskVars == <<globalQueue, taskQueues, processing, waiting, made, orderedKeys, lastAssignedIndex, tLock, tPc, key, to,
              data, queue, accepted, deleted>>
redisVars == <<list, keys, lastIndex, me, faults, rAccepted, rDeleted>>
windowVars == <<wNow, buckets, offset, lastUpdateTime, log, result, moved>>
breakerVars == <<state, verdict>>
statsVars == <<view, past, maxPASSCache, minRtCache, stat>>
logVars == <<lNow, files, curBaseFn, curFn, generation, outFh, link, lLocks, toUnlink, order, restarts>>
uploadVars == <<store, cache, upload, parts, call, deletes>>
partsVars == <<request, answer>>
imageVars == <<objects, info, thumbKey, thumbs, proc>>
rpcVars == <<phase, err, ctx, sent, hops, want, related, handlers>>
builderVars == <<given, cfg, server, version, checked, got, first, last, acked>>
regVars == <<methods, waiters, refs, ready, rMade, rCall, calls, closes, readying, panicked>>
castVars == <<localTarget, serviceTarget, config, configs, get, known, clock, remote, dead>>
aloneVars == <<alone, wait, chans, closed, ask, asks, kv>>
poolVars == <<rev, hist, w, listeners, addresses, pReady, creating, endpointConnMap, serviceConn, pView, open, syncs,
              dialOptions, opt, closer, toClose, pFaults>>
reconnectVars == <<watcher, gMade, gClosed, expired, shut, watch>>
watchVars == <<sRev, watchEntry, sMade, sCancelled, subs, run, skipped, sub, handled, sFaults>>
k8sVars == <<endpoints, changed, connsMap, kOpen, dials, kOptions, failed, kChanges, ops>>
sliceVars == <<a, b>>
dayVars == <<cNow, start, zone, n>>
vars == <<part, taskVars, redisVars, windowVars, breakerVars, statsVars, logVars, uploadVars,
          partsVars, imageVars, rpcVars, builderVars, regVars, castVars, aloneVars, poolVars, reconnectVars, watchVars,
          k8sVars, sliceVars, dayVars>>

Init ==
    /\ part \in {"task", "task shared", "redis", "redis shared", "redis rejects", "redis faulty", "window", "breaker",
                 "stats", "by age", "failing", "by count", "upload", "upload faulty", "parts", "image", "image anew",
                 "rpc", "builder", "methods", "conns", "call", "standalone", "pool", "reconnect", "watch shared",
                 "k8s", "slices", "days"}
    /\ IF part = "task shared" THEN TaskShared!Init ELSE Task!Init
    /\ IF part \in {"redis shared", "redis faulty"} THEN RedisShared!Init ELSE Redis!Init
    /\ Breaker!Init
    /\ Stats!Init /\ (part # "stats" => view = <<>>)
    /\ ByAge!Init
    /\ IF part = "upload faulty" THEN UploadFaulty!Init ELSE Uploading!Init
    /\ Parts!Init /\ (part # "parts" => request = [p |-> "minio", size |-> 0, maxParts |-> 0])
    /\ IF part = "image anew" THEN ImageAnew!Init ELSE Image!Init
    /\ Rpc!Init /\ (part # "rpc" => ~ctx.op /\ ctx.opts = {} /\ ctx.custom = {} /\ ctx.values = {})
    /\ Builder!Init /\ (part # "builder" => given = [f \in DOMAIN given |-> 0] /\ server = 700)
    /\ Reg!Init /\ Cast!Init /\ Alone!Init /\ Pool!Init /\ Reconnect!Init /\ WatchShared!Init
    /\ K8s!Init /\ (part # "k8s" => \A s \in DOMAIN endpoints : endpoints[s] = {})
    /\ Slices!Init
    /\ Days!Init /\ (part # "days" => start = cNow /\ n = 1)

Next ==
    /\ UNCHANGED part
    /\ \/ part = "task" /\ Task!Next
       \/ part = "task shared" /\ TaskShared!Next
       \/ part \notin {"task", "task shared"} /\ UNCHANGED taskVars
    /\ \/ part = "redis" /\ Redis!Next
       \/ part = "redis shared" /\ RedisShared!Next
       \/ part = "redis rejects" /\ RedisRejects!Next
       \/ part = "redis faulty" /\ RedisFaulty!Next
       \/ part \notin {"redis", "redis shared", "redis rejects", "redis faulty"} /\ UNCHANGED redisVars
    /\ \/ part = "window" /\ Window!WindowNext /\ UNCHANGED breakerVars
       \/ part = "breaker" /\ Breaker!Next
       \/ part \notin {"window", "breaker"} /\ UNCHANGED <<windowVars, breakerVars>>
    /\ \/ part = "stats" /\ Stats!Next
       \/ part # "stats" /\ UNCHANGED statsVars
    /\ \/ part = "by age" /\ ByAge!Next
       \/ part = "failing" /\ ByAgeFails!Next
       \/ part = "by count" /\ ByCount!Next
       \/ part \notin {"by age", "failing", "by count"} /\ UNCHANGED logVars
    /\ \/ part = "upload" /\ Uploading!Next
       \/ part = "upload faulty" /\ UploadFaulty!Next
       \/ part \notin {"upload", "upload faulty"} /\ UNCHANGED uploadVars
    /\ \/ part = "parts" /\ Parts!Next
       \/ part # "parts" /\ UNCHANGED partsVars
    /\ \/ part = "image" /\ Image!Next
       \/ part = "image anew" /\ ImageAnew!Next
       \/ part \notin {"image", "image anew"} /\ UNCHANGED imageVars
    /\ \/ part = "rpc" /\ Rpc!Next
       \/ part # "rpc" /\ UNCHANGED rpcVars
    /\ \/ part = "builder" /\ Builder!Next
       \/ part # "builder" /\ UNCHANGED builderVars
    /\ \/ part = "methods" /\ Reg!Next
       \/ part # "methods" /\ UNCHANGED regVars
    /\ \/ part = "conns" /\ Cast!ConnsNext
       \/ part = "call" /\ Cast!CallNext
       \/ part \notin {"conns", "call"} /\ UNCHANGED castVars
    /\ \/ part = "standalone" /\ Alone!Next
       \/ part # "standalone" /\ UNCHANGED aloneVars
    /\ \/ part = "pool" /\ Pool!Next
       \/ part # "pool" /\ UNCHANGED poolVars
    /\ \/ part = "reconnect" /\ Reconnect!Next
       \/ part # "reconnect" /\ UNCHANGED reconnectVars
    /\ \/ part = "watch shared" /\ WatchShared!Next
       \/ part # "watch shared" /\ UNCHANGED watchVars
    /\ \/ part = "k8s" /\ K8s!Next
       \/ part # "k8s" /\ UNCHANGED k8sVars
    /\ \/ part = "slices" /\ Slices!Grow
       \/ part # "slices" /\ UNCHANGED sliceVars
    /\ \/ part = "days" /\ Days!Next
       \/ part # "days" /\ UNCHANGED dayVars

Spec == Init /\ [][Next]_vars
-----------------------------------------------------------------------------
(* The variables have their types: a key of the task queues is once in the  *)
(* rotation, the counters of the method registry match its callers.         *)
TypeOK ==
    /\ part = "task" => Task!TypeOK
    /\ part = "redis" => Redis!TypeOK
    /\ part = "methods" => Reg!TypeOK
    /\ Cast!TypeOK

(* standalonetask and redistask keep the promise of TaskPool when their     *)
(* calls do not overlap: a task that was accepted is held, in one of the    *)
(* queues or in the hands of a transfer, until it is deleted. Meanwhile its *)
(* position in the global queue goes down by one at a time and never up.    *)
ImplementsPool ==
    /\ part = "task" => Task!Pool!Init
    /\ part = "redis" => Redis!Pool!Init
    /\ [][part = "task" => Task!Pool!Next]_<<Task!Held, deleted>>
    /\ [][part = "redis" => Redis!Pool!Next]_<<Redis!Held, rDeleted>>
    /\ [][part = "task" => Task!CountsDown]_taskVars
    /\ [][part = "redis" => Redis!CountsDown]_redisVars

(* standalonetask and redistask: when no call is in progress a task waits   *)
(* for its key only while the key has no room for it.                       *)
NoIdleRoom == (part = "task" => Task!NoIdleRoom) /\ (part = "redis" => Redis!NoIdleRoom)

(* No interleaving of calls puts a task of standalonetask into two places   *)
(* or fills a queue beyond its limit; without transfers and lost replies    *)
(* none, and no crash, duplicates a task of redistask.                      *)
NoDuplicate ==
    /\ part = "task shared" => TaskShared!NoDuplicate /\ TaskShared!WithinLimits
    /\ part = "redis shared" => RedisShared!NoDuplicate

(* redistask: one failed command, lost reply or crash costs or duplicates   *)
(* at most one task.                                                        *)
DamagePerFault ==
    /\ part = "redis rejects" => RedisRejects!DamagePerFault
    /\ part = "redis faulty" => RedisFaulty!DamagePerFault

(* Decisions about load are made on recent data. window: the first Reduce   *)
(* after an Add is over exactly the points of the last buckets, whatever    *)
(* the gaps between additions. sre: a request is dropped only for what the  *)
(* recent ones were. bbr: Stat reports the bounds of a window no older than *)
(* a bucket, and the limit does not shrink below what a completed bucket    *)
(* sustained.                                                               *)
DecidesOnRecent ==
    /\ [][part = "window" /\ Window!Reduce /\ ~moved => result' = Window!Expected]_windowVars
    /\ Breaker!FirstDropDeserved
    /\ Stats!StatIsRecent
    /\ Stats!LimitSustains

(* rotatelogs: a file is purged only when it has not been written to for    *)
(* MaxAge, though the purging goroutine acts on an earlier listing, or when *)
(* it is not one of the latest RotationCount; the file that is written to   *)
(* is never purged and the link leads to it, and after the purge            *)
(* RotationCount files are left.                                            *)
LogsKept ==
    /\ [][(part = "by age" \/ part = "failing") => ByAge!RemovedAreOld]_logVars
    /\ [][part = "by count" => ByCount!RemovedAreExcess]_logVars
    /\ [][ByAge!CurrentKept']_logVars
    /\ [][part = "by count" => ByCount!CountKept']_logVars
    /\ [][part = "by count" => ByCount!LinkFollows']_logVars

(* s3 cont: what is stored under a hash has that hash although clients      *)
(* overwrite the temporary object at any time, a CompleteUpload that        *)
(* succeeds leaves the object in the store, and the temporary copies go     *)
(* with the calls that made them. minio: a cached key names a thumbnail     *)
(* that exists, of the image whose tag it is stored under.                  *)
StoredIsSound ==
    /\ part = "upload" => Uploading!HashIntegrity /\ Uploading!SuccessIsStored /\ Uploading!NoLeftovers
    /\ part = "upload faulty" => UploadFaulty!HashIntegrity /\ UploadFaulty!SuccessIsStored
    /\ part = "image" => Image!NoDangling
    /\ part = "image anew" => ImageAnew!ThumbOfTag

(* errs and mw: over any number of hops and any wrapping the code that was  *)
(* raised reaches the first caller, what one side of the wire recognises    *)
(* the other does, and the caller's ids and custom values reach every       *)
(* handler.                                                                 *)
HopPreserves == Rpc!IsSurvives /\ [][Rpc!CodeSurvives' /\ Rpc!CtxSurvives']_rpcVars

(* redismq: nobody holds a producer or consumer that the one check of the   *)
(* server version would refuse, through outages and upgrades, and a MAXLEN  *)
(* above the number of unacknowledged entries trims none of them.           *)
BuiltIsFit == part = "builder" => Builder!FailClosed /\ Builder!DefaultsFit /\ Builder!CapKeepsPending

(* A call that waits for its service is never stranded. method_registry:    *)
(* nobody waits for a method that is registered, whoever gave up or closed  *)
(* in between; a waiter counts exactly the callers that hold it and its     *)
(* channel is closed once; a woken call finds its handler unless the        *)
(* registry was closed. standalone: a caller waits on a channel that        *)
(* registration will close, and finds its method when woken.                *)
NoStranded ==
    /\ part = "methods" => Reg!NoStranded /\ Reg!WaitersCounted /\ Reg!ClosedOnce /\ Reg!WokenHasHandler
    /\ part = "standalone" => Alone!NoStranded /\ Alone!WokenFinds

(* conn_manager and remote_conn: a broadcast reaches this instance and      *)
(* every other reported address exactly once, with the secret that was      *)
(* configured together with the source of the addresses, and the caller of  *)
(* a peer that lives gets the peer's answer, never its own timeout.         *)
BroadcastReaches ==
    /\ part = "conns" => Cast!EachTargetOnce /\ Cast!SecretOfProvider
    /\ part = "call" => Cast!PeerAnswersFirst

(* Every connection and stream has an owner. etcd: what GetConns hands out  *)
(* is open and was dialled with all the options, an open connection is in   *)
(* the map or about to be closed, and none is left after close; watches     *)
(* that fail together leave no stream behind, and the watch of a key ends   *)
(* with the last of its subscribers. kubernetes: the open connections are   *)
(* those of the map, and the map follows the API server unless an event is  *)
(* under way or the last rebuild failed.                                    *)
ConnsOwned ==
    /\ part = "pool" => Pool!NoClosedConn /\ Pool!NoLeak /\ Pool!ClosedForGood /\ Pool!CurrentOptions
    /\ part = "reconnect" => Reconnect!NoLeak
    /\ part = "watch shared" => WatchShared!NoOrphan
    /\ part = "k8s" => K8s!OpenIsMapped /\ K8s!KeepsUp /\ K8s!CurrentOptions

(* The algorithms agree with their definitions. s3: an accepted upload fits *)
(* the provider's limits on parts, and only parts that exist are signed.    *)
(* datautil: distinct, difference, intersection, deletion by position and   *)
(* by element, pages, grouping and partial updates are what they are for    *)
(* sets, bags and sequences, duplicates and bad indexes included.           *)
(* timeutil: a task that follows a cycle runs once in it, from its start,   *)
(* and the zero hour is that of the running day.                            *)
AlgorithmsAgree ==
    /\ part = "parts" => Parts!PartsFit /\ Parts!SignedExist
    /\ part = "slices" =>
           /\ Slices!DistinctKeepsFirst /\ Slices!SubtractKeepsFirst /\ Slices!SetOperations
           /\ Slices!SingleIsDifference /\ Slices!DeleteByPosition /\ Slices!DeleteElemsIsBagDifference
           /\ Slices!PagesPartition /\ Slices!OrderGroups /\ Slices!Extremes /\ Slices!ReplaceIdempotent
    /\ part = "days" => Days!RunsOnceACycle /\ Days!StartCounts /\ Days!ZeroIsToday
=============================================================================
