------------------------------ MODULE TaskQueue ------------------------------
(***************************************************************************)
(* queue/task/standalonetask: tasks are processed per key.  Each key has a  *)
(* processing and a waiting queue; tasks without a key wait in the global   *)
(* queue.  The manager's lock is held by every operation but Delete, which  *)
(* gives it back after looking up the key, and works on the queues.         *)
(***************************************************************************)
EXTENDS Integers, Sequences, FiniteSets, SequencesExt

CONSTANTS Callers, Keys, Data,
          MaxGlobal, MaxProcessing, MaxWaiting,
          MaxMade,     \* queues created for keys, at most
          Strategy,    \* "RoundRobin" or "Least"
          Ops,         \* the operations that are called: a subset of AddKey, Insert, InsertByKey,
                       \* Delete, DeleteKey, Transform and AutoTransform
          Serial       \* calls do not overlap

B == INSTANCE BoundQueue

VARIABLES globalQueue,
          taskQueues,           \* the queue of a key, or NoQueue
          processing, waiting,  \* of a queue, whether in taskQueues or not
          made, orderedKeys, lastAssignedIndex,
          lock,                 \* the caller that holds tm.lock, or NoCaller
          pc, key, to, data, queue,   \* a caller's place and local variables
          accepted, deleted           \* history

local == <<key, to, data, queue>>
keyed == <<taskQueues, made, orderedKeys, lastAssignedIndex>>
items == <<globalQueue, processing, waiting>>
history == <<accepted, deleted>>
vars == <<items, keyed, lock, pc, local, history>>

NoQueue == 0
NoCaller == "nobody"
NoKey == "none"
NoData == "none"
Made == 1..MaxMade

Init ==
    /\ globalQueue = <<>> /\ taskQueues = [k \in Keys |-> NoQueue] /\ made = 0
    /\ processing = [q \in Made |-> <<>>] /\ waiting = [q \in Made |-> <<>>]
    /\ orderedKeys = <<>> /\ lastAssignedIndex = -1 /\ lock = NoCaller
    /\ pc = [c \in Callers |-> "idle"]
    /\ key = [c \in Callers |-> NoKey] /\ to = key
    /\ data = [c \in Callers |-> NoData] /\ queue = [c \in Callers |-> NoQueue]
    /\ accepted = {} /\ deleted = {}
-----------------------------------------------------------------------------
Idle(c, op) ==
    /\ pc[c] = "idle" /\ op \in Ops
    /\ Serial => \A e \in Callers : pc[e] = "idle"

Locked(c, op) == Idle(c, op) /\ lock = NoCaller

(* A task is submitted once; a rejected one may be submitted again. *)
Fresh(d) == d \notin accepted /\ \A c \in Callers : data[c] # d

Return(c) ==
    /\ pc' = [pc EXCEPT ![c] = "idle"]
    /\ data' = [data EXCEPT ![c] = NoData] /\ queue' = [queue EXCEPT ![c] = NoQueue]
    /\ key' = [key EXCEPT ![c] = NoKey] /\ to' = [to EXCEPT ![c] = NoKey]

(* The faulty variant: a key that exists takes another turn. *)
getOrCreateAppends(k) ==
    /\ made < MaxMade
    /\ made' = IF taskQueues[k] = NoQueue THEN made + 1 ELSE made
    /\ taskQueues' = IF taskQueues[k] = NoQueue THEN [taskQueues EXCEPT ![k] = made + 1] ELSE taskQueues
    /\ orderedKeys' = Append(orderedKeys, k)

getOrCreateTaskQueues(k) ==
    IF taskQueues[k] # NoQueue THEN UNCHANGED <<taskQueues, made, orderedKeys>>
    ELSE /\ made < MaxMade
         /\ made' = made + 1
         /\ taskQueues' = [taskQueues EXCEPT ![k] = made + 1]
         /\ orderedKeys' = Append(orderedKeys, k)

Present == {k \in Keys : taskQueues[k] # NoQueue}

(* The key after the last assigned one, in turn, whose processing queue has *)
(* room.                                                                    *)
RoundRobinTask ==
    LET n == Len(orderedKeys)
        At(i) == (lastAssignedIndex + i + 1) % n
        Room(i) == ~B!Full(processing[taskQueues[orderedKeys[At(i) + 1]]], MaxProcessing)
    IN  {[key |-> orderedKeys[At(i) + 1], index |-> At(i)] :
            i \in {j \in 0..(n - 1) : Room(j) /\ \A h \in 0..(j - 1) : ~Room(h)}}

(* A key with the fewest tasks being processed, full or not; which one of   *)
(* several depends on the order of a map.                                   *)
LeastTask ==
    LET Load(k) == Len(processing[taskQueues[k]])
    IN  {[key |-> k, index |-> lastAssignedIndex] :
            k \in {x \in Present : \A y \in Present : Load(x) <= Load(y)}}

assignKey == IF Strategy = "RoundRobin" THEN RoundRobinTask ELSE LeastTask

(* A push to a processing queue, with the callbacks if it succeeds. *)
pushToProcess(q, d) ==
    processing' = [processing EXCEPT ![q] = B!Push(@, MaxProcessing, d)]
-----------------------------------------------------------------------------
AddKey(c, k) ==
    /\ Locked(c, "AddKey")
    /\ getOrCreateTaskQueues(k)
    /\ UNCHANGED <<items, lastAssignedIndex, lock, pc, local, history>>

pushToGlobal(d) ==
    IF B!Full(globalQueue, MaxGlobal) THEN UNCHANGED <<globalQueue, accepted>>
    ELSE globalQueue' = B!Push(globalQueue, MaxGlobal, d) /\ accepted' = accepted \cup {d}

(* Insert: pick a key, see whether it has room, push.  A Delete may change  *)
(* the queue between these steps.                                           *)
Insert(c, d) ==
    /\ Locked(c, "Insert") /\ Fresh(d)
    /\ \/ /\ assignKey = {}
          /\ pushToGlobal(d)
          /\ UNCHANGED <<lock, pc, local, lastAssignedIndex>>
       \/ \E a \in assignKey :
          /\ lastAssignedIndex' = a.index /\ lock' = c
          /\ pc' = [pc EXCEPT ![c] = "room"]
          /\ key' = [key EXCEPT ![c] = a.key] /\ data' = [data EXCEPT ![c] = d]
          /\ queue' = [queue EXCEPT ![c] = taskQueues[a.key]]
          /\ UNCHANGED <<globalQueue, accepted, to>>
    /\ UNCHANGED <<processing, waiting, taskQueues, made, orderedKeys, deleted>>

InsertRoom(c) ==
    /\ pc[c] = "room"
    /\ IF B!Full(processing[queue[c]], MaxProcessing)
       THEN pushToGlobal(data[c]) /\ Return(c) /\ lock' = NoCaller
       ELSE pc' = [pc EXCEPT ![c] = "push"] /\ UNCHANGED <<globalQueue, accepted, lock, local>>
    /\ UNCHANGED <<processing, waiting, keyed, deleted>>

(* Push without the callback: Insert does not go through pushToProcess. *)
InsertPush(c) ==
    /\ pc[c] = "push"
    /\ processing' = [processing EXCEPT ![queue[c]] = B!Push(@, MaxProcessing, data[c])]
    /\ accepted' = IF B!Full(processing[queue[c]], MaxProcessing) THEN accepted
                                                                  ELSE accepted \cup {data[c]}
    /\ Return(c) /\ lock' = NoCaller
    /\ UNCHANGED <<globalQueue, waiting, keyed, deleted>>

InsertByKey(c, k, d) ==
    LET q == IF taskQueues[k] = NoQueue THEN made + 1 ELSE taskQueues[k] IN
    /\ Locked(c, "InsertByKey") /\ Fresh(d)
    /\ getOrCreateTaskQueues(k)
    /\ \/ /\ ~B!Full(processing[q], MaxProcessing)
          /\ lock' = c /\ pc' = [pc EXCEPT ![c] = "pushKey"]
          /\ key' = [key EXCEPT ![c] = k] /\ data' = [data EXCEPT ![c] = d]
          /\ queue' = [queue EXCEPT ![c] = q]
          /\ UNCHANGED <<waiting, accepted, to>>
       \/ /\ B!Full(processing[q], MaxProcessing)
          /\ waiting' = [waiting EXCEPT ![q] = B!Push(@, MaxWaiting, d)]
          /\ accepted' = IF B!Full(waiting[q], MaxWaiting) THEN accepted ELSE accepted \cup {d}
          /\ UNCHANGED <<lock, pc, local>>
    /\ UNCHANGED <<globalQueue, processing, lastAssignedIndex, deleted>>

InsertByKeyPush(c) ==
    /\ pc[c] = "pushKey"
    /\ pushToProcess(queue[c], data[c])
    /\ accepted' = IF B!Full(processing[queue[c]], MaxProcessing) THEN accepted
                                                                  ELSE accepted \cup {data[c]}
    /\ Return(c) /\ lock' = NoCaller
    /\ UNCHANGED <<globalQueue, waiting, keyed, deleted>>

(* Delete: look up the key under the lock, then work without it. *)
Delete(c, k, d) ==
    /\ Locked(c, "Delete") /\ d \in accepted
    /\ taskQueues[k] # NoQueue
    /\ pc' = [pc EXCEPT ![c] = "remove"]
    /\ key' = [key EXCEPT ![c] = k] /\ data' = [data EXCEPT ![c] = d]
    /\ queue' = [queue EXCEPT ![c] = taskQueues[k]]
    /\ UNCHANGED <<items, keyed, lock, to, history>>

DeleteRemove(c) ==
    LET q == queue[c] IN
    /\ pc[c] = "remove"
    /\ IF B!Contains(processing[q], data[c])
       THEN /\ processing' = [processing EXCEPT ![q] = B!Remove(@, data[c])]
            /\ deleted' = deleted \cup {data[c]}
            /\ data' = [data EXCEPT ![c] = NoData]
            /\ pc' = [pc EXCEPT ![c] = "popWaiting"]
       ELSE pc' = [pc EXCEPT ![c] = "removeWaiting"] /\ UNCHANGED <<processing, deleted, data>>
    /\ UNCHANGED <<globalQueue, waiting, keyed, lock, key, to, queue, accepted>>

DeleteWaiting(c) ==
    LET q == queue[c] IN
    /\ pc[c] = "removeWaiting"
    /\ IF B!Contains(waiting[q], data[c])
       THEN /\ waiting' = [waiting EXCEPT ![q] = B!Remove(@, data[c])]
            /\ deleted' = deleted \cup {data[c]}
       ELSE UNCHANGED <<waiting, deleted>>
    /\ Return(c)
    /\ UNCHANGED <<globalQueue, processing, keyed, lock, accepted>>

(* The faulty variant: the global queue is asked first. *)
DeletePopGlobalFirst(c) ==
    /\ pc[c] = "popWaiting"
    /\ pc' = [pc EXCEPT ![c] = "popGlobal"]
    /\ UNCHANGED <<items, keyed, lock, local, history>>

DeletePop(c) ==
    LET q == queue[c] IN
    /\ pc[c] = "popWaiting"
    /\ IF waiting[q] # <<>>
       THEN /\ waiting' = [waiting EXCEPT ![q] = B!Pop(@).rest]
            /\ data' = [data EXCEPT ![c] = B!Pop(waiting[q]).item]
            /\ pc' = [pc EXCEPT ![c] = "promote"]
       ELSE pc' = [pc EXCEPT ![c] = "popGlobal"] /\ UNCHANGED <<waiting, data>>
    /\ UNCHANGED <<globalQueue, processing, keyed, lock, key, to, queue, history>>

DeleteGlobal(c) ==
    /\ pc[c] = "popGlobal"
    /\ IF globalQueue # <<>>
       THEN /\ globalQueue' = B!Pop(globalQueue).rest
            /\ data' = [data EXCEPT ![c] = B!Pop(globalQueue).item]
            /\ pc' = [pc EXCEPT ![c] = "promote"] /\ UNCHANGED <<key, to, queue>>
       ELSE Return(c) /\ UNCHANGED globalQueue
    /\ UNCHANGED <<processing, waiting, keyed, lock, history>>

(* The faulty variant: nothing is pushed when tasks still wait. *)
DeletePushDrops(c) ==
    /\ pc[c] = "promote"
    /\ processing' = IF waiting[queue[c]] # <<>> \/ globalQueue # <<>> THEN processing
                     ELSE [processing EXCEPT ![queue[c]] = Append(@, data[c])]
    /\ Return(c)
    /\ UNCHANGED <<globalQueue, waiting, keyed, lock, accepted, deleted>>

(* The error of pushToProcess is ignored. *)
DeletePush(c) ==
    /\ pc[c] = "promote"
    /\ pushToProcess(queue[c], data[c])
    /\ Return(c)
    /\ UNCHANGED <<globalQueue, waiting, keyed, lock, accepted, deleted>>

(* DeleteKey forgets the queue with all it holds. *)
DeleteKey(c, k) ==
    LET q == taskQueues[k]
        rest == B!Remove(orderedKeys, k)
    IN  /\ Locked(c, "DeleteKey") /\ q # NoQueue
        /\ taskQueues' = [taskQueues EXCEPT ![k] = NoQueue]
        /\ orderedKeys' = rest
        /\ lastAssignedIndex' =
               IF lastAssignedIndex >= Len(rest) /\ Len(rest) > 0 THEN Len(rest) - 1
                                                                  ELSE lastAssignedIndex
        /\ deleted' = deleted \cup ToSet(processing[q]) \cup ToSet(waiting[q])
        /\ UNCHANGED <<items, made, lock, pc, local, accepted>>

(* TransformProcessingData under the lock: out of one queue, into another   *)
(* whatever its length.                                                     *)
TransformStart(c, from, k, d) ==
    LET q == taskQueues[from] IN
    /\ lock = NoCaller /\ q # NoQueue
    /\ getOrCreateTaskQueues(k)
    /\ IF B!Contains(processing[q], d)
       THEN /\ processing' = [processing EXCEPT ![q] = B!Remove(@, d)]
            /\ lock' = c /\ pc' = [pc EXCEPT ![c] = "transfer"]
            /\ to' = [to EXCEPT ![c] = k] /\ data' = [data EXCEPT ![c] = d]
            /\ UNCHANGED <<key, queue>>
       ELSE Return(c) /\ UNCHANGED <<processing, lock>>
    /\ UNCHANGED <<globalQueue, waiting, lastAssignedIndex, history>>

TransformProcessingData(c, from, k, d) ==
    Idle(c, "Transform") /\ d \in accepted /\ TransformStart(c, from, k, d)

TransformPush(c) ==
    /\ pc[c] = "transfer"
    /\ processing' = [processing EXCEPT ![taskQueues[to[c]]] = B!ForcePush(@, data[c])]
    /\ Return(c) /\ lock' = NoCaller
    /\ UNCHANGED <<globalQueue, waiting, keyed, accepted, deleted>>

(* The target is chosen under the lock, which is then given back. *)
AutoTransformProcessingData(c, from, d) ==
    /\ Locked(c, "AutoTransform") /\ d \in accepted
    /\ \E a \in assignKey :
       /\ lastAssignedIndex' = a.index
       /\ to' = [to EXCEPT ![c] = a.key]
    /\ key' = [key EXCEPT ![c] = from] /\ data' = [data EXCEPT ![c] = d]
    /\ pc' = [pc EXCEPT ![c] = "auto"]
    /\ UNCHANGED <<items, taskQueues, made, orderedKeys, lock, queue, history>>

AutoTransform(c) ==
    /\ pc[c] = "auto"
    /\ \/ TransformStart(c, key[c], to[c], data[c])
       \/ /\ lock = NoCaller /\ taskQueues[key[c]] = NoQueue
          /\ Return(c)
          /\ UNCHANGED <<items, keyed, lock, history>>
-----------------------------------------------------------------------------
CallerStep(c) ==
    \/ InsertRoom(c) \/ InsertPush(c) \/ InsertByKeyPush(c)
    \/ DeleteRemove(c) \/ DeleteWaiting(c) \/ DeletePop(c) \/ DeleteGlobal(c) \/ DeletePush(c)
    \/ TransformPush(c) \/ AutoTransform(c)

Call(c) ==
    \E k \in Keys :
       \/ AddKey(c, k) \/ DeleteKey(c, k)
       \/ \E d \in Data : InsertByKey(c, k, d) \/ Delete(c, k, d)
                       \/ AutoTransformProcessingData(c, k, d)
                       \/ \E t \in Keys : TransformProcessingData(c, k, t, d)

Next ==
    \/ \E c \in Callers, d \in Data : Insert(c, d)
    \/ \E c \in Callers : Call(c) \/ CallerStep(c)

Spec == Init /\ [][Next]_vars
-----------------------------------------------------------------------------
GetGlobalQueuePosition(d) == B!Peek(globalQueue, d)

InQueues == ToSet(globalQueue)
            \cup UNION {ToSet(processing[taskQueues[k]]) \cup ToSet(waiting[taskQueues[k]]) : k \in Present}

(* A task between two queues, in the hands of a caller. *)
InHands == {data[c] : c \in {e \in Callers : pc[e] \in {"promote", "transfer"}}}

Held == InQueues \cup InHands

TypeOK ==
    /\ globalQueue \in Seq(Data) /\ taskQueues \in [Keys -> 0..made] /\ made \in 0..MaxMade
    /\ \A q \in Made : processing[q] \in Seq(Data) /\ waiting[q] \in Seq(Data)
    /\ ToSet(orderedKeys) = Present /\ Len(orderedKeys) = Cardinality(Present)
    /\ lastAssignedIndex \in -1..(Cardinality(Keys) - 1)
    /\ lock \in Callers \cup {NoCaller} /\ data \in [Callers -> Data \cup {NoData}]
    /\ deleted \subseteq accepted /\ accepted \subseteq Data

Places(d) ==
    LET At(s) == {i \in DOMAIN s : s[i] = d}
    IN  (UNION {{q} \X {"processing"} \X At(processing[q]) : q \in Made})
        \cup (UNION {{q} \X {"waiting"} \X At(waiting[q]) : q \in Made})
        \cup {NoQueue} \X {"global"} \X At(globalQueue)
        \cup {NoQueue} \X {"hands"} \X {c \in Callers : pc[c] \in {"promote", "transfer"} /\ data[c] = d}

(* No interleaving of calls puts a task into two places at once. *)
NoDuplicate == \A d \in Data : Cardinality(Places(d)) <= 1

(* Capacities hold at every moment, although Insert looks at the length and *)
(* pushes in two steps; only a transfer may exceed one.                     *)
WithinLimits ==
    /\ Len(globalQueue) <= MaxGlobal
    /\ \A q \in Made : Len(waiting[q]) <= MaxWaiting
    /\ Ops \cap {"Transform", "AutoTransform"} = {} =>
          \A q \in Made : Len(processing[q]) <= MaxProcessing

(* When no call is in progress a task waits for its key only while the key  *)
(* has no room for it.                                                      *)
NoIdleRoom ==
    (\A c \in Callers : pc[c] = "idle") =>
        \A k \in Present : waiting[taskQueues[k]] # <<>> =>
                              B!Full(processing[taskQueues[k]], MaxProcessing)

(* GetGlobalQueuePosition says how many tasks leave the global queue before *)
(* this one: it goes down by one at a time and never up.                    *)
CountsDown ==
    \A d \in Data : LET p == GetGlobalQueuePosition(d)
                    IN  p >= 0 => GetGlobalQueuePosition(d)' \in {p, p - 1}

(* The detailed queues keep the promise of TaskPool. *)
Pool == INSTANCE TaskPool WITH held <- Held, deleted <- deleted
=============================================================================
