------------------------------ MODULE RedisTask ------------------------------
(***************************************************************************)
(* queue/task/redistask: the task queues as Redis lists, shared by any      *)
(* number of processes without a lock.  A step is one command or one Lua    *)
(* script.  Lists grow at the head (LPUSH) and shrink at the tail (RPOP).   *)
(***************************************************************************)
EXTENDS Integers, Sequences, FiniteSets, SequencesExt

CONSTANTS Callers, Keys, Data,
          MaxGlobal, MaxProcessing, MaxWaiting,
          MaxKeys,     \* length of the key list, a bound on AddKey
          Strategy, Ops, Serial,
          FaultKinds,  \* of "reject", "lost", "crash"
          MaxFaults

Global == <<"global", "none">>
Processing(k) == <<"processing", k>>
Waiting(k) == <<"waiting", k>>
Lists == {Global} \cup {Processing(k) : k \in Keys} \cup {Waiting(k) : k \in Keys}
Capacity(l) == CASE l[1] = "global" -> MaxGlobal
                 [] l[1] = "processing" -> MaxProcessing
                 [] l[1] = "waiting" -> MaxWaiting

VARIABLES list, keys, lastIndex,   \* Redis
          me,                      \* a caller's place and local variables
          faults,
          accepted, deleted        \* history
redis == <<list, keys, lastIndex>>
history == <<accepted, deleted>>
vars == <<redis, me, faults, history>>

(* pc, the key and the task of the call, the lists still to be tried, an    *)
(* index read earlier, a task between two lists and where it came from.     *)
Idle == [pc |-> "idle", op |-> "none", key |-> "none", to |-> "none", data |-> "none", rest |-> <<>>,
         index |-> 0, hand |-> "none", from |-> Global]
Dead == [Idle EXCEPT !.pc = "dead"]

Init ==
    /\ list = [l \in Lists |-> <<>>] /\ keys = <<>> /\ lastIndex = -1
    /\ me = [c \in Callers |-> Idle] /\ faults = 0
    /\ accepted = {} /\ deleted = {}
-----------------------------------------------------------------------------
Goto(c, r) == me' = [me EXCEPT ![c] = r]
Return(c) == Goto(c, Idle)

Begin(c, op) ==
    /\ me[c].pc = "idle" /\ op \in Ops
    /\ Serial => \A e \in Callers : me[e].pc \in {"idle", "dead"}

(* A command returns an error: it was not executed, or its reply is lost. *)
Fault(kind) == kind \in FaultKinds /\ faults < MaxFaults /\ faults' = faults + 1

Fresh(d) == d \notin accepted /\ \A c \in Callers : me[c].data # d

(* RoundRobinTask: a script, so one step. *)
RoundRobinTask ==
    LET n == Len(keys)
        At(i) == (lastIndex + i) % n
        Room(i) == Len(list[Processing(keys[At(i) + 1])]) < MaxProcessing
    IN  {[key |-> keys[At(i) + 1], index |-> At(i)] :
            i \in {j \in 1..n : Room(j) /\ \A h \in 1..(j - 1) : ~Room(h)}}

(* LeastTask reads one length after the other; what it picks had room when  *)
(* it was read, and need not be the least any more.                         *)
LeastTask ==
    {[key |-> k, index |-> lastIndex] :
        k \in {x \in ToSet(keys) : Len(list[Processing(x)]) < MaxProcessing}}

assignStrategy == IF Strategy = "RoundRobin" THEN RoundRobinTask ELSE LeastTask
-----------------------------------------------------------------------------
(* The script of AddKey: a key counts as known while it is processing.  The *)
(* bound on the length of the list is the model's.                          *)
AddKeyScript(k) ==
    IF list[Processing(k)] # <<>> THEN UNCHANGED keys
    ELSE Len(keys) < MaxKeys /\ keys' = Append(keys, k)

AddKey(c, k) ==
    /\ Begin(c, "AddKey")
    /\ AddKeyScript(k)
    /\ UNCHANGED <<list, lastIndex, me, faults, history>>

(* Insert tries the processing list of the assigned key, then the global    *)
(* list; without a key only the global list.                                *)
Insert(c, d) ==
    /\ Begin(c, "Insert") /\ Fresh(d)
    /\ \/ /\ assignStrategy = {}
          /\ Goto(c, [Idle EXCEPT !.pc = "llen", !.data = d, !.rest = <<Global>>])
          /\ UNCHANGED lastIndex
       \/ \E a \in assignStrategy :
          /\ lastIndex' = a.index
          /\ Goto(c, [Idle EXCEPT !.pc = "llen", !.data = d, !.rest = <<Processing(a.key), Global>>])
    /\ UNCHANGED <<list, keys, faults, history>>

InsertByKey(c, k, d) ==
    /\ Begin(c, "InsertByKey") /\ Fresh(d)
    /\ AddKeyScript(k)
    /\ Goto(c, [Idle EXCEPT !.pc = "llen", !.data = d, !.rest = <<Processing(k), Waiting(k)>>])
    /\ UNCHANGED <<list, lastIndex, faults, history>>

(* The next list to try, or the error of the last one. *)
NextList(c) ==
    IF Len(me[c].rest) = 1 THEN Return(c)
    ELSE Goto(c, [me[c] EXCEPT !.pc = "llen", !.rest = Tail(@)])

(* pushToProcessingQueue, pushToWaitingQueue, pushToGlobalQueue: LLEN ... *)
pushLLen(c) ==
    LET l == Head(me[c].rest) IN
    /\ me[c].pc = "llen"
    /\ \/ Fault("reject") /\ NextList(c)
       \/ Len(list[l]) >= Capacity(l) /\ NextList(c) /\ UNCHANGED faults
       \/ /\ Len(list[l]) < Capacity(l)
          /\ Goto(c, [me[c] EXCEPT !.pc = "lpush"]) /\ UNCHANGED faults
    /\ UNCHANGED <<redis, history>>

(* ... and LPUSH. *)
pushLPush(c) ==
    LET l == Head(me[c].rest)
        pushed == list' = [list EXCEPT ![l] = <<me[c].data>> \o @]
    IN
    /\ me[c].pc = "lpush"
    /\ \/ Fault("reject") /\ NextList(c) /\ UNCHANGED <<list, accepted>>
       \/ Fault("lost") /\ pushed /\ NextList(c) /\ UNCHANGED accepted
       \/ pushed /\ accepted' = accepted \cup {me[c].data} /\ Return(c) /\ UNCHANGED faults
    /\ UNCHANGED <<keys, lastIndex, deleted>>
-----------------------------------------------------------------------------
Delete(c, k, d) ==
    /\ Begin(c, "Delete") /\ d \in accepted
    /\ Goto(c, [Idle EXCEPT !.pc = "lrange", !.op = "Delete", !.key = k, !.data = d,
                            !.rest = <<Processing(k), Waiting(k)>>])
    /\ UNCHANGED <<redis, faults, history>>

NotInList(c) ==
    IF Len(me[c].rest) = 1 THEN Return(c)
    ELSE Goto(c, [me[c] EXCEPT !.pc = "lrange", !.rest = Tail(@)])

(* removeFromQueue reads the whole list for the index of the task ... *)
removeLRange(c) ==
    LET s == list[Head(me[c].rest)]
        at == {i \in DOMAIN s : s[i] = me[c].data}
    IN
    /\ me[c].pc = "lrange"
    /\ \/ Fault("reject") /\ Return(c)
       \/ at = {} /\ NotInList(c) /\ UNCHANGED faults
       \/ /\ at # {}
          /\ Goto(c, [me[c] EXCEPT !.pc = "lset", !.index = Min(at)])
          /\ UNCHANGED faults
    /\ UNCHANGED <<redis, history>>

Removed(c) ==
    CASE me[c].op = "Transform" -> Goto(c, [me[c] EXCEPT !.pc = "force"])
      [] me[c].op = "Delete" /\ Head(me[c].rest)[1] = "processing" -> Goto(c, [me[c] EXCEPT !.pc = "bfLen"])
      [] OTHER -> Return(c)

(* ... and removes by that index, whatever is there by now. *)
removeScript(c) ==
    LET l == Head(me[c].rest)
        i == me[c].index
    IN
    /\ me[c].pc = "lset"
    /\ \/ Fault("reject") /\ Return(c) /\ UNCHANGED <<list, deleted>>
       \/ i \notin DOMAIN list[l] /\ NotInList(c) /\ UNCHANGED <<list, deleted, faults>>
       \/ /\ i \in DOMAIN list[l]
          /\ list' = [list EXCEPT ![l] = RemoveAt(@, i)]
          /\ deleted' = IF me[c].op = "Delete" THEN deleted \cup {me[c].data} ELSE deleted
          /\ Removed(c) /\ UNCHANGED faults
    /\ UNCHANGED <<keys, lastIndex, accepted>>

(* backfillProcessingQueue: is there room ... *)
backfillLLen(c) ==
    /\ me[c].pc = "bfLen"
    /\ \/ Fault("reject") /\ Return(c)
       \/ Len(list[Processing(me[c].key)]) >= MaxProcessing /\ Return(c) /\ UNCHANGED faults
       \/ /\ Len(list[Processing(me[c].key)]) < MaxProcessing
          /\ Goto(c, [me[c] EXCEPT !.pc = "bfPop", !.from = Waiting(me[c].key)])
          /\ UNCHANGED faults
    /\ UNCHANGED <<redis, history>>

(* ... pop the oldest task that waits, of the key or else of nobody ... An  *)
(* error of the first pop counts as an empty list.                          *)
backfillRPop(c) ==
    LET l == me[c].from
        otherwise == IF l = Global THEN Return(c) ELSE Goto(c, [me[c] EXCEPT !.from = Global])
        popped == list' = [list EXCEPT ![l] = Front(@)]
    IN
    /\ me[c].pc = "bfPop"
    /\ \/ Fault("reject") /\ otherwise /\ UNCHANGED list
       \/ list[l] # <<>> /\ Fault("lost") /\ popped /\ otherwise
       \/ list[l] = <<>> /\ otherwise /\ UNCHANGED <<list, faults>>
       \/ /\ list[l] # <<>> /\ popped
          /\ Goto(c, [me[c] EXCEPT !.pc = "bfPush", !.hand = Last(list[l])])
          /\ UNCHANGED faults
    /\ UNCHANGED <<keys, lastIndex, history>>

(* The faulty variant: it is put back although nothing failed. *)
backfillLPushTwice(c) ==
    /\ me[c].pc = "bfPush"
    /\ list' = [list EXCEPT ![Processing(me[c].key)] = <<me[c].hand>> \o @, ![me[c].from] = <<me[c].hand>> \o @]
    /\ Return(c)
    /\ UNCHANGED <<keys, lastIndex, faults, history>>

(* ... and push it; after an error put it back where it was. *)
backfillLPush(c) ==
    LET pushed == list' = [list EXCEPT ![Processing(me[c].key)] = <<me[c].hand>> \o @]
        back == Goto(c, [me[c] EXCEPT !.pc = "bfBack"])
    IN
    /\ me[c].pc = "bfPush"
    /\ \/ Fault("reject") /\ back /\ UNCHANGED list
       \/ Fault("lost") /\ pushed /\ back
       \/ pushed /\ Return(c) /\ UNCHANGED faults
    /\ UNCHANGED <<keys, lastIndex, history>>

backfillRPush(c) ==
    /\ me[c].pc = "bfBack"
    /\ \/ Fault("reject") /\ UNCHANGED list
       \/ list' = [list EXCEPT ![me[c].from] = Append(@, me[c].hand)] /\ UNCHANGED faults
    /\ Return(c)
    /\ UNCHANGED <<keys, lastIndex, history>>
-----------------------------------------------------------------------------
TransformProcessingData(c, from, to, d) ==
    /\ Begin(c, "Transform") /\ d \in accepted
    /\ Goto(c, [Idle EXCEPT !.pc = "lrange", !.op = "Transform", !.key = from, !.to = to,
                            !.data = d, !.rest = <<Processing(from)>>])
    /\ UNCHANGED <<redis, faults, history>>

AutoTransformProcessingData(c, from, d) ==
    /\ Begin(c, "AutoTransform") /\ d \in accepted
    /\ \E a \in assignStrategy :
       /\ lastIndex' = a.index
       /\ Goto(c, [Idle EXCEPT !.pc = "lrange", !.op = "Transform", !.key = from, !.to = a.key,
                               !.data = d, !.rest = <<Processing(from)>>])
    /\ UNCHANGED <<list, keys, faults, history>>

(* forcePushToProcessingQueue, to the target and on an error to the source. *)
forcePush(c) ==
    LET pushed == list' = [list EXCEPT ![Processing(me[c].to)] = <<me[c].data>> \o @]
        back == Goto(c, [me[c] EXCEPT !.pc = "forceBack"])
    IN
    /\ me[c].pc = "force"
    /\ \/ Fault("reject") /\ back /\ UNCHANGED list
       \/ Fault("lost") /\ pushed /\ back
       \/ pushed /\ Goto(c, [me[c] EXCEPT !.pc = "bfLen"]) /\ UNCHANGED faults
    /\ UNCHANGED <<keys, lastIndex, history>>

forcePushBack(c) ==
    /\ me[c].pc = "forceBack"
    /\ \/ Fault("reject") /\ UNCHANGED list
       \/ /\ list' = [list EXCEPT ![Processing(me[c].key)] = <<me[c].data>> \o @]
          /\ UNCHANGED faults
    /\ Return(c)
    /\ UNCHANGED <<keys, lastIndex, history>>

(* LREM with count 0: every occurrence goes, the others keep their order. *)
LRem(k) ==
    LET kept == {i \in DOMAIN keys : keys[i] # k} IN
    \E f \in [1..Cardinality(kept) -> kept] :
       /\ \A i, j \in DOMAIN f : i < j => f[i] < f[j]
       /\ keys' = [i \in DOMAIN f |-> keys[f[i]]]

(* DeleteKey: out of the key list, then the two lists. *)
DeleteKey(c, k) ==
    /\ Begin(c, "DeleteKey")
    /\ LRem(k)
    /\ Goto(c, [Idle EXCEPT !.pc = "del", !.key = k])
    /\ UNCHANGED <<list, lastIndex, faults, history>>

DeleteKeyDel(c) ==
    LET P == Processing(me[c].key)
        W == Waiting(me[c].key)
    IN
    /\ me[c].pc = "del"
    /\ \/ Fault("reject") /\ UNCHANGED <<list, deleted>>
       \/ /\ list' = [list EXCEPT ![P] = <<>>, ![W] = <<>>]
          /\ deleted' = deleted \cup ToSet(list[P]) \cup ToSet(list[W])
          /\ UNCHANGED faults
    /\ Return(c)
    /\ UNCHANGED <<keys, lastIndex, accepted>>

(* A process ends in the middle of a call. *)
Crash(c) ==
    /\ me[c].pc \notin {"idle", "dead"}
    /\ Fault("crash") /\ Goto(c, Dead)
    /\ UNCHANGED <<redis, history>>
-----------------------------------------------------------------------------
Next ==
    \E c \in Callers :
       \/ \E d \in Data : Insert(c, d)
       \/ \E k \in Keys : \/ AddKey(c, k) \/ DeleteKey(c, k)
                          \/ \E d \in Data : \/ InsertByKey(c, k, d) \/ Delete(c, k, d)
                                             \/ AutoTransformProcessingData(c, k, d)
                                             \/ \E t \in Keys : TransformProcessingData(c, k, t, d)
       \/ pushLLen(c) \/ pushLPush(c) \/ removeLRange(c) \/ removeScript(c)
       \/ backfillLLen(c) \/ backfillRPop(c) \/ backfillLPush(c) \/ backfillRPush(c)
       \/ forcePush(c) \/ forcePushBack(c) \/ DeleteKeyDel(c) \/ Crash(c)

Spec == Init /\ [][Next]_vars
-----------------------------------------------------------------------------
Moving(c) == me[c].pc \in {"bfPush", "bfBack", "force", "forceBack"}
Carried(c) == IF me[c].pc \in {"bfPush", "bfBack"} THEN me[c].hand ELSE me[c].data
Held == (UNION {ToSet(list[l]) : l \in Lists}) \cup {Carried(c) : c \in {e \in Callers : Moving(e)}}

TypeOK ==
    /\ \A l \in Lists : list[l] \in Seq(Data)
    /\ keys \in Seq(Keys) /\ Len(keys) <= MaxKeys
    /\ lastIndex \in -1..(MaxKeys - 1) /\ faults \in 0..MaxFaults
    /\ accepted \subseteq Data /\ deleted \subseteq Data

(* The lists keep the promise of TaskPool. *)
Pool == INSTANCE TaskPool WITH held <- Held, deleted <- deleted

(* When no call is in progress a task waits for its key only while the key  *)
(* has no room for it.                                                      *)
NoIdleRoom ==
    (\A c \in Callers : me[c].pc = "idle") =>
        \A k \in Keys : list[Waiting(k)] # <<>> => Len(list[Processing(k)]) >= MaxProcessing

(* 0-based distance from the tail, the end tasks are taken from. *)
GetGlobalQueuePosition(d) ==
    LET s == list[Global]
        at == {i \in DOMAIN s : s[i] = d}
    IN  IF at = {} THEN -1 ELSE Len(s) - Max(at)

(* GetGlobalQueuePosition goes down by one at a time and never up. *)
CountsDown ==
    \A d \in Data : LET p == GetGlobalQueuePosition(d)
                    IN  p >= 0 => GetGlobalQueuePosition(d)' \in {p, p - 1}

(* Without transfers and lost replies no interleaving, error or crash puts  *)
(* a task into two places.                                                  *)
NoDuplicate ==
    \A d \in Data :
        Cardinality(UNION {{l} \X {i \in DOMAIN list[l] : list[l][i] = d} : l \in Lists})
        + Cardinality({c \in Callers : Moving(c) /\ Carried(c) = d}) <= 1

(* One failed command or crash costs at most one task, or duplicates one. *)
DamagePerFault ==
    LET Copies(d) == Cardinality(UNION {{l} \X {i \in DOMAIN list[l] : list[l][i] = d} : l \in Lists})
        lost == Cardinality(accepted \ (Held \cup deleted))
        twice == Cardinality({d \in Data : Copies(d) > 1})
    IN  lost + twice <= faults
=============================================================================
