-------------------------- MODULE TaskQueues_proofs --------------------------
(***************************************************************************)
(* Proofs about the task queues, in Redis and of a process, for every       *)
(* number of callers, keys and tasks: no task is in two places at once.     *)
(* The queues are seen as a family of sequences in which every task has one *)
(* place (Apart); what is common to both is stated of such families first.  *)
(* Then each of the two has its inductive invariant and a lemma for each of *)
(* its operations.  Support_proofs carries the theorems over to MCSupport.  *)
(***************************************************************************)
EXTENDS Integers, Sequences, FiniteSets, TLAPS, FiniteSetTheorems, SequenceTheorems, WellFoundedInduction

CONSTANTS Callers, Keys, Data, MaxGlobal, MaxProcessing, MaxWaiting, Strategy, Serial   \* both
CONSTANTS MaxKeys, RedisOps, FaultKinds, MaxFaults                                      \* the queues in Redis
CONSTANTS MaxMade, TaskOps                                                              \* those of a process

VARIABLES list, keys, lastIndex, me, faults, rAccepted, rDeleted
VARIABLES globalQueue, taskQueues, processing, waiting, made, orderedKeys, lastAssignedIndex, tLock, tPc, key, to, data,
          queue, accepted, deleted
-----------------------------------------------------------------------------
(* A set of numbers has a least one. *)
LEMMA LeastOf == ASSUME NEW T, T \subseteq Nat, T # {} PROVE \E x \in T : \A y \in T : x <= y
  <1>1. PICK R : R = OpToRel(<, Nat)
    OBVIOUS
  <1>2. \A x, y \in Nat : y < x => <<y, x>> \in R
    BY <1>1 DEF OpToRel
  <1>3. PICK x \in T : \A y \in T : ~(<<y, x>> \in R)
    BY <1>1, WFMin, NatLessThanWellFounded
  <1>4. \A y \in T : ~(y < x)
    BY <1>2, <1>3
  <1> QED
    BY <1>3, <1>4

(* A family of queues: F[x] is the queue of x \in S.  No task is in two     *)
(* places of it.                                                            *)
Apart(F, S) ==
    \A x, y \in S : \A i \in 1..Len(F[x]), j \in 1..Len(F[y]) : F[x][i] = F[y][j] => x = y /\ i = j

(* A task is in the family. *)
Holds(F, S, d) == \E x \in S : \E i \in 1..Len(F[x]) : F[x][i] = d

(* The queue t is s without its k-th task. *)
Without(t, s, k) == Len(t) = Len(s) - 1 /\ \A i \in 1..Len(t) : t[i] = s[IF i < k THEN i ELSE i + 1]

(* What is before the k-th task and what is after it, put together. *)
LEMMA JoinDrops ==
    ASSUME NEW D, NEW s \in Seq(D), NEW n \in Nat, n = Len(s), NEW k \in 1..n, NEW a \in Seq(D), NEW b \in Seq(D),
           Len(a) = k - 1, Len(b) = n - k, \A i \in 1..(k - 1) : a[i] = s[i], \A i \in 1..(n - k) : b[i] = s[k + i]
    PROVE  a \o b \in Seq(D) /\ Without(a \o b, s, k)
  <1>1. PICK t : t = a \o b
    OBVIOUS
  <1>2. /\ t \in Seq(D) /\ Len(t) = Len(a) + Len(b)
        /\ \A i \in 1..(Len(a) + Len(b)) : t[i] = IF i <= Len(a) THEN a[i] ELSE b[i - Len(a)]
    BY <1>1, ConcatProperties
  <1>3. (k - 1) + (n - k) = n - 1
    OBVIOUS
  <1>4. Len(t) = n - 1 /\ \A i \in 1..(n - 1) : t[i] = IF i <= k - 1 THEN a[i] ELSE b[i - (k - 1)]
    BY <1>2, <1>3
  <1>5. ASSUME NEW i \in 1..(n - 1) PROVE t[i] = s[IF i < k THEN i ELSE i + 1]
    <2>1. CASE i < k
      <3>1. i <= k - 1 /\ i \in 1..(k - 1)
        BY <2>1
      <3> QED
        BY <1>4, <2>1, <3>1
    <2>2. CASE i >= k
      <3>1. ~(i <= k - 1) /\ i - (k - 1) \in 1..(n - k) /\ k + (i - (k - 1)) = i + 1 /\ ~(i < k)
        BY <2>2
      <3> QED
        BY <1>4, <3>1
    <2> QED
      BY <2>1, <2>2
  <1> QED
    BY <1>1, <1>2, <1>4, <1>5 DEF Without

(* RemoveAt of a sequence leaves the others in their order. *)
LEMMA RemoveAtDrops ==
    ASSUME NEW D, NEW s \in Seq(D), NEW n \in Nat, n = Len(s), NEW k \in 1..n
    PROVE  LET t == SubSeq(s, 1, k - 1) \o SubSeq(s, k + 1, n) IN t \in Seq(D) /\ Without(t, s, k)
  <1>1. \A i \in 1..n : s[i] \in D
    OBVIOUS
  <1>2. PICK a : a = SubSeq(s, 1, k - 1)
    OBVIOUS
  <1>3. PICK b : b = SubSeq(s, k + 1, n)
    OBVIOUS
  <1>4. a \in Seq(D) /\ Len(a) = k - 1 /\ \A i \in 1..(k - 1) : a[i] = s[i]
    <2>1. k - 1 \in Int /\ \A i \in 1..(k - 1) : s[i] \in D
      BY <1>1
    <2>2. /\ a \in Seq(D) /\ Len(a) = IF 1 <= k - 1 THEN (k - 1) - 1 + 1 ELSE 0
          /\ \A i \in 1..((k - 1) - 1 + 1) : a[i] = s[1 + i - 1]
      BY <1>2, <2>1, SubSeqProperties
    <2>3. (k - 1) - 1 + 1 = k - 1 /\ (~(1 <= k - 1) => k - 1 = 0) /\ \A i \in 1..(k - 1) : 1 + i - 1 = i
      OBVIOUS
    <2> QED
      BY <2>2, <2>3
  <1>5. b \in Seq(D) /\ Len(b) = n - k /\ \A i \in 1..(n - k) : b[i] = s[k + i]
    <2>1. k + 1 \in Int /\ \A i \in (k + 1)..n : s[i] \in D
      BY <1>1
    <2>2. /\ b \in Seq(D) /\ Len(b) = IF k + 1 <= n THEN n - (k + 1) + 1 ELSE 0
          /\ \A i \in 1..(n - (k + 1) + 1) : b[i] = s[(k + 1) + i - 1]
      BY <1>3, <2>1, SubSeqProperties
    <2>3. n - (k + 1) + 1 = n - k /\ (~(k + 1 <= n) => n - k = 0) /\ \A i \in 1..(n - k) : (k + 1) + i - 1 = k + i
      OBVIOUS
    <2> QED
      BY <2>2, <2>3
  <1> QED
    BY <1>2, <1>3, <1>4, <1>5, JoinDrops

(* Pop takes the first task. *)
LEMMA TailDrops ==
    ASSUME NEW D, NEW s \in Seq(D), s # << >>
    PROVE  Tail(s) \in Seq(D) /\ Without(Tail(s), s, 1) /\ Len(s) >= 1 /\ Head(s) = s[1] /\ Head(s) \in D
  BY DEF Without

(* What is left of more than one. *)
LEMMA TailStays ==
    ASSUME NEW D, NEW s \in Seq(D), s # << >>, Len(s) # 1 PROVE Tail(s) \in Seq(D) /\ Tail(s) # << >>
  <1>1. Len(s) \in Nat /\ Len(s) >= 2
    <2>1. PICK n \in Nat : n = Len(s)
      OBVIOUS
    <2>2. n # 0
      BY <2>1, EmptySeq
    <2>3. n >= 2
      BY <2>1, <2>2
    <2> QED
      BY <2>1, <2>3
  <1>2. Tail(s) \in Seq(D) /\ Len(Tail(s)) = Len(s) - 1
    OBVIOUS
  <1>3. Len(Tail(s)) # Len(<< >>)
    BY <1>1, <1>2
  <1> QED
    BY <1>2, <1>3

(* RPOP takes the last one. *)
LEMMA FrontDrops ==
    ASSUME NEW D, NEW s \in Seq(D), s # << >>, NEW n \in Nat, n = Len(s)
    PROVE  LET t == SubSeq(s, 1, n - 1) IN t \in Seq(D) /\ Without(t, s, n) /\ n >= 1 /\ s[n] \in D
  <1>1. n >= 1 /\ \A i \in 1..n : s[i] \in D
    OBVIOUS
  <1>2. PICK t : t = SubSeq(s, 1, n - 1)
    OBVIOUS
  <1>3. n - 1 \in Int /\ \A i \in 1..(n - 1) : s[i] \in D
    BY <1>1
  <1>4. /\ t \in Seq(D) /\ Len(t) = IF 1 <= n - 1 THEN (n - 1) - 1 + 1 ELSE 0
        /\ \A i \in 1..((n - 1) - 1 + 1) : t[i] = s[1 + i - 1]
    BY <1>2, <1>3, SubSeqProperties
  <1>5. (n - 1) - 1 + 1 = n - 1 /\ (~(1 <= n - 1) => n - 1 = 0)
        /\ \A i \in 1..(n - 1) : 1 + i - 1 = i /\ i < n
    BY <1>1
  <1>6. Len(t) = n - 1 /\ \A i \in 1..(n - 1) : t[i] = s[IF i < n THEN i ELSE i + 1]
    BY <1>4, <1>5
  <1> QED
    BY <1>1, <1>2, <1>4, <1>6 DEF Without

(* A push is the reverse of a removal: at the end ... *)
LEMMA AppendAdds ==
    ASSUME NEW D, NEW s \in Seq(D), NEW d \in D
    PROVE  LET t == Append(s, d)
           IN  t \in Seq(D) /\ Without(s, t, Len(s) + 1) /\ Len(t) = Len(s) + 1 /\ t[Len(s) + 1] = d
  BY DEF Without

(* ... or at the head. *)
LEMMA ConsAdds ==
    ASSUME NEW D, NEW s \in Seq(D), NEW d \in D
    PROVE  LET t == <<d>> \o s
           IN  t \in Seq(D) /\ Without(s, t, 1) /\ Len(t) = Len(s) + 1 /\ t[1] = d
  <1> DEFINE t == <<d>> \o s
  <1>1. <<d>> \in Seq(D) /\ Len(<<d>>) = 1
    OBVIOUS
  <1>2. t \in Seq(D) /\ Len(t) = Len(s) + 1 /\ t[1] = d
    BY <1>1
  <1>3. \A i \in 1..Len(s) : t[i + 1] = s[i]
    BY <1>1
  <1> QED
    BY <1>2, <1>3 DEF Without

(* Removing a task leaves the rest apart, and the task is gone. *)
LEMMA DropKeepsApart ==
    ASSUME NEW D, NEW S, NEW F, \A y \in S : F[y] \in Seq(D), Apart(F, S), NEW x \in S,
           NEW t \in Seq(D), NEW k \in 1..Len(F[x]), Without(t, F[x], k),
           NEW G, \A y \in S : G[y] = IF y = x THEN t ELSE F[y]
    PROVE  Apart(G, S) /\ ~Holds(G, S, F[x][k]) /\ \A d : Holds(G, S, d) => Holds(F, S, d)
  <1> DEFINE at(y, i) == IF y # x \/ i < k THEN i ELSE i + 1
  <1>1. ASSUME NEW y \in S, NEW i \in 1..Len(G[y])
        PROVE  at(y, i) \in 1..Len(F[y]) /\ G[y][i] = F[y][at(y, i)] /\ (y = x => at(y, i) # k) /\ i \in Nat
    BY DEF Without
  <1>2. ASSUME NEW y \in S, NEW i \in Nat, NEW j \in Nat, at(y, i) = at(y, j) PROVE i = j
    BY <1>2
  <1> HIDE DEF at
  <1>3. Apart(G, S)
    <2> SUFFICES ASSUME NEW y \in S, NEW z \in S, NEW i \in 1..Len(G[y]), NEW j \in 1..Len(G[z]), G[y][i] = G[z][j]
                 PROVE  y = z /\ i = j
      BY DEF Apart
    <2>1. PICK p, q : p = at(y, i) /\ q = at(z, j)
      OBVIOUS
    <2>2. p \in 1..Len(F[y]) /\ q \in 1..Len(F[z]) /\ F[y][p] = F[z][q]
      BY <1>1, <2>1
    <2>3. y = z /\ at(y, i) = at(z, j)
      BY <2>1, <2>2 DEF Apart
    <2> QED
      BY <1>1, <1>2, <2>3
  <1>4. ~Holds(G, S, F[x][k])
    BY <1>1 DEF Holds, Apart
  <1>5. \A d : Holds(G, S, d) => Holds(F, S, d)
    BY <1>1 DEF Holds
  <1> QED
    BY <1>3, <1>4, <1>5

(* Adding a task that is nowhere leaves them apart, and adds no other. *)
LEMMA PushKeepsApart ==
    ASSUME NEW D, NEW S, NEW F, \A y \in S : F[y] \in Seq(D), Apart(F, S), NEW x \in S,
           NEW t \in Seq(D), NEW k \in 1..Len(t), Without(F[x], t, k), ~Holds(F, S, t[k]),
           NEW G, \A y \in S : G[y] = IF y = x THEN t ELSE F[y]
    PROVE  Apart(G, S) /\ \A d : Holds(G, S, d) => d = t[k] \/ Holds(F, S, d)
  <1> DEFINE at(y, i) == IF y # x \/ i < k THEN i ELSE i - 1
  <1>1. ASSUME NEW y \in S, NEW i \in 1..Len(G[y]), ~(y = x /\ i = k)
        PROVE  at(y, i) \in 1..Len(F[y]) /\ G[y][i] = F[y][at(y, i)] /\ i \in Nat
    <2>1. CASE y # x
      BY <2>1
    <2>2. CASE y = x
      <3>1. i \in 1..Len(t) /\ i # k /\ Len(F[x]) = Len(t) - 1 /\ G[y] = t /\ Len(t) \in Nat
        BY <1>1, <2>2 DEF Without
      <3>2. \A h \in 1..Len(F[x]) : F[x][h] = t[IF h < k THEN h ELSE h + 1]
        BY DEF Without
      <3>3. CASE i < k
        BY <2>2, <3>1, <3>2, <3>3
      <3>4. CASE i > k
        <4>1. i - 1 \in 1..Len(F[x]) /\ ~(i - 1 < k)
          BY <3>1, <3>4
        <4> QED
          BY <2>2, <3>1, <3>2, <3>4, <4>1
      <3> QED
        BY <3>1, <3>3, <3>4
    <2> QED
      BY <2>1, <2>2
  <1>2. ASSUME NEW y \in S, NEW i \in Nat, NEW j \in Nat, at(y, i) = at(y, j), ~(y = x /\ i = k), ~(y = x /\ j = k)
        PROVE  i = j
    BY <1>2
  <1> HIDE DEF at
  <1>3. \A y \in S : \A i \in 1..Len(G[y]) : ~(y = x /\ i = k) => G[y][i] # t[k]
    BY <1>1 DEF Holds
  <1>4. G[x][k] = t[k] /\ k \in 1..Len(G[x])
    OBVIOUS
  <1>5. Apart(G, S)
    <2> SUFFICES ASSUME NEW y \in S, NEW z \in S, NEW i \in 1..Len(G[y]), NEW j \in 1..Len(G[z]), G[y][i] = G[z][j]
                 PROVE  y = z /\ i = j
      BY DEF Apart
    <2>1. CASE ~(y = x /\ i = k) /\ ~(z = x /\ j = k)
      <3>1. PICK p, q : p = at(y, i) /\ q = at(z, j)
        OBVIOUS
      <3>2. p \in 1..Len(F[y]) /\ q \in 1..Len(F[z]) /\ F[y][p] = F[z][q]
        BY <1>1, <2>1, <3>1
      <3>3. y = z /\ at(y, i) = at(z, j)
        BY <3>1, <3>2 DEF Apart
      <3> QED
        BY <1>1, <1>2, <2>1, <3>3
    <2>2. CASE (y = x /\ i = k) \/ (z = x /\ j = k)
      BY <1>3, <1>4, <2>2
    <2> QED
      BY <2>1, <2>2
  <1>6. \A d : Holds(G, S, d) => d = t[k] \/ Holds(F, S, d)
    BY <1>1 DEF Holds
  <1> QED
    BY <1>5, <1>6

(* Two queues are emptied. *)
LEMMA TwoEmptied ==
    ASSUME NEW S, NEW D, NEW F \in [S -> Seq(D)], NEW p \in S, NEW w \in S, NEW G,
           G = [F EXCEPT ![p] = << >>, ![w] = << >>]
    PROVE  G \in [S -> Seq(D)] /\ \A y \in S : G[y] = F[y] \/ G[y] = << >>
  <1>1. PICK q : q = << >>
    OBVIOUS
  <1>2. q \in Seq(D)
    BY <1>1
  <1>3. PICK H : H = [F EXCEPT ![p] = q]
    OBVIOUS
  <1>4. H \in [S -> Seq(D)] /\ \A y \in S : H[y] = F[y] \/ H[y] = q
    BY <1>2, <1>3
  <1>5. G = [H EXCEPT ![w] = q]
    BY <1>1, <1>3
  <1>6. G \in [S -> Seq(D)] /\ \A y \in S : G[y] = H[y] \/ G[y] = q
    BY <1>2, <1>4, <1>5
  <1> QED
    BY <1>1, <1>4, <1>6

(* A queue that is emptied. *)
LEMMA EmptyKeepsApart ==
    ASSUME NEW S, NEW F, Apart(F, S), NEW G, \A y \in S : G[y] = F[y] \/ G[y] = << >>
    PROVE  Apart(G, S) /\ \A d : Holds(G, S, d) => Holds(F, S, d)
  <1>1. \A y \in S : (Len(G[y]) = Len(F[y]) /\ G[y] = F[y]) \/ Len(G[y]) = 0
    OBVIOUS
  <1> QED
    BY <1>1 DEF Apart, Holds
-----------------------------------------------------------------------------
(* queue/task/redistask. *)
Redis == INSTANCE RedisTask WITH Ops <- RedisOps, accepted <- rAccepted, deleted <- rDeleted

(* The bounds are numbers. *)
RedisSized == MaxKeys \in Nat /\ MaxFaults \in Nat

(* No transfers, and no command whose reply is lost. *)
RedisSafe == RedisOps \cap {"Transform", "AutoTransform"} = {} /\ "lost" \notin FaultKinds

(* A caller's place and local variables. *)
RedisState ==
    [pc : {"idle", "dead", "llen", "lpush", "lrange", "lset", "bfLen", "bfPop", "bfPush", "bfBack", "force",
           "forceBack", "del"},
     op : {"none", "Delete", "Transform"}, key : Keys \cup {"none"}, to : Keys \cup {"none"},
     data : Data \cup {"none"}, rest : Seq(Redis!Lists), index : Int, hand : Data \cup {"none"}, from : Redis!Lists]

(* A list of keys, and a turn among them. *)
RedisRest ==
    /\ keys \in Seq(Keys) /\ Len(keys) <= MaxKeys /\ lastIndex \in -1..(MaxKeys - 1) /\ faults \in 0..MaxFaults
    /\ rAccepted \subseteq Data /\ rDeleted \subseteq Data

(* A call has what its next command needs. *)
Equipped(m) ==
    /\ m.pc \in {"llen", "lpush", "lrange", "lset"} => m.data \in Data /\ m.rest # << >>
    /\ m.pc \in {"lrange", "lset", "bfLen", "bfPop", "bfPush", "bfBack", "force", "forceBack", "del"} => m.key \in Keys
    /\ m.pc \in {"bfPush", "bfBack"} => m.hand \in Data
    /\ m.pc \in {"force", "forceBack"} => m.data \in Data /\ m.op = "Transform"
    /\ m.op = "Transform" => m.to \in Keys /\ RedisOps \cap {"Transform", "AutoTransform"} # {}

(* The types of the queues in Redis, and of the calls. *)
RedisTyped ==
    /\ RedisSized /\ list \in [Redis!Lists -> Seq(Data)] /\ me \in [Callers -> RedisState] /\ RedisRest
    /\ \A c \in Callers : Equipped(me[c])

(* A call that holds a task between two lists, and one that will insert one. *)
Moves(m) == m.pc \in {"bfPush", "bfBack"}
Pushes(m) == m.pc \in {"llen", "lpush"}

(* A task is in one list or in one hand, and one that is about to be        *)
(* inserted is nowhere.                                                     *)
RedisApart ==
    /\ Apart(list, Redis!Lists)
    /\ \A d : Holds(list, Redis!Lists, d) => d \in rAccepted
    /\ \A c \in Callers : Moves(me[c]) => me[c].hand \in rAccepted /\ ~Holds(list, Redis!Lists, me[c].hand)
    /\ \A c, e \in Callers : c # e /\ Moves(me[c]) /\ Moves(me[e]) => me[c].hand # me[e].hand
    /\ \A c \in Callers : Pushes(me[c]) => me[c].data \notin rAccepted
    /\ \A c, e \in Callers : c # e /\ Pushes(me[c]) /\ Pushes(me[e]) => me[c].data # me[e].data

(* The inductive invariant of the queues in Redis. *)
RedisInv == RedisTyped /\ (RedisSafe => RedisApart)

(* The lists of the queues. *)
LEMMA RedisLists ==
    /\ Redis!Global \in Redis!Lists
    /\ \A k \in Keys : Redis!Processing(k) \in Redis!Lists /\ Redis!Waiting(k) \in Redis!Lists
  BY DEF Redis!Lists

(* A caller between two calls. *)
LEMMA RedisIdle ==
    /\ Redis!Idle \in RedisState /\ Equipped(Redis!Idle) /\ Redis!Idle.pc = "idle" /\ Redis!Idle.op = "none"
    /\ Redis!Idle.from \in Redis!Lists
  <1>1. Redis!Global \in Redis!Lists /\ << >> \in Seq(Redis!Lists)
    BY RedisLists
  <1>2. PICK g, q : g = Redis!Global /\ q = << >>
    OBVIOUS
  <1>3. Redis!Idle = [pc |-> "idle", op |-> "none", key |-> "none", to |-> "none", data |-> "none", rest |-> q,
                      index |-> 0, hand |-> "none", from |-> g]
    BY <1>2, Zenon DEF Redis!Idle
  <1>4. g \in Redis!Lists /\ q \in Seq(Redis!Lists)
    BY <1>1, <1>2, Zenon
  <1>5. Redis!Idle \in RedisState
    BY <1>3, <1>4 DEF RedisState
  <1> QED
    BY <1>3, <1>4, <1>5 DEF Equipped

(* ... or one whose process has ended. *)
LEMMA RedisDead == Redis!Dead \in RedisState /\ Equipped(Redis!Dead) /\ Redis!Dead.pc = "dead"
  <1>1. PICK r : r = Redis!Idle
    OBVIOUS
  <1>2. r \in RedisState /\ r.op = "none" /\ Redis!Dead = [r EXCEPT !.pc = "dead"]
    BY <1>1, RedisIdle DEF Redis!Dead
  <1>3. Redis!Dead \in RedisState /\ Redis!Dead.pc = "dead" /\ Redis!Dead.op = "none"
    BY <1>2 DEF RedisState
  <1> QED
    BY <1>3 DEF Equipped

(* One caller goes on, the others stay where they are. *)
LEMMA RedisGoto ==
    ASSUME RedisTyped, NEW c \in Callers, NEW r \in RedisState, Equipped(r), Redis!Goto(c, r)
    PROVE  /\ me' \in [Callers -> RedisState] /\ \A e \in Callers : Equipped(me'[e])
           /\ me'[c] = r /\ \A e \in Callers : e # c => me'[e] = me[e]
  <1>1. me' = [me EXCEPT ![c] = r] /\ me \in [Callers -> RedisState]
    BY DEF Redis!Goto, RedisTyped
  <1>2. me' \in [Callers -> RedisState] /\ me'[c] = r /\ \A e \in Callers : e # c => me'[e] = me[e]
    BY <1>1
  <1> QED
    BY <1>2 DEF RedisTyped

(* A step of one caller keeps the types. *)
LEMMA RedisTypes ==
    ASSUME RedisTyped, NEW c \in Callers, NEW r \in RedisState, Equipped(r), Redis!Goto(c, r),
           list' \in [Redis!Lists -> Seq(Data)], RedisRest'
    PROVE  RedisTyped'
  <1>1. me' \in [Callers -> RedisState] /\ \A e \in Callers : Equipped(me'[e])
    BY RedisGoto
  <1> QED
    BY <1>1 DEF RedisTyped, RedisSized

(* A step that changes no list: a task that is carried stays in the hand,   *)
(* and one that will be inserted is new.                                    *)
LEMMA RedisStays ==
    ASSUME RedisInv, NEW c \in Callers, NEW r \in RedisState, Equipped(r), Redis!Goto(c, r), RedisRest',
           list' = list, rAccepted' = rAccepted,
           Moves(r) => Moves(me[c]) /\ r.hand = me[c].hand,
           Pushes(r) => \/ Pushes(me[c]) /\ r.data = me[c].data
                        \/ r.data \notin rAccepted /\ \A e \in Callers : me[e].data # r.data
    PROVE  RedisInv'
  <1>1. RedisTyped'
    BY RedisTypes DEF RedisInv, RedisTyped
  <1>2. me'[c] = r /\ \A e \in Callers : e # c => me'[e] = me[e]
    BY RedisGoto DEF RedisInv
  <1>3. ASSUME RedisApart PROVE RedisApart'
    <2>1. \A e \in Callers : Moves(me'[e]) => Moves(me[e]) /\ me'[e].hand = me[e].hand
      BY <1>2
    <2>2. \A e \in Callers : Pushes(me'[e]) => me'[e].data \notin rAccepted
      BY <1>2, <1>3 DEF RedisApart
    <2>3. \A e, f \in Callers : e # f /\ Pushes(me'[e]) /\ Pushes(me'[f]) => me'[e].data # me'[f].data
      BY <1>2, <1>3 DEF RedisApart
    <2> QED
      BY <1>3, <2>1, <2>2, <2>3 DEF RedisApart
  <1> QED
    BY <1>1, <1>3 DEF RedisInv, RedisSafe

(* A task is taken out of a list, and is gone or in the caller's hand. *)
LEMMA RedisDrops ==
    ASSUME RedisInv, NEW c \in Callers, NEW r \in RedisState, Equipped(r), Redis!Goto(c, r), RedisRest',
           rAccepted' = rAccepted, ~Pushes(r), NEW l \in Redis!Lists, NEW t \in Seq(Data), NEW k \in 1..Len(list[l]),
           Without(t, list[l], k), list' = [list EXCEPT ![l] = t], Moves(r) => r.hand = list[l][k]
    PROVE  RedisInv'
  <1>1. list' \in [Redis!Lists -> Seq(Data)] /\ \A y \in Redis!Lists : list'[y] = IF y = l THEN t ELSE list[y]
    BY DEF RedisInv, RedisTyped
  <1>2. RedisTyped'
    BY <1>1, RedisTypes DEF RedisInv
  <1>3. me'[c] = r /\ \A e \in Callers : e # c => me'[e] = me[e]
    BY RedisGoto DEF RedisInv
  <1>4. ASSUME RedisApart PROVE RedisApart'
    <2>1. PICK G, d : G = list' /\ d = list[l][k]
      OBVIOUS
    <2>2. \A y \in Redis!Lists : list[y] \in Seq(Data)
      BY DEF RedisInv, RedisTyped
    <2>3. Apart(G, Redis!Lists) /\ ~Holds(G, Redis!Lists, d)
          /\ \A x : Holds(G, Redis!Lists, x) => Holds(list, Redis!Lists, x)
      BY <1>1, <1>4, <2>1, <2>2, DropKeepsApart DEF RedisApart
    <2>4. Holds(list, Redis!Lists, d)
      BY <2>1 DEF Holds
    <2>5. \A e \in Callers : Moves(me'[e]) =>
             (me'[e].hand \in rAccepted /\ ~Holds(G, Redis!Lists, me'[e].hand))
      BY <1>3, <1>4, <2>1, <2>3, <2>4 DEF RedisApart
    <2>6. \A e, f \in Callers : e # f /\ Moves(me'[e]) /\ Moves(me'[f]) => me'[e].hand # me'[f].hand
      BY <1>3, <1>4, <2>1, <2>4 DEF RedisApart
    <2>7. \A e \in Callers : Pushes(me'[e]) => Pushes(me[e]) /\ me'[e].data = me[e].data
      BY <1>3
    <2> QED
      BY <1>4, <2>1, <2>3, <2>5, <2>6, <2>7 DEF RedisApart
  <1> QED
    BY <1>2, <1>4 DEF RedisInv, RedisSafe

(* A task is put at one end of a list. *)
LEMMA RedisAdds ==
    ASSUME RedisInv, NEW c \in Callers, NEW r \in RedisState, Equipped(r), Redis!Goto(c, r), RedisRest',
           ~Pushes(r), ~Moves(r), NEW l \in Redis!Lists, NEW d \in Data, NEW t \in Seq(Data), NEW k \in 1..Len(t),
           Without(list[l], t, k), t[k] = d, list' = [list EXCEPT ![l] = t], rAccepted' \subseteq rAccepted \cup {d},
           rAccepted \subseteq rAccepted',
           RedisSafe => \/ Moves(me[c]) /\ d = me[c].hand /\ rAccepted' = rAccepted
                        \/ Pushes(me[c]) /\ d = me[c].data /\ d \in rAccepted'
    PROVE  RedisInv'
  <1>1. list' \in [Redis!Lists -> Seq(Data)] /\ \A y \in Redis!Lists : list'[y] = IF y = l THEN t ELSE list[y]
    BY DEF RedisInv, RedisTyped
  <1>2. RedisTyped'
    BY <1>1, RedisTypes DEF RedisInv
  <1>3. me'[c] = r /\ \A e \in Callers : e # c => me'[e] = me[e]
    BY RedisGoto DEF RedisInv
  <1>4. ASSUME RedisSafe, RedisApart PROVE RedisApart'
    <2>1. PICK G : G = list'
      OBVIOUS
    <2>2. \A y \in Redis!Lists : list[y] \in Seq(Data)
      BY DEF RedisInv, RedisTyped
    <2>3. ~Holds(list, Redis!Lists, d) /\ d \in rAccepted'
      BY <1>4 DEF RedisApart
    <2>4. Apart(G, Redis!Lists) /\ \A x : Holds(G, Redis!Lists, x) => x = d \/ Holds(list, Redis!Lists, x)
      <3>1. Apart(list, Redis!Lists) /\ ~Holds(list, Redis!Lists, t[k])
        BY <1>4, <2>3 DEF RedisApart
      <3>2. \A y \in Redis!Lists : G[y] = IF y = l THEN t ELSE list[y]
        BY <1>1, <2>1
      <3> QED
        BY <2>2, <3>1, <3>2, PushKeepsApart
    <2>5. \A e \in Callers : Moves(me'[e]) => e # c /\ Moves(me[e]) /\ me'[e].hand = me[e].hand /\ me[e].hand # d
      BY <1>3, <1>4 DEF RedisApart
    <2>6. \A e \in Callers : Pushes(me'[e]) => e # c /\ Pushes(me[e]) /\ me'[e].data = me[e].data /\ me[e].data # d
      BY <1>3, <1>4 DEF RedisApart
    <2>7. \A x : Holds(G, Redis!Lists, x) => x \in rAccepted'
      BY <1>4, <2>3, <2>4 DEF RedisApart
    <2>8. \A e \in Callers : Moves(me'[e]) => me'[e].hand \in rAccepted' /\ ~Holds(G, Redis!Lists, me'[e].hand)
      BY <1>4, <2>4, <2>5 DEF RedisApart
    <2>9. \A e, f \in Callers : e # f /\ Moves(me'[e]) /\ Moves(me'[f]) => me'[e].hand # me'[f].hand
      BY <1>4, <2>5 DEF RedisApart
    <2>10. \A e \in Callers : Pushes(me'[e]) => me'[e].data \notin rAccepted'
      BY <1>4, <2>6 DEF RedisApart
    <2>11. \A e, f \in Callers : e # f /\ Pushes(me'[e]) /\ Pushes(me'[f]) => me'[e].data # me'[f].data
      BY <1>4, <2>6 DEF RedisApart
    <2> QED
      BY <2>1, <2>4, <2>7, <2>8, <2>9, <2>10, <2>11 DEF RedisApart
  <1> QED
    BY <1>2, <1>4 DEF RedisInv, RedisSafe

(* Empty lists and idle callers satisfy it. *)
LEMMA RedisStarts == ASSUME RedisSized, Redis!Init PROVE RedisInv
  <1>1. list \in [Redis!Lists -> Seq(Data)] /\ keys \in Seq(Keys) /\ Len(keys) = 0
    BY DEF Redis!Init
  <1>2. me \in [Callers -> RedisState] /\ \A c \in Callers : Equipped(me[c]) /\ me[c].pc = "idle"
    BY RedisIdle DEF Redis!Init
  <1>3. RedisTyped
    BY <1>1, <1>2 DEF Redis!Init, RedisTyped, RedisRest, RedisSized
  <1>4. \A l \in Redis!Lists : Len(list[l]) = 0
    BY DEF Redis!Init
  <1>5. RedisApart
    BY <1>2, <1>4 DEF RedisApart, Apart, Holds, Moves, Pushes
  <1> QED
    BY <1>3, <1>5 DEF RedisInv

(* A key that is assigned is one of the list, and its turn a turn in it. *)
LEMMA RedisAssigns ==
    ASSUME RedisTyped, NEW a \in Redis!assignStrategy
    PROVE  a.key \in Keys /\ a.index \in -1..(MaxKeys - 1)
  <1>1. PICK n \in Nat : n = Len(keys) /\ n <= MaxKeys
    BY DEF RedisTyped, RedisRest
  <1>2. MaxKeys \in Nat /\ lastIndex \in -1..(MaxKeys - 1) /\ keys \in Seq(Keys)
    BY DEF RedisTyped, RedisRest, RedisSized
  <1>3. CASE Strategy = "RoundRobin"
    <2>1. PICK i \in 1..n : a = [key |-> keys[((lastIndex + i) % n) + 1], index |-> (lastIndex + i) % n]
      BY <1>1, <1>3 DEF Redis!assignStrategy, Redis!RoundRobinTask
    <2>2. n > 0 /\ lastIndex + i \in Int
      BY <1>2
    <2>3. PICK j : j = (lastIndex + i) % n
      OBVIOUS
    <2>4. j \in 0..(n - 1)
      BY <2>2, <2>3
    <2>5. j + 1 \in 1..n /\ j \in -1..(MaxKeys - 1)
      BY <1>1, <1>2, <2>4
    <2>6. keys[j + 1] \in Keys
      BY <1>1, <1>2, <2>5
    <2> QED
      BY <2>1, <2>3, <2>5, <2>6
  <1>4. CASE Strategy # "RoundRobin"
    <2>1. PICK k \in Redis!ToSet(keys) : a = [key |-> k, index |-> lastIndex]
      BY <1>4 DEF Redis!assignStrategy, Redis!LeastTask
    <2>2. k \in Keys
      BY <1>2, <2>1 DEF Redis!ToSet
    <2> QED
      BY <1>2, <2>1, <2>2
  <1> QED
    BY <1>3, <1>4

(* AddKey appends a key to the list, or leaves it as it is. *)
LEMMA RedisAddsKey ==
    ASSUME RedisTyped, NEW k \in Keys, Redis!AddKeyScript(k) PROVE keys' \in Seq(Keys) /\ Len(keys') <= MaxKeys
  <1>1. keys \in Seq(Keys) /\ Len(keys) <= MaxKeys /\ MaxKeys \in Nat
    BY DEF RedisTyped, RedisRest, RedisSized
  <1>2. CASE keys' = keys
    BY <1>1, <1>2
  <1>3. CASE Len(keys) < MaxKeys /\ keys' = Append(keys, k)
    BY <1>1, <1>3
  <1> QED
    BY <1>2, <1>3 DEF Redis!AddKeyScript

(* LREM leaves a list of keys that is no longer. *)
LEMMA RedisDropsKey ==
    ASSUME RedisTyped, NEW k \in Keys, Redis!LRem(k) PROVE keys' \in Seq(Keys) /\ Len(keys') <= MaxKeys
  <1>1. PICK n \in Nat : n = Len(keys) /\ n <= MaxKeys /\ keys \in Seq(Keys)
    BY DEF RedisTyped, RedisRest
  <1>2. PICK kept : kept = {i \in DOMAIN keys : keys[i] # k}
    OBVIOUS
  <1>3. kept \subseteq 1..n
    BY <1>1, <1>2
  <1>4. Cardinality(kept) \in Nat /\ Cardinality(kept) <= n
    <2>1. IsFiniteSet(1..n) /\ Cardinality(1..n) = n
      BY FS_Interval
    <2> QED
      BY <1>3, <2>1, FS_Subset, FS_CardinalityType
  <1>5. PICK m \in Nat : m = Cardinality(kept) /\ m <= n
    BY <1>4
  <1>6. Redis!Cardinality(kept) = m
    BY <1>5 DEF Redis!Cardinality, Cardinality, Redis!IsFiniteSet, IsFiniteSet
  <1>7. PICK f \in [1..m -> kept] : keys' = [i \in DOMAIN f |-> keys[f[i]]]
    BY <1>2, <1>6 DEF Redis!LRem
  <1>8. \A i \in 1..m : keys[f[i]] \in Keys
    <2>1. \A i \in 1..m : f[i] \in 1..n
      BY <1>3, <1>7
    <2>2. \A j \in 1..n : keys[j] \in Keys
      BY <1>1
    <2> QED
      BY <2>1, <2>2
  <1>9. keys' \in [1..m -> Keys]
    BY <1>7, <1>8
  <1>10. keys' \in Seq(Keys) /\ Len(keys') = m
    BY <1>9
  <1> QED
    BY <1>1, <1>5, <1>10 DEF RedisTyped, RedisSized

(* What a step leaves alone of keys, turn, faults and history. *)
LEMMA RedisFault ==
    ASSUME RedisTyped, NEW x, Redis!Fault(x) PROVE faults' \in 0..MaxFaults /\ x \in FaultKinds
  BY DEF RedisTyped, RedisRest, RedisSized, Redis!Fault

(* A call of Insert or InsertByKey begins. *)
LEMMA RedisInserting ==
    ASSUME NEW d \in Data, NEW q \in Seq(Redis!Lists), q # << >>
    PROVE  LET r == [Redis!Idle EXCEPT !.pc = "llen", !.data = d, !.rest = q]
           IN  r \in RedisState /\ Equipped(r) /\ ~Moves(r) /\ Pushes(r) /\ r.data = d
  <1>1. PICK i : i = Redis!Idle
    OBVIOUS
  <1>2. i \in RedisState /\ i.op = "none"
    BY <1>1, RedisIdle
  <1>3. PICK r : r = [i EXCEPT !.pc = "llen", !.data = d, !.rest = q]
    OBVIOUS
  <1>4. r \in RedisState /\ r.pc = "llen" /\ r.data = d /\ r.rest = q /\ r.op = "none"
    BY <1>2, <1>3 DEF RedisState
  <1>5. Equipped(r) /\ ~Moves(r) /\ Pushes(r)
    BY <1>4 DEF Equipped, Moves, Pushes
  <1> QED
    BY <1>1, <1>3, <1>4, <1>5

(* AddKey. *)
LEMMA RedisAddKey == ASSUME RedisInv, NEW c \in Callers, NEW k \in Keys, Redis!AddKey(c, k) PROVE RedisInv'
  <1>1. RedisRest'
    BY RedisAddsKey DEF RedisInv, RedisTyped, RedisRest, Redis!AddKey, Redis!history
  <1>2. list' = list /\ me' = me /\ rAccepted' = rAccepted
    BY DEF Redis!AddKey, Redis!history
  <1> QED
    BY <1>1, <1>2 DEF RedisInv, RedisTyped, RedisApart, RedisSized, RedisSafe

(* Insert: the lists it will try are of the assigned key. *)
LEMMA RedisInsert == ASSUME RedisInv, NEW c \in Callers, NEW d \in Data, Redis!Insert(c, d) PROVE RedisInv'
  <1>1. d \notin rAccepted /\ \A e \in Callers : me[e].data # d
    BY DEF Redis!Insert, Redis!Fresh
  <1>2. list' = list /\ keys' = keys /\ faults' = faults /\ rAccepted' = rAccepted /\ rDeleted' = rDeleted
    BY DEF Redis!Insert, Redis!history
  <1>3. CASE Redis!Goto(c, [Redis!Idle EXCEPT !.pc = "llen", !.data = d, !.rest = <<Redis!Global>>])
             /\ lastIndex' = lastIndex
    <2>1. PICK q : q = <<Redis!Global>>
      OBVIOUS
    <2>2. q \in Seq(Redis!Lists) /\ q # << >>
      BY <2>1, RedisLists
    <2>3. PICK r : r = [Redis!Idle EXCEPT !.pc = "llen", !.data = d, !.rest = q]
      OBVIOUS
    <2>4. r \in RedisState /\ Equipped(r) /\ ~Moves(r) /\ Pushes(r) /\ r.data = d
      BY <2>2, <2>3, RedisInserting
    <2>5. Redis!Goto(c, r)
      BY <1>3, <2>1, <2>3
    <2>6. RedisRest'
      BY <1>2, <1>3 DEF RedisInv, RedisTyped, RedisRest
    <2> QED
      BY <1>1, <1>2, <2>4, <2>5, <2>6, RedisStays
  <1>4. ASSUME NEW a \in Redis!assignStrategy, lastIndex' = a.index,
               Redis!Goto(c, [Redis!Idle EXCEPT !.pc = "llen", !.data = d,
                                                !.rest = <<Redis!Processing(a.key), Redis!Global>>])
        PROVE  RedisInv'
    <2>1. PICK q : q = <<Redis!Processing(a.key), Redis!Global>>
      OBVIOUS
    <2>2. a.key \in Keys /\ a.index \in -1..(MaxKeys - 1)
      BY RedisAssigns DEF RedisInv
    <2>3. q \in Seq(Redis!Lists) /\ q # << >>
      BY <2>1, <2>2, RedisLists
    <2>4. PICK r : r = [Redis!Idle EXCEPT !.pc = "llen", !.data = d, !.rest = q]
      OBVIOUS
    <2>5. r \in RedisState /\ Equipped(r) /\ ~Moves(r) /\ Pushes(r) /\ r.data = d
      BY <2>3, <2>4, RedisInserting
    <2>6. Redis!Goto(c, r)
      BY <1>4, <2>1, <2>4
    <2>7. RedisRest'
      BY <1>2, <1>4, <2>2 DEF RedisInv, RedisTyped, RedisRest
    <2> QED
      BY <1>1, <1>2, <2>5, <2>6, <2>7, RedisStays
  <1> QED
    BY <1>3, <1>4 DEF Redis!Insert

(* InsertByKey: the lists it will try are of its key. *)
LEMMA RedisInsertByKey ==
    ASSUME RedisInv, NEW c \in Callers, NEW k \in Keys, NEW d \in Data, Redis!InsertByKey(c, k, d) PROVE RedisInv'
  <1>1. d \notin rAccepted /\ \A e \in Callers : me[e].data # d
    BY DEF Redis!InsertByKey, Redis!Fresh
  <1>2. list' = list /\ lastIndex' = lastIndex /\ faults' = faults /\ rAccepted' = rAccepted /\ rDeleted' = rDeleted
    BY DEF Redis!InsertByKey, Redis!history
  <1>3. PICK q : q = <<Redis!Processing(k), Redis!Waiting(k)>>
    OBVIOUS
  <1>4. q \in Seq(Redis!Lists) /\ q # << >>
    BY <1>3, RedisLists
  <1>5. PICK r : r = [Redis!Idle EXCEPT !.pc = "llen", !.data = d, !.rest = q]
    OBVIOUS
  <1>6. r \in RedisState /\ Equipped(r) /\ ~Moves(r) /\ Pushes(r) /\ r.data = d
    BY <1>4, <1>5, RedisInserting
  <1>7. Redis!Goto(c, r)
    BY <1>3, <1>5 DEF Redis!InsertByKey
  <1>8. RedisRest'
    BY <1>2, RedisAddsKey DEF Redis!InsertByKey, RedisInv, RedisTyped, RedisRest
  <1> QED
    BY <1>1, <1>2, <1>6, <1>7, <1>8, RedisStays

(* A return. *)
LEMMA RedisReturns ==
    ASSUME RedisInv, NEW c \in Callers, Redis!Return(c), RedisRest', list' = list, rAccepted' = rAccepted
    PROVE  RedisInv'
  <1>1. PICK r : r = Redis!Idle
    OBVIOUS
  <1>2. r \in RedisState /\ Equipped(r) /\ ~Moves(r) /\ ~Pushes(r) /\ Redis!Goto(c, r)
    BY <1>1, RedisIdle DEF Redis!Return, Moves, Pushes
  <1> QED
    BY <1>2, RedisStays

(* The next list is tried, or the call returns. *)
LEMMA RedisTriesNext ==
    ASSUME RedisTyped, NEW c \in Callers, Pushes(me[c]), Redis!NextList(c)
    PROVE  \E r \in RedisState : Equipped(r) /\ Redis!Goto(c, r) /\ ~Moves(r) /\ (Pushes(r) => r.data = me[c].data)
  <1>1. CASE Len(me[c].rest) = 1
    <2>1. Redis!Goto(c, Redis!Idle)
      BY <1>1 DEF Redis!NextList, Redis!Return
    <2> QED
      BY <2>1, RedisIdle DEF Moves, Pushes
  <1>2. CASE Len(me[c].rest) # 1
    <2>1. PICK m : m = me[c]
      OBVIOUS
    <2>2. m \in RedisState /\ Equipped(m) /\ Pushes(m)
      BY <2>1 DEF RedisTyped
    <2>3. m.rest \in Seq(Redis!Lists) /\ m.rest # << >> /\ Len(m.rest) # 1 /\ m.data \in Data
      BY <1>2, <2>1, <2>2 DEF RedisState, Equipped, Pushes
    <2>4. PICK q : q = Tail(m.rest)
      OBVIOUS
    <2>5. q \in Seq(Redis!Lists) /\ q # << >>
      BY <2>3, <2>4, TailStays
    <2>6. PICK r : r = [m EXCEPT !.pc = "llen", !.rest = q]
      OBVIOUS
    <2>7. r \in RedisState /\ r.pc = "llen" /\ r.data = m.data /\ r.rest = q /\ r.op = m.op /\ r.to = m.to
      BY <2>2, <2>5, <2>6 DEF RedisState
    <2>8. Equipped(r) /\ ~Moves(r)
      BY <2>2, <2>3, <2>5, <2>7 DEF Equipped, Moves
    <2>9. Redis!Goto(c, r)
      BY <1>2, <2>1, <2>4, <2>6 DEF Redis!NextList
    <2> QED
      BY <2>1, <2>7, <2>8, <2>9
  <1> QED
    BY <1>1, <1>2

(* Only a place changes. *)
LEMMA RedisPlace ==
    ASSUME RedisTyped, NEW c \in Callers, NEW p, NEW r, r = [me[c] EXCEPT !.pc = p],
           p \in {"idle", "dead", "llen", "lpush", "lrange", "lset", "bfLen", "bfPop", "bfPush", "bfBack", "force",
                  "forceBack", "del"}
    PROVE  /\ r \in RedisState /\ r.pc = p /\ r.data = me[c].data /\ r.rest = me[c].rest /\ r.op = me[c].op
           /\ r.to = me[c].to /\ r.key = me[c].key /\ r.hand = me[c].hand /\ r.from = me[c].from
  <1>1. PICK m : m = me[c]
    OBVIOUS
  <1>2. m \in RedisState /\ r = [m EXCEPT !.pc = p]
    BY <1>1 DEF RedisTyped
  <1>3. /\ r \in RedisState /\ r.pc = p /\ r.data = m.data /\ r.rest = m.rest /\ r.op = m.op
        /\ r.to = m.to /\ r.key = m.key /\ r.hand = m.hand /\ r.from = m.from
    BY <1>2 DEF RedisState
  <1> QED
    BY <1>1, <1>3

(* LLEN before a push. *)
LEMMA RedisPushLLen == ASSUME RedisInv, NEW c \in Callers, Redis!pushLLen(c) PROVE RedisInv'
  <1>1. list' = list /\ keys' = keys /\ lastIndex' = lastIndex /\ rAccepted' = rAccepted /\ rDeleted' = rDeleted
        /\ Pushes(me[c])
    BY DEF Redis!pushLLen, Redis!redis, Redis!history, Pushes
  <1>2. faults' \in 0..MaxFaults
    <2>1. CASE Redis!Fault("reject")
      BY <2>1, RedisFault DEF RedisInv
    <2>2. CASE faults' = faults
      BY <2>2 DEF RedisInv, RedisTyped, RedisRest
    <2> QED
      BY <2>1, <2>2 DEF Redis!pushLLen
  <1>3. RedisRest'
    BY <1>1, <1>2 DEF RedisInv, RedisTyped, RedisRest
  <1>4. CASE Redis!NextList(c)
    BY <1>1, <1>3, <1>4, RedisTriesNext, RedisStays DEF RedisInv
  <1>5. CASE Redis!Goto(c, [me[c] EXCEPT !.pc = "lpush"])
    <2>1. PICK r : r = [me[c] EXCEPT !.pc = "lpush"]
      OBVIOUS
    <2>2. /\ r \in RedisState /\ r.pc = "lpush" /\ r.data = me[c].data /\ r.rest = me[c].rest /\ r.op = me[c].op
          /\ r.to = me[c].to
      BY <2>1, RedisPlace DEF RedisInv
    <2>3. Equipped(r) /\ ~Moves(r) /\ Pushes(r)
      BY <1>1, <2>2 DEF RedisInv, RedisTyped, Equipped, Moves, Pushes
    <2> QED
      BY <1>1, <1>3, <1>5, <2>1, <2>2, <2>3, RedisStays
  <1> QED
    BY <1>4, <1>5 DEF Redis!pushLLen

(* A rejected or a lost LPUSH tries the next list; a successful one is the  *)
(* acceptance.                                                              *)
LEMMA RedisPushLPush == ASSUME RedisInv, NEW c \in Callers, Redis!pushLPush(c) PROVE RedisInv'
  <1>1. keys' = keys /\ lastIndex' = lastIndex /\ rDeleted' = rDeleted /\ Pushes(me[c])
    BY DEF Redis!pushLPush, Pushes
  <1>2. PICK d, l : d = me[c].data /\ l = Head(me[c].rest)
    OBVIOUS
  <1>3. d \in Data /\ l \in Redis!Lists
    BY <1>1, <1>2 DEF RedisInv, RedisTyped, Equipped, RedisState, Pushes
  <1>4. PICK t : t = <<d>> \o list[l]
    OBVIOUS
  <1>5. list[l] \in Seq(Data) /\ t \in Seq(Data) /\ Without(list[l], t, 1) /\ Len(t) = Len(list[l]) + 1 /\ t[1] = d
    <2>1. list[l] \in Seq(Data)
      BY <1>3 DEF RedisInv, RedisTyped
    <2> QED
      BY <1>3, <1>4, <2>1, ConsAdds
  <1>6. 1 \in 1..Len(t)
    BY <1>5
  <1>7. CASE Redis!Fault("reject") /\ Redis!NextList(c) /\ list' = list /\ rAccepted' = rAccepted
    <2>1. RedisRest'
      BY <1>1, <1>7, RedisFault DEF RedisInv, RedisTyped, RedisRest
    <2> QED
      BY <1>1, <1>7, <2>1, RedisTriesNext, RedisStays DEF RedisInv
  <1>8. CASE Redis!Fault("lost") /\ list' = [list EXCEPT ![l] = t] /\ Redis!NextList(c) /\ rAccepted' = rAccepted
    <2>1. ~RedisSafe /\ faults' \in 0..MaxFaults
      BY <1>8, RedisFault DEF RedisSafe, RedisInv
    <2>2. RedisRest'
      BY <1>1, <1>8, <2>1 DEF RedisInv, RedisTyped, RedisRest
    <2>3. list' \in [Redis!Lists -> Seq(Data)]
      BY <1>5, <1>8 DEF RedisInv, RedisTyped
    <2>4. PICK r \in RedisState : Equipped(r) /\ Redis!Goto(c, r)
      BY <1>1, <1>8, RedisTriesNext DEF RedisInv
    <2>5. RedisTyped'
      BY <2>2, <2>3, <2>4, RedisTypes DEF RedisInv
    <2> QED
      BY <2>1, <2>5 DEF RedisInv, RedisSafe
  <1>9. CASE list' = [list EXCEPT ![l] = t] /\ rAccepted' = rAccepted \cup {d} /\ Redis!Return(c) /\ faults' = faults
    <2>1. RedisRest'
      BY <1>1, <1>3, <1>9 DEF RedisInv, RedisTyped, RedisRest
    <2>2. PICK r : r = Redis!Idle
      OBVIOUS
    <2>3. r \in RedisState /\ Equipped(r) /\ ~Moves(r) /\ ~Pushes(r) /\ Redis!Goto(c, r)
      BY <1>9, <2>2, RedisIdle DEF Redis!Return, Moves, Pushes
    <2>4. rAccepted' \subseteq rAccepted \cup {d} /\ rAccepted \subseteq rAccepted' /\ d \in rAccepted'
      BY <1>9
    <2>5. Pushes(me[c]) /\ d = me[c].data /\ d \in rAccepted'
      BY <1>1, <1>2, <2>4
    <2>6. list' = [list EXCEPT ![l] = t] /\ Without(list[l], t, 1)
      BY <1>5, <1>9
    <2>7. t \in Seq(Data) /\ t[1] = d
      BY <1>5
    <2> QED
      BY <1>3, <1>6, <2>1, <2>3, <2>4, <2>5, <2>6, <2>7, RedisAdds
  <1> QED
    BY <1>2, <1>4, <1>7, <1>8, <1>9 DEF Redis!pushLPush

(* A call of Delete or of a transfer begins: a task is looked for in the    *)
(* lists q.                                                                 *)
LEMMA RedisLooking ==
    ASSUME NEW x \in {"Delete", "Transform"}, NEW k \in Keys, NEW t \in Keys \cup {"none"}, NEW d \in Data,
           NEW q \in Seq(Redis!Lists), q # << >>,
           x = "Transform" => t \in Keys /\ RedisOps \cap {"Transform", "AutoTransform"} # {},
           NEW r, r = [Redis!Idle EXCEPT !.pc = "lrange", !.op = x, !.key = k, !.to = t, !.data = d, !.rest = q]
    PROVE  r \in RedisState /\ Equipped(r) /\ ~Moves(r) /\ ~Pushes(r)
  <1>1. PICK i : i = Redis!Idle
    OBVIOUS
  <1>2. i \in RedisState
    BY <1>1, RedisIdle
  <1>3. r = [i EXCEPT !.pc = "lrange", !.op = x, !.key = k, !.to = t, !.data = d, !.rest = q]
    BY <1>1
  <1>4. r \in RedisState /\ r.pc = "lrange" /\ r.data = d /\ r.rest = q /\ r.op = x /\ r.key = k /\ r.to = t
    BY <1>2, <1>3 DEF RedisState
  <1> QED
    BY <1>4 DEF Equipped, Moves, Pushes

(* Delete. *)
LEMMA RedisDelete ==
    ASSUME RedisInv, NEW c \in Callers, NEW k \in Keys, NEW d \in Data, Redis!Delete(c, k, d) PROVE RedisInv'
  <1>1. RedisRest' /\ list' = list /\ rAccepted' = rAccepted
    BY DEF Redis!Delete, Redis!redis, Redis!history, RedisInv, RedisTyped, RedisRest
  <1>2. PICK q : q = <<Redis!Processing(k), Redis!Waiting(k)>>
    OBVIOUS
  <1>3. q \in Seq(Redis!Lists) /\ q # << >>
    BY <1>2, RedisLists
  <1>4. PICK i : i = Redis!Idle
    OBVIOUS
  <1>5. i \in RedisState
    BY <1>4, RedisIdle
  <1>6. PICK r : r = [i EXCEPT !.pc = "lrange", !.op = "Delete", !.key = k, !.data = d, !.rest = q]
    OBVIOUS
  <1>7. r \in RedisState /\ r.pc = "lrange" /\ r.data = d /\ r.rest = q /\ r.op = "Delete" /\ r.key = k
    BY <1>3, <1>5, <1>6 DEF RedisState
  <1>8. Equipped(r) /\ ~Moves(r) /\ ~Pushes(r)
    BY <1>3, <1>7 DEF Equipped, Moves, Pushes
  <1>9. Redis!Goto(c, r)
    BY <1>2, <1>4, <1>6 DEF Redis!Delete
  <1> QED
    BY <1>1, <1>7, <1>8, <1>9, RedisStays

(* TransformProcessingData. *)
LEMMA RedisTransform ==
    ASSUME RedisInv, NEW c \in Callers, NEW k \in Keys, NEW t \in Keys, NEW d \in Data,
           Redis!TransformProcessingData(c, k, t, d)
    PROVE  RedisInv'
  <1>1. RedisRest' /\ list' = list /\ rAccepted' = rAccepted
    BY DEF Redis!TransformProcessingData, Redis!redis, Redis!history, RedisInv, RedisTyped, RedisRest
  <1>2. PICK q : q = <<Redis!Processing(k)>>
    OBVIOUS
  <1>3. q \in Seq(Redis!Lists) /\ q # << >>
    BY <1>2, RedisLists
  <1>4. RedisOps \cap {"Transform", "AutoTransform"} # {}
    BY DEF Redis!TransformProcessingData, Redis!Begin
  <1>5. PICK r : r = [Redis!Idle EXCEPT !.pc = "lrange", !.op = "Transform", !.key = k, !.to = t, !.data = d,
                                        !.rest = q]
    OBVIOUS
  <1>6. r \in RedisState /\ Equipped(r) /\ ~Moves(r) /\ ~Pushes(r)
    BY <1>3, <1>4, <1>5, RedisLooking
  <1>7. Redis!Goto(c, r)
    BY <1>2, <1>5 DEF Redis!TransformProcessingData
  <1> QED
    BY <1>1, <1>6, <1>7, RedisStays

(* AutoTransformProcessingData: the target is one of the keys. *)
LEMMA RedisAutoTransform ==
    ASSUME RedisInv, NEW c \in Callers, NEW k \in Keys, NEW d \in Data, Redis!AutoTransformProcessingData(c, k, d)
    PROVE  RedisInv'
  <1>1. PICK a \in Redis!assignStrategy :
           /\ lastIndex' = a.index
           /\ Redis!Goto(c, [Redis!Idle EXCEPT !.pc = "lrange", !.op = "Transform", !.key = k, !.to = a.key,
                                               !.data = d, !.rest = <<Redis!Processing(k)>>])
    BY DEF Redis!AutoTransformProcessingData
  <1>2. a.key \in Keys /\ a.index \in -1..(MaxKeys - 1)
    BY RedisAssigns DEF RedisInv
  <1>3. RedisRest' /\ list' = list /\ rAccepted' = rAccepted
    BY <1>1, <1>2 DEF Redis!AutoTransformProcessingData, Redis!history, RedisInv, RedisTyped, RedisRest
  <1>4. PICK q : q = <<Redis!Processing(k)>>
    OBVIOUS
  <1>5. q \in Seq(Redis!Lists) /\ q # << >>
    BY <1>4, RedisLists
  <1>6. RedisOps \cap {"Transform", "AutoTransform"} # {}
    BY DEF Redis!AutoTransformProcessingData, Redis!Begin
  <1>7. PICK r : r = [Redis!Idle EXCEPT !.pc = "lrange", !.op = "Transform", !.key = k, !.to = a.key, !.data = d,
                                        !.rest = q]
    OBVIOUS
  <1>8. r \in RedisState /\ Equipped(r) /\ ~Moves(r) /\ ~Pushes(r)
    BY <1>2, <1>5, <1>6, <1>7, RedisLooking
  <1>9. Redis!Goto(c, r)
    BY <1>1, <1>4, <1>7
  <1> QED
    BY <1>3, <1>8, <1>9, RedisStays

(* A task that was not found is looked for in the next list. *)
LEMMA RedisLooksOn ==
    ASSUME RedisTyped, NEW c \in Callers, me[c].pc \in {"lrange", "lset"}, Redis!NotInList(c)
    PROVE  \E r \in RedisState : Equipped(r) /\ Redis!Goto(c, r) /\ ~Moves(r) /\ ~Pushes(r)
  <1>1. CASE Len(me[c].rest) = 1
    <2>1. Redis!Goto(c, Redis!Idle)
      BY <1>1 DEF Redis!NotInList, Redis!Return
    <2> QED
      BY <2>1, RedisIdle DEF Moves, Pushes
  <1>2. CASE Len(me[c].rest) # 1
    <2>1. PICK m : m = me[c]
      OBVIOUS
    <2>2. m \in RedisState /\ Equipped(m) /\ m.pc \in {"lrange", "lset"}
      BY <2>1 DEF RedisTyped
    <2>3. m.rest \in Seq(Redis!Lists) /\ m.rest # << >> /\ Len(m.rest) # 1 /\ m.data \in Data /\ m.key \in Keys
      BY <1>2, <2>1, <2>2 DEF RedisState, Equipped
    <2>4. PICK q : q = Tail(m.rest)
      OBVIOUS
    <2>5. q \in Seq(Redis!Lists) /\ q # << >>
      BY <2>3, <2>4, TailStays
    <2>6. PICK r : r = [m EXCEPT !.pc = "lrange", !.rest = q]
      OBVIOUS
    <2>7. /\ r \in RedisState /\ r.pc = "lrange" /\ r.data = m.data /\ r.rest = q /\ r.op = m.op /\ r.to = m.to
          /\ r.key = m.key
      BY <2>2, <2>5, <2>6 DEF RedisState
    <2>8. Equipped(r) /\ ~Moves(r) /\ ~Pushes(r)
      BY <2>2, <2>3, <2>5, <2>7 DEF Equipped, Moves, Pushes
    <2>9. Redis!Goto(c, r)
      BY <1>2, <2>1, <2>4, <2>6 DEF Redis!NotInList
    <2> QED
      BY <2>7, <2>8, <2>9
  <1> QED
    BY <1>1, <1>2

(* removeFromQueue looks for the task. *)
LEMMA RedisRemoveLRange == ASSUME RedisInv, NEW c \in Callers, Redis!removeLRange(c) PROVE RedisInv'
  <1>1. list' = list /\ keys' = keys /\ lastIndex' = lastIndex /\ rAccepted' = rAccepted /\ rDeleted' = rDeleted
        /\ me[c].pc = "lrange"
    BY DEF Redis!removeLRange, Redis!redis, Redis!history
  <1>2. faults' \in 0..MaxFaults
    <2>1. CASE Redis!Fault("reject")
      BY <2>1, RedisFault DEF RedisInv
    <2>2. CASE faults' = faults
      BY <2>2 DEF RedisInv, RedisTyped, RedisRest
    <2> QED
      BY <2>1, <2>2 DEF Redis!removeLRange
  <1>3. RedisRest'
    BY <1>1, <1>2 DEF RedisInv, RedisTyped, RedisRest
  <1>4. CASE Redis!Return(c)
    BY <1>1, <1>3, <1>4, RedisReturns
  <1>5. CASE Redis!NotInList(c)
    BY <1>1, <1>3, <1>5, RedisLooksOn, RedisStays DEF RedisInv
  <1>6. ASSUME NEW at, at = {i \in DOMAIN list[Head(me[c].rest)] : list[Head(me[c].rest)][i] = me[c].data}, at # {},
               Redis!Goto(c, [me[c] EXCEPT !.pc = "lset", !.index = Redis!Min(at)])
        PROVE  RedisInv'
    <2>1. PICK m : m = me[c]
      OBVIOUS
    <2>2. m \in RedisState /\ Equipped(m) /\ m.pc = "lrange"
      BY <1>1, <2>1 DEF RedisInv, RedisTyped
    <2>3. m.rest \in Seq(Redis!Lists) /\ m.rest # << >>
      BY <2>2 DEF RedisState, Equipped
    <2>4. list[Head(m.rest)] \in Seq(Data)
      BY <2>3 DEF RedisInv, RedisTyped
    <2>5. at \subseteq Nat
      BY <1>6, <2>1, <2>4
    <2>6. PICK i : i = Redis!Min(at)
      OBVIOUS
    <2>7. i \in Int
      <3>1. \E x \in at : \A y \in at : x <= y
        BY <1>6, <2>5, LeastOf
      <3>2. i \in at
        BY <2>6, <3>1 DEF Redis!Min
      <3> QED
        BY <2>5, <3>2
    <2>8. PICK r : r = [m EXCEPT !.pc = "lset", !.index = i]
      OBVIOUS
    <2>9. /\ r \in RedisState /\ r.pc = "lset" /\ r.data = m.data /\ r.rest = m.rest /\ r.op = m.op /\ r.to = m.to
          /\ r.key = m.key
      BY <2>2, <2>7, <2>8 DEF RedisState
    <2>10. Equipped(r) /\ ~Moves(r) /\ ~Pushes(r)
      BY <2>2, <2>9 DEF Equipped, Moves, Pushes
    <2>11. Redis!Goto(c, r)
      BY <1>6, <2>1, <2>6, <2>8
    <2> QED
      BY <1>1, <1>3, <2>9, <2>10, <2>11, RedisStays
  <1> QED
    BY <1>4, <1>5, <1>6 DEF Redis!removeLRange

(* What follows a removal: a transfer pushes, a Delete from the processing  *)
(* list fills it up, any other call returns.                                *)
LEMMA RedisRemoved ==
    ASSUME RedisTyped, NEW c \in Callers, me[c].pc = "lset", Redis!Removed(c)
    PROVE  \E r \in RedisState : Equipped(r) /\ Redis!Goto(c, r) /\ ~Moves(r) /\ ~Pushes(r)
  <1>1. CASE Redis!Return(c)
    <2>1. Redis!Goto(c, Redis!Idle)
      BY <1>1 DEF Redis!Return
    <2> QED
      BY <2>1, RedisIdle DEF Moves, Pushes
  <1>2. ASSUME NEW p \in {"force", "bfLen"}, Redis!Goto(c, [me[c] EXCEPT !.pc = p]),
               p = "force" => me[c].op = "Transform"
        PROVE  \E r \in RedisState : Equipped(r) /\ Redis!Goto(c, r) /\ ~Moves(r) /\ ~Pushes(r)
    <2>1. PICK r : r = [me[c] EXCEPT !.pc = p]
      OBVIOUS
    <2>2. /\ r \in RedisState /\ r.pc = p /\ r.data = me[c].data /\ r.op = me[c].op /\ r.to = me[c].to
          /\ r.key = me[c].key
      BY <2>1, RedisPlace
    <2>3. Equipped(r) /\ ~Moves(r) /\ ~Pushes(r)
      BY <1>2, <2>2 DEF RedisTyped, Equipped, Moves, Pushes
    <2> QED
      BY <1>2, <2>1, <2>2, <2>3
  <1>3. CASE Redis!Goto(c, [me[c] EXCEPT !.pc = "force"]) /\ me[c].op = "Transform"
    BY <1>2, <1>3
  <1>4. CASE Redis!Goto(c, [me[c] EXCEPT !.pc = "bfLen"])
    BY <1>2, <1>4
  <1> QED
    BY <1>1, <1>3, <1>4 DEF Redis!Removed

(* The script removes what is at the index by now. *)
LEMMA RedisRemoveScript == ASSUME RedisInv, NEW c \in Callers, Redis!removeScript(c) PROVE RedisInv'
  <1>1. keys' = keys /\ lastIndex' = lastIndex /\ rAccepted' = rAccepted /\ me[c].pc = "lset"
    BY DEF Redis!removeScript
  <1>2. PICK l, i : l = Head(me[c].rest) /\ i = me[c].index
    OBVIOUS
  <1>3. l \in Redis!Lists /\ me[c].data \in Data
    BY <1>1, <1>2 DEF RedisInv, RedisTyped, Equipped, RedisState
  <1>4. list[l] \in Seq(Data)
    BY <1>3 DEF RedisInv, RedisTyped
  <1>5. CASE Redis!Fault("reject") /\ Redis!Return(c) /\ list' = list /\ rDeleted' = rDeleted
    <2>1. RedisRest'
      BY <1>1, <1>5, RedisFault DEF RedisInv, RedisTyped, RedisRest
    <2> QED
      BY <1>1, <1>5, <2>1, RedisReturns
  <1>6. CASE Redis!NotInList(c) /\ list' = list /\ rDeleted' = rDeleted /\ faults' = faults
    <2>1. RedisRest'
      BY <1>1, <1>6 DEF RedisInv, RedisTyped, RedisRest
    <2> QED
      BY <1>1, <1>6, <2>1, RedisLooksOn, RedisStays DEF RedisInv
  <1>7. CASE /\ i \in DOMAIN list[l] /\ list' = [list EXCEPT ![l] = Redis!RemoveAt(list[l], i)]
             /\ rDeleted' = (IF me[c].op = "Delete" THEN rDeleted \cup {me[c].data} ELSE rDeleted)
             /\ Redis!Removed(c) /\ faults' = faults
    <2>1. RedisRest'
      BY <1>1, <1>3, <1>7 DEF RedisInv, RedisTyped, RedisRest
    <2>2. PICK n \in Nat : n = Len(list[l])
      BY <1>4
    <2>3. i \in 1..n
      BY <1>4, <1>7, <2>2
    <2>4. PICK t : t = Redis!RemoveAt(list[l], i)
      OBVIOUS
    <2>5. t = SubSeq(list[l], 1, i - 1) \o SubSeq(list[l], i + 1, n)
      BY <2>2, <2>4 DEF Redis!RemoveAt
    <2>6. t \in Seq(Data) /\ Without(t, list[l], i)
      BY <1>4, <2>2, <2>3, <2>5, RemoveAtDrops
    <2>7. PICK r \in RedisState : Equipped(r) /\ Redis!Goto(c, r) /\ ~Moves(r) /\ ~Pushes(r)
      BY <1>1, <1>7, RedisRemoved DEF RedisInv
    <2>8. list' = [list EXCEPT ![l] = t] /\ i \in 1..Len(list[l])
      BY <1>7, <2>2, <2>3, <2>4
    <2> QED
      BY <1>1, <1>3, <2>1, <2>6, <2>7, <2>8, RedisDrops
  <1> QED
    BY <1>2, <1>5, <1>6, <1>7 DEF Redis!removeScript

(* backfillProcessingQueue looks whether there is room. *)
LEMMA RedisBackfillLLen == ASSUME RedisInv, NEW c \in Callers, Redis!backfillLLen(c) PROVE RedisInv'
  <1>1. list' = list /\ keys' = keys /\ lastIndex' = lastIndex /\ rAccepted' = rAccepted /\ rDeleted' = rDeleted
        /\ me[c].pc = "bfLen"
    BY DEF Redis!backfillLLen, Redis!redis, Redis!history
  <1>2. faults' \in 0..MaxFaults
    <2>1. CASE Redis!Fault("reject")
      BY <2>1, RedisFault DEF RedisInv
    <2>2. CASE faults' = faults
      BY <2>2 DEF RedisInv, RedisTyped, RedisRest
    <2> QED
      BY <2>1, <2>2 DEF Redis!backfillLLen
  <1>3. RedisRest'
    BY <1>1, <1>2 DEF RedisInv, RedisTyped, RedisRest
  <1>4. CASE Redis!Return(c)
    BY <1>1, <1>3, <1>4, RedisReturns
  <1>5. CASE Redis!Goto(c, [me[c] EXCEPT !.pc = "bfPop", !.from = Redis!Waiting(me[c].key)])
    <2>1. PICK m, l : m = me[c] /\ l = Redis!Waiting(me[c].key)
      OBVIOUS
    <2>2. m \in RedisState /\ Equipped(m) /\ m.pc = "bfLen"
      BY <1>1, <2>1 DEF RedisInv, RedisTyped
    <2>3. m.key \in Keys
      BY <2>2 DEF Equipped
    <2>4. l \in Redis!Lists
      BY <2>1, <2>3, RedisLists
    <2>5. PICK r : r = [m EXCEPT !.pc = "bfPop", !.from = l]
      OBVIOUS
    <2>6. r \in RedisState /\ r.pc = "bfPop" /\ r.op = m.op /\ r.to = m.to /\ r.key = m.key
      BY <2>2, <2>4, <2>5 DEF RedisState
    <2>7. Equipped(r) /\ ~Moves(r) /\ ~Pushes(r)
      BY <2>2, <2>6 DEF Equipped, Moves, Pushes
    <2>8. Redis!Goto(c, r)
      BY <1>5, <2>1, <2>5
    <2> QED
      BY <1>1, <1>3, <2>6, <2>7, <2>8, RedisStays
  <1> QED
    BY <1>4, <1>5 DEF Redis!backfillLLen

(* A pop that finds nothing goes on to the global list, or returns. *)
LEMMA RedisPopsElsewhere ==
    ASSUME RedisTyped, NEW c \in Callers, me[c].pc = "bfPop",
           IF me[c].from = Redis!Global THEN Redis!Return(c) ELSE Redis!Goto(c, [me[c] EXCEPT !.from = Redis!Global])
    PROVE  \E r \in RedisState : Equipped(r) /\ Redis!Goto(c, r) /\ ~Moves(r) /\ ~Pushes(r)
  <1>1. CASE Redis!Return(c)
    <2>1. Redis!Goto(c, Redis!Idle)
      BY <1>1 DEF Redis!Return
    <2> QED
      BY <2>1, RedisIdle DEF Moves, Pushes
  <1>2. CASE Redis!Goto(c, [me[c] EXCEPT !.from = Redis!Global])
    <2>1. PICK m, l : m = me[c] /\ l = Redis!Global
      OBVIOUS
    <2>2. m \in RedisState /\ Equipped(m) /\ m.pc = "bfPop" /\ l \in Redis!Lists
      BY <2>1, RedisLists DEF RedisTyped
    <2>3. PICK r : r = [m EXCEPT !.from = l]
      OBVIOUS
    <2>4. r \in RedisState /\ r.pc = "bfPop" /\ r.op = m.op /\ r.to = m.to /\ r.key = m.key
      BY <2>2, <2>3 DEF RedisState
    <2>5. Equipped(r) /\ ~Moves(r) /\ ~Pushes(r)
      BY <2>2, <2>4 DEF Equipped, Moves, Pushes
    <2> QED
      BY <1>2, <2>1, <2>3, <2>4, <2>5
  <1> QED
    BY <1>1, <1>2

(* A task is popped, or nothing. *)
LEMMA RedisBackfillRPop == ASSUME RedisInv, NEW c \in Callers, Redis!backfillRPop(c) PROVE RedisInv'
  <1>1. keys' = keys /\ lastIndex' = lastIndex /\ rAccepted' = rAccepted /\ rDeleted' = rDeleted /\ me[c].pc = "bfPop"
    BY DEF Redis!backfillRPop, Redis!history
  <1>2. faults' \in 0..MaxFaults
    <2>1. CASE Redis!Fault("reject")
      BY <2>1, RedisFault DEF RedisInv
    <2>2. CASE Redis!Fault("lost")
      BY <2>2, RedisFault DEF RedisInv
    <2>3. CASE faults' = faults
      BY <2>3 DEF RedisInv, RedisTyped, RedisRest
    <2> QED
      BY <2>1, <2>2, <2>3 DEF Redis!backfillRPop
  <1>3. RedisRest'
    BY <1>1, <1>2 DEF RedisInv, RedisTyped, RedisRest
  <1>4. PICK l, m : l = me[c].from /\ m = me[c]
    OBVIOUS
  <1>5. l \in Redis!Lists /\ m \in RedisState /\ Equipped(m) /\ m.pc = "bfPop"
    BY <1>1, <1>4 DEF RedisInv, RedisTyped, RedisState
  <1>6. list[l] \in Seq(Data)
    BY <1>5 DEF RedisInv, RedisTyped
  <1>7. CASE list' = list /\ IF me[c].from = Redis!Global THEN Redis!Return(c)
                                                        ELSE Redis!Goto(c, [me[c] EXCEPT !.from = Redis!Global])
    BY <1>1, <1>3, <1>7, RedisPopsElsewhere, RedisStays DEF RedisInv
  <1>8. ASSUME list[l] # << >>, list' = [list EXCEPT ![l] = Redis!Front(list[l])], NEW r \in RedisState, Equipped(r),
               Redis!Goto(c, r), ~Pushes(r), Moves(r) => r.hand = Redis!Last(list[l])
        PROVE  RedisInv'
    <2>1. PICK n \in Nat : n = Len(list[l])
      BY <1>6
    <2>2. PICK t : t = SubSeq(list[l], 1, n - 1)
      OBVIOUS
    <2>3. t \in Seq(Data) /\ Without(t, list[l], n) /\ n >= 1
      BY <1>6, <1>8, <2>1, <2>2, FrontDrops
    <2>4. list' = [list EXCEPT ![l] = t] /\ n \in 1..Len(list[l])
      BY <1>8, <2>1, <2>2, <2>3 DEF Redis!Front
    <2>5. Moves(r) => r.hand = list[l][n]
      BY <1>8, <2>1 DEF Redis!Last
    <2>6. rAccepted' = rAccepted /\ l \in Redis!Lists /\ Redis!Goto(c, r) /\ ~Pushes(r) /\ Equipped(r)
      BY <1>1, <1>5, <1>8
    <2> HIDE <1>8
    <2> QED
      BY <1>3, <2>3, <2>4, <2>5, <2>6, RedisDrops
  <1>9. CASE /\ list[l] # << >> /\ list' = [list EXCEPT ![l] = Redis!Front(list[l])]
             /\ IF me[c].from = Redis!Global THEN Redis!Return(c)
                                             ELSE Redis!Goto(c, [me[c] EXCEPT !.from = Redis!Global])
    BY <1>1, <1>8, <1>9, RedisPopsElsewhere DEF RedisInv
  <1>10. CASE /\ list[l] # << >> /\ list' = [list EXCEPT ![l] = Redis!Front(list[l])]
              /\ Redis!Goto(c, [me[c] EXCEPT !.pc = "bfPush", !.hand = Redis!Last(list[l])])
    <2>1. PICK h : h = Redis!Last(list[l])
      OBVIOUS
    <2>2. h \in Data
      BY <1>6, <1>10, <2>1 DEF Redis!Last
    <2>3. PICK r : r = [m EXCEPT !.pc = "bfPush", !.hand = h]
      OBVIOUS
    <2>4. r \in RedisState /\ r.pc = "bfPush" /\ r.op = m.op /\ r.to = m.to /\ r.key = m.key /\ r.hand = h
      BY <1>5, <2>2, <2>3 DEF RedisState
    <2>5. Equipped(r) /\ ~Pushes(r)
      BY <1>5, <2>2, <2>4 DEF Equipped, Pushes
    <2>6. Redis!Goto(c, r)
      BY <1>4, <1>10, <2>1, <2>3
    <2> QED
      BY <1>8, <1>10, <2>1, <2>4, <2>5, <2>6
  <1> QED
    BY <1>4, <1>7, <1>9, <1>10 DEF Redis!backfillRPop

(* The popped task is pushed; after an error it will be put back. *)
LEMMA RedisBackfillLPush == ASSUME RedisInv, NEW c \in Callers, Redis!backfillLPush(c) PROVE RedisInv'
  <1>1. keys' = keys /\ lastIndex' = lastIndex /\ rAccepted' = rAccepted /\ rDeleted' = rDeleted /\ me[c].pc = "bfPush"
    BY DEF Redis!backfillLPush, Redis!history
  <1>2. faults' \in 0..MaxFaults
    <2>1. CASE Redis!Fault("reject")
      BY <2>1, RedisFault DEF RedisInv
    <2>2. CASE Redis!Fault("lost")
      BY <2>2, RedisFault DEF RedisInv
    <2>3. CASE faults' = faults
      BY <2>3 DEF RedisInv, RedisTyped, RedisRest
    <2> QED
      BY <2>1, <2>2, <2>3 DEF Redis!backfillLPush
  <1>3. RedisRest'
    BY <1>1, <1>2 DEF RedisInv, RedisTyped, RedisRest
  <1>4. PICK l, h : l = Redis!Processing(me[c].key) /\ h = me[c].hand
    OBVIOUS
  <1>5. l \in Redis!Lists /\ h \in Data
    BY <1>1, <1>4, RedisLists DEF RedisInv, RedisTyped, Equipped
  <1>6. list[l] \in Seq(Data)
    BY <1>5 DEF RedisInv, RedisTyped
  <1>7. PICK t : t = <<h>> \o list[l]
    OBVIOUS
  <1>8. t \in Seq(Data) /\ Without(list[l], t, 1) /\ t[1] = h /\ 1 \in 1..Len(t)
    BY <1>5, <1>6, <1>7, ConsAdds
  <1>9. PICK b : b = [me[c] EXCEPT !.pc = "bfBack"]
    OBVIOUS
  <1>10. b \in RedisState /\ Equipped(b) /\ Moves(b) /\ ~Pushes(b) /\ b.hand = me[c].hand /\ Moves(me[c])
    <2>1. /\ b \in RedisState /\ b.pc = "bfBack" /\ b.op = me[c].op /\ b.to = me[c].to /\ b.key = me[c].key
          /\ b.hand = me[c].hand
      BY <1>9, RedisPlace DEF RedisInv
    <2> QED
      BY <1>1, <2>1 DEF RedisInv, RedisTyped, Equipped, Moves, Pushes
  <1>11. CASE Redis!Goto(c, b) /\ list' = list
    BY <1>1, <1>3, <1>10, <1>11, RedisStays
  <1>12. CASE Redis!Fault("lost") /\ list' = [list EXCEPT ![l] = t] /\ Redis!Goto(c, b)
    <2>1. ~RedisSafe
      BY <1>12, RedisFault DEF RedisSafe, RedisInv
    <2>2. list' \in [Redis!Lists -> Seq(Data)]
      BY <1>8, <1>12 DEF RedisInv, RedisTyped
    <2>3. RedisTyped'
      BY <1>3, <1>10, <1>12, <2>2, RedisTypes DEF RedisInv
    <2> QED
      BY <2>1, <2>3 DEF RedisInv, RedisSafe
  <1>13. CASE list' = [list EXCEPT ![l] = t] /\ Redis!Return(c)
    <2>1. PICK r : r = Redis!Idle
      OBVIOUS
    <2>2. r \in RedisState /\ Equipped(r) /\ ~Moves(r) /\ ~Pushes(r) /\ Redis!Goto(c, r)
      BY <1>13, <2>1, RedisIdle DEF Redis!Return, Moves, Pushes
    <2>3. Moves(me[c]) /\ h = me[c].hand /\ rAccepted' = rAccepted /\ rAccepted' \subseteq rAccepted \cup {h}
          /\ rAccepted \subseteq rAccepted' /\ list' = [list EXCEPT ![l] = t]
      BY <1>1, <1>4, <1>10, <1>13
    <2> QED
      BY <1>3, <1>5, <1>8, <2>2, <2>3, RedisAdds
  <1> QED
    BY <1>4, <1>7, <1>9, <1>11, <1>12, <1>13 DEF Redis!backfillLPush

(* The popped task is put back where it was. *)
LEMMA RedisBackfillRPush == ASSUME RedisInv, NEW c \in Callers, Redis!backfillRPush(c) PROVE RedisInv'
  <1>1. keys' = keys /\ lastIndex' = lastIndex /\ rAccepted' = rAccepted /\ rDeleted' = rDeleted /\ me[c].pc = "bfBack"
        /\ Redis!Return(c)
    BY DEF Redis!backfillRPush, Redis!history
  <1>2. faults' \in 0..MaxFaults
    <2>1. CASE Redis!Fault("reject")
      BY <2>1, RedisFault DEF RedisInv
    <2>2. CASE faults' = faults
      BY <2>2 DEF RedisInv, RedisTyped, RedisRest
    <2> QED
      BY <2>1, <2>2 DEF Redis!backfillRPush
  <1>3. RedisRest'
    BY <1>1, <1>2 DEF RedisInv, RedisTyped, RedisRest
  <1>4. PICK l, h : l = me[c].from /\ h = me[c].hand
    OBVIOUS
  <1>5. l \in Redis!Lists /\ h \in Data
    BY <1>1, <1>4 DEF RedisInv, RedisTyped, Equipped, RedisState
  <1>6. list[l] \in Seq(Data)
    BY <1>5 DEF RedisInv, RedisTyped
  <1>7. PICK t : t = Append(list[l], h)
    OBVIOUS
  <1>8. PICK k : k = Len(list[l]) + 1
    OBVIOUS
  <1>9. t \in Seq(Data) /\ Without(list[l], t, k) /\ t[k] = h /\ k \in 1..Len(t)
    <2>1. t \in Seq(Data) /\ Without(list[l], t, k) /\ t[k] = h /\ Len(t) = k
      BY <1>5, <1>6, <1>7, <1>8, AppendAdds
    <2>2. k \in Nat /\ k >= 1
      BY <1>6, <1>8
    <2> QED
      BY <2>1, <2>2
  <1>10. CASE list' = list
    BY <1>1, <1>3, <1>10, RedisReturns
  <1>11. CASE list' = [list EXCEPT ![l] = t]
    <2>1. PICK r : r = Redis!Idle
      OBVIOUS
    <2>2. r \in RedisState /\ Equipped(r) /\ ~Moves(r) /\ ~Pushes(r) /\ Redis!Goto(c, r)
      BY <1>1, <2>1, RedisIdle DEF Redis!Return, Moves, Pushes
    <2>3. Moves(me[c]) /\ h = me[c].hand /\ rAccepted' = rAccepted /\ rAccepted' \subseteq rAccepted \cup {h}
          /\ rAccepted \subseteq rAccepted' /\ list' = [list EXCEPT ![l] = t]
      BY <1>1, <1>4, <1>11 DEF Moves
    <2> QED
      BY <1>3, <1>5, <1>9, <2>2, <2>3, RedisAdds
  <1> QED
    BY <1>4, <1>7, <1>10, <1>11 DEF Redis!backfillRPush

(* A transfer happens only if one is called. *)
LEMMA RedisForces ==
    ASSUME RedisInv, NEW c \in Callers, Redis!forcePush(c) \/ Redis!forcePushBack(c) PROVE RedisInv'
  <1>1. keys' = keys /\ lastIndex' = lastIndex /\ rAccepted' = rAccepted /\ rDeleted' = rDeleted
        /\ me[c].pc \in {"force", "forceBack"}
    BY DEF Redis!forcePush, Redis!forcePushBack, Redis!history
  <1>2. faults' \in 0..MaxFaults
    <2>1. ASSUME NEW x, Redis!Fault(x) PROVE faults' \in 0..MaxFaults
      BY <2>1, RedisFault DEF RedisInv
    <2>2. CASE faults' = faults
      BY <2>2 DEF RedisInv, RedisTyped, RedisRest
    <2> QED
      BY <2>1, <2>2 DEF Redis!forcePush, Redis!forcePushBack
  <1>3. RedisRest'
    BY <1>1, <1>2 DEF RedisInv, RedisTyped, RedisRest
  <1>4. PICK m : m = me[c]
    OBVIOUS
  <1>5. m \in RedisState /\ Equipped(m) /\ m.pc \in {"force", "forceBack"}
    BY <1>1, <1>4 DEF RedisInv, RedisTyped
  <1>6. m.data \in Data /\ m.op = "Transform" /\ m.to \in Keys /\ m.key \in Keys /\ ~RedisSafe
    BY <1>5 DEF Equipped, RedisSafe
  <1>7. list' \in [Redis!Lists -> Seq(Data)]
    <2>1. ASSUME NEW l \in Redis!Lists, list' = [list EXCEPT ![l] = <<m.data>> \o list[l]]
          PROVE  list' \in [Redis!Lists -> Seq(Data)]
      <3>1. list[l] \in Seq(Data) /\ list \in [Redis!Lists -> Seq(Data)]
        BY DEF RedisInv, RedisTyped
      <3>2. <<m.data>> \o list[l] \in Seq(Data)
        BY <1>6, <3>1, ConsAdds
      <3> QED
        BY <2>1, <3>1, <3>2
    <2>2. CASE list' = list
      BY <2>2 DEF RedisInv, RedisTyped
    <2>3. Redis!Processing(m.to) \in Redis!Lists /\ Redis!Processing(m.key) \in Redis!Lists
      BY <1>6, RedisLists
    <2> QED
      BY <1>4, <2>1, <2>2, <2>3 DEF Redis!forcePush, Redis!forcePushBack
  <1>8. PICK r \in RedisState : Equipped(r) /\ Redis!Goto(c, r)
    <2>1. CASE Redis!Return(c)
      BY <2>1, RedisIdle DEF Redis!Return
    <2>2. ASSUME NEW p \in {"bfLen", "forceBack"}, Redis!Goto(c, [me[c] EXCEPT !.pc = p])
          PROVE  \E r \in RedisState : Equipped(r) /\ Redis!Goto(c, r)
      <3>1. PICK r : r = [me[c] EXCEPT !.pc = p]
        OBVIOUS
      <3>2. r \in RedisState /\ r.pc = p /\ r.op = m.op /\ r.to = m.to /\ r.key = m.key /\ r.data = m.data
        BY <1>4, <3>1, RedisPlace DEF RedisInv
      <3>3. Equipped(r)
        BY <1>5, <1>6, <3>2 DEF Equipped
      <3> QED
        BY <2>2, <3>1, <3>2, <3>3
    <2>3. CASE Redis!Goto(c, [me[c] EXCEPT !.pc = "bfLen"])
      BY <2>2, <2>3
    <2>4. CASE Redis!Goto(c, [me[c] EXCEPT !.pc = "forceBack"])
      BY <2>2, <2>4
    <2> QED
      BY <2>1, <2>3, <2>4 DEF Redis!forcePush, Redis!forcePushBack
  <1>9. RedisTyped'
    BY <1>3, <1>7, <1>8, RedisTypes DEF RedisInv
  <1> QED
    BY <1>6, <1>9 DEF RedisInv, RedisSafe

(* DeleteKey takes the key out of the list ... *)
LEMMA RedisDeleteKey == ASSUME RedisInv, NEW c \in Callers, NEW k \in Keys, Redis!DeleteKey(c, k) PROVE RedisInv'
  <1>1. list' = list /\ lastIndex' = lastIndex /\ faults' = faults /\ rAccepted' = rAccepted /\ rDeleted' = rDeleted
    BY DEF Redis!DeleteKey, Redis!history
  <1>2. keys' \in Seq(Keys) /\ Len(keys') <= MaxKeys
    BY RedisDropsKey DEF Redis!DeleteKey, RedisInv
  <1>3. RedisRest'
    BY <1>1, <1>2 DEF RedisInv, RedisTyped, RedisRest
  <1>4. PICK i : i = Redis!Idle
    OBVIOUS
  <1>5. i \in RedisState /\ i.op = "none"
    BY <1>4, RedisIdle
  <1>6. PICK r : r = [i EXCEPT !.pc = "del", !.key = k]
    OBVIOUS
  <1>7. r \in RedisState /\ r.pc = "del" /\ r.op = "none" /\ r.key = k
    BY <1>5, <1>6 DEF RedisState
  <1>8. Equipped(r) /\ ~Moves(r) /\ ~Pushes(r)
    BY <1>7 DEF Equipped, Moves, Pushes
  <1>9. Redis!Goto(c, r)
    BY <1>4, <1>6 DEF Redis!DeleteKey
  <1> QED
    BY <1>1, <1>3, <1>7, <1>8, <1>9, RedisStays

(* ... and deletes its two lists. *)
LEMMA RedisDeleteKeyDel == ASSUME RedisInv, NEW c \in Callers, Redis!DeleteKeyDel(c) PROVE RedisInv'
  <1>1. keys' = keys /\ lastIndex' = lastIndex /\ rAccepted' = rAccepted /\ me[c].pc = "del" /\ Redis!Return(c)
    BY DEF Redis!DeleteKeyDel
  <1>2. CASE Redis!Fault("reject") /\ list' = list /\ rDeleted' = rDeleted
    <2>1. RedisRest'
      BY <1>1, <1>2, RedisFault DEF RedisInv, RedisTyped, RedisRest
    <2> QED
      BY <1>1, <1>2, <2>1, RedisReturns
  <1>3. CASE ~(Redis!Fault("reject") /\ list' = list /\ rDeleted' = rDeleted)
    <2>1. PICK p, w : p = Redis!Processing(me[c].key) /\ w = Redis!Waiting(me[c].key)
      OBVIOUS
    <2>2. p \in Redis!Lists /\ w \in Redis!Lists
      BY <1>1, <2>1, RedisLists DEF RedisInv, RedisTyped, Equipped
    <2>3. /\ list' = [list EXCEPT ![p] = << >>, ![w] = << >>] /\ faults' = faults
          /\ rDeleted' = rDeleted \cup Redis!ToSet(list[p]) \cup Redis!ToSet(list[w])
      BY <1>3, <2>1 DEF Redis!DeleteKeyDel
    <2>4. list[p] \in Seq(Data) /\ list[w] \in Seq(Data) /\ list \in [Redis!Lists -> Seq(Data)]
      BY <2>2 DEF RedisInv, RedisTyped
    <2>5. Redis!ToSet(list[p]) \subseteq Data /\ Redis!ToSet(list[w]) \subseteq Data
      BY <2>4 DEF Redis!ToSet
    <2>6. RedisRest'
      BY <1>1, <2>3, <2>5 DEF RedisInv, RedisTyped, RedisRest
    <2>7. list' \in [Redis!Lists -> Seq(Data)] /\ \A y \in Redis!Lists : list'[y] = list[y] \/ list'[y] = << >>
      BY <2>2, <2>3, <2>4, TwoEmptied, Zenon
    <2>8. PICK r : r = Redis!Idle
      OBVIOUS
    <2>9. r \in RedisState /\ Equipped(r) /\ ~Moves(r) /\ ~Pushes(r) /\ Redis!Goto(c, r)
      BY <1>1, <2>8, RedisIdle DEF Redis!Return, Moves, Pushes
    <2>10. RedisTyped'
      BY <2>6, <2>7, <2>9, RedisTypes DEF RedisInv
    <2>11. me'[c] = r /\ \A e \in Callers : e # c => me'[e] = me[e]
      BY <2>9, RedisGoto DEF RedisInv
    <2>12. ASSUME RedisApart PROVE RedisApart'
      <3>1. PICK G : G = list'
        OBVIOUS
      <3>2. Apart(G, Redis!Lists) /\ \A d : Holds(G, Redis!Lists, d) => Holds(list, Redis!Lists, d)
        BY <2>7, <2>12, <3>1, EmptyKeepsApart DEF RedisApart
      <3>3. \A e \in Callers : Moves(me'[e]) \/ Pushes(me'[e]) => e # c /\ me'[e] = me[e]
        BY <2>9, <2>11
      <3> QED
        BY <1>1, <2>12, <3>1, <3>2, <3>3 DEF RedisApart
    <2> QED
      BY <2>10, <2>12 DEF RedisInv, RedisSafe
  <1> QED
    BY <1>2, <1>3

(* A process ends. *)
LEMMA RedisCrash == ASSUME RedisInv, NEW c \in Callers, Redis!Crash(c) PROVE RedisInv'
  <1>1. list' = list /\ rAccepted' = rAccepted /\ RedisRest'
    BY RedisFault DEF Redis!Crash, Redis!redis, Redis!history, RedisInv, RedisTyped, RedisRest
  <1>2. PICK r : r = Redis!Dead
    OBVIOUS
  <1>3. r \in RedisState /\ Equipped(r) /\ ~Moves(r) /\ ~Pushes(r) /\ Redis!Goto(c, r)
    BY <1>2, RedisDead DEF Redis!Crash, Moves, Pushes
  <1> QED
    BY <1>1, <1>3, RedisStays

(* Every command, script and failure keeps the invariant. *)
LEMMA RedisNext == ASSUME RedisInv, [Redis!Next]_(Redis!vars) PROVE RedisInv'
  <1>1. ASSUME NEW c \in Callers, NEW d \in Data, Redis!Insert(c, d) PROVE RedisInv'
    BY <1>1, RedisInsert
  <1>2. ASSUME NEW c \in Callers, NEW k \in Keys, Redis!AddKey(c, k) \/ Redis!DeleteKey(c, k) PROVE RedisInv'
    BY <1>2, RedisAddKey, RedisDeleteKey
  <1>3. ASSUME NEW c \in Callers, NEW k \in Keys, NEW d \in Data,
               Redis!InsertByKey(c, k, d) \/ Redis!Delete(c, k, d) \/ Redis!AutoTransformProcessingData(c, k, d)
        PROVE  RedisInv'
    BY <1>3, RedisInsertByKey, RedisDelete, RedisAutoTransform
  <1>4. ASSUME NEW c \in Callers, NEW k \in Keys, NEW t \in Keys, NEW d \in Data,
               Redis!TransformProcessingData(c, k, t, d)
        PROVE  RedisInv'
    BY <1>4, RedisTransform
  <1>5. ASSUME NEW c \in Callers, \/ Redis!pushLLen(c) \/ Redis!pushLPush(c) \/ Redis!removeLRange(c)
                                  \/ Redis!removeScript(c) \/ Redis!backfillLLen(c) \/ Redis!backfillRPop(c)
                                  \/ Redis!backfillLPush(c) \/ Redis!backfillRPush(c) \/ Redis!forcePush(c)
                                  \/ Redis!forcePushBack(c) \/ Redis!DeleteKeyDel(c) \/ Redis!Crash(c)
        PROVE  RedisInv'
    BY <1>5, RedisPushLLen, RedisPushLPush, RedisRemoveLRange, RedisRemoveScript, RedisBackfillLLen,
       RedisBackfillRPop, RedisBackfillLPush, RedisBackfillRPush, RedisForces, RedisDeleteKeyDel, RedisCrash
  <1>6. CASE UNCHANGED Redis!vars
    BY <1>6 DEF Redis!vars, Redis!redis, Redis!history, RedisInv, RedisTyped, RedisApart, RedisRest, RedisSized,
                RedisSafe
  <1> QED
    BY <1>1, <1>2, <1>3, <1>4, <1>5, <1>6 DEF Redis!Next

(* A set without two elements. *)
LEMMA AtMostOne ==
    ASSUME NEW T, \A x, y \in T : x = y
    PROVE  Cardinality(T) \in {0, 1} /\ (T = {} => Cardinality(T) = 0)
  <1>1. CASE T = {}
    BY <1>1, FS_EmptySet
  <1>2. CASE T # {}
    <2>1. PICK x \in T : T = {x}
      BY <1>2
    <2> QED
      BY <2>1, FS_Singleton
  <1> QED
    BY <1>1, <1>2

(* Without transfers and lost replies a task is in one place at most. *)
LEMMA RedisImplies == ASSUME RedisInv, RedisSafe PROVE Redis!NoDuplicate
  <1>1. RedisApart /\ RedisTyped
    BY DEF RedisInv
  <1> SUFFICES ASSUME NEW d \in Data
               PROVE  Redis!Cardinality(UNION {{l} \X {i \in DOMAIN list[l] : list[l][i] = d} : l \in Redis!Lists})
                      + Redis!Cardinality({c \in Callers : Redis!Moving(c) /\ Redis!Carried(c) = d}) <= 1
    BY DEF Redis!NoDuplicate
  <1>2. PICK P : P = UNION {{l} \X {i \in DOMAIN list[l] : list[l][i] = d} : l \in Redis!Lists}
    OBVIOUS
  <1>3. PICK H : H = {c \in Callers : Redis!Moving(c) /\ Redis!Carried(c) = d}
    OBVIOUS
  <1>4. \A l \in Redis!Lists : DOMAIN list[l] = 1..Len(list[l])
    BY <1>1 DEF RedisTyped
  <1>5. ASSUME NEW x \in P
        PROVE  \E l \in Redis!Lists : \E i \in 1..Len(list[l]) : list[l][i] = d /\ x = <<l, i>>
    <2>1. PICK l \in Redis!Lists : x \in {l} \X {i \in DOMAIN list[l] : list[l][i] = d}
      BY <1>2, <1>5
    <2>2. PICK i \in DOMAIN list[l] : list[l][i] = d /\ x = <<l, i>>
      BY <2>1
    <2> QED
      BY <1>4, <2>2
  <1>6. ASSUME NEW x \in P, NEW y \in P PROVE x = y
    <2>1. PICK l \in Redis!Lists : \E i \in 1..Len(list[l]) : list[l][i] = d /\ x = <<l, i>>
      BY <1>5, Zenon
    <2>2. PICK k \in Redis!Lists : \E j \in 1..Len(list[k]) : list[k][j] = d /\ y = <<k, j>>
      BY <1>5, Zenon
    <2>3. PICK i \in 1..Len(list[l]) : list[l][i] = d /\ x = <<l, i>>
      BY <2>1
    <2>4. PICK j \in 1..Len(list[k]) : list[k][j] = d /\ y = <<k, j>>
      BY <2>2
    <2>5. l = k /\ i = j
      BY <1>1, <2>3, <2>4 DEF RedisApart, Apart
    <2> QED
      BY <2>3, <2>4, <2>5
  <1>7. ASSUME NEW c \in H PROVE c \in Callers /\ Moves(me[c]) /\ me[c].hand = d
    <2>1. Equipped(me[c]) /\ c \in Callers /\ Redis!Moving(c) /\ Redis!Carried(c) = d
      BY <1>1, <1>3, <1>7 DEF RedisTyped
    <2>2. me[c].pc \in {"bfPush", "bfBack"}
      BY <2>1 DEF Redis!Moving, Equipped, RedisSafe
    <2> QED
      BY <2>1, <2>2 DEF Redis!Carried, Moves
  <1>8. \A x, y \in H : x = y
    BY <1>1, <1>7 DEF RedisApart
  <1>9. P = {} \/ H = {}
    <2>1. ASSUME NEW x \in P, NEW c \in H PROVE FALSE
      <3>1. Holds(list, Redis!Lists, d)
        BY <1>5, <2>1 DEF Holds
      <3> QED
        BY <1>1, <1>7, <2>1, <3>1 DEF RedisApart
    <2> QED
      BY <2>1
  <1>10. Cardinality(P) \in {0, 1} /\ Cardinality(H) \in {0, 1} /\ (Cardinality(P) = 0 \/ Cardinality(H) = 0)
    BY <1>6, <1>8, <1>9, AtMostOne
  <1>11. Redis!Cardinality(P) = Cardinality(P) /\ Redis!Cardinality(H) = Cardinality(H)
    BY DEF Redis!Cardinality, Cardinality, Redis!IsFiniteSet, IsFiniteSet
  <1>12. Redis!Cardinality(P) + Redis!Cardinality(H) <= 1
    BY <1>10, <1>11
  <1> QED
    BY <1>2, <1>3, <1>12

(* redistask: without transfers and lost replies no interleaving, error or  *)
(* crash puts a task into two places, for any callers, keys, tasks and      *)
(* limits.                                                                  *)
THEOREM RedisKeepsOne == ASSUME RedisSized, RedisSafe PROVE Redis!Spec => []Redis!NoDuplicate
  <1>1. Redis!Init => RedisInv
    BY RedisStarts
  <1>2. RedisInv /\ [Redis!Next]_(Redis!vars) => RedisInv'
    BY RedisNext
  <1>3. RedisInv => Redis!NoDuplicate
    BY RedisImplies
  <1> QED
    BY <1>1, <1>2, <1>3, PTL DEF Redis!Spec
-----------------------------------------------------------------------------
(* queue/task/standalonetask. *)
Task == INSTANCE TaskQueue WITH Ops <- TaskOps, lock <- tLock, pc <- tPc

(* The bounds are numbers, and nobody is not a caller. *)
TaskSized ==
    /\ MaxMade \in Nat /\ MaxGlobal \in Nat /\ MaxProcessing \in Nat /\ MaxWaiting \in Nat
    /\ Task!NoCaller \notin Callers

(* The places a queue can have: the global one, and two for each key that   *)
(* was created.                                                             *)
GlobalSlot == <<0, "global">>
Slots == {GlobalSlot} \cup (Task!Made \X {"processing", "waiting"})
Store == [x \in Slots |-> IF x = GlobalSlot THEN globalQueue
                          ELSE IF x[2] = "processing" THEN processing[x[1]] ELSE waiting[x[1]]]

(* Queues of tasks, within their limits unless there are transfers. *)
TaskItems ==
    /\ globalQueue \in Seq(Data) /\ processing \in [Task!Made -> Seq(Data)] /\ waiting \in [Task!Made -> Seq(Data)]
    /\ Task!WithinLimits /\ accepted \subseteq Data /\ deleted \subseteq Data

(* A key in the rotation has a queue, and one turn. *)
TaskKeyed ==
    /\ made \in 0..MaxMade /\ taskQueues \in [Keys -> 0..made] /\ orderedKeys \in Seq(Keys)
    /\ lastAssignedIndex \in Int
    /\ \A i \in 1..Len(orderedKeys) : taskQueues[orderedKeys[i]] # 0
    /\ \A i, j \in 1..Len(orderedKeys) : orderedKeys[i] = orderedKeys[j] => i = j

(* The local variables of the callers. *)
TaskCalls ==
    /\ tLock \in Callers \cup {Task!NoCaller}
    /\ tPc \in [Callers -> {"idle", "room", "push", "pushKey", "remove", "removeWaiting", "popWaiting", "popGlobal",
                            "promote", "transfer", "auto"}]
    /\ data \in [Callers -> Data \cup {Task!NoData}] /\ queue \in [Callers -> 0..MaxMade]
    /\ key \in [Callers -> Keys \cup {Task!NoKey}] /\ to \in [Callers -> Keys \cup {Task!NoKey}]

(* A caller that inserts, and one that has a task in its hands. *)
Inserts(c) == tPc[c] \in {"room", "push", "pushKey"}
Carries(c) == tPc[c] \in {"promote", "transfer"}

(* A call has what its next step needs, and the lock where it must. *)
TaskReady(c) ==
    /\ Inserts(c) => tLock = c /\ queue[c] \in Task!Made /\ data[c] \in Data
    /\ tPc[c] \in {"remove", "removeWaiting", "popWaiting", "popGlobal", "promote"} => queue[c] \in Task!Made
    /\ tPc[c] \in {"remove", "removeWaiting", "promote", "transfer", "auto"} => data[c] \in Data
    /\ tPc[c] = "transfer" => tLock = c /\ to[c] \in Keys /\ taskQueues[to[c]] # 0
    /\ tPc[c] = "auto" => key[c] \in Keys /\ to[c] \in Keys /\ data[c] \in Data
    /\ tPc[c] \in {"auto", "transfer"} => TaskOps \cap {"Transform", "AutoTransform"} # {}

(* A task is in one queue or in one hand, and one that is about to be       *)
(* inserted is nowhere.                                                     *)
TaskApart ==
    /\ Apart(Store, Slots)
    /\ \A d : Holds(Store, Slots, d) => d \in accepted
    /\ \A c \in Callers : Carries(c) => data[c] \in accepted /\ ~Holds(Store, Slots, data[c])
    /\ \A c, e \in Callers : c # e /\ Carries(c) /\ Carries(e) => data[c] # data[e]
    /\ \A c \in Callers : Inserts(c) => data[c] \notin accepted

(* The inductive invariant of the queues of a process. *)
TaskInv ==
    /\ TaskSized /\ TaskItems /\ TaskKeyed /\ TaskCalls /\ TaskApart
    /\ \A c \in Callers : TaskReady(c)

(* The queues in their places. *)
LEMMA StoreIs ==
    ASSUME TaskItems
    PROVE  /\ GlobalSlot \in Slots /\ Store[GlobalSlot] = globalQueue
           /\ \A q \in Task!Made : /\ <<q, "processing">> \in Slots /\ <<q, "waiting">> \in Slots
                                   /\ Store[<<q, "processing">>] = processing[q]
                                   /\ Store[<<q, "waiting">>] = waiting[q]
           /\ \A x \in Slots : Store[x] \in Seq(Data)
  <1>1. ASSUME NEW q \in Task!Made, NEW w \in {"processing", "waiting"} PROVE <<q, w>> # GlobalSlot
    BY <1>1 DEF GlobalSlot
  <1>2. GlobalSlot \in Slots /\ Store[GlobalSlot] = globalQueue
    BY DEF Slots, Store
  <1>3. ASSUME NEW q \in Task!Made
        PROVE  /\ <<q, "processing">> \in Slots /\ <<q, "waiting">> \in Slots
               /\ Store[<<q, "processing">>] = processing[q] /\ Store[<<q, "waiting">>] = waiting[q]
    BY <1>1, <1>3 DEF Slots, Store
  <1>4. ASSUME NEW x \in Slots PROVE Store[x] \in Seq(Data)
    <2>1. CASE x = GlobalSlot
      BY <1>2, <2>1 DEF TaskItems
    <2>2. ASSUME NEW q \in Task!Made, NEW w \in {"processing", "waiting"}, x = <<q, w>> PROVE Store[x] \in Seq(Data)
      BY <1>3, <2>2 DEF TaskItems
    <2>3. x = GlobalSlot \/ \E q \in Task!Made, w \in {"processing", "waiting"} : x = <<q, w>>
      BY <1>4 DEF Slots
    <2> QED
      BY <2>1, <2>2, <2>3
  <1> QED
    BY <1>2, <1>3, <1>4

(* One queue changes: the global one. *)
LEMMA StoreGlobal ==
    ASSUME UNCHANGED <<processing, waiting>>
    PROVE  \A y \in Slots : Store'[y] = IF y = GlobalSlot THEN globalQueue' ELSE Store[y]
  BY DEF Store

(* ... a processing queue. *)
LEMMA StoreProcessing ==
    ASSUME TaskItems, NEW q \in Task!Made, NEW t, processing' = [processing EXCEPT ![q] = t],
           UNCHANGED <<globalQueue, waiting>>
    PROVE  \A y \in Slots : Store'[y] = IF y = <<q, "processing">> THEN t ELSE Store[y]
  <1>1. \A p \in Task!Made : processing'[p] = IF p = q THEN t ELSE processing[p]
    BY DEF TaskItems
  <1>2. ASSUME NEW y \in Slots PROVE Store'[y] = IF y = <<q, "processing">> THEN t ELSE Store[y]
    <2>1. CASE y = GlobalSlot
      BY <2>1 DEF Store, GlobalSlot
    <2>2. ASSUME NEW p \in Task!Made, NEW w \in {"processing", "waiting"}, y = <<p, w>>, y # GlobalSlot
          PROVE  Store'[y] = IF y = <<q, "processing">> THEN t ELSE Store[y]
      BY <1>1, <2>2 DEF Store
    <2>3. y = GlobalSlot \/ \E p \in Task!Made, w \in {"processing", "waiting"} : y = <<p, w>>
      BY <1>2 DEF Slots
    <2> QED
      BY <2>1, <2>2, <2>3
  <1> QED
    BY <1>2

(* ... a waiting queue. *)
LEMMA StoreWaiting ==
    ASSUME TaskItems, NEW q \in Task!Made, NEW t, waiting' = [waiting EXCEPT ![q] = t],
           UNCHANGED <<globalQueue, processing>>
    PROVE  \A y \in Slots : Store'[y] = IF y = <<q, "waiting">> THEN t ELSE Store[y]
  <1>1. \A p \in Task!Made : waiting'[p] = IF p = q THEN t ELSE waiting[p]
    BY DEF TaskItems
  <1>2. ASSUME NEW y \in Slots PROVE Store'[y] = IF y = <<q, "waiting">> THEN t ELSE Store[y]
    <2>1. CASE y = GlobalSlot
      BY <2>1 DEF Store, GlobalSlot
    <2>2. ASSUME NEW p \in Task!Made, NEW w \in {"processing", "waiting"}, y = <<p, w>>, y # GlobalSlot
          PROVE  Store'[y] = IF y = <<q, "waiting">> THEN t ELSE Store[y]
      BY <1>1, <2>2 DEF Store
    <2>3. y = GlobalSlot \/ \E p \in Task!Made, w \in {"processing", "waiting"} : y = <<p, w>>
      BY <1>2 DEF Slots
    <2> QED
      BY <2>1, <2>2, <2>3
  <1> QED
    BY <1>2

(* The others keep what is theirs, and their queues while one has the lock. *)
Undisturbed(c) ==
    /\ \A e \in Callers \ {c} : /\ tPc'[e] = tPc[e] /\ data'[e] = data[e] /\ queue'[e] = queue[e]
                                /\ key'[e] = key[e] /\ to'[e] = to[e] /\ (tLock = e => tLock' = e)
    /\ tLock # Task!NoCaller => \A k \in Keys : taskQueues[k] # 0 => taskQueues'[k] # 0

(* One caller goes on, the others stay as they are. *)
LEMMA TaskOthers ==
    ASSUME TaskInv, NEW c \in Callers, Undisturbed(c), TaskReady(c)' PROVE \A e \in Callers : TaskReady(e)'
  <1> SUFFICES ASSUME NEW e \in Callers, e # c PROVE TaskReady(e)'
    OBVIOUS
  <1>1. TaskReady(e)
    BY DEF TaskInv
  <1>2. tPc'[e] = tPc[e] /\ data'[e] = data[e] /\ queue'[e] = queue[e] /\ key'[e] = key[e] /\ to'[e] = to[e]
        /\ (tLock = e => tLock' = e)
        /\ (tLock = e /\ to[e] \in Keys /\ taskQueues[to[e]] # 0 => taskQueues'[to[e]] # 0)
    BY DEF Undisturbed, TaskInv, TaskSized
  <1> QED
    BY <1>1, <1>2 DEF TaskReady, Inserts

(* A step that changes no queue. *)
LEMMA TaskStays ==
    ASSUME TaskInv, NEW c \in Callers, Undisturbed(c), TaskItems', TaskKeyed', TaskCalls', TaskReady(c)',
           UNCHANGED <<globalQueue, processing, waiting, accepted>>,
           Carries(c)' => Carries(c) /\ data'[c] = data[c], Inserts(c)' => data'[c] \notin accepted
    PROVE  TaskInv'
  <1>1. \A e \in Callers : TaskReady(e)'
    BY TaskOthers
  <1>2. Store' = Store
    BY DEF Store
  <1>3. \A e \in Callers : Carries(e)' => Carries(e) /\ data'[e] = data[e]
    BY DEF Undisturbed, Carries
  <1>4. \A e \in Callers : Inserts(e)' => data'[e] \notin accepted
    BY DEF Undisturbed, Inserts, TaskInv, TaskApart
  <1>5. TaskApart'
    BY <1>2, <1>3, <1>4 DEF TaskInv, TaskApart
  <1> QED
    BY <1>1, <1>5 DEF TaskInv, TaskSized

(* A task leaves a queue, for good or into the caller's hands. *)
LEMMA TaskDrops ==
    ASSUME TaskInv, NEW c \in Callers, Undisturbed(c), TaskItems', TaskKeyed', TaskCalls', TaskReady(c)',
           UNCHANGED accepted, ~Inserts(c)', NEW x \in Slots, NEW t \in Seq(Data), NEW k \in 1..Len(Store[x]),
           Without(t, Store[x], k), \A y \in Slots : Store'[y] = IF y = x THEN t ELSE Store[y],
           Carries(c)' => data'[c] = Store[x][k]
    PROVE  TaskInv'
  <1>1. \A e \in Callers : TaskReady(e)'
    BY TaskOthers
  <1>2. PICK F, G, d : F = Store /\ G = Store' /\ d = Store[x][k]
    OBVIOUS
  <1>3. (\A y \in Slots : F[y] \in Seq(Data)) /\ Apart(F, Slots)
    BY <1>2, StoreIs DEF TaskInv, TaskApart
  <1>4. Apart(G, Slots) /\ ~Holds(G, Slots, d) /\ \A z : Holds(G, Slots, z) => Holds(F, Slots, z)
    BY <1>2, <1>3, DropKeepsApart
  <1>5. Holds(F, Slots, d)
    BY <1>2 DEF Holds
  <1>6. \A e \in Callers \ {c} : (Carries(e)' <=> Carries(e)) /\ (Inserts(e)' <=> Inserts(e)) /\ data'[e] = data[e]
    BY DEF Undisturbed, Carries, Inserts
  <1>7. \A e \in Callers : Carries(e)' => data'[e] \in accepted /\ ~Holds(G, Slots, data'[e])
    BY <1>2, <1>4, <1>5, <1>6 DEF TaskInv, TaskApart
  <1>8. \A e, f \in Callers : e # f /\ Carries(e)' /\ Carries(f)' => data'[e] # data'[f]
    BY <1>2, <1>5, <1>6 DEF TaskInv, TaskApart
  <1>9. \A e \in Callers : Inserts(e)' => data'[e] \notin accepted
    BY <1>6 DEF TaskInv, TaskApart
  <1>10. TaskApart'
    BY <1>2, <1>4, <1>7, <1>8, <1>9 DEF TaskInv, TaskApart
  <1> QED
    BY <1>1, <1>10 DEF TaskInv, TaskSized

(* A task enters a queue, out of the caller's hands or for the first time. *)
LEMMA TaskAdds ==
    ASSUME TaskInv, NEW c \in Callers, Undisturbed(c), TaskItems', TaskKeyed', TaskCalls', TaskReady(c)',
           ~Inserts(c)', ~Carries(c)', NEW x \in Slots, NEW d, NEW t \in Seq(Data), NEW k \in 1..Len(t), t[k] = d,
           Without(Store[x], t, k), \A y \in Slots : Store'[y] = IF y = x THEN t ELSE Store[y],
           \/ Carries(c) /\ data[c] = d /\ accepted' = accepted
           \/ d \notin accepted /\ accepted' = accepted \cup {d} /\ \A e \in Callers \ {c} : ~Inserts(e)
    PROVE  TaskInv'
  <1>1. \A e \in Callers : TaskReady(e)'
    BY TaskOthers
  <1>2. PICK F, G : F = Store /\ G = Store'
    OBVIOUS
  <1>3. (\A y \in Slots : F[y] \in Seq(Data)) /\ Apart(F, Slots) /\ ~Holds(F, Slots, t[k]) /\ d \in accepted'
        /\ accepted \subseteq accepted'
    BY <1>2, StoreIs DEF TaskInv, TaskApart
  <1>4. Apart(G, Slots) /\ \A z : Holds(G, Slots, z) => z = d \/ Holds(F, Slots, z)
    BY <1>2, <1>3, PushKeepsApart
  <1>5. \A e \in Callers \ {c} : (Carries(e)' <=> Carries(e)) /\ (Inserts(e)' <=> Inserts(e)) /\ data'[e] = data[e]
    BY DEF Undisturbed, Carries, Inserts
  <1>6. \A e \in Callers : Carries(e)' => e # c /\ Carries(e) /\ data'[e] = data[e] /\ data[e] # d
    BY <1>5 DEF TaskInv, TaskApart
  <1>7. \A e \in Callers : Inserts(e)' => e # c /\ data'[e] \notin accepted'
    <2>1. CASE accepted' = accepted
      BY <1>5, <2>1 DEF TaskInv, TaskApart
    <2>2. CASE \A e \in Callers \ {c} : ~Inserts(e)
      BY <1>5, <2>2
    <2> QED
      BY <2>1, <2>2
  <1>8. \A z : Holds(G, Slots, z) => z \in accepted'
    BY <1>2, <1>3, <1>4 DEF TaskInv, TaskApart
  <1>9. \A e \in Callers : Carries(e)' => data'[e] \in accepted' /\ ~Holds(G, Slots, data'[e])
    BY <1>2, <1>3, <1>4, <1>6 DEF TaskInv, TaskApart
  <1>10. \A e, f \in Callers : e # f /\ Carries(e)' /\ Carries(f)' => data'[e] # data'[f]
    BY <1>6 DEF TaskInv, TaskApart
  <1>11. TaskApart'
    BY <1>2, <1>4, <1>7, <1>8, <1>9, <1>10 DEF TaskApart
  <1> QED
    BY <1>1, <1>11 DEF TaskInv, TaskSized

(* Empty queues and idle callers satisfy it. *)
LEMMA TaskStarts == ASSUME TaskSized, Task!Init PROVE TaskInv
  <1>1. TaskCalls /\ \A c \in Callers : tPc[c] = "idle"
    BY DEF Task!Init, TaskCalls, TaskSized, Task!NoQueue, Task!NoCaller
  <1>2. \A c \in Callers : TaskReady(c) /\ ~Inserts(c) /\ ~Carries(c)
    BY <1>1 DEF TaskReady, Inserts, Carries
  <1>3. TaskItems
    <2>1. globalQueue \in Seq(Data) /\ processing \in [Task!Made -> Seq(Data)] /\ waiting \in [Task!Made -> Seq(Data)]
      BY DEF Task!Init
    <2>2. Len(globalQueue) = 0 /\ \A q \in Task!Made : Len(processing[q]) = 0 /\ Len(waiting[q]) = 0
      BY DEF Task!Init
    <2>3. Task!WithinLimits
      BY <2>2 DEF Task!WithinLimits, TaskSized
    <2> QED
      BY <2>1, <2>3 DEF TaskItems, Task!Init
  <1>4. TaskKeyed
    <2>1. orderedKeys \in Seq(Keys) /\ Len(orderedKeys) = 0
      BY DEF Task!Init
    <2> QED
      BY <2>1 DEF TaskKeyed, Task!Init, TaskSized, Task!NoQueue
  <1>5. \A x \in Slots : Len(Store[x]) = 0
    <2>1. \A x \in Slots : x = GlobalSlot \/ x[1] \in Task!Made
      BY DEF Slots
    <2> QED
      BY <2>1 DEF Store, Task!Init
  <1>6. TaskApart
    BY <1>2, <1>5 DEF TaskApart, Apart, Holds
  <1> QED
    BY <1>1, <1>2, <1>3, <1>4, <1>6 DEF TaskInv

(* Remove takes the first of the equal items out. *)
LEMMA TaskRemoves ==
    ASSUME NEW D, NEW s \in Seq(D), NEW d, Task!B!Contains(s, d)
    PROVE  Task!B!Remove(s, d) \in Seq(D) /\ \E k \in 1..Len(s) : s[k] = d /\ Without(Task!B!Remove(s, d), s, k)
  <1>1. PICK n \in Nat : n = Len(s)
    OBVIOUS
  <1>2. DOMAIN s = 1..n
    BY <1>1
  <1>3. PICK k \in 1..n : s[k] = d /\ \A j \in 1..(k - 1) : s[j] # d
    <2>1. PICK T : T = {i \in 1..n : s[i] = d}
      OBVIOUS
    <2>2. T \subseteq Nat /\ T # {}
      BY <1>2, <2>1 DEF Task!B!Contains
    <2>3. PICK x \in T : \A y \in T : x <= y
      BY <2>2, LeastOf
    <2> QED
      BY <2>1, <2>3
  <1>4. PICK i : i = CHOOSE x \in DOMAIN s : s[x] = d /\ \A j \in 1..(x - 1) : s[j] # d
    OBVIOUS
  <1>5. i \in 1..n /\ s[i] = d
    BY <1>2, <1>3, <1>4
  <1>6. Task!B!Peek(s, d) = i - 1
    BY <1>4 DEF Task!B!Peek
  <1>7. Task!B!Peek(s, d) + 1 = i
    BY <1>5, <1>6
  <1>8. Task!B!Remove(s, d) = SubSeq(s, 1, i - 1) \o SubSeq(s, i + 1, n)
    BY <1>1, <1>7 DEF Task!B!Remove, Task!B!S!RemoveAt
  <1>9. Task!B!Remove(s, d) \in Seq(D) /\ Without(Task!B!Remove(s, d), s, i)
    BY <1>1, <1>5, <1>8, RemoveAtDrops
  <1> QED
    BY <1>1, <1>5, <1>9

(* Push appends, unless the queue is full. *)
LEMMA TaskPushes ==
    ASSUME NEW s \in Seq(Data), NEW m \in Nat, NEW d \in Data, ~Task!B!Full(s, m), NEW t, t = Task!B!Push(s, m, d)
    PROVE  t \in Seq(Data) /\ Len(t) <= m /\ \E k \in 1..Len(t) : t[k] = d /\ Without(s, t, k)
  <1>1. t = Append(s, d) /\ Len(s) < m
    BY DEF Task!B!Push, Task!B!Full
  <1>2. t \in Seq(Data) /\ Len(t) = Len(s) + 1 /\ Without(s, t, Len(s) + 1) /\ t[Len(s) + 1] = d
    BY <1>1, AppendAdds
  <1>3. Len(s) + 1 \in 1..Len(t) /\ Len(t) <= m
    BY <1>1, <1>2
  <1> QED
    BY <1>2, <1>3

(* One of the queues changes, within its limit: a processing queue. *)
LEMMA ItemsProcessing ==
    ASSUME TaskInv, NEW q \in Task!Made, NEW t \in Seq(Data), processing' = [processing EXCEPT ![q] = t],
           UNCHANGED <<globalQueue, waiting>>, accepted' \subseteq Data, deleted' \subseteq Data,
           TaskOps \cap {"Transform", "AutoTransform"} = {} => Len(t) <= MaxProcessing
    PROVE  TaskItems'
  <1>1. processing' \in [Task!Made -> Seq(Data)]
        /\ \A p \in Task!Made : processing'[p] = IF p = q THEN t ELSE processing[p]
    BY DEF TaskInv, TaskItems
  <1> QED
    BY <1>1 DEF TaskInv, TaskItems, Task!WithinLimits

(* ... a waiting queue. *)
LEMMA ItemsWaiting ==
    ASSUME TaskInv, NEW q \in Task!Made, NEW t \in Seq(Data), waiting' = [waiting EXCEPT ![q] = t],
           UNCHANGED <<globalQueue, processing>>, accepted' \subseteq Data, deleted' \subseteq Data,
           Len(t) <= MaxWaiting
    PROVE  TaskItems'
  <1>1. waiting' \in [Task!Made -> Seq(Data)] /\ \A p \in Task!Made : waiting'[p] = IF p = q THEN t ELSE waiting[p]
    BY DEF TaskInv, TaskItems
  <1> QED
    BY <1>1 DEF TaskInv, TaskItems, Task!WithinLimits

(* ... the global queue. *)
LEMMA ItemsGlobal ==
    ASSUME TaskInv, globalQueue' \in Seq(Data), UNCHANGED <<processing, waiting>>, accepted' \subseteq Data,
           deleted' \subseteq Data, Len(globalQueue') <= MaxGlobal
    PROVE  TaskItems'
  BY DEF TaskInv, TaskItems, Task!WithinLimits

(* A key that is new gets a queue and a turn. *)
LEMMA TaskCreates ==
    ASSUME TaskInv, NEW k \in Keys, Task!getOrCreateTaskQueues(k), lastAssignedIndex' \in Int
    PROVE  /\ TaskKeyed' /\ taskQueues'[k] \in Task!Made /\ taskQueues'[k] # 0
           /\ \A l \in Keys : taskQueues[l] # 0 => taskQueues'[l] = taskQueues[l]
           /\ taskQueues'[k] = (IF taskQueues[k] = Task!NoQueue THEN made + 1 ELSE taskQueues[k])
  <1>1. CASE taskQueues[k] # Task!NoQueue
    BY <1>1 DEF TaskInv, TaskKeyed, TaskSized, Task!getOrCreateTaskQueues, Task!Made, Task!NoQueue
  <1>2. CASE taskQueues[k] = Task!NoQueue
    <2>1. /\ made < MaxMade /\ made' = made + 1 /\ taskQueues' = [taskQueues EXCEPT ![k] = made + 1]
          /\ orderedKeys' = Append(orderedKeys, k)
      BY <1>2 DEF Task!getOrCreateTaskQueues
    <2>2. made \in 0..MaxMade /\ MaxMade \in Nat /\ taskQueues \in [Keys -> 0..made] /\ orderedKeys \in Seq(Keys)
      BY DEF TaskInv, TaskKeyed, TaskSized
    <2>3. made' \in 0..MaxMade /\ made + 1 \in 1..MaxMade
      BY <2>1, <2>2
    <2>4. /\ taskQueues' \in [Keys -> 0..made']
          /\ \A l \in Keys : taskQueues'[l] = IF l = k THEN made + 1 ELSE taskQueues[l]
      BY <2>1, <2>2
    <2>5. PICK n \in Nat : n = Len(orderedKeys)
      BY <2>2
    <2>6. /\ orderedKeys' \in Seq(Keys) /\ Len(orderedKeys') = n + 1 /\ orderedKeys'[n + 1] = k
          /\ \A i \in 1..n : orderedKeys'[i] = orderedKeys[i] /\ orderedKeys[i] \in Keys
      BY <2>1, <2>2, <2>5
    <2>7. \A i \in 1..n : taskQueues[orderedKeys[i]] # 0 /\ orderedKeys[i] # k
      BY <1>2, <2>5 DEF TaskInv, TaskKeyed, Task!NoQueue
    <2>8. \A i \in 1..(n + 1) : i \in 1..n \/ i = n + 1
      BY <2>5
    <2>9. \A i \in 1..(n + 1) : taskQueues'[orderedKeys'[i]] # 0
      BY <2>3, <2>4, <2>6, <2>7, <2>8
    <2>10. \A i, j \in 1..(n + 1) : orderedKeys'[i] = orderedKeys'[j] => i = j
      <3>1. \A i, j \in 1..n : orderedKeys[i] = orderedKeys[j] => i = j
        BY <2>5 DEF TaskInv, TaskKeyed
      <3>2. ASSUME NEW i \in 1..(n + 1), NEW j \in 1..(n + 1), orderedKeys'[i] = orderedKeys'[j] PROVE i = j
        <4>1. CASE i \in 1..n /\ j \in 1..n
          BY <2>6, <3>1, <3>2, <4>1
        <4>2. CASE i = n + 1 /\ j \in 1..n
          BY <2>6, <2>7, <3>2, <4>2
        <4>3. CASE i \in 1..n /\ j = n + 1
          BY <2>6, <2>7, <3>2, <4>3
        <4> QED
          BY <2>8, <4>1, <4>2, <4>3
      <3> QED
        BY <3>2
    <2>11. TaskKeyed'
      BY <2>3, <2>4, <2>6, <2>9, <2>10 DEF TaskKeyed
    <2> QED
      BY <1>2, <2>3, <2>4, <2>11 DEF Task!Made, Task!NoQueue
  <1> QED
    BY <1>1, <1>2

(* A key that is assigned has a queue. *)
LEMMA TaskAssigns ==
    ASSUME TaskInv, NEW a \in Task!assignKey
    PROVE  a.key \in Keys /\ taskQueues[a.key] \in Task!Made /\ taskQueues[a.key] # 0 /\ a.index \in Int
  <1>1. made \in 0..MaxMade /\ MaxMade \in Nat /\ taskQueues \in [Keys -> 0..made] /\ orderedKeys \in Seq(Keys)
        /\ lastAssignedIndex \in Int
    BY DEF TaskInv, TaskKeyed, TaskSized
  <1>2. \A k \in Keys : taskQueues[k] # 0 => taskQueues[k] \in Task!Made
    BY <1>1 DEF Task!Made
  <1>3. a.key \in Keys /\ taskQueues[a.key] # 0 /\ a.index \in Int
    <2>1. CASE Strategy = "RoundRobin"
      <3>1. PICK n \in Nat : n = Len(orderedKeys)
        BY <1>1
      <3>2. PICK i \in 0..(n - 1) : a = [key |-> orderedKeys[((lastAssignedIndex + i + 1) % n) + 1],
                                         index |-> (lastAssignedIndex + i + 1) % n]
        BY <2>1, <3>1 DEF Task!assignKey, Task!RoundRobinTask
      <3>3. n > 0 /\ lastAssignedIndex + i + 1 \in Int
        BY <1>1
      <3>4. PICK j : j = (lastAssignedIndex + i + 1) % n
        OBVIOUS
      <3>5. j \in 0..(n - 1)
        BY <3>3, <3>4
      <3>6. j + 1 \in 1..n
        BY <3>5
      <3>7. orderedKeys[j + 1] \in Keys /\ taskQueues[orderedKeys[j + 1]] # 0
        BY <1>1, <3>1, <3>6 DEF TaskInv, TaskKeyed
      <3> QED
        BY <3>2, <3>4, <3>5, <3>7
    <2>2. CASE Strategy # "RoundRobin"
      BY <1>1, <2>2 DEF Task!assignKey, Task!LeastTask, Task!Present, Task!NoQueue
    <2> QED
      BY <2>1, <2>2
  <1> QED
    BY <1>2, <1>3

(* A caller returns. *)
LEMMA TaskReturns ==
    ASSUME TaskCalls, TaskSized, NEW c \in Callers, Task!Return(c), tLock' \in Callers \cup {Task!NoCaller}
    PROVE  /\ TaskCalls' /\ tPc'[c] = "idle" /\ TaskReady(c)' /\ ~Inserts(c)' /\ ~Carries(c)'
           /\ \A e \in Callers \ {c} : /\ tPc'[e] = tPc[e] /\ data'[e] = data[e] /\ queue'[e] = queue[e]
                                       /\ key'[e] = key[e] /\ to'[e] = to[e]
  <1>1. /\ tPc' = [tPc EXCEPT ![c] = "idle"] /\ data' = [data EXCEPT ![c] = Task!NoData]
        /\ queue' = [queue EXCEPT ![c] = 0] /\ key' = [key EXCEPT ![c] = Task!NoKey]
        /\ to' = [to EXCEPT ![c] = Task!NoKey]
    BY DEF Task!Return, Task!NoQueue
  <1>2. TaskCalls' /\ tPc'[c] = "idle"
    BY <1>1 DEF TaskCalls, TaskSized
  <1>3. \A e \in Callers \ {c} : /\ tPc'[e] = tPc[e] /\ data'[e] = data[e] /\ queue'[e] = queue[e]
                                 /\ key'[e] = key[e] /\ to'[e] = to[e]
    BY <1>1 DEF TaskCalls
  <1> QED
    BY <1>2, <1>3 DEF TaskReady, Inserts, Carries

(* While the lock is free or the caller's, nobody else inserts. *)
LEMMA TaskAlone ==
    ASSUME TaskInv, NEW c \in Callers, tLock \in {c, Task!NoCaller}
    PROVE  \A e \in Callers \ {c} : ~Inserts(e) /\ tLock # e
  BY DEF TaskInv, TaskReady, TaskSized

(* AddKey. *)
LEMMA TaskAddKey == ASSUME TaskInv, NEW c \in Callers, NEW k \in Keys, Task!AddKey(c, k) PROVE TaskInv'
  <1>1. /\ UNCHANGED <<globalQueue, processing, waiting, accepted, deleted, lastAssignedIndex, tLock, tPc, data, queue>>
        /\ UNCHANGED <<key, to>> /\ Task!getOrCreateTaskQueues(k)
    BY DEF Task!AddKey, Task!items, Task!history, Task!local
  <1>2. /\ TaskKeyed' /\ \A l \in Keys : taskQueues[l] # 0 => taskQueues'[l] = taskQueues[l]
    BY <1>1, TaskCreates DEF TaskInv, TaskKeyed
  <1>3. Undisturbed(c) /\ TaskItems' /\ TaskCalls' /\ TaskReady(c)'
    BY <1>1, <1>2 DEF TaskInv, Undisturbed, TaskItems, TaskCalls, TaskReady, Inserts, Task!WithinLimits
  <1> QED
    BY <1>1, <1>2, <1>3, TaskStays DEF Carries, Inserts, TaskInv, TaskApart

(* A push to the global queue: it is full, or the task is accepted. *)
LEMMA TaskPushGlobal ==
    ASSUME TaskInv, NEW c \in Callers, NEW d \in Data, d \notin accepted, Task!pushToGlobal(d), Undisturbed(c),
           UNCHANGED <<processing, waiting, deleted>>, TaskKeyed', TaskCalls', TaskReady(c)', ~Inserts(c)',
           ~Carries(c)', tLock \in {c, Task!NoCaller}
    PROVE  TaskInv'
  <1>1. CASE UNCHANGED <<globalQueue, accepted>>
    <2>1. TaskItems'
      BY <1>1 DEF TaskInv, TaskItems, Task!WithinLimits
    <2> QED
      BY <1>1, <2>1, TaskStays
  <1>2. CASE ~Task!B!Full(globalQueue, MaxGlobal) /\ globalQueue' = Task!B!Push(globalQueue, MaxGlobal, d)
             /\ accepted' = accepted \cup {d}
    <2>1. PICK t : t = globalQueue'
      OBVIOUS
    <2>2. globalQueue \in Seq(Data) /\ MaxGlobal \in Nat /\ Store[GlobalSlot] = globalQueue /\ GlobalSlot \in Slots
      BY StoreIs DEF TaskInv, TaskItems, TaskSized
    <2>3. t \in Seq(Data) /\ Len(t) <= MaxGlobal /\ \E k \in 1..Len(t) : t[k] = d /\ Without(globalQueue, t, k)
      BY <1>2, <2>1, <2>2, TaskPushes
    <2>4. TaskItems'
      BY <1>2, <2>1, <2>3, ItemsGlobal DEF TaskInv, TaskItems
    <2>5. \A y \in Slots : Store'[y] = IF y = GlobalSlot THEN t ELSE Store[y]
      BY <2>1, StoreGlobal
    <2>6. \A e \in Callers \ {c} : ~Inserts(e)
      BY TaskAlone
    <2>7. PICK k \in 1..Len(t) : t[k] = d /\ Without(Store[GlobalSlot], t, k)
      BY <2>2, <2>3
    <2> QED
      BY <1>2, <2>2, <2>3, <2>4, <2>5, <2>6, <2>7, TaskAdds
  <1> QED
    BY <1>1, <1>2 DEF Task!pushToGlobal

(* A caller gets the lock and a task to insert. *)
LEMMA TaskGrabs ==
    ASSUME TaskInv, NEW c \in Callers, NEW p \in {"room", "pushKey"}, NEW k \in Keys, NEW d \in Data,
           d \notin accepted, NEW q \in Task!Made, tLock = Task!NoCaller, tLock' = c, tPc' = [tPc EXCEPT ![c] = p],
           key' = [key EXCEPT ![c] = k], data' = [data EXCEPT ![c] = d], queue' = [queue EXCEPT ![c] = q],
           UNCHANGED <<globalQueue, processing, waiting, accepted, deleted, to>>, TaskKeyed',
           \A l \in Keys : taskQueues[l] # 0 => taskQueues'[l] # 0
    PROVE  TaskInv'
  <1>1. q \in 0..MaxMade
    BY DEF Task!Made, TaskInv, TaskSized
  <1>2. TaskCalls' /\ tPc'[c] = p /\ data'[c] = d /\ queue'[c] = q
    BY <1>1 DEF TaskInv, TaskCalls
  <1>3. Undisturbed(c)
    BY DEF TaskInv, TaskCalls, TaskSized, Undisturbed
  <1>4. TaskItems'
    BY DEF TaskInv, TaskItems, Task!WithinLimits
  <1>5. TaskReady(c)' /\ ~Carries(c)'
    BY <1>2 DEF TaskReady, Inserts, Carries
  <1> QED
    BY <1>2, <1>3, <1>4, <1>5, TaskStays

(* Insert: without a key the task goes to the global queue. *)
LEMMA TaskInsert == ASSUME TaskInv, NEW c \in Callers, NEW d \in Data, Task!Insert(c, d) PROVE TaskInv'
  <1>1. /\ d \notin accepted /\ tLock = Task!NoCaller /\ tPc[c] = "idle"
        /\ UNCHANGED <<processing, waiting, taskQueues, made, orderedKeys, deleted>>
    BY DEF Task!Insert, Task!Locked, Task!Idle, Task!Fresh
  <1>2. CASE Task!pushToGlobal(d) /\ UNCHANGED <<tLock, tPc, key, to, data, queue, lastAssignedIndex>>
    <2>1. TaskKeyed' /\ TaskCalls' /\ TaskReady(c)' /\ ~Inserts(c)' /\ ~Carries(c)' /\ Undisturbed(c)
      BY <1>1, <1>2 DEF TaskInv, TaskKeyed, TaskCalls, TaskReady, Inserts, Carries, Undisturbed
    <2> QED
      BY <1>1, <1>2, <2>1, TaskPushGlobal
  <1>3. ASSUME NEW a \in Task!assignKey, lastAssignedIndex' = a.index, tLock' = c, tPc' = [tPc EXCEPT ![c] = "room"],
               key' = [key EXCEPT ![c] = a.key], data' = [data EXCEPT ![c] = d],
               queue' = [queue EXCEPT ![c] = taskQueues[a.key]], UNCHANGED <<globalQueue, accepted, to>>
        PROVE  TaskInv'
    <2>1. a.key \in Keys /\ taskQueues[a.key] \in Task!Made /\ a.index \in Int
      BY TaskAssigns
    <2>2. TaskKeyed' /\ \A l \in Keys : taskQueues[l] # 0 => taskQueues'[l] # 0
      BY <1>1, <1>3, <2>1 DEF TaskInv, TaskKeyed
    <2> QED
      BY <1>1, <1>3, <2>1, <2>2, TaskGrabs
  <1> QED
    BY <1>2, <1>3 DEF Task!Insert, Task!local

(* The key has room, or the task goes to the global queue. *)
LEMMA TaskInsertRoom == ASSUME TaskInv, NEW c \in Callers, Task!InsertRoom(c) PROVE TaskInv'
  <1>1. /\ tPc[c] = "room"
        /\ UNCHANGED <<processing, waiting, taskQueues, made, orderedKeys, lastAssignedIndex, deleted>>
    BY DEF Task!InsertRoom, Task!keyed
  <1>2. tLock = c /\ queue[c] \in Task!Made /\ data[c] \in Data /\ data[c] \notin accepted /\ TaskKeyed'
    BY <1>1 DEF TaskInv, TaskReady, TaskApart, Inserts, TaskKeyed
  <1>3. CASE Task!pushToGlobal(data[c]) /\ Task!Return(c) /\ tLock' = Task!NoCaller
    <2>1. TaskCalls' /\ TaskReady(c)' /\ ~Inserts(c)' /\ ~Carries(c)' /\ Undisturbed(c)
      BY <1>1, <1>2, <1>3, TaskReturns DEF TaskInv, Undisturbed
    <2> QED
      BY <1>1, <1>2, <1>3, <2>1, TaskPushGlobal
  <1>4. CASE tPc' = [tPc EXCEPT ![c] = "push"] /\ UNCHANGED <<globalQueue, accepted, tLock, key, to, data, queue>>
    <2>1. TaskCalls' /\ tPc'[c] = "push" /\ Undisturbed(c)
      BY <1>1, <1>4 DEF TaskInv, TaskCalls, Undisturbed
    <2>2. TaskReady(c)' /\ ~Carries(c)' /\ data'[c] \notin accepted
      BY <1>2, <1>4, <2>1 DEF TaskReady, Inserts, Carries
    <2>3. TaskItems'
      BY <1>1, <1>4 DEF TaskInv, TaskItems, Task!WithinLimits
    <2> QED
      BY <1>1, <1>2, <1>4, <2>1, <2>2, <2>3, TaskStays
  <1> QED
    BY <1>3, <1>4 DEF Task!InsertRoom, Task!local

(* The push of an insertion, which finds the queue full or not. *)
LEMMA TaskInsertPush ==
    ASSUME TaskInv, NEW c \in Callers, Task!InsertPush(c) \/ Task!InsertByKeyPush(c) PROVE TaskInv'
  <1>1. PICK q, d, t : q = queue[c] /\ d = data[c] /\ t = Task!B!Push(processing[q], MaxProcessing, d)
    OBVIOUS
  <1>2. /\ Inserts(c) /\ UNCHANGED <<globalQueue, waiting, taskQueues, made, orderedKeys, lastAssignedIndex, deleted>>
        /\ processing' = [processing EXCEPT ![q] = t] /\ Task!Return(c) /\ tLock' = Task!NoCaller
        /\ accepted' = (IF Task!B!Full(processing[q], MaxProcessing) THEN accepted ELSE accepted \cup {d})
    BY <1>1 DEF Task!InsertPush, Task!InsertByKeyPush, Task!keyed, Inserts, Task!pushToProcess
  <1>3. tLock = c /\ q \in Task!Made /\ d \in Data /\ d \notin accepted /\ TaskKeyed'
    BY <1>1, <1>2 DEF TaskInv, TaskReady, TaskApart, TaskKeyed
  <1>4. TaskCalls' /\ TaskReady(c)' /\ ~Inserts(c)' /\ ~Carries(c)' /\ Undisturbed(c)
    BY <1>2, <1>3, TaskReturns DEF TaskInv, Undisturbed
  <1>5. processing[q] \in Seq(Data) /\ MaxProcessing \in Nat
    BY <1>3 DEF TaskInv, TaskItems, TaskSized
  <1>6. CASE Task!B!Full(processing[q], MaxProcessing)
    <2>1. processing' = processing /\ accepted' = accepted
      BY <1>1, <1>2, <1>3, <1>6 DEF Task!B!Push, TaskInv, TaskItems
    <2>2. TaskItems'
      BY <1>2, <2>1 DEF TaskInv, TaskItems, Task!WithinLimits
    <2> QED
      BY <1>2, <1>3, <1>4, <2>1, <2>2, TaskStays
  <1>7. CASE ~Task!B!Full(processing[q], MaxProcessing)
    <2>1. t \in Seq(Data) /\ Len(t) <= MaxProcessing /\ \E k \in 1..Len(t) : t[k] = d /\ Without(processing[q], t, k)
      <3>1. PICK s \in Seq(Data) : s = processing[q]
        BY <1>5
      <3>2. ~Task!B!Full(s, MaxProcessing) /\ t = Task!B!Push(s, MaxProcessing, d)
        BY <1>1, <1>7, <3>1
      <3>3. t \in Seq(Data) /\ Len(t) <= MaxProcessing /\ \E k \in 1..Len(t) : t[k] = d /\ Without(s, t, k)
        BY <1>3, <1>5, <3>2, TaskPushes
      <3> QED
        BY <3>1, <3>3
    <2>2. PICK x : x = <<q, "processing">>
      OBVIOUS
    <2>3. x \in Slots /\ Store[x] = processing[q]
      BY <1>3, <2>2, StoreIs DEF TaskInv
    <2>4. PICK k \in 1..Len(t) : t[k] = d /\ Without(Store[x], t, k)
      BY <2>1, <2>3
    <2>5. TaskItems'
      BY <1>2, <1>3, <1>7, <2>1, ItemsProcessing DEF TaskInv, TaskItems
    <2>6. \A y \in Slots : Store'[y] = IF y = x THEN t ELSE Store[y]
      BY <1>2, <1>3, <2>2, StoreProcessing DEF TaskInv
    <2>7. \A e \in Callers \ {c} : ~Inserts(e)
      BY <1>3, TaskAlone
    <2>8. accepted' = accepted \cup {d}
      BY <1>2, <1>7
    <2> QED
      BY <1>3, <1>4, <2>1, <2>3, <2>4, <2>5, <2>6, <2>7, <2>8, TaskAdds
  <1> QED
    BY <1>6, <1>7

(* InsertByKey: the key has room, or the task waits, or is refused. *)
LEMMA TaskInsertByKey ==
    ASSUME TaskInv, NEW c \in Callers, NEW k \in Keys, NEW d \in Data, Task!InsertByKey(c, k, d) PROVE TaskInv'
  <1>1. PICK q : q = IF taskQueues[k] = Task!NoQueue THEN made + 1 ELSE taskQueues[k]
    OBVIOUS
  <1>2. /\ d \notin accepted /\ tLock = Task!NoCaller /\ tPc[c] = "idle" /\ Task!getOrCreateTaskQueues(k)
        /\ UNCHANGED <<globalQueue, processing, lastAssignedIndex, deleted>>
    BY DEF Task!InsertByKey, Task!Locked, Task!Idle, Task!Fresh
  <1>3. TaskKeyed' /\ q \in Task!Made /\ \A l \in Keys : taskQueues[l] # 0 => taskQueues'[l] # 0
    BY <1>1, <1>2, TaskCreates DEF TaskInv, TaskKeyed
  <1>4. CASE /\ tLock' = c /\ tPc' = [tPc EXCEPT ![c] = "pushKey"] /\ key' = [key EXCEPT ![c] = k]
             /\ data' = [data EXCEPT ![c] = d] /\ queue' = [queue EXCEPT ![c] = q]
             /\ UNCHANGED <<waiting, accepted, to>>
    BY <1>2, <1>3, <1>4, TaskGrabs
  <1>5. CASE /\ waiting' = [waiting EXCEPT ![q] = Task!B!Push(waiting[q], MaxWaiting, d)]
             /\ accepted' = (IF Task!B!Full(waiting[q], MaxWaiting) THEN accepted ELSE accepted \cup {d})
             /\ UNCHANGED <<tLock, tPc, key, to, data, queue>>
    <2>1. TaskCalls' /\ TaskReady(c)' /\ ~Inserts(c)' /\ ~Carries(c)' /\ Undisturbed(c)
      BY <1>2, <1>3, <1>5 DEF TaskInv, TaskCalls, TaskReady, Inserts, Carries, Undisturbed
    <2>2. waiting[q] \in Seq(Data) /\ MaxWaiting \in Nat
      BY <1>3 DEF TaskInv, TaskItems, TaskSized
    <2>3. CASE Task!B!Full(waiting[q], MaxWaiting)
      <3>1. waiting' = waiting /\ accepted' = accepted
        BY <1>3, <1>5, <2>3 DEF Task!B!Push, TaskInv, TaskItems
      <3>2. TaskItems'
        BY <1>2, <3>1 DEF TaskInv, TaskItems, Task!WithinLimits
      <3> QED
        BY <1>2, <1>3, <2>1, <3>1, <3>2, TaskStays
    <2>4. CASE ~Task!B!Full(waiting[q], MaxWaiting)
      <3>1. PICK t : t = Task!B!Push(waiting[q], MaxWaiting, d)
        OBVIOUS
      <3>2. t \in Seq(Data) /\ Len(t) <= MaxWaiting /\ \E i \in 1..Len(t) : t[i] = d /\ Without(waiting[q], t, i)
        BY <2>2, <2>4, <3>1, TaskPushes
      <3>3. PICK x : x = <<q, "waiting">>
        OBVIOUS
      <3>4. x \in Slots /\ Store[x] = waiting[q]
        BY <1>3, <3>3, StoreIs DEF TaskInv
      <3>5. PICK i \in 1..Len(t) : t[i] = d /\ Without(Store[x], t, i)
        BY <3>2, <3>4
      <3>6. waiting' = [waiting EXCEPT ![q] = t] /\ accepted' = accepted \cup {d}
        BY <1>5, <2>4, <3>1
      <3>7. TaskItems'
        BY <1>2, <1>3, <3>2, <3>6, ItemsWaiting DEF TaskInv, TaskItems
      <3>8. \A y \in Slots : Store'[y] = IF y = x THEN t ELSE Store[y]
        BY <1>2, <1>3, <3>3, <3>6, StoreWaiting DEF TaskInv
      <3>9. \A e \in Callers \ {c} : ~Inserts(e)
        BY <1>2, TaskAlone
      <3> QED
        BY <1>2, <1>3, <2>1, <3>2, <3>4, <3>5, <3>6, <3>7, <3>8, <3>9, TaskAdds
    <2> QED
      BY <2>3, <2>4
  <1> QED
    BY <1>1, <1>4, <1>5 DEF Task!InsertByKey, Task!local

(* Delete looks up the queue of the key. *)
LEMMA TaskDelete ==
    ASSUME TaskInv, NEW c \in Callers, NEW k \in Keys, NEW d \in Data, Task!Delete(c, k, d) PROVE TaskInv'
  <1>1. /\ taskQueues[k] # 0 /\ tPc' = [tPc EXCEPT ![c] = "remove"] /\ key' = [key EXCEPT ![c] = k]
        /\ data' = [data EXCEPT ![c] = d] /\ queue' = [queue EXCEPT ![c] = taskQueues[k]]
        /\ UNCHANGED <<globalQueue, processing, waiting, accepted, deleted, taskQueues, made, orderedKeys>>
        /\ UNCHANGED <<lastAssignedIndex, tLock, to>>
    BY DEF Task!Delete, Task!items, Task!keyed, Task!history, Task!NoQueue
  <1>2. taskQueues[k] \in Task!Made /\ taskQueues[k] \in 0..MaxMade
    BY <1>1 DEF TaskInv, TaskKeyed, TaskSized, Task!Made
  <1>3. TaskCalls' /\ tPc'[c] = "remove" /\ data'[c] = d /\ queue'[c] = taskQueues[k] /\ Undisturbed(c)
    BY <1>1, <1>2 DEF TaskInv, TaskCalls, Undisturbed
  <1>4. TaskReady(c)' /\ ~Inserts(c)' /\ ~Carries(c)'
    BY <1>2, <1>3 DEF TaskReady, Inserts, Carries
  <1>5. TaskItems' /\ TaskKeyed'
    BY <1>1 DEF TaskInv, TaskItems, TaskKeyed, Task!WithinLimits
  <1> QED
    BY <1>1, <1>3, <1>4, <1>5, TaskStays

(* A task is taken out of a processing queue, and the caller goes on. *)
LEMMA TaskTakesOut ==
    ASSUME TaskInv, NEW c \in Callers, NEW q \in Task!Made, NEW d \in Data, Task!B!Contains(processing[q], d),
           processing' = [processing EXCEPT ![q] = Task!B!Remove(processing[q], d)],
           UNCHANGED <<globalQueue, waiting, accepted>>, deleted' \subseteq Data, Undisturbed(c), TaskKeyed',
           TaskCalls', TaskReady(c)', ~Inserts(c)', Carries(c)' => data'[c] = d
    PROVE  TaskInv'
  <1>1. PICK s \in Seq(Data) : s = processing[q]
    BY DEF TaskInv, TaskItems
  <1>2. PICK t : t = Task!B!Remove(s, d)
    OBVIOUS
  <1>3. Task!B!Contains(s, d)
    BY <1>1
  <1>4. t \in Seq(Data) /\ \E k \in 1..Len(s) : s[k] = d /\ Without(t, s, k)
    BY <1>2, <1>3, TaskRemoves
  <1>5. PICK x : x = <<q, "processing">>
    OBVIOUS
  <1>6. x \in Slots /\ Store[x] = s
    BY <1>1, <1>5, StoreIs DEF TaskInv
  <1>7. PICK k \in 1..Len(Store[x]) : Store[x][k] = d /\ Without(t, Store[x], k)
    BY <1>4, <1>6
  <1>8. Len(t) <= Len(s)
    BY <1>4 DEF Without
  <1>9. TaskItems'
    <2>1. TaskOps \cap {"Transform", "AutoTransform"} = {} => Len(t) <= MaxProcessing
      BY <1>1, <1>4, <1>8 DEF TaskInv, TaskItems, Task!WithinLimits, TaskSized
    <2> QED
      BY <1>1, <1>2, <1>4, <2>1, ItemsProcessing DEF TaskInv, TaskItems
  <1>10. \A y \in Slots : Store'[y] = IF y = x THEN t ELSE Store[y]
    BY <1>1, <1>2, <1>5, StoreProcessing DEF TaskInv
  <1> QED
    BY <1>4, <1>6, <1>7, <1>9, <1>10, TaskDrops

(* The task is removed from the processing queue, if it is there. *)
LEMMA TaskDeleteRemove == ASSUME TaskInv, NEW c \in Callers, Task!DeleteRemove(c) PROVE TaskInv'
  <1>1. /\ tPc[c] = "remove"
        /\ UNCHANGED <<globalQueue, waiting, taskQueues, made, orderedKeys, lastAssignedIndex, tLock, key, to, queue>>
        /\ UNCHANGED accepted
    BY DEF Task!DeleteRemove, Task!keyed
  <1>2. PICK q, d : q = queue[c] /\ d = data[c]
    OBVIOUS
  <1>3. q \in Task!Made /\ d \in Data /\ TaskKeyed'
    BY <1>1, <1>2 DEF TaskInv, TaskReady, TaskKeyed
  <1>4. CASE /\ Task!B!Contains(processing[q], d)
             /\ processing' = [processing EXCEPT ![q] = Task!B!Remove(processing[q], d)]
             /\ deleted' = deleted \cup {d} /\ data' = [data EXCEPT ![c] = Task!NoData]
             /\ tPc' = [tPc EXCEPT ![c] = "popWaiting"]
    <2>1. TaskCalls' /\ tPc'[c] = "popWaiting" /\ queue'[c] = q /\ Undisturbed(c)
      BY <1>1, <1>2, <1>4 DEF TaskInv, TaskCalls, Undisturbed
    <2>2. TaskReady(c)' /\ ~Inserts(c)' /\ ~Carries(c)'
      BY <1>3, <2>1 DEF TaskReady, Inserts, Carries
    <2>3. deleted' \subseteq Data
      BY <1>3, <1>4 DEF TaskInv, TaskItems
    <2> QED
      BY <1>1, <1>3, <1>4, <2>1, <2>2, <2>3, TaskTakesOut
  <1>5. CASE tPc' = [tPc EXCEPT ![c] = "removeWaiting"] /\ UNCHANGED <<processing, deleted, data>>
    <2>1. TaskCalls' /\ tPc'[c] = "removeWaiting" /\ queue'[c] = q /\ data'[c] = d /\ Undisturbed(c)
      BY <1>1, <1>2, <1>5 DEF TaskInv, TaskCalls, Undisturbed
    <2>2. TaskReady(c)' /\ ~Inserts(c)' /\ ~Carries(c)'
      BY <1>3, <2>1 DEF TaskReady, Inserts, Carries
    <2>3. TaskItems'
      BY <1>1, <1>5 DEF TaskInv, TaskItems, Task!WithinLimits
    <2> QED
      BY <1>1, <1>3, <1>5, <2>1, <2>2, <2>3, TaskStays
  <1> QED
    BY <1>2, <1>4, <1>5 DEF Task!DeleteRemove

(* A task leaves a waiting queue, and the caller goes on. *)
LEMMA TaskLeavesWaiting ==
    ASSUME TaskInv, NEW c \in Callers, NEW q \in Task!Made, NEW t \in Seq(Data), NEW k \in 1..Len(waiting[q]),
           Without(t, waiting[q], k), waiting' = [waiting EXCEPT ![q] = t],
           UNCHANGED <<globalQueue, processing, accepted>>, deleted' \subseteq Data, Undisturbed(c), TaskKeyed',
           TaskCalls', TaskReady(c)', ~Inserts(c)', Carries(c)' => data'[c] = waiting[q][k]
    PROVE  TaskInv'
  <1>1. PICK x : x = <<q, "waiting">>
    OBVIOUS
  <1>2. x \in Slots /\ Store[x] = waiting[q] /\ waiting[q] \in Seq(Data)
    BY <1>1, StoreIs DEF TaskInv, TaskItems
  <1>3. Len(t) <= MaxWaiting
    BY <1>2 DEF TaskInv, TaskItems, Task!WithinLimits, TaskSized, Without
  <1>4. TaskItems'
    BY <1>3, ItemsWaiting DEF TaskInv, TaskItems
  <1>5. \A y \in Slots : Store'[y] = IF y = x THEN t ELSE Store[y]
    BY <1>1, StoreWaiting DEF TaskInv
  <1>6. k \in 1..Len(Store[x]) /\ Without(t, Store[x], k) /\ (Carries(c)' => data'[c] = Store[x][k])
    BY <1>2
  <1> QED
    BY <1>2, <1>4, <1>5, <1>6, TaskDrops

(* ... or from the waiting queue. *)
LEMMA TaskDeleteWaiting == ASSUME TaskInv, NEW c \in Callers, Task!DeleteWaiting(c) PROVE TaskInv'
  <1>1. /\ tPc[c] = "removeWaiting" /\ Task!Return(c)
        /\ UNCHANGED <<globalQueue, processing, taskQueues, made, orderedKeys, lastAssignedIndex, tLock, accepted>>
    BY DEF Task!DeleteWaiting, Task!keyed
  <1>2. PICK q, d : q = queue[c] /\ d = data[c]
    OBVIOUS
  <1>3. q \in Task!Made /\ d \in Data /\ TaskKeyed'
    BY <1>1, <1>2 DEF TaskInv, TaskReady, TaskKeyed
  <1>4. TaskCalls' /\ TaskReady(c)' /\ ~Inserts(c)' /\ ~Carries(c)' /\ Undisturbed(c)
    BY <1>1, TaskReturns DEF TaskInv, TaskCalls, Undisturbed
  <1>5. CASE /\ Task!B!Contains(waiting[q], d) /\ waiting' = [waiting EXCEPT ![q] = Task!B!Remove(waiting[q], d)]
             /\ deleted' = deleted \cup {d}
    <2>1. PICK s \in Seq(Data) : s = waiting[q]
      BY <1>3 DEF TaskInv, TaskItems
    <2>2. PICK t : t = Task!B!Remove(s, d)
      OBVIOUS
    <2>3. t \in Seq(Data) /\ \E k \in 1..Len(s) : s[k] = d /\ Without(t, s, k)
      BY <1>5, <2>1, <2>2, TaskRemoves
    <2>4. PICK k \in 1..Len(waiting[q]) : Without(t, waiting[q], k)
      BY <2>1, <2>3
    <2>5. waiting' = [waiting EXCEPT ![q] = t] /\ deleted' \subseteq Data
      BY <1>3, <1>5, <2>1, <2>2 DEF TaskInv, TaskItems
    <2> QED
      BY <1>1, <1>3, <1>4, <2>3, <2>4, <2>5, TaskLeavesWaiting
  <1>6. CASE UNCHANGED <<waiting, deleted>>
    <2>1. TaskItems'
      BY <1>1, <1>6 DEF TaskInv, TaskItems, Task!WithinLimits
    <2> QED
      BY <1>1, <1>3, <1>4, <1>6, <2>1, TaskStays
  <1> QED
    BY <1>2, <1>5, <1>6 DEF Task!DeleteWaiting

(* The oldest waiting task is popped. *)
LEMMA TaskDeletePop == ASSUME TaskInv, NEW c \in Callers, Task!DeletePop(c) PROVE TaskInv'
  <1>1. /\ tPc[c] = "popWaiting"
        /\ UNCHANGED <<globalQueue, processing, taskQueues, made, orderedKeys, lastAssignedIndex, tLock, key, to>>
        /\ UNCHANGED <<queue, accepted, deleted>>
    BY DEF Task!DeletePop, Task!keyed, Task!history
  <1>2. PICK q : q = queue[c]
    OBVIOUS
  <1>3. q \in Task!Made /\ TaskKeyed' /\ deleted' \subseteq Data
    BY <1>1, <1>2 DEF TaskInv, TaskReady, TaskKeyed, TaskItems
  <1>4. CASE /\ waiting[q] # << >> /\ waiting' = [waiting EXCEPT ![q] = Tail(waiting[q])]
             /\ data' = [data EXCEPT ![c] = Head(waiting[q])] /\ tPc' = [tPc EXCEPT ![c] = "promote"]
    <2>1. PICK s \in Seq(Data) : s = waiting[q]
      BY <1>3 DEF TaskInv, TaskItems
    <2>2. PICK t, d : t = Tail(s) /\ d = Head(s)
      OBVIOUS
    <2>3. t \in Seq(Data) /\ Without(t, s, 1) /\ Len(s) >= 1 /\ d = s[1] /\ d \in Data
      BY <1>4, <2>1, <2>2, TailDrops
    <2>4. 1 \in 1..Len(waiting[q]) /\ Without(t, waiting[q], 1) /\ waiting' = [waiting EXCEPT ![q] = t]
          /\ d = waiting[q][1] /\ data' = [data EXCEPT ![c] = d]
      BY <1>4, <2>1, <2>2, <2>3
    <2>5. TaskCalls' /\ tPc'[c] = "promote" /\ queue'[c] = q /\ data'[c] = d /\ Undisturbed(c)
      BY <1>1, <1>2, <1>4, <2>3, <2>4 DEF TaskInv, TaskCalls, Undisturbed
    <2>6. TaskReady(c)' /\ ~Inserts(c)'
      BY <1>3, <2>3, <2>5 DEF TaskReady, Inserts
    <2> QED
      BY <1>1, <1>3, <2>3, <2>4, <2>5, <2>6, TaskLeavesWaiting
  <1>5. CASE tPc' = [tPc EXCEPT ![c] = "popGlobal"] /\ UNCHANGED <<waiting, data>>
    <2>1. TaskCalls' /\ tPc'[c] = "popGlobal" /\ queue'[c] = q /\ Undisturbed(c)
      BY <1>1, <1>2, <1>5 DEF TaskInv, TaskCalls, Undisturbed
    <2>2. TaskReady(c)' /\ ~Inserts(c)' /\ ~Carries(c)'
      BY <1>3, <2>1 DEF TaskReady, Inserts, Carries
    <2>3. TaskItems'
      BY <1>1, <1>5 DEF TaskInv, TaskItems, Task!WithinLimits
    <2> QED
      BY <1>1, <1>3, <1>5, <2>1, <2>2, <2>3, TaskStays
  <1> QED
    BY <1>2, <1>4, <1>5 DEF Task!DeletePop, Task!B!Pop

(* ... or the oldest task of the global queue. *)
LEMMA TaskDeleteGlobal == ASSUME TaskInv, NEW c \in Callers, Task!DeleteGlobal(c) PROVE TaskInv'
  <1>1. /\ tPc[c] = "popGlobal"
        /\ UNCHANGED <<processing, waiting, taskQueues, made, orderedKeys, lastAssignedIndex, tLock, accepted, deleted>>
    BY DEF Task!DeleteGlobal, Task!keyed, Task!history
  <1>2. queue[c] \in Task!Made /\ TaskKeyed'
    BY <1>1 DEF TaskInv, TaskReady, TaskKeyed
  <1>3. CASE /\ globalQueue # << >> /\ globalQueue' = Tail(globalQueue)
             /\ data' = [data EXCEPT ![c] = Head(globalQueue)] /\ tPc' = [tPc EXCEPT ![c] = "promote"]
             /\ UNCHANGED <<key, to, queue>>
    <2>1. PICK s \in Seq(Data) : s = globalQueue
      BY DEF TaskInv, TaskItems
    <2>2. PICK t, d : t = Tail(s) /\ d = Head(s)
      OBVIOUS
    <2>3. t \in Seq(Data) /\ Without(t, s, 1) /\ Len(s) >= 1 /\ d = s[1] /\ d \in Data
      BY <1>3, <2>1, <2>2, TailDrops
    <2>4. TaskCalls' /\ tPc'[c] = "promote" /\ queue'[c] = queue[c] /\ data'[c] = d /\ Undisturbed(c)
      BY <1>1, <1>3, <2>1, <2>2, <2>3 DEF TaskInv, TaskCalls, Undisturbed
    <2>5. TaskReady(c)' /\ ~Inserts(c)'
      BY <1>2, <2>3, <2>4 DEF TaskReady, Inserts
    <2>6. GlobalSlot \in Slots /\ Store[GlobalSlot] = s
      BY <2>1, StoreIs DEF TaskInv
    <2>7. 1 \in 1..Len(Store[GlobalSlot]) /\ Without(t, Store[GlobalSlot], 1) /\ d = Store[GlobalSlot][1]
      BY <2>3, <2>6
    <2>8. Len(t) <= MaxGlobal /\ globalQueue' = t
      BY <1>3, <2>1, <2>2, <2>3 DEF TaskInv, TaskItems, Task!WithinLimits, TaskSized, Without
    <2>9. TaskItems'
      BY <1>1, <2>3, <2>8, ItemsGlobal DEF TaskInv, TaskItems
    <2>10. \A y \in Slots : Store'[y] = IF y = GlobalSlot THEN t ELSE Store[y]
      BY <1>1, <2>8, StoreGlobal
    <2> QED
      BY <1>1, <1>2, <2>3, <2>4, <2>5, <2>6, <2>7, <2>9, <2>10, TaskDrops
  <1>4. CASE Task!Return(c) /\ UNCHANGED globalQueue
    <2>1. TaskCalls' /\ TaskReady(c)' /\ ~Inserts(c)' /\ ~Carries(c)' /\ Undisturbed(c)
      BY <1>1, <1>4, TaskReturns DEF TaskInv, TaskCalls, Undisturbed
    <2>2. TaskItems'
      BY <1>1, <1>4 DEF TaskInv, TaskItems, Task!WithinLimits
    <2> QED
      BY <1>1, <1>2, <1>4, <2>1, <2>2, TaskStays
  <1> QED
    BY <1>3, <1>4 DEF Task!DeleteGlobal, Task!B!Pop

(* The popped task is pushed, and dropped if the queue is full. *)
LEMMA TaskDeletePush == ASSUME TaskInv, NEW c \in Callers, Task!DeletePush(c) PROVE TaskInv'
  <1>1. PICK q, d, t : q = queue[c] /\ d = data[c] /\ t = Task!B!Push(processing[q], MaxProcessing, d)
    OBVIOUS
  <1>2. /\ tPc[c] = "promote" /\ processing' = [processing EXCEPT ![q] = t] /\ Task!Return(c)
        /\ UNCHANGED <<globalQueue, waiting, taskQueues, made, orderedKeys, lastAssignedIndex, tLock, accepted>>
        /\ UNCHANGED deleted
    BY <1>1 DEF Task!DeletePush, Task!keyed, Task!pushToProcess
  <1>3. q \in Task!Made /\ d \in Data /\ TaskKeyed' /\ Carries(c) /\ d = data[c]
    BY <1>1, <1>2 DEF TaskInv, TaskReady, TaskKeyed, Carries
  <1>4. TaskCalls' /\ TaskReady(c)' /\ ~Inserts(c)' /\ ~Carries(c)' /\ Undisturbed(c)
    BY <1>2, TaskReturns DEF TaskInv, TaskCalls, Undisturbed
  <1>5. PICK s \in Seq(Data) : s = processing[q] /\ MaxProcessing \in Nat
    BY <1>3 DEF TaskInv, TaskItems, TaskSized
  <1>6. CASE Task!B!Full(s, MaxProcessing)
    <2>1. processing' = processing
      BY <1>1, <1>2, <1>3, <1>5, <1>6 DEF Task!B!Push, TaskInv, TaskItems
    <2>2. TaskItems'
      BY <1>2, <2>1 DEF TaskInv, TaskItems, Task!WithinLimits
    <2> QED
      BY <1>2, <1>3, <1>4, <2>1, <2>2, TaskStays
  <1>7. CASE ~Task!B!Full(s, MaxProcessing)
    <2>1. t = Task!B!Push(s, MaxProcessing, d)
      BY <1>1, <1>5
    <2>2. t \in Seq(Data) /\ Len(t) <= MaxProcessing /\ \E k \in 1..Len(t) : t[k] = d /\ Without(s, t, k)
      <3>1. d \in Data /\ MaxProcessing \in Nat
        BY <1>3, <1>5
      <3> QED
        BY <1>7, <2>1, <3>1, TaskPushes
    <2>3. PICK x : x = <<q, "processing">>
      OBVIOUS
    <2>4. x \in Slots /\ Store[x] = s
      BY <1>3, <1>5, <2>3, StoreIs DEF TaskInv
    <2>5. PICK k \in 1..Len(t) : t[k] = d /\ Without(Store[x], t, k)
      BY <2>2, <2>4
    <2>6. TaskItems'
      BY <1>2, <1>3, <2>2, ItemsProcessing DEF TaskInv, TaskItems
    <2>7. \A y \in Slots : Store'[y] = IF y = x THEN t ELSE Store[y]
      BY <1>2, <1>3, <2>3, StoreProcessing DEF TaskInv
    <2> QED
      BY <1>2, <1>3, <1>4, <2>2, <2>4, <2>5, <2>6, <2>7, TaskAdds
  <1> QED
    BY <1>6, <1>7

(* DeleteKey: the key loses its queue and its turn. *)
LEMMA TaskDeleteKey == ASSUME TaskInv, NEW c \in Callers, NEW k \in Keys, Task!DeleteKey(c, k) PROVE TaskInv'
  <1>1. PICK q, s, t : q = taskQueues[k] /\ s = orderedKeys /\ t = Task!B!Remove(s, k)
    OBVIOUS
  <1>2. /\ tPc[c] = "idle" /\ tLock = Task!NoCaller /\ q # 0
        /\ taskQueues' = [taskQueues EXCEPT ![k] = 0] /\ orderedKeys' = t
        /\ lastAssignedIndex' = (IF lastAssignedIndex >= Len(t) /\ Len(t) > 0 THEN Len(t) - 1 ELSE lastAssignedIndex)
        /\ deleted' = deleted \cup Task!ToSet(processing[q]) \cup Task!ToSet(waiting[q])
        /\ UNCHANGED <<globalQueue, processing, waiting, made, tLock, tPc, key, to, data, queue, accepted>>
    BY <1>1 DEF Task!DeleteKey, Task!Locked, Task!Idle, Task!NoQueue, Task!items, Task!local
  <1>3. /\ made \in 0..MaxMade /\ taskQueues \in [Keys -> 0..made] /\ s \in Seq(Keys) /\ lastAssignedIndex \in Int
        /\ (\A i \in 1..Len(s) : taskQueues[s[i]] # 0) /\ \A i, j \in 1..Len(s) : s[i] = s[j] => i = j
    BY <1>1 DEF TaskInv, TaskKeyed
  <1>4. q \in Task!Made
    BY <1>1, <1>2, <1>3 DEF TaskInv, TaskSized, Task!Made
  <1>5. /\ t \in Seq(Keys) /\ (\A i \in 1..Len(t) : t[i] \in Keys /\ t[i] # k /\ taskQueues[t[i]] # 0)
        /\ \A i, j \in 1..Len(t) : t[i] = t[j] => i = j
    <2>1. CASE Task!B!Contains(s, k)
      <3>1. s \in Seq(Keys)
        BY <1>3
      <3>2. t \in Seq(Keys) /\ \E l \in 1..Len(s) : s[l] = k /\ Without(t, s, l)
        BY <1>1, <2>1, <3>1, TaskRemoves
      <3>3. PICK l \in 1..Len(s) : s[l] = k /\ Without(t, s, l)
        BY <3>2
      <3>4. PICK n \in Nat : n = Len(s)
        BY <1>3
      <3>5. Len(t) = n - 1 /\ l \in 1..n
        BY <3>3, <3>4 DEF Without
      <3>6. \A i \in 1..(n - 1) : /\ (IF i < l THEN i ELSE i + 1) \in 1..n /\ (IF i < l THEN i ELSE i + 1) # l
                                  /\ t[i] = s[IF i < l THEN i ELSE i + 1]
        BY <3>3, <3>4, <3>5 DEF Without
      <3>7. ASSUME NEW i \in 1..(n - 1) PROVE t[i] \in Keys /\ t[i] # k /\ taskQueues[t[i]] # 0
        <4>1. PICK u : u = IF i < l THEN i ELSE i + 1
          OBVIOUS
        <4>2. u \in 1..n /\ u # l /\ t[i] = s[u]
          BY <3>6, <4>1
        <4>3. s[u] \in Keys /\ taskQueues[s[u]] # 0
          BY <1>3, <3>4, <4>2
        <4>4. s[u] # k
          BY <1>3, <3>3, <3>4, <4>2
        <4> QED
          BY <4>2, <4>3, <4>4
      <3>8. ASSUME NEW i \in 1..(n - 1), NEW j \in 1..(n - 1), t[i] = t[j] PROVE i = j
        <4>1. PICK u, v : u = (IF i < l THEN i ELSE i + 1) /\ v = IF j < l THEN j ELSE j + 1
          OBVIOUS
        <4>2. u \in 1..n /\ v \in 1..n /\ t[i] = s[u] /\ t[j] = s[v]
          BY <3>6, <4>1
        <4>3. u = v
          BY <1>3, <3>4, <3>8, <4>2
        <4> QED
          BY <3>5, <4>1, <4>3
      <3> QED
        BY <3>2, <3>5, <3>7, <3>8
    <2>2. CASE ~Task!B!Contains(s, k)
      <3>1. t = s /\ DOMAIN s = 1..Len(s)
        BY <1>1, <1>3, <2>2 DEF Task!B!Remove
      <3>2. \A i \in 1..Len(s) : s[i] # k /\ s[i] \in Keys
        BY <1>3, <2>2, <3>1 DEF Task!B!Contains
      <3> QED
        BY <1>3, <3>1, <3>2
    <2> QED
      BY <2>1, <2>2
  <1>6. TaskKeyed'
    <2>1. taskQueues' \in [Keys -> 0..made] /\ \A l \in Keys : l # k => taskQueues'[l] = taskQueues[l]
      BY <1>2, <1>3
    <2>2. lastAssignedIndex' \in Int
      BY <1>2, <1>3, <1>5
    <2>3. \A i \in 1..Len(t) : taskQueues'[t[i]] # 0
      BY <1>5, <2>1
    <2> QED
      BY <1>2, <1>3, <1>5, <2>1, <2>2, <2>3 DEF TaskKeyed
  <1>7. deleted' \subseteq Data
    <2>1. processing[q] \in Seq(Data) /\ waiting[q] \in Seq(Data) /\ deleted \subseteq Data
      BY <1>4 DEF TaskInv, TaskItems
    <2>2. \A u \in Seq(Data) : Task!ToSet(u) \subseteq Data
      BY DEF Task!ToSet
    <2> QED
      BY <1>2, <2>1, <2>2
  <1>8. TaskItems' /\ TaskCalls'
    BY <1>2, <1>7 DEF TaskInv, TaskItems, TaskCalls, Task!WithinLimits
  <1>9. TaskReady(c)' /\ ~Inserts(c)' /\ ~Carries(c)' /\ Undisturbed(c)
    BY <1>2 DEF TaskReady, Inserts, Carries, Undisturbed
  <1> QED
    BY <1>2, <1>6, <1>8, <1>9, TaskStays

(* A transfer begins: the target exists, and the task is in the caller's    *)
(* hands, which keep the lock.                                              *)
LEMMA TaskTransformStart ==
    ASSUME TaskInv, NEW c \in Callers, NEW from \in Keys, NEW k \in Keys, NEW d \in Data,
           TaskOps \cap {"Transform", "AutoTransform"} # {}, Task!TransformStart(c, from, k, d)
    PROVE  TaskInv'
  <1>1. PICK q : q = taskQueues[from]
    OBVIOUS
  <1>2. /\ tLock = Task!NoCaller /\ q # 0 /\ Task!getOrCreateTaskQueues(k)
        /\ UNCHANGED <<globalQueue, waiting, lastAssignedIndex, accepted, deleted>>
    BY <1>1 DEF Task!TransformStart, Task!NoQueue, Task!history
  <1>3. q \in Task!Made /\ lastAssignedIndex' \in Int /\ deleted' \subseteq Data
    BY <1>1, <1>2 DEF TaskInv, TaskKeyed, TaskSized, TaskItems, Task!Made
  <1>4. TaskKeyed' /\ taskQueues'[k] # 0
    BY <1>2, <1>3, TaskCreates
  <1>5. CASE /\ Task!B!Contains(processing[q], d)
             /\ processing' = [processing EXCEPT ![q] = Task!B!Remove(processing[q], d)]
             /\ tLock' = c /\ tPc' = [tPc EXCEPT ![c] = "transfer"] /\ to' = [to EXCEPT ![c] = k]
             /\ data' = [data EXCEPT ![c] = d] /\ UNCHANGED <<key, queue>>
    <2>1. TaskCalls' /\ tPc'[c] = "transfer" /\ to'[c] = k /\ data'[c] = d
      BY <1>5 DEF TaskInv, TaskCalls
    <2>2. Undisturbed(c)
      BY <1>2, <1>5 DEF TaskInv, TaskCalls, TaskSized, Undisturbed
    <2>3. TaskReady(c)' /\ ~Inserts(c)'
      BY <1>4, <1>5, <2>1 DEF TaskReady, Inserts
    <2> QED
      BY <1>2, <1>3, <1>4, <1>5, <2>1, <2>2, <2>3, TaskTakesOut
  <1>6. CASE Task!Return(c) /\ UNCHANGED <<processing, tLock>>
    <2>1. TaskCalls' /\ TaskReady(c)' /\ ~Inserts(c)' /\ ~Carries(c)' /\ Undisturbed(c)
      BY <1>2, <1>6, TaskReturns DEF TaskInv, TaskCalls, Undisturbed
    <2>2. TaskItems'
      BY <1>2, <1>6 DEF TaskInv, TaskItems, Task!WithinLimits
    <2> QED
      BY <1>2, <1>4, <1>6, <2>1, <2>2, TaskStays
  <1> QED
    BY <1>1, <1>5, <1>6 DEF Task!TransformStart

(* The task arrives in the queue of the target, whatever its length. *)
LEMMA TaskTransformPush == ASSUME TaskInv, NEW c \in Callers, Task!TransformPush(c) PROVE TaskInv'
  <1>1. PICK q, d, t : q = taskQueues[to[c]] /\ d = data[c] /\ t = Append(processing[q], d)
    OBVIOUS
  <1>2. /\ tPc[c] = "transfer" /\ processing' = [processing EXCEPT ![q] = t] /\ Task!Return(c) /\ tLock' = Task!NoCaller
        /\ UNCHANGED <<globalQueue, waiting, taskQueues, made, orderedKeys, lastAssignedIndex, accepted, deleted>>
    BY <1>1 DEF Task!TransformPush, Task!keyed, Task!B!ForcePush
  <1>3. /\ d \in Data /\ TaskKeyed' /\ Carries(c) /\ d = data[c] /\ tLock = c /\ to[c] \in Keys /\ q # 0
        /\ TaskOps \cap {"Transform", "AutoTransform"} # {}
    BY <1>1, <1>2 DEF TaskInv, TaskReady, TaskKeyed, Carries
  <1>4. q \in Task!Made
    BY <1>1, <1>3 DEF TaskInv, TaskKeyed, TaskSized, Task!Made
  <1>5. TaskCalls' /\ TaskReady(c)' /\ ~Inserts(c)' /\ ~Carries(c)' /\ Undisturbed(c)
    BY <1>2, <1>3, TaskReturns DEF TaskInv, Undisturbed
  <1>6. PICK s \in Seq(Data) : s = processing[q]
    BY <1>4 DEF TaskInv, TaskItems
  <1>7. t = Append(s, d) /\ d \in Data
    BY <1>1, <1>3, <1>6
  <1>8. t \in Seq(Data) /\ Without(s, t, Len(s) + 1) /\ Len(t) = Len(s) + 1 /\ t[Len(s) + 1] = d
    BY <1>7, AppendAdds
  <1>9. PICK x : x = <<q, "processing">>
    OBVIOUS
  <1>10. x \in Slots /\ Store[x] = s
    BY <1>4, <1>6, <1>9, StoreIs DEF TaskInv
  <1>11. PICK k \in 1..Len(t) : t[k] = d /\ Without(Store[x], t, k)
    BY <1>8, <1>10
  <1>12. TaskItems'
    BY <1>2, <1>3, <1>4, <1>8, ItemsProcessing DEF TaskInv, TaskItems
  <1>13. \A y \in Slots : Store'[y] = IF y = x THEN t ELSE Store[y]
    BY <1>2, <1>4, <1>9, StoreProcessing DEF TaskInv
  <1> QED
    BY <1>2, <1>3, <1>5, <1>8, <1>10, <1>11, <1>12, <1>13, TaskAdds

(* AutoTransformProcessingData chooses the target. *)
LEMMA TaskAuto ==
    ASSUME TaskInv, NEW c \in Callers, NEW from \in Keys, NEW d \in Data, Task!AutoTransformProcessingData(c, from, d)
    PROVE  TaskInv'
  <1>1. PICK a \in Task!assignKey : lastAssignedIndex' = a.index /\ to' = [to EXCEPT ![c] = a.key]
    BY DEF Task!AutoTransformProcessingData
  <1>2. /\ "AutoTransform" \in TaskOps /\ tPc' = [tPc EXCEPT ![c] = "auto"] /\ key' = [key EXCEPT ![c] = from]
        /\ data' = [data EXCEPT ![c] = d]
        /\ UNCHANGED <<globalQueue, processing, waiting, taskQueues, made, orderedKeys, tLock, queue, accepted>>
        /\ UNCHANGED deleted
    BY DEF Task!AutoTransformProcessingData, Task!Locked, Task!Idle, Task!items, Task!history
  <1>3. a.key \in Keys /\ a.index \in Int
    BY TaskAssigns
  <1>4. TaskCalls' /\ tPc'[c] = "auto" /\ key'[c] = from /\ to'[c] = a.key /\ data'[c] = d
    BY <1>1, <1>2, <1>3 DEF TaskInv, TaskCalls
  <1>5. Undisturbed(c) /\ TaskKeyed'
    BY <1>1, <1>2, <1>3 DEF TaskInv, TaskCalls, TaskKeyed, Undisturbed
  <1>6. TaskReady(c)' /\ ~Inserts(c)' /\ ~Carries(c)'
    BY <1>2, <1>3, <1>4 DEF TaskReady, Inserts, Carries
  <1>7. TaskItems'
    BY <1>2 DEF TaskInv, TaskItems, Task!WithinLimits
  <1> QED
    BY <1>2, <1>4, <1>5, <1>6, <1>7, TaskStays

(* ... and transfers to it, unless the key is gone. *)
LEMMA TaskAutoTransform == ASSUME TaskInv, NEW c \in Callers, Task!AutoTransform(c) PROVE TaskInv'
  <1>1. /\ key[c] \in Keys /\ to[c] \in Keys /\ data[c] \in Data
        /\ TaskOps \cap {"Transform", "AutoTransform"} # {}
    BY DEF TaskInv, TaskReady, Task!AutoTransform
  <1>2. CASE Task!TransformStart(c, key[c], to[c], data[c])
    BY <1>1, <1>2, TaskTransformStart
  <1>3. CASE /\ Task!Return(c) /\ UNCHANGED <<globalQueue, processing, waiting, taskQueues, made, orderedKeys>>
             /\ UNCHANGED <<lastAssignedIndex, tLock, accepted, deleted>>
    <2>1. TaskCalls' /\ TaskReady(c)' /\ ~Inserts(c)' /\ ~Carries(c)' /\ Undisturbed(c)
      BY <1>3, TaskReturns DEF TaskInv, TaskCalls, Undisturbed
    <2>2. TaskItems' /\ TaskKeyed'
      BY <1>3 DEF TaskInv, TaskItems, TaskKeyed, Task!WithinLimits
    <2> QED
      BY <1>3, <2>1, <2>2, TaskStays
  <1> QED
    BY <1>2, <1>3 DEF Task!AutoTransform, Task!items, Task!keyed, Task!history

(* Every step of the process keeps the invariant. *)
LEMMA TaskNext == ASSUME TaskInv, [Task!Next]_Task!vars PROVE TaskInv'
  <1>1. CASE UNCHANGED Task!vars
    BY <1>1 DEF Task!vars, Task!items, Task!keyed, Task!local, Task!history, TaskInv, TaskItems, TaskKeyed, TaskCalls,
                TaskApart, TaskReady, Inserts, Carries, Store, Task!WithinLimits
  <1>2. ASSUME NEW c \in Callers, NEW d \in Data, Task!Insert(c, d) PROVE TaskInv'
    BY <1>2, TaskInsert
  <1>3. ASSUME NEW c \in Callers, Task!Call(c) PROVE TaskInv'
    <2>1. PICK k \in Keys :
             \/ Task!AddKey(c, k) \/ Task!DeleteKey(c, k)
             \/ \E d \in Data : \/ Task!InsertByKey(c, k, d) \/ Task!Delete(c, k, d)
                                \/ Task!AutoTransformProcessingData(c, k, d)
                                \/ \E t \in Keys : Task!TransformProcessingData(c, k, t, d)
      BY <1>3 DEF Task!Call
    <2>2. CASE Task!AddKey(c, k)
      BY <2>2, TaskAddKey
    <2>3. CASE Task!DeleteKey(c, k)
      BY <2>3, TaskDeleteKey
    <2>4. ASSUME NEW d \in Data, Task!InsertByKey(c, k, d) PROVE TaskInv'
      BY <2>4, TaskInsertByKey
    <2>5. ASSUME NEW d \in Data, Task!Delete(c, k, d) PROVE TaskInv'
      BY <2>5, TaskDelete
    <2>6. ASSUME NEW d \in Data, Task!AutoTransformProcessingData(c, k, d) PROVE TaskInv'
      BY <2>6, TaskAuto
    <2>7. ASSUME NEW d \in Data, NEW t \in Keys, Task!TransformProcessingData(c, k, t, d) PROVE TaskInv'
      <3>1. TaskOps \cap {"Transform", "AutoTransform"} # {} /\ Task!TransformStart(c, k, t, d)
        BY <2>7 DEF Task!TransformProcessingData, Task!Idle
      <3> QED
        BY <3>1, TaskTransformStart
    <2> QED
      BY <2>1, <2>2, <2>3, <2>4, <2>5, <2>6, <2>7
  <1>4. ASSUME NEW c \in Callers, Task!CallerStep(c) PROVE TaskInv'
    BY <1>4, TaskInsertRoom, TaskInsertPush, TaskDeleteRemove, TaskDeleteWaiting, TaskDeletePop, TaskDeleteGlobal,
       TaskDeletePush, TaskTransformPush, TaskAutoTransform DEF Task!CallerStep
  <1> QED
    BY <1>1, <1>2, <1>3, <1>4 DEF Task!Next

(* The invariant says what it is for. *)
LEMMA TaskImplies == ASSUME TaskInv PROVE Task!NoDuplicate /\ Task!WithinLimits
  <1>1. ASSUME NEW d \in Data PROVE Task!Cardinality(Task!Places(d)) <= 1
    <2>1. ASSUME NEW x \in Task!Places(d)
          PROVE  \/ \E y \in Slots : \E i \in 1..Len(Store[y]) : Store[y][i] = d /\ x = <<y[1], y[2], i>>
                 \/ \E c \in Callers : Carries(c) /\ data[c] = d /\ x = <<0, "hands", c>>
      <3> DEFINE at(s) == {i \in DOMAIN s : s[i] = d}
      <3>1. CASE \E q \in Task!Made : \E i \in DOMAIN processing[q] : processing[q][i] = d /\ x = <<q, "processing", i>>
        <4>1. PICK q \in Task!Made : \E i \in DOMAIN processing[q] : processing[q][i] = d /\ x = <<q, "processing", i>>
          BY <3>1
        <4>2. PICK y : y = <<q, "processing">>
          OBVIOUS
        <4>3. y \in Slots /\ Store[y] = processing[q] /\ y[1] = q /\ y[2] = "processing" /\ Store[y] \in Seq(Data)
          BY <4>2, StoreIs DEF TaskInv
        <4> QED
          BY <4>1, <4>3
      <3>2. CASE \E q \in Task!Made : \E i \in DOMAIN waiting[q] : waiting[q][i] = d /\ x = <<q, "waiting", i>>
        <4>1. PICK q \in Task!Made : \E i \in DOMAIN waiting[q] : waiting[q][i] = d /\ x = <<q, "waiting", i>>
          BY <3>2
        <4>2. PICK y : y = <<q, "waiting">>
          OBVIOUS
        <4>3. y \in Slots /\ Store[y] = waiting[q] /\ y[1] = q /\ y[2] = "waiting" /\ Store[y] \in Seq(Data)
          BY <4>2, StoreIs DEF TaskInv
        <4> QED
          BY <4>1, <4>3
      <3>3. CASE \E i \in DOMAIN globalQueue : globalQueue[i] = d /\ x = <<0, "global", i>>
        <4>1. PICK y : y = GlobalSlot
          OBVIOUS
        <4>2. y \in Slots /\ Store[y] = globalQueue /\ y[1] = 0 /\ y[2] = "global" /\ Store[y] \in Seq(Data)
          BY <4>1, StoreIs DEF TaskInv, GlobalSlot
        <4> QED
          BY <3>3, <4>2
      <3>4. CASE \E c \in Callers : Carries(c) /\ data[c] = d /\ x = <<0, "hands", c>>
        BY <3>4
      <3>5. \/ x \in UNION {{q} \X {"processing"} \X at(processing[q]) : q \in Task!Made}
            \/ x \in UNION {{q} \X {"waiting"} \X at(waiting[q]) : q \in Task!Made}
            \/ x \in {0} \X {"global"} \X at(globalQueue)
            \/ x \in {0} \X {"hands"} \X {c \in Callers : tPc[c] \in {"promote", "transfer"} /\ data[c] = d}
        <4>1. x \in Task!Places(d)
          BY <2>1
        <4> QED
          BY <4>1 DEF Task!Places, Task!NoQueue
      <3>6. \A q, w, I : x \in {q} \X {w} \X I => \E i \in I : x = <<q, w, i>>
        OBVIOUS
      <3>7. CASE x \in UNION {{q} \X {"processing"} \X at(processing[q]) : q \in Task!Made}
        <4>1. PICK q \in Task!Made : x \in {q} \X {"processing"} \X at(processing[q])
          BY <3>7
        <4>2. PICK i \in at(processing[q]) : x = <<q, "processing", i>>
          BY <3>6, <4>1
        <4> QED
          BY <3>1, <4>2
      <3>8. CASE x \in UNION {{q} \X {"waiting"} \X at(waiting[q]) : q \in Task!Made}
        <4>1. PICK q \in Task!Made : x \in {q} \X {"waiting"} \X at(waiting[q])
          BY <3>8
        <4>2. PICK i \in at(waiting[q]) : x = <<q, "waiting", i>>
          BY <3>6, <4>1
        <4> QED
          BY <3>2, <4>2
      <3>9. CASE x \in {0} \X {"global"} \X at(globalQueue)
        BY <3>3, <3>6, <3>9
      <3>10. CASE x \in {0} \X {"hands"} \X {c \in Callers : tPc[c] \in {"promote", "transfer"} /\ data[c] = d}
        BY <3>4, <3>6, <3>10 DEF Carries
      <3> QED
        BY <3>5, <3>7, <3>8, <3>9, <3>10
    <2>2. ASSUME NEW x \in Task!Places(d), NEW y \in Task!Places(d) PROVE x = y
      <3>1. CASE /\ \E u \in Slots : \E i \in 1..Len(Store[u]) : Store[u][i] = d /\ x = <<u[1], u[2], i>>
                 /\ \E v \in Slots : \E j \in 1..Len(Store[v]) : Store[v][j] = d /\ y = <<v[1], v[2], j>>
        BY <3>1 DEF TaskInv, TaskApart, Apart
      <3>2. CASE (\E u \in Slots : \E i \in 1..Len(Store[u]) : Store[u][i] = d)
                 /\ \E c \in Callers : Carries(c) /\ data[c] = d
        BY <3>2 DEF TaskInv, TaskApart, Holds
      <3>3. CASE /\ \E c \in Callers : Carries(c) /\ data[c] = d /\ x = <<0, "hands", c>>
                 /\ \E e \in Callers : Carries(e) /\ data[e] = d /\ y = <<0, "hands", e>>
        BY <3>3 DEF TaskInv, TaskApart
      <3> QED
        BY <2>1, <2>2, <3>1, <3>2, <3>3
    <2>3. Cardinality(Task!Places(d)) \in {0, 1}
      BY <2>2, AtMostOne
    <2> QED
      BY <2>3 DEF Task!Cardinality, Cardinality, Task!IsFiniteSet, IsFiniteSet
  <1> QED
    BY <1>1 DEF Task!NoDuplicate, TaskInv, TaskItems

(* No interleaving of the calls of a process puts a task into two queues,   *)
(* or into a queue and the hands of a caller, and no queue exceeds its      *)
(* capacity but by a transfer (queue/task/standalonetask).                  *)
THEOREM TaskKeepsOne == ASSUME TaskSized PROVE Task!Spec => [](Task!NoDuplicate /\ Task!WithinLimits)
  <1>1. Task!Init => TaskInv
    BY TaskStarts
  <1>2. TaskInv /\ [Task!Next]_Task!vars => TaskInv'
    BY TaskNext
  <1>3. TaskInv => Task!NoDuplicate /\ Task!WithinLimits
    BY TaskImplies
  <1> QED
    BY <1>1, <1>2, <1>3, PTL DEF Task!Spec
=============================================================================
