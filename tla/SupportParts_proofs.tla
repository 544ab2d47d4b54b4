------------------------- MODULE SupportParts_proofs -------------------------
(***************************************************************************)
(* Proofs about the libraries a server is built with, for every value of    *)
(* their constants: the redismq builder, the two in-process method          *)
(* registries, uploads by hash, thumbnails, the stream that watches of etcd *)
(* share, and the connections to Kubernetes.  Each part has its inductive   *)
(* invariant, one lemma for each of its operations, and a theorem that its  *)
(* specification implies its properties.  Support_proofs carries them over  *)
(* to the suite MCSupport.                                                  *)
(***************************************************************************)
EXTENDS Integers, FiniteSets, TLAPS, FiniteSetTheorems

CONSTANTS Versions, Topics, Known, Raw, MaxLen, MaxEntries          \* the builder
CONSTANTS RegCallers, RegServices, MaxCalls, MaxCloses              \* the method registry
CONSTANTS AloneCallers, AloneServices, Keys, Values                 \* the standalone registry
CONSTANTS UpContents, Large, Uploads, UpCalls, Copies, Faults, MaxDeletes, None     \* uploads
CONSTANTS ImNames, ImContents, Sizes, ImCallers, Addressed          \* thumbnails
CONSTANTS Users, MaxGens                                            \* the stream of etcd's watches
CONSTANTS KServices, WatchNames, KAddrs, MaxChanges, MaxOps         \* Kubernetes

VARIABLES given, cfg, server, version, checked, got, first, last, acked
VARIABLES methods, waiters, refs, ready, rMade, rCall, calls, closes, readying, panicked
VARIABLES alone, wait, chans, closed, ask, asks, kv
VARIABLES store, cache, upload, parts, call, deletes
VARIABLES objects, info, thumbKey, thumbs, proc
VARIABLES watcher, gMade, gClosed, expired, shut, watch
VARIABLES endpoints, changed, connsMap, kOpen, dials, kOptions, failed, kChanges, ops

Builder == INSTANCE RedisMQBuilder
Reg == INSTANCE MethodRegistry WITH Callers <- RegCallers, Services <- RegServices,
           made <- rMade, call <- rCall, closing <- readying
Alone == INSTANCE Standalone WITH Callers <- AloneCallers, Services <- AloneServices,
             methods <- alone, call <- ask, calls <- asks
Up == INSTANCE S3Upload WITH Contents <- UpContents, Calls <- UpCalls
Img == INSTANCE MinioImage WITH Names <- ImNames, Contents <- ImContents, Callers <- ImCallers
Reconnect == INSTANCE ReconnectingWatcher WITH made <- gMade, closed <- gClosed
K8s == INSTANCE K8sConns WITH Services <- KServices, Addrs <- KAddrs, open <- kOpen, dialOptions <- kOptions,
           changes <- kChanges
-----------------------------------------------------------------------------
(* mq/redismq: the Builder and the cap of its producers. *)

(* Versions and configuration values are numbers, and the cap may be none. *)
BuilderSized == Versions \subseteq Nat /\ Raw \subseteq Int /\ MaxLen \in Nat

(* The one check passed only for a version that is recent enough, and        *)
(* versions only grow; what was handed out was handed out after the check.   *)
BuilderChecked ==
    /\ version \in Nat /\ server \in {version, 0}
    /\ checked = "ok" => version >= 602
    /\ got # {} => checked = "ok"
    /\ \A g \in got : g[2] \in Known

(* No unacknowledged entry has been trimmed. *)
BuilderStream == first \in Int /\ last \in Int /\ acked \in Int /\ first <= acked + 1

(* The configuration stays as it was filled. *)
BuilderConfig == given \in Builder!Configs /\ cfg = Builder!fillDefault(given)

(* The inductive invariant of the builder. *)
BuilderInv == BuilderChecked /\ BuilderStream /\ BuilderConfig

(* checkServerVersion: only an answer of at least 6.2 passes. *)
LEMMA VersionChecked ==
    ASSUME NEW s \in Nat, Builder!checkServerVersion(s) = "ok" PROVE s >= 602 /\ s # 0
  BY DEF Builder!checkServerVersion, Builder!MinVersion, Builder!Down

(* fillDefault: with the default the renewal interval is a third of the     *)
(* lease, and the idle time of a claim is the lease.                        *)
LEMMA DefaultsDivide ==
    ASSUME Raw \subseteq Int, NEW c \in Builder!Configs
    PROVE  LET d == Builder!fillDefault(c) IN
           /\ c.RenewInterval = 0 => 2 * d.RenewInterval <= d.LeaseTTL
           /\ c.ClaimMinIdle = 0 => d.ClaimMinIdle >= d.LeaseTTL
  <1> DEFINE lease == Builder!Default(c.LeaseTTL, 15)
  <1>1. lease \in Int /\ lease > 0
    <2>1. c.LeaseTTL \in Int
      BY DEF Builder!Configs
    <2> QED
      BY <2>1 DEF Builder!Default
  <1>2. 2 * (lease \div 3) <= lease
    BY <1>1
  <1>3. /\ c.RenewInterval = 0 => Builder!Default(c.RenewInterval, lease \div 3) = lease \div 3
        /\ c.ClaimMinIdle = 0 => Builder!Default(c.ClaimMinIdle, lease) = lease
    BY DEF Builder!Default
  <1> HIDE DEF lease
  <1>4. Builder!fillDefault(c) = [LeaseTTL |-> lease, RenewInterval |-> Builder!Default(c.RenewInterval, lease \div 3),
                                 ClaimMinIdle |-> Builder!Default(c.ClaimMinIdle, lease)]
    BY DEF Builder!fillDefault, lease
  <1> QED
    BY <1>1, <1>2, <1>3, <1>4

(* A builder that has checked and handed out nothing. *)
LEMMA BuilderStarts == ASSUME BuilderSized, Builder!Init PROVE BuilderInv
  BY DEF BuilderSized, BuilderInv, BuilderChecked, BuilderStream, BuilderConfig, Builder!Init, Builder!Down

(* GetTopicProducer and GetTopicConsumer: whatever the call asked and got   *)
(* before, an object is handed out only with a check that passed.           *)
LEMMA GetKeeps ==
    ASSUME BuilderSized, BuilderInv, NEW t, NEW kind, NEW new, Builder!Get(t, kind, new)
    PROVE  BuilderInv'
  <1>1. /\ got' = got \cup (IF Builder!check(t) = "ok" /\ new THEN {<<kind, t>>} ELSE {})
        /\ checked' = (IF t \in Known /\ checked = "no" THEN Builder!check(t) ELSE checked)
        /\ UNCHANGED <<given, cfg, server, version, first, last, acked>>
    BY DEF Builder!Get, Builder!config, Builder!stream
  <1>2. Builder!check(t) = "ok" => t \in Known /\ checked' = "ok" /\ version >= 602
    <2>1. server \in Nat
      BY DEF BuilderInv, BuilderChecked
    <2>2. Builder!checkServerVersion(server) = "ok" => version >= 602
      BY <2>1, VersionChecked DEF BuilderInv, BuilderChecked
    <2> QED
      BY <1>1, <2>2 DEF Builder!check, BuilderInv, BuilderChecked
  <1>3. got' # {} => checked' = "ok"
    <2>1. CASE got # {}
      BY <1>1, <2>1 DEF BuilderInv, BuilderChecked
    <2>2. CASE got = {}
      BY <1>1, <1>2, <2>2
    <2> QED
      BY <2>1, <2>2
  <1>4. checked' = "ok" => version' >= 602
    BY <1>1, <1>2 DEF BuilderInv, BuilderChecked
  <1>5. \A g \in got' : g[2] \in Known
    BY <1>1, <1>2 DEF BuilderInv, BuilderChecked
  <1> QED
    BY <1>1, <1>3, <1>4, <1>5 DEF BuilderInv, BuilderChecked, BuilderStream, BuilderConfig

(* SendMessage with a cap: what the server trims lies before the oldest     *)
(* unacknowledged entry.                                                    *)
LEMMA SendKeeps ==
    ASSUME BuilderSized, BuilderInv, Builder!SendMessage PROVE BuilderInv'
  <1>1. first \in Int /\ last \in Int /\ acked \in Int /\ first <= acked + 1 /\ MaxLen \in Nat
    BY DEF BuilderSized, BuilderInv, BuilderStream
  <1>2. acked' = acked /\ last' = last + 1 /\ first' \in Int /\ first' <= acked + 1
    <2>1. CASE MaxLen = 0
      BY <1>1, <2>1 DEF Builder!SendMessage
    <2>2. CASE MaxLen # 0
      <3>1. last - acked < MaxLen /\ acked' = acked /\ last' = last + 1
        BY <2>2 DEF Builder!SendMessage
      <3>2. first' \in {f \in first..(last + 1) : f = first \/ (last + 1) - f + 1 >= MaxLen}
        BY <2>2 DEF Builder!SendMessage
      <3>3. first' \in first..(last + 1) /\ (first' = first \/ (last + 1) - first' + 1 >= MaxLen)
        BY <3>2
      <3>4. first' \in Int
        BY <1>1, <3>3
      <3>5. CASE first' = first
        BY <1>1, <3>1, <3>5
      <3>6. CASE (last + 1) - first' + 1 >= MaxLen
        <4>1. ASSUME NEW f \in Int, (last + 1) - f + 1 >= MaxLen PROVE f <= acked + 1
          BY <1>1, <3>1, <4>1
        <4> QED
          BY <3>1, <3>4, <3>6, <4>1
      <3> QED
        BY <3>3, <3>5, <3>6
    <2> QED
      BY <2>1, <2>2
  <1> QED
    BY <1>1, <1>2 DEF BuilderInv, BuilderChecked, BuilderStream, BuilderConfig, Builder!SendMessage, Builder!config

(* Every step of the builder, the server and the stream. *)
LEMMA BuilderNext == ASSUME BuilderSized, BuilderInv, [Builder!Next]_(Builder!vars) PROVE BuilderInv'
  <1>1. ASSUME NEW t \in Topics, Builder!GetTopicProducer(t) \/ Builder!GetTopicConsumer(t)
        PROVE  BuilderInv'
    BY <1>1, GetKeeps DEF Builder!GetTopicProducer, Builder!GetTopicConsumer
  <1>2. CASE Builder!Outage
    BY <1>2 DEF Builder!Outage, Builder!config, Builder!stream, Builder!Down,
             BuilderInv, BuilderChecked, BuilderStream, BuilderConfig
  <1>3. ASSUME NEW v \in Versions, Builder!Back(v) PROVE BuilderInv'
    BY <1>3 DEF BuilderSized, Builder!Back, Builder!config, Builder!stream, Builder!Down,
             BuilderInv, BuilderChecked, BuilderStream, BuilderConfig
  <1>4. CASE Builder!SendMessage
    BY <1>4, SendKeeps
  <1>5. CASE Builder!Ack
    BY <1>5 DEF Builder!Ack, Builder!config, Builder!stream,
             BuilderInv, BuilderChecked, BuilderStream, BuilderConfig
  <1>6. CASE UNCHANGED Builder!vars
    BY <1>6 DEF Builder!vars, BuilderInv, BuilderChecked, BuilderStream, BuilderConfig
  <1> QED
    BY <1>1, <1>2, <1>3, <1>4, <1>5, <1>6 DEF Builder!Next

(* What the invariant of the builder says of its properties. *)
LEMMA BuilderImplies ==
    ASSUME BuilderSized, BuilderInv
    PROVE  Builder!FailClosed /\ Builder!DefaultsFit /\ Builder!CapKeepsPending
  <1>1. Builder!FailClosed
    BY DEF BuilderInv, BuilderChecked, Builder!FailClosed, Builder!MinVersion
  <1>2. Builder!DefaultsFit
    BY DefaultsDivide DEF BuilderSized, BuilderInv, BuilderConfig, Builder!DefaultsFit
  <1>3. Builder!CapKeepsPending
    BY DEF BuilderInv, BuilderStream, Builder!CapKeepsPending
  <1> QED
    BY <1>1, <1>2, <1>3

(* The builder fails closed through outages and upgrades, its defaults      *)
(* renew a lease in time, and a cap above the number of unacknowledged      *)
(* entries trims none of them: for all versions, topics, configurations and *)
(* caps.                                                                    *)
THEOREM BuilderFit ==
    ASSUME BuilderSized
    PROVE  Builder!Spec => [](Builder!FailClosed /\ Builder!DefaultsFit /\ Builder!CapKeepsPending)
  <1>1. Builder!Init => BuilderInv
    BY BuilderStarts
  <1>2. BuilderInv /\ [Builder!Next]_(Builder!vars) => BuilderInv'
    BY BuilderNext
  <1>3. BuilderInv =>
          Builder!FailClosed /\ Builder!DefaultsFit /\ Builder!CapKeepsPending
    BY BuilderImplies
  <1> QED
    BY <1>1, <1>2, <1>3, PTL DEF Builder!Spec
-----------------------------------------------------------------------------
(* discovery/inprocess: method_registry.go. *)

(* Finitely many callers, who make a bounded number of calls. *)
RegSized == IsFiniteSet(RegCallers) /\ MaxCalls \in Nat

(* The callers that hold a waiter. *)
Holds(c) == rCall[c].pc \in {"wait", "release"}
Holders(w) == {c \in RegCallers : Holds(c) /\ rCall[c].waiter = w}

(* Counters within their bounds: a call makes at most one waiter. *)
RegNumbers ==
    /\ rMade \in Nat /\ calls \in Nat /\ closes \in Nat /\ rMade <= calls /\ calls <= MaxCalls
    /\ refs \in [1..MaxCalls -> 0..Cardinality(RegCallers)]

(* The number of a waiter that has been made. *)
IsMade(w) == w \in Nat /\ w # 0 /\ w <= rMade

(* The locals of a call. *)
RegCalls == [pc : {"idle", "wait", "release", "invoke", "return"}, method : Reg!Methods \cup {""}, waiter : Nat,
             result : {"", "timeout", "handler", "internal error"}]

(* Methods, waiters, channels and calls are what they should be. *)
RegTyped ==
    /\ methods \subseteq Reg!Methods
    /\ waiters \in [Reg!Methods -> Nat] /\ \A m \in Reg!Methods : waiters[m] = 0 \/ IsMade(waiters[m])
    /\ \A w \in ready : IsMade(w)
    /\ \A w \in readying : IsMade(w)
    /\ DOMAIN rCall = RegCallers /\ \A c \in RegCallers : rCall[c] \in RegCalls

(* A waiter in the map is that of one method, which is not registered, and   *)
(* its channel is neither closed nor about to be; no channel is both.        *)
RegWaiters ==
    /\ ready \cap readying = {} /\ ~panicked
    /\ \A m \in Reg!Methods : waiters[m] # 0 =>
          waiters[m] \notin ready /\ waiters[m] \notin readying /\ m \notin methods
    /\ \A m, n \in Reg!Methods : waiters[m] = waiters[n] /\ waiters[m] # 0 => m = n

(* The references of a waiter in the map are the callers that hold it, and   *)
(* a number that is still to be given to a waiter has none.                  *)
RegCounted ==
    /\ \A m \in Reg!Methods, w \in 1..MaxCalls : waiters[m] = w =>
          refs[w] = Cardinality(Holders(w)) /\ refs[w] > 0
    /\ \A w \in 1..MaxCalls : w > rMade => refs[w] = 0

(* A caller holds a waiter of its own method: it stays in the map, or its    *)
(* channel is closed or about to be.  Only close does that without the       *)
(* method being registered.                                                  *)
RegCaller(c) ==
    /\ Holds(c) =>
          /\ rCall[c].method \in Reg!Methods /\ IsMade(rCall[c].waiter)
          /\ \/ rCall[c].waiter \in ready
             \/ rCall[c].waiter \in readying
             \/ waiters[rCall[c].method] = rCall[c].waiter
          /\ \A m \in Reg!Methods : waiters[m] = rCall[c].waiter => m = rCall[c].method
          /\ closes = 0 /\ rCall[c].waiter \in ready => rCall[c].method \in methods
    /\ closes = 0 => rCall[c].result # "internal error"

(* The inductive invariant of the registry; before a close nothing is being *)
(* closed by one.                                                           *)
RegInv ==
    /\ RegNumbers /\ RegTyped /\ RegWaiters /\ RegCounted
    /\ \A c \in RegCallers : RegCaller(c)
    /\ closes = 0 => readying = {}

(* The cardinality in the module of the registry is that of the library. *)
LEMMA SameCardinality == \A S : Reg!Cardinality(S) = Cardinality(S)
  BY DEF Reg!Cardinality, Cardinality, Reg!IsFiniteSet, IsFiniteSet

(* A registry without methods and calls. *)
LEMMA RegStarts == ASSUME RegSized, Reg!Init PROVE RegInv
  <1>1. /\ methods = {} /\ waiters = [m \in Reg!Methods |-> 0]
        /\ refs = [w \in 1..MaxCalls |-> 0] /\ ready = {} /\ rMade = 0
        /\ rCall = [c \in RegCallers |-> [pc |-> "idle", method |-> "", waiter |-> 0, result |-> ""]]
        /\ calls = 0 /\ closes = 0 /\ readying = {} /\ panicked = FALSE
    BY DEF Reg!Init, Reg!Idle, Reg!NoWaiter, Reg!Waiters
  <1>2. Cardinality(RegCallers) \in Nat
    BY FS_CardinalityType DEF RegSized
  <1>3. 0 \in Nat /\ 0 <= 0 /\ 0 <= MaxCalls /\ 0 \in 0..Cardinality(RegCallers)
    BY <1>2 DEF RegSized
  <1>4. RegNumbers /\ RegTyped
    <2>1. [pc |-> "idle", method |-> "", waiter |-> 0, result |-> ""] \in RegCalls
      BY DEF RegCalls
    <2>2. RegNumbers
      BY <1>1, <1>3 DEF RegNumbers
    <2>3. RegTyped
      BY <1>1, <2>1 DEF RegTyped
    <2> QED
      BY <2>2, <2>3
  <1>5. \A m \in Reg!Methods : waiters[m] = 0
    BY <1>1
  <1>6. RegWaiters
    BY <1>1, <1>5 DEF RegWaiters
  <1>8. RegCounted
    <2>1. \A w \in 1..MaxCalls : refs[w] = 0
      BY <1>1
    <2>2. 0 \notin 1..MaxCalls
      BY DEF RegSized
    <2> QED
      BY <1>5, <2>1, <2>2 DEF RegCounted
  <1>7. \A c \in RegCallers : RegCaller(c)
    BY <1>1 DEF RegCaller, Holds
  <1> QED
    BY <1>1, <1>4, <1>6, <1>7, <1>8 DEF RegInv

(* A call is not affected by what leaves it, the map and the channels alone. *)
LEMMA RegCallerSame ==
    ASSUME NEW c, RegCaller(c), rCall'[c] = rCall[c], UNCHANGED <<rMade, methods, waiters, ready, closes, readying>>
    PROVE  RegCaller(c)'
  <1>1. (Holds(c)' <=> Holds(c)) /\ (IsMade(rCall[c].waiter)' <=> IsMade(rCall[c].waiter))
    BY DEF Holds, IsMade
  <1>2. CASE Holds(c)
    BY <1>1, <1>2 DEF RegCaller
  <1>3. CASE ~Holds(c)
    BY <1>1, <1>3 DEF RegCaller
  <1> QED
    BY <1>2, <1>3

(* Steps that move no waiter and change the calls of nobody's holding. *)
LEMMA SameHolders ==
    ASSUME \A c \in RegCallers : /\ (Holds(c)' <=> Holds(c))
                                 /\ Holds(c) => rCall'[c].waiter = rCall[c].waiter,
           NEW w
    PROVE  Holders(w)' = Holders(w)
  BY DEF Holders

(* registerService wakes exactly the callers of the methods it adds: a      *)
(* waiter in the map belongs to one method.                                 *)
LEMMA RegRegisters ==
    ASSUME RegSized, RegInv, NEW s \in RegServices, Reg!RegisterService(s) PROVE RegInv'
  <1> DEFINE woken == {waiters[m] : m \in s} \ {0}
  <1>1. /\ s \cap methods = {} /\ methods' = methods \cup s
        /\ panicked' = (panicked \/ woken \cap ready # {}) /\ ready' = ready \cup woken
        /\ waiters' = [x \in Reg!Methods |-> IF x \in s THEN 0 ELSE waiters[x]]
        /\ UNCHANGED <<refs, rMade, rCall, calls, closes, readying>>
    BY DEF Reg!RegisterService, Reg!NoWaiter
  <1>2. s \subseteq Reg!Methods
    BY DEF Reg!Methods
  <1>3. \A w \in woken : \E m \in s : waiters[m] = w /\ w # 0
    OBVIOUS
  <1>4. \A m \in s : waiters[m] # 0 => waiters[m] \in woken
    OBVIOUS
  <1> HIDE DEF woken
  <1>5. ASSUME NEW w \in woken PROVE IsMade(w) /\ w \notin ready /\ w \notin readying
    <2>1. PICK m \in s : waiters[m] = w /\ w # 0
      BY <1>3
    <2> QED
      BY <1>2, <2>1 DEF RegInv, RegTyped, RegWaiters
  <1>6. RegNumbers' /\ RegTyped'
    BY <1>1, <1>2, <1>5 DEF RegInv, RegNumbers, RegTyped, IsMade
  <1>7. RegWaiters'
    <2>1. ready' \cap readying' = {} /\ ~panicked'
      BY <1>1, <1>5 DEF RegInv, RegWaiters
    <2>2. ASSUME NEW m \in Reg!Methods, waiters'[m] # 0
          PROVE  waiters'[m] \notin ready' /\ waiters'[m] \notin readying' /\ m \notin methods'
      <3>1. m \notin s /\ waiters'[m] = waiters[m] /\ waiters[m] # 0
        BY <1>1, <2>2
      <3>2. waiters[m] \notin woken
        BY <1>2, <1>3, <3>1 DEF RegInv, RegWaiters
      <3> QED
        BY <1>1, <3>1, <3>2 DEF RegInv, RegWaiters
    <2>3. \A m, n \in Reg!Methods : waiters'[m] = waiters'[n] /\ waiters'[m] # 0 => m = n
      BY <1>1 DEF RegInv, RegWaiters
    <2> QED
      BY <2>1, <2>2, <2>3 DEF RegWaiters
  <1>8. RegCounted'
    <2>1. \A w : Holders(w)' = Holders(w)
      BY <1>1 DEF Holders, Holds
    <2> QED
      BY <1>1, <2>1 DEF RegInv, RegCounted
  <1>9. ASSUME NEW c \in RegCallers PROVE RegCaller(c)'
    <2>1. RegCaller(c) /\ rCall'[c] = rCall[c] /\ (Holds(c)' <=> Holds(c))
      BY <1>1 DEF RegInv, Holds
    <2>2. CASE Holds(c)
      <3>1. \/ rCall[c].waiter \in ready'
            \/ rCall[c].waiter \in readying'
            \/ waiters'[rCall[c].method] = rCall[c].waiter
        <4>1. CASE waiters[rCall[c].method] = rCall[c].waiter /\ rCall[c].method \in s
          <5>1. rCall[c].waiter # 0
            BY <2>1, <2>2 DEF RegCaller, IsMade
          <5> QED
            BY <1>1, <1>4, <4>1, <5>1
        <4> QED
          BY <1>1, <2>1, <2>2, <4>1 DEF RegCaller
      <3>2. \A m \in Reg!Methods : waiters'[m] = rCall[c].waiter => m = rCall[c].method
        <4>1. rCall[c].waiter # 0
          BY <2>1, <2>2 DEF RegCaller, IsMade
        <4> QED
          BY <1>1, <2>1, <2>2, <4>1 DEF RegCaller
      <3>3. closes = 0 /\ rCall[c].waiter \in ready' => rCall[c].method \in methods'
        BY <1>1, <1>2, <1>3, <2>1, <2>2 DEF RegCaller
      <3> QED
        BY <1>1, <2>1, <2>2, <3>1, <3>2, <3>3 DEF RegCaller, IsMade
    <2> QED
      BY <1>1, <2>1, <2>2 DEF RegCaller
  <1> QED
    BY <1>1, <1>6, <1>7, <1>8, <1>9 DEF RegInv

(* getUnaryHandler: a caller of a registered method goes on; another one    *)
(* takes the waiter of its method, or makes one that nobody else holds.     *)
LEMMA RegGets ==
    ASSUME RegSized, RegInv, NEW c \in RegCallers, NEW m \in Reg!Methods, Reg!getUnaryHandler(c, m) PROVE RegInv'
  <1>1. /\ rCall[c].pc = "idle" /\ calls < MaxCalls /\ calls' = calls + 1
        /\ UNCHANGED <<methods, ready, closes, readying, panicked>>
    BY DEF Reg!getUnaryHandler
  <1>2. CASE m \in methods
    <2>1. /\ rCall' = [rCall EXCEPT ![c] = [pc |-> "invoke", method |-> m, waiter |-> 0, result |-> ""]]
          /\ UNCHANGED <<waiters, refs, rMade>>
      BY <1>2 DEF Reg!getUnaryHandler, Reg!Idle, Reg!NoWaiter
    <2>2. /\ DOMAIN rCall' = RegCallers /\ rCall'[c].pc = "invoke" /\ rCall'[c].result = ""
          /\ \A d \in RegCallers : d # c => rCall'[d] = rCall[d]
      BY <2>1 DEF RegInv, RegTyped
    <2>3. \A d \in RegCallers : (Holds(d)' <=> Holds(d)) /\ (Holds(d) => rCall'[d].waiter = rCall[d].waiter)
      BY <1>1, <2>2 DEF Holds
    <2>4. RegNumbers' /\ RegTyped'
      <3>1. RegNumbers'
        <4>1. rMade \in Nat /\ calls \in Nat /\ rMade <= calls /\ calls < MaxCalls /\ MaxCalls \in Nat
          BY <1>1 DEF RegInv, RegNumbers, RegSized
        <4>2. calls' \in Nat /\ rMade <= calls' /\ calls' <= MaxCalls
          BY <1>1, <4>1
        <4> QED
          BY <1>1, <2>1, <4>2 DEF RegInv, RegNumbers
      <3>2. RegTyped'
        <4>1. [pc |-> "invoke", method |-> m, waiter |-> 0, result |-> ""] \in RegCalls
          BY DEF RegCalls
        <4>2. \A d \in RegCallers : rCall'[d] \in RegCalls
          BY <2>1, <4>1 DEF RegInv, RegTyped
        <4> QED
          BY <1>1, <2>1, <2>2, <4>2 DEF RegInv, RegTyped, IsMade, RegCalls
      <3> QED
        BY <3>1, <3>2
    <2>5. RegWaiters' /\ RegCounted'
      BY <1>1, <2>1, <2>3, SameHolders DEF RegInv, RegWaiters, RegCounted
    <2>6. \A d \in RegCallers : RegCaller(d)'
      <3>1. RegCaller(c)'
        BY <2>2 DEF RegCaller, Holds
      <3>2. ASSUME NEW d \in RegCallers, d # c PROVE RegCaller(d)'
        <4>1. RegCaller(d) /\ rCall'[d] = rCall[d]
          BY <2>2, <3>2 DEF RegInv
        <4> QED
          BY <1>1, <2>1, <4>1, RegCallerSame
      <3> QED
        BY <3>1, <3>2
    <2> QED
      BY <1>1, <2>4, <2>5, <2>6 DEF RegInv
  <1>3. CASE m \notin methods
    <2> DEFINE new == waiters[m] = 0
    <2> PICK w : w = IF new THEN rMade + 1 ELSE waiters[m]
      OBVIOUS
    <2>1. /\ rMade' = IF new THEN w ELSE rMade
          /\ waiters' = [waiters EXCEPT ![m] = w]
          /\ refs' = [refs EXCEPT ![w] = @ + 1]
          /\ rCall' = [rCall EXCEPT ![c] = [pc |-> "wait", method |-> m, waiter |-> w, result |-> ""]]
      BY <1>3 DEF Reg!getUnaryHandler, Reg!NoWaiter
    <2>2. /\ w \in Nat /\ w # 0 /\ w <= rMade' /\ w <= MaxCalls /\ rMade' \in Nat
          /\ rMade <= rMade' /\ rMade' <= calls' /\ rMade \in Nat
      <3>1. waiters[m] = 0 \/ (waiters[m] \in Nat /\ waiters[m] # 0 /\ waiters[m] <= rMade)
        BY DEF RegInv, RegTyped, IsMade
      <3>2. /\ rMade \in Nat /\ calls \in Nat /\ rMade <= calls /\ calls + 1 <= MaxCalls /\ MaxCalls \in Nat
            /\ calls' = calls + 1
        BY <1>1 DEF RegInv, RegNumbers, RegSized
      <3>3. CASE new
        <4>1. w = rMade + 1 /\ rMade' = rMade + 1
          BY <2>1, <3>3
        <4> QED
          BY <3>2, <4>1
      <3>4. CASE ~new
        <4>1. w = waiters[m] /\ rMade' = rMade
          BY <2>1, <3>4
        <4> QED
          BY <3>1, <3>2, <3>4, <4>1
      <3> QED
        BY <3>3, <3>4
    <2>14. w \notin ready /\ w \notin readying /\ w \in 1..MaxCalls
      <3>1. w \in 1..MaxCalls
        BY <2>2 DEF RegSized
      <3>2. CASE new
        BY <2>2, <3>1, <3>2 DEF RegInv, RegTyped, IsMade
      <3>3. CASE ~new
        BY <3>1, <3>3 DEF RegInv, RegWaiters
      <3> QED
        BY <3>2, <3>3
    <2>3. \A n \in Reg!Methods : n # m => waiters[n] # w
      <3>1. CASE new
        BY <2>2, <3>1 DEF RegInv, RegTyped, IsMade
      <3>2. CASE ~new
        BY <3>2 DEF RegInv, RegWaiters
      <3> QED
        BY <3>1, <3>2
    <2>4. refs[w] = Cardinality(Holders(w))
      <3>1. CASE new
        <4>1. Holders(w) = {}
          <5>1. w = rMade + 1
            BY <3>1
          <5>2. ASSUME NEW d \in RegCallers, Holds(d) PROVE rCall[d].waiter # w
            <6>1. rCall[d].waiter \in Nat /\ rCall[d].waiter <= rMade
              BY <5>2 DEF RegInv, RegCaller, IsMade
            <6> QED
              BY <2>2, <5>1, <6>1
          <5> QED
            BY <5>2 DEF Holders
        <4>2. w \in 1..MaxCalls /\ w > rMade
          BY <2>2, <2>14, <3>1
        <4>3. refs[w] = 0
          BY <4>2 DEF RegInv, RegCounted
        <4> QED
          BY <4>1, <4>3, FS_EmptySet
      <3>2. CASE ~new
        BY <2>14, <3>2 DEF RegInv, RegCounted
      <3> QED
        BY <3>1, <3>2
    <2>5. /\ DOMAIN rCall' = RegCallers
          /\ rCall'[c].pc = "wait" /\ rCall'[c].method = m /\ rCall'[c].waiter = w /\ rCall'[c].result = ""
          /\ \A d \in RegCallers : d # c => rCall'[d] = rCall[d]
          /\ \A n \in Reg!Methods : n # m => waiters'[n] = waiters[n]
          /\ waiters'[m] = w
      BY <2>1 DEF RegInv, RegTyped
    <2>6. /\ refs'[w] = refs[w] + 1
          /\ \A x \in 1..MaxCalls : x # w => refs'[x] = refs[x]
      BY <2>1, <2>14 DEF RegInv, RegNumbers
    <2> HIDE DEF new
    <2>7. Holders(w)' = Holders(w) \cup {c} /\ c \notin Holders(w)
      BY <1>1, <2>5 DEF Holders, Holds
    <2>8. \A x : x # w => Holders(x)' = Holders(x)
      BY <1>1, <2>5 DEF Holders, Holds
    <2>9. /\ IsFiniteSet(Holders(w)) /\ Cardinality(Holders(w)') = Cardinality(Holders(w)) + 1
          /\ Cardinality(Holders(w)') \in 0..Cardinality(RegCallers)
      <3>1. IsFiniteSet(Holders(w))
        BY FS_Subset DEF Holders, RegSized
      <3>2. Cardinality(Holders(w)') = Cardinality(Holders(w)) + 1
        BY <2>7, <3>1, FS_AddElement
      <3>3. Holders(w)' \subseteq RegCallers
        BY DEF Holders
      <3>4. Cardinality(Holders(w)') <= Cardinality(RegCallers) /\ IsFiniteSet(Holders(w)')
        BY <3>3, FS_Subset DEF RegSized
      <3> QED
        BY <3>1, <3>2, <3>4, FS_CardinalityType DEF RegSized
    <2>10. RegNumbers' /\ RegTyped'
      <3>1. refs' \in [1..MaxCalls -> 0..Cardinality(RegCallers)]
        <4>1. refs[w] + 1 \in 0..Cardinality(RegCallers)
          BY <2>4, <2>9
        <4>2. refs' = [refs EXCEPT ![w] = refs[w] + 1]
          BY <2>1
        <4>3. refs \in [1..MaxCalls -> 0..Cardinality(RegCallers)]
          BY DEF RegInv, RegNumbers
        <4> QED
          BY <2>14, <4>1, <4>2, <4>3
      <3>2. waiters' \in [Reg!Methods -> Nat]
        BY <2>1, <2>2 DEF RegInv, RegTyped
      <3>3. \A x : IsMade(x) => IsMade(x)'
        BY <2>2 DEF IsMade
      <3>4. IsMade(w)'
        BY <2>2 DEF IsMade
      <3>5. RegNumbers'
        <4>1. calls \in Nat /\ calls + 1 <= MaxCalls /\ closes \in Nat /\ MaxCalls \in Nat
          BY <1>1 DEF RegInv, RegNumbers, RegSized
        <4>2. calls' \in Nat /\ calls' <= MaxCalls /\ closes' \in Nat /\ rMade' \in Nat /\ rMade' <= calls'
          BY <1>1, <2>2, <4>1
        <4> QED
          BY <3>1, <4>2 DEF RegNumbers
      <3>6. [pc |-> "wait", method |-> m, waiter |-> w, result |-> ""] \in RegCalls
        <4>1. w \in Nat
          BY <2>2
        <4>2. m \in Reg!Methods \cup {""}
          BY Zenon
        <4> QED
          BY <4>1, <4>2, ZenonT(40) DEF RegCalls
      <3>7. \A d \in RegCallers : rCall'[d] \in RegCalls
        BY <2>1, <3>6 DEF RegInv, RegTyped
      <3>8. \A n \in Reg!Methods : waiters'[n] = 0 \/ IsMade(waiters[n])'
        BY <2>5, <3>3, <3>4 DEF RegInv, RegTyped, IsMade
      <3> QED
        BY <1>1, <2>5, <3>2, <3>3, <3>5, <3>7, <3>8 DEF RegInv, RegTyped, RegCalls
    <2>11. RegWaiters'
      <3>1. w # 0
        BY <2>2
      <3> QED
        <4>1. \A n \in Reg!Methods : waiters'[n] # 0 =>
                waiters'[n] \notin ready' /\ waiters'[n] \notin readying' /\ n \notin methods'
          BY <1>1, <1>3, <2>14, <2>5 DEF RegInv, RegWaiters
        <4>2. \A n, o \in Reg!Methods : waiters'[n] = waiters'[o] /\ waiters'[n] # 0 => n = o
          <5> SUFFICES ASSUME NEW n \in Reg!Methods, NEW o \in Reg!Methods,
                              waiters'[n] = waiters'[o], waiters'[n] # 0
                       PROVE  n = o
            OBVIOUS
          <5>1. CASE n = m \/ o = m
            BY <2>3, <2>5, <5>1
          <5>2. CASE n # m /\ o # m
            BY <2>5, <5>2 DEF RegInv, RegWaiters
          <5> QED
            BY <5>1, <5>2
        <4> QED
          BY <1>1, <4>1, <4>2 DEF RegInv, RegWaiters
    <2>12. RegCounted'
      <3>1. ASSUME NEW n \in Reg!Methods, NEW x \in 1..MaxCalls, waiters'[n] = x
            PROVE  refs'[x] = Cardinality(Holders(x)') /\ refs'[x] > 0
        <4>1. CASE n = m
          <5>1. x = w
            BY <2>5, <3>1, <4>1
          <5>2. refs'[x] = Cardinality(Holders(w)) + 1 /\ Cardinality(Holders(w)) \in Nat
            BY <2>4, <2>6, <2>9, <5>1, FS_CardinalityType
          <5> QED
            BY <2>9, <5>1, <5>2
        <4>2. CASE n # m
          <5>1. waiters[n] = x /\ x # w
            BY <2>3, <2>5, <3>1, <4>2
          <5>2. refs'[x] = refs[x] /\ Holders(x)' = Holders(x)
            BY <2>6, <2>8, <5>1
          <5> QED
            BY <5>1, <5>2 DEF RegInv, RegCounted
        <4> QED
          BY <4>1, <4>2
      <3>2. ASSUME NEW x \in 1..MaxCalls, x > rMade' PROVE refs'[x] = 0
        <4>1. x # w /\ x > rMade
          BY <2>2, <3>2
        <4> QED
          BY <2>6, <4>1 DEF RegInv, RegCounted
      <3> QED
        BY <3>1, <3>2 DEF RegCounted
    <2>13. ASSUME NEW d \in RegCallers PROVE RegCaller(d)'
      <3>1. CASE d = c
        <4>1. IsMade(w)'
          BY <2>2 DEF IsMade
        <4> QED
          BY <1>1, <2>14, <2>3, <2>5, <3>1, <4>1 DEF RegCaller, Holds
      <3>2. CASE d # c
        <4>1. rCall'[d] = rCall[d] /\ RegCaller(d) /\ (Holds(d)' <=> Holds(d))
          BY <2>5, <3>2 DEF RegInv, Holds
        <4>2. CASE Holds(d)
          <5>1. rCall[d].waiter = w => rCall[d].method = m
            <6>1. CASE waiters[m] = w
              BY <4>1, <4>2, <6>1 DEF RegCaller
            <6>2. CASE waiters[m] # w
              <7>1. w = rMade + 1
                BY <6>2 DEF new
              <7> QED
                <8>1. rCall[d].waiter \in Nat /\ rCall[d].waiter <= rMade
                  BY <4>1, <4>2 DEF RegCaller, IsMade
                <8> QED
                  BY <2>2, <7>1, <8>1
            <6> QED
              BY <6>1, <6>2
          <5>2. waiters[rCall[d].method] = rCall[d].waiter => waiters'[rCall[d].method] = rCall[d].waiter
            <6>1. rCall[d].waiter # 0
              BY <4>1, <4>2 DEF RegCaller, IsMade
            <6> QED
              BY <2>5, <4>1, <4>2, <6>1 DEF RegCaller, new
          <5>3. \A n \in Reg!Methods : waiters'[n] = rCall[d].waiter => n = rCall[d].method
            BY <2>5, <4>1, <4>2, <5>1 DEF RegCaller
          <5>4. IsMade(rCall[d].waiter)'
            <6>1. IsMade(rCall[d].waiter)
              BY <4>1, <4>2 DEF RegCaller
            <6> QED
              BY <2>2, <4>1, <6>1 DEF IsMade
          <5> QED
            BY <1>1, <4>1, <4>2, <5>2, <5>3, <5>4 DEF RegCaller
        <4> QED
          BY <1>1, <4>1, <4>2 DEF RegCaller
      <3> QED
        BY <3>1, <3>2
    <2> QED
      BY <1>1, <2>10, <2>11, <2>12, <2>13 DEF RegInv
  <1> QED
    BY <1>2, <1>3

(* The end of a wait, by a timer or by the channel, keeps the reference. *)
LEMMA RegStopsWaiting ==
    ASSUME RegSized, RegInv, NEW c \in RegCallers, rCall[c].pc = "wait",
           NEW res \in {"timeout", "handler", "internal error"},
           res = "internal error" => closes # 0,
           rCall' = [rCall EXCEPT ![c] = [@ EXCEPT !.pc = "release", !.result = res]],
           UNCHANGED <<methods, waiters, refs, ready, rMade, calls, closes, readying, panicked>>
    PROVE  RegInv'
  <1>1. /\ DOMAIN rCall' = RegCallers /\ \A d \in RegCallers : d # c => rCall'[d] = rCall[d]
        /\ rCall'[c].pc = "release" /\ rCall'[c].result = res
        /\ rCall'[c].method = rCall[c].method /\ rCall'[c].waiter = rCall[c].waiter
    <2>1. rCall[c] \in RegCalls /\ DOMAIN rCall = RegCallers
      BY DEF RegInv, RegTyped
    <2> QED
      BY <2>1 DEF RegCalls
  <1>7. rCall'[c] \in RegCalls
    <2>1. rCall[c] \in RegCalls /\ DOMAIN rCall = RegCallers
      BY DEF RegInv, RegTyped
    <2> QED
      BY <2>1 DEF RegCalls
  <1>2. \A d \in RegCallers : (Holds(d)' <=> Holds(d)) /\ (Holds(d) => rCall'[d].waiter = rCall[d].waiter)
    BY <1>1 DEF Holds
  <1>3. RegNumbers' /\ RegWaiters'
    BY DEF RegInv, RegNumbers, RegWaiters
  <1>4. RegTyped'
    BY <1>1, <1>7 DEF RegInv, RegTyped, IsMade, RegCalls
  <1>5. RegCounted'
    BY <1>2, SameHolders DEF RegInv, RegCounted
  <1>6. ASSUME NEW d \in RegCallers PROVE RegCaller(d)'
    <2>1. CASE d # c
      BY <1>1, <2>1, RegCallerSame DEF RegInv
    <2>2. CASE d = c
      <3>1. RegCaller(c) /\ Holds(c) /\ Holds(c)'
        BY <1>1 DEF RegInv, Holds
      <3>2. IsMade(rCall[c].waiter)'
        BY <1>1, <3>1 DEF RegCaller, IsMade
      <3>3. RegCaller(c)'
        <4>1. UNCHANGED <<methods, waiters, ready, closes, readying>>
          OBVIOUS
        <4>2. closes = 0 => rCall'[c].result # "internal error"
          BY <1>1
        <4> QED
          BY <1>1, <3>1, <3>2, <4>1, <4>2 DEF RegCaller
      <3> QED
        BY <2>2, <3>3
    <2> QED
      BY <2>1, <2>2
  <1> QED
    BY <1>3, <1>4, <1>5, <1>6 DEF RegInv

(* A wait ends by giving up, or by a channel that is closed: then the       *)
(* method is registered, or the registry was closed.                        *)
LEMMA RegWaits ==
    ASSUME RegSized, RegInv, NEW c \in RegCallers, Reg!giveUp(c) \/ Reg!wakeUp(c) PROVE RegInv'
  <1>1. CASE Reg!giveUp(c)
    BY <1>1, RegStopsWaiting DEF Reg!giveUp
  <1>2. CASE Reg!wakeUp(c)
    <2> PICK res \in {"handler", "internal error"} :
               res = IF rCall[c].method \in methods THEN "handler" ELSE "internal error"
      OBVIOUS
    <2>1. RegCaller(c) /\ Holds(c) /\ rCall[c].waiter \in ready
      BY <1>2 DEF Reg!wakeUp, RegInv, Holds
    <2>2. res = "internal error" => closes # 0
      BY <2>1 DEF RegCaller
    <2>3. /\ rCall[c].pc = "wait"
          /\ rCall' = [rCall EXCEPT ![c] = [@ EXCEPT !.pc = "release", !.result = res]]
          /\ UNCHANGED <<methods, waiters, refs, ready, rMade, calls, closes, readying, panicked>>
      BY <1>2 DEF Reg!wakeUp
    <2> QED
      BY <2>2, <2>3, RegStopsWaiting
  <1> QED
    BY <1>1, <1>2

(* releaseWaiter: the count goes down with the caller, and the waiter       *)
(* leaves the map with the last one, so that no other caller holds it then. *)
LEMMA RegReleases ==
    ASSUME RegSized, RegInv, NEW c \in RegCallers, Reg!releaseWaiter(c) PROVE RegInv'
  <1> PICK m, w, p : /\ m = rCall[c].method /\ w = rCall[c].waiter
                     /\ p = IF rCall[c].result = "handler" THEN "invoke" ELSE "return"
    OBVIOUS
  <1>1. /\ rCall[c].pc = "release"
        /\ refs' = IF waiters[m] = w THEN [refs EXCEPT ![w] = @ - 1] ELSE refs
        /\ waiters' = IF waiters[m] = w /\ refs[w] = 1 THEN [waiters EXCEPT ![m] = 0] ELSE waiters
        /\ rCall' = [rCall EXCEPT ![c].pc = p]
        /\ UNCHANGED <<methods, ready, rMade, calls, closes, readying, panicked>>
    BY DEF Reg!releaseWaiter, Reg!NoWaiter
  <1>2. RegCaller(c) /\ Holds(c)
    BY <1>1 DEF RegInv, Holds
  <1>3. /\ m \in Reg!Methods /\ IsMade(w)
        /\ \A n \in Reg!Methods : waiters[n] = w => n = m
    BY <1>2 DEF RegCaller
  <1>4. /\ DOMAIN rCall' = RegCallers /\ \A d \in RegCallers : d # c => rCall'[d] = rCall[d]
        /\ rCall'[c].pc = p /\ p \in {"invoke", "return"} /\ rCall'[c].result = rCall[c].result
    BY <1>1 DEF RegInv, RegTyped
  <1>5. /\ DOMAIN waiters' = Reg!Methods
        /\ \A n \in Reg!Methods : waiters'[n] = waiters[n] \/ (n = m /\ waiters[m] = w /\ waiters'[n] = 0)
        /\ waiters'[m] = w => refs[w] # 1
        /\ waiters'[m] # w => (waiters[m] = w /\ refs[w] = 1) \/ waiters[m] # w
    BY <1>1, <1>3 DEF RegInv, RegTyped, IsMade
  <1>6. w \in 1..MaxCalls
    BY <1>3 DEF IsMade, RegInv, RegNumbers, RegSized
  <1>7. Holders(w)' = Holders(w) \ {c} /\ c \in Holders(w)
    BY <1>2, <1>4 DEF Holders, Holds
  <1>8. \A x : x # w => Holders(x)' = Holders(x)
    BY <1>2, <1>4 DEF Holders, Holds
  <1>9. IsFiniteSet(Holders(w)) /\ Cardinality(Holders(w)) \in Nat
    BY FS_Subset, FS_CardinalityType DEF Holders, RegSized
  <1>10. Cardinality(Holders(w)') = Cardinality(Holders(w)) - 1
    BY <1>7, <1>9, FS_RemoveElement
  <1>11. waiters[m] = w => refs[w] = Cardinality(Holders(w)) /\ refs[w] > 0 /\ refs'[w] = refs[w] - 1
    BY <1>1, <1>3, <1>6 DEF RegInv, RegCounted, RegNumbers
  <1>12. \A x \in 1..MaxCalls : (x = w /\ waiters[m] = w) \/ refs'[x] = refs[x]
    BY <1>1 DEF RegInv, RegNumbers
  <1>13. RegNumbers'
    <2>1. CASE waiters[m] = w
      <3>1. refs[w] \in 0..Cardinality(RegCallers) /\ Cardinality(RegCallers) \in Nat
        BY <1>6, FS_CardinalityType DEF RegInv, RegNumbers, RegSized
      <3>2. refs[w] - 1 \in 0..Cardinality(RegCallers)
        BY <1>11, <2>1, <3>1
      <3>3. refs' \in [1..MaxCalls -> 0..Cardinality(RegCallers)]
        BY <1>1, <2>1, <3>2 DEF RegInv, RegNumbers
      <3> QED
        BY <1>1, <3>3 DEF RegInv, RegNumbers
    <2>2. CASE waiters[m] # w
      BY <1>1, <2>2 DEF RegInv, RegNumbers
    <2> QED
      BY <2>1, <2>2
  <1>14. RegTyped'
    <2>1. rCall[c] \in RegCalls
      BY DEF RegInv, RegTyped
    <2>2. [rCall[c] EXCEPT !.pc = p] \in RegCalls
      BY <1>4, <2>1 DEF RegCalls
    <2>3. \A d \in RegCallers : rCall'[d] \in RegCalls
      BY <1>1, <2>2 DEF RegInv, RegTyped
    <2> QED
      BY <1>1, <1>4, <1>5, <2>3 DEF RegInv, RegTyped, IsMade, RegCalls
  <1>15. RegWaiters'
    BY <1>1, <1>5 DEF RegInv, RegWaiters
  <1>16. RegCounted'
    <2>1. ASSUME NEW n \in Reg!Methods, NEW x \in 1..MaxCalls, waiters'[n] = x
          PROVE  refs'[x] = Cardinality(Holders(x)') /\ refs'[x] > 0
      <3>1. x # 0
        BY <2>1 DEF RegSized
      <3>2. waiters[n] = x
        BY <1>5, <2>1, <3>1
      <3>3. CASE x = w
        <4>1. n = m /\ refs[w] # 1 /\ waiters[m] = w
          BY <1>3, <1>5, <2>1, <3>2, <3>3
        <4> QED
          BY <1>9, <1>10, <1>11, <3>3, <4>1
      <3>4. CASE x # w
        BY <1>8, <1>12, <3>2, <3>4 DEF RegInv, RegCounted
      <3> QED
        BY <3>3, <3>4
    <2>2. ASSUME NEW x \in 1..MaxCalls, x > rMade' PROVE refs'[x] = 0
      <3>1. x # w
        BY <1>1, <1>3, <2>2 DEF IsMade, RegInv, RegNumbers
      <3> QED
        BY <1>1, <1>12, <2>2, <3>1 DEF RegInv, RegCounted
    <2> QED
      BY <2>1, <2>2 DEF RegCounted
  <1>17. ASSUME NEW d \in RegCallers PROVE RegCaller(d)'
    <2>1. CASE d = c
      BY <1>1, <1>2, <1>4, <2>1 DEF RegCaller, Holds
    <2>2. CASE d # c
      <3>1. RegCaller(d) /\ rCall'[d] = rCall[d] /\ (Holds(d)' <=> Holds(d))
        BY <1>4, <2>2 DEF RegInv, Holds
      <3>2. CASE Holds(d)
        <4>1. IsMade(rCall[d].waiter) /\ IsMade(rCall[d].waiter)'
          BY <1>1, <3>1, <3>2 DEF RegCaller, IsMade
        <4>2. waiters[rCall[d].method] = rCall[d].waiter => waiters'[rCall[d].method] = rCall[d].waiter
          <5>1. CASE rCall[d].waiter = w
            <6>1. d \in Holders(w)
              BY <3>2, <5>1 DEF Holders
            <6>2. Cardinality(Holders(w)) # 1
              BY <1>7, <1>9, <2>2, <6>1, FS_Singleton
            <6> QED
              BY <1>3, <1>5, <1>11, <3>1, <3>2, <5>1, <6>2 DEF RegCaller
          <5>2. CASE rCall[d].waiter # w
            BY <1>5, <3>1, <3>2, <5>2 DEF RegCaller
          <5> QED
            BY <5>1, <5>2
        <4>3. \A n \in Reg!Methods : waiters'[n] = rCall[d].waiter => n = rCall[d].method
          BY <1>5, <3>1, <3>2, <4>1 DEF RegCaller, IsMade
        <4>4. UNCHANGED <<methods, ready, closes, readying>>
          BY <1>1
        <4> QED
          BY <3>1, <3>2, <4>1, <4>2, <4>3, <4>4 DEF RegCaller
      <3>3. CASE ~Holds(d)
        BY <1>1, <3>1, <3>3 DEF RegCaller
      <3> QED
        BY <3>2, <3>3
    <2> QED
      BY <2>1, <2>2
  <1> QED
    BY <1>1, <1>13, <1>14, <1>15, <1>16, <1>17 DEF RegInv

(* Invoke goes on with the handler or returns: the caller holds nothing. *)
LEMMA RegInvokes ==
    ASSUME RegSized, RegInv, NEW c \in RegCallers, Reg!Invoke(c) PROVE RegInv'
  <1>1. /\ rCall[c].pc \in {"invoke", "return"}
        /\ rCall' = [rCall EXCEPT ![c] = [pc |-> "idle", method |-> "", waiter |-> 0, result |-> ""]]
        /\ UNCHANGED <<methods, waiters, refs, ready, rMade, calls, closes, readying, panicked>>
    BY DEF Reg!Invoke, Reg!Idle, Reg!NoWaiter
  <1>2. /\ DOMAIN rCall' = RegCallers /\ \A d \in RegCallers : d # c => rCall'[d] = rCall[d]
        /\ rCall'[c].pc = "idle" /\ rCall'[c].result = ""
    BY <1>1 DEF RegInv, RegTyped
  <1>3. \A d \in RegCallers : (Holds(d)' <=> Holds(d)) /\ (Holds(d) => rCall'[d].waiter = rCall[d].waiter)
    BY <1>1, <1>2 DEF Holds
  <1>4. RegNumbers' /\ RegWaiters'
    BY <1>1 DEF RegInv, RegNumbers, RegWaiters
  <1>5. RegTyped'
    <2>1. [pc |-> "idle", method |-> "", waiter |-> 0, result |-> ""] \in RegCalls
      BY DEF RegCalls
    <2>2. \A d \in RegCallers : rCall'[d] \in RegCalls
      BY <1>1, <2>1 DEF RegInv, RegTyped
    <2> QED
      BY <1>1, <1>2, <2>2 DEF RegInv, RegTyped, IsMade, RegCalls
  <1>6. RegCounted'
    BY <1>1, <1>3, SameHolders DEF RegInv, RegCounted
  <1>7. ASSUME NEW d \in RegCallers PROVE RegCaller(d)'
    <2>1. CASE d # c
      BY <1>1, <1>2, <2>1, RegCallerSame DEF RegInv
    <2>2. CASE d = c
      BY <1>2, <2>2 DEF RegCaller, Holds
    <2> QED
      BY <2>1, <2>2
  <1> QED
    BY <1>1, <1>4, <1>5, <1>6, <1>7 DEF RegInv

(* close takes every waiter out of the map, and remembers it until its      *)
(* channel is closed.                                                       *)
LEMMA RegCloses ==
    ASSUME RegSized, RegInv, Reg!close PROVE RegInv'
  <1> DEFINE taken == {waiters[m] : m \in Reg!Methods} \ {0}
  <1>1. /\ closes' = closes + 1 /\ readying' = readying \cup taken
        /\ waiters' = [m \in Reg!Methods |-> 0]
        /\ UNCHANGED <<methods, refs, ready, rMade, rCall, calls, panicked>>
    BY DEF Reg!close, Reg!NoWaiter
  <1>2. \A w \in taken : w # 0 /\ \E m \in Reg!Methods : waiters[m] = w
    OBVIOUS
  <1>3. \A m \in Reg!Methods : waiters[m] # 0 => waiters[m] \in taken
    OBVIOUS
  <1> HIDE DEF taken
  <1>4. \A w \in taken : IsMade(w) /\ w \notin ready
    BY <1>2 DEF RegInv, RegTyped, RegWaiters
  <1>5. \A m \in Reg!Methods : waiters'[m] = 0
    BY <1>1
  <1>6. closes' \in Nat /\ closes' # 0
    BY <1>1 DEF RegInv, RegNumbers
  <1>7. RegNumbers'
    BY <1>1, <1>6 DEF RegInv, RegNumbers
  <1>8. RegTyped'
    BY <1>1, <1>4, <1>5 DEF RegInv, RegTyped, IsMade
  <1>9. RegWaiters'
    BY <1>1, <1>4, <1>5 DEF RegInv, RegWaiters
  <1>10. RegCounted'
    <2>1. 0 \notin 1..MaxCalls
      BY DEF RegSized
    <2> QED
      BY <1>1, <1>5, <2>1 DEF RegInv, RegCounted
  <1>11. ASSUME NEW c \in RegCallers PROVE RegCaller(c)'
    <2>1. RegCaller(c) /\ rCall'[c] = rCall[c] /\ (Holds(c)' <=> Holds(c))
      BY <1>1 DEF RegInv, Holds
    <2>2. CASE Holds(c)
      <3>1. IsMade(rCall[c].waiter) /\ IsMade(rCall[c].waiter)' /\ rCall[c].waiter # 0
        BY <1>1, <2>1, <2>2 DEF RegCaller, IsMade
      <3> QED
        BY <1>1, <1>3, <1>5, <1>6, <2>1, <2>2, <3>1 DEF RegCaller
    <2> QED
      BY <1>6, <2>1, <2>2 DEF RegCaller
  <1> QED
    BY <1>6, <1>7, <1>8, <1>9, <1>10, <1>11 DEF RegInv

(* The channel of a waiter that close has taken is closed once: it was      *)
(* neither closed by registration nor will it be.                           *)
LEMMA RegClosesReady ==
    ASSUME RegSized, RegInv, NEW w, Reg!closeReady(w) PROVE RegInv'
  <1>1. /\ w \in readying /\ readying' = readying \ {w}
        /\ panicked' = (panicked \/ w \in ready) /\ ready' = ready \cup {w}
        /\ UNCHANGED <<methods, waiters, refs, rMade, rCall, calls, closes>>
    BY DEF Reg!closeReady
  <1>2. closes # 0
    BY <1>1 DEF RegInv
  <1>3. RegNumbers' /\ RegTyped'
    BY <1>1 DEF RegInv, RegNumbers, RegTyped, IsMade
  <1>4. RegWaiters'
    BY <1>1 DEF RegInv, RegWaiters
  <1>5. RegCounted'
    BY <1>1 DEF RegInv, RegCounted, Holders, Holds
  <1>6. ASSUME NEW c \in RegCallers PROVE RegCaller(c)'
    <2>1. RegCaller(c) /\ rCall'[c] = rCall[c] /\ (Holds(c)' <=> Holds(c))
      BY <1>1 DEF RegInv, Holds
    <2>2. CASE Holds(c)
      <3>1. IsMade(rCall[c].waiter) /\ IsMade(rCall[c].waiter)'
        BY <1>1, <2>1, <2>2 DEF RegCaller, IsMade
      <3> QED
        BY <1>1, <1>2, <2>1, <2>2, <3>1 DEF RegCaller
    <2> QED
      BY <1>1, <1>2, <2>1, <2>2 DEF RegCaller
  <1> QED
    BY <1>1, <1>2, <1>3, <1>4, <1>5, <1>6 DEF RegInv

(* Every step of the registry. *)
LEMMA RegNext == ASSUME RegSized, RegInv, [Reg!Next]_(Reg!vars) PROVE RegInv'
  <1>1. CASE UNCHANGED Reg!vars
    <2>1. UNCHANGED <<methods, waiters, refs, ready, rMade, rCall, calls, closes, readying, panicked>>
      BY <1>1 DEF Reg!vars
    <2>2. RegCounted'
      BY <2>1 DEF RegInv, RegCounted, Holders, Holds
    <2>3. \A c \in RegCallers : RegCaller(c)'
      BY <2>1, RegCallerSame DEF RegInv
    <2>4. RegNumbers' /\ RegTyped' /\ RegWaiters'
      BY <2>1 DEF RegInv, RegNumbers, RegTyped, RegWaiters, IsMade
    <2> QED
      BY <2>1, <2>2, <2>3, <2>4 DEF RegInv
  <1> QED
    BY <1>1, RegRegisters, RegGets, RegWaits, RegReleases, RegInvokes, RegCloses, RegClosesReady DEF Reg!Next

(* What the invariant of the registry says of its properties. *)
LEMMA RegImplies ==
    ASSUME RegSized, RegInv
    PROVE  Reg!TypeOK /\ Reg!NoStranded /\ Reg!WaitersCounted /\ Reg!ClosedOnce /\ Reg!WokenHasHandler
  <1>1. Reg!TypeOK
    <2>1. rMade \in Nat
      BY DEF RegInv, RegNumbers
    <2>2. \A w : IsMade(w) => w \in 1..rMade /\ w \in 0..rMade
      BY <2>1 DEF IsMade
    <2>3. 0 \in 0..rMade
      BY <2>1
    <2>4. DOMAIN waiters = Reg!Methods /\ \A m \in Reg!Methods : waiters[m] \in 0..rMade
      BY <2>2, <2>3 DEF RegInv, RegTyped
    <2>5. ready \cup readying \subseteq 1..rMade
      BY <2>2 DEF RegInv, RegTyped
    <2>6. \A c \in RegCallers : rCall[c].pc \in {"idle", "wait", "release", "invoke", "return"}
      BY DEF RegInv, RegTyped, RegCalls
    <2>7. waiters \in [Reg!Methods -> 0..rMade]
      BY <2>4 DEF RegInv, RegTyped
    <2> QED
      <3>1. methods \subseteq Reg!Methods /\ refs \in [Reg!Waiters -> 0..Cardinality(RegCallers)]
        BY DEF RegInv, RegNumbers, RegTyped, Reg!Waiters
      <3> QED
        BY <2>5, <2>6, <2>7, <3>1, SameCardinality DEF Reg!TypeOK
  <1>2. Reg!NoStranded
    <2> SUFFICES ASSUME NEW c \in RegCallers, rCall[c].pc = "wait", rCall[c].method \in methods
                 PROVE  rCall[c].waiter \in ready \cup readying
      BY DEF Reg!NoStranded
    <2>1. RegCaller(c) /\ Holds(c)
      BY DEF RegInv, Holds
    <2> QED
      BY <2>1 DEF RegCaller, RegInv, RegWaiters, IsMade
  <1>3. Reg!WaitersCounted
    <2> SUFFICES ASSUME NEW m \in Reg!Methods, waiters[m] # 0
                 PROVE  /\ refs[waiters[m]] = Cardinality({c \in RegCallers :
                               rCall[c].pc \in {"wait", "release"} /\ rCall[c].waiter = waiters[m]})
                        /\ refs[waiters[m]] > 0 /\ m \notin methods
      BY SameCardinality DEF Reg!WaitersCounted, Reg!NoWaiter
    <2>1. waiters[m] \in 1..MaxCalls
      BY DEF RegInv, RegTyped, RegNumbers, IsMade, RegSized
    <2> QED
      BY <2>1 DEF RegInv, RegCounted, RegWaiters, Holders, Holds
  <1>4. Reg!ClosedOnce
    BY DEF RegInv, RegWaiters, Reg!ClosedOnce
  <1>5. Reg!WokenHasHandler
    BY DEF RegInv, RegCaller, Reg!WokenHasHandler
  <1> QED
    BY <1>1, <1>2, <1>3, <1>4, <1>5

(* method_registry: nobody is stranded, references are counted right, no    *)
(* channel is closed twice, and a woken call finds its handler unless the   *)
(* registry was closed: for any callers, services and number of calls.      *)
THEOREM RegServed ==
    ASSUME RegSized
    PROVE  Reg!Spec => [](Reg!TypeOK /\ Reg!NoStranded /\ Reg!WaitersCounted /\ Reg!ClosedOnce /\ Reg!WokenHasHandler)
  <1>1. Reg!Init => RegInv
    BY RegStarts
  <1>2. RegInv /\ [Reg!Next]_(Reg!vars) => RegInv'
    BY RegNext
  <1>3. RegInv =>
          Reg!TypeOK /\ Reg!NoStranded /\ Reg!WaitersCounted /\ Reg!ClosedOnce /\ Reg!WokenHasHandler
    BY RegImplies
  <1> QED
    BY <1>1, <1>2, <1>3, PTL DEF Reg!Spec
-----------------------------------------------------------------------------
(* discovery/standalone. *)

(* The channels in the map are open, and each is that of one method. *)
AloneChans ==
    /\ chans \in Nat /\ closed \subseteq 1..chans /\ wait \in [Alone!Methods -> 0..chans]
    /\ \A m \in Alone!Methods : wait[m] \notin closed
    /\ \A m, n \in Alone!Methods : wait[m] = wait[n] /\ wait[m] # 0 => m = n

(* A caller that waits has a channel of its own method: it is closed once    *)
(* the method is registered, and in the map until then.                      *)
AloneCaller(c) ==
    /\ ask[c].pc # "missing"
    /\ ask[c].pc = "wait" =>
          /\ ask[c].method \in Alone!Methods /\ ask[c].chan \in 1..chans
          /\ ask[c].chan \in closed => ask[c].method \in alone
          /\ ask[c].chan \notin closed => wait[ask[c].method] = ask[c].chan
          /\ \A m \in Alone!Methods : wait[m] = ask[c].chan => m = ask[c].method

(* The inductive invariant of the standalone registry. *)
AloneInv == AloneChans /\ DOMAIN ask = AloneCallers /\ \A c \in AloneCallers : AloneCaller(c)

(* A registry without methods, channels and calls. *)
LEMMA AloneStarts == ASSUME Alone!Init PROVE AloneInv
  <1>1. /\ chans = 0 /\ closed = {} /\ wait = [m \in Alone!Methods |-> 0]
        /\ ask = [c \in AloneCallers |-> [pc |-> "idle", method |-> "", chan |-> 0]]
    BY DEF Alone!Init, Alone!Idle, Alone!NoChan
  <1>2. AloneChans
    <2>1. chans \in Nat /\ 0 \in 0..chans
      <3>1. 0 \in Nat /\ 0 \in 0..0
        OBVIOUS
      <3> QED
        BY <1>1, <3>1
    <2>2. wait \in [Alone!Methods -> 0..chans] /\ \A m \in Alone!Methods : wait[m] = 0
      BY <1>1, <2>1
    <2> QED
      BY <1>1, <2>1, <2>2 DEF AloneChans
  <1>3. \A c \in AloneCallers : AloneCaller(c)
    BY <1>1 DEF AloneCaller
  <1> QED
    BY <1>1, <1>2, <1>3 DEF AloneInv

(* registerService closes exactly the channels of the methods it adds. *)
LEMMA AloneRegister ==
    ASSUME AloneInv, NEW s \in AloneServices, Alone!RegisterService(s) PROVE AloneInv'
  <1>1. /\ alone' = alone \cup s /\ UNCHANGED <<chans, ask>>
        /\ closed' = closed \cup ({wait[m] : m \in s} \ {0})
        /\ wait' = [x \in Alone!Methods |-> IF x \in s THEN 0 ELSE wait[x]]
    BY DEF Alone!RegisterService, Alone!NoChan
  <1>2. s \subseteq Alone!Methods
    BY DEF Alone!Methods
  <1>3. AloneChans'
    <2> USE DEF AloneInv, AloneChans
    <2>1. closed' \subseteq 1..chans
      <3>1. \A m \in s : wait[m] \in 0..chans
        BY <1>2
      <3>2. chans \in Nat /\ closed \subseteq 1..chans
        OBVIOUS
      <3>3. ASSUME NEW x \in closed' PROVE x \in 1..chans
        <4>1. CASE x \in closed
          BY <3>2, <4>1
        <4>2. CASE x \notin closed
          <5>1. PICK m \in s : x = wait[m] /\ x # 0
            BY <1>1, <4>2
          <5> QED
            BY <3>1, <3>2, <5>1
        <4> QED
          BY <4>1, <4>2
      <3> QED
        BY <3>3
    <2>2. wait' \in [Alone!Methods -> 0..chans]
      BY <1>1
    <2>3. ASSUME NEW m \in Alone!Methods PROVE wait'[m] \notin closed'
      <3>1. 0 \notin closed
        OBVIOUS
      <3> QED
        BY <1>1, <1>2, <3>1
    <2>4. \A m, n \in Alone!Methods : wait'[m] = wait'[n] /\ wait'[m] # 0 => m = n
      BY <1>1
    <2> QED
      BY <1>1, <2>1, <2>2, <2>3, <2>4
  <1>4. ASSUME NEW c \in AloneCallers PROVE AloneCaller(c)'
    <2>1. AloneCaller(c)
      BY DEF AloneInv
    <2>2. CASE ask[c].pc # "wait"
      BY <1>1, <2>1, <2>2 DEF AloneCaller
    <2>3. CASE ask[c].pc = "wait"
      <3>1. ask[c].chan \in closed' => ask[c].method \in alone'
        BY <1>1, <1>2, <2>1, <2>3 DEF AloneCaller
      <3>2. ask[c].chan \notin closed' => wait'[ask[c].method] = ask[c].chan
        BY <1>1, <1>2, <2>1, <2>3 DEF AloneCaller, AloneInv, AloneChans
      <3>3. ASSUME NEW m \in Alone!Methods, wait'[m] = ask[c].chan PROVE m = ask[c].method
        BY <1>1, <2>1, <2>3, <3>3 DEF AloneCaller, AloneInv, AloneChans
      <3> QED
        BY <1>1, <2>1, <2>3, <3>1, <3>2, <3>3 DEF AloneCaller
    <2> QED
      BY <2>2, <2>3
  <1> QED
    BY <1>1, <1>3, <1>4 DEF AloneInv

(* getMethod: the channel of a method that is not registered is in the map  *)
(* from then on, and is that of no other method.                            *)
LEMMA AloneGet ==
    ASSUME AloneInv, NEW c \in AloneCallers, NEW m \in Alone!Methods, Alone!getMethod(c, m) PROVE AloneInv'
  <1>1. UNCHANGED <<alone, closed>>
    BY DEF Alone!getMethod
  <1>2. CASE m \in alone
    <2>1. /\ UNCHANGED <<wait, chans>>
          /\ ask' = [ask EXCEPT ![c] = [pc |-> "invoke", method |-> m, chan |-> 0]]
      BY <1>2 DEF Alone!getMethod, Alone!Idle, Alone!NoChan
    <2> QED
      BY <1>1, <2>1 DEF AloneInv, AloneChans, AloneCaller
  <1>3. CASE m \notin alone
    <2>1. /\ chans' = IF wait[m] = 0 THEN chans + 1 ELSE chans
          /\ wait' = IF wait[m] = 0 THEN [wait EXCEPT ![m] = chans + 1] ELSE wait
          /\ ask' = [ask EXCEPT ![c] = [pc |-> "wait", method |-> m, chan |-> wait'[m]]]
      BY <1>3 DEF Alone!getMethod, Alone!NoChan
    <2>2. AloneChans'
      BY <1>1, <2>1 DEF AloneInv, AloneChans
    <2>3. /\ wait'[m] \in 1..chans' /\ wait'[m] \notin closed
          /\ \A n \in Alone!Methods : n # m => wait'[n] = wait[n]
          /\ \A n \in Alone!Methods : wait'[n] = wait'[m] => n = m
      BY <2>1 DEF AloneInv, AloneChans
    <2>4. ASSUME NEW d \in AloneCallers PROVE AloneCaller(d)'
      <3>1. CASE d = c
        BY <1>1, <2>1, <2>3, <3>1 DEF AloneCaller, AloneInv
      <3>2. CASE d # c
        <4>1. ask'[d] = ask[d] /\ AloneCaller(d)
          BY <2>1, <3>2 DEF AloneInv
        <4>2. CASE ask[d].pc = "wait"
          <5>1. /\ ask[d].chan \in 1..chans /\ ask[d].method \in Alone!Methods
                /\ chans' \in Nat /\ chans \in Nat /\ chans <= chans'
            BY <2>1, <4>1, <4>2 DEF AloneCaller, AloneInv, AloneChans
          <5>2. ask[d].chan \notin closed => wait'[ask[d].method] = ask[d].chan
            BY <2>1, <4>1, <4>2, <5>1 DEF AloneCaller, AloneInv, AloneChans
          <5>3. ASSUME NEW n \in Alone!Methods, wait'[n] = ask[d].chan PROVE n = ask[d].method
            BY <2>1, <4>1, <4>2, <5>1, <5>3 DEF AloneCaller, AloneInv, AloneChans
          <5> QED
            BY <1>1, <4>1, <4>2, <5>1, <5>2, <5>3 DEF AloneCaller
        <4> QED
          BY <4>1, <4>2 DEF AloneCaller
      <3> QED
        BY <3>1, <3>2
    <2> QED
      BY <2>1, <2>2, <2>4 DEF AloneInv
  <1> QED
    BY <1>2, <1>3

(* Ends of waits and of calls, and the key-value store, leave methods and   *)
(* channels alone.                                                          *)
LEMMA AloneRest ==
    ASSUME AloneInv, UNCHANGED <<alone, wait, chans, closed>>,
           \/ UNCHANGED ask
           \/ \E c \in AloneCallers : Alone!getMethodEnds(c) \/ Alone!Invoke(c)
    PROVE  AloneInv'
  <1>1. CASE UNCHANGED ask
    BY <1>1 DEF AloneInv, AloneChans, AloneCaller
  <1>2. ASSUME NEW c \in AloneCallers, Alone!getMethodEnds(c) PROVE AloneInv'
    <2>1. ask[c].pc = "wait" /\ AloneCaller(c)
      BY <1>2 DEF Alone!getMethodEnds, AloneInv
    <2>2. \E p \in {"error", "invoke"} : ask' = [ask EXCEPT ![c].pc = p]
      BY <1>2, <2>1 DEF Alone!getMethodEnds, AloneCaller
    <2> QED
      BY <2>2 DEF AloneInv, AloneChans, AloneCaller
  <1>3. ASSUME NEW c \in AloneCallers, Alone!Invoke(c) PROVE AloneInv'
    <2>1. ask' = [ask EXCEPT ![c] = [pc |-> "idle", method |-> "", chan |-> 0]]
      BY <1>3 DEF Alone!Invoke, Alone!Idle, Alone!NoChan
    <2>2. DOMAIN ask' = AloneCallers /\ \A d \in AloneCallers : ask'[d].pc = "idle" \/ ask'[d] = ask[d]
      BY <2>1 DEF AloneInv
    <2>3. \A d \in AloneCallers : AloneCaller(d)'
      BY <2>2 DEF AloneInv, AloneCaller
    <2> QED
      BY <2>2, <2>3 DEF AloneInv, AloneChans
  <1> QED
    BY <1>1, <1>2, <1>3

(* Every step of the standalone registry. *)
LEMMA AloneNext == ASSUME AloneInv, [Alone!Next]_(Alone!vars) PROVE AloneInv'
  <1>1. ASSUME NEW k \in Keys, Alone!DelData(k) \/ \E v \in Values : Alone!SetKey(k, v) PROVE AloneInv'
    BY <1>1, AloneRest DEF Alone!DelData, Alone!SetKey, Alone!registry
  <1>2. CASE UNCHANGED Alone!vars
    BY <1>2, AloneRest DEF Alone!vars
  <1>3. ASSUME NEW c \in AloneCallers, Alone!getMethodEnds(c) \/ Alone!Invoke(c) PROVE AloneInv'
    BY <1>3, AloneRest DEF Alone!getMethodEnds, Alone!Invoke
  <1> QED
    BY <1>1, <1>2, <1>3, AloneRegister, AloneGet DEF Alone!Next

(* What the invariant of the standalone registry says of its properties. *)
LEMMA AloneImplies ==
    ASSUME AloneInv
    PROVE  Alone!NoStranded /\ Alone!WokenFinds
  BY DEF AloneInv, AloneCaller, Alone!NoStranded, Alone!WokenFinds

(* standalone: a caller waits on a channel that registration will close,    *)
(* and finds its method when it is woken, for any callers and services;     *)
(* callers that give up change nothing.                                     *)
THEOREM AloneServed ==
    Alone!Init /\ [][Alone!Next]_(Alone!vars) => [](Alone!NoStranded /\ Alone!WokenFinds)
  <1>1. Alone!Init => AloneInv
    BY AloneStarts
  <1>2. AloneInv /\ [Alone!Next]_(Alone!vars) => AloneInv'
    BY AloneNext
  <1>3. AloneInv =>
          Alone!NoStranded /\ Alone!WokenFinds
    BY AloneImplies
  <1> QED
    BY <1>1, <1>2, <1>3, PTL
-----------------------------------------------------------------------------
(* s3/cont: uploads by hash. *)

(* None is no content, upload or copy. *)
UploadSized == None \notin UpContents /\ None \notin Uploads /\ None \notin Copies /\ Large \subseteq UpContents

(* The locals of a call of CompleteUpload. *)
Locals == [pc : {"idle", "multipart", "stat", "copy", "publish", "uncache", "clean", "return"},
           u : Uploads \cup {None}, etag : UpContents \cup {None}, copy : Copies \cup {None}, ok : BOOLEAN]

(* Keys, uploads and parts have contents or none. *)
UploadTyped ==
    /\ store \in [Up!Keys -> UpContents \cup {None}] /\ cache \in [Up!Keys -> UpContents \cup {None}]
    /\ upload \in [Uploads -> UpContents \cup {None}] /\ parts \in [Uploads -> UpContents \cup {None}]
    /\ call \in [UpCalls -> Locals] /\ deletes \in Nat

(* The content of an upload is stored under its hash, unless a hash was      *)
(* deleted.                                                                  *)
Stored(u) == deletes = 0 => store[Up!HashPath(upload[u])] = upload[u]

(* What a call of CompleteUpload may rely on at each of its points: the copy *)
(* it publishes is its own and has the tag it compared with, and nobody      *)
(* takes back what it is about to report.                                    *)
UploadCall(c) ==
    /\ call[c].pc = "idle" => call[c].ok = FALSE
    /\ call[c].pc # "idle" => call[c].u \in Uploads /\ upload[call[c].u] \in UpContents
    /\ call[c].pc \in {"idle", "multipart", "stat", "copy"} => call[c].copy = None
    /\ call[c].pc \in {"copy", "publish"} => call[c].etag = upload[call[c].u]
    /\ call[c].pc = "publish" =>
          call[c].copy \in Copies /\ store[Up!CopyPath(call[c].copy)] = upload[call[c].u]
    /\ call[c].pc = "uncache" \/ call[c].ok => Stored(call[c].u)
    /\ call[c].pc = "return" /\ ~Faults /\ call[c].copy # None => store[Up!CopyPath(call[c].copy)] = None

(* Under a hash is its content, and the cache has not seen more. *)
UploadHashes ==
    \A h \in UpContents : /\ store[Up!HashPath(h)] \in {None, h}
                          /\ deletes = 0 /\ cache[Up!HashPath(h)] # None => store[Up!HashPath(h)] = h

(* No two calls have the same copy, and a copy that is left has its call. *)
UploadCopies ==
    /\ \A c, d \in UpCalls : call[c].copy = call[d].copy /\ call[c].copy # None => c = d
    /\ ~Faults => \A k \in Copies : store[Up!CopyPath(k)] # None => \E c \in UpCalls : call[c].copy = k

(* The inductive invariant of the uploads. *)
UploadInv == UploadTyped /\ UploadHashes /\ UploadCopies /\ \A c \in UpCalls : UploadCall(c)

(* Hash keys, temporary keys and keys of copies are all different. *)
LEMMA Paths ==
    /\ \A h, g : Up!HashPath(h) = Up!HashPath(g) => h = g
    /\ \A k, l : Up!CopyPath(k) = Up!CopyPath(l) => k = l
    /\ \A h, k : Up!HashPath(h) # Up!CopyPath(k)
    /\ \A h, u : Up!HashPath(h) # Up!TempPath(u)
    /\ \A k, u : Up!CopyPath(k) # Up!TempPath(u)
    /\ \A h \in UpContents : Up!HashPath(h) \in Up!Keys
    /\ \A k \in Copies : Up!CopyPath(k) \in Up!Keys
    /\ \A u \in Uploads : Up!TempPath(u) \in Up!Keys
  <1>1. /\ \A h, g : Up!HashPath(h) = Up!HashPath(g) => h = g
        /\ \A k, l : Up!CopyPath(k) = Up!CopyPath(l) => k = l
    BY DEF Up!HashPath, Up!CopyPath
  <1>2. "hash" # "copy" /\ "hash" # "temp" /\ "copy" # "temp"
    OBVIOUS
  <1>3. /\ \A h, k : Up!HashPath(h) # Up!CopyPath(k)
        /\ \A h, u : Up!HashPath(h) # Up!TempPath(u)
        /\ \A k, u : Up!CopyPath(k) # Up!TempPath(u)
    BY <1>2 DEF Up!HashPath, Up!CopyPath, Up!TempPath
  <1>4. /\ \A h \in UpContents : Up!HashPath(h) \in Up!Keys
        /\ \A k \in Copies : Up!CopyPath(k) \in Up!Keys
        /\ \A u \in Uploads : Up!TempPath(u) \in Up!Keys
    BY DEF Up!Keys
  <1> QED
    BY <1>1, <1>3, <1>4

(* An empty store without uploads and calls. *)
LEMMA UploadStarts == ASSUME UploadSized, Up!Init PROVE UploadInv
  <1>1. /\ store = [k \in Up!Keys |-> None] /\ cache = [k \in Up!Keys |-> None]
        /\ upload = [u \in Uploads |-> None] /\ parts = [u \in Uploads |-> None]
        /\ call = [c \in UpCalls |-> [pc |-> "idle", u |-> None, etag |-> None, copy |-> None, ok |-> FALSE]]
        /\ deletes = 0
    BY DEF Up!Init, Up!Idle
  <1>2. UploadTyped
    <2>1. [pc |-> "idle", u |-> None, etag |-> None, copy |-> None, ok |-> FALSE] \in Locals
      BY DEF Locals
    <2> QED
      BY <1>1, <2>1 DEF UploadTyped
  <1>3. UploadHashes
    BY <1>1, Paths DEF UploadHashes
  <1>4. UploadCopies
    BY <1>1, Paths DEF UploadCopies
  <1>5. \A c \in UpCalls : UploadCall(c)
    BY <1>1 DEF UploadCall
  <1> QED
    BY <1>2, <1>3, <1>4, <1>5 DEF UploadInv

(* What another call, a client or a deletion does leaves a call's            *)
(* assumptions true: its copy stays, and hashes are only ever added while    *)
(* nothing is deleted.                                                       *)
LEMMA UploadCallKept ==
    ASSUME UploadTyped, NEW c \in UpCalls, UploadCall(c), call'[c] = call[c],
           \A u \in Uploads : upload[u] \in UpContents => upload'[u] = upload[u],
           deletes' = 0 => deletes = 0 /\ \A h \in UpContents :
               store[Up!HashPath(h)] = h => store'[Up!HashPath(h)] = h,
           call[c].copy # None => \/ store'[Up!CopyPath(call[c].copy)] = store[Up!CopyPath(call[c].copy)]
                                  \/ call[c].pc # "publish" /\ store'[Up!CopyPath(call[c].copy)] = None,
           None \notin Copies
    PROVE  UploadCall(c)'
  <1>1. call[c] \in Locals
    BY DEF UploadTyped
  <1>2. CASE call[c].pc = "idle"
    <2>1. ~call[c].ok
      BY <1>2 DEF UploadCall
    <2> QED
      BY <1>2, <2>1 DEF UploadCall
  <1>3. CASE call[c].pc # "idle"
    <2>1. call[c].u \in Uploads /\ upload[call[c].u] \in UpContents /\ upload'[call[c].u] = upload[call[c].u]
      BY <1>3 DEF UploadCall
    <2>2. call[c].pc = "uncache" \/ call[c].ok => Stored(call[c].u)'
      BY <2>1 DEF UploadCall, Stored
    <2>3. call[c].pc = "publish" =>
            call[c].copy \in Copies /\ store'[Up!CopyPath(call[c].copy)] = upload[call[c].u]
      BY DEF UploadCall
    <2>4. call[c].pc = "return" /\ ~Faults /\ call[c].copy # None => store'[Up!CopyPath(call[c].copy)] = None
      BY DEF UploadCall
    <2> QED
      BY <1>3, <2>1, <2>2, <2>3, <2>4 DEF UploadCall
  <1> QED
    BY <1>2, <1>3

(* StatObject through the cache: while nothing is deleted, what it finds    *)
(* under a hash is in the store.                                            *)
LEMMA StatFinds ==
    ASSUME UploadInv, NEW k \in Up!Keys, Up!Cached(k)
    PROVE  /\ cache' \in [Up!Keys -> UpContents \cup {None}] /\ Up!StatObject(k) \in UpContents \cup {None}
           /\ \A h \in UpContents : deletes = 0 /\ cache'[Up!HashPath(h)] # None => store[Up!HashPath(h)] = h
           /\ \A h \in UpContents : k = Up!HashPath(h) /\ deletes = 0 /\ Up!StatObject(k) # None
                                      => store[Up!HashPath(h)] = h
  <1>1. Up!StatObject(k) \in UpContents \cup {None}
    BY DEF Up!StatObject, UploadInv, UploadTyped
  <1>2. \A h \in UpContents : k = Up!HashPath(h) /\ deletes = 0 /\ Up!StatObject(k) # None
                                => store[Up!HashPath(h)] = h
    BY DEF Up!StatObject, UploadInv, UploadHashes
  <1>3. cache' \in [Up!Keys -> UpContents \cup {None}]
    BY <1>1 DEF Up!Cached, UploadInv, UploadTyped
  <1>4. \A l \in Up!Keys : cache'[l] = IF l = k THEN Up!StatObject(k) ELSE cache[l]
    BY DEF Up!Cached, UploadInv, UploadTyped
  <1>5. \A h \in UpContents : deletes = 0 /\ cache'[Up!HashPath(h)] # None => store[Up!HashPath(h)] = h
    BY <1>2, <1>4, Paths DEF UploadInv, UploadHashes
  <1> QED
    BY <1>1, <1>2, <1>3, <1>5

(* Clients, the cache and deletions change no call. *)
LEMMA UploadOthers ==
    ASSUME UploadSized, UploadInv,
           \/ \E u \in Uploads : Up!Client(u)
           \/ \E k \in Up!Keys : Up!Expire(k)
           \/ \E h \in UpContents : Up!DeleteObject(h)
    PROVE  UploadInv'
  <1>1. ASSUME NEW u \in Uploads, NEW h \in UpContents, Up!InitiateUpload(u, h) PROVE UploadInv'
    <2>1. /\ Up!Cached(Up!HashPath(h)) /\ UNCHANGED <<store, parts, call, deletes>> /\ upload[u] = None
          /\ \A v \in Uploads : upload[v] \in UpContents => upload'[v] = upload[v]
          /\ upload' \in [Uploads -> UpContents \cup {None}]
      BY <1>1 DEF Up!InitiateUpload, UploadInv, UploadTyped, UploadSized
    <2>2. /\ cache' \in [Up!Keys -> UpContents \cup {None}]
          /\ \A g \in UpContents : deletes = 0 /\ cache'[Up!HashPath(g)] # None => store[Up!HashPath(g)] = g
      BY <2>1, StatFinds, Paths
    <2>3. \A c \in UpCalls : UploadCall(c)'
      BY <2>1, UploadCallKept DEF UploadInv, UploadSized
    <2> QED
      BY <2>1, <2>2, <2>3 DEF UploadInv, UploadTyped, UploadHashes, UploadCopies
  <1>2. ASSUME NEW u \in Uploads, NEW h \in UpContents, Up!ClientPut(u, h) PROVE UploadInv'
    <2>1. store' = [store EXCEPT ![Up!TempPath(u)] = h] /\ UNCHANGED <<cache, upload, parts, call, deletes>>
      BY <1>2 DEF Up!ClientPut
    <2>2. /\ \A g \in UpContents : store'[Up!HashPath(g)] = store[Up!HashPath(g)]
          /\ \A k \in Copies : store'[Up!CopyPath(k)] = store[Up!CopyPath(k)]
          /\ store' \in [Up!Keys -> UpContents \cup {None}]
      BY <2>1, Paths DEF UploadInv, UploadTyped
    <2>3. ASSUME NEW c \in UpCalls PROVE UploadCall(c)'
      <3>1. call[c].copy \in Copies \cup {None}
        BY DEF UploadInv, UploadTyped, Locals
      <3> QED
        BY <2>1, <2>2, <3>1, UploadCallKept DEF UploadInv, UploadSized
    <2> QED
      BY <2>1, <2>2, <2>3 DEF UploadInv, UploadTyped, UploadHashes, UploadCopies
  <1>3. ASSUME NEW u \in Uploads, NEW h \in UpContents, Up!ClientParts(u, h) PROVE UploadInv'
    <2>1. parts' = [parts EXCEPT ![u] = h] /\ UNCHANGED <<store, cache, upload, call, deletes>>
      BY <1>3 DEF Up!ClientParts
    <2>2. parts' \in [Uploads -> UpContents \cup {None}]
      BY <2>1 DEF UploadInv, UploadTyped
    <2>3. \A c \in UpCalls : UploadCall(c)'
      BY <2>1, UploadCallKept DEF UploadInv, UploadSized
    <2> QED
      BY <2>1, <2>2, <2>3 DEF UploadInv, UploadTyped, UploadHashes, UploadCopies
  <1>4. ASSUME NEW k \in Up!Keys, Up!Expire(k) PROVE UploadInv'
    <2>1. cache' = [cache EXCEPT ![k] = None] /\ UNCHANGED <<store, upload, parts, call, deletes>>
      BY <1>4 DEF Up!Expire
    <2>2. /\ cache' \in [Up!Keys -> UpContents \cup {None}]
          /\ \A l \in Up!Keys : cache'[l] # None => cache'[l] = cache[l]
      BY <2>1 DEF UploadInv, UploadTyped
    <2>3. \A c \in UpCalls : UploadCall(c)'
      BY <2>1, UploadCallKept DEF UploadInv, UploadSized
    <2> QED
      BY <2>1, <2>2, <2>3, Paths DEF UploadInv, UploadTyped, UploadHashes, UploadCopies
  <1>5. ASSUME NEW h \in UpContents, Up!DeleteObject(h) PROVE UploadInv'
    <2>1. /\ store' = [store EXCEPT ![Up!HashPath(h)] = None] /\ UNCHANGED <<cache, upload, parts, call>>
          /\ deletes' = deletes + 1
      BY <1>5 DEF Up!DeleteObject
    <2>2. /\ \A g \in UpContents : store'[Up!HashPath(g)] \in {None, store[Up!HashPath(g)]}
          /\ \A k \in Copies : store'[Up!CopyPath(k)] = store[Up!CopyPath(k)]
          /\ store' \in [Up!Keys -> UpContents \cup {None}]
      BY <2>1, Paths DEF UploadInv, UploadTyped
    <2>3. deletes' \in Nat /\ deletes' # 0
      BY <2>1 DEF UploadInv, UploadTyped
    <2>4. ASSUME NEW c \in UpCalls PROVE UploadCall(c)'
      <3>1. call[c].copy \in Copies \cup {None}
        BY DEF UploadInv, UploadTyped, Locals
      <3> QED
        BY <2>1, <2>2, <2>3, <3>1, UploadCallKept DEF UploadInv, UploadSized
    <2> QED
      BY <2>1, <2>2, <2>3, <2>4 DEF UploadInv, UploadTyped, UploadHashes, UploadCopies
  <1> QED
    BY <1>1, <1>2, <1>3, <1>4, <1>5 DEF Up!Client

(* A step of a call that takes no copy: it may store a content under its     *)
(* hash, forget what the cache knew and remove its own copy.                 *)
StepOf(c, r) ==
    /\ r \in Locals /\ call' = [call EXCEPT ![c] = r] /\ r.copy \in {None, call[c].copy}
    /\ store' \in [Up!Keys -> UpContents \cup {None}] /\ cache' \in [Up!Keys -> UpContents \cup {None}]
    /\ parts' \in [Uploads -> UpContents \cup {None}] /\ UNCHANGED <<upload, deletes>>
    /\ \A h \in UpContents : store'[Up!HashPath(h)] \in {h, store[Up!HashPath(h)]}
    /\ \A h \in UpContents : deletes = 0 /\ cache'[Up!HashPath(h)] # None => store'[Up!HashPath(h)] = h
    /\ \A k \in Copies : \/ store'[Up!CopyPath(k)] = store[Up!CopyPath(k)]
                         \/ store'[Up!CopyPath(k)] = None /\ k = call[c].copy
    /\ ~Faults => r.copy = call[c].copy \/ store'[Up!CopyPath(call[c].copy)] = None

(* Such a step keeps the invariant, if the call itself is where it should   *)
(* be: the other calls have copies of their own.                            *)
LEMMA UploadStep ==
    ASSUME UploadSized, UploadInv, NEW c \in UpCalls, NEW r, StepOf(c, r), UploadCall(c)' PROVE UploadInv'
  <1> USE DEF StepOf
  <1>1. /\ call' \in [UpCalls -> Locals] /\ call'[c] = r
        /\ \A d \in UpCalls : d # c => call'[d] = call[d]
    BY DEF UploadInv, UploadTyped
  <1>2. UploadTyped'
    BY <1>1 DEF UploadInv, UploadTyped
  <1>3. UploadHashes'
    BY DEF UploadInv, UploadHashes
  <1>4. UploadCopies'
    <2>1. \A d, e \in UpCalls : call'[d].copy = call'[e].copy /\ call'[d].copy # None => d = e
      <3>1. \A d \in UpCalls : call'[d].copy \in {None, call[d].copy}
        BY <1>1
      <3> QED
        BY <3>1 DEF UploadInv, UploadCopies
    <2>2. ASSUME ~Faults, NEW k \in Copies, store'[Up!CopyPath(k)] # None PROVE \E d \in UpCalls : call'[d].copy = k
      <3>1. store[Up!CopyPath(k)] # None
        BY <2>2
      <3>2. PICK d \in UpCalls : call[d].copy = k
        BY <2>2, <3>1 DEF UploadInv, UploadCopies
      <3>3. CASE d = c
        BY <1>1, <2>2, <3>2, <3>3
      <3>4. CASE d # c
        BY <1>1, <3>2, <3>4
      <3> QED
        BY <3>3, <3>4
    <2> QED
      BY <2>1, <2>2 DEF UploadCopies
  <1>5. ASSUME NEW d \in UpCalls PROVE UploadCall(d)'
    <2>1. CASE d = c
      BY <2>1
    <2>2. CASE d # c
      <3>1. call[d].copy \in Copies \cup {None}
        BY DEF UploadInv, UploadTyped, Locals
      <3>2. call[d].copy # None => call[d].copy # call[c].copy
        BY <2>2 DEF UploadInv, UploadCopies
      <3>3. call[d].copy # None => store'[Up!CopyPath(call[d].copy)] = store[Up!CopyPath(call[d].copy)]
        BY <3>1, <3>2
      <3>4. \A h \in UpContents : store[Up!HashPath(h)] = h => store'[Up!HashPath(h)] = h
        OBVIOUS
      <3>5. UploadTyped /\ UploadCall(d) /\ call'[d] = call[d]
        BY <1>1, <2>2 DEF UploadInv
      <3> QED
        BY <3>3, <3>4, <3>5, UploadCallKept DEF UploadSized
    <2> QED
      BY <2>1, <2>2
  <1> QED
    BY <1>2, <1>3, <1>4, <1>5 DEF UploadInv

(* CompleteUpload up to the first look at the hash key. *)
LEMMA UploadCompletes ==
    ASSUME UploadSized, UploadInv, NEW c \in UpCalls, NEW u \in Uploads, Up!Complete(c, u) PROVE UploadInv'
  <1> PICK found : found = (Up!StatObject(Up!HashPath(upload[u])) # None)
    OBVIOUS
  <1> PICK p, r : /\ p = (IF found THEN "return" ELSE IF upload[u] \in Large THEN "multipart" ELSE "stat")
                  /\ r = [Up!Idle EXCEPT !.u = u, !.ok = found, !.pc = p]
    OBVIOUS
  <1>1. /\ call[c].pc = "idle" /\ upload[u] # None /\ Up!Cached(Up!HashPath(upload[u]))
        /\ UNCHANGED <<store, upload, parts, deletes>> /\ call' = [call EXCEPT ![c] = r]
    BY DEF Up!Complete, Up!At, Up!Set
  <1>2. upload[u] \in UpContents /\ call[c].copy = None
    BY <1>1 DEF UploadInv, UploadTyped, UploadCall
  <1>3. /\ cache' \in [Up!Keys -> UpContents \cup {None}]
        /\ \A h \in UpContents : deletes = 0 /\ cache'[Up!HashPath(h)] # None => store[Up!HashPath(h)] = h
        /\ found => Stored(u)
    BY <1>1, <1>2, StatFinds, Paths DEF Stored
  <1>4. r \in Locals /\ r.pc = p /\ r.u = u /\ r.copy = None /\ r.ok = found
    <2>1. found \in BOOLEAN /\ p \in {"return", "multipart", "stat"}
      OBVIOUS
    <2> QED
      BY <2>1 DEF Locals, Up!Idle
  <1>5. call'[c] = r
    BY <1>1 DEF UploadInv, UploadTyped
  <1>6. UploadCall(c)'
    <2>1. r.ok => Stored(u)'
      BY <1>1, <1>3, <1>4 DEF Stored
    <2>2. r.u = u /\ r.copy = None /\ r.pc \in {"return", "multipart", "stat"}
      BY <1>4
    <2> QED
      BY <1>1, <1>2, <1>5, <2>1, <2>2 DEF UploadCall, Stored
  <1>8. store' \in [Up!Keys -> UpContents \cup {None}] /\ parts' \in [Uploads -> UpContents \cup {None}]
    BY <1>1 DEF UploadInv, UploadTyped
  <1>9. StepOf(c, r)
    BY <1>1, <1>2, <1>3, <1>4, <1>8 DEF StepOf
  <1> QED
    BY <1>6, <1>9, UploadStep

(* A multipart upload goes to the hash key only if its parts fit. *)
LEMMA UploadMultipart ==
    ASSUME UploadSized, UploadInv, NEW c \in UpCalls, Up!CompleteMultipart(c) PROVE UploadInv'
  <1> PICK u, p, r : /\ u = call[c].u /\ p = (IF parts[u] = upload[u] THEN "uncache" ELSE "return")
                     /\ r = [call[c] EXCEPT !.pc = p]
    OBVIOUS
  <1>0. call[c] \in Locals /\ p \in {"uncache", "return"}
    BY DEF UploadInv, UploadTyped
  <1>1. /\ r \in Locals /\ r.pc = p /\ r.ok = call[c].ok /\ r.u = u /\ r.copy = call[c].copy
    BY <1>0 DEF Locals
  <1>2. /\ call[c].pc = "multipart" /\ call' = [call EXCEPT ![c] = r] /\ UNCHANGED <<cache, upload, deletes>>
        /\ store' = IF parts[u] = upload[u] THEN [store EXCEPT ![Up!HashPath(upload[u])] = parts[u]] ELSE store
        /\ parts' = IF parts[u] = upload[u] THEN [parts EXCEPT ![u] = None] ELSE parts
    BY <1>1 DEF Up!CompleteMultipart, Up!At, Up!Goto, Up!Set
  <1>3. u \in Uploads /\ upload[u] \in UpContents /\ call[c].copy = None /\ UploadCall(c)
    BY <1>2 DEF UploadInv, UploadCall
  <1>4. /\ store' \in [Up!Keys -> UpContents \cup {None}] /\ parts' \in [Uploads -> UpContents \cup {None}]
        /\ cache' \in [Up!Keys -> UpContents \cup {None}]
        /\ \A h \in UpContents : store'[Up!HashPath(h)] \in {h, store[Up!HashPath(h)]}
        /\ \A k \in Copies : store'[Up!CopyPath(k)] = store[Up!CopyPath(k)]
        /\ parts[u] = upload[u] => store'[Up!HashPath(upload[u])] = upload[u]
    BY <1>2, <1>3, Paths DEF UploadInv, UploadTyped
  <1>5. \A h \in UpContents : deletes = 0 /\ cache'[Up!HashPath(h)] # None => store'[Up!HashPath(h)] = h
    BY <1>2, <1>4 DEF UploadInv, UploadHashes
  <1>6. call'[c] = r
    BY <1>2 DEF UploadInv, UploadTyped
  <1>7. UploadCall(c)'
    <2>1. r.pc = "uncache" \/ r.ok => Stored(u)'
      BY <1>1, <1>2, <1>3, <1>4 DEF Stored, UploadCall
    <2>2. r.pc \in {"uncache", "return"}
      BY <1>1
    <2> QED
      BY <1>1, <1>2, <1>3, <1>6, <2>1, <2>2 DEF UploadCall, Stored
  <1>9. StepOf(c, r)
    BY <1>1, <1>2, <1>4, <1>5 DEF StepOf
  <1> QED
    BY <1>7, <1>9, UploadStep

(* The tag of the temporary object is that of the upload, or the call ends. *)
LEMMA UploadStats ==
    ASSUME UploadSized, UploadInv, NEW c \in UpCalls, Up!StatTemp(c) PROVE UploadInv'
  <1> PICK u, etag, p, r :
         /\ u = call[c].u /\ etag = Up!StatObject(Up!TempPath(u))
         /\ p = (IF etag = None THEN "return" ELSE IF etag = upload[u] THEN "copy" ELSE "clean")
         /\ r = [call[c] EXCEPT !.etag = etag, !.pc = p]
    OBVIOUS
  <1>1. /\ call[c].pc = "stat" /\ Up!Cached(Up!TempPath(u)) /\ call' = [call EXCEPT ![c] = r]
        /\ UNCHANGED <<store, upload, parts, deletes>>
    BY DEF Up!StatTemp, Up!At, Up!Set
  <1>2. u \in Uploads /\ upload[u] \in UpContents /\ call[c].copy = None /\ UploadCall(c) /\ call[c] \in Locals
    BY <1>1 DEF UploadInv, UploadCall, UploadTyped
  <1>3. /\ cache' \in [Up!Keys -> UpContents \cup {None}] /\ etag \in UpContents \cup {None}
        /\ \A h \in UpContents : deletes = 0 /\ cache'[Up!HashPath(h)] # None => store[Up!HashPath(h)] = h
    BY <1>1, <1>2, StatFinds, Paths
  <1>4. p \in {"return", "copy", "clean"} /\ (p = "copy" => etag = upload[u])
    OBVIOUS
  <1>5. r \in Locals /\ r.u = u /\ r.etag = etag /\ r.pc = p /\ r.copy = None /\ r.ok = call[c].ok
    BY <1>2, <1>3, <1>4 DEF Locals
  <1>6. call'[c] = r
    BY <1>1 DEF UploadInv, UploadTyped
  <1>7. UploadCall(c)'
    <2>1. r.ok => Stored(u)'
      BY <1>1, <1>2, <1>5 DEF UploadCall, Stored
    <2> QED
      BY <1>1, <1>2, <1>4, <1>5, <1>6, <2>1 DEF UploadCall, Stored
  <1>8. store' \in [Up!Keys -> UpContents \cup {None}] /\ parts' \in [Uploads -> UpContents \cup {None}]
    BY <1>1 DEF UploadInv, UploadTyped
  <1>9. StepOf(c, r)
    BY <1>1, <1>2, <1>3, <1>5, <1>7, <1>8 DEF StepOf
  <1> QED
    BY <1>7, <1>9, UploadStep

(* The copy to the hash key is of this call's own copy. *)
LEMMA UploadPublishes ==
    ASSUME UploadSized, UploadInv, NEW c \in UpCalls, Up!Publish(c) PROVE UploadInv'
  <1> PICK u, p, r : /\ u = call[c].u /\ p \in {"uncache", "clean"}
                     /\ r = [call[c] EXCEPT !.pc = p]
                     /\ call' = [call EXCEPT ![c] = r]
                     /\ \/ p = "clean" /\ store' = store
                        \/ /\ p = "uncache"
                           /\ store' = [store EXCEPT ![Up!HashPath(upload[u])] = store[Up!CopyPath(call[c].copy)]]
    BY Zenon DEF Up!Publish, Up!Goto, Up!Set
  <1>0. call[c] \in Locals
    BY DEF UploadInv, UploadTyped
  <1>1. /\ r \in Locals /\ r.pc = p /\ r.ok = call[c].ok /\ r.u = u /\ r.copy = call[c].copy
    BY <1>0 DEF Locals
  <1>2. call[c].pc = "publish" /\ UNCHANGED <<cache, upload, parts, deletes>>
    BY <1>1 DEF Up!Publish, Up!At
  <1>3. /\ u \in Uploads /\ upload[u] \in UpContents /\ UploadCall(c)
        /\ store[Up!CopyPath(call[c].copy)] = upload[u]
    BY <1>2 DEF UploadInv, UploadCall
  <1>4. /\ store' \in [Up!Keys -> UpContents \cup {None}] /\ parts' \in [Uploads -> UpContents \cup {None}]
        /\ cache' \in [Up!Keys -> UpContents \cup {None}]
        /\ \A h \in UpContents : store'[Up!HashPath(h)] \in {h, store[Up!HashPath(h)]}
        /\ \A k \in Copies : store'[Up!CopyPath(k)] = store[Up!CopyPath(k)]
        /\ p = "uncache" => store'[Up!HashPath(upload[u])] = upload[u]
    BY <1>2, <1>3, Paths DEF UploadInv, UploadTyped
  <1>5. \A h \in UpContents : deletes = 0 /\ cache'[Up!HashPath(h)] # None => store'[Up!HashPath(h)] = h
    BY <1>2, <1>4 DEF UploadInv, UploadHashes
  <1>6. call'[c] = r
    BY <1>2 DEF UploadInv, UploadTyped
  <1>7. UploadCall(c)'
    <2>1. r.pc = "uncache" \/ r.ok => Stored(u)'
      BY <1>1, <1>2, <1>3, <1>4 DEF Stored, UploadCall
    <2> QED
      BY <1>1, <1>2, <1>3, <1>6, <2>1 DEF UploadCall, Stored
  <1>9. StepOf(c, r)
    BY <1>1, <1>2, <1>4, <1>5 DEF StepOf
  <1> QED
    BY <1>7, <1>9, UploadStep

(* DelS3Key, whose success is that of the call. *)
LEMMA UploadUncaches ==
    ASSUME UploadSized, UploadInv, NEW c \in UpCalls, Up!Uncache(c) PROVE UploadInv'
  <1> PICK u, ok, r : /\ u = call[c].u /\ ok \in BOOLEAN /\ (ok \/ ok = call[c].ok)
                      /\ r = [call[c] EXCEPT !.pc = "clean", !.ok = ok]
                      /\ call' = [call EXCEPT ![c] = r]
                      /\ cache' = cache \/ cache' = [cache EXCEPT ![Up!HashPath(upload[u])] = None]
    <2>1. call[c].ok \in BOOLEAN /\ call[c] \in Locals
      BY DEF UploadInv, UploadTyped, Locals
    <2>2. [call[c] EXCEPT !.pc = "clean"] = [call[c] EXCEPT !.pc = "clean", !.ok = call[c].ok]
      BY <2>1 DEF Locals
    <2>3. \/ /\ call' = [call EXCEPT ![c] = [call[c] EXCEPT !.pc = "clean", !.ok = TRUE]]
             /\ cache' = [cache EXCEPT ![Up!HashPath(upload[call[c].u])] = None]
          \/ /\ call' = [call EXCEPT ![c] = [call[c] EXCEPT !.pc = "clean", !.ok = call[c].ok]]
             /\ cache' = cache
      BY <2>2 DEF Up!Uncache, Up!Goto, Up!Set
    <2> QED
      BY <2>1, <2>3
  <1>1. r \in Locals /\ r.pc = "clean" /\ r.ok = ok /\ r.u = u /\ r.copy = call[c].copy
    <2>1. call[c] \in Locals
      BY DEF UploadInv, UploadTyped
    <2> QED
      BY <2>1 DEF Locals
  <1>2. call[c].pc = "uncache" /\ UNCHANGED <<store, upload, parts, deletes>>
    BY DEF Up!Uncache, Up!At
  <1>3. u \in Uploads /\ upload[u] \in UpContents /\ UploadCall(c) /\ Stored(u)
    BY <1>2 DEF UploadInv, UploadCall
  <1>4. /\ store' \in [Up!Keys -> UpContents \cup {None}] /\ parts' \in [Uploads -> UpContents \cup {None}]
        /\ cache' \in [Up!Keys -> UpContents \cup {None}]
        /\ \A k \in Up!Keys : cache'[k] # None => cache'[k] = cache[k]
    BY <1>2 DEF UploadInv, UploadTyped
  <1>5. \A h \in UpContents : deletes = 0 /\ cache'[Up!HashPath(h)] # None => store'[Up!HashPath(h)] = h
    BY <1>2, <1>4, Paths DEF UploadInv, UploadHashes
  <1>6. call'[c] = r
    BY <1>2 DEF UploadInv, UploadTyped
  <1>7. UploadCall(c)'
    <2>1. Stored(u)'
      BY <1>2, <1>3 DEF Stored
    <2> QED
      BY <1>1, <1>2, <1>3, <1>6, <2>1 DEF UploadCall, Stored
  <1>9. StepOf(c, r)
    BY <1>1, <1>2, <1>4, <1>5 DEF StepOf
  <1> QED
    BY <1>7, <1>9, UploadStep

(* The deferred deletions reach the call's own keys only, and all of them   *)
(* when nothing fails.                                                      *)
LEMMA UploadCleans ==
    ASSUME UploadSized, UploadInv, NEW c \in UpCalls, Up!Clean(c) PROVE UploadInv'
  <1> PICK u, r : u = call[c].u /\ r = [call[c] EXCEPT !.pc = "return"]
    OBVIOUS
  <1> DEFINE keys == (IF call[c].etag = None THEN {} ELSE {Up!TempPath(call[c].u)})
                       \cup {Up!CopyPath(k) : k \in {call[c].copy} \ {None}}
  <1>1. /\ call[c].pc = "clean" /\ call' = [call EXCEPT ![c] = r] /\ UNCHANGED <<cache, upload, parts, deletes>>
        /\ \E gone \in (IF Faults THEN SUBSET keys ELSE {keys}) :
              store' = [k \in Up!Keys |-> IF k \in gone THEN None ELSE store[k]]
    BY DEF Up!Clean, Up!At, Up!Goto, Up!Set
  <1>2. /\ \A h : Up!HashPath(h) \notin keys
        /\ \A k : Up!CopyPath(k) \in keys => k = call[c].copy
        /\ call[c].copy # None => Up!CopyPath(call[c].copy) \in keys
    BY Paths
  <1> HIDE DEF keys
  <1>3. PICK gone : /\ gone \subseteq keys /\ (~Faults => gone = keys)
                    /\ store' = [k \in Up!Keys |-> IF k \in gone THEN None ELSE store[k]]
    BY <1>1
  <1>4. call[c] \in Locals /\ UploadCall(c)
    BY DEF UploadInv, UploadTyped
  <1>5. r \in Locals /\ r.pc = "return" /\ r.ok = call[c].ok /\ r.u = u /\ r.copy = call[c].copy
    BY <1>4 DEF Locals
  <1>6. /\ store' \in [Up!Keys -> UpContents \cup {None}] /\ parts' \in [Uploads -> UpContents \cup {None}]
        /\ cache' \in [Up!Keys -> UpContents \cup {None}]
    BY <1>1, <1>3 DEF UploadInv, UploadTyped
  <1>7. \A h \in UpContents : store'[Up!HashPath(h)] = store[Up!HashPath(h)]
    BY <1>2, <1>3, Paths
  <1>8. /\ \A k \in Copies : \/ store'[Up!CopyPath(k)] = store[Up!CopyPath(k)]
                             \/ store'[Up!CopyPath(k)] = None /\ k = call[c].copy
        /\ ~Faults /\ call[c].copy # None => store'[Up!CopyPath(call[c].copy)] = None
    <2>1. call[c].copy # None => call[c].copy \in Copies
      BY <1>4 DEF Locals
    <2> QED
      BY <1>2, <1>3, <2>1, Paths
  <1>9. StepOf(c, r)
    BY <1>1, <1>5, <1>6, <1>7, <1>8 DEF StepOf, UploadInv, UploadHashes
  <1>10. call'[c] = r
    BY <1>1 DEF UploadInv, UploadTyped
  <1>11. UploadCall(c)'
    <2>1. u \in Uploads /\ upload[u] \in UpContents
      BY <1>1, <1>4 DEF UploadCall
    <2>2. r.ok => Stored(u)'
      BY <1>1, <1>4, <1>5, <1>7, <2>1 DEF UploadCall, Stored
    <2> QED
      BY <1>1, <1>5, <1>8, <1>10, <2>1, <2>2 DEF UploadCall, Stored
  <1> QED
    BY <1>9, <1>11, UploadStep

(* The call is over, and owns no copy any more. *)
LEMMA UploadReturns ==
    ASSUME UploadSized, UploadInv, NEW c \in UpCalls, Up!Return(c) PROVE UploadInv'
  <1> PICK r : r = Up!Idle
    OBVIOUS
  <1>1. /\ call[c].pc = "return" /\ call' = [call EXCEPT ![c] = r]
        /\ UNCHANGED <<store, cache, upload, parts, deletes>>
    BY DEF Up!Return, Up!At, Up!Set
  <1>2. r \in Locals /\ r.pc = "idle" /\ r.ok = FALSE /\ r.copy = None
    BY DEF Up!Idle, Locals
  <1>3. ~Faults => r.copy = call[c].copy \/ store[Up!CopyPath(call[c].copy)] = None
    BY <1>1, <1>2 DEF UploadInv, UploadCall
  <1>4. StepOf(c, r)
    BY <1>1, <1>2, <1>3 DEF StepOf, UploadInv, UploadHashes, UploadTyped
  <1>5. call'[c] = r
    BY <1>1 DEF UploadInv, UploadTyped
  <1>6. UploadCall(c)'
    BY <1>2, <1>5 DEF UploadCall
  <1> QED
    BY <1>4, <1>6, UploadStep

(* The copy that guards against clients who put again: its key is new. *)
LEMMA UploadTakesCopy ==
    ASSUME UploadSized, UploadInv, NEW c \in UpCalls, Up!Copy(c) PROVE UploadInv'
  <1>1. PICK k \in Copies :
           /\ call[c].pc = "copy" /\ store[Up!CopyPath(k)] = None /\ \A d \in UpCalls : call[d].copy # k
           /\ store' = [store EXCEPT ![Up!CopyPath(k)] = store[Up!TempPath(call[c].u)]]
           /\ call' = [call EXCEPT ![c] = [call[c] EXCEPT
                 !.copy = IF store[Up!TempPath(call[c].u)] = None THEN None ELSE k,
                 !.pc = IF store[Up!TempPath(call[c].u)] # None /\ store[Up!TempPath(call[c].u)] = call[c].etag
                        THEN "publish" ELSE "clean"]]
           /\ UNCHANGED <<cache, upload, parts, deletes>>
    BY DEF Up!Copy, Up!At, Up!Set
  <1> PICK u, content, copy, p, r :
         /\ u = call[c].u /\ content = store[Up!TempPath(u)]
         /\ copy = (IF content = None THEN None ELSE k)
         /\ p = (IF content # None /\ content = call[c].etag THEN "publish" ELSE "clean")
         /\ r = [call[c] EXCEPT !.copy = copy, !.pc = p]
    OBVIOUS
  <1>2. call' = [call EXCEPT ![c] = r] /\ store' = [store EXCEPT ![Up!CopyPath(k)] = content]
    BY <1>1
  <1>3. call[c] \in Locals /\ UploadCall(c) /\ u \in Uploads /\ upload[u] \in UpContents /\ call[c].etag = upload[u]
    BY <1>1 DEF UploadInv, UploadTyped, UploadCall
  <1>4. content \in UpContents \cup {None}
    BY <1>3, Paths DEF UploadInv, UploadTyped
  <1>5. /\ r \in Locals /\ r.pc = p /\ r.copy = copy /\ r.u = u /\ r.etag = call[c].etag /\ r.ok = call[c].ok
        /\ p \in {"publish", "clean"} /\ copy \in {None, k}
    BY <1>3 DEF Locals
  <1>6. /\ store' \in [Up!Keys -> UpContents \cup {None}]
        /\ \A h \in UpContents : store'[Up!HashPath(h)] = store[Up!HashPath(h)]
        /\ \A l \in Copies : l # k => store'[Up!CopyPath(l)] = store[Up!CopyPath(l)]
        /\ store'[Up!CopyPath(k)] = content
    BY <1>2, <1>4, Paths DEF UploadInv, UploadTyped
  <1>7. /\ call' \in [UpCalls -> Locals] /\ call'[c] = r
        /\ \A d \in UpCalls : d # c => call'[d] = call[d]
    BY <1>2, <1>5 DEF UploadInv, UploadTyped
  <1>8. UploadTyped' /\ UploadHashes'
    BY <1>1, <1>6, <1>7 DEF UploadInv, UploadTyped, UploadHashes
  <1>9. UploadCopies'
    <2>1. \A d, e \in UpCalls : call'[d].copy = call'[e].copy /\ call'[d].copy # None => d = e
      <3>1. \A d \in UpCalls : d # c => call'[d].copy = call[d].copy /\ call[d].copy # k
        BY <1>1, <1>7
      <3>2. call'[c].copy \in {None, k}
        BY <1>5, <1>7
      <3> QED
        BY <3>1, <3>2 DEF UploadInv, UploadCopies
    <2>2. ASSUME ~Faults, NEW l \in Copies, store'[Up!CopyPath(l)] # None PROVE \E d \in UpCalls : call'[d].copy = l
      <3>1. CASE l = k
        <4>1. content # None
          BY <1>6, <2>2, <3>1
        <4>2. call'[c].copy = k
          BY <1>5, <1>7, <4>1
        <4> QED
          BY <3>1, <4>2
      <3>2. CASE l # k
        <4>1. PICK d \in UpCalls : call[d].copy = l
          BY <1>6, <2>2, <3>2 DEF UploadInv, UploadCopies
        <4>2. d # c
          <5>1. call[c].copy = None
            BY <1>1, <1>3 DEF UploadCall
          <5> QED
            BY <4>1, <5>1 DEF UploadSized
        <4> QED
          BY <1>7, <4>1, <4>2
      <3> QED
        BY <3>1, <3>2
    <2> QED
      BY <2>1, <2>2 DEF UploadCopies
  <1>10. ASSUME NEW d \in UpCalls PROVE UploadCall(d)'
    <2>1. CASE d = c
      <3>1. p = "publish" => copy = k /\ content = upload[u]
        BY <1>3
      <3>2. p = "publish" => copy \in Copies /\ store'[Up!CopyPath(copy)] = upload[u]
        BY <1>6, <3>1
      <3>3. r.ok => Stored(u)'
        BY <1>1, <1>3, <1>5, <1>6 DEF UploadCall, Stored
      <3>4. UploadCall(c)'
        BY <1>1, <1>3, <1>5, <1>7, <3>2, <3>3 DEF UploadCall, Stored
      <3> QED
        BY <2>1, <3>4
    <2>2. CASE d # c
      <3>1. call[d].copy \in Copies \cup {None}
        BY DEF UploadInv, UploadTyped, Locals
      <3>2. call[d].copy # None => store'[Up!CopyPath(call[d].copy)] = store[Up!CopyPath(call[d].copy)]
        BY <1>1, <1>6, <3>1
      <3>3. UploadTyped /\ UploadCall(d) /\ call'[d] = call[d]
        BY <1>7, <2>2 DEF UploadInv
      <3> QED
        BY <1>1, <1>6, <3>2, <3>3, UploadCallKept DEF UploadSized
    <2> QED
      BY <2>1, <2>2
  <1> QED
    BY <1>8, <1>9, <1>10 DEF UploadInv

(* Every step of clients, calls, cache and deletions. *)
LEMMA UploadNext == ASSUME UploadSized, UploadInv, [Up!Next]_(Up!vars) PROVE UploadInv'
  <1>1. CASE UNCHANGED Up!vars
    <2>1. UNCHANGED <<store, cache, upload, parts, call, deletes>>
      BY <1>1 DEF Up!vars
    <2>2. \A c \in UpCalls : UploadCall(c)'
      BY <2>1, UploadCallKept DEF UploadInv, UploadSized
    <2> QED
      BY <2>1, <2>2 DEF UploadInv, UploadTyped, UploadHashes, UploadCopies
  <1>2. ASSUME NEW c \in UpCalls, Up!Step(c) PROVE UploadInv'
    BY <1>2, UploadMultipart, UploadStats, UploadTakesCopy, UploadPublishes, UploadUncaches, UploadCleans,
       UploadReturns DEF Up!Step
  <1> QED
    BY <1>1, <1>2, UploadCompletes, UploadOthers DEF Up!Next

(* What the invariant of the uploads says of its properties. *)
LEMMA UploadImplies ==
    ASSUME UploadSized, UploadInv
    PROVE  Up!HashIntegrity /\ Up!SuccessIsStored /\ Up!NoLeftovers
  <1>1. Up!HashIntegrity
    BY DEF UploadInv, UploadHashes, Up!HashIntegrity
  <1>2. Up!SuccessIsStored
    BY DEF UploadInv, UploadCall, Stored, Up!SuccessIsStored
  <1>3. Up!NoLeftovers
    BY DEF UploadInv, UploadCopies, Up!NoLeftovers
  <1> QED
    BY <1>1, <1>2, <1>3

(* s3 cont: what is stored under a hash has that hash, a call that reports  *)
(* success has left it there, and copies go with their calls, for any       *)
(* contents, uploads and calls that overlap, and with failing stores and    *)
(* caches as far as they promise.                                           *)
THEOREM UploadSound ==
    ASSUME UploadSized
    PROVE  Up!Spec => [](Up!HashIntegrity /\ Up!SuccessIsStored /\ Up!NoLeftovers)
  <1>1. Up!Init => UploadInv
    BY UploadStarts
  <1>2. UploadInv /\ [Up!Next]_(Up!vars) => UploadInv'
    BY UploadNext
  <1>3. UploadInv =>
          Up!HashIntegrity /\ Up!SuccessIsStored /\ Up!NoLeftovers
    BY UploadImplies
  <1> QED
    BY <1>1, <1>2, <1>3, PTL DEF Up!Spec
-----------------------------------------------------------------------------
(* s3/minio: thumbnails. *)

(* One caller at a time: an access and a deletion that overlap may leave a  *)
(* cached key without its thumbnail. None is no content, and names are      *)
(* contents where they stand for them.                                      *)
ImageSized ==
    /\ None \notin ImContents /\ (Addressed => ImNames \subseteq ImContents)
    /\ \A p, q \in ImCallers : p = q

(* The locals of a call. *)
ImageLocals == [pc : {"idle", "key", "made", "clear"}, n : ImNames \cup {None}, s : Sizes \cup {None},
                tag : ImContents \cup {None}, img : ImContents \cup {None}, left : SUBSET Sizes]

(* Objects, caches and thumbnails have contents or none. *)
ImageTyped ==
    /\ objects \in [ImNames -> ImContents \cup {None}] /\ info \in [ImNames -> ImContents \cup {None}]
    /\ thumbKey \in [ImNames \X Sizes -> ImContents \cup {None}]
    /\ thumbs \in [ImContents \X Sizes -> ImContents \cup {None}]
    /\ proc \in [ImCallers -> ImageLocals]

(* The info that is cached is that of the object, while there is one; the    *)
(* name of content-addressed objects is their tag.                           *)
ImageInfo ==
    \A n \in ImNames : /\ info[n] # None => objects[n] \in {None, info[n]}
                       /\ Addressed => objects[n] \in {None, n} /\ info[n] \in {None, n}

(* A thumbnail is of the image it is named by, and a cached key of a         *)
(* content-addressed object leads to one.                                    *)
ImageThumbs ==
    /\ \A c \in ImContents, s \in Sizes : thumbs[<<c, s>>] \in {None, c}
    /\ Addressed => \A n \in ImNames, s \in Sizes :
          thumbKey[<<n, s>>] \in {None, n} /\ (thumbKey[<<n, s>>] # None => thumbs[<<n, s>>] # None)

(* What an access or a deletion knows of the object it works on. *)
ImageCaller(p) ==
    /\ proc[p].pc \in {"key", "made", "clear"} =>
          /\ proc[p].n \in ImNames /\ proc[p].tag \in ImContents
          /\ Addressed => proc[p].tag = proc[p].n
    /\ proc[p].pc \in {"key", "made"} =>
          /\ proc[p].s \in Sizes /\ proc[p].img \in {None, proc[p].tag}
          /\ objects[proc[p].n] \in {None, proc[p].tag}
    /\ proc[p].pc = "made" => thumbs[<<proc[p].tag, proc[p].s>>] # None

(* The inductive invariant of the images. *)
ImageInv == ImageTyped /\ ImageInfo /\ ImageThumbs /\ \A p \in ImCallers : ImageCaller(p)

(* No objects, caches and thumbnails. *)
LEMMA ImageStarts == ASSUME ImageSized, Img!Init PROVE ImageInv
  <1>1. /\ objects = [n \in ImNames |-> None] /\ info = [n \in ImNames |-> None]
        /\ thumbKey = [k \in ImNames \X Sizes |-> None] /\ thumbs = [k \in ImContents \X Sizes |-> None]
        /\ proc = [p \in ImCallers |-> Img!Idle]
    BY DEF Img!Init
  <1>2. Img!Idle \in ImageLocals /\ Img!Idle.pc = "idle"
    BY DEF Img!Idle, ImageLocals
  <1>3. ImageTyped
    BY <1>1, <1>2 DEF ImageTyped
  <1>4. ImageInfo /\ ImageThumbs
    BY <1>1 DEF ImageInfo, ImageThumbs
  <1>5. \A p \in ImCallers : ImageCaller(p)
    BY <1>1, <1>2 DEF ImageCaller
  <1> QED
    BY <1>3, <1>4, <1>5 DEF ImageInv

(* With one caller at a time a step's own caller is all there is to check. *)
LEMMA ImageOne ==
    ASSUME ImageSized, NEW p \in ImCallers, ImageCaller(p)' PROVE \A q \in ImCallers : ImageCaller(q)'
  BY DEF ImageSized

(* Uploads and copies, of a caller that is in no other call. *)
LEMMA ImagePuts ==
    ASSUME ImageSized, ImageInv, NEW p \in ImCallers, NEW n \in ImNames, NEW c \in ImContents,
           Img!CompleteMultipartUpload(p, n, c) \/ (c = n /\ Img!CopyObject(p, n))
    PROVE  ImageInv'
  <1>1. /\ proc[p].pc = "idle" /\ objects' = [objects EXCEPT ![n] = c] /\ UNCHANGED <<thumbKey, thumbs, proc>>
        /\ Addressed => c = n
        /\ info' = [info EXCEPT ![n] = None] \/ (Addressed /\ info' = info)
    BY DEF Img!CompleteMultipartUpload, Img!CopyObject, Img!At, Img!MayHold
  <1>2. ImageTyped'
    BY <1>1 DEF ImageInv, ImageTyped
  <1>3. ImageInfo'
    BY <1>1 DEF ImageInv, ImageTyped, ImageInfo
  <1>4. ImageThumbs'
    BY <1>1 DEF ImageInv, ImageThumbs
  <1>5. ImageCaller(p)'
    BY <1>1 DEF ImageCaller
  <1> QED
    BY <1>2, <1>3, <1>4, <1>5, ImageOne DEF ImageInv

(* getImageThumbnailURL: the tag of the info, cached or read, is that of    *)
(* the object.                                                              *)
LEMMA ImageAccess ==
    ASSUME ImageSized, ImageInv, NEW p \in ImCallers, NEW n \in ImNames, NEW s \in Sizes, Img!AccessURL(p, n, s)
    PROVE  ImageInv'
  <1> PICK tag, img, r : /\ tag = Img!getObjectImageInfo(n)
                         /\ img = (IF info[n] # None THEN None ELSE tag)
                         /\ r = [Img!Idle EXCEPT !.pc = "key", !.n = n, !.s = s, !.tag = tag, !.img = img]
    OBVIOUS
  <1>1. /\ tag # None /\ info' = [info EXCEPT ![n] = tag] /\ proc' = [proc EXCEPT ![p] = r]
        /\ UNCHANGED <<objects, thumbKey, thumbs>>
    BY DEF Img!AccessURL, Img!Set
  <1>2. tag \in ImContents /\ objects[n] \in {None, tag} /\ (Addressed => tag = n) /\ img \in {None, tag}
    BY <1>1 DEF Img!getObjectImageInfo, ImageInv, ImageTyped, ImageInfo
  <1>3. /\ r \in ImageLocals /\ r.pc = "key" /\ r.n = n /\ r.s = s /\ r.tag = tag /\ r.img = img
    BY <1>2 DEF Img!Idle, ImageLocals
  <1>4. ImageTyped' /\ proc'[p] = r
    BY <1>1, <1>2, <1>3 DEF ImageInv, ImageTyped
  <1>5. ImageInfo'
    BY <1>1, <1>2 DEF ImageInv, ImageTyped, ImageInfo
  <1>6. ImageThumbs'
    BY <1>1 DEF ImageInv, ImageThumbs
  <1>7. ImageCaller(p)'
    BY <1>1, <1>2, <1>3, <1>4 DEF ImageCaller
  <1> QED
    BY <1>4, <1>5, <1>6, <1>7, ImageOne DEF ImageInv

(* A caller that is done knows nothing. *)
LEMMA ImageIdle ==
    ASSUME ImageTyped, NEW p \in ImCallers, proc' = [proc EXCEPT ![p] = Img!Idle]
    PROVE  proc' \in [ImCallers -> ImageLocals] /\ ImageCaller(p)'
  <1>1. Img!Idle \in ImageLocals /\ Img!Idle.pc = "idle"
    BY DEF Img!Idle, ImageLocals
  <1>2. proc' \in [ImCallers -> ImageLocals] /\ proc'[p] = Img!Idle
    BY <1>1 DEF ImageTyped
  <1> QED
    BY <1>1, <1>2 DEF ImageCaller

(* The thumbnail is made of the image whose tag it is stored under. *)
LEMMA ImageMakes ==
    ASSUME ImageSized, ImageInv, NEW p \in ImCallers, Img!MakeThumbnail(p) PROVE ImageInv'
  <1> PICK r, img : r = proc[p] /\ img = (IF r.img # None THEN r.img ELSE objects[r.n])
    OBVIOUS
  <1>1. r.pc = "key" /\ UNCHANGED <<objects, info, thumbKey>>
    BY DEF Img!MakeThumbnail, Img!At
  <1>2. /\ r \in ImageLocals /\ r.n \in ImNames /\ r.tag \in ImContents /\ r.s \in Sizes /\ img \in {None, r.tag}
        /\ (Addressed => r.tag = r.n) /\ r.img \in {None, r.tag} /\ objects[r.n] \in {None, r.tag}
    BY <1>1 DEF ImageInv, ImageTyped, ImageCaller
  <1>3. CASE thumbKey[<<r.n, r.s>>] # None \/ img = None
    <2>1. thumbs' = thumbs /\ proc' = [proc EXCEPT ![p] = Img!Idle]
      BY <1>3 DEF Img!MakeThumbnail, Img!Set
    <2> QED
      BY <1>1, <2>1, ImageIdle, ImageOne DEF ImageInv, ImageTyped, ImageInfo, ImageThumbs
  <1>4. CASE ~(thumbKey[<<r.n, r.s>>] # None \/ img = None)
    <2>1. thumbs' = [thumbs EXCEPT ![<<r.tag, r.s>>] = img] /\ proc' = [proc EXCEPT ![p] = [r EXCEPT !.pc = "made"]]
      BY <1>4 DEF Img!MakeThumbnail, Img!Set
    <2> PICK q : q = [r EXCEPT !.pc = "made"]
      OBVIOUS
    <2>2. /\ q \in ImageLocals /\ q.pc = "made" /\ q.n = r.n /\ q.s = r.s /\ q.tag = r.tag /\ q.img = r.img
      BY <1>2 DEF ImageLocals
    <2>3. proc' \in [ImCallers -> ImageLocals] /\ proc'[p] = q
      BY <2>1, <2>2 DEF ImageInv, ImageTyped
    <2>4. img = r.tag /\ img # None
      BY <1>2, <1>4
    <2>5. /\ thumbs' \in [ImContents \X Sizes -> ImContents \cup {None}]
          /\ thumbs'[<<r.tag, r.s>>] = r.tag
          /\ \A c \in ImContents, s \in Sizes :
                thumbs'[<<c, s>>] = thumbs[<<c, s>>] \/ (c = r.tag /\ thumbs'[<<c, s>>] = r.tag)
      BY <1>2, <2>1, <2>4 DEF ImageInv, ImageTyped
    <2>6. ImageTyped'
      BY <1>1, <2>3, <2>5 DEF ImageInv, ImageTyped
    <2>7. ImageInfo'
      BY <1>1 DEF ImageInv, ImageInfo
    <2>8. ImageThumbs'
      BY <1>1, <1>2, <2>4, <2>5 DEF ImageInv, ImageThumbs, ImageSized
    <2>9. ImageCaller(p)'
      BY <1>1, <1>2, <2>2, <2>3, <2>4, <2>5 DEF ImageCaller
    <2> QED
      BY <2>6, <2>7, <2>8, <2>9, ImageOne DEF ImageInv
  <1> QED
    BY <1>3, <1>4

(* The key is cached when the thumbnail is there. *)
LEMMA ImageCaches ==
    ASSUME ImageSized, ImageInv, NEW p \in ImCallers, Img!CacheKey(p) PROVE ImageInv'
  <1> PICK r : r = proc[p]
    OBVIOUS
  <1>1. /\ r.pc = "made" /\ thumbKey' = [thumbKey EXCEPT ![<<r.n, r.s>>] = r.tag]
        /\ proc' = [proc EXCEPT ![p] = Img!Idle] /\ UNCHANGED <<objects, info, thumbs>>
    BY DEF Img!CacheKey, Img!At, Img!Set
  <1>2. /\ r.n \in ImNames /\ r.tag \in ImContents /\ r.s \in Sizes /\ (Addressed => r.tag = r.n)
        /\ thumbs[<<r.tag, r.s>>] # None
    BY <1>1 DEF ImageInv, ImageCaller
  <1>3. /\ thumbKey' \in [ImNames \X Sizes -> ImContents \cup {None}]
        /\ \A n \in ImNames, s \in Sizes :
              thumbKey'[<<n, s>>] = thumbKey[<<n, s>>] \/ (n = r.n /\ s = r.s /\ thumbKey'[<<n, s>>] = r.tag)
    BY <1>1, <1>2 DEF ImageInv, ImageTyped
  <1>4. proc' \in [ImCallers -> ImageLocals] /\ ImageCaller(p)'
    BY <1>1, ImageIdle DEF ImageInv
  <1>5. ImageTyped' /\ ImageInfo'
    BY <1>1, <1>3, <1>4 DEF ImageInv, ImageTyped, ImageInfo
  <1>6. ImageThumbs'
    BY <1>1, <1>2, <1>3 DEF ImageInv, ImageThumbs
  <1> QED
    BY <1>4, <1>5, <1>6, ImageOne DEF ImageInv

(* DeleteObject lists the thumbnails of the object's tag. *)
LEMMA ImageDeletes ==
    ASSUME ImageSized, ImageInv, NEW p \in ImCallers, NEW n \in ImNames, Img!DeleteObject(p, n) PROVE ImageInv'
  <1> PICK left, r : /\ left = {s \in Sizes : thumbs[<<objects[n], s>>] # None}
                     /\ r = [Img!Idle EXCEPT !.pc = "clear", !.n = n, !.tag = objects[n], !.left = left]
    OBVIOUS
  <1>1. /\ objects[n] # None /\ proc' = [proc EXCEPT ![p] = r] /\ UNCHANGED <<objects, info, thumbKey, thumbs>>
    BY DEF Img!DeleteObject, Img!Set
  <1>2. objects[n] \in ImContents /\ (Addressed => objects[n] = n) /\ left \subseteq Sizes
    BY <1>1 DEF ImageInv, ImageTyped, ImageInfo
  <1>3. r \in ImageLocals /\ r.pc = "clear" /\ r.n = n /\ r.tag = objects[n]
    BY <1>2 DEF Img!Idle, ImageLocals
  <1>4. ImageTyped' /\ proc'[p] = r
    BY <1>1, <1>3 DEF ImageInv, ImageTyped
  <1>5. ImageInfo' /\ ImageThumbs'
    BY <1>1 DEF ImageInv, ImageInfo, ImageThumbs
  <1>6. ImageCaller(p)'
    BY <1>2, <1>3, <1>4 DEF ImageCaller
  <1> QED
    BY <1>4, <1>5, <1>6, ImageOne DEF ImageInv

(* A thumbnail goes together with the cached key that leads to it. *)
LEMMA ImageClears ==
    ASSUME ImageSized, ImageInv, NEW p \in ImCallers, NEW s \in Sizes, Img!Clear(p, s) PROVE ImageInv'
  <1> PICK r, q : r = proc[p] /\ q = [r EXCEPT !.left = r.left \ {s}]
    OBVIOUS
  <1>1. /\ r.pc = "clear" /\ proc' = [proc EXCEPT ![p] = q] /\ UNCHANGED <<objects, info>>
        /\ thumbKey' = [thumbKey EXCEPT ![<<r.n, s>>] = None] /\ thumbs' = [thumbs EXCEPT ![<<r.tag, s>>] = None]
    BY DEF Img!Clear, Img!At, Img!Set
  <1>2. r \in ImageLocals /\ r.n \in ImNames /\ r.tag \in ImContents /\ (Addressed => r.tag = r.n)
    BY <1>1 DEF ImageInv, ImageTyped, ImageCaller
  <1>3. q \in ImageLocals /\ q.pc = "clear" /\ q.n = r.n /\ q.tag = r.tag
    BY <1>1, <1>2 DEF ImageLocals
  <1>4. /\ thumbKey' \in [ImNames \X Sizes -> ImContents \cup {None}]
        /\ thumbs' \in [ImContents \X Sizes -> ImContents \cup {None}]
        /\ thumbKey'[<<r.n, s>>] = None
        /\ \A n \in ImNames, t \in Sizes : thumbKey'[<<n, t>>] \in {None, thumbKey[<<n, t>>]}
        /\ \A c \in ImContents, t \in Sizes :
              thumbs'[<<c, t>>] = thumbs[<<c, t>>] \/ (thumbs'[<<c, t>>] = None /\ c = r.tag /\ t = s)
    BY <1>1, <1>2 DEF ImageInv, ImageTyped
  <1>5. ImageTyped' /\ proc'[p] = q
    BY <1>1, <1>3, <1>4 DEF ImageInv, ImageTyped
  <1>6. ImageInfo'
    BY <1>1 DEF ImageInv, ImageInfo
  <1>7. ImageThumbs'
    BY <1>2, <1>4 DEF ImageInv, ImageThumbs, ImageSized
  <1>8. ImageCaller(p)'
    BY <1>2, <1>3, <1>5 DEF ImageCaller
  <1> QED
    BY <1>5, <1>6, <1>7, <1>8, ImageOne DEF ImageInv

(* The object goes last. *)
LEMMA ImageRemoves ==
    ASSUME ImageSized, ImageInv, NEW p \in ImCallers, Img!RemoveObject(p) PROVE ImageInv'
  <1>1. /\ objects' = [objects EXCEPT ![proc[p].n] = None] /\ proc' = [proc EXCEPT ![p] = Img!Idle]
        /\ UNCHANGED <<info, thumbKey, thumbs>>
    BY DEF Img!RemoveObject, Img!Set
  <1>2. objects' \in [ImNames -> ImContents \cup {None}] /\ \A n \in ImNames : objects'[n] \in {None, objects[n]}
    BY <1>1 DEF ImageInv, ImageTyped
  <1>3. proc' \in [ImCallers -> ImageLocals] /\ ImageCaller(p)'
    BY <1>1, ImageIdle DEF ImageInv
  <1>4. ImageTyped' /\ ImageInfo' /\ ImageThumbs'
    BY <1>1, <1>2, <1>3 DEF ImageInv, ImageTyped, ImageInfo, ImageThumbs
  <1> QED
    BY <1>3, <1>4, ImageOne DEF ImageInv

(* Every step of the one caller. *)
LEMMA ImageNext == ASSUME ImageSized, ImageInv, [Img!Next]_(Img!vars) PROVE ImageInv'
  <1>1. ASSUME NEW p \in ImCallers, NEW n \in ImNames, Img!CopyObject(p, n) PROVE ImageInv'
    <2>1. n \in ImContents
      BY <1>1 DEF Img!CopyObject, ImageSized
    <2> QED
      BY <1>1, <2>1, ImagePuts
  <1>2. CASE UNCHANGED Img!vars
    BY <1>2 DEF Img!vars, ImageInv, ImageTyped, ImageInfo, ImageThumbs, ImageCaller
  <1> QED
    BY <1>1, <1>2, ImagePuts, ImageAccess, ImageMakes, ImageCaches, ImageDeletes, ImageClears, ImageRemoves
       DEF Img!Next

(* What the invariant of the images says of their properties. *)
LEMMA ImageImplies ==
    ASSUME ImageSized, ImageInv
    PROVE  Img!ThumbOfTag /\ (Addressed => Img!NoDangling)
  BY DEF ImageInv, ImageThumbs, Img!ThumbOfTag, Img!NoDangling

(* minio: with calls one after another a thumbnail is of the image whose    *)
(* tag it is stored under, and, where names stand for contents, a cached    *)
(* key leads to a thumbnail that exists: for any names, contents and sizes. *)
THEOREM ImageSound ==
    ASSUME ImageSized
    PROVE  Img!Spec => [](Img!ThumbOfTag /\ (Addressed => Img!NoDangling))
  <1>1. Img!Init => ImageInv
    BY ImageStarts
  <1>2. ImageInv /\ [Img!Next]_(Img!vars) => ImageInv'
    BY ImageNext
  <1>3. ImageInv =>
          Img!ThumbOfTag /\ (Addressed => Img!NoDangling)
    BY ImageImplies
  <1> QED
    BY <1>1, <1>2, <1>3, PTL DEF Img!Spec
-----------------------------------------------------------------------------
(* discovery/etcd reconnecting_watcher. *)

(* The generations of the stream are numbered, and a caller has one. *)
RecTyped ==
    /\ gMade \in Nat /\ watcher \in Nat
    /\ watch \in [Users -> [pc : {"idle", "open", "replace", "close", "end"}, gen : Nat]]

(* The inductive invariant of the reconnecting watcher. *)
RecInv == RecTyped /\ Reconnect!NoLeak

(* A watcher without a stream satisfies it. *)
LEMMA RecStarts == ASSUME Reconnect!Init PROVE RecInv
  BY DEF Reconnect!Init, Reconnect!Nil, RecInv, RecTyped, Reconnect!NoLeak

(* replace: the one that takes the old stream out of the field closes it. *)
LEMMA RecReplaces ==
    ASSUME RecInv, NEW u \in Users, Reconnect!replace(u) \/ Reconnect!replaceCloses(u)
    PROVE  RecInv'
  <1>1. RecTyped'
    BY DEF RecInv, RecTyped, Reconnect!replace, Reconnect!replaceCloses, Reconnect!Goto
  <1>2. \A v \in Users : v # u => watch'[v] = watch[v]
    BY DEF RecInv, RecTyped, Reconnect!replace, Reconnect!replaceCloses, Reconnect!Goto
  <1>3. SUFFICES ASSUME NEW g \in 1..gMade'
                 PROVE  g \in shut' \/ g = watcher' \/ \E v \in Users : watch'[v] = [pc |-> "close", gen |-> g]
    BY <1>1 DEF RecInv, Reconnect!NoLeak
  <1>4. CASE Reconnect!replace(u)
    <2>1. CASE UNCHANGED <<watcher, gMade>>
      <3>1. \A v \in Users : watch[v] = [pc |-> "close", gen |-> g] => watch'[v] = watch[v]
        BY <1>2, <1>4 DEF Reconnect!replace
      <3> QED
        BY <1>4, <2>1, <3>1 DEF RecInv, Reconnect!NoLeak, Reconnect!replace
    <2>2. CASE /\ watcher = watch[u].gen /\ gMade' = gMade + 1 /\ watcher' = gMade + 1
               /\ Reconnect!Goto(u, "close")
      <3>1. CASE g = gMade + 1
        BY <2>2, <3>1
      <3>2. CASE g = watcher
        <4>1. watch'[u] = [pc |-> "close", gen |-> g]
          BY <2>2, <3>2 DEF RecInv, RecTyped, Reconnect!Goto
        <4> QED
          BY <4>1
      <3>3. CASE g # gMade + 1 /\ g # watcher
        <4>1. g \in 1..gMade
          BY <2>2, <3>3 DEF RecInv, RecTyped
        <4>2. \A v \in Users : watch[v] = [pc |-> "close", gen |-> g] => watch'[v] = watch[v]
          BY <1>2, <1>4 DEF Reconnect!replace
        <4> QED
          BY <1>4, <3>3, <4>1, <4>2 DEF RecInv, Reconnect!NoLeak, Reconnect!replace
      <3> QED
        BY <3>1, <3>2, <3>3
    <2> QED
      BY <1>4, <2>1, <2>2 DEF Reconnect!replace
  <1>5. CASE Reconnect!replaceCloses(u)
    <2>1. CASE g = watch[u].gen
      BY <1>5, <2>1 DEF Reconnect!replaceCloses
    <2>2. CASE g # watch[u].gen
      BY <1>2, <1>5, <2>2 DEF RecInv, Reconnect!NoLeak, Reconnect!replaceCloses
    <2> QED
      BY <2>1, <2>2
  <1> QED
    BY <1>4, <1>5

(* Every step keeps the invariant. *)
LEMMA RecNext == ASSUME RecInv, [Reconnect!Next]_(Reconnect!vars) PROVE RecInv'
  <1>1. CASE UNCHANGED Reconnect!vars
    BY <1>1 DEF Reconnect!vars, RecInv, RecTyped, Reconnect!NoLeak
  <1>2. CASE Reconnect!Close
    <2>1. RecTyped'
      BY <1>2 DEF Reconnect!Close, Reconnect!Nil, RecInv, RecTyped
    <2> QED
      BY <1>2, <2>1 DEF Reconnect!Close, RecInv, Reconnect!NoLeak
  <1>3. ASSUME NEW g \in 1..MaxGens, Reconnect!tokenExpires(g) PROVE RecInv'
    BY <1>3 DEF Reconnect!tokenExpires, RecInv, RecTyped, Reconnect!NoLeak
  <1>4. ASSUME NEW u \in Users, Reconnect!Watch(u) \/ Reconnect!updates(u) PROVE RecInv'
    <2>1. RecTyped' /\ UNCHANGED <<watcher, gMade, shut>>
      BY <1>4 DEF Reconnect!Watch, Reconnect!updates, Reconnect!Goto, Reconnect!Nil, RecInv, RecTyped
    <2>2. watch[u].pc # "close" /\ \A v \in Users : v # u => watch'[v] = watch[v]
      BY <1>4 DEF Reconnect!Watch, Reconnect!updates, Reconnect!Goto, RecInv, RecTyped
    <2>3. \A v \in Users : \A g \in Nat : watch[v] = [pc |-> "close", gen |-> g] => watch'[v] = watch[v]
      BY <2>2
    <2>4. Reconnect!NoLeak'
      BY <2>1, <2>3 DEF RecInv, RecTyped, Reconnect!NoLeak
    <2> QED
      BY <2>1, <2>4 DEF RecInv
  <1> QED
    BY <1>1, <1>2, <1>3, <1>4, RecReplaces DEF Reconnect!Next, Reconnect!Caller

(* discovery/etcd: whatever callers see the token expire at once, a stream  *)
(* that was opened is in use, closed, or about to be closed by the one that *)
(* replaced it.                                                             *)
THEOREM ReconnectLeavesNothing == Reconnect!Spec => []Reconnect!NoLeak
  <1>1. RecInv => Reconnect!NoLeak
    BY DEF RecInv
  <1> QED
    BY <1>1, RecStarts, RecNext, PTL DEF Reconnect!Spec
-----------------------------------------------------------------------------
(* discovery/kubernetes. *)

(* Connections are told apart by when they were dialled, and no two         *)
(* services share one, so that closing those of one leaves the others open. *)
KOwned ==
    /\ dials \in Nat /\ kOptions \in Nat /\ DOMAIN endpoints = KServices /\ DOMAIN connsMap \subseteq KServices
    /\ \A s \in DOMAIN connsMap : \A c \in connsMap[s] : c.at \in Nat /\ c.at < dials /\ c.opts = kOptions
    /\ \A s, t \in DOMAIN connsMap : s # t => connsMap[s] \cap connsMap[t] = {}

(* The inductive invariant of the connections to Kubernetes. *)
KInv == KOwned /\ K8s!OpenIsMapped /\ K8s!KeepsUp

(* A registry without services satisfies it. *)
LEMMA KStarts == ASSUME K8s!Init PROVE KInv
  BY DEF K8s!Init, K8s!NoEntries, KInv, KOwned, K8s!OpenIsMapped, K8s!Mapped, K8s!KeepsUp

(* initializeConns: of a service it keeps the connections that are still    *)
(* listed, closes the others and dials what is new.                         *)
LEMMA KRebuilds ==
    ASSUME KInv, NEW s \in KServices, K8s!initializeConns(s), UNCHANGED <<endpoints, kOptions>>,
           changed \ {s} \subseteq changed'
    PROVE  KInv'
  <1> DEFINE kept == {c \in K8s!Old(s) : c.addr \in endpoints[s]}
             new == {[addr |-> a, at |-> dials, opts |-> kOptions] : a \in endpoints[s] \ K8s!AddrsOf(kept)}
  <1>1. CASE /\ connsMap' = [t \in DOMAIN connsMap \cup {s} |-> IF t = s THEN kept \cup new ELSE connsMap[t]]
             /\ kOpen' = (kOpen \ (K8s!Old(s) \ kept)) \cup new /\ dials' = dials + 1 /\ failed' = failed \ {s}
    <2> HIDE DEF kept, new
    <2>1. \A c \in kept : c \in K8s!Old(s) /\ s \in DOMAIN connsMap /\ c \in connsMap[s] /\ c.addr \in endpoints[s]
      BY DEF kept, K8s!Old
    <2>2. \A c \in new : c.at = dials /\ c.opts = kOptions /\ c.addr \in endpoints[s]
      BY DEF new
    <2>3. \A a \in endpoints[s] : (\E c \in kept : c.addr = a) \/ (\E c \in new : c.addr = a)
      <3> SUFFICES ASSUME NEW a \in endpoints[s], ~ \E c \in kept : c.addr = a
                   PROVE  \E c \in new : c.addr = a
        OBVIOUS
      <3>1. [addr |-> a, at |-> dials, opts |-> kOptions] \in new
        BY DEF new, K8s!AddrsOf
      <3> QED
        BY <3>1
    <2>4. DOMAIN connsMap' = DOMAIN connsMap \cup {s} /\ connsMap'[s] = kept \cup new
          /\ \A t \in DOMAIN connsMap \ {s} : connsMap'[t] = connsMap[t]
      BY <1>1
    <2>5. KOwned'
      <3>1. \A t \in DOMAIN connsMap' : \A c \in connsMap'[t] : c.at \in Nat /\ c.at < dials' /\ c.opts = kOptions'
        BY <1>1, <2>1, <2>2, <2>4 DEF KInv, KOwned
      <3>2. \A t \in DOMAIN connsMap \ {s} : connsMap'[s] \cap connsMap'[t] = {}
        BY <2>1, <2>2, <2>4 DEF KInv, KOwned
      <3>3. \A t, r \in DOMAIN connsMap' : t # r => connsMap'[t] \cap connsMap'[r] = {}
        BY <2>4, <3>2 DEF KInv, KOwned
      <3>4. dials' \in Nat /\ kOptions' \in Nat /\ DOMAIN endpoints' = KServices /\ DOMAIN connsMap' \subseteq KServices
        BY <1>1, <2>4 DEF KInv, KOwned
      <3> QED
        BY <3>1, <3>3, <3>4 DEF KOwned
    <2>6. K8s!OpenIsMapped'
      <3>1. \A c : c \in kOpen <=> \E t \in DOMAIN connsMap : c \in connsMap[t]
        BY DEF KInv, K8s!OpenIsMapped, K8s!Mapped
      <3>2. \A c : c \in K8s!Old(s) <=> s \in DOMAIN connsMap /\ c \in connsMap[s]
        BY DEF K8s!Old
      <3>3. \A c : c \in kOpen' <=> \E t \in DOMAIN connsMap' : c \in connsMap'[t]
        BY <1>1, <2>1, <2>4, <3>1, <3>2 DEF KInv, KOwned
      <3> QED
        BY <3>3 DEF K8s!OpenIsMapped, K8s!Mapped
    <2>7. K8s!KeepsUp'
      <3>1. K8s!AddrsOf(kept \cup new) = endpoints[s]
        BY <2>1, <2>2, <2>3 DEF K8s!AddrsOf
      <3>2. \A t \in WatchNames \cap DOMAIN connsMap' : t # s =>
               t \in changed' \cup failed' \/ K8s!AddrsOf(connsMap'[t]) = endpoints'[t]
        <4> SUFFICES ASSUME NEW t \in WatchNames \cap DOMAIN connsMap', t # s
                     PROVE  t \in changed' \cup failed' \/ K8s!AddrsOf(connsMap'[t]) = endpoints'[t]
          OBVIOUS
        <4>1. t \in WatchNames \cap DOMAIN connsMap /\ connsMap'[t] = connsMap[t]
          BY <2>4
        <4>2. t \in changed \cup failed \/ K8s!AddrsOf(connsMap[t]) = endpoints[t]
          BY <4>1 DEF KInv, K8s!KeepsUp
        <4> QED
          BY <1>1, <4>1, <4>2
      <3>3. K8s!AddrsOf(connsMap'[s]) = endpoints'[s]
        BY <2>4, <3>1
      <3>4. \A t \in WatchNames \cap DOMAIN connsMap' :
               t \in changed' \cup failed' \/ K8s!AddrsOf(connsMap'[t]) = endpoints'[t]
        BY <3>2, <3>3
      <3> QED
        BY <3>4 DEF K8s!KeepsUp, K8s!AddrsOf
    <2> QED
      BY <2>5, <2>6, <2>7 DEF KInv
  <1>2. CASE failed' = failed \cup {s} /\ UNCHANGED <<connsMap, kOpen, dials>>
    <2>1. KOwned' /\ K8s!OpenIsMapped'
      BY <1>2 DEF KInv, KOwned, K8s!OpenIsMapped, K8s!Mapped
    <2>2. K8s!KeepsUp'
      BY <1>2 DEF KInv, K8s!KeepsUp, K8s!AddrsOf
    <2> QED
      BY <2>1, <2>2 DEF KInv
  <1> QED
    BY <1>1, <1>2 DEF K8s!initializeConns

(* resetConnMap: every connection is closed and every service forgotten. *)
LEMMA KResets ==
    ASSUME KInv, K8s!resetConnMap, UNCHANGED <<endpoints, dials>>, kOptions' \in Nat
    PROVE  KInv'
  <1>1. DOMAIN connsMap' = {}
    BY DEF K8s!resetConnMap, K8s!NoEntries
  <1>2. kOpen' = {}
    BY DEF K8s!resetConnMap, KInv, K8s!OpenIsMapped, K8s!Mapped
  <1> QED
    BY <1>1, <1>2 DEF KInv, KOwned, K8s!OpenIsMapped, K8s!Mapped, K8s!KeepsUp

(* Every step keeps the invariant. *)
LEMMA KNext == ASSUME KInv, [K8s!Next]_(K8s!vars) PROVE KInv'
  <1>1. CASE UNCHANGED K8s!vars
    <2>1. UNCHANGED <<connsMap, kOpen, dials, kOptions, failed, endpoints, changed>>
      BY <1>1 DEF K8s!vars
    <2> QED
      BY <2>1 DEF KInv, KOwned, K8s!OpenIsMapped, K8s!Mapped, K8s!KeepsUp, K8s!AddrsOf
  <1>2. ASSUME NEW s \in KServices, NEW e, K8s!EndpointsChange(s, e) PROVE KInv'
    <2>1. UNCHANGED <<connsMap, kOpen, dials, kOptions, failed>>
      BY <1>2 DEF K8s!EndpointsChange
    <2>2. DOMAIN endpoints' = KServices /\ changed \subseteq changed'
          /\ \A t \in KServices : t = s \/ endpoints'[t] = endpoints[t]
      BY <1>2 DEF K8s!EndpointsChange, KInv, KOwned
    <2>3. s \in changed'
      BY <1>2 DEF K8s!EndpointsChange
    <2>4. KOwned' /\ K8s!OpenIsMapped'
      BY <2>1, <2>2 DEF KInv, KOwned, K8s!OpenIsMapped, K8s!Mapped
    <2>5. K8s!KeepsUp'
      BY <2>1, <2>2, <2>3 DEF KInv, KOwned, K8s!KeepsUp, K8s!AddrsOf
    <2> QED
      BY <2>4, <2>5 DEF KInv
  <1>3. ASSUME NEW s \in KServices, K8s!handleEndpointChange(s) PROVE KInv'
    <2>1. CASE s \in WatchNames
      <3>1. K8s!initializeConns(s) /\ UNCHANGED <<endpoints, kOptions>> /\ changed \ {s} \subseteq changed'
        BY <1>3, <2>1 DEF K8s!handleEndpointChange
      <3> QED
        BY <3>1, KRebuilds
    <2>2. CASE s \notin WatchNames
      <3>1. UNCHANGED <<connsMap, kOpen, dials, kOptions, failed, endpoints>> /\ changed' = changed \ {s}
        BY <1>3, <2>2 DEF K8s!handleEndpointChange
      <3>2. KOwned' /\ K8s!OpenIsMapped'
        BY <3>1 DEF KInv, KOwned, K8s!OpenIsMapped, K8s!Mapped
      <3>3. K8s!KeepsUp'
        BY <2>2, <3>1 DEF KInv, K8s!KeepsUp, K8s!AddrsOf
      <3> QED
        BY <3>2, <3>3 DEF KInv
    <2> QED
      BY <2>1, <2>2
  <1>4. ASSUME NEW s \in KServices, K8s!GetConns(s) PROVE KInv'
    <2>1. UNCHANGED <<endpoints, changed, kOptions>>
      BY <1>4 DEF K8s!GetConns
    <2>2. CASE DOMAIN connsMap = {}
      BY <1>4, <2>1, <2>2, KRebuilds DEF K8s!GetConns
    <2>3. CASE DOMAIN connsMap # {}
      <3>1. UNCHANGED <<connsMap, kOpen, dials, failed>>
        BY <1>4, <2>3 DEF K8s!GetConns
      <3> QED
        BY <2>1, <3>1 DEF KInv, KOwned, K8s!OpenIsMapped, K8s!Mapped, K8s!KeepsUp, K8s!AddrsOf
    <2> QED
      BY <2>2, <2>3
  <1>5. CASE K8s!AddOption \/ K8s!Close
    <2>1. K8s!resetConnMap /\ UNCHANGED <<endpoints, dials>>
      BY <1>5 DEF K8s!AddOption, K8s!Close
    <2>2. kOptions' \in Nat
      BY <1>5 DEF K8s!AddOption, K8s!Close, KInv, KOwned
    <2> QED
      BY <2>1, <2>2, KResets
  <1> QED
    BY <1>1, <1>2, <1>3, <1>4, <1>5 DEF K8s!Next

(* It implies the three properties of the connections. *)
LEMMA KImplies == ASSUME KInv PROVE K8s!OpenIsMapped /\ K8s!KeepsUp /\ K8s!CurrentOptions
  BY DEF KInv, KOwned, K8s!CurrentOptions, K8s!Mapped

(* discovery/kubernetes: the open connections are those of the map, a       *)
(* watched service has the endpoints of the API server unless an event is   *)
(* under way or the last rebuild failed, and every connection carries all   *)
(* the options.                                                             *)
THEOREM KubernetesKeepsUp == K8s!Spec => [](K8s!OpenIsMapped /\ K8s!KeepsUp /\ K8s!CurrentOptions)
  BY KStarts, KNext, KImplies, PTL DEF K8s!Spec
=============================================================================
