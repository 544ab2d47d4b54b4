-------------------------- MODULE EtcdWatch_proofs --------------------------
(***************************************************************************)
(* Proofs about the watches of discovery/etcd, for every value of the       *)
(* constants: the pool of connections that follows a watcher, and the       *)
(* subscribers of a key.  Each has its inductive invariant, one lemma for   *)
(* each kind of step, and a theorem that its specification implies its      *)
(* properties.  Services_proofs and Support_proofs carry them over to the   *)
(* suites.                                                                  *)
(***************************************************************************)
EXTENDS Integers, Sequences, TLAPS

CONSTANTS Addrs, MaxRev, MaxOpts, MaxFaults                  \* the pool
CONSTANTS Subs, MaxEntries, MaxEvents, MaxBreaks, Cap        \* the watches of a key

VARIABLES rev, hist, w, listeners, addresses, ready, creating, endpointConnMap, serviceConn, view, open, syncs,
          dialOptions, opt, closer, toClose, faults
VARIABLES kRev, watchEntry, made, cancelled, subs, run, skipped, sub, handled, kFaults

Conns == INSTANCE EtcdConnPool
Key == INSTANCE EtcdWatchKey WITH MaxRev <- MaxEvents, MaxFaults <- MaxBreaks, rev <- kRev, faults <- kFaults
-----------------------------------------------------------------------------
(* discovery/etcd: watcher, connection pool and resolver. *)

(* The revisions that etcd keeps are numbered from 0. *)
PoolSized == MaxRev \in Nat

(* The watcher's goroutine, what it watches, and whom it tells. *)
PoolTyped ==
    /\ PoolSized /\ rev \in 0..MaxRev /\ hist \in [0..MaxRev -> SUBSET Addrs]
    /\ w \in [pc : {"none", "get", "publish", "consume", "watch", "sleep", "done"}, seen : 0..MaxRev,
              snap : SUBSET Addrs, left : SUBSET {Conns!Pool, Conns!Resolver}]
    /\ listeners \subseteq {Conns!Pool, Conns!Resolver} /\ dialOptions \in Nat /\ syncs \in Nat
    /\ DOMAIN toClose = Conns!Actors /\ (opt.pc # "idle" => dialOptions # 0)

(* A connection is known by the sync that dialled it, and is in the map or  *)
(* taken out of it, never both.                                             *)
PoolOwned ==
    /\ \A c \in endpointConnMap : c.at \in Nat /\ c.at < syncs /\ c.opts = dialOptions
    /\ \A a \in Conns!Actors : \A c \in toClose[a] : c.at \in Nat /\ c.at < syncs
    /\ Conns!NoClosedConn /\ Conns!NoLeak /\ Conns!ClosedForGood

(* The listener has been given what the watcher published last. *)
Told(l) == l \in listeners /\ addresses # Conns!Unknown /\ closer = "idle" /\ ~(w.pc = "consume" /\ l \in w.left)

(* Whoever has been told has it: the pool unless options were added.        *)
PoolSeen ==
    /\ w.pc = "consume" => addresses = w.snap
    /\ Told(Conns!Pool) /\ dialOptions = 0 => Conns!AddrsOf(endpointConnMap) = addresses
    /\ Told(Conns!Resolver) => view = addresses

(* The inductive invariant of the connection pool. *)
PoolInv == PoolTyped /\ PoolOwned /\ PoolSeen

(* A pool that has neither addresses nor connections satisfies it. *)
LEMMA PoolStarts == ASSUME PoolSized, Conns!Init PROVE PoolInv
  <1>1. PoolTyped
    BY DEF Conns!Init, PoolSized, PoolTyped
  <1>2. PoolOwned
    BY DEF Conns!Init, PoolOwned, Conns!NoClosedConn, Conns!NoLeak, Conns!ClosedForGood
  <1>3. PoolSeen
    BY DEF Conns!Init, PoolSeen, Told, Conns!Unknown
  <1> QED
    BY <1>1, <1>2, <1>3 DEF PoolInv

(* What a step that leaves the connections alone keeps of them. *)
LEMMA PoolOwnedStays ==
    ASSUME PoolInv, UNCHANGED <<endpointConnMap, open, syncs, toClose, dialOptions>>,
           closer' = "end" => closer = "end"
    PROVE  PoolOwned'
  BY DEF PoolInv, PoolOwned, Conns!NoClosedConn, Conns!NoLeak, Conns!ClosedForGood

(* syncEndpointConnMap: what it dials is new, what it takes out is given to *)
(* its caller to close.                                                     *)
LEMMA PoolSyncs ==
    ASSUME PoolInv, NEW addrs, NEW actor \in Conns!Actors, Conns!syncEndpointConnMap(addrs, actor),
           UNCHANGED <<dialOptions, closer>>
    PROVE  /\ PoolOwned' /\ syncs' \in Nat /\ DOMAIN toClose' = Conns!Actors
           /\ closer = "idle" => Conns!AddrsOf(endpointConnMap') = addrs
  <1> DEFINE kept == {c \in endpointConnMap : c.addr \in addrs}
             new == {[addr |-> a, opts |-> dialOptions, at |-> syncs] : a \in addrs \ Conns!AddrsOf(kept)}
  <1>1. CASE Conns!ConnectionsClosed
    <2>1. UNCHANGED <<endpointConnMap, open, syncs, toClose>>
      BY <1>1 DEF Conns!syncEndpointConnMap, Conns!conns
    <2>2. closer # "idle"
      BY <1>1 DEF Conns!ConnectionsClosed
    <2> QED
      BY <2>1, <2>2, PoolOwnedStays DEF PoolInv, PoolTyped
  <1>2. CASE ~Conns!ConnectionsClosed
    <2>1. /\ endpointConnMap' = kept \cup new /\ open' = open \cup new /\ syncs' = syncs + 1
          /\ toClose' = [toClose EXCEPT ![actor] = toClose[actor] \cup (endpointConnMap \ kept)]
      BY <1>2 DEF Conns!syncEndpointConnMap
    <2>2. \A c \in kept : c \in endpointConnMap /\ c.addr \in addrs
      OBVIOUS
    <2>3. \A c \in new : c.at = syncs /\ c.opts = dialOptions /\ c.addr \in addrs
      <3> SUFFICES ASSUME NEW c \in new PROVE c.at = syncs /\ c.opts = dialOptions /\ c.addr \in addrs
        BY Zenon
      <3>1. PICK a \in addrs \ Conns!AddrsOf(kept) : c = [addr |-> a, opts |-> dialOptions, at |-> syncs]
        OBVIOUS
      <3> QED
        BY <3>1
    <2>4. \A a \in addrs : \E c \in kept \cup new : c.addr = a
      <3> SUFFICES ASSUME NEW a \in addrs, ~ \E c \in kept : c.addr = a PROVE \E c \in new : c.addr = a
        OBVIOUS
      <3>1. [addr |-> a, opts |-> dialOptions, at |-> syncs] \in new
        BY DEF Conns!AddrsOf
      <3> QED
        BY <3>1
    <2> HIDE DEF kept, new
    <2>5. Conns!AddrsOf(endpointConnMap') = addrs
      BY <2>1, <2>2, <2>3, <2>4 DEF Conns!AddrsOf
    <2>6. syncs' \in Nat /\ DOMAIN toClose' = Conns!Actors
      BY <2>1 DEF PoolInv, PoolTyped
    <2>7. /\ toClose'[actor] = toClose[actor] \cup (endpointConnMap \ kept)
          /\ \A a \in Conns!Actors : a # actor => toClose'[a] = toClose[a]
      BY <2>1 DEF PoolInv, PoolTyped
    <2>8. \A c \in endpointConnMap' : c.at \in Nat /\ c.at < syncs' /\ c.opts = dialOptions'
      BY <2>1, <2>2, <2>3 DEF PoolInv, PoolTyped, PoolOwned
    <2>9. \A a \in Conns!Actors : \A c \in toClose'[a] : c.at \in Nat /\ c.at < syncs'
      BY <2>1, <2>7 DEF PoolInv, PoolTyped, PoolOwned
    <2>10. \A a \in Conns!Actors : \A c \in toClose'[a] : c \notin endpointConnMap'
      <3>1. \A a \in Conns!Actors : \A c \in toClose'[a] : c \in toClose[a] \/ (c \in endpointConnMap /\ c \notin kept)
        BY <2>7
      <3>2. \A a \in Conns!Actors : \A c \in toClose'[a] : c \notin new
        BY <2>3, <3>1 DEF PoolInv, PoolTyped, PoolOwned
      <3>3. \A a \in Conns!Actors : \A c \in toClose'[a] : c \notin kept
        BY <2>2, <3>1 DEF PoolInv, PoolOwned, Conns!NoClosedConn
      <3> QED
        BY <2>1, <3>2, <3>3
    <2>11. Conns!NoClosedConn'
      <3>1. endpointConnMap' \subseteq open'
        BY <2>1, <2>2 DEF PoolInv, PoolOwned, Conns!NoClosedConn
      <3> QED
        BY <2>10, <3>1 DEF Conns!NoClosedConn
    <2>12. Conns!NoLeak'
      <3> SUFFICES ASSUME NEW c \in open' PROVE c \in endpointConnMap' \/ \E a \in Conns!Actors : c \in toClose'[a]
        BY DEF Conns!NoLeak
      <3>1. c \in new \/ c \in endpointConnMap \/ \E a \in Conns!Actors : c \in toClose[a]
        BY <2>1 DEF PoolInv, PoolOwned, Conns!NoLeak
      <3> QED
        BY <2>1, <2>7, <3>1
    <2>13. Conns!ClosedForGood'
      BY <1>2 DEF Conns!ConnectionsClosed, Conns!ClosedForGood
    <2> QED
      BY <2>5, <2>6, <2>8, <2>9, <2>11, <2>12, <2>13 DEF PoolOwned
  <1> QED
    BY <1>1, <1>2

(* resetConnMapLocked: all go to its caller to close. *)
LEMMA PoolResets ==
    ASSUME PoolInv, NEW actor \in Conns!Actors, Conns!resetConnMapLocked(actor)
    PROVE  PoolOwned' /\ syncs' \in Nat /\ DOMAIN toClose' = Conns!Actors
  <1>1. /\ toClose' = [toClose EXCEPT ![actor] = toClose[actor] \cup endpointConnMap]
        /\ endpointConnMap' = {} /\ UNCHANGED <<open, syncs>>
    BY DEF Conns!resetConnMapLocked
  <1>2. /\ toClose'[actor] = toClose[actor] \cup endpointConnMap
        /\ \A a \in Conns!Actors : a # actor => toClose'[a] = toClose[a]
    BY <1>1 DEF PoolInv, PoolTyped
  <1>3. Conns!NoLeak'
    BY <1>1, <1>2 DEF PoolInv, PoolOwned, Conns!NoLeak
  <1>4. Conns!NoClosedConn' /\ Conns!ClosedForGood'
    BY <1>1 DEF Conns!NoClosedConn, Conns!ClosedForGood
  <1>5. \A a \in Conns!Actors : \A c \in toClose'[a] : c.at \in Nat /\ c.at < syncs'
    BY <1>1, <1>2 DEF PoolInv, PoolOwned
  <1> QED
    BY <1>1, <1>3, <1>4, <1>5 DEF PoolInv, PoolTyped, PoolOwned

(* conn.Close. *)
LEMMA PoolCloses == ASSUME PoolInv, NEW a \in Conns!Actors, Conns!CloseConn(a) PROVE PoolInv'
  <1>1. /\ open' = open \ toClose[a] /\ toClose' = [toClose EXCEPT ![a] = {}]
        /\ UNCHANGED <<rev, hist, w, listeners, addresses, endpointConnMap, syncs, view, dialOptions, opt, closer>>
    BY DEF Conns!CloseConn, Conns!watcher
  <1>2. toClose'[a] = {} /\ \A b \in Conns!Actors : b # a => toClose'[b] = toClose[b]
    BY <1>1 DEF PoolInv, PoolTyped
  <1>3. PoolTyped'
    BY <1>1 DEF PoolInv, PoolTyped
  <1>4. Conns!NoClosedConn' /\ Conns!ClosedForGood'
    BY <1>1, <1>2 DEF PoolInv, PoolOwned, Conns!NoClosedConn, Conns!ClosedForGood
  <1>5. Conns!NoLeak'
    BY <1>1, <1>2 DEF PoolInv, PoolOwned, Conns!NoLeak
  <1>6. \A b \in Conns!Actors : \A c \in toClose'[b] : c.at \in Nat /\ c.at < syncs'
    BY <1>1, <1>2 DEF PoolInv, PoolOwned
  <1>7. PoolSeen'
    BY <1>1 DEF PoolInv, PoolSeen, Told, Conns!AddrsOf
  <1> QED
    BY <1>1, <1>3, <1>4, <1>5, <1>6, <1>7 DEF PoolInv, PoolOwned

(* Steps of the watcher's goroutine that tell nobody. *)
LEMMA PoolWatches ==
    ASSUME PoolInv,
           \/ Conns!watchSnapshot \/ Conns!publish \/ Conns!published \/ Conns!watchUpdate \/ Conns!run
           \/ Conns!getOrCreateWatcher \/ \E a \in Addrs : Conns!Change(a)
    PROVE  PoolInv'
  <1>1. UNCHANGED <<listeners, endpointConnMap, open, syncs, toClose, view, dialOptions, closer, opt>>
    BY DEF Conns!watchSnapshot, Conns!publish, Conns!published, Conns!watchUpdate, Conns!run,
           Conns!getOrCreateWatcher, Conns!Change, Conns!conns, Conns!watcher
  <1>2. PoolOwned'
    BY <1>1, PoolOwnedStays
  <1> USE DEF PoolInv, PoolSized, PoolTyped, PoolSeen, Told
  <1>3. CASE Conns!publish
    <2>1. addresses' = w.snap /\ w' = [w EXCEPT !.pc = "consume", !.left = listeners] /\ UNCHANGED <<rev, hist>>
      BY <1>3 DEF Conns!publish
    <2> QED
      BY <1>1, <1>2, <2>1
  <1>4. CASE Conns!watchSnapshot
    <2>1. /\ UNCHANGED <<rev, hist, addresses>>
          /\ \/ w' = [w EXCEPT !.pc = "publish", !.seen = rev, !.snap = hist[rev]]
             \/ w' = [w EXCEPT !.pc = "sleep"]
      BY <1>4 DEF Conns!watchSnapshot
    <2> QED
      BY <1>1, <1>2, <1>4, <2>1 DEF Conns!watchSnapshot
  <1>5. CASE Conns!watchUpdate
    <2>1. /\ UNCHANGED <<rev, hist, addresses>> /\ w.pc = "watch"
          /\ \/ \E r \in (w.seen + 1)..rev : w' = [w EXCEPT !.pc = "publish", !.seen = r, !.snap = hist[r]]
             \/ w' = [w EXCEPT !.pc = "sleep"]
      BY <1>5 DEF Conns!watchUpdate
    <2>2. CASE w' = [w EXCEPT !.pc = "sleep"]
      BY <1>1, <1>2, <2>1, <2>2
    <2>3. CASE \E r \in (w.seen + 1)..rev : w' = [w EXCEPT !.pc = "publish", !.seen = r, !.snap = hist[r]]
      <3>1. PICK r \in (w.seen + 1)..rev : w' = [w EXCEPT !.pc = "publish", !.seen = r, !.snap = hist[r]]
        BY <2>3
      <3>2. r \in Int /\ w.seen + 1 <= r /\ r <= rev /\ w.seen \in Nat
        OBVIOUS
      <3>3. r \in 0..MaxRev
        BY <3>2
      <3>4. hist[r] \in SUBSET Addrs
        BY <3>3
      <3> QED
        BY <1>1, <1>2, <2>1, <3>1, <3>3, <3>4
    <2> QED
      BY <2>1, <2>2, <2>3
  <1>6. CASE Conns!published
    <2>1. /\ w.pc = "consume" /\ w.left = {} /\ w' = [w EXCEPT !.pc = "watch"]
          /\ UNCHANGED <<rev, hist, addresses>>
      BY <1>6 DEF Conns!published
    <2> QED
      BY <1>1, <1>2, <2>1
  <1>7. CASE Conns!run \/ Conns!getOrCreateWatcher
    <2>1. /\ w.pc # "consume" /\ UNCHANGED <<rev, hist, addresses>>
          /\ w' = [w EXCEPT !.pc = "get"] \/ w' = [w EXCEPT !.pc = "done"]
      BY <1>7 DEF Conns!run, Conns!getOrCreateWatcher
    <2> QED
      BY <1>1, <1>2, <2>1
  <1>8. CASE \E a \in Addrs : Conns!Change(a)
    <2>1. PICK a \in Addrs : Conns!Change(a)
      BY <1>8
    <2>2. /\ rev < MaxRev /\ rev' = rev + 1 /\ UNCHANGED <<w, addresses>>
          /\ hist' = [hist EXCEPT ![rev + 1] = IF a \in hist[rev] THEN hist[rev] \ {a} ELSE hist[rev] \cup {a}]
      BY <2>1 DEF Conns!Change, Conns!watcher
    <2>3. rev' \in 0..MaxRev /\ hist' \in [0..MaxRev -> SUBSET Addrs]
      BY <2>2
    <2> QED
      BY <1>1, <1>2, <2>2, <2>3 DEF Conns!AddrsOf
  <1> QED
    BY <1>3, <1>4, <1>5, <1>6, <1>7, <1>8

(* addListener: what was published before is dialled at once. *)
LEMMA PoolListens == ASSUME PoolInv, Conns!addListener PROVE PoolInv'
  <1>1. /\ w.pc # "consume" /\ listeners' = listeners \cup {Conns!Pool}
        /\ IF addresses = Conns!Unknown THEN UNCHANGED Conns!conns
                                        ELSE Conns!syncEndpointConnMap(addresses, "option")
        /\ UNCHANGED <<rev, hist, w, addresses, view, dialOptions, opt, closer>>
    BY DEF Conns!addListener, Conns!WatcherFree
  <1>2. CASE addresses = Conns!Unknown
    <2>1. UNCHANGED <<endpointConnMap, open, syncs, toClose>>
      BY <1>1, <1>2 DEF Conns!conns
    <2>2. PoolTyped'
      BY <1>1, <2>1 DEF PoolInv, PoolTyped
    <2>3. PoolSeen'
      BY <1>1, <1>2 DEF PoolInv, PoolSeen, Told, Conns!Unknown
    <2> QED
      BY <1>1, <2>1, <2>2, <2>3, PoolOwnedStays DEF PoolInv
  <1>3. CASE addresses # Conns!Unknown
    <2>1. /\ PoolOwned' /\ syncs' \in Nat /\ DOMAIN toClose' = Conns!Actors
          /\ closer = "idle" => Conns!AddrsOf(endpointConnMap') = addresses
      BY <1>1, <1>3, PoolSyncs DEF Conns!Actors
    <2>2. PoolTyped'
      BY <1>1, <2>1 DEF PoolInv, PoolTyped
    <2>3. PoolSeen'
      BY <1>1, <2>1 DEF PoolInv, PoolSeen, Told, Conns!Pool, Conns!Resolver, Conns!AddrsOf
    <2> QED
      BY <2>1, <2>2, <2>3 DEF PoolInv
  <1> QED
    BY <1>2, <1>3

(* A listener is told: the pool dials, the resolver takes the addresses. *)
LEMMA PoolConsumes == ASSUME PoolInv, NEW l \in {Conns!Pool, Conns!Resolver}, Conns!consume(l) PROVE PoolInv'
  <1>1. /\ w.pc = "consume" /\ l \in w.left /\ w' = [w EXCEPT !.left = w.left \ {l}]
        /\ IF l = Conns!Pool THEN Conns!syncEndpointConnMap(w.snap, "watch") /\ UNCHANGED view
                             ELSE view' = w.snap /\ UNCHANGED Conns!conns
        /\ UNCHANGED <<rev, hist, listeners, addresses, dialOptions, opt, closer>>
    BY DEF Conns!consume
  <1>2. addresses = w.snap
    BY <1>1 DEF PoolInv, PoolSeen
  <1>3. /\ w'.pc = "consume" /\ w'.snap = w.snap /\ w'.left = w.left \ {l}
        /\ w' \in [pc : {"none", "get", "publish", "consume", "watch", "sleep", "done"}, seen : 0..MaxRev,
                   snap : SUBSET Addrs, left : SUBSET {Conns!Pool, Conns!Resolver}]
    BY <1>1 DEF PoolInv, PoolTyped
  <1>4. CASE l = Conns!Pool
    <2>1. /\ PoolOwned' /\ syncs' \in Nat /\ DOMAIN toClose' = Conns!Actors
          /\ closer = "idle" => Conns!AddrsOf(endpointConnMap') = w.snap
      BY <1>1, <1>4, PoolSyncs DEF Conns!Actors
    <2>2. PoolTyped'
      BY <1>1, <1>3, <2>1 DEF PoolInv, PoolTyped
    <2>3. PoolSeen'
      BY <1>1, <1>2, <1>3, <1>4, <2>1 DEF PoolInv, PoolSeen, Told, Conns!Pool, Conns!Resolver, Conns!AddrsOf
    <2> QED
      BY <2>1, <2>2, <2>3 DEF PoolInv
  <1>5. CASE l = Conns!Resolver
    <2>1. view' = w.snap /\ UNCHANGED <<endpointConnMap, open, syncs, toClose>>
      BY <1>1, <1>5 DEF Conns!conns, Conns!Pool, Conns!Resolver
    <2>2. PoolTyped'
      BY <1>1, <1>3, <2>1 DEF PoolInv, PoolTyped
    <2>3. PoolSeen'
      BY <1>1, <1>2, <1>3, <1>5, <2>1 DEF PoolInv, PoolSeen, Told, Conns!Pool, Conns!Resolver, Conns!AddrsOf
    <2> QED
      BY <1>1, <2>1, <2>2, <2>3, PoolOwnedStays DEF PoolInv
  <1> QED
    BY <1>4, <1>5

(* GetConn and Build: the resolver starts with what was published before. *)
LEMMA PoolBuilds == ASSUME PoolInv, Conns!GetConn \/ Conns!Build PROVE PoolInv'
  <1>1. UNCHANGED <<rev, hist, w, addresses, endpointConnMap, open, syncs, toClose, dialOptions, opt, closer>>
    BY DEF Conns!GetConn, Conns!Build, Conns!watcher, Conns!conns
  <1>2. PoolOwned'
    BY <1>1, PoolOwnedStays
  <1>3. CASE Conns!GetConn
    <2>1. UNCHANGED <<listeners, view>>
      BY <1>3 DEF Conns!GetConn, Conns!watcher
    <2> QED
      BY <1>1, <1>2, <2>1 DEF PoolInv, PoolTyped, PoolSeen, Told, Conns!AddrsOf
  <1>4. CASE Conns!Build
    <2>1. /\ w.pc # "consume" /\ listeners' = listeners \cup {Conns!Resolver}
          /\ addresses # Conns!Unknown => view' = addresses
      BY <1>4 DEF Conns!Build, Conns!WatcherFree
    <2>2. PoolTyped'
      BY <1>1, <2>1 DEF PoolInv, PoolTyped
    <2>3. PoolSeen'
      BY <1>1, <2>1 DEF PoolInv, PoolSeen, Told, Conns!AddrsOf, Conns!Pool, Conns!Resolver
    <2> QED
      BY <1>2, <2>2, <2>3 DEF PoolInv
  <1> QED
    BY <1>3, <1>4

(* AddOption: the map is emptied before the options grow, and what it dials *)
(* afterwards has them.                                                     *)
LEMMA PoolAdds == ASSUME PoolInv, Conns!AddOption \/ Conns!addOptionCollect \/ Conns!addOptionSync PROVE PoolInv'
  <1>1. UNCHANGED <<rev, hist, w, listeners, addresses, view, closer>>
    BY DEF Conns!AddOption, Conns!addOptionCollect, Conns!addOptionSync, Conns!watcher
  <1>2. CASE Conns!AddOption
    <2>1. Conns!resetConnMapLocked("option") /\ dialOptions' = dialOptions + 1 /\ endpointConnMap' = {}
      BY <1>2 DEF Conns!AddOption, Conns!resetConnMapLocked
    <2>2. PoolOwned' /\ syncs' \in Nat /\ DOMAIN toClose' = Conns!Actors
      BY <2>1, PoolResets DEF Conns!Actors
    <2>3. dialOptions' \in Nat /\ dialOptions' # 0
      BY <2>1 DEF PoolInv, PoolTyped
    <2>4. PoolTyped'
      BY <1>1, <2>2, <2>3 DEF PoolInv, PoolTyped
    <2>5. PoolSeen'
      BY <1>1, <2>3 DEF PoolInv, PoolSeen, Told
    <2> QED
      BY <2>2, <2>4, <2>5 DEF PoolInv
  <1>3. CASE Conns!addOptionCollect
    <2>1. opt.pc = "collect" /\ UNCHANGED <<endpointConnMap, open, syncs, toClose, dialOptions>>
      BY <1>3 DEF Conns!addOptionCollect, Conns!conns
    <2>2. PoolTyped'
      BY <1>1, <2>1 DEF PoolInv, PoolTyped
    <2>3. PoolSeen'
      BY <1>1, <2>1 DEF PoolInv, PoolSeen, Told, Conns!AddrsOf
    <2> QED
      BY <1>1, <2>1, <2>2, <2>3, PoolOwnedStays DEF PoolInv
  <1>4. CASE Conns!addOptionSync
    <2>1. /\ opt.pc = "sync" /\ Conns!syncEndpointConnMap(opt.addrs, "option") /\ UNCHANGED dialOptions
      BY <1>4 DEF Conns!addOptionSync
    <2>2. PoolOwned' /\ syncs' \in Nat /\ DOMAIN toClose' = Conns!Actors
      BY <1>1, <2>1, PoolSyncs DEF Conns!Actors
    <2>3. dialOptions # 0
      BY <2>1 DEF PoolInv, PoolTyped
    <2>4. PoolTyped'
      BY <1>1, <2>1, <2>2, <2>3 DEF PoolInv, PoolTyped
    <2>5. PoolSeen'
      BY <1>1, <2>1, <2>3 DEF PoolInv, PoolSeen, Told
    <2> QED
      BY <2>2, <2>4, <2>5 DEF PoolInv
  <1> QED
    BY <1>2, <1>3, <1>4

(* close: the map stays empty once the connections are taken out of it. *)
LEMMA PoolShuts == ASSUME PoolInv, Conns!close \/ Conns!closeConns PROVE PoolInv'
  <1>1. UNCHANGED <<rev, hist, w, addresses, view, dialOptions, opt>> /\ closer' \in {"wait", "end"}
    BY DEF Conns!close, Conns!closeConns, Conns!watcher
  <1>2. PoolSeen'
    BY <1>1 DEF PoolInv, PoolSeen, Told
  <1>3. CASE Conns!close
    <2>1. UNCHANGED <<listeners, endpointConnMap, open, syncs, toClose>> /\ closer' = "wait"
      BY <1>3 DEF Conns!close, Conns!conns, Conns!watcher
    <2>2. PoolTyped'
      BY <1>1, <2>1 DEF PoolInv, PoolTyped
    <2> QED
      BY <1>1, <1>2, <2>1, <2>2, PoolOwnedStays DEF PoolInv
  <1>4. CASE Conns!closeConns
    <2>1. /\ closer = "wait" /\ Conns!resetConnMapLocked("close") /\ listeners' = listeners \ {Conns!Resolver}
      BY <1>4 DEF Conns!closeConns
    <2>2. PoolOwned' /\ syncs' \in Nat /\ DOMAIN toClose' = Conns!Actors
      BY <1>1, <2>1, PoolResets DEF Conns!Actors
    <2>3. PoolTyped'
      BY <1>1, <2>1, <2>2 DEF PoolInv, PoolTyped
    <2> QED
      BY <1>2, <2>2, <2>3 DEF PoolInv
  <1> QED
    BY <1>3, <1>4

(* Every step of the watcher, of the pool and of the calls keeps it. *)
LEMMA PoolNext == ASSUME PoolInv, Conns!Next PROVE PoolInv'
  <1>1. CASE Conns!Watching
    <2>1. CASE \E l \in {Conns!Pool, Conns!Resolver} : Conns!consume(l)
      BY <2>1, PoolConsumes
    <2> QED
      BY <1>1, <2>1, PoolWatches DEF Conns!Watching
  <1>2. CASE Conns!Adding
    BY <1>2, PoolListens, PoolAdds DEF Conns!Adding
  <1>3. CASE Conns!Closing
    BY <1>3, PoolShuts DEF Conns!Closing
  <1>4. CASE \E a \in Conns!Actors : Conns!CloseConn(a)
    BY <1>4, PoolCloses
  <1> QED
    BY <1>1, <1>2, <1>3, <1>4, PoolWatches, PoolBuilds, PoolAdds DEF Conns!Next

(* A step that leaves its variables alone keeps it. *)
LEMMA PoolStutters == ASSUME PoolInv, UNCHANGED Conns!vars PROVE PoolInv'
  <1>1. UNCHANGED <<rev, hist, w, listeners, addresses, endpointConnMap, open, syncs, toClose, view, dialOptions, opt,
                    closer>>
    BY DEF Conns!vars, Conns!watcher, Conns!conns
  <1> QED
    BY <1>1, PoolOwnedStays DEF PoolInv, PoolTyped, PoolSeen, Told, Conns!AddrsOf

(* What it says of the connections. *)
LEMMA PoolImplies ==
    ASSUME PoolInv
    PROVE  /\ Conns!NoClosedConn /\ Conns!NoLeak /\ Conns!ClosedForGood /\ Conns!CurrentOptions
           /\ Conns!InView
  BY DEF PoolInv, PoolOwned, PoolSeen, Told, Conns!CurrentOptions, Conns!InView, Conns!WatcherFree

(* The pool: no connection in the map is closed, none is forgotten, none is *)
(* open after Close, all carry the options of now, and pool and resolver    *)
(* have the addresses that the watcher published last.                      *)
THEOREM PoolFollows ==
    ASSUME PoolSized
    PROVE  Conns!Spec => [](Conns!NoClosedConn /\ Conns!NoLeak /\ Conns!ClosedForGood
                            /\ Conns!CurrentOptions /\ Conns!InView)
  <1>1. Conns!Init => PoolInv
    BY PoolStarts
  <1>2. PoolInv /\ [Conns!Next]_(Conns!vars) => PoolInv'
    BY PoolNext, PoolStutters
  <1>3. PoolInv =>
          Conns!NoClosedConn /\ Conns!NoLeak /\ Conns!ClosedForGood /\ Conns!CurrentOptions /\ Conns!InView
    BY PoolImplies
  <1> QED
    BY <1>1, <1>2, <1>3, PTL DEF Conns!Spec
-----------------------------------------------------------------------------
(* discovery/etcd: watch_key.go. *)

(* The entries of the map are numbered. *)
KeySized == MaxEntries \in Nat

(* What a subscriber was given: the events it handled and those in its      *)
(* queue.                                                                   *)
Stream(s) == handled[s] \o sub[s].events

(* Events in order, with nothing between two of them but what is in sk. *)
Gapless(q, sk) == \A i \in 1..(Len(q) - 1) : q[i] < q[i + 1] /\ (q[i] + 1)..(q[i + 1] - 1) \subseteq sk

(* The last event that the subscriber has got, or that nothing kept it from *)
(* getting: the one being pushed is still to come.                          *)
Upto(e, s) == IF s \in run[e].left THEN run[e].seen - 1 ELSE run[e].seen

(* A goroutine and a call. *)
RunSet == [pc : {"none", "start", "watch", "push", "drop", "sleep", "closing", "end"}, seen : Nat, left : SUBSET Subs]
(* A call of WatchKey: its entry, its queue, whether it has left and its    *)
(* caller has given up.                                                     *)
SubSet == [pc : {"idle", "add", "loop", "remove", "drop", "end"}, entry : 0..MaxEntries, events : Seq(Nat),
           done : BOOLEAN, caller : BOOLEAN]

(* The variables of watch_key.go have their types. *)
KeyTyped ==
    /\ KeySized /\ kRev \in Nat /\ made \in 0..MaxEntries /\ watchEntry \in 0..made
    /\ run \in [Key!Entries -> RunSet]
    /\ subs \in [Key!Entries -> SUBSET Subs] /\ DOMAIN skipped = Key!Entries
    /\ sub \in [Subs -> SubSet]
    /\ handled \in [Subs -> Seq(Nat)]

(* Only an entry that pushes has subscribers left to push to, and it has    *)
(* seen no event that has not happened.                                     *)
KeyRuns ==
    \A e \in Key!Entries :
        /\ run[e].pc \notin {"push", "drop"} => run[e].left = {}
        /\ run[e].seen <= kRev
        /\ e > made => run[e].pc = "none"

(* A call is a subscriber of its own entry only, and only once it was       *)
(* added.                                                                   *)
KeySubs ==
    \A s \in Subs :
        /\ sub[s].pc \in {"idle", "add"} => handled[s] = << >> /\ sub[s].events = << >>
        /\ sub[s].pc # "idle" => sub[s].entry \in 1..made
        /\ \A e \in Key!Entries :
              /\ s \in subs[e] \/ s \in run[e].left => sub[s].entry = e /\ sub[s].pc \notin {"idle", "add"}
              /\ s \in run[e].left /\ s \notin subs[e] => sub[s].done

(* What it was given has no gap, and reaches up to where its entry is. *)
KeyGapless ==
    \A s \in Subs :
        /\ sub[s].pc \notin {"idle", "add"} => Gapless(Stream(s), skipped[sub[s].entry])
        /\ \A e \in Key!Entries :
              s \in subs[e] /\ Len(Stream(s)) > 0 =>
                  /\ Stream(s)[Len(Stream(s))] <= Upto(e, s)
                  /\ (Stream(s)[Len(Stream(s))] + 1)..Upto(e, s) \subseteq skipped[e]

(* The inductive invariant of the key watches. *)
KeyInv == KeyTyped /\ KeyRuns /\ KeySubs /\ KeyGapless /\ Key!NoOrphan

(* A registry without entries satisfies it. *)
LEMMA KeyStarts == ASSUME KeySized, Key!Init PROVE KeyInv
  <1>1. KeyTyped
    BY DEF Key!Init, KeySized, KeyTyped, RunSet, SubSet, Key!None
  <1>2. KeyRuns
    BY DEF Key!Init, KeyRuns, KeySized, Key!Entries
  <1>3. KeySubs
    BY DEF Key!Init, KeySubs
  <1>4. KeyGapless
    BY DEF Key!Init, KeyGapless
  <1>5. Key!NoOrphan
    BY DEF Key!Init, Key!NoOrphan
  <1> QED
    BY <1>1, <1>2, <1>3, <1>4, <1>5 DEF KeyInv

(* One more event continues a gapless stream. *)
LEMMA GaplessAppend ==
    ASSUME NEW q \in Seq(Nat), NEW sk, NEW x \in Nat, Gapless(q, sk),
           Len(q) > 0 => q[Len(q)] < x /\ (q[Len(q)] + 1)..(x - 1) \subseteq sk
    PROVE  Gapless(Append(q, x), sk)
  <1> SUFFICES ASSUME NEW i \in 1..(Len(Append(q, x)) - 1)
               PROVE  LET r == Append(q, x) IN r[i] < r[i + 1] /\ (r[i] + 1)..(r[i + 1] - 1) \subseteq sk
    BY DEF Gapless
  <1>1. Len(Append(q, x)) = Len(q) + 1 /\ i \in 1..Len(q) /\ Append(q, x)[i] = q[i]
    OBVIOUS
  <1>2. CASE i = Len(q)
    <2>1. Append(q, x)[i + 1] = x /\ Len(q) > 0
      BY <1>1, <1>2
    <2> QED
      BY <1>1, <1>2, <2>1
  <1>3. CASE i # Len(q)
    <2>1. Append(q, x)[i + 1] = q[i + 1] /\ i \in 1..(Len(q) - 1)
      BY <1>1, <1>3
    <2> QED
      BY <1>1, <2>1 DEF Gapless
  <1> QED
    BY <1>2, <1>3

(* Events without a gap stay so when more are skipped. *)
LEMMA GaplessGrows ==
    ASSUME NEW q, NEW sk, NEW more, Gapless(q, sk), sk \subseteq more
    PROVE  Gapless(q, more)
  BY DEF Gapless

(* The first part of a stream without gaps has none. *)
LEMMA GaplessPrefix ==
    ASSUME NEW q \in Seq(Nat), NEW r \in Seq(Nat), NEW sk, Gapless(q \o r, sk)
    PROVE  Gapless(q, sk)
  <1> SUFFICES ASSUME NEW i \in 1..(Len(q) - 1)
               PROVE  q[i] < q[i + 1] /\ (q[i] + 1)..(q[i + 1] - 1) \subseteq sk
    BY DEF Gapless
  <1>1. /\ Len(q \o r) = Len(q) + Len(r) /\ (q \o r)[i] = q[i] /\ (q \o r)[i + 1] = q[i + 1]
        /\ i \in 1..(Len(q \o r) - 1)
    OBVIOUS
  <1> QED
    BY <1>1 DEF Gapless

(* Handling an event moves it within the stream; pushing one appends it. *)
LEMMA StreamMoves ==
    ASSUME NEW q \in Seq(Nat), NEW r \in Seq(Nat), r # << >>
    PROVE  Append(q, Head(r)) \o Tail(r) = q \o r
  OBVIOUS

(* What is appended to the queue is appended to the stream. *)
LEMMA StreamGrows ==
    ASSUME NEW q \in Seq(Nat), NEW r \in Seq(Nat), NEW x \in Nat
    PROVE  q \o Append(r, x) = Append(q \o r, x)
  OBVIOUS

(* A stream is one of events. *)
LEMMA StreamTyped == ASSUME KeyTyped, NEW s \in Subs PROVE Stream(s) \in Seq(Nat)
  BY DEF KeyTyped, SubSet, Stream

(* One call, or one goroutine, changes. *)
LEMMA SubMoves ==
    ASSUME KeyTyped, NEW s \in Subs, NEW r \in SubSet, sub' = [sub EXCEPT ![s] = r]
    PROVE  sub' \in [Subs -> SubSet] /\ sub'[s] = r /\ \A t \in Subs : t # s => sub'[t] = sub[t]
  BY DEF KeyTyped

(* The other goroutines stay where they are. *)
LEMMA RunMoves ==
    ASSUME KeyTyped, NEW e \in Key!Entries, NEW r \in RunSet, run' = [run EXCEPT ![e] = r]
    PROVE  run' \in [Key!Entries -> RunSet] /\ run'[e] = r /\ \A x \in Key!Entries : x # e => run'[x] = run[x]
  BY DEF KeyTyped

(* A step that gives nobody an event and moves no entry on. *)
LEMMA KeyGapStays ==
    ASSUME KeyInv, KeyTyped', UNCHANGED skipped,
           \A e \in Key!Entries : run'[e].seen = run[e].seen /\ run'[e].left = run[e].left,
           \A s \in Subs :
               /\ handled'[s] \o sub'[s].events = Stream(s)
               /\ sub'[s].pc \notin {"idle", "add"} => sub[s].pc # "idle" /\ sub'[s].entry = sub[s].entry
               /\ \A e \in Key!Entries : s \in subs'[e] => s \in subs[e] \/ sub[s].pc = "add"
    PROVE  KeyGapless'
  <1> SUFFICES ASSUME NEW s \in Subs
               PROVE  /\ sub'[s].pc \notin {"idle", "add"} => Gapless(Stream(s), skipped[sub'[s].entry])
                      /\ \A e \in Key!Entries :
                            s \in subs'[e] /\ Len(Stream(s)) > 0 =>
                                /\ Stream(s)[Len(Stream(s))] <= Upto(e, s)
                                /\ (Stream(s)[Len(Stream(s))] + 1)..Upto(e, s) \subseteq skipped[e]
    BY DEF KeyGapless, Stream, Upto
  <1>1. CASE sub[s].pc \in {"idle", "add"}
    <2>1. handled[s] = << >> /\ sub[s].events = << >>
      BY <1>1 DEF KeyInv, KeySubs
    <2>2. Stream(s) = << >> /\ Len(Stream(s)) = 0
      BY <2>1 DEF Stream
    <2> QED
      BY <2>2 DEF Gapless
  <1>2. CASE sub[s].pc \notin {"idle", "add"}
    BY <1>2 DEF KeyInv, KeyGapless
  <1> QED
    BY <1>1, <1>2

(* The goroutine of an entry in the map, or of one that ends, is no orphan. *)
LEMMA KeyNoOrphan ==
    ASSUME KeyInv, made' = made,
           (watchEntry' = watchEntry /\ cancelled' = cancelled) \/ (\E x \in Key!Entries : Key!Drop(x)),
           \A e \in Key!Entries : run[e].pc = "end" => run'[e].pc = "end"
    PROVE  Key!NoOrphan' /\ watchEntry' \in 0..made
  <1>1. 1..made \subseteq Key!Entries /\ watchEntry \in 0..made /\ made \in Nat
    BY DEF KeyInv, KeyTyped, KeySized, Key!Entries
  <1>2. \A e \in 1..made : run[e].pc # "end" /\ e # watchEntry => e \in cancelled
    BY DEF KeyInv, Key!NoOrphan
  <1>3. CASE watchEntry' = watchEntry /\ cancelled' = cancelled
    BY <1>1, <1>2, <1>3 DEF Key!NoOrphan
  <1>4. CASE \E x \in Key!Entries : Key!Drop(x)
    <2>1. PICK x \in Key!Entries : Key!Drop(x)
      BY <1>4
    <2>2. watchEntry' = (IF watchEntry = x THEN 0 ELSE watchEntry) /\ cancelled' = cancelled \cup {x}
      BY <2>1 DEF Key!Drop, Key!None
    <2>3. watchEntry' \in 0..made
      BY <1>1, <2>2
    <2>4. \A e \in 1..made : run'[e].pc # "end" /\ e # watchEntry' => e \in cancelled'
      BY <1>1, <1>2, <2>2
    <2> QED
      BY <2>3, <2>4 DEF Key!NoOrphan
  <1> QED
    BY <1>3, <1>4

(* An event, a caller that gives up, and the end of the hub. *)
LEMMA KeyOutside ==
    ASSUME KeyInv, Key!Event \/ Key!stopKeyWatches \/ \E s \in Subs : Key!CallerCancels(s)
    PROVE  KeyInv'
  <1>1. /\ UNCHANGED <<made, subs, run, skipped, handled>> /\ (kRev' = kRev \/ kRev' = kRev + 1)
        /\ (watchEntry' = watchEntry /\ cancelled' = cancelled) \/ (\E x \in Key!Entries : Key!Drop(x))
    BY DEF KeyInv, KeyTyped, KeySized, Key!Event, Key!stopKeyWatches, Key!CallerCancels, Key!Entries, Key!None
  <1>2. sub' = sub \/ \E s \in Subs : sub' = [sub EXCEPT ![s].caller = TRUE]
    BY DEF Key!Event, Key!stopKeyWatches, Key!CallerCancels
  <1>3. /\ sub' \in [Subs -> SubSet]
        /\ \A s \in Subs : /\ sub'[s].pc = sub[s].pc /\ sub'[s].entry = sub[s].entry
                            /\ sub'[s].events = sub[s].events /\ sub'[s].done = sub[s].done
    <2>1. sub \in [Subs -> SubSet]
      BY DEF KeyInv, KeyTyped
    <2>2. ASSUME NEW s \in Subs, sub' = [sub EXCEPT ![s].caller = TRUE]
          PROVE  /\ sub' \in [Subs -> SubSet]
                 /\ \A t \in Subs : /\ sub'[t].pc = sub[t].pc /\ sub'[t].entry = sub[t].entry
                                     /\ sub'[t].events = sub[t].events /\ sub'[t].done = sub[t].done
      BY <2>1, <2>2 DEF SubSet
    <2> QED
      BY <1>2, <2>1, <2>2
  <1>4. Key!NoOrphan' /\ watchEntry' \in 0..made
    BY <1>1, KeyNoOrphan
  <1>5. KeyTyped'
    BY <1>1, <1>3, <1>4 DEF KeyInv, KeyTyped
  <1>6. KeyRuns'
    BY <1>1 DEF KeyInv, KeyTyped, RunSet, KeyRuns
  <1>7. KeySubs'
    BY <1>1, <1>3 DEF KeyInv, KeySubs
  <1>8. KeyGapless'
    <2>1. \A s \in Subs : handled'[s] \o sub'[s].events = Stream(s)
      BY <1>1, <1>3 DEF Stream
    <2>2. \A s \in Subs : sub[s].pc = "idle" => sub'[s].pc = "idle"
      BY <1>3
    <2> QED
      BY <1>1, <1>3, <1>5, <2>1, <2>2, KeyGapStays
  <1> QED
    BY <1>4, <1>5, <1>6, <1>7, <1>8 DEF KeyInv

(* getOrCreateWatchKeyEntry: a new entry only when the map has none. *)
LEMMA KeyGets == ASSUME KeyInv, NEW s \in Subs, Key!getOrCreateWatchKeyEntry(s) PROVE KeyInv'
  <1>2. sub[s].pc = "idle" /\ UNCHANGED <<kRev, cancelled, subs, skipped, handled>>
    BY DEF Key!getOrCreateWatchKeyEntry
  <1>1. made \in 0..MaxEntries /\ watchEntry \in 0..made /\ MaxEntries \in Nat
    BY DEF KeyInv, KeyTyped, KeySized
  <1>3. \E e \in 1..MaxEntries :
            /\ sub' = [sub EXCEPT ![s].pc = "add", ![s].entry = e]
            /\ \/ e = watchEntry /\ UNCHANGED <<watchEntry, made, run>>
               \/ /\ watchEntry = 0 /\ e = made + 1 /\ made' = e /\ watchEntry' = e
                  /\ run' = [run EXCEPT ![e].pc = "start"]
    <2>1. CASE watchEntry # 0
      <3>1. sub' = [sub EXCEPT ![s].pc = "add", ![s].entry = watchEntry] /\ UNCHANGED <<watchEntry, made, run>>
        BY <2>1 DEF Key!getOrCreateWatchKeyEntry, Key!None
      <3>2. watchEntry \in 1..MaxEntries
        BY <1>1, <2>1
      <3> QED
        BY <3>1, <3>2
    <2>2. CASE watchEntry = 0
      <3>1. /\ made < MaxEntries /\ made' = made + 1 /\ watchEntry' = made + 1
            /\ sub' = [sub EXCEPT ![s].pc = "add", ![s].entry = made + 1]
            /\ run' = [run EXCEPT ![made + 1].pc = "start"]
        BY <2>2 DEF Key!getOrCreateWatchKeyEntry, Key!None
      <3>2. made + 1 \in 1..MaxEntries
        BY <1>1, <3>1
      <3> QED
        BY <2>2, <3>1, <3>2
    <2> QED
      BY <2>1, <2>2
  <1>4. PICK e \in 1..MaxEntries :
            /\ sub' = [sub EXCEPT ![s].pc = "add", ![s].entry = e]
            /\ \/ e = watchEntry /\ UNCHANGED <<watchEntry, made, run>>
               \/ /\ watchEntry = 0 /\ e = made + 1 /\ made' = e /\ watchEntry' = e
                  /\ run' = [run EXCEPT ![e].pc = "start"]
    BY <1>3
  <1>5. e \in 0..MaxEntries /\ e \in Key!Entries
    BY <1>1 DEF Key!Entries
  <1>6. /\ sub'[s].pc = "add" /\ sub'[s].entry = e /\ sub'[s].events = sub[s].events /\ sub'[s].done = sub[s].done
        /\ \A t \in Subs : t # s => sub'[t] = sub[t]
        /\ sub' \in [Subs -> SubSet]
    <2>1. sub \in [Subs -> SubSet]
      BY DEF KeyInv, KeyTyped
    <2>2. sub' = [sub EXCEPT ![s].pc = "add", ![s].entry = e]
      BY <1>4
    <2> QED
      BY <1>5, <2>1, <2>2 DEF SubSet
  <1>7. /\ made' \in 0..MaxEntries /\ watchEntry' \in 0..made' /\ made <= made' /\ e \in 1..made'
        /\ made' # made => watchEntry = 0 /\ made' = made + 1 /\ watchEntry' = made'
        /\ made' = made => UNCHANGED <<watchEntry, run>>
    BY <1>1, <1>4
  <1>8. /\ run' \in [Key!Entries -> RunSet]
        /\ \A x \in Key!Entries : /\ run'[x].seen = run[x].seen /\ run'[x].left = run[x].left
                                  /\ x # made' \/ made' = made => run'[x] = run[x]
    <2>1. CASE made' = made
      BY <1>7, <2>1 DEF KeyInv, KeyTyped
    <2>2. CASE made' # made
      <3>1. run' = [run EXCEPT ![e].pc = "start"] /\ made' = e
        BY <1>4, <2>2
      <3> QED
        BY <1>5, <2>2, <3>1 DEF KeyInv, KeyTyped, RunSet
    <2> QED
      BY <2>1, <2>2
  <1>9. KeyTyped'
    BY <1>2, <1>6, <1>7, <1>8 DEF KeyInv, KeyTyped
  <1>10. KeyRuns'
    <2> SUFFICES ASSUME NEW x \in Key!Entries
                 PROVE  /\ run'[x].pc \notin {"push", "drop"} => run'[x].left = {}
                        /\ run'[x].seen <= kRev /\ (x > made' => run'[x].pc = "none")
      BY <1>2 DEF KeyRuns
    <2>1. x \in Nat
      BY DEF Key!Entries
    <2>2. CASE made' # made /\ x = made'
      <3>1. x > made
        BY <1>7, <2>2 DEF KeyInv, KeyTyped
      <3> QED
        BY <1>2, <1>8, <2>1, <2>2, <3>1 DEF KeyInv, KeyRuns
    <2>3. CASE made' = made \/ x # made'
      BY <1>7, <1>8, <2>1, <2>3 DEF KeyInv, KeyRuns, KeyTyped
    <2> QED
      BY <2>2, <2>3
  <1>11. KeySubs'
    <2> SUFFICES ASSUME NEW t \in Subs
                 PROVE  /\ sub'[t].pc \in {"idle", "add"} => handled[t] = << >> /\ sub'[t].events = << >>
                        /\ sub'[t].pc # "idle" => sub'[t].entry \in 1..made'
                        /\ \A x \in Key!Entries :
                              /\ t \in subs[x] \/ t \in run[x].left =>
                                     sub'[t].entry = x /\ sub'[t].pc \notin {"idle", "add"}
                              /\ t \in run[x].left /\ t \notin subs[x] => sub'[t].done
      BY <1>2, <1>8 DEF KeySubs
    <2>1. CASE t = s
      BY <1>2, <1>6, <1>7, <2>1 DEF KeyInv, KeySubs
    <2>2. CASE t # s
      <3>1. sub[t].pc # "idle" => sub[t].entry \in 1..made'
        BY <1>7 DEF KeyInv, KeyTyped, KeySubs
      <3> QED
        BY <1>6, <2>2, <3>1 DEF KeyInv, KeySubs
    <2> QED
      BY <2>1, <2>2
  <1>12. KeyGapless'
    <2>1. \A t \in Subs : handled'[t] \o sub'[t].events = Stream(t)
      BY <1>2, <1>6 DEF Stream
    <2>2. \A t \in Subs : sub'[t].pc \notin {"idle", "add"} => sub[t].pc # "idle" /\ sub'[t].entry = sub[t].entry
      BY <1>6
    <2> QED
      BY <1>2, <1>8, <1>9, <2>1, <2>2, KeyGapStays
  <1>13. Key!NoOrphan'
    <2> SUFFICES ASSUME NEW x \in 1..made', run'[x].pc # "end", x # watchEntry' PROVE x \in cancelled
      BY <1>2 DEF Key!NoOrphan
    <2>1. x \in 1..made /\ x # watchEntry /\ x \in Key!Entries
      BY <1>7 DEF KeyInv, KeyTyped, KeySized, Key!Entries
    <2>2. run'[x] = run[x]
      BY <1>7, <1>8, <2>1
    <2> QED
      BY <2>1, <2>2 DEF KeyInv, Key!NoOrphan
  <1> QED
    BY <1>9, <1>10, <1>11, <1>12, <1>13 DEF KeyInv

(* addSubscriber and removeSubscriber. *)
LEMMA KeyAdds == ASSUME KeyInv, NEW s \in Subs, Key!addSubscriber(s) \/ Key!removeSubscriber(s) PROVE KeyInv'
  <1>1. UNCHANGED <<kRev, watchEntry, made, cancelled, run, skipped, handled>>
    BY DEF Key!addSubscriber, Key!removeSubscriber
  <1>2. sub[s].pc \in {"add", "remove"} /\ sub[s].entry \in Key!Entries
    BY DEF KeyInv, KeyTyped, KeySubs, KeySized, Key!Entries, Key!addSubscriber, Key!removeSubscriber
  <1> DEFINE e == sub[s].entry
  <1>3. /\ \A t \in Subs : t # s => sub'[t] = sub[t]
        /\ sub'[s].entry = e /\ sub'[s].events = sub[s].events /\ sub'[s].pc \in {"loop", "drop", "end"}
        /\ sub' \in [Subs -> SubSet]
    <2>1. sub \in [Subs -> SubSet]
      BY DEF KeyInv, KeyTyped
    <2>2. CASE Key!addSubscriber(s)
      BY <2>1, <2>2 DEF Key!addSubscriber, Key!SetSub, SubSet
    <2>3. CASE Key!removeSubscriber(s)
      BY <2>1, <2>3 DEF Key!removeSubscriber, SubSet
    <2> QED
      BY <2>2, <2>3
  <1>4. /\ \/ sub[s].pc = "add" /\ sub'[s].done = sub[s].done /\ subs' = [subs EXCEPT ![e] = subs[e] \cup {s}]
           \/ sub[s].pc = "remove" /\ sub'[s].done /\ subs' = [subs EXCEPT ![e] = subs[e] \ {s}]
    BY DEF KeyInv, KeyTyped, Key!addSubscriber, Key!removeSubscriber, Key!SetSub, SubSet
  <1>5. /\ subs' \in [Key!Entries -> SUBSET Subs]
        /\ \A x \in Key!Entries : x # e => subs'[x] = subs[x]
        /\ \/ sub[s].pc = "add" /\ subs'[e] = subs[e] \cup {s} /\ sub'[s].done = sub[s].done
           \/ sub[s].pc = "remove" /\ subs'[e] = subs[e] \ {s} /\ sub'[s].done
    <2>1. subs \in [Key!Entries -> SUBSET Subs] /\ e \in Key!Entries
      BY <1>2 DEF KeyInv, KeyTyped
    <2> QED
      BY <1>4, <2>1
  <1> HIDE DEF e
  <1>6. KeyTyped'
    BY <1>1, <1>3, <1>5 DEF KeyInv, KeyTyped
  <1>7. KeyRuns'
    BY <1>1 DEF KeyInv, KeyRuns
  <1>8. KeySubs'
    <2> SUFFICES ASSUME NEW t \in Subs
                 PROVE  /\ sub'[t].pc \in {"idle", "add"} => handled[t] = << >> /\ sub'[t].events = << >>
                        /\ sub'[t].pc # "idle" => sub'[t].entry \in 1..made
                        /\ \A x \in Key!Entries :
                              /\ t \in subs'[x] \/ t \in run[x].left =>
                                     sub'[t].entry = x /\ sub'[t].pc \notin {"idle", "add"}
                              /\ t \in run[x].left /\ t \notin subs'[x] => sub'[t].done
      BY <1>1 DEF KeySubs
    <2>1. CASE t = s
      <3>1. e \in 1..made /\ sub[s].entry = e
        BY <1>2 DEF KeyInv, KeySubs, e
      <3>2. ASSUME NEW x \in Key!Entries
            PROVE  /\ s \in subs'[x] \/ s \in run[x].left => e = x
                   /\ s \in run[x].left /\ s \notin subs'[x] => sub'[s].done
        BY <1>2, <1>5, <3>1 DEF KeyInv, KeySubs
      <3> QED
        BY <1>3, <2>1, <3>1, <3>2
    <2>2. CASE t # s
      <3>1. sub'[t] = sub[t] /\ \A x \in Key!Entries : t \in subs'[x] <=> t \in subs[x]
        BY <1>3, <1>5, <2>2
      <3> QED
        BY <3>1 DEF KeyInv, KeySubs
    <2> QED
      BY <2>1, <2>2
  <1>9. KeyGapless'
    <2>1. \A t \in Subs : handled'[t] \o sub'[t].events = Stream(t)
      BY <1>1, <1>3 DEF Stream
    <2>2. \A t \in Subs : sub'[t].pc \notin {"idle", "add"} => sub[t].pc # "idle" /\ sub'[t].entry = sub[t].entry
      BY <1>2, <1>3 DEF e
    <2>3. \A t \in Subs : \A x \in Key!Entries : t \in subs'[x] => t \in subs[x] \/ sub[t].pc = "add"
      BY <1>5
    <2> QED
      BY <1>1, <1>6, <2>1, <2>2, <2>3, KeyGapStays
  <1>10. Key!NoOrphan'
    BY <1>1, KeyNoOrphan
  <1> QED
    BY <1>6, <1>7, <1>8, <1>9, <1>10 DEF KeyInv

(* The loop of WatchKey moves an event from the queue to the handled ones,  *)
(* and the last subscriber drops the entry.                                 *)
LEMMA KeyHandles ==
    ASSUME KeyInv, NEW s \in Subs, Key!WatchKey(s) \/ Key!removeWatchKeySubscriber(s)
    PROVE  KeyInv'
  <1>1. /\ UNCHANGED <<kRev, made, subs, run, skipped>> /\ sub[s].pc \in {"loop", "drop"}
        /\ (watchEntry' = watchEntry /\ cancelled' = cancelled) \/ Key!Drop(sub[s].entry)
    BY DEF Key!WatchKey, Key!removeWatchKeySubscriber
  <1>2. sub[s].entry \in Key!Entries
    BY <1>1 DEF KeyInv, KeyTyped, KeySubs, KeySized, Key!Entries
  <1>3. sub \in [Subs -> SubSet] /\ handled \in [Subs -> Seq(Nat)] /\ sub[s].events \in Seq(Nat)
    BY DEF KeyInv, KeyTyped, SubSet
  <1>4. /\ sub' \in [Subs -> SubSet] /\ handled' \in [Subs -> Seq(Nat)]
        /\ \A t \in Subs : t # s => sub'[t] = sub[t] /\ handled'[t] = handled[t]
        /\ sub'[s].entry = sub[s].entry /\ sub'[s].done = sub[s].done /\ sub'[s].pc \in {"loop", "remove", "end"}
        /\ handled'[s] \o sub'[s].events = Stream(s)
    <2>1. CASE UNCHANGED handled /\ \E pc \in {"remove", "end"} : sub' = [sub EXCEPT ![s].pc = pc]
      BY <1>3, <2>1 DEF SubSet, Stream
    <2>2. CASE /\ sub[s].events # << >> /\ handled' = [handled EXCEPT ![s] = Append(handled[s], Head(sub[s].events))]
               /\ \E pc \in {"remove", "loop"} :
                     sub' = [sub EXCEPT ![s].pc = pc, ![s].events = Tail(sub[s].events)]
      <3>1. Head(sub[s].events) \in Nat /\ Tail(sub[s].events) \in Seq(Nat)
        BY <1>3, <2>2
      <3>2. /\ handled' \in [Subs -> Seq(Nat)] /\ handled'[s] = Append(handled[s], Head(sub[s].events))
            /\ \A t \in Subs : t # s => handled'[t] = handled[t]
        BY <1>3, <2>2, <3>1
      <3>3. PICK pc \in {"remove", "loop"} :
                sub' = [sub EXCEPT ![s].pc = pc, ![s].events = Tail(sub[s].events)]
        BY <2>2
      <3>4. /\ sub'[s].pc = pc /\ sub'[s].events = Tail(sub[s].events)
            /\ sub'[s].entry = sub[s].entry /\ sub'[s].done = sub[s].done
            /\ \A t \in Subs : t # s => sub'[t] = sub[t]
        BY <1>3, <3>3 DEF SubSet
      <3>5. sub' \in [Subs -> SubSet]
        BY <1>3, <3>1, <3>3 DEF SubSet
      <3>6. handled'[s] \o sub'[s].events = Stream(s)
        <4>1. handled[s] \in Seq(Nat) /\ sub[s].events \in Seq(Nat) /\ sub[s].events # << >>
          BY <1>3, <2>2
        <4>2. Append(handled[s], Head(sub[s].events)) \o Tail(sub[s].events) = handled[s] \o sub[s].events
          BY <4>1, StreamMoves
        <4> QED
          BY <3>2, <3>4, <4>2 DEF Stream
      <3> QED
        BY <3>2, <3>4, <3>5, <3>6
    <2>3. CASE Key!removeWatchKeySubscriber(s)
      BY <2>1, <2>3 DEF Key!removeWatchKeySubscriber, Key!SetSub
    <2>4. CASE Key!WatchKey(s)
      <3>1. CASE Key!SetSub(s, "remove") /\ UNCHANGED handled
        BY <2>1, <3>1 DEF Key!SetSub
      <3>2. CASE /\ sub[s].events # << >> /\ handled' = [handled EXCEPT ![s] = Append(handled[s], Head(sub[s].events))]
                 /\ \E failed \in BOOLEAN :
                       sub' = [sub EXCEPT ![s].pc = IF failed THEN "remove" ELSE "loop",
                                          ![s].events = Tail(sub[s].events)]
        BY <2>2, <3>2
      <3> QED
        BY <1>3, <2>4, <3>1, <3>2 DEF Key!WatchKey, SubSet
    <2> QED
      BY <2>3, <2>4
  <1>5. Key!NoOrphan' /\ watchEntry' \in 0..made
    BY <1>1, <1>2, KeyNoOrphan
  <1>6. KeyTyped'
    BY <1>1, <1>4, <1>5 DEF KeyInv, KeyTyped
  <1>7. KeyRuns'
    BY <1>1 DEF KeyInv, KeyRuns
  <1>8. KeySubs'
    <2> SUFFICES ASSUME NEW t \in Subs
                 PROVE  /\ sub'[t].pc \in {"idle", "add"} => handled'[t] = << >> /\ sub'[t].events = << >>
                        /\ sub'[t].pc # "idle" => sub'[t].entry \in 1..made
                        /\ \A x \in Key!Entries :
                              /\ t \in subs[x] \/ t \in run[x].left =>
                                     sub'[t].entry = x /\ sub'[t].pc \notin {"idle", "add"}
                              /\ t \in run[x].left /\ t \notin subs[x] => sub'[t].done
      BY <1>1 DEF KeySubs
    <2>1. CASE t = s
      BY <1>1, <1>4, <2>1 DEF KeyInv, KeySubs
    <2>2. CASE t # s
      <3>1. sub'[t] = sub[t] /\ handled'[t] = handled[t]
        BY <1>4, <2>2
      <3> QED
        BY <3>1 DEF KeyInv, KeySubs
    <2> QED
      BY <2>1, <2>2
  <1>9. KeyGapless'
    <2>1. \A t \in Subs : handled'[t] \o sub'[t].events = Stream(t)
      BY <1>4 DEF Stream
    <2>2. \A t \in Subs : sub'[t].pc \notin {"idle", "add"} => sub[t].pc # "idle" /\ sub'[t].entry = sub[t].entry
      BY <1>1, <1>4
    <2> QED
      BY <1>1, <1>6, <2>1, <2>2, KeyGapStays
  <1> QED
    BY <1>5, <1>6, <1>7, <1>8, <1>9 DEF KeyInv

(* Steps of a goroutine that only change where it is. *)
LEMMA KeyTurns ==
    ASSUME KeyInv, NEW e \in Key!Entries,
           \/ Key!runReconnect(e) \/ Key!pushDrop(e) \/ Key!pushed(e) \/ Key!closeSubscribers(e)
           \/ Key!removeWatchKeyEntry(e)
           \/ Key!runWatch(e) /\ UNCHANGED skipped /\ run' = [run EXCEPT ![e].pc = "sleep"]
    PROVE  KeyInv'
  <1>1. UNCHANGED <<kRev, made, subs, skipped, handled>>
    BY DEF Key!runReconnect, Key!pushDrop, Key!pushed, Key!closeSubscribers, Key!removeWatchKeyEntry,
               Key!runWatch
  <1>2. /\ run[e].pc \notin {"none", "end"}
        /\ (run[e].pc \in {"push", "drop"} => run[e].pc = "drop" \/ run[e].left = {})
        /\ \E pc \in {"start", "watch", "push", "sleep", "closing", "end"} :
              run' = [run EXCEPT ![e].pc = pc] /\ (pc # "push" => run[e].left = {})
    BY DEF KeyInv, KeyRuns, Key!runReconnect, Key!pushDrop, Key!pushed, Key!closeSubscribers, Key!removeWatchKeyEntry,
           Key!runWatch, Key!SetRun
  <1>3. /\ sub' \in [Subs -> SubSet]
        /\ \A t \in Subs : /\ sub'[t].pc = sub[t].pc /\ sub'[t].entry = sub[t].entry
                            /\ sub'[t].events = sub[t].events /\ (sub[t].done => sub'[t].done)
    <2>1. sub \in [Subs -> SubSet]
      BY DEF KeyInv, KeyTyped
    <2>2. CASE UNCHANGED sub
      BY <2>1, <2>2
    <2>3. CASE sub' = [t \in Subs |-> IF t \in subs[e] THEN [sub[t] EXCEPT !.done = TRUE] ELSE sub[t]]
      BY <2>1, <2>3 DEF SubSet
    <2> QED
      BY <2>2, <2>3 DEF Key!runReconnect, Key!pushDrop, Key!pushed, Key!closeSubscribers, Key!removeWatchKeyEntry,
               Key!runWatch
  <1>4. run \in [Key!Entries -> RunSet] /\ made \in Nat /\ e \in Nat
    BY DEF KeyInv, KeyTyped, Key!Entries
  <1>5. /\ run' \in [Key!Entries -> RunSet]
        /\ \A x \in Key!Entries : /\ run'[x].seen = run[x].seen /\ run'[x].left = run[x].left
                                  /\ x # e => run'[x] = run[x]
        /\ run'[e].pc # "push" => run[e].left = {}
    BY <1>2, <1>4 DEF RunSet
  <1>6. Key!NoOrphan' /\ watchEntry' \in 0..made
    <2>1. CASE Key!removeWatchKeyEntry(e)
      <3>1. watchEntry' = (IF watchEntry = e THEN 0 ELSE watchEntry) /\ cancelled' = cancelled /\ run'[e].pc = "end"
        BY <1>4, <2>1 DEF Key!removeWatchKeyEntry, Key!SetRun, Key!None, RunSet
      <3>2. watchEntry \in 0..made
        BY DEF KeyInv, KeyTyped
      <3>3. \A x \in 1..made : x # e => run'[x] = run[x]
        BY <1>5 DEF KeyInv, KeyTyped, KeySized, Key!Entries
      <3>4. Key!NoOrphan'
        BY <1>1, <3>1, <3>3 DEF KeyInv, Key!NoOrphan
      <3> QED
        BY <1>4, <3>1, <3>2, <3>4
    <2>2. CASE ~Key!removeWatchKeyEntry(e)
      <3>1. (watchEntry' = watchEntry /\ cancelled' = cancelled) \/ Key!Drop(e)
        BY <2>2 DEF Key!runReconnect, Key!pushDrop, Key!pushed, Key!closeSubscribers, Key!runWatch
      <3>2. \A x \in Key!Entries : run[x].pc = "end" => run'[x].pc = "end"
        BY <1>2, <1>5
      <3> QED
        BY <1>1, <3>1, <3>2, KeyNoOrphan
    <2> QED
      BY <2>1, <2>2
  <1>7. KeyTyped'
    BY <1>1, <1>3, <1>5, <1>6 DEF KeyInv, KeyTyped
  <1>8. KeyRuns'
    <2> SUFFICES ASSUME NEW x \in Key!Entries
                 PROVE  /\ run'[x].pc \notin {"push", "drop"} => run'[x].left = {}
                        /\ run'[x].seen <= kRev /\ (x > made => run'[x].pc = "none")
      BY <1>1 DEF KeyRuns
    <2>1. CASE x = e
      BY <1>2, <1>5, <2>1 DEF KeyInv, KeyRuns
    <2>2. CASE x # e
      BY <1>5, <2>2 DEF KeyInv, KeyRuns
    <2> QED
      BY <2>1, <2>2
  <1>9. KeySubs'
    BY <1>1, <1>3, <1>5 DEF KeyInv, KeySubs
  <1>10. KeyGapless'
    <2>1. \A t \in Subs : handled'[t] \o sub'[t].events = Stream(t)
      BY <1>1, <1>3 DEF Stream
    <2>2. \A t \in Subs : sub[t].pc = "idle" => sub'[t].pc = "idle"
      BY <1>3
    <2> QED
      BY <1>1, <1>3, <1>5, <1>7, <2>1, <2>2, KeyGapStays
  <1> QED
    BY <1>6, <1>7, <1>8, <1>9, <1>10 DEF KeyInv

(* A watch that begins, and the next event: the entry moves on, and what it *)
(* passes over falls into the reconnection.                                 *)
LEMMA KeyAdvances ==
    ASSUME KeyInv, NEW e \in Key!Entries,
           \/ Key!runWatch(e) /\ run' = [run EXCEPT ![e].pc = "watch", ![e].seen = kRev]
           \/ Key!broadcast(e)
    PROVE  KeyInv'
  <1>1. /\ UNCHANGED <<kRev, watchEntry, made, cancelled, subs, sub, handled>> /\ kRev \in Nat
        /\ run \in [Key!Entries -> RunSet] /\ run[e] \in RunSet /\ subs[e] \in SUBSET Subs
        /\ DOMAIN skipped = Key!Entries
    BY DEF KeyInv, KeyTyped, Key!runWatch, Key!broadcast
  <1>2. run[e].seen \in Nat /\ run[e].seen <= kRev /\ run[e].left = {} /\ run[e].pc \in {"start", "watch"}
    BY <1>1 DEF KeyInv, KeyRuns, RunSet, Key!runWatch, Key!broadcast
  <1>3. /\ run' \in [Key!Entries -> RunSet] /\ \A x \in Key!Entries : x # e => run'[x] = run[x]
        /\ run'[e].seen <= kRev /\ run'[e].seen >= run[e].seen /\ run'[e].seen \in Nat
        /\ \/ /\ run'[e].pc = "watch" /\ run'[e].left = {} /\ run'[e].seen = kRev
              /\ skipped' = [skipped EXCEPT ![e] = skipped[e] \cup (run[e].seen + 1)..kRev]
           \/ /\ run'[e].pc = "push" /\ run'[e].left = subs[e] /\ run'[e].seen = run[e].seen + 1
              /\ skipped' = skipped
    <2>1. CASE Key!runWatch(e) /\ run' = [run EXCEPT ![e].pc = "watch", ![e].seen = kRev]
      <3>1. skipped' = [skipped EXCEPT ![e] = skipped[e] \cup (run[e].seen + 1)..kRev]
        <4>1. run'[e].pc = "watch"
          BY <1>1, <2>1 DEF RunSet
        <4>2. ~Key!SetRun(e, "sleep")
          BY <1>1, <4>1 DEF RunSet, Key!SetRun
        <4> QED
          BY <2>1, <4>2 DEF Key!runWatch
      <3>2. run'[e].pc = "watch" /\ run'[e].left = run[e].left /\ run'[e].seen = kRev
        BY <1>1, <2>1 DEF RunSet
      <3>3. run' \in [Key!Entries -> RunSet] /\ \A x \in Key!Entries : x # e => run'[x] = run[x]
        BY <1>1, <2>1 DEF RunSet
      <3>4. run'[e].seen <= kRev /\ run'[e].seen >= run[e].seen /\ run'[e].seen \in Nat /\ run'[e].left = {}
        BY <1>1, <1>2, <3>2
      <3> QED
        BY <3>1, <3>2, <3>3, <3>4
    <2>2. CASE Key!broadcast(e)
      <3>1. /\ run' = [run EXCEPT ![e] = [pc |-> "push", seen |-> run[e].seen + 1, left |-> subs[e]]]
            /\ run[e].seen < kRev /\ skipped' = skipped
        BY <1>1, <2>2 DEF Key!broadcast
      <3>2. [pc |-> "push", seen |-> run[e].seen + 1, left |-> subs[e]] \in RunSet
        BY <1>1, <1>2 DEF RunSet
      <3>3. KeyTyped
        BY DEF KeyInv
      <3>4. /\ run' \in [Key!Entries -> RunSet] /\ \A x \in Key!Entries : x # e => run'[x] = run[x]
            /\ run'[e] = [pc |-> "push", seen |-> run[e].seen + 1, left |-> subs[e]]
        BY <3>1, <3>2, <3>3, RunMoves
      <3>5. run'[e].pc = "push" /\ run'[e].left = subs[e] /\ run'[e].seen = run[e].seen + 1
        BY <3>4
      <3> QED
        BY <1>1, <1>2, <3>1, <3>4, <3>5
    <2> QED
      BY <2>1, <2>2
  <1>4. /\ DOMAIN skipped' = Key!Entries /\ \A x \in Key!Entries : x # e => skipped'[x] = skipped[x]
        /\ skipped[e] \subseteq skipped'[e]
        /\ run'[e].left = {} => (run[e].seen + 1)..run'[e].seen \subseteq skipped'[e] \/ subs[e] = {}
    BY <1>1, <1>3
  <1>5. KeyTyped'
    BY <1>1, <1>3, <1>4 DEF KeyInv, KeyTyped
  <1>6. KeyRuns'
    <2> SUFFICES ASSUME NEW x \in Key!Entries
                 PROVE  /\ run'[x].pc \notin {"push", "drop"} => run'[x].left = {}
                        /\ run'[x].seen <= kRev /\ (x > made => run'[x].pc = "none")
      BY <1>1 DEF KeyRuns
    <2>1. CASE x = e
      BY <1>2, <1>3, <2>1 DEF KeyInv, KeyRuns
    <2>2. CASE x # e
      BY <1>3, <2>2 DEF KeyInv, KeyRuns
    <2> QED
      BY <2>1, <2>2
  <1>7. KeySubs'
    <2>1. \A t \in Subs : t \in run'[e].left => t \in subs[e]
      BY <1>3
    <2> QED
      BY <1>1, <1>3, <2>1 DEF KeyInv, KeySubs
  <1>8. KeyGapless'
    <2> SUFFICES ASSUME NEW s \in Subs
                 PROVE  /\ sub[s].pc \notin {"idle", "add"} => Gapless(Stream(s), skipped'[sub[s].entry])
                        /\ \A x \in Key!Entries :
                              s \in subs[x] /\ Len(Stream(s)) > 0 =>
                                  LET last == Stream(s)[Len(Stream(s))]
                                      upto == IF s \in run'[x].left THEN run'[x].seen - 1 ELSE run'[x].seen
                                  IN last <= upto /\ (last + 1)..upto \subseteq skipped'[x]
      BY <1>1 DEF KeyGapless, Stream, Upto
    <2>1. sub[s].pc \notin {"idle", "add"} => Gapless(Stream(s), skipped'[sub[s].entry])
      <3> SUFFICES ASSUME sub[s].pc \notin {"idle", "add"} PROVE Gapless(Stream(s), skipped'[sub[s].entry])
        OBVIOUS
      <3>1. Gapless(Stream(s), skipped[sub[s].entry]) /\ sub[s].entry \in Key!Entries
        BY DEF KeyInv, KeyGapless, KeySubs, KeyTyped, KeySized, Key!Entries
      <3>2. skipped[sub[s].entry] \subseteq skipped'[sub[s].entry]
        BY <1>4, <3>1
      <3> QED
        BY <3>1, <3>2, GaplessGrows
    <2>2. ASSUME NEW x \in Key!Entries, s \in subs[x], Len(Stream(s)) > 0
          PROVE  LET last == Stream(s)[Len(Stream(s))]
                     upto == IF s \in run'[x].left THEN run'[x].seen - 1 ELSE run'[x].seen
                 IN last <= upto /\ (last + 1)..upto \subseteq skipped'[x]
      <3> DEFINE last == Stream(s)[Len(Stream(s))]
      <3>1. last <= Upto(x, s) /\ (last + 1)..Upto(x, s) \subseteq skipped[x]
        BY <2>2 DEF KeyInv, KeyGapless
      <3>2. last \in Nat
        BY <2>2, StreamTyped DEF KeyInv
      <3> HIDE DEF last
      <3>3. CASE x # e
        BY <1>3, <1>4, <3>1, <3>3 DEF Upto, last
      <3>4. CASE x = e
        <4>1. last <= run[e].seen /\ (last + 1)..run[e].seen \subseteq skipped[e]
          BY <1>2, <3>1, <3>4 DEF Upto
        <4>2. CASE run'[e].left = {}
          <5>1. (run[e].seen + 1)..run'[e].seen \subseteq skipped'[e]
            BY <1>4, <2>2, <3>4, <4>2
          <5>2. last <= run'[e].seen
            BY <1>2, <1>3, <3>2, <4>1
          <5>3. (last + 1)..run'[e].seen \subseteq skipped'[e]
            <6> SUFFICES ASSUME NEW n \in (last + 1)..run'[e].seen PROVE n \in skipped'[e]
              OBVIOUS
            <6>1. n \in (last + 1)..run[e].seen \/ n \in (run[e].seen + 1)..run'[e].seen
              BY <1>2, <1>3, <3>2
            <6> QED
              BY <1>4, <4>1, <5>1, <6>1
          <5> QED
            BY <3>4, <4>2, <5>2, <5>3 DEF last
        <4>3. CASE run'[e].left # {}
          <5>1. run'[e].left = subs[e] /\ run'[e].seen - 1 = run[e].seen /\ skipped' = skipped
            BY <1>2, <1>3, <4>3
          <5> QED
            BY <2>2, <3>4, <4>1, <5>1 DEF last
        <4> QED
          BY <4>2, <4>3
      <3> QED
        BY <3>3, <3>4
    <2> QED
      BY <2>1, <2>2
  <1>9. Key!NoOrphan'
    <2>1. \A x \in Key!Entries : run[x].pc = "end" => run'[x].pc = "end"
      BY <1>2, <1>3
    <2> QED
      BY <1>1, <2>1, KeyNoOrphan
  <1> QED
    BY <1>5, <1>6, <1>7, <1>8, <1>9 DEF KeyInv

(* push: the event goes to a subscriber, or a subscriber that is done goes. *)
LEMMA KeyPushes == ASSUME KeyInv, NEW e \in Key!Entries, NEW s \in Subs, Key!push(e, s) PROVE KeyInv'
  <1>1. /\ UNCHANGED <<kRev, watchEntry, made, cancelled, skipped, handled>>
        /\ run[e].pc = "push" /\ s \in run[e].left
    BY DEF Key!push
  <1>2. /\ run \in [Key!Entries -> RunSet] /\ sub \in [Subs -> SubSet] /\ subs \in [Key!Entries -> SUBSET Subs]
        /\ sub[s].events \in Seq(Nat) /\ run[e].seen \in Nat /\ kRev \in Nat
    BY DEF KeyInv, KeyTyped, RunSet, SubSet
  <1>3. sub[s].entry = e /\ sub[s].pc \notin {"idle", "add"}
    BY <1>1 DEF KeyInv, KeySubs
  <1>4. /\ sub' \in [Subs -> SubSet] /\ \A t \in Subs : t # s => sub'[t] = sub[t]
        /\ sub'[s].pc = sub[s].pc /\ sub'[s].entry = e
        /\ run' \in [Key!Entries -> RunSet] /\ \A x \in Key!Entries : x # e => run'[x] = run[x]
        /\ run'[e].pc \in {"push", "drop"} /\ run'[e].seen = run[e].seen /\ run'[e].left = run[e].left \ {s}
        /\ subs' \in [Key!Entries -> SUBSET Subs] /\ \A x \in Key!Entries : x # e => subs'[x] = subs[x]
        /\ \/ ~sub[s].done /\ sub'[s].events = Append(sub[s].events, run[e].seen) /\ subs'[e] = subs[e]
           \/ sub'[s].done /\ sub'[s].events = sub[s].events /\ subs'[e] = subs[e] \ {s}
    <2>1. CASE /\ ~sub[s].done /\ sub' = [sub EXCEPT ![s].events = Append(sub[s].events, run[e].seen)]
               /\ run' = [run EXCEPT ![e].left = run[e].left \ {s}] /\ UNCHANGED subs
      <3>1. Append(sub[s].events, run[e].seen) \in Seq(Nat)
        BY <1>2
      <3>2. /\ sub' \in [Subs -> SubSet] /\ \A t \in Subs : t # s => sub'[t] = sub[t]
            /\ sub'[s].pc = sub[s].pc /\ sub'[s].entry = sub[s].entry
            /\ sub'[s].events = Append(sub[s].events, run[e].seen)
        BY <1>2, <2>1, <3>1 DEF SubSet
      <3>3. /\ run' \in [Key!Entries -> RunSet] /\ \A x \in Key!Entries : x # e => run'[x] = run[x]
            /\ run'[e].pc = run[e].pc /\ run'[e].seen = run[e].seen /\ run'[e].left = run[e].left \ {s}
        BY <1>2, <2>1 DEF RunSet
      <3> QED
        BY <1>1, <1>2, <1>3, <2>1, <3>2, <3>3
    <2>2. CASE /\ sub' = [sub EXCEPT ![s].done = TRUE] /\ subs' = [subs EXCEPT ![e] = subs[e] \ {s}]
               /\ \E pc \in {"push", "drop"} : run' = [run EXCEPT ![e].left = run[e].left \ {s}, ![e].pc = pc]
      <3>1. /\ sub' \in [Subs -> SubSet] /\ \A t \in Subs : t # s => sub'[t] = sub[t]
            /\ sub'[s].pc = sub[s].pc /\ sub'[s].entry = sub[s].entry /\ sub'[s].done = TRUE
            /\ sub'[s].events = sub[s].events
        <4>1. sub' = [sub EXCEPT ![s].done = TRUE]
          BY <2>2
        <4> QED
          BY <1>2, <4>1 DEF SubSet
      <3>2. PICK pc \in {"push", "drop"} : run' = [run EXCEPT ![e].left = run[e].left \ {s}, ![e].pc = pc]
        BY <2>2
      <3>3. /\ run' \in [Key!Entries -> RunSet] /\ \A x \in Key!Entries : x # e => run'[x] = run[x]
            /\ run'[e].pc = pc /\ run'[e].seen = run[e].seen /\ run'[e].left = run[e].left \ {s}
        BY <1>2, <3>2 DEF RunSet
      <3>4. /\ subs' \in [Key!Entries -> SUBSET Subs] /\ \A x \in Key!Entries : x # e => subs'[x] = subs[x]
            /\ subs'[e] = subs[e] \ {s}
        BY <1>2, <2>2
      <3> QED
        BY <1>3, <3>1, <3>3, <3>4
    <2>3. CASE /\ ~Key!Done(s) /\ sub' = [sub EXCEPT ![s].events = Append(sub[s].events, run[e].seen)]
               /\ run' = [run EXCEPT ![e].left = run[e].left \ {s}] /\ UNCHANGED subs
      BY <2>1, <2>3 DEF Key!Done
    <2>4. CASE /\ sub' = [sub EXCEPT ![s].done = TRUE] /\ subs' = [subs EXCEPT ![e] = subs[e] \ {s}]
               /\ run' = [run EXCEPT ![e].left = run[e].left \ {s},
                                    ![e].pc = IF subs'[e] = {} THEN "drop" ELSE run[e].pc]
      BY <1>1, <2>2, <2>4
    <2> QED
      BY <1>2, <2>3, <2>4 DEF Key!push, SubSet, RunSet
  <1>5. KeyTyped'
    BY <1>1, <1>4 DEF KeyInv, KeyTyped
  <1>6. KeyRuns'
    <2> SUFFICES ASSUME NEW x \in Key!Entries
                 PROVE  /\ run'[x].pc \notin {"push", "drop"} => run'[x].left = {}
                        /\ run'[x].seen <= kRev /\ (x > made => run'[x].pc = "none")
      BY <1>1 DEF KeyRuns
    <2>1. CASE x = e
      BY <1>1, <1>4, <2>1 DEF KeyInv, KeyRuns
    <2>2. CASE x # e
      BY <1>4, <2>2 DEF KeyInv, KeyRuns
    <2> QED
      BY <2>1, <2>2
  <1>7. KeySubs'
    <2> SUFFICES ASSUME NEW t \in Subs
                 PROVE  /\ sub'[t].pc \in {"idle", "add"} => handled[t] = << >> /\ sub'[t].events = << >>
                        /\ sub'[t].pc # "idle" => sub'[t].entry \in 1..made
                        /\ \A x \in Key!Entries :
                              /\ t \in subs'[x] \/ t \in run'[x].left =>
                                     sub'[t].entry = x /\ sub'[t].pc \notin {"idle", "add"}
                              /\ t \in run'[x].left /\ t \notin subs'[x] => sub'[t].done
      BY <1>1 DEF KeySubs
    <2>1. CASE t = s
      <3>1. sub'[s].pc \notin {"idle", "add"} /\ sub'[s].entry \in 1..made
        BY <1>3, <1>4 DEF KeyInv, KeySubs
      <3>2. ASSUME NEW x \in Key!Entries, s \in subs'[x] \/ s \in run'[x].left PROVE x = e /\ s \notin run'[x].left
        BY <1>3, <1>4, <3>2 DEF KeyInv, KeySubs
      <3> QED
        BY <1>4, <2>1, <3>1, <3>2
    <2>2. CASE t # s
      <3>1. /\ sub'[t] = sub[t]
            /\ \A x \in Key!Entries : (t \in subs'[x] <=> t \in subs[x]) /\ (t \in run'[x].left <=> t \in run[x].left)
        BY <1>4, <2>2
      <3> QED
        BY <3>1 DEF KeyInv, KeySubs
    <2> QED
      BY <2>1, <2>2
  <1>8. KeyGapless'
    <2> SUFFICES ASSUME NEW t \in Subs
                 PROVE  LET q == handled[t] \o sub'[t].events IN
                        /\ sub'[t].pc \notin {"idle", "add"} => Gapless(q, skipped[sub'[t].entry])
                        /\ \A x \in Key!Entries :
                              LET upto == IF t \in run'[x].left THEN run'[x].seen - 1 ELSE run'[x].seen IN
                              t \in subs'[x] /\ Len(q) > 0 =>
                                  q[Len(q)] <= upto /\ (q[Len(q)] + 1)..upto \subseteq skipped[x]
      BY <1>1 DEF KeyGapless, Stream, Upto
    <2>1. CASE t # s
      <3>1. /\ handled[t] \o sub'[t].events = Stream(t) /\ sub'[t] = sub[t]
            /\ \A x \in Key!Entries : /\ t \in subs'[x] <=> t \in subs[x]
                                      /\ t \in run'[x].left <=> t \in run[x].left
                                      /\ run'[x].seen = run[x].seen
        BY <1>4, <2>1 DEF Stream
      <3> QED
        BY <3>1 DEF KeyInv, KeyGapless, Upto
    <2>2. CASE t = s
      <3> DEFINE q == handled[s] \o sub'[s].events
      <3>1. Gapless(Stream(s), skipped[e]) /\ Stream(s) \in Seq(Nat)
        BY <1>3, StreamTyped DEF KeyInv, KeyGapless
      <3>2. \A x \in Key!Entries : s \in subs'[x] => x = e
        BY <1>3, <1>4 DEF KeyInv, KeySubs
      <3>3. CASE sub'[s].events = sub[s].events /\ subs'[e] = subs[e] \ {s}
        <4>1. q = Stream(s)
          BY <3>3 DEF Stream
        <4>2. \A x \in Key!Entries : s \notin subs'[x]
          BY <3>2, <3>3
        <4> HIDE DEF q
        <4>3. Gapless(q, skipped[sub'[s].entry])
          BY <1>4, <3>1, <4>1
        <4> QED
          BY <2>2, <4>2, <4>3 DEF q
      <3>4. CASE ~sub[s].done /\ sub'[s].events = Append(sub[s].events, run[e].seen) /\ subs'[e] = subs[e]
        <4>1. s \in subs[e]
          BY <1>1, <3>4 DEF KeyInv, KeySubs
        <4>2. q = Append(Stream(s), run[e].seen)
          <5>1. handled[s] \in Seq(Nat)
            BY DEF KeyInv, KeyTyped
          <5> QED
            BY <1>2, <3>4, <5>1, StreamGrows DEF Stream
        <4>3. Len(Stream(s)) > 0 =>
                  /\ Stream(s)[Len(Stream(s))] <= run[e].seen - 1
                  /\ (Stream(s)[Len(Stream(s))] + 1)..(run[e].seen - 1) \subseteq skipped[e]
          BY <1>1, <4>1 DEF KeyInv, KeyGapless, Upto
        <4>4. Len(Stream(s)) > 0 => Stream(s)[Len(Stream(s))] < run[e].seen
          <5>1. Len(Stream(s)) > 0 => Stream(s)[Len(Stream(s))] \in Nat
            BY <3>1
          <5> QED
            BY <1>2, <4>3, <5>1
        <4>5. Gapless(q, skipped[e])
          BY <1>2, <3>1, <4>2, <4>3, <4>4, GaplessAppend
        <4>6. Len(q) > 0 /\ q[Len(q)] = run[e].seen
          BY <1>2, <3>1, <4>2
        <4> HIDE DEF q
        <4>7. q[Len(q)] <= run[e].seen /\ (q[Len(q)] + 1)..run[e].seen \subseteq skipped[e]
          BY <1>2, <4>6
        <4>8. s \notin run'[e].left /\ run'[e].seen = run[e].seen
          BY <1>4
        <4> QED
          BY <1>4, <2>2, <3>2, <4>5, <4>7, <4>8 DEF q
      <3> QED
        BY <1>4, <3>3, <3>4
    <2> QED
      BY <2>1, <2>2
  <1>9. Key!NoOrphan'
    <2>1. \A x \in Key!Entries : run[x].pc = "end" => run'[x].pc = "end"
      BY <1>1, <1>4
    <2> QED
      BY <1>1, <2>1, KeyNoOrphan
  <1> QED
    BY <1>5, <1>6, <1>7, <1>8, <1>9 DEF KeyInv

(* Every step of the calls and of the goroutines keeps it. *)
LEMMA KeyNext == ASSUME KeyInv, Key!Next PROVE KeyInv'
  <1>1. CASE Key!Event \/ Key!stopKeyWatches \/ \E s \in Subs : Key!CallerCancels(s)
    BY <1>1, KeyOutside
  <1>2. CASE \E s \in Subs : Key!Calling(s)
    BY <1>2, KeyGets, KeyAdds, KeyHandles DEF Key!Calling
  <1>3. CASE \E e \in Key!Entries : Key!Running(e)
    <2>1. PICK e \in Key!Entries : Key!Running(e)
      BY <1>3
    <2>2. CASE Key!runWatch(e)
      BY <2>2, KeyTurns, KeyAdvances DEF Key!runWatch, Key!SetRun
    <2>3. CASE \E s \in Subs : Key!push(e, s)
      BY <2>3, KeyPushes
    <2> QED
      BY <2>1, <2>2, <2>3, KeyTurns, KeyAdvances DEF Key!Running
  <1> QED
    BY <1>1, <1>2, <1>3 DEF Key!Next

(* A step that leaves its variables alone keeps it. *)
LEMMA KeyStutters == ASSUME KeyInv, UNCHANGED Key!vars PROVE KeyInv'
  <1>1. UNCHANGED <<kRev, watchEntry, made, cancelled, subs, run, skipped, sub, handled>>
    BY DEF Key!vars
  <1>2. KeyTyped' /\ KeyRuns' /\ KeySubs'
    BY <1>1 DEF KeyInv, KeyTyped, KeyRuns, KeySubs
  <1>3. KeyGapless'
    BY <1>1 DEF KeyInv, KeyGapless, Stream, Upto
  <1>4. Key!NoOrphan'
    BY <1>1 DEF KeyInv, Key!NoOrphan
  <1> QED
    BY <1>2, <1>3, <1>4 DEF KeyInv

(* What it says of the entries and of what the subscribers handle. *)
LEMMA KeyImplies == ASSUME KeyInv PROVE Key!NoGap /\ Key!NoOrphan
  <1> SUFFICES ASSUME NEW s \in Subs PROVE Gapless(handled[s], skipped[sub[s].entry])
    BY DEF KeyInv, Key!NoGap, Gapless
  <1>1. handled[s] \in Seq(Nat) /\ sub[s].events \in Seq(Nat)
    BY DEF KeyInv, KeyTyped, SubSet
  <1>2. CASE sub[s].pc \in {"idle", "add"}
    <2>1. handled[s] = << >>
      BY <1>2 DEF KeyInv, KeySubs
    <2> QED
      BY <2>1 DEF Gapless
  <1>3. CASE sub[s].pc \notin {"idle", "add"}
    <2>1. Gapless(Stream(s), skipped[sub[s].entry])
      BY <1>3 DEF KeyInv, KeyGapless
    <2> QED
      BY <1>1, <2>1, GaplessPrefix DEF Stream
  <1> QED
    BY <1>2, <1>3

(* A subscriber of a key gets the events in order and misses none but those *)
(* of a reconnection, and a goroutine whose entry has left the map is       *)
(* cancelled.                                                               *)
THEOREM KeyHasNoGap ==
    ASSUME KeySized
    PROVE  Key!Spec => [](Key!NoGap /\ Key!NoOrphan)
  <1>1. Key!Init => KeyInv
    BY KeyStarts
  <1>2. KeyInv /\ [Key!Next]_(Key!vars) => KeyInv'
    BY KeyNext, KeyStutters
  <1>3. KeyInv =>
          Key!NoGap /\ Key!NoOrphan
    BY KeyImplies
  <1> QED
    BY <1>1, <1>2, <1>3, PTL DEF Key!Spec
=============================================================================
