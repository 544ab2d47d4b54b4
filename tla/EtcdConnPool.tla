---------------------------- MODULE EtcdConnPool ----------------------------
(***************************************************************************)
(* discovery/etcd connections: a watcher follows the endpoints of a service *)
(* (watcher.go) and tells its listeners, the pool (etcd_conn.go) and the    *)
(* resolver of the service's connection (resolver.go).  hist[r] is what     *)
(* etcd holds at revision r; a connection is [addr, opts, at], opts being   *)
(* the number of AddOption calls before it was dialled.                     *)
(***************************************************************************)
EXTENDS Integers, FiniteSets

CONSTANTS Addrs, MaxRev, MaxOpts, MaxFaults

Pool == "pool"
Resolver == "resolver"
Actors == {"watch", "option", "close"}
Unknown == {"nil"}                      \* addresses before the first snapshot

VARIABLES rev, hist,
          w,            \* the watcher's goroutine: [pc, seen, snap, left]
          listeners, addresses, ready, creating,
          endpointConnMap, serviceConn, view, open, syncs,
          dialOptions, opt, closer,
          toClose,      \* connections an actor has taken out of the map
          faults

watcher == <<w, listeners, addresses, ready, creating>>
conns == <<endpointConnMap, open, syncs, toClose>>
vars == <<rev, hist, watcher, conns, serviceConn, view, dialOptions, opt, closer, faults>>

Init ==
    /\ rev = 0 /\ hist = [r \in 0..MaxRev |-> {}]
    /\ w = [pc |-> "none", seen |-> 0, snap |-> {}, left |-> {}]
    /\ listeners = {} /\ addresses = Unknown /\ ready = FALSE /\ creating = FALSE
    /\ endpointConnMap = {} /\ serviceConn = "none" /\ view = Unknown /\ open = {} /\ syncs = 0
    /\ dialOptions = 0 /\ opt = [pc |-> "idle", addrs |-> {}] /\ closer = "idle"
    /\ toClose = [a \in Actors |-> {}] /\ faults = 0
-----------------------------------------------------------------------------
AddrsOf(cs) == {c.addr : c \in cs}
ConnectionsClosed == closer \in {"conns", "end"}
Fault == faults < MaxFaults /\ faults' = faults + 1
(* publish holds w.mu while its listeners consume. *)
WatcherFree == w.pc # "consume"

(* syncEndpointConnMap: connections to addresses that stay are kept, others *)
(* dialled, and the rest is closed after the unlock.                        *)
syncEndpointConnMap(addrs, actor) ==
    IF ConnectionsClosed THEN UNCHANGED conns
    ELSE LET kept == {c \in endpointConnMap : c.addr \in addrs}
             new == {[addr |-> a, opts |-> dialOptions, at |-> syncs] : a \in addrs \ AddrsOf(kept)} IN
         /\ endpointConnMap' = kept \cup new /\ open' = open \cup new /\ syncs' = syncs + 1
         /\ toClose' = [toClose EXCEPT ![actor] = @ \cup (endpointConnMap \ kept)]

(* The faulty variant: the map keeps what is about to be closed. *)
resetConnMapKeeps(actor) ==
    /\ toClose' = [toClose EXCEPT ![actor] = @ \cup endpointConnMap]
    /\ UNCHANGED <<endpointConnMap, open, syncs>>

resetConnMapLocked(actor) ==
    /\ toClose' = [toClose EXCEPT ![actor] = @ \cup endpointConnMap]
    /\ endpointConnMap' = {} /\ UNCHANGED <<open, syncs>>

(* conn.Close, once the pool's mutex is free. *)
CloseConn(actor) ==
    /\ toClose[actor] # {} /\ open' = open \ toClose[actor]
    /\ toClose' = [toClose EXCEPT ![actor] = {}]
    /\ UNCHANGED <<rev, hist, watcher, endpointConnMap, syncs, serviceConn, view, dialOptions, opt, closer, faults>>
-----------------------------------------------------------------------------
(* An endpoint is registered or goes. *)
Change(a) ==
    /\ rev < MaxRev /\ rev' = rev + 1
    /\ hist' = [hist EXCEPT ![rev + 1] = IF a \in hist[rev] THEN hist[rev] \ {a} ELSE hist[rev] \cup {a}]
    /\ UNCHANGED <<watcher, conns, serviceConn, view, dialOptions, opt, closer, faults>>

(* getOrCreateWatcher, called by newConnPool, GetConns, GetConn and Build:  *)
(* the goroutine starts before the pool listens.                            *)
getOrCreateWatcher ==
    /\ w.pc = "none" /\ closer = "idle" /\ ~creating
    /\ w' = [w EXCEPT !.pc = "get"] /\ creating' = TRUE
    /\ UNCHANGED <<rev, hist, listeners, addresses, ready, conns, serviceConn, view, dialOptions, opt, closer, faults>>

(* The faulty variant: what was published before is not consumed. *)
addListenerLate ==
    /\ creating /\ creating' = FALSE /\ WatcherFree
    /\ listeners' = listeners \cup {Pool} /\ UNCHANGED conns
    /\ UNCHANGED <<rev, hist, w, addresses, ready, serviceConn, view, dialOptions, opt, closer, faults>>

(* addListener for the pool, watchersMu being held. *)
addListener ==
    /\ creating /\ creating' = FALSE /\ WatcherFree
    /\ listeners' = listeners \cup {Pool}
    /\ IF addresses = Unknown THEN UNCHANGED conns ELSE syncEndpointConnMap(addresses, "option")
    /\ UNCHANGED <<rev, hist, w, addresses, ready, serviceConn, view, dialOptions, opt, closer, faults>>

(* GetConn: one connection for the service, which outlives AddOption. *)
GetConn ==
    /\ Pool \in listeners /\ closer = "idle" /\ serviceConn = "none"
    /\ serviceConn' = "open"
    /\ UNCHANGED <<rev, hist, watcher, conns, view, dialOptions, opt, closer, faults>>

(* serviceResolverBuilder.Build, by the connection's first use. *)
Build ==
    /\ serviceConn = "open" /\ Resolver \notin listeners /\ closer = "idle" /\ WatcherFree
    /\ listeners' = listeners \cup {Resolver}
    /\ view' = IF addresses = Unknown THEN view ELSE addresses
    /\ UNCHANGED <<rev, hist, w, addresses, ready, creating, conns, serviceConn, dialOptions, opt, closer, faults>>
-----------------------------------------------------------------------------
(* watchSnapshot: the state and its revision; an error waits and retries. *)
watchSnapshot ==
    /\ w.pc = "get"
    /\ \/ w' = [w EXCEPT !.pc = "publish", !.seen = rev, !.snap = hist[rev]] /\ UNCHANGED faults
       \/ Fault /\ w' = [w EXCEPT !.pc = "sleep"]
    /\ UNCHANGED <<rev, hist, listeners, addresses, ready, creating, conns, serviceConn, view, dialOptions, opt, closer>>

publish ==
    /\ w.pc = "publish"
    /\ addresses' = w.snap /\ w' = [w EXCEPT !.pc = "consume", !.left = listeners]
    /\ UNCHANGED <<rev, hist, listeners, ready, creating, conns, serviceConn, view, dialOptions, opt, closer, faults>>

(* A listener's function: the pool's, or consume of resolver.go. *)
consume(l) ==
    /\ w.pc = "consume" /\ l \in w.left /\ toClose["watch"] = {}
    /\ w' = [w EXCEPT !.left = @ \ {l}]
    /\ IF l = Pool THEN syncEndpointConnMap(w.snap, "watch") /\ UNCHANGED view
                   ELSE view' = w.snap /\ UNCHANGED conns
    /\ UNCHANGED <<rev, hist, listeners, addresses, ready, creating, serviceConn, dialOptions, opt, closer, faults>>

(* The end of publish, and the watch from the revision after the snapshot's. *)
published ==
    /\ w.pc = "consume" /\ w.left = {} /\ toClose["watch"] = {}
    /\ ready' = TRUE /\ w' = [w EXCEPT !.pc = "watch"]
    /\ UNCHANGED <<rev, hist, listeners, addresses, creating, conns, serviceConn, view, dialOptions, opt, closer, faults>>

(* A response with the events up to some revision, or the end of the watch. *)
watchUpdate ==
    /\ w.pc = "watch"
    /\ \/ \E r \in (w.seen + 1)..rev : w' = [w EXCEPT !.pc = "publish", !.seen = r, !.snap = hist[r]] /\ UNCHANGED faults
       \/ Fault /\ w' = [w EXCEPT !.pc = "sleep"]
    /\ UNCHANGED <<rev, hist, listeners, addresses, ready, creating, conns, serviceConn, view, dialOptions, opt, closer>>

(* run: reportError, a pause and a new snapshot; a cancelled context ends it. *)
run ==
    /\ \/ closer # "wait" /\ w.pc = "sleep" /\ w' = [w EXCEPT !.pc = "get"]
       \/ closer = "wait" /\ w.pc \in {"get", "watch", "sleep"} /\ w' = [w EXCEPT !.pc = "done"]
    /\ UNCHANGED <<rev, hist, listeners, addresses, ready, creating, conns, serviceConn, view, dialOptions, opt, closer, faults>>
-----------------------------------------------------------------------------
(* AddOption, under the pool's mutex. *)
AddOption ==
    /\ opt.pc = "idle" /\ dialOptions < MaxOpts
    /\ resetConnMapLocked("option")
    /\ dialOptions' = dialOptions + 1 /\ opt' = [opt EXCEPT !.pc = "collect"]
    /\ UNCHANGED <<rev, hist, watcher, serviceConn, view, closer, faults>>

(* It then reads the watcher's addresses, *)
addOptionCollect ==
    /\ opt.pc = "collect" /\ toClose["option"] = {} /\ WatcherFree /\ ~creating
    /\ opt' = IF closer # "idle" \/ addresses \in {Unknown, {}} THEN [opt EXCEPT !.pc = "idle"]
              ELSE [pc |-> "sync", addrs |-> addresses]
    /\ UNCHANGED <<rev, hist, watcher, conns, serviceConn, view, dialOptions, closer, faults>>

(* and dials them. *)
addOptionSync ==
    /\ opt.pc = "sync" /\ syncEndpointConnMap(opt.addrs, "option")
    /\ opt' = [pc |-> "idle", addrs |-> {}]
    /\ UNCHANGED <<rev, hist, watcher, serviceConn, view, dialOptions, closer, faults>>

(* close: the watchers are cancelled and waited for, *)
close ==
    /\ closer = "idle" /\ ~creating
    /\ closer' = "wait"
    /\ UNCHANGED <<rev, hist, watcher, conns, serviceConn, view, dialOptions, opt, faults>>

(* then the connections are closed, and with the service's its resolver. *)
closeConns ==
    /\ closer = "wait" /\ w.pc \in {"none", "done"}
    /\ closer' = "end" /\ resetConnMapLocked("close")
    /\ serviceConn' = IF serviceConn = "open" THEN "closed" ELSE serviceConn
    /\ listeners' = listeners \ {Resolver}
    /\ UNCHANGED <<rev, hist, w, addresses, ready, creating, view, dialOptions, opt, faults>>
-----------------------------------------------------------------------------
Closing == close \/ closeConns
Watching == watchSnapshot \/ publish \/ (\E l \in {Pool, Resolver} : consume(l)) \/ published \/ watchUpdate \/ run
Adding == addListener \/ addOptionCollect \/ addOptionSync

Next ==
    \/ \E a \in Addrs : Change(a)
    \/ \E a \in Actors : CloseConn(a)
    \/ getOrCreateWatcher \/ GetConn \/ Build \/ AddOption
    \/ Watching \/ Adding \/ Closing

Spec == Init /\ [][Next]_vars

(* The goroutine and the calls that have begun go on. *)
Fairness ==
    /\ WF_vars(Watching) /\ WF_vars(Adding) /\ WF_vars(closeConns)
    /\ WF_vars(run /\ closer = "wait")
    /\ \A a \in Actors : WF_vars(CloseConn(a))
-----------------------------------------------------------------------------
(* When the watcher has told its listeners, the pool and the resolver have  *)
(* the watcher's addresses: none published before a listener was added is   *)
(* missed.  An AddOption dials the addresses it read earlier, so that the   *)
(* pool may fall behind once options are added.                             *)
InView ==
    WatcherFree /\ closer = "idle" /\ addresses # Unknown =>
        /\ Pool \in listeners /\ dialOptions = 0 => AddrsOf(endpointConnMap) = addresses
        /\ Resolver \in listeners => view = addresses

(* A connection GetConns may hand out is open, and is never one that some   *)
(* call has taken out of the map to close it.                               *)
NoClosedConn == endpointConnMap \subseteq open /\ \A a \in Actors : toClose[a] \cap endpointConnMap = {}

(* An open connection is in the map or about to be closed: none is leaked,  *)
(* and once close has returned none is open, whatever AddOption still does. *)
NoLeak == open \subseteq endpointConnMap \cup UNION {toClose[a] : a \in Actors}
ClosedForGood == closer = "end" => endpointConnMap = {}

(* Every connection in the map was dialled with all the options. *)
CurrentOptions == \A c \in endpointConnMap : c.opts = dialOptions

(* The pool catches up with etcd: the snapshot and the watch leave no gap. *)
Follows == []<>(rev = MaxRev /\ Pool \in listeners /\ closer = "idle" => AddrsOf(endpointConnMap) = hist[rev])
=============================================================================
