------------------------------ MODULE ZkClient ------------------------------
(***************************************************************************)
(* discovery/zookeeper: a client that registers itself as an ephemeral node *)
(* (register.go), follows the children of a service by one-shot watches     *)
(* (discover.go) for its cached connections (GetConns) and a resolver       *)
(* (resolver.go), and flushes both now and then (zk.go).  The server, the   *)
(* session and the event channel are external.                              *)
(***************************************************************************)
EXTENDS Integers, Sequences

CONSTANTS Peers,          \* addresses other processes register
          MaxDrops, MaxChanges

Self == "self"

VARIABLES others, own,    \* children of the service: addresses of others; our nodes
          nodes,          \* nodes this client has created
          link, drops, changes,
          events,         \* eventChan
          armed,          \* a watch on the children is set
          lostWatch,      \* history: a session ended since GetConns set its watch
          localConns,     \* cached addresses, {} if none
          resolver,       \* [built, listed, view]
          lock,           \* who holds s.lock, "free" if nobody
          remote,         \* each process inside GetConnsRemote
          isRegistered, node, isStateDisconnected, unreg

server == <<others, own, nodes, link, drops, changes, armed, lostWatch>>
reg == <<isRegistered, node, isStateDisconnected, unreg>>
vars == <<server, events, localConns, resolver, lock, remote, reg>>

children == others \cup (IF own = {} THEN {} ELSE {Self})
Procs == {"GetConns", "watch", "refresh", "Build"}

Init ==
    /\ others = {} /\ own = {} /\ nodes = 0 /\ link = "up" /\ drops = 0 /\ changes = 0
    /\ events = <<>> /\ armed = FALSE /\ lostWatch = FALSE /\ localConns = {}
    /\ resolver = [built |-> FALSE, listed |-> FALSE, view |-> {}]
    /\ lock = "free" /\ remote = [p \in Procs |-> "idle"]
    /\ isRegistered = FALSE /\ node = 0 /\ isStateDisconnected = FALSE /\ unreg = "idle"
-----------------------------------------------------------------------------
(* A change of the children fires the watch that is set, once. *)
Fire == /\ armed' = FALSE
        /\ events' = IF armed THEN Append(events, "children") ELSE events

PeerChanges(a) ==
    /\ changes < MaxChanges /\ changes' = changes + 1
    /\ others' = IF a \in others THEN others \ {a} ELSE others \cup {a}
    /\ Fire
    /\ UNCHANGED <<own, nodes, link, drops, lostWatch, localConns, resolver, lock, remote, reg>>

Disconnect ==
    /\ link = "up" /\ drops < MaxDrops /\ link' = "down" /\ drops' = drops + 1
    /\ events' = Append(events, "disconnected")
    /\ UNCHANGED <<others, own, nodes, changes, armed, lostWatch, localConns, resolver, lock, remote, reg>>

(* The session is resumed, or it has expired with its nodes and watches. *)
Reconnect(expired) ==
    /\ link = "down" /\ link' = "up" /\ events' = events \o <<"connected", "hasSession">>
    /\ own' = (IF expired THEN {} ELSE own) /\ armed' = (armed /\ ~expired)
    /\ lostWatch' = (lostWatch \/ (expired /\ (armed \/ own # {})))
    /\ UNCHANGED <<others, nodes, drops, changes, localConns, resolver, lock, remote, reg>>
-----------------------------------------------------------------------------
(* CreateTempNode, of Register and of the watch: another node every time. *)
CreateTempNode == /\ nodes' = nodes + 1 /\ own' = own \cup {nodes + 1} /\ node' = nodes + 1 /\ Fire

Register ==
    /\ ~isRegistered /\ link = "up" /\ unreg = "idle" /\ CreateTempNode /\ isRegistered' = TRUE
    /\ UNCHANGED <<others, link, drops, changes, lostWatch, localConns, resolver, lock, remote, isStateDisconnected, unreg>>

(* UnRegister, under the lock, deletes the node and sleeps, *)
UnRegister ==
    /\ isRegistered /\ lock = "free" /\ lock' = "unregister" /\ link = "up" /\ unreg' = "sleep"
    /\ own' = own \ {node} /\ Fire
    /\ UNCHANGED <<others, nodes, link, drops, changes, lostWatch, localConns, resolver, remote, isRegistered, node, isStateDisconnected>>

(* then forgets everything, its resolvers too. *)
unregisterEnds ==
    /\ unreg = "sleep" /\ unreg' = "done" /\ lock' = "free"
    /\ isRegistered' = FALSE /\ node' = 0 /\ localConns' = {}
    /\ resolver' = [resolver EXCEPT !.listed = FALSE]
    /\ UNCHANGED <<server, events, remote, isStateDisconnected>>
-----------------------------------------------------------------------------
SetRemote(p, pc) == remote' = [remote EXCEPT ![p] = pc]

(* GetConnsRemote: first the watch, *)
childrenW(p) ==
    /\ remote[p] = "watch" /\ link = "up" /\ armed' = TRUE /\ SetRemote(p, "read")
    /\ lostWatch' = (lostWatch /\ p # "GetConns")
    /\ UNCHANGED <<others, own, nodes, link, drops, changes, events, localConns, resolver, lock, reg>>

(* then the children, for GetConns the cache, for the others the resolver,  *)
(* after which the event's or the ticker's flush clears the cache.          *)
childrenRead(p) ==
    /\ remote[p] = "read" /\ link = "up"
    /\ SetRemote(p, IF p = "Build" THEN "list" ELSE "idle")
    /\ localConns' = CASE p = "GetConns" -> children [] p = "Build" -> localConns [] OTHER -> {}
    /\ resolver' = IF p = "GetConns" THEN resolver ELSE [resolver EXCEPT !.view = children]
    /\ lock' = IF p = "Build" THEN lock ELSE "free"
    /\ UNCHANGED <<server, events, reg>>

(* A call on a connection that is down fails: GetConns returns the error,   *)
(* a resolver keeps what it has.                                            *)
remoteFails(p) ==
    /\ remote[p] \in {"watch", "read"} /\ link = "down"
    /\ SetRemote(p, IF p = "Build" THEN "list" ELSE "idle")
    /\ localConns' = IF p \in {"watch", "refresh"} THEN {} ELSE localConns
    /\ lock' = IF p = "Build" THEN lock ELSE "free"
    /\ UNCHANGED <<server, events, resolver, reg>>

GetConns ==
    /\ lock = "free" /\ localConns = {} /\ lock' = "GetConns" /\ SetRemote("GetConns", "watch")
    /\ UNCHANGED <<server, events, localConns, resolver, reg>>

(* The resolver of a connection resolves before it is listed. *)
Build ==
    /\ ~resolver.built /\ resolver' = [resolver EXCEPT !.built = TRUE] /\ SetRemote("Build", "watch")
    /\ UNCHANGED <<server, events, localConns, lock, reg>>

buildLists ==
    /\ remote["Build"] = "list" /\ lock = "free" /\ SetRemote("Build", "idle")
    /\ resolver' = [resolver EXCEPT !.listed = TRUE]
    /\ UNCHANGED <<server, events, localConns, lock, reg>>

(* flushResolverAndDeleteLocal, under the lock. *)
Flush(p) ==
    /\ lock = "free"
    /\ IF resolver.listed THEN SetRemote(p, "watch") /\ lock' = p /\ UNCHANGED localConns
                          ELSE localConns' = {} /\ UNCHANGED <<remote, lock>>

(* refresh, by the ticker. *)
refresh ==
    /\ Flush("refresh") /\ (resolver.listed \/ localConns # {})
    /\ UNCHANGED <<server, events, resolver, reg>>
-----------------------------------------------------------------------------
Idle == remote["watch"] = "idle" /\ events # <<>> /\ events' = Tail(events)

watchChildren ==
    /\ Idle /\ Head(events) = "children" /\ Flush("watch")
    /\ UNCHANGED <<server, resolver, reg>>

watchState ==
    /\ Idle /\ Head(events) \in {"connected", "disconnected"}
    /\ isStateDisconnected' = (Head(events) = "disconnected")
    /\ UNCHANGED <<server, localConns, resolver, lock, remote, isRegistered, node, unreg>>

(* A session event of a registered client creates its node again, whether   *)
(* or not the session is a new one; no lock is taken.                       *)
watchHasSession ==
    /\ remote["watch"] = "idle" /\ events # <<>> /\ Head(events) = "hasSession"
    /\ IF isRegistered /\ ~isStateDisconnected /\ link = "up"
       THEN /\ nodes' = nodes + 1 /\ own' = own \cup {nodes + 1} /\ node' = nodes + 1 /\ armed' = FALSE
            /\ events' = IF armed THEN Append(Tail(events), "children") ELSE Tail(events)
       ELSE events' = Tail(events) /\ UNCHANGED <<nodes, own, node, armed>>
    /\ UNCHANGED <<others, link, drops, changes, lostWatch, localConns, resolver, lock, remote, isRegistered, isStateDisconnected, unreg>>
-----------------------------------------------------------------------------
watch == watchChildren \/ watchState \/ watchHasSession
Remote(p) == childrenW(p) \/ childrenRead(p) \/ remoteFails(p)
Reconnects == \E expired \in BOOLEAN : Reconnect(expired)

Next ==
    \/ \E a \in Peers : PeerChanges(a)
    \/ Disconnect \/ Reconnects \/ Register \/ UnRegister \/ unregisterEnds
    \/ GetConns \/ Build \/ buildLists \/ refresh \/ watch
    \/ \E p \in Procs : Remote(p)

Spec == Init /\ [][Next]_vars

(* The connection comes back, goroutines go on, and the ticker ticks. *)
Fairness ==
    /\ WF_vars(Reconnects) /\ SF_vars(watch) /\ WF_vars(unregisterEnds)
    /\ SF_vars(refresh) /\ SF_vars(buildLists)
    /\ \A p \in Procs : WF_vars(Remote(p))
-----------------------------------------------------------------------------
(* Cached connections that are out of date have an event under way that     *)
(* will clear them: no change slips between the watch and the read.  A      *)
(* session that ended took its watch with it, and only the ticker helps.    *)
NoMissedChange ==
    localConns # {} /\ localConns # children /\ ~lostWatch =>
        \/ \E i \in DOMAIN events : events[i] = "children"
        \/ lock \in {"watch", "refresh"}

(* A client whose node went with its session registers again. *)
NodeReturns == (isRegistered /\ own = {} /\ unreg = "idle") ~> (own # {} \/ unreg # "idle")

(* A resolver that is listed comes to see the children as they are, though  *)
(* an event before it was listed, or a lost watch, has passed it by.        *)
ResolverCatchesUp == <>[](changes = MaxChanges) => []<>(resolver.listed /\ unreg = "idle" => resolver.view = children)
=============================================================================
