------------------------------ MODULE K8sConns ------------------------------
(***************************************************************************)
(* discovery/kubernetes: direct connections to the endpoints of services,   *)
(* rebuilt by the informer's handler, by GetConns on an empty map, and      *)
(* dropped by AddOption and Close.                                          *)
(***************************************************************************)
EXTENDS Integers, FiniteSets

CONSTANTS Services, WatchNames, Addrs, MaxChanges, MaxOps

VARIABLES endpoints,      \* of each service, at the API server
          changed,        \* services with an event for the informer
          connsMap,       \* service -> its connections; no entry, no service
          open, dials, dialOptions,
          failed,         \* history: services whose last rebuild failed
          changes, ops

vars == <<endpoints, changed, connsMap, open, dials, dialOptions, failed, changes, ops>>

NoEntries == [s \in {} |-> {}]

Init ==
    /\ endpoints \in [Services -> SUBSET Addrs] /\ changed = Services /\ connsMap = NoEntries
    /\ open = {} /\ dials = 0 /\ dialOptions = 0 /\ failed = {}
    /\ changes = 0 /\ ops = 0

Old(s) == IF s \in DOMAIN connsMap THEN connsMap[s] ELSE {}
AddrsOf(cs) == {c.addr : c \in cs}
Op == ops < MaxOps /\ ops' = ops + 1

EndpointsChange(s, e) ==
    /\ changes < MaxChanges /\ changes' = changes + 1 /\ e # endpoints[s]
    /\ endpoints' = [endpoints EXCEPT ![s] = e] /\ changed' = changed \cup {s}
    /\ UNCHANGED <<connsMap, open, dials, dialOptions, failed, ops>>

(* initializeConns: the endpoints are fetched under the lock; what is left  *)
(* of the old list is reused, the rest closed, new addresses are dialled.   *)
initializeConns(s) ==
    \/ LET kept == {c \in Old(s) : c.addr \in endpoints[s]}
           new == {[addr |-> a, at |-> dials, opts |-> dialOptions] : a \in endpoints[s] \ AddrsOf(kept)} IN
       /\ connsMap' = [t \in DOMAIN connsMap \cup {s} |-> IF t = s THEN kept \cup new ELSE connsMap[t]]
       /\ open' = (open \ (Old(s) \ kept)) \cup new /\ dials' = dials + 1 /\ failed' = failed \ {s}
    \/ failed' = failed \cup {s} /\ UNCHANGED <<connsMap, open, dials>>

(* The informer's handler, for the services that are watched. *)
handleEndpointChange(s) ==
    /\ s \in changed /\ changed' = changed \ {s}
    /\ IF s \in WatchNames THEN initializeConns(s) ELSE UNCHANGED <<connsMap, open, dials, failed>>
    /\ UNCHANGED <<endpoints, dialOptions, changes, ops>>

(* GetConns returns what the map has, nothing included; only an empty map   *)
(* is filled first.                                                         *)
GetConns(s) ==
    /\ Op
    /\ IF DOMAIN connsMap = {} THEN initializeConns(s) ELSE UNCHANGED <<connsMap, open, dials, failed>>
    /\ UNCHANGED <<endpoints, changed, dialOptions, changes>>

resetConnMap == connsMap' = NoEntries /\ open' = open \ UNION {connsMap[s] : s \in DOMAIN connsMap}

AddOption ==
    /\ Op /\ resetConnMap /\ dialOptions' = dialOptions + 1
    /\ UNCHANGED <<endpoints, changed, dials, failed, changes>>

Close ==
    /\ Op /\ resetConnMap
    /\ UNCHANGED <<endpoints, changed, dials, dialOptions, failed, changes>>

Next ==
    \/ \E s \in Services : handleEndpointChange(s) \/ GetConns(s) \/ \E e \in SUBSET Addrs : EndpointsChange(s, e)
    \/ AddOption \/ Close

Spec == Init /\ [][Next]_vars
-----------------------------------------------------------------------------
Mapped == UNION {connsMap[s] : s \in DOMAIN connsMap}

(* The open connections are those of the map: whichever of the informer,    *)
(* AddOption and Close takes one out closes it, and none in it is closed.   *)
OpenIsMapped == open = Mapped

(* A watched service in the map has the endpoints of the API server, unless *)
(* an event is under way or the last rebuild failed.                        *)
KeepsUp ==
    \A s \in WatchNames \cap DOMAIN connsMap :
        s \in changed \cup failed \/ AddrsOf(connsMap[s]) = endpoints[s]

(* Connections in the map carry all the options. *)
CurrentOptions == \A c \in Mapped : c.opts = dialOptions
=============================================================================
