------------------------------ MODULE EtcdLease ------------------------------
(***************************************************************************)
(* discovery/etcd etcd_kv.go: SetWithLease puts a key under a lease and     *)
(* starts a goroutine that keeps the lease alive and sets the key again     *)
(* when it is lost, until stopKVKeepAlives.  Several calls may set one key. *)
(***************************************************************************)
EXTENDS Integers

CONSTANTS Calls, MaxLeases,
          MaxFaults     \* failing calls to etcd, closed channels, expired leases in use

None == 0

VARIABLES key,          \* the lease and the call whose value the key holds
          leases, granted,
          call,         \* each SetWithLease and its goroutine: [pc, lease, new, first]
          keepAlives, cancelled,
          stop,         \* [pc, list]: the calls still to be waited for and revoked
          faults

vars == <<key, leases, granted, call, keepAlives, cancelled, stop, faults>>

NoKey == [lease |-> None, by |-> "nobody"]

Init ==
    /\ key = NoKey /\ leases = {} /\ granted = 0
    /\ call = [c \in Calls |-> [pc |-> "idle", lease |-> None, new |-> None, first |-> TRUE]]
    /\ keepAlives = {} /\ cancelled = {} /\ stop = [pc |-> "idle", list |-> {}] /\ faults = 0

Fault == faults < MaxFaults /\ faults' = faults + 1
Goto(c, pc) == call' = [call EXCEPT ![c].pc = pc]
(* Revoke, or expiry: the keys of the lease go with it. *)
Revoke(l) == leases' = leases \ {l} /\ key' = IF key.lease = l THEN NoKey ELSE key
-----------------------------------------------------------------------------
(* setKeyWithLease: Grant.  A failed reset goes back to KeepAlive. *)
Failed(c) == IF call[c].first THEN "idle" ELSE "keep"

setKeyGrant(c) ==
    /\ \/ call[c].pc = "idle" /\ stop.pc = "idle"
       \/ call[c].pc = "grant" /\ c \notin cancelled
    /\ \/ /\ granted < MaxLeases /\ granted' = granted + 1 /\ leases' = leases \cup {granted + 1}
          /\ call' = [call EXCEPT ![c].pc = "put", ![c].new = granted + 1] /\ UNCHANGED faults
       \/ Fault /\ Goto(c, Failed(c)) /\ UNCHANGED <<leases, granted>>
    /\ UNCHANGED <<key, keepAlives, cancelled, stop>>

(* Put, then SetWithLease lists its goroutine or the goroutine goes on; an  *)
(* error revokes the lease (which may fail too: the lease then expires).  A *)
(* cancelled context interrupts the put, done or not, and the revocation.   *)
setKeyPut(c) ==
    /\ call[c].pc = "put"
    /\ \/ /\ c \notin cancelled /\ key' = [lease |-> call[c].new, by |-> c]
          /\ call' = [call EXCEPT ![c].pc = "keep", ![c].lease = call[c].new, ![c].first = FALSE]
          /\ keepAlives' = keepAlives \cup (IF call[c].first THEN {c} ELSE {})
          /\ UNCHANGED <<leases, faults>>
       \/ /\ c \notin cancelled /\ Fault /\ leases' \in {leases, leases \ {call[c].new}}
          /\ Goto(c, Failed(c)) /\ UNCHANGED <<key, keepAlives>>
       \/ /\ c \in cancelled /\ key' \in {key, [lease |-> call[c].new, by |-> c]}
          /\ Goto(c, Failed(c)) /\ UNCHANGED <<leases, keepAlives, faults>>
    /\ UNCHANGED <<granted, cancelled, stop>>

(* keepAliveLease returns: the context, the lease or the stream has ended. *)
keepAliveLease(c) ==
    /\ call[c].pc = "keep"
    /\ \/ c \in cancelled /\ Goto(c, "done") /\ UNCHANGED faults
       \/ c \notin cancelled /\ call[c].lease \notin leases /\ Goto(c, "sleep") /\ UNCHANGED faults
       \/ c \notin cancelled /\ call[c].lease \in leases /\ Fault /\ Goto(c, "sleep")
    /\ UNCHANGED <<key, leases, granted, keepAlives, cancelled, stop>>

SetWithLeaseRetry(c) ==
    /\ \/ call[c].pc = "sleep" /\ Goto(c, IF c \in cancelled THEN "done" ELSE "grant")
       \/ call[c].pc = "grant" /\ c \in cancelled /\ Goto(c, "keep")
    /\ UNCHANGED <<key, leases, granted, keepAlives, cancelled, stop, faults>>

(* DelData; the goroutines are not told. *)
DelData ==
    /\ key # NoKey /\ key' = NoKey
    /\ UNCHANGED <<leases, granted, call, keepAlives, cancelled, stop, faults>>
-----------------------------------------------------------------------------
(* stopKVKeepAlives: cancels, *)
stopKVKeepAlives ==
    /\ stop.pc = "idle" /\ stop' = [pc |-> "wait", list |-> keepAlives] /\ keepAlives' = {}
    /\ cancelled' = cancelled \cup keepAlives
    /\ UNCHANGED <<key, leases, granted, call, faults>>

(* waits for the goroutines, *)
stopWait ==
    /\ stop.pc = "wait" /\ \A c \in stop.list : call[c].pc = "done"
    /\ stop' = [stop EXCEPT !.pc = "revoke"]
    /\ UNCHANGED <<key, leases, granted, call, keepAlives, cancelled, faults>>

(* and revokes their leases, one after the other. *)
stopRevoke ==
    /\ stop.pc = "revoke"
    /\ \/ \E c \in stop.list :
             /\ stop' = [stop EXCEPT !.list = @ \ {c}]
             /\ \/ Revoke(call[c].lease) /\ UNCHANGED faults
                \/ Fault /\ UNCHANGED <<key, leases>>
       \/ stop.list = {} /\ stop' = [stop EXCEPT !.pc = "end"] /\ UNCHANGED <<key, leases, faults>>
    /\ UNCHANGED <<granted, call, keepAlives, cancelled>>

(* etcd ends leases nobody keeps alive, one that is kept only by a fault. *)
Kept(l) == \E c \in Calls : c \notin cancelled /\ call[c].pc = "keep" /\ call[c].lease = l
leaseExpires(l) ==
    /\ l \in leases /\ Revoke(l) /\ \A c \in Calls : ~(call[c].pc = "put" /\ call[c].new = l)
    /\ IF Kept(l) THEN Fault ELSE UNCHANGED faults
    /\ UNCHANGED <<granted, call, keepAlives, cancelled, stop>>

Running(c) == (setKeyGrant(c) /\ call[c].pc # "idle") \/ setKeyPut(c) \/ keepAliveLease(c) \/ SetWithLeaseRetry(c)
Stopping == stopWait \/ stopRevoke

Next ==
    \/ \E c \in Calls : setKeyGrant(c) \/ setKeyPut(c) \/ keepAliveLease(c) \/ SetWithLeaseRetry(c)
    \/ DelData \/ stopKVKeepAlives \/ Stopping
    \/ \E l \in 1..MaxLeases : leaseExpires(l)
Spec == Init /\ [][Next]_vars
(* Goroutines and the calls that have begun go on, leases that are not kept end. *)
Fairness ==
    /\ WF_vars(Stopping) /\ \A c \in Calls : WF_vars(Running(c))
    /\ \A l \in 1..MaxLeases : WF_vars(leaseExpires(l) /\ ~Kept(l))
-----------------------------------------------------------------------------
(* Calls that finish after the stop has taken the list are not its concern. *)
AllListed == keepAlives = {} /\ \A c \in Calls : call[c].first => call[c].pc = "idle"

(* The key's lease is alive, and is one that a goroutine keeps, is about to *)
(* keep, or has lost; goroutines do not hold on to another one.             *)
LeaseKnown == key # NoKey /\ stop.pc = "idle" => key.lease \in leases /\ key.lease = call[key.by].lease

(* A lease that is lost to faults does not take the key away for good. *)
Restored ==
    \A c \in Calls : (c \in keepAlives /\ call[c].lease \notin leases) ~> (key # NoKey \/ stop.pc # "idle")

(* After the hub is closed the keys it listed go, though revocations fail. *)
GoneAfterStop == (stop.pc = "end" /\ AllListed) ~> (key = NoKey)
=============================================================================
