---------------------------- MODULE EtcdRegistrar ----------------------------
(***************************************************************************)
(* discovery/etcd etcd_registry.go: one endpoint key under a lease that a   *)
(* goroutine keeps alive and replaces when it is lost.  Every call to etcd  *)
(* is a step; it may fail without effect (Faults) or with (Lost replies).   *)
(***************************************************************************)
EXTENDS Integers, FiniteSets

CONSTANTS MaxRegisters, MaxLeases,
          MaxFaults,   \* failing calls, closed channels and expired leases, at most
          MaxLost      \* writes that happen though the call fails, at most

Gens == 1..MaxRegisters     \* keepAliveLoop goroutines
NoLease == 0

VARIABLES key,       \* the lease the endpoint is attached to, or NoLease
          leases, granted,
          reg,       \* [lease, known]: leaseID, and whether service is set
          gens, loop, cancelled,
          job,       \* who holds the mutex and what it is about to do
          unreg,     \* UnRegister after its unlock: [pc, lease]
          wanted,    \* history: Register succeeded and UnRegister was not called since
          gone,      \* history: UnRegister deleted the endpoint
          faults, lost

vars == <<key, leases, granted, reg, gens, loop, cancelled, job, unreg, wanted, gone, faults, lost>>
etcd == <<key, leases, granted>>
budget == <<faults, lost>>

Nobody == -1
User == 0
NoJob == [who |-> Nobody, pc |-> "none", new |-> NoLease]
NoUnreg == [pc |-> "none", lease |-> NoLease]
NoLoop == [pc |-> "end", lease |-> NoLease]

Init ==
    /\ key = NoLease /\ leases = {} /\ granted = 0
    /\ reg = [lease |-> NoLease, known |-> FALSE]
    /\ gens = 0 /\ loop = [g \in Gens |-> NoLoop] /\ cancelled = {}
    /\ job = NoJob /\ unreg = NoUnreg /\ wanted = FALSE /\ gone = FALSE /\ faults = 0 /\ lost = 0
-----------------------------------------------------------------------------
Fault == faults < MaxFaults /\ faults' = faults + 1 /\ UNCHANGED lost
Lose == lost < MaxLost /\ lost' = lost + 1 /\ UNCHANGED faults

(* Revoke: the keys of the lease go with it. *)
Revoke(l) == leases' = leases \ {l} /\ key' = IF key = l THEN NoLease ELSE key
Goto(pc) == job' = [job EXCEPT !.pc = pc]
SetLoop(g, pc) == loop' = [loop EXCEPT ![g].pc = pc]
(* The end of a failed registration: Register returns, a loop sleeps. *)
Fail == /\ job' = NoJob
        /\ loop' = IF job.who = User THEN loop ELSE [loop EXCEPT ![job.who].pc = "sleep"]

(* Register: the old keeper is cancelled, the old lease is to be revoked. *)
Register ==
    /\ job = NoJob /\ unreg = NoUnreg /\ gens < MaxRegisters
    /\ job' = [who |-> User, pc |-> IF reg.lease = NoLease THEN "grant" ELSE "revoke", new |-> NoLease]
    /\ cancelled' = cancelled \cup 1..gens
    /\ wanted' = FALSE /\ gone' = FALSE
    /\ UNCHANGED <<etcd, reg, gens, loop, unreg, budget>>

registerRevoke ==
    /\ job.pc = "revoke"
    /\ \/ Revoke(reg.lease) /\ UNCHANGED budget
       \/ Fault /\ UNCHANGED <<key, leases>>
    /\ reg' = [reg EXCEPT !.lease = NoLease] /\ Goto("grant")
    /\ UNCHANGED <<granted, gens, loop, cancelled, unreg, wanted, gone>>

(* registerLocked: Grant.  The context of a cancelled loop is done. *)
registerGrant ==
    /\ job.pc = "grant"
    /\ \/ /\ job.who \notin cancelled /\ granted < MaxLeases
          /\ granted' = granted + 1 /\ leases' = leases \cup {granted + 1}
          /\ job' = [job EXCEPT !.pc = "add", !.new = granted + 1]
          /\ UNCHANGED <<loop, budget>>
       \/ /\ job.who \in cancelled /\ Fail
          /\ UNCHANGED <<granted, leases, budget>>
       \/ Fault /\ Fail /\ UNCHANGED <<granted, leases>>
    /\ UNCHANGED <<key, reg, gens, cancelled, unreg, wanted, gone>>

(* AddEndpoint under the new lease; an error is undone by a revocation. *)
registerAdd ==
    /\ job.pc = "add"
    /\ \/ /\ key' = job.new /\ UNCHANGED budget
          /\ reg' = [lease |-> job.new, known |-> TRUE]
          /\ job' = [job EXCEPT !.pc = IF job.who = User \/ reg.lease = NoLease THEN "done" ELSE "revokeOld",
                                !.new = reg.lease]
       \/ Fault /\ Goto("undo") /\ UNCHANGED <<key, reg>>
       \/ Lose /\ key' = job.new /\ Goto("undo") /\ UNCHANGED reg
    /\ UNCHANGED <<leases, granted, gens, loop, cancelled, unreg, wanted, gone>>

registerUndo ==
    /\ job.pc = "undo"
    /\ \/ Revoke(job.new) /\ UNCHANGED budget
       \/ Fault /\ UNCHANGED <<key, leases>>
    /\ Fail
    /\ UNCHANGED <<granted, reg, gens, cancelled, unreg, wanted, gone>>

(* reRegister, having registered anew: job.new is the lease that was lost. *)
reRegisterRevokeOld ==
    /\ job.pc = "revokeOld"
    /\ \/ Revoke(job.new) /\ UNCHANGED budget
       \/ Fault /\ UNCHANGED <<key, leases>>
    /\ Goto("done")
    /\ UNCHANGED <<granted, reg, gens, loop, cancelled, unreg, wanted, gone>>

(* Register starts its keepAliveLoop, a loop goes back to its top. *)
registerDone ==
    /\ job.pc = "done" /\ job' = NoJob /\ wanted' = TRUE
    /\ \/ job.who = User /\ gens' = gens + 1 /\ SetLoop(gens + 1, "start")
       \/ job.who \in Gens /\ SetLoop(job.who, "start") /\ UNCHANGED gens
    /\ UNCHANGED <<etcd, reg, cancelled, unreg, gone, budget>>
-----------------------------------------------------------------------------
(* keepAliveLoop: the lease is read under the mutex and kept alive, an      *)
(* error, like a closed channel, leads to reRegister.                       *)
keepAliveLoop(g) ==
    /\ loop[g].pc = "start" /\ job = NoJob
    /\ \/ /\ (g \in cancelled \/ reg.lease = NoLease) /\ SetLoop(g, "end")
          /\ UNCHANGED budget
       \/ /\ g \notin cancelled /\ reg.lease # NoLease
          /\ loop' = [loop EXCEPT ![g] = [pc |-> "alive", lease |-> reg.lease]]
          /\ UNCHANGED budget
       \/ /\ g \notin cancelled /\ reg.lease # NoLease /\ Fault /\ SetLoop(g, "lost")
    /\ UNCHANGED <<etcd, reg, gens, cancelled, job, unreg, wanted, gone>>

(* The channel closes because the lease is gone, or by a fault. *)
keepAliveCloses(g) ==
    /\ loop[g].pc = "alive"
    /\ \/ g \in cancelled /\ SetLoop(g, "end") /\ UNCHANGED budget
       \/ g \notin cancelled /\ loop[g].lease \notin leases /\ SetLoop(g, "lost") /\ UNCHANGED budget
       \/ g \notin cancelled /\ loop[g].lease \in leases /\ Fault /\ SetLoop(g, "lost")
    /\ UNCHANGED <<etcd, reg, gens, cancelled, job, unreg, wanted, gone>>

(* reRegister takes the mutex; after UnRegister there is nothing to renew.  *)
reRegister(g) ==
    /\ loop[g].pc = "lost" /\ job = NoJob
    /\ \/ ~reg.known /\ SetLoop(g, "sleep") /\ UNCHANGED job
       \/ reg.known /\ SetLoop(g, "locked") /\ job' = [who |-> g, pc |-> "grant", new |-> NoLease]
    /\ UNCHANGED <<etcd, reg, gens, cancelled, unreg, wanted, gone, budget>>

(* The faulty variant: a failed registration is not tried again. *)
keepAliveSleepEnds(g) ==
    /\ loop[g].pc = "sleep" /\ SetLoop(g, "end")
    /\ UNCHANGED <<etcd, reg, gens, cancelled, job, unreg, wanted, gone, budget>>

keepAliveSleep(g) ==
    /\ loop[g].pc = "sleep" /\ SetLoop(g, IF g \in cancelled THEN "end" ELSE "start")
    /\ UNCHANGED <<etcd, reg, gens, cancelled, job, unreg, wanted, gone, budget>>
-----------------------------------------------------------------------------
(* The faulty variant: the registrar goes on as if it was registered. *)
UnRegisterKeepsState ==
    /\ job = NoJob /\ unreg = NoUnreg /\ reg.known
    /\ unreg' = [pc |-> "delete", lease |-> reg.lease]
    /\ wanted' = FALSE
    /\ UNCHANGED <<etcd, reg, gens, loop, cancelled, job, gone, budget>>

(* UnRegister, up to its unlock. *)
UnRegister ==
    /\ job = NoJob /\ unreg = NoUnreg /\ reg.known
    /\ unreg' = [pc |-> "delete", lease |-> reg.lease]
    /\ reg' = [lease |-> NoLease, known |-> FALSE] /\ cancelled' = cancelled \cup 1..gens
    /\ wanted' = FALSE
    /\ UNCHANGED <<etcd, gens, loop, job, gone, budget>>

(* DeleteEndpoint; an error leaves the lease to expire. *)
unregisterDelete ==
    /\ unreg.pc = "delete"
    /\ \/ key' = NoLease /\ gone' = TRUE /\ unreg' = [unreg EXCEPT !.pc = "revoke"] /\ UNCHANGED budget
       \/ Fault /\ unreg' = NoUnreg /\ UNCHANGED <<key, gone>>
    /\ UNCHANGED <<leases, granted, reg, gens, loop, cancelled, job, wanted>>

unregisterRevoke ==
    /\ unreg.pc = "revoke" /\ unreg' = NoUnreg
    /\ \/ Revoke(unreg.lease) /\ UNCHANGED budget
       \/ Fault /\ UNCHANGED <<key, leases>>
    /\ UNCHANGED <<granted, reg, gens, loop, cancelled, job, wanted, gone>>

(* etcd ends a lease nobody renews; the one in use only by a fault (nothing *)
(* gets through for the time to live).                                      *)
leaseExpires(l) ==
    /\ l \in leases /\ ~(job.pc \in {"add", "undo"} /\ job.new = l)
    /\ Revoke(l)
    /\ IF l = reg.lease THEN Fault ELSE UNCHANGED budget
    /\ UNCHANGED <<granted, reg, gens, loop, cancelled, job, unreg, wanted, gone>>
-----------------------------------------------------------------------------
Locked == registerRevoke \/ registerGrant \/ registerAdd \/ registerUndo \/ reRegisterRevokeOld \/ registerDone
Looping(g) == keepAliveLoop(g) \/ keepAliveCloses(g) \/ reRegister(g) \/ keepAliveSleep(g)
Unregistering == unregisterDelete \/ unregisterRevoke

Next ==
    \/ Register \/ UnRegister \/ Locked \/ Unregistering
    \/ \E g \in Gens : Looping(g)
    \/ \E l \in 1..MaxLeases : leaseExpires(l)

Spec == Init /\ [][Next]_vars

(* Calls return, goroutines run, and etcd ends leases that are not renewed. *)
Fairness ==
    /\ WF_vars(Locked) /\ WF_vars(Unregistering)
    /\ \A g \in Gens : SF_vars(Looping(g))
    /\ \A l \in 1..MaxLeases : WF_vars(leaseExpires(l) /\ l # reg.lease)
-----------------------------------------------------------------------------
(* Types, and the mutex: a loop is inside reRegister exactly while it holds it. *)
TypeOK ==
    /\ key \in 0..granted /\ leases \subseteq 1..granted /\ (key # NoLease => key \in leases)
    /\ reg.lease \in 0..granted /\ job.new \in 0..granted
    /\ \A g \in Gens : (loop[g].pc = "locked" <=> job.who = g) /\ (g > gens => loop[g] = NoLoop)
    /\ faults \in 0..MaxFaults /\ lost \in 0..MaxLost

(* An endpoint UnRegister has deleted does not come back, though keepers of *)
(* this and of earlier registrations may be about to renew it.              *)
NoGhost == gone => key = NoLease

(* As long as nothing fails, a registered endpoint is attached to the lease *)
(* the registrar keeps, however often it registered.                        *)
SteadyInPlace == faults = 0 /\ lost = 0 /\ wanted /\ job = NoJob => key = reg.lease /\ key # NoLease

(* A registered lease has exactly one goroutine that is not cancelled. *)
OneKeeper ==
    job = NoJob /\ reg.lease # NoLease =>
        Cardinality({g \in Gens : g \notin cancelled /\ loop[g].pc # "end"}) = 1

(* An endpoint that is lost to faults is registered again. *)
Recovers == (wanted /\ key = NoLease) ~> (key # NoLease \/ ~wanted)

(* An endpoint that was unregistered goes, even if its deletion failed. *)
UnregisteredGoes == (unreg.pc = "delete") ~> (key = NoLease \/ wanted)
=============================================================================
