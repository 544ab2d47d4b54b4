------------------------------ MODULE RedisTimer ------------------------------
(***************************************************************************)
(* timer/redistimer: deadlines in a sorted set, items in a hash, any number *)
(* of polling instances.  A pipeline saves round trips and is no            *)
(* transaction: its commands run one by one and others may come between.    *)
(***************************************************************************)
EXTENDS Integers, Sequences, FiniteSets, SequencesExt

CONSTANTS Keys, Clients, Instances,
          MaxTime,       \* the clock stops there
          MaxRegs,       \* registrations, at most
          batchSize,
          MaxFailures,   \* handlers and removals that fail, at most
          Upsert,        \* a key in use may be registered or cancelled again
          Torn           \* a removal may fail between the commands of one key

VARIABLES now, failures,
          zset,      \* deadline of a key, or NoScore
          hash,      \* the registration whose item is stored, or NoItem
          regs,      \* history: the registrations, in order
          state,     \* of a registration: pending, registered, cancelled
          client,    \* [op, key, pipe] of a caller
          inst,      \* [pc, keys, items, pipe] of an instance
          fired      \* history: [reg, at] of handlers that succeeded

store == <<zset, hash>>
vars == <<now, failures, zset, hash, regs, state, client, inst, fired>>

NoScore == -1
NoItem == 0
IdleClient == [op |-> "idle", key |-> "", reg |-> 0, pipe |-> <<>>]
IdleInst == [pc |-> "idle", keys |-> <<>>, items |-> <<>>, pipe |-> <<>>]

Init ==
    /\ now = 0 /\ failures = 0
    /\ zset = [k \in Keys |-> NoScore] /\ hash = [k \in Keys |-> NoItem]
    /\ regs = <<>> /\ state = <<>>
    /\ client = [c \in Clients |-> IdleClient] /\ inst = [i \in Instances |-> IdleInst]
    /\ fired = {}
-----------------------------------------------------------------------------
(* Redis executes one command of a pipeline. *)
Exec(cmd) ==
    /\ zset' = CASE cmd.name = "zadd" -> [zset EXCEPT ![cmd.key] = regs[cmd.reg].at]
                 [] cmd.name = "zrem" -> [zset EXCEPT ![cmd.key] = NoScore]
                 [] OTHER -> zset
    /\ hash' = CASE cmd.name = "hset" -> [hash EXCEPT ![cmd.key] = cmd.reg]
                 [] cmd.name = "hdel" -> [hash EXCEPT ![cmd.key] = NoItem]
                 [] OTHER -> hash

Cmd(name, k, r) == [name |-> name, key |-> k, reg |-> r]
AddPipe(k, r) == <<Cmd("zadd", k, r), Cmd("hset", k, r)>>
RemovePipe(k) == <<Cmd("zrem", k, 0), Cmd("hdel", k, 0)>>

(* Somebody works on the key. *)
InUse(k) ==
    \/ \E c \in Clients : client[c].key = k
    \/ \E i \in Instances : \/ k \in ToSet(inst[i].keys)
                            \/ \E n \in DOMAIN inst[i].items : regs[inst[i].items[n]].key = k
                            \/ \E n \in DOMAIN inst[i].pipe : inst[i].pipe[n].key = k

MayUse(c, k) == client[c].op = "idle" /\ (Upsert \/ ~InUse(k))

NewReg(k, at) ==
    /\ Len(regs) < MaxRegs
    /\ regs' = Append(regs, [key |-> k, at |-> at])
    /\ state' = Append(state, "pending")

(* Register and RegisterAt. *)
RegisterAt(c, k, at) ==
    /\ MayUse(c, k) /\ (Upsert \/ zset[k] = NoScore) /\ at >= now
    /\ NewReg(k, at)
    /\ client' = [client EXCEPT ![c] = [op |-> "register", key |-> k, reg |-> Len(regs) + 1,
                                         pipe |-> AddPipe(k, Len(regs) + 1)]]
    /\ UNCHANGED <<now, failures, store, inst, fired>>

(* RegisterIfNotExists: ZSCORE first, and the pipeline if there is none. *)
RegisterAtIfNotExists(c, k, at) ==
    /\ MayUse(c, k) /\ at >= now
    /\ zset[k] = NoScore
    /\ NewReg(k, at)
    /\ client' = [client EXCEPT ![c] = [op |-> "ifNotExists", key |-> k, reg |-> Len(regs) + 1,
                                         pipe |-> AddPipe(k, Len(regs) + 1)]]
    /\ UNCHANGED <<now, failures, store, inst, fired>>

(* From the call on, what was registered before may be gone. *)
Cancel(c, k) ==
    /\ MayUse(c, k) /\ zset[k] # NoScore
    /\ client' = [client EXCEPT ![c] = [op |-> "cancel", key |-> k, reg |-> 0,
                                        pipe |-> RemovePipe(k)]]
    /\ state' = [r \in DOMAIN state |-> IF regs[r].key = k THEN "cancelled" ELSE state[r]]
    /\ UNCHANGED <<now, failures, store, regs, inst, fired>>

(* The next command of a caller's pipeline; with the last one it returns    *)
(* and a registration counts.  An earlier one of the key is then replaced.  *)
ClientExec(c) ==
    LET cmd == Head(client[c].pipe)
        last == Len(client[c].pipe) = 1
        r == client[c].reg
    IN
    /\ client[c].pipe # <<>>
    /\ Exec(cmd)
    /\ client' = [client EXCEPT ![c] = IF last THEN IdleClient ELSE [@ EXCEPT !.pipe = Tail(client[c].pipe)]]
    /\ state' = IF last /\ r # 0 /\ state[r] = "pending"
                THEN [x \in DOMAIN state |-> IF x = r THEN "registered"
                                             ELSE IF regs[x].key = cmd.key THEN "cancelled" ELSE state[x]]
                ELSE state
    /\ UNCHANGED <<now, failures, regs, inst, fired>>
-----------------------------------------------------------------------------
(* The faulty variant: only the present second is asked for. *)
ExpiredJustNow == {k \in Keys : zset[k] = now}

Expired == {k \in Keys : zset[k] # NoScore /\ zset[k] <= now}

(* A batch in the order of deadlines; ties are broken by name. *)
Batches(S) ==
    {b \in UNION {[1..n -> S] : n \in {IF Cardinality(S) < batchSize THEN Cardinality(S) ELSE batchSize}} :
        /\ \A m, n \in DOMAIN b : m < n => zset[b[m]] <= zset[b[n]] /\ b[m] # b[n]
        /\ \A k \in S \ ToSet(b), n \in DOMAIN b : zset[b[n]] <= zset[k]}

(* A tick of process: the keys that have expired ... *)
getExpired(i) ==
    /\ inst[i].pc = "idle"
    /\ \E b \in Batches(Expired) :
       /\ b # <<>>
       /\ inst' = [inst EXCEPT ![i] = [IdleInst EXCEPT !.pc = "fetch", !.keys = b]]
    /\ UNCHANGED <<now, failures, store, regs, state, client, fired>>

(* ... and their items, a key without an item is passed over. *)
getItem(i) ==
    LET k == Head(inst[i].keys) IN
    /\ inst[i].pc = "fetch"
    /\ inst' = [inst EXCEPT ![i] =
                  [@ EXCEPT !.keys = Tail(inst[i].keys),
                            !.items = IF hash[k] = NoItem THEN inst[i].items ELSE Append(inst[i].items, hash[k]),
                            !.pc = IF Len(inst[i].keys) = 1 THEN "handle" ELSE "fetch"]]
    /\ UNCHANGED <<now, failures, store, regs, state, client, fired>>

(* The handler of the next item.  If it fails the timer stays. *)
processExpired(i) ==
    LET r == Head(inst[i].items) IN
    /\ inst[i].pc = "handle" /\ inst[i].items # <<>>
    /\ \/ /\ fired' = fired \cup {[reg |-> r, at |-> now]}
          /\ inst' = [inst EXCEPT ![i] = [@ EXCEPT !.items = Tail(inst[i].items),
                                                   !.pipe = inst[i].pipe \o RemovePipe(regs[r].key)]]
          /\ UNCHANGED failures
       \/ /\ failures < MaxFailures /\ failures' = failures + 1
          /\ inst' = [inst EXCEPT ![i] = [@ EXCEPT !.items = Tail(inst[i].items)]]
          /\ UNCHANGED fired
    /\ UNCHANGED <<now, store, regs, state, client>>

(* The batch removal, command by command; an error leaves the rest. *)
removeProcessed(i) ==
    /\ inst[i].pc = "handle" /\ inst[i].items = <<>>
    /\ \/ /\ inst[i].pipe # <<>>
          /\ Exec(Head(inst[i].pipe))
          /\ inst' = [inst EXCEPT ![i] = [@ EXCEPT !.pipe = Tail(inst[i].pipe)]]
          /\ UNCHANGED failures
       \/ /\ inst[i].pipe # <<>> /\ (Torn \/ Len(inst[i].pipe) % 2 = 0)
          /\ failures < MaxFailures /\ failures' = failures + 1
          /\ inst' = [inst EXCEPT ![i] = IdleInst]
          /\ UNCHANGED store
       \/ /\ inst[i].pipe = <<>>
          /\ inst' = [inst EXCEPT ![i] = IdleInst]
          /\ UNCHANGED <<store, failures>>
    /\ UNCHANGED <<now, regs, state, client, fired>>

Tick ==
    /\ now < MaxTime /\ now' = now + 1
    /\ UNCHANGED <<failures, store, regs, state, client, inst, fired>>
-----------------------------------------------------------------------------
InstStep(i) == getExpired(i) \/ getItem(i) \/ processExpired(i) \/ removeProcessed(i)

Next ==
    \/ Tick
    \/ \E c \in Clients : \/ ClientExec(c)
                          \/ \E k \in Keys : Cancel(c, k)
                          \/ \E k \in Keys, at \in 0..MaxTime :
                                RegisterAt(c, k, at) \/ RegisterAtIfNotExists(c, k, at)
    \/ \E i \in Instances : InstStep(i)

Spec == Init /\ [][Next]_vars

(* Time passes, pipelines finish, every instance keeps polling. *)
Fairness ==
    /\ WF_vars(Tick)
    /\ \A c \in Clients : WF_vars(ClientExec(c))
    /\ \A i \in Instances : WF_vars(InstStep(i))
-----------------------------------------------------------------------------
Regs == DOMAIN regs
HasFired(r) == \E f \in fired : f.reg = r
Quiet == /\ \A c \in Clients : client[c] = IdleClient
         /\ \A i \in Instances : inst[i] = IdleInst

TypeOK ==
    /\ zset \in [Keys -> {NoScore} \cup 0..MaxTime] /\ hash \in [Keys -> 0..Len(regs)]
    /\ Len(state) = Len(regs) /\ Len(regs) <= MaxRegs
    /\ \A r \in Regs : regs[r].key \in Keys /\ state[r] \in {"pending", "registered", "cancelled"}
    /\ failures \in 0..MaxFailures /\ now \in 0..MaxTime
    /\ \A i \in Instances : inst[i].pc \in {"idle", "fetch", "handle"} /\ Len(inst[i].items) <= batchSize

(* The handler never gets an item before the deadline it was registered     *)
(* with.                                                                    *)
NotEarly == \A f \in fired : f.at >= regs[f.reg].at

(* A timer that was registered, and neither cancelled nor replaced, is in   *)
(* the sorted set with its own deadline and item until its handler has      *)
(* succeeded, whatever fails and however many instances poll.               *)
NotForgotten ==
    \A r \in Regs : state[r] = "registered" /\ ~HasFired(r) =>
        zset[regs[r].key] = regs[r].at /\ hash[regs[r].key] = r

(* When nothing is in progress and nothing has failed, a key has a deadline *)
(* exactly when it has an item.                                             *)
NoResidue ==
    Quiet /\ failures = 0 => \A k \in Keys : zset[k] = NoScore <=> hash[k] = NoItem

(* A registered timer fires or is cancelled, though handlers may fail first. *)
Fires == []<>(\A r \in Regs : state[r] = "registered" => HasFired(r))
=============================================================================
