--------------------------- MODULE KafkaConsumer ---------------------------
(***************************************************************************)
(* mq/kafka: the members of a consumer group on one partition.  Each has a  *)
(* loop that consumes session after session, the claim of the running       *)
(* session, which moves messages into a bounded channel, and a subscriber   *)
(* that takes them out and marks them in the session they came with.  The   *)
(* broker and sarama's sessions are modelled from their use: a session      *)
(* starts after the committed offset, or at the end of the log if nothing   *)
(* was committed; a mark counts in its own session only, a commit only from *)
(* the partition's owner; a session ends once its claim has returned.       *)
(***************************************************************************)
EXTENDS Integers, Sequences, FiniteSetsExt

CONSTANTS Members, Closers,     \* Closers \subseteq Members may be closed
          Buffer,               \* capacity of mqConsumerGroup.msg
          AutoCommit,           \* autoCommitEnable
          MaxLog, MaxFaults     \* bounds: messages; rebalances and crashes

VARIABLES log,          \* the number of messages produced
          committed,    \* the committed offset; NoOffset for none
          owner, gen,   \* the partition's member, and its session's number
          from,         \* history: the last start that skipped to the end
          handed,       \* history: the offsets taken by subscribers
          faults, m     \* m[c]: the state of member c

broker == <<log, committed, owner, gen, from>>
vars == <<broker, handed, faults, m>>

NoOffset == -1
Nobody == "nobody"
Free == [off |-> 0, gen |-> 0]
Fresh == [loop |-> "loop", cancelled |-> FALSE, closed |-> FALSE, msg |-> <<>>, held |-> Free,
          gen |-> 0, claim |-> "none", next |-> 0, last |-> 0, marked |-> 0]

TypeOK == /\ log \in 0..MaxLog /\ committed \in NoOffset..MaxLog /\ owner \in Members \cup {Nobody} /\ gen \in Nat
          /\ from \in 0..MaxLog /\ handed \subseteq 1..MaxLog /\ faults \in 0..MaxFaults
          /\ \A c \in Members : /\ m[c].loop \in {"loop", "session", "leaving", "exit"}
                                /\ m[c].claim \in {"none", "recv", "send"} /\ Len(m[c].msg) <= Buffer

Init == /\ log \in 0..1 /\ committed \in {NoOffset, 0} /\ owner = Nobody /\ gen = 0 /\ from = 0
        /\ handed = {} /\ faults = 0 /\ m = [c \in Members |-> Fresh]

Produce == log < MaxLog /\ log' = log + 1 /\ UNCHANGED <<committed, owner, gen, from, handed, faults, m>>
-----------------------------------------------------------------------------
(* loopConsume calls Consume, which joins the group and starts a session.   *)
Join(c) == LET start == IF committed = NoOffset THEN log ELSE committed IN
           /\ m[c].loop = "loop" /\ ~m[c].cancelled /\ owner = Nobody
           /\ owner' = c /\ gen' = gen + 1 /\ from' = IF committed = NoOffset THEN log ELSE from
           /\ m' = [m EXCEPT ![c].loop = "session", ![c].gen = gen + 1, ![c].claim = "recv",
                             ![c].next = start + 1, ![c].marked = start]
           /\ UNCHANGED <<log, committed, handed, faults>>
(* Consume returns Canceled or ErrClosedConsumerGroup: closeMsgChan.        *)
Exit(c) == /\ m[c].loop = "loop" /\ m[c].cancelled
           /\ m' = [m EXCEPT ![c].loop = "exit", ![c].closed = TRUE] /\ UNCHANGED <<broker, handed, faults>>

(* ConsumeClaim takes the next message of its claim, of a session that ends *)
(* those that were fetched before; ...                                      *)
Receive(c) == /\ m[c].claim = "recv" /\ m[c].next <= IF m[c].loop = "leaving" THEN m[c].last ELSE log
              /\ m' = [m EXCEPT ![c].claim = "send"] /\ UNCHANGED <<broker, handed, faults>>
(* ... and sends it on, with its session, when there is room; ... *)
Send(c) == /\ m[c].claim = "send" /\ ~m[c].closed /\ Len(m[c].msg) < Buffer
           /\ m' = [m EXCEPT ![c].claim = "recv", ![c].next = @ + 1,
                             ![c].msg = Append(@, [off |-> m[c].next, gen |-> m[c].gen])]
           /\ UNCHANGED <<broker, handed, faults>>
(* The faulty variant: the claim goes on without the message. *)
DropGoesOn(c) == /\ m[c].claim = "send" /\ (m[c].cancelled \/ m[c].closed)
                 /\ m' = [m EXCEPT ![c].claim = "recv", ![c].next = @ + 1] /\ UNCHANGED <<broker, handed, faults>>
(* ... the context ends first, or the send panics: the claim returns.       *)
Drop(c) == /\ m[c].claim = "send" /\ (m[c].cancelled \/ m[c].closed)
           /\ m' = [m EXCEPT ![c].claim = "none"] /\ UNCHANGED <<broker, handed, faults>>
(* Between messages it ends with the context or the session.                *)
Finish(c) == /\ m[c].claim = "recv" /\ (m[c].cancelled \/ m[c].loop = "leaving")
             /\ m' = [m EXCEPT ![c].claim = "none"] /\ UNCHANGED <<broker, handed, faults>>

(* Close, or the end of the parent's context.                               *)
Close(c) == /\ c \in Closers /\ ~m[c].cancelled /\ m' = [m EXCEPT ![c].cancelled = TRUE]
            /\ UNCHANGED <<broker, handed, faults>>

(* Subscribe: the next message from the channel ... *)
Subscribe(c) == /\ m[c].held = Free /\ m[c].msg # <<>> /\ handed' = handed \cup {Head(m[c].msg).off}
                /\ m' = [m EXCEPT ![c].held = Head(m[c].msg), ![c].msg = Tail(@)] /\ UNCHANGED <<broker, faults>>
(* ... which the handler marks, or returns from without a mark.             *)
Mark(c) == /\ m[c].held # Free
           /\ m' = [m EXCEPT ![c].held = Free,
                             ![c].marked = IF m[c].held.gen = m[c].gen THEN Max({@, m[c].held.off}) ELSE @]
           /\ UNCHANGED <<broker, handed, faults>>
HandlerFails(c) == m[c].held # Free /\ m' = [m EXCEPT ![c].held = Free] /\ UNCHANGED <<broker, handed, faults>>
(* kafkaMessage.Commit, or sarama's ticker.                                 *)
Commit(c) == /\ owner = c /\ m[c].loop \in {"session", "leaving"} /\ m[c].marked > committed
             /\ committed' = m[c].marked /\ UNCHANGED <<log, owner, gen, from, handed, faults, m>>
-----------------------------------------------------------------------------
(* The session ends with its claim; its marks are flushed by AutoCommit.    *)
Leave(c) == /\ m[c].loop \in {"session", "leaving"} /\ m[c].claim = "none"
            /\ committed' = IF AutoCommit /\ owner = c /\ m[c].marked > committed /\ m[c].marked > 0
                            THEN m[c].marked ELSE committed
            /\ owner' = IF owner = c THEN Nobody ELSE owner
            /\ m' = [m EXCEPT ![c].loop = "loop", ![c].gen = 0, ![c].last = 0] /\ UNCHANGED <<log, gen, from, handed, faults>>
(* The group is rebalanced; a member that does not leave in time loses the  *)
(* partition.                                                               *)
Rebalance(c) == /\ m[c].loop = "session" /\ faults < MaxFaults /\ faults' = faults + 1
                /\ m' = [m EXCEPT ![c].loop = "leaving", ![c].last = log] /\ UNCHANGED <<broker, handed>>
Evict(c) == /\ owner = c /\ m[c].loop = "leaving" /\ owner' = Nobody
            /\ UNCHANGED <<log, committed, gen, from, handed, faults, m>>
(* The process dies with its buffer and is started again.                   *)
Crash(c) == /\ faults < MaxFaults /\ faults' = faults + 1 /\ m' = [m EXCEPT ![c] = Fresh]
            /\ owner' = (IF owner = c THEN Nobody ELSE owner) /\ UNCHANGED <<log, committed, gen, from, handed>>

Claim(c) == Receive(c) \/ Send(c) \/ Drop(c) \/ Finish(c)
Loop(c) == Join(c) \/ Exit(c) \/ Leave(c)
Reader(c) == Subscribe(c) \/ Mark(c) \/ HandlerFails(c)
Next == \/ Produce
        \/ \E c \in Members : \/ Claim(c) \/ Loop(c) \/ Reader(c)
                              \/ Commit(c) \/ Close(c) \/ Rebalance(c) \/ Evict(c) \/ Crash(c)
Spec == Init /\ [][Next]_vars
(* The goroutines run and handlers return; that anyone subscribes is a      *)
(* further assumption.                                                      *)
Fairness == \A c \in Members : WF_vars(Claim(c)) /\ WF_vars(Loop(c))
ReadFairness == Fairness /\ \A c \in Members : WF_vars(Reader(c))
-----------------------------------------------------------------------------
(* What is committed was handed to a handler, by this member or another     *)
(* before it, save what a session without a committed offset skipped: a     *)
(* message dropped on the way out of a claim, left in a buffer or lost with *)
(* its process is never passed over by a later mark.                        *)
CommittedWereHanded == \A o \in 1..committed : o > from => o \in handed

(* A closed member closes its channel, whether or not anyone reads from it, *)
(* so that every Subscribe returns.                                         *)
CloseEnds == \A c \in Closers : m[c].cancelled ~> m[c].closed \/ ~m[c].cancelled

(* While some member stays, every message is handed to a subscriber: no     *)
(* rebalance, crash or close of another leaves one behind.                  *)
AllHanded == []<>(\A o \in 1..log : o \in handed \/ o <= from)
=============================================================================
