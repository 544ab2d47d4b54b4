-------------------------------- MODULE SimMQ --------------------------------
(***************************************************************************)
(* mq/simmq: an in-process topic.  A topic's queue is created on first use, *)
(* leaves the table when it is closed, and may be created again.  Senders   *)
(* hold the read lock during their select, Close takes the write lock       *)
(* before it closes the channel.                                            *)
(***************************************************************************)
EXTENDS Integers, Sequences, FiniteSets, SequencesExt

CONSTANTS Senders, Consumers, Closers,
          Size,          \* capacity of a channel
          MaxQueues,     \* queues created for the topic, at most
          MaxSends       \* messages of one sender, at most

Procs == Senders \cup Consumers \cup Closers
NoQueue == 0
Queues == 1..MaxQueues
Messages == Senders \X (1..MaxSends)

VARIABLES topicMq,      \* the queue in the table, or NoQueue
          made,         \* queues created so far
          ch, closed, done, chClosed,   \* per queue
          readers,      \* senders that hold the read lock, per queue
          q,            \* the queue a process got from the table
          pc, nsent,
          accepted, received            \* history: messages per queue
vars == <<topicMq, made, ch, closed, done, chClosed, readers, q, pc, nsent, accepted, received>>
queueVars == <<ch, closed, done, chClosed, readers>>
history == <<accepted, received>>

Init ==
    /\ topicMq = NoQueue /\ made = 0
    /\ ch = [m \in Queues |-> <<>>] /\ readers = [m \in Queues |-> {}]
    /\ closed = [m \in Queues |-> FALSE] /\ done = [m \in Queues |-> FALSE]
    /\ chClosed = [m \in Queues |-> FALSE]
    /\ q = [p \in Procs |-> NoQueue] /\ pc = [p \in Procs |-> "idle"]
    /\ nsent = [s \in Senders |-> 0]
    /\ accepted = [m \in Queues |-> <<>>] /\ received = [m \in Queues |-> <<>>]
-----------------------------------------------------------------------------
(* GetTopicProducer and GetTopicConsumer, under topicLock. *)
getTopicMemory(p) ==
    /\ pc[p] = "idle"
    /\ \/ /\ topicMq # NoQueue
          /\ q' = [q EXCEPT ![p] = topicMq]
          /\ UNCHANGED <<topicMq, made>>
       \/ /\ topicMq = NoQueue /\ made < MaxQueues
          /\ made' = made + 1 /\ topicMq' = made + 1
          /\ q' = [q EXCEPT ![p] = made + 1]
    /\ pc' = [pc EXCEPT ![p] = "ready"]
    /\ UNCHANGED <<queueVars, nsent, history>>

(* SendMessage up to the read lock: the flag is read without it. *)
SendCheck(s) ==
    /\ pc[s] = "ready" /\ nsent[s] < MaxSends
    /\ nsent' = [nsent EXCEPT ![s] = @ + 1]
    /\ pc' = [pc EXCEPT ![s] = IF closed[q[s]] THEN "idle" ELSE "lock"]
    /\ UNCHANGED <<topicMq, made, queueVars, q, history>>

WriteLocked(m) == \E c \in Closers : pc[c] = "close" /\ q[c] = m

SendLock(s) ==
    /\ pc[s] = "lock"
    /\ ~WriteLocked(q[s])
    /\ readers' = [readers EXCEPT ![q[s]] = @ \cup {s}]
    /\ pc' = [pc EXCEPT ![s] = "select"]
    /\ UNCHANGED <<topicMq, made, ch, closed, done, chClosed, q, nsent, history>>

(* The select of SendMessage.  Every case that is ready may be chosen; a    *)
(* send on a closed channel is ready and panics.                            *)
SendMessage(s) ==
    LET m == q[s] IN
    /\ pc[s] = "select"
    /\ \/ /\ done[m]
          /\ pc' = [pc EXCEPT ![s] = "idle"]
          /\ UNCHANGED <<ch, accepted>>
       \/ /\ chClosed[m]
          /\ pc' = [pc EXCEPT ![s] = "panic"]
          /\ UNCHANGED <<ch, accepted>>
       \/ /\ ~chClosed[m] /\ Len(ch[m]) < Size
          /\ ch' = [ch EXCEPT ![m] = Append(@, <<s, nsent[s]>>)]
          /\ accepted' = [accepted EXCEPT ![m] = Append(@, <<s, nsent[s]>>)]
          /\ pc' = [pc EXCEPT ![s] = "ready"]
    /\ readers' = [readers EXCEPT ![m] = @ \ {s}]
    /\ UNCHANGED <<topicMq, made, closed, done, chClosed, q, nsent, received>>

(* A closed channel is received from until it is empty; then errClosed, and *)
(* the caller asks for the topic again.                                     *)
Subscribe(c) ==
    LET m == q[c] IN
    /\ pc[c] = "ready"
    /\ \/ /\ ch[m] # <<>>
          /\ received' = [received EXCEPT ![m] = Append(@, Head(ch[m]))]
          /\ ch' = [ch EXCEPT ![m] = Tail(@)]
          /\ UNCHANGED <<pc, q>>
       \/ /\ ch[m] = <<>> /\ chClosed[m]
          /\ pc' = [pc EXCEPT ![c] = "idle"] /\ q' = [q EXCEPT ![c] = NoQueue]
          /\ UNCHANGED <<ch, received>>
    /\ UNCHANGED <<topicMq, made, closed, done, chClosed, readers, nsent, accepted>>

(* Close: the flag, then done, then the table entry, then lock and channel. *)
CloseFlag(c) ==
    /\ pc[c] = "ready"
    /\ closed' = [closed EXCEPT ![q[c]] = TRUE]
    /\ pc' = [pc EXCEPT ![c] = IF closed[q[c]] THEN "idle" ELSE "done"]
    /\ UNCHANGED <<topicMq, made, ch, done, chClosed, readers, q, nsent, history>>

(* The faulty variant: done is closed under the write lock. *)
CloseDoneLocked(c) ==
    /\ pc[c] = "done"
    /\ readers[q[c]] = {}
    /\ done' = [done EXCEPT ![q[c]] = TRUE]
    /\ pc' = [pc EXCEPT ![c] = "fn"]
    /\ UNCHANGED <<topicMq, made, ch, closed, chClosed, readers, q, nsent, history>>

CloseDone(c) ==
    /\ pc[c] = "done"
    /\ done' = [done EXCEPT ![q[c]] = TRUE]
    /\ pc' = [pc EXCEPT ![c] = "fn"]
    /\ UNCHANGED <<topicMq, made, ch, closed, chClosed, readers, q, nsent, history>>

(* fn deletes whatever the table holds for the topic. *)
CloseFn(c) ==
    /\ pc[c] = "fn"
    /\ topicMq' = NoQueue
    /\ pc' = [pc EXCEPT ![c] = "wlock"]
    /\ UNCHANGED <<made, queueVars, q, nsent, history>>

CloseLock(c) ==
    /\ pc[c] = "wlock"
    /\ readers[q[c]] = {}
    /\ pc' = [pc EXCEPT ![c] = "close"]
    /\ UNCHANGED <<topicMq, made, queueVars, q, nsent, history>>

CloseChan(c) ==
    /\ pc[c] = "close"
    /\ chClosed' = [chClosed EXCEPT ![q[c]] = TRUE]
    /\ pc' = [pc EXCEPT ![c] = "idle"]
    /\ UNCHANGED <<topicMq, made, ch, closed, done, readers, q, nsent, history>>
-----------------------------------------------------------------------------
SendStep(s) == SendLock(s) \/ SendMessage(s)
CloseStep(c) == CloseDone(c) \/ CloseFn(c) \/ CloseLock(c) \/ CloseChan(c)

Next ==
    \/ \E p \in Procs : getTopicMemory(p)
    \/ \E s \in Senders : SendCheck(s) \/ SendStep(s)
    \/ \E c \in Consumers : Subscribe(c)
    \/ \E c \in Closers : CloseFlag(c) \/ CloseStep(c)

Spec == Init /\ [][Next]_vars

(* Calls in progress go on.  Nobody has to send, subscribe or close. *)
Fairness ==
    /\ \A s \in Senders : WF_vars(SendStep(s))
    /\ \A c \in Closers : WF_vars(CloseStep(c))
-----------------------------------------------------------------------------
TypeOK ==
    /\ topicMq \in 0..made /\ made \in 0..MaxQueues
    /\ \A m \in Queues : ch[m] \in Seq(Messages) /\ Len(ch[m]) <= Size
    /\ {closed, done, chClosed} \subseteq [Queues -> BOOLEAN]
    /\ readers \in [Queues -> SUBSET Senders]
    /\ q \in [Procs -> 0..made] /\ nsent \in [Senders -> 0..MaxSends]
    /\ pc \in [Procs -> {"idle", "ready", "lock", "select", "panic",
                         "done", "fn", "wlock", "close"}]

(* What SendMessage accepted is received in order and without gaps, across  *)
(* the close as well: the rest is still in the channel.                     *)
AcceptedInOrder == \A m \in Queues : accepted[m] = received[m] \o ch[m]

(* A queue whose channel is closed is not in the table, so a caller that    *)
(* asks for the topic after Close returned gets a working one.              *)
TableIsOpen == topicMq # NoQueue => ~chClosed[topicMq]

(* Two queues of the topic are never both open. *)
OneOpenQueue == \A m, n \in 1..made : ~done[m] /\ ~done[n] => m = n

(* Once a consumer has been told errClosed, the queue it left holds nothing *)
(* and never will.                                                          *)
NothingLeftBehind ==
    [][\A c \in Consumers : q[c] # NoQueue /\ q'[c] = NoQueue =>
          ch[q[c]] = <<>> /\ chClosed[q[c]]]_vars

(* Close returns although a sender is blocked on a full channel with the    *)
(* read lock: done wakes it.                                                *)
CloseReturns == \A c \in Closers : pc[c] \in {"done", "fn", "wlock", "close"} ~> pc[c] = "idle"
=============================================================================
