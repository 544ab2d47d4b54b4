----------------------------- MODULE MemoryQueue -----------------------------
(***************************************************************************)
(* mq/memamq: a bounded channel of functions, a fixed set of workers, four  *)
(* ways to push and one to stop.  Closing the channel while a push may      *)
(* still send would panic, so Stop waits until no push is in progress;      *)
(* count is what tells it.  A step is one atomic operation or one select.   *)
(***************************************************************************)
EXTENDS Integers, Sequences, SequencesExt

CONSTANTS Pushers,      \* goroutines, each makes one call
          Stoppers,     \* goroutines that call Stop
          Workers,
          BufferSize,
          BatchSize     \* tasks of one BatchPushCtx

VARIABLES taskChan, closed, isStopped, count,
          pc,       \* of a pusher
          call,     \* the function a pusher calls
          sent,     \* how many of its tasks a pusher has sent
          running,  \* the task a worker executes, NoTask, or "exited"
          done,     \* executed tasks
          stop      \* pc of a stopper

pushVars == <<pc, call, sent>>
vars == <<taskChan, closed, isStopped, count, pc, call, sent, running, done, stop>>

Calls == {"Push", "PushCtx", "BatchPushCtx", "NotWaitPush"}
Results == {"ok", "ErrStop", "ErrFull", "ctx", "panic"}
NoTask == <<>>
Tasks == Pushers \X (1..BatchSize)
Length(k) == IF k = "BatchPushCtx" THEN BatchSize ELSE 1

Init ==
    /\ taskChan = <<>> /\ closed = FALSE /\ isStopped = FALSE /\ count = 0
    /\ pc = [p \in Pushers |-> "idle"] /\ sent = [p \in Pushers |-> 0]
    /\ call = [p \in Pushers |-> "none"]
    /\ running = [w \in Workers |-> NoTask] /\ done = {}
    /\ stop = [s \in Stoppers |-> "idle"]
-----------------------------------------------------------------------------
(* Every push counts itself before it looks at the flag. *)
Enter(p, k) ==
    /\ pc[p] = "idle"
    /\ call' = [call EXCEPT ![p] = k]
    /\ count' = count + 1
    /\ pc' = [pc EXCEPT ![p] = "load"]
    /\ UNCHANGED <<taskChan, closed, isStopped, sent, running, done, stop>>

(* The return with its deferred count.Add(-1). *)
Return(p, res) ==
    /\ count' = count - 1
    /\ pc' = [pc EXCEPT ![p] = res]

Load(p) ==
    /\ pc[p] = "load"
    /\ IF isStopped THEN Return(p, "ErrStop")
                    ELSE pc' = [pc EXCEPT ![p] = "select"] /\ UNCHANGED count
    /\ UNCHANGED <<taskChan, closed, isStopped, call, sent, running, done, stop>>

(* The faulty variant: the buffer is one larger than asked for. *)
SendTaskUnbounded(p) ==
    /\ Len(taskChan) <= BufferSize
    /\ taskChan' = Append(taskChan, <<p, sent[p] + 1>>)
    /\ sent' = [sent EXCEPT ![p] = @ + 1]
    /\ IF sent[p] + 1 = Length(call[p]) THEN Return(p, "ok")
                                        ELSE UNCHANGED <<count, pc>>

(* The send case of a select.  On a closed channel it panics; deferred      *)
(* calls still run.                                                         *)
SendTask(p) ==
    \/ /\ closed
       /\ Return(p, "panic")
       /\ UNCHANGED <<taskChan, sent>>
    \/ /\ ~closed /\ Len(taskChan) < BufferSize
       /\ taskChan' = Append(taskChan, <<p, sent[p] + 1>>)
       /\ sent' = [sent EXCEPT ![p] = @ + 1]
       /\ IF sent[p] + 1 = Length(call[p]) THEN Return(p, "ok")
                                           ELSE UNCHANGED <<count, pc>>

Blocked == ~closed /\ Len(taskChan) = BufferSize

(* A push that cannot send: the timer fires or the default case is taken. *)
GiveUp(p, res) == Blocked /\ Return(p, res) /\ UNCHANGED <<taskChan, sent>>

Selects(p, k) == pc[p] = "select" /\ call[p] = k

Push(p) ==
    /\ Selects(p, "Push")
    /\ SendTask(p) \/ GiveUp(p, "ErrFull")
    /\ UNCHANGED <<closed, isStopped, call, running, done, stop>>

PushCtx(p) ==
    /\ Selects(p, "PushCtx")
    /\ SendTask(p)
    /\ UNCHANGED <<closed, isStopped, call, running, done, stop>>

BatchPushCtx(p) ==
    /\ Selects(p, "BatchPushCtx")
    /\ SendTask(p)
    /\ UNCHANGED <<closed, isStopped, call, running, done, stop>>

(* The context of a push ends; it may have ended before the select, so room *)
(* in the channel does not rule it out.  Nothing obliges it to end.         *)
CtxDone(p) ==
    /\ Selects(p, "PushCtx") \/ Selects(p, "BatchPushCtx")
    /\ Return(p, "ctx")
    /\ UNCHANGED <<taskChan, sent, closed, isStopped, call, running, done, stop>>

NotWaitPush(p) ==
    /\ Selects(p, "NotWaitPush")
    /\ SendTask(p) \/ GiveUp(p, "ErrFull")
    /\ UNCHANGED <<closed, isStopped, call, running, done, stop>>
-----------------------------------------------------------------------------
(* range over the channel: it ends when the channel is closed and empty. *)
WorkerTake(w) ==
    /\ running[w] = NoTask
    /\ \/ /\ taskChan # <<>>
          /\ running' = [running EXCEPT ![w] = Head(taskChan)]
          /\ taskChan' = Tail(taskChan)
       \/ /\ closed /\ taskChan = <<>>
          /\ running' = [running EXCEPT ![w] = <<"exited">>]
          /\ UNCHANGED taskChan
    /\ UNCHANGED <<closed, isStopped, count, pushVars, done, stop>>

WorkerRun(w) ==
    /\ running[w] \in Tasks
    /\ done' = done \cup {running[w]}
    /\ running' = [running EXCEPT ![w] = NoTask]
    /\ UNCHANGED <<taskChan, closed, isStopped, count, pushVars, stop>>

Stop(s) ==
    /\ stop[s] = "idle"
    /\ isStopped' = TRUE
    /\ stop' = [stop EXCEPT ![s] = IF isStopped THEN "late" ELSE "wait"]
    /\ UNCHANGED <<taskChan, closed, count, pushVars, running, done>>

(* The faulty variant: the counter is not waited for. *)
waitSafeCloseAtOnce(s) ==
    /\ stop[s] = "wait"
    /\ stop' = [stop EXCEPT ![s] = "close"]
    /\ UNCHANGED <<taskChan, closed, isStopped, count, pushVars, running, done>>

waitSafeClose(s) ==
    /\ stop[s] = "wait"
    /\ count = 0
    /\ stop' = [stop EXCEPT ![s] = "close"]
    /\ UNCHANGED <<taskChan, closed, isStopped, count, pushVars, running, done>>

CloseChan(s) ==
    /\ stop[s] = "close"
    /\ closed' = TRUE
    /\ stop' = [stop EXCEPT ![s] = "join"]
    /\ UNCHANGED <<taskChan, isStopped, count, pushVars, running, done>>

WaitGroup(s) ==
    /\ stop[s] = "join"
    /\ \A w \in Workers : running[w] = <<"exited">>
    /\ stop' = [stop EXCEPT ![s] = "returned"]
    /\ UNCHANGED <<taskChan, closed, isStopped, count, pushVars, running, done>>
-----------------------------------------------------------------------------
PushStep(p) == Load(p) \/ Push(p) \/ PushCtx(p) \/ BatchPushCtx(p) \/ NotWaitPush(p)
WorkerStep(w) == WorkerTake(w) \/ WorkerRun(w)
StopStep(s) == waitSafeClose(s) \/ CloseChan(s) \/ WaitGroup(s)

Next ==
    \/ \E p \in Pushers : (\E k \in Calls : Enter(p, k)) \/ PushStep(p) \/ CtxDone(p)
    \/ \E w \in Workers : WorkerStep(w)
    \/ \E s \in Stoppers : Stop(s) \/ StopStep(s)

Spec == Init /\ [][Next]_vars

(* Goroutines that have begun run on; tasks end. *)
Fairness ==
    /\ \A p \in Pushers : WF_vars(PushStep(p))
    /\ \A w \in Workers : WF_vars(WorkerStep(w))
    /\ \A s \in Stoppers : WF_vars(StopStep(s))
-----------------------------------------------------------------------------
Accepted == {t \in Tasks : t[2] <= sent[t[1]]}

TypeOK ==
    /\ taskChan \in Seq(Tasks) /\ Len(taskChan) <= BufferSize
    /\ closed \in BOOLEAN /\ isStopped \in BOOLEAN /\ count \in Nat
    /\ pc \in [Pushers -> {"idle", "load", "select"} \cup Results]
    /\ call \in [Pushers -> Calls \cup {"none"}] /\ sent \in [Pushers -> 0..BatchSize]
    /\ running \in [Workers -> Tasks \cup {NoTask, <<"exited">>}]
    /\ done \subseteq Tasks
    /\ stop \in [Stoppers -> {"idle", "late", "wait", "close", "join", "returned"}]

(* No push ever sends on the closed channel: the counter Stop waits for     *)
(* covers every push that saw isStopped unset.                              *)
NoSendOnClosed == \A p \in Pushers : pc[p] # "panic"

(* When the Stop that closed the channel returns, every task a push had     *)
(* accepted has been executed, and no worker is left.                       *)
StopDrains ==
    (\E s \in Stoppers : stop[s] = "returned") => Accepted = done

(* An accepted task is in exactly one place: the channel, a worker's hands, *)
(* or executed.                                                             *)
OnePlace ==
    \A t \in Tasks :
        LET places == {i \in DOMAIN taskChan : taskChan[i] = t}
            hands == {w \in Workers : running[w] = t}
        IN  /\ t \in Accepted <=> (places # {} \/ hands # {} \/ t \in done)
            /\ t \in done => places = {} /\ hands = {}
            /\ places # {} => hands = {}
            /\ \A i, j \in places : i = j

(* The Stop that is to close the channel returns, whatever pushes are in    *)
(* progress and however full the channel is.                                *)
StopReturns == (\E s \in Stoppers : stop[s] = "wait") ~> (\E s \in Stoppers : stop[s] = "returned")
=============================================================================
