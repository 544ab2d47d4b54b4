---------------------------- MODULE EtcdWatchKey ----------------------------
(***************************************************************************)
(* discovery/etcd watch_key.go: the WatchKey calls on one key share an      *)
(* entry, whose goroutine watches etcd and pushes each event to the         *)
(* bounded queues of its subscribers.  An entry ends with its last          *)
(* subscriber or with the hub, and is then replaced by a new one.           *)
(***************************************************************************)
EXTENDS Integers, Sequences, FiniteSets

CONSTANTS Subs,          \* WatchKey calls
          MaxEntries, MaxRev, MaxFaults,
          Cap            \* of a subscriber's channel (16 in the code)

Entries == 1..MaxEntries
None == 0

VARIABLES rev,                       \* events that happened to the key
          watchEntry, made, cancelled, subs,
          run,                       \* each entry's goroutine: [pc, seen, left]
          skipped,                   \* history: events that fell into a reconnection
          sub,                       \* each call: [pc, entry, events, done, caller]
          handled,                   \* history: the events each call has handled
          faults

vars == <<rev, watchEntry, made, cancelled, subs, run, skipped, sub, handled, faults>>

Init ==
    /\ rev = 0 /\ watchEntry = None /\ made = 0 /\ cancelled = {} /\ subs = [e \in Entries |-> {}]
    /\ run = [e \in Entries |-> [pc |-> "none", seen |-> 0, left |-> {}]]
    /\ skipped = [e \in Entries |-> {}]
    /\ sub = [s \in Subs |-> [pc |-> "idle", entry |-> None, events |-> <<>>, done |-> FALSE, caller |-> FALSE]]
    /\ handled = [s \in Subs |-> <<>>] /\ faults = 0

SetSub(s, pc) == sub' = [sub EXCEPT ![s].pc = pc]
Done(s) == sub[s].done \/ sub[s].caller
(* The map forgets the entry if it still holds it, and the entry is cancelled. *)
Drop(e) ==
    /\ watchEntry' = IF watchEntry = e THEN None ELSE watchEntry
    /\ cancelled' = cancelled \cup {e}
-----------------------------------------------------------------------------
Event == rev < MaxRev /\ rev' = rev + 1
         /\ UNCHANGED <<watchEntry, made, cancelled, subs, run, skipped, sub, handled, faults>>

CallerCancels(s) ==
    /\ sub[s].pc \notin {"idle", "end"} /\ sub' = [sub EXCEPT ![s].caller = TRUE]
    /\ UNCHANGED <<rev, watchEntry, made, cancelled, subs, run, skipped, handled, faults>>

(* WatchKey begins: the entry in the map, or a new one with its goroutine. *)
getOrCreateWatchKeyEntry(s) ==
    /\ sub[s].pc = "idle"
    /\ \/ /\ watchEntry # None
          /\ sub' = [sub EXCEPT ![s].pc = "add", ![s].entry = watchEntry]
          /\ UNCHANGED <<watchEntry, made, run>>
       \/ /\ watchEntry = None /\ made < MaxEntries
          /\ made' = made + 1 /\ watchEntry' = made + 1
          /\ sub' = [sub EXCEPT ![s].pc = "add", ![s].entry = made + 1]
          /\ run' = [run EXCEPT ![made + 1].pc = "start"]
    /\ UNCHANGED <<rev, cancelled, subs, skipped, handled, faults>>

(* The entry may have been cancelled since it was looked up. *)
addSubscriber(s) ==
    /\ sub[s].pc = "add" /\ SetSub(s, "loop")
    /\ subs' = [subs EXCEPT ![sub[s].entry] = @ \cup {s}]
    /\ UNCHANGED <<rev, watchEntry, made, cancelled, run, skipped, handled, faults>>

(* The loop of WatchKey; an event is handled, or the handler fails. *)
WatchKey(s) ==
    /\ sub[s].pc = "loop"
    /\ \/ Done(s) /\ SetSub(s, "remove") /\ UNCHANGED handled
       \/ /\ sub[s].events # <<>>
          /\ handled' = [handled EXCEPT ![s] = Append(@, Head(sub[s].events))]
          /\ \E failed \in BOOLEAN :
                sub' = [sub EXCEPT ![s].pc = IF failed THEN "remove" ELSE "loop", ![s].events = Tail(@)]
    /\ UNCHANGED <<rev, watchEntry, made, cancelled, subs, run, skipped, faults>>

(* removeWatchKeySubscriber, deferred: sub.cancel and removeSubscriber, *)
removeSubscriber(s) ==
    /\ sub[s].pc = "remove"
    /\ subs' = [subs EXCEPT ![sub[s].entry] = @ \ {s}]
    /\ sub' = [sub EXCEPT ![s].done = TRUE, ![s].pc = IF subs'[sub[s].entry] = {} THEN "drop" ELSE "end"]
    /\ UNCHANGED <<rev, watchEntry, made, cancelled, run, skipped, handled, faults>>

(* and, if that was the last one, the end of the entry. *)
removeWatchKeySubscriber(s) ==
    /\ sub[s].pc = "drop" /\ SetSub(s, "end") /\ Drop(sub[s].entry)
    /\ UNCHANGED <<rev, made, subs, run, skipped, handled, faults>>

stopKeyWatches ==
    /\ watchEntry # None /\ Drop(watchEntry)
    /\ UNCHANGED <<rev, made, subs, run, skipped, sub, handled, faults>>
-----------------------------------------------------------------------------
SetRun(e, pc) == run' = [run EXCEPT ![e].pc = pc]

(* run: a watch that begins now (no revision is given), or a failure. *)
runWatch(e) ==
    /\ run[e].pc = "start" /\ e \notin cancelled
    /\ \/ /\ run' = [run EXCEPT ![e].pc = "watch", ![e].seen = rev] /\ UNCHANGED faults
          /\ skipped' = [skipped EXCEPT ![e] = @ \cup (run[e].seen + 1)..rev]
       \/ faults < MaxFaults /\ faults' = faults + 1 /\ SetRun(e, "sleep") /\ UNCHANGED skipped
    /\ UNCHANGED <<rev, watchEntry, made, cancelled, subs, sub, handled>>

runReconnect(e) ==
    /\ e \notin cancelled
    /\ \/ run[e].pc = "watch" /\ faults < MaxFaults /\ faults' = faults + 1 /\ SetRun(e, "sleep")
       \/ run[e].pc = "sleep" /\ SetRun(e, "start") /\ UNCHANGED faults
    /\ UNCHANGED <<rev, watchEntry, made, cancelled, subs, skipped, sub, handled>>

(* broadcast: the subscribers of the moment. *)
broadcast(e) ==
    /\ run[e].pc = "watch" /\ run[e].seen < rev
    /\ run' = [run EXCEPT ![e] = [pc |-> "push", seen |-> @.seen + 1, left |-> subs[e]]]
    /\ UNCHANGED <<rev, watchEntry, made, cancelled, subs, skipped, sub, handled, faults>>

(* push blocks on a full queue until its subscriber is done; such a one is  *)
(* removed, and the last one takes the entry with it.                       *)
push(e, s) ==
    /\ run[e].pc = "push" /\ s \in run[e].left
    /\ \/ /\ ~Done(s) /\ Len(sub[s].events) < Cap
          /\ sub' = [sub EXCEPT ![s].events = Append(@, run[e].seen)]
          /\ run' = [run EXCEPT ![e].left = @ \ {s}] /\ UNCHANGED subs
       \/ /\ Done(s) /\ sub' = [sub EXCEPT ![s].done = TRUE]
          /\ subs' = [subs EXCEPT ![e] = @ \ {s}]
          /\ run' = [run EXCEPT ![e].left = @ \ {s}, ![e].pc = IF subs'[e] = {} THEN "drop" ELSE @]
    /\ UNCHANGED <<rev, watchEntry, made, cancelled, skipped, handled, faults>>

pushDrop(e) ==
    /\ run[e].pc = "drop" /\ SetRun(e, "push") /\ Drop(e)
    /\ UNCHANGED <<rev, made, subs, skipped, sub, handled, faults>>

pushed(e) ==
    /\ run[e].pc = "push" /\ run[e].left = {} /\ SetRun(e, "watch")
    /\ UNCHANGED <<rev, watchEntry, made, cancelled, subs, skipped, sub, handled, faults>>

(* A cancelled entry ends its subscribers, *)
closeSubscribers(e) ==
    /\ e \in cancelled /\ run[e].pc \in {"start", "watch", "sleep"} /\ SetRun(e, "closing")
    /\ sub' = [s \in Subs |-> IF s \in subs[e] THEN [sub[s] EXCEPT !.done = TRUE] ELSE sub[s]]
    /\ UNCHANGED <<rev, watchEntry, made, cancelled, subs, skipped, handled, faults>>

(* and leaves the map if it is still there. *)
removeWatchKeyEntry(e) ==
    /\ run[e].pc = "closing" /\ SetRun(e, "end")
    /\ watchEntry' = IF watchEntry = e THEN None ELSE watchEntry
    /\ UNCHANGED <<rev, made, cancelled, subs, skipped, sub, handled, faults>>
-----------------------------------------------------------------------------
Calling(s) == getOrCreateWatchKeyEntry(s) \/ addSubscriber(s) \/ WatchKey(s) \/ removeSubscriber(s) \/ removeWatchKeySubscriber(s)
Running(e) == runWatch(e) \/ runReconnect(e) \/ broadcast(e) \/ (\E s \in Subs : push(e, s))
              \/ pushDrop(e) \/ pushed(e) \/ closeSubscribers(e) \/ removeWatchKeyEntry(e)

Next ==
    \/ Event \/ stopKeyWatches
    \/ \E s \in Subs : Calling(s) \/ CallerCancels(s)
    \/ \E e \in Entries : Running(e)

Spec == Init /\ [][Next]_vars

(* Goroutines go on and handlers return. *)
Fairness == /\ \A s \in Subs : WF_vars(Calling(s))
            /\ \A e \in Entries : WF_vars(Running(e))
-----------------------------------------------------------------------------
(* A goroutine whose entry has left the map is cancelled, or the call that  *)
(* took it out is about to: no watch of etcd is left behind.                *)
NoOrphan == \A e \in 1..made : run[e].pc # "end" /\ e # watchEntry => e \in cancelled

(* A subscriber handles every event between two that it handled, but for    *)
(* those that fell into a reconnection of its entry, and in order.          *)
NoGap ==
    \A s \in Subs : \A i \in 1..(Len(handled[s]) - 1) :
        /\ handled[s][i] < handled[s][i + 1]
        /\ (handled[s][i] + 1)..(handled[s][i + 1] - 1) \subseteq skipped[sub[s].entry]

(* A slow subscriber, or one that left, does not stop the goroutine for good. *)
PushReturns == \A e \in Entries : (run[e].pc = "push") ~> (run[e].pc # "push")
=============================================================================
