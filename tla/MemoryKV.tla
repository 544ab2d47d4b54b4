------------------------------- MODULE MemoryKV -------------------------------
(***************************************************************************)
(* discovery/inprocess memory_kv.go: a map with leases and watchers.  A     *)
(* write holds the mutex from the change of the map until the last watcher  *)
(* has been signalled; what follows the unlock (cancelling the old lease)   *)
(* and what runs beside it (timers, watchers) interleaves.                  *)
(***************************************************************************)
EXTENDS Integers, Sequences

CONSTANTS Keys, Watchers,
          Full,        \* watchers with the empty prefix
          Prefixed,    \* the keys with the prefix of the others
          MaxSets,     \* values set, at most; a value is its number
          MaxWatches   \* calls of WatchKey, at most

VARIABLES items,     \* [Keys -> [val, lease]], val 0 for no entry, lease 0 for none
          sets,      \* number of values set
          lease,     \* of a value: none, live, fired, cancelled, done
          toCancel,  \* leases to cancel after the unlock
          signal,    \* watchers to signal under the mutex: not empty while it is held
          closing,   \* watchers close has still to cancel
          sub,       \* [Watchers -> [pc, on, queue, batch, notify, cancelled]]
          watches,
          view,      \* history: the map as the handler of a watcher saw it
          kept       \* history: keys last set without a lease and not deleted since

vars == <<items, sets, lease, toCancel, signal, closing, sub, watches, view, kept>>

Values == 1..MaxSets
Prefix == [w \in Watchers |-> IF w \in Full THEN Keys ELSE Prefixed]
NoEntry == [val |-> 0, lease |-> 0]
Empty == [k \in Keys |-> 0]
IdleSub == [pc |-> "idle", on |-> FALSE, queue |-> <<>>, batch |-> <<>>, notify |-> FALSE, cancelled |-> FALSE]

Init ==
    /\ items = [k \in Keys |-> NoEntry] /\ sets = 0 /\ watches = 0
    /\ lease = [v \in Values |-> "none"] /\ toCancel = {} /\ signal = {} /\ closing = {}
    /\ sub = [w \in Watchers |-> IdleSub] /\ view = [w \in Watchers |-> Empty] /\ kept = {}

Unlocked == signal = {}

(* publishWatchEventLocked: an event <<key, value>>, value 0 for a          *)
(* deletion, in the queue of every subscriber with the prefix.              *)
publishWatchEventLocked(k, v) ==
    LET to == {w \in Watchers : sub[w].on /\ k \in Prefix[w]} IN
    /\ sub' = [w \in Watchers |-> IF w \in to THEN [sub[w] EXCEPT !.queue = Append(sub[w].queue, <<k, v>>)] ELSE sub[w]]
    /\ signal' = to

(* The end of enqueue: a send on a channel of one that never blocks. *)
enqueueNotify(w) ==
    /\ w \in signal /\ signal' = signal \ {w}
    /\ sub' = [sub EXCEPT ![w].notify = TRUE]
    /\ UNCHANGED <<items, sets, lease, toCancel, closing, watches, view, kept>>

(* SetKey and SetWithLease. *)
setValue(k, leased) ==
    LET v == sets + 1
        old == items[k].lease
    IN
    /\ Unlocked /\ sets < MaxSets
    /\ sets' = v
    /\ items' = [items EXCEPT ![k] = [val |-> v, lease |-> IF leased THEN v ELSE 0]]
    /\ lease' = [lease EXCEPT ![v] = IF leased THEN "live" ELSE "none"]
    /\ toCancel' = toCancel \cup ({old} \ {0})
    /\ publishWatchEventLocked(k, v)
    /\ kept' = IF leased THEN kept \ {k} ELSE kept \cup {k}
    /\ UNCHANGED <<closing, watches, view>>

deleteKey(k) ==
    /\ Unlocked /\ items[k] # NoEntry
    /\ items' = [items EXCEPT ![k] = NoEntry]
    /\ toCancel' = toCancel \cup ({items[k].lease} \ {0})
    /\ publishWatchEventLocked(k, 0)
    /\ kept' = kept \ {k}
    /\ UNCHANGED <<sets, lease, closing, watches, view>>

(* After the unlock: the context of the old lease ends.  A timer that has   *)
(* fired before does not see it.                                            *)
cancelLease(v) ==
    /\ v \in toCancel /\ toCancel' = toCancel \ {v}
    /\ lease' = [lease EXCEPT ![v] = IF lease[v] = "live" THEN "cancelled" ELSE lease[v]]
    /\ UNCHANGED <<items, sets, signal, closing, sub, watches, view, kept>>

(* expireAfter: the timer of a lease that has not been cancelled. *)
expireAfter(v) ==
    /\ lease[v] = "live" /\ lease' = [lease EXCEPT ![v] = "fired"]
    /\ UNCHANGED <<items, sets, toCancel, signal, closing, sub, watches, view, kept>>

LeasedKey(v) == {k \in Keys : items[k].lease = v}

deleteIfLeaseMatches(v) ==
    /\ Unlocked /\ lease[v] = "fired" /\ lease' = [lease EXCEPT ![v] = "done"]
    /\ \/ \E k \in LeasedKey(v) : items' = [items EXCEPT ![k] = NoEntry] /\ publishWatchEventLocked(k, 0)
       \/ LeasedKey(v) = {} /\ UNCHANGED <<items, sub, signal>>
    /\ UNCHANGED <<sets, toCancel, closing, watches, view, kept>>

(* close drops items and subscribers, and cancels both after the unlock. *)
close ==
    /\ Unlocked /\ \E w \in Watchers : sub[w].on
    /\ items' = [k \in Keys |-> NoEntry]
    /\ toCancel' = toCancel \cup ({items[k].lease : k \in Keys} \ {0})
    /\ closing' = closing \cup {w \in Watchers : sub[w].on}
    /\ sub' = [w \in Watchers |-> [sub[w] EXCEPT !.on = FALSE]]
    /\ kept' = {}
    /\ UNCHANGED <<sets, lease, signal, watches, view>>

(* The context of one subscriber ends; it may have returned already. *)
closeCancel(w) ==
    /\ w \in closing /\ closing' = closing \ {w}
    /\ sub' = [sub EXCEPT ![w].cancelled = (sub[w].pc # "idle")]
    /\ UNCHANGED <<items, sets, lease, toCancel, signal, watches, view, kept>>
-----------------------------------------------------------------------------
(* addSubscriber; the watcher starts from the map of this moment. *)
addSubscriber(w) ==
    /\ Unlocked /\ sub[w].pc = "idle" /\ w \notin closing /\ watches < MaxWatches
    /\ watches' = watches + 1
    /\ sub' = [sub EXCEPT ![w] = [IdleSub EXCEPT !.pc = "wait", !.on = TRUE]]
    /\ view' = [view EXCEPT ![w] = [k \in Keys |-> IF k \in Prefix[w] THEN items[k].val ELSE 0]]
    /\ UNCHANGED <<items, sets, lease, toCancel, signal, closing, kept>>

(* WatchKey receives the notification and takes the whole queue. *)
take(w) ==
    /\ sub[w].pc = "wait" /\ sub[w].notify
    /\ sub' = [sub EXCEPT ![w].notify = FALSE, ![w].pc = "handle",
                          ![w].batch = sub[w].queue, ![w].queue = <<>>]
    /\ UNCHANGED <<items, sets, lease, toCancel, signal, closing, watches, view, kept>>

(* The handler of one event, and back to the select after the last. *)
handle(w) ==
    /\ sub[w].pc = "handle" /\ sub[w].batch # <<>>
    /\ LET e == Head(sub[w].batch) IN view' = [view EXCEPT ![w][e[1]] = e[2]]
    /\ sub' = [sub EXCEPT ![w].batch = Tail(sub[w].batch)]
    /\ UNCHANGED <<items, sets, lease, toCancel, signal, closing, watches, kept>>

handled(w) ==
    /\ sub[w].pc = "handle" /\ sub[w].batch = <<>>
    /\ sub' = [sub EXCEPT ![w].pc = "wait"]
    /\ UNCHANGED <<items, sets, lease, toCancel, signal, closing, watches, view, kept>>

(* WatchKey ends: its context is done the caller's or by close, or the      *)
(* handler failed, which drops the rest of the batch.  removeSubscriber     *)
(* locks.                                                                   *)
watchEnds(w) ==
    /\ Unlocked
    /\ \/ sub[w].pc = "wait"
       \/ sub[w].pc = "handle" /\ sub[w].batch # <<>>
    /\ sub' = [sub EXCEPT ![w] = IdleSub]
    /\ UNCHANGED <<items, sets, lease, toCancel, signal, closing, watches, view, kept>>
-----------------------------------------------------------------------------
Next ==
    \/ \E k \in Keys : deleteKey(k) \/ \E leased \in BOOLEAN : setValue(k, leased)
    \/ \E v \in Values : cancelLease(v) \/ expireAfter(v) \/ deleteIfLeaseMatches(v)
    \/ \E w \in Watchers : \/ enqueueNotify(w) \/ addSubscriber(w) \/ take(w) \/ handle(w)
                           \/ handled(w) \/ watchEnds(w) \/ closeCancel(w)
    \/ close

Spec == Init /\ [][Next]_vars

(* Goroutines that can run do, timers fire, and handlers return. *)
Fairness ==
    /\ \A v \in Values : WF_vars(cancelLease(v)) /\ WF_vars(expireAfter(v)) /\ SF_vars(deleteIfLeaseMatches(v))
    /\ \A w \in Watchers : /\ WF_vars(enqueueNotify(w)) /\ WF_vars(closeCancel(w))
                           /\ WF_vars(take(w)) /\ WF_vars(handle(w)) /\ WF_vars(handled(w))
                           /\ SF_vars(watchEnds(w) /\ sub[w].cancelled)
-----------------------------------------------------------------------------
TypeOK ==
    /\ items \in [Keys -> [val : 0..MaxSets, lease : 0..MaxSets]] /\ sets \in 0..MaxSets
    /\ lease \in [Values -> {"none", "live", "fired", "cancelled", "done"}]
    /\ toCancel \subseteq Values /\ signal \subseteq Watchers /\ closing \subseteq Watchers
    /\ \A w \in Watchers : /\ sub[w].pc \in {"idle", "wait", "handle"}
                           /\ sub[w].pc = "idle" => sub[w] = IdleSub
    /\ kept \subseteq Keys

(* The last event of a key among those a watcher has still to handle, or    *)
(* the value its handler saw last if there is none, is value.               *)
Leads(w, k, value) ==
    LET events == sub[w].batch \o sub[w].queue IN
    \/ view[w][k] = value /\ \A i \in DOMAIN events : events[i][1] # k
    \/ \E i \in DOMAIN events : events[i] = <<k, value>> /\ \A j \in DOMAIN events : j > i => events[j][1] # k

(* A subscriber that handles what it has been given ends up with the map:   *)
(* no change is missed, doubled or out of order, lease expiry included.     *)
ViewFollows ==
    \A w \in Watchers : sub[w].on =>
        \A k \in Keys : Leads(w, k, IF k \in Prefix[w] THEN items[k].val ELSE 0)

(* A value set without a lease stays until it is set or deleted by a call,  *)
(* whatever timers of earlier leases fire.                                  *)
StaleLeaseHarmless == \A k \in kept : items[k] # NoEntry

(* A watcher with events queued has been, or is about to be, woken. *)
NoLostWakeup ==
    \A w \in Watchers : sub[w].pc = "wait" /\ sub[w].queue # <<>> => sub[w].notify \/ w \in signal

(* A watcher subscribed when the registry closes returns. *)
CloseEndsWatchers == \A w \in Watchers : (sub[w].pc # "idle" /\ ~sub[w].on) ~> sub[w].pc = "idle"
=============================================================================
