------------------------------ MODULE BoundQueue ------------------------------
(***************************************************************************)
(* queue/bound: a FIFO queue with a capacity that ForcePush may exceed.     *)
(* Each operation holds the queue's own lock, so each is one function of    *)
(* the items.  equalDataFunc is equality.                                   *)
(***************************************************************************)
EXTENDS Integers, Sequences
S == INSTANCE SequencesExt

Full(items, capacity) == Len(items) >= capacity

(* ErrQueueFull leaves the queue as it is. *)
Push(items, capacity, item) ==
    IF Full(items, capacity) THEN items ELSE Append(items, item)

ForcePush(items, item) == Append(items, item)

(* Pop of a queue that is not empty: the item and the rest. *)
Pop(items) == [item |-> Head(items), rest |-> Tail(items)]

Contains(items, item) == \E i \in DOMAIN items : items[i] = item

(* 0-based position of the first equal item, -1 if there is none. *)
Peek(items, item) ==
    IF Contains(items, item)
    THEN (CHOOSE i \in DOMAIN items : items[i] = item /\ \A j \in 1..(i - 1) : items[j] # item) - 1
    ELSE -1

(* The first equal item, or nothing. *)
Remove(items, item) ==
    IF Contains(items, item) THEN S!RemoveAt(items, Peek(items, item) + 1) ELSE items
=============================================================================
