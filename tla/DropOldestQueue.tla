--------------------------- MODULE DropOldestQueue ---------------------------
(***************************************************************************)
(* What a remote-write queue promises its users (doc comments of           *)
(* internal/remotewrite/queue.go): a bounded FIFO in which a put never     *)
(* blocks, a put on a full queue discards the oldest batch, a closed queue *)
(* takes nothing in but can still be drained.  Queue.tla, the ring buffer  *)
(* with its mutex and condition variable, implements this specification;   *)
(* RemoteWrite.tla is written on top of it.                                *)
(***************************************************************************)
EXTENDS Naturals, Sequences

CONSTANTS
    Batch,      \* the batches that may be put
    Capacity    \* capacity of the queue in batches, at least 1

VARIABLES
    items,      \* buffered batches, oldest first
    closed      \* Close has been called

qvars == <<items, closed>>

Init == items = <<>> /\ closed = FALSE

Full == Len(items) = Capacity

\* Put on an open queue: the oldest batch gives way when the queue is full.
Put(b) ==
    /\ ~closed
    /\ items' = Append(IF Full THEN Tail(items) ELSE items, b)
    /\ UNCHANGED closed

\* Put on a closed queue: the batch is refused and nothing is reported.
Refuse == closed /\ UNCHANGED qvars

Take(b) ==
    /\ items # <<>>
    /\ b = Head(items)
    /\ items' = Tail(items)
    /\ UNCHANGED closed

Shut == closed' = TRUE /\ UNCHANGED items

Next == (\E b \in Batch : Put(b) \/ Take(b)) \/ Refuse \/ Shut

Spec == Init /\ [][Next]_qvars
=============================================================================
