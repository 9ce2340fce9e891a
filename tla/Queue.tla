-------------------------------- MODULE Queue --------------------------------
(***************************************************************************)
(* internal/remotewrite/queue.go: the ring buffer, its mutex and condition *)
(* variable, the goroutine every Dequeue starts to turn a cancelled        *)
(* context into a Broadcast, and the observer calls made after the mutex   *)
(* is released.                                                            *)
(*                                                                         *)
(* A section that runs under the mutex is one action, enabled while the    *)
(* mutex is free.  Dequeue is the exception: it is split between the test  *)
(* of the wait condition and cond.Wait, because a context can be cancelled *)
(* (without the mutex) in between, and that is the window in which a       *)
(* wakeup could be lost.                                                   *)
(***************************************************************************)
EXTENDS Naturals, Sequences, FiniteSets

CONSTANTS
    Producer,     \* goroutines calling Enqueue
    Consumer,     \* goroutines calling Dequeue in a loop (Sender.Run)
    Capacity,     \* NewQueue's capacity, after its own clamp to at least 1
    MaxBatches,   \* bound: batches offered in a behaviour
    Nil           \* the nil slot of buf

ASSUME QueueAssumption ==
    /\ Capacity \in Nat \ {0}
    /\ MaxBatches \in Nat
    /\ Nil \notin Nat
    /\ IsFiniteSet(Consumer) /\ Nil \notin Consumer

VARIABLES
    mu,           \* the consumer that holds q.mu between two actions, or Nil
    waiters,      \* consumers parked in cond.Wait and not yet woken
    buf, head, size, closed,
    offered,      \* batches offered so far; batch n is the n-th offered
    ppc,          \* where each producer is in Enqueue
    plen,         \* Enqueue's local `length`
    victim,       \* Enqueue's local `dropped`, Nil if none
    cpc,          \* where each consumer is in Dequeue
    clen,         \* Dequeue's local `length`
    ctxDone,      \* the consumer's context is cancelled
    watching,     \* consumers whose current watcher has not broadcast yet
    lingering,    \* consumers with a watcher left over from an earlier call
    queueLength,  \* gauge: last value an observer call stored
    queueFull     \* counter: batches reported with reason "queue_full"

ring == <<buf, head, size>>
prod == <<ppc, plen, victim>>
cons == <<cpc, clen>>
watch == <<watching, lingering>>
metrics == <<queueLength, queueFull>>
vars == <<mu, waiters, ring, closed, offered, prod, cons, ctxDone, watch, metrics>>

Batch == 1..MaxBatches
Slot == 0..(Capacity - 1)

\* The buffered batches, oldest first.
Contents == [i \in 1..size |-> buf[(head + i - 1) % Capacity]]

TypeOK ==
    /\ mu \in Consumer \cup {Nil}
    /\ waiters \in SUBSET Consumer
    /\ buf \in [Slot -> Batch \cup {Nil}]
    /\ head \in Slot
    /\ size \in 0..Capacity
    /\ closed \in BOOLEAN
    /\ offered \in 0..MaxBatches
    /\ ppc \in [Producer -> {"idle", "onDrop", "onEnqueue"}]
    /\ plen \in [Producer -> 0..Capacity]
    /\ victim \in [Producer -> Batch \cup {Nil}]
    /\ cpc \in [Consumer -> {"idle", "loop", "wait", "parked", "empty", "onDequeue", "done"}]
    /\ clen \in [Consumer -> 0..Capacity]
    /\ ctxDone \in [Consumer -> BOOLEAN]
    /\ watching \in SUBSET Consumer
    /\ lingering \in SUBSET Consumer
    /\ queueLength \in 0..Capacity
    /\ queueFull \in SUBSET Batch

Init ==
    /\ mu = Nil
    /\ waiters = {}
    /\ buf = [i \in Slot |-> Nil]
    /\ head = 0
    /\ size = 0
    /\ closed = FALSE
    /\ offered = 0
    /\ ppc = [p \in Producer |-> "idle"]
    /\ plen = [p \in Producer |-> 0]
    /\ victim = [p \in Producer |-> Nil]
    /\ cpc = [c \in Consumer |-> "idle"]
    /\ clen = [c \in Consumer |-> 0]
    /\ ctxDone = [c \in Consumer |-> FALSE]
    /\ watching = {}
    /\ lingering = {}
    /\ queueLength = 0
    /\ queueFull = {}

-----------------------------------------------------------------------------
(* sync.Cond: Signal wakes one parked goroutine if there is one, Broadcast *)
(* wakes all.  The package does not promise which one Signal picks.        *)

Signal ==
    \/ waiters = {} /\ UNCHANGED waiters
    \/ \E c \in waiters : waiters' = waiters \ {c}

Broadcast == waiters' = {}

-----------------------------------------------------------------------------
(* Enqueue *)

\* Mutant of Advance: the index is not wrapped.
AdvanceUnwrapped(h) == h + 1

Advance(h) == (h + 1) % Capacity

\* Mutant of Clear: the slot keeps its batch alive.
ClearNothing(b, i) == b

\* The slot of a batch that leaves the ring is set to nil.
Clear(b, i) == [b EXCEPT ![i] = Nil]

\* Mutant of TailSlot: one slot too far.
TailSlotOffByOne(h, s) == (h + s + 1) % Capacity

TailSlot(h, s) == (h + s) % Capacity

\* Mutant of Oldest: read after head has moved on.
OldestReadLate == buf[Advance(head)]

Oldest == buf[head]

\* Enqueue on a closed queue returns at once: no error, no observer call.
EnqueueClosed(p) ==
    /\ mu = Nil /\ ppc[p] = "idle" /\ offered < MaxBatches
    /\ closed
    /\ offered' = offered + 1
    /\ UNCHANGED <<mu, waiters, ring, closed, prod, cons, ctxDone, watch, metrics>>

\* Drop the head of a full ring, store at the tail, Signal, unlock.
EnqueueOpen(p) ==
    /\ mu = Nil /\ ppc[p] = "idle" /\ offered < MaxBatches
    /\ ~closed
    /\ LET full == size = Capacity
           h == IF full THEN Advance(head) ELSE head
           s == IF full THEN size - 1 ELSE size
           b == IF full THEN Clear(buf, head) ELSE buf
       IN  /\ head' = h
           /\ buf' = [b EXCEPT ![TailSlot(h, s)] = offered + 1]
           /\ size' = s + 1
           /\ plen' = [plen EXCEPT ![p] = s + 1]
           /\ victim' = [victim EXCEPT ![p] = IF full THEN Oldest ELSE Nil]
           /\ ppc' = [ppc EXCEPT ![p] = IF full THEN "onDrop" ELSE "onEnqueue"]
    /\ offered' = offered + 1
    /\ Signal
    /\ UNCHANGED <<mu, closed, cons, ctxDone, watch, metrics>>

\* observer.OnDrop("queue_full", n), after the unlock.
OnDrop(p) ==
    /\ ppc[p] = "onDrop"
    /\ queueFull' = queueFull \cup {victim[p]}
    /\ victim' = [victim EXCEPT ![p] = Nil]
    /\ ppc' = [ppc EXCEPT ![p] = "onEnqueue"]
    /\ UNCHANGED <<mu, waiters, ring, closed, offered, plen, cons, ctxDone, watch, queueLength>>

\* observer.OnEnqueue(length), after the unlock.
OnEnqueue(p) ==
    /\ ppc[p] = "onEnqueue"
    /\ queueLength' = plen[p]
    /\ ppc' = [ppc EXCEPT ![p] = "idle"]
    /\ plen' = [plen EXCEPT ![p] = 0]
    /\ UNCHANGED <<mu, waiters, ring, closed, offered, victim, cons, ctxDone, watch, queueFull>>

-----------------------------------------------------------------------------
(* Dequeue *)

\* Take the mutex and start this call's watcher.
DequeueLock(c) ==
    /\ mu = Nil /\ cpc[c] = "idle"
    /\ mu' = c
    /\ watching' = watching \cup {c}
    /\ cpc' = [cpc EXCEPT ![c] = "loop"]
    /\ UNCHANGED <<waiters, ring, closed, offered, prod, clen, ctxDone, lingering, metrics>>

MustWait(c) == size = 0 /\ ~closed /\ ~ctxDone[c]

\* The loop condition holds: go on to cond.Wait, mutex still held.
DequeueTest(c) ==
    /\ cpc[c] = "loop" /\ MustWait(c)
    /\ cpc' = [cpc EXCEPT ![c] = "wait"]
    /\ UNCHANGED <<mu, waiters, ring, closed, offered, prod, clen, ctxDone, watch, metrics>>

\* cond.Wait: join the wait set and release the mutex.
CondWait(c) ==
    /\ cpc[c] = "wait"
    /\ waiters' = waiters \cup {c}
    /\ mu' = Nil
    /\ cpc' = [cpc EXCEPT ![c] = "parked"]
    /\ UNCHANGED <<ring, closed, offered, prod, clen, ctxDone, watch, metrics>>

\* Mutant of Awake: the loop condition is tested once, with `if`.
AwakeOnce(c) ==
    /\ cpc[c] = "parked" /\ c \notin waiters /\ mu = Nil
    /\ mu' = IF size = 0 THEN Nil ELSE c
    /\ cpc' = [cpc EXCEPT ![c] = IF size = 0 THEN "empty" ELSE "loop"]
    /\ UNCHANGED <<waiters, ring, closed, offered, prod, clen, ctxDone, watch, metrics>>

\* cond.Wait returns: woken, and the mutex is held again.
Awake(c) ==
    /\ cpc[c] = "parked" /\ c \notin waiters /\ mu = Nil
    /\ mu' = c
    /\ cpc' = [cpc EXCEPT ![c] = "loop"]
    /\ UNCHANGED <<waiters, ring, closed, offered, prod, clen, ctxDone, watch, metrics>>

\* The loop ends and the ring is empty: unlock; the result is chosen next.
DequeueNothing(c) ==
    /\ cpc[c] = "loop" /\ ~MustWait(c) /\ size = 0
    /\ mu' = Nil
    /\ cpc' = [cpc EXCEPT ![c] = "empty"]
    /\ UNCHANGED <<waiters, ring, closed, offered, prod, clen, ctxDone, watch, metrics>>

\* The loop ends and there is a batch: take it even if the context is done.
DequeueTake(c) ==
    /\ cpc[c] = "loop" /\ size > 0
    /\ buf' = Clear(buf, head)
    /\ head' = Advance(head)
    /\ size' = size - 1
    /\ clen' = [clen EXCEPT ![c] = size - 1]
    /\ mu' = Nil
    /\ cpc' = [cpc EXCEPT ![c] = "onDequeue"]
    /\ UNCHANGED <<waiters, closed, offered, prod, ctxDone, watch, metrics>>

\* The deferred close(stopWatch): the watcher may not have seen it yet.
StopWatch(c) ==
    /\ watching' = watching \ {c}
    /\ lingering' = lingering \cup {c}

\* q.closed is read without the mutex: ErrQueueClosed if set, else ctx.Err().
\* Either error ends Sender.Run; nil from ctx.Err() would be a batchless success.
DequeueError(c) ==
    /\ cpc[c] = "empty"
    /\ cpc' = [cpc EXCEPT ![c] = IF closed \/ ctxDone[c] THEN "done" ELSE "idle"]
    /\ StopWatch(c)
    /\ UNCHANGED <<mu, waiters, ring, closed, offered, prod, clen, ctxDone, metrics>>

\* observer.OnDequeue(length), after the unlock; the batch is returned.
OnDequeue(c) ==
    /\ cpc[c] = "onDequeue"
    /\ queueLength' = clen[c]
    /\ clen' = [clen EXCEPT ![c] = 0]
    /\ cpc' = [cpc EXCEPT ![c] = "idle"]
    /\ StopWatch(c)
    /\ UNCHANGED <<mu, waiters, ring, closed, offered, prod, ctxDone, queueFull>>

\* Mutant of WatchCancel: Broadcast without the mutex.
WatchCancelUnlocked(c) ==
    /\ c \in watching /\ ctxDone[c]
    /\ watching' = watching \ {c}
    /\ Broadcast
    /\ UNCHANGED <<mu, ring, closed, offered, prod, cons, ctxDone, lingering, metrics>>

\* The watcher of the call in progress sees ctx.Done: lock, Broadcast, unlock.
WatchCancel(c) ==
    /\ c \in watching /\ ctxDone[c] /\ mu = Nil
    /\ watching' = watching \ {c}
    /\ Broadcast
    /\ UNCHANGED <<mu, ring, closed, offered, prod, cons, ctxDone, lingering, metrics>>

\* A watcher whose call has returned: with both channels ready, its select may
\* still pick ctx.Done and Broadcast.  One element of `lingering` stands for
\* any number of such watchers.
WatchLate(c) ==
    /\ c \in lingering
    /\ \/ lingering' = lingering \ {c} /\ UNCHANGED waiters
       \/ ctxDone[c] /\ mu = Nil /\ Broadcast /\ UNCHANGED lingering
    /\ UNCHANGED <<mu, ring, closed, offered, prod, cons, ctxDone, watching, metrics>>

-----------------------------------------------------------------------------

\* Mutant of Close: Signal in place of Broadcast.
CloseSignals ==
    /\ mu = Nil /\ ~closed
    /\ closed' = TRUE
    /\ Signal
    /\ UNCHANGED <<mu, ring, offered, prod, cons, ctxDone, watch, metrics>>

Close ==
    /\ mu = Nil /\ ~closed
    /\ closed' = TRUE
    /\ Broadcast
    /\ UNCHANGED <<mu, ring, offered, prod, cons, ctxDone, watch, metrics>>

\* The owner of c's context cancels it; no lock is involved.
Cancel(c) ==
    /\ ~ctxDone[c]
    /\ ctxDone' = [ctxDone EXCEPT ![c] = TRUE]
    /\ UNCHANGED <<mu, waiters, ring, closed, offered, prod, cons, watch, metrics>>

ProducerNext(p) == EnqueueClosed(p) \/ EnqueueOpen(p) \/ OnDrop(p) \/ OnEnqueue(p)

ConsumerNext(c) ==
    \/ DequeueLock(c) \/ DequeueTest(c) \/ CondWait(c) \/ Awake(c)
    \/ DequeueNothing(c) \/ DequeueTake(c) \/ DequeueError(c) \/ OnDequeue(c)

WatcherNext(c) == WatchCancel(c) \/ WatchLate(c)

Next ==
    \/ \E p \in Producer : ProducerNext(p)
    \/ \E c \in Consumer : ConsumerNext(c) \/ WatcherNext(c) \/ Cancel(c)
    \/ Close

\* A goroutine inside a call keeps running, and a blocked Lock is eventually
\* granted (sync.Mutex has a starvation mode), hence strong fairness.  Nothing
\* is assumed of callers: no one has to Enqueue, Close or Cancel.
Fairness ==
    /\ \A p \in Producer : WF_vars(OnDrop(p) \/ OnEnqueue(p))
    /\ \A c \in Consumer : SF_vars(ConsumerNext(c)) /\ SF_vars(WatchCancel(c))

Spec == Init /\ [][Next]_vars

FairSpec == Spec /\ Fairness

-----------------------------------------------------------------------------
(* Properties *)

\* The slots outside the window [head, head+size) are nil and the ones inside
\* hold distinct batches: a taken or dropped batch is not kept alive by the
\* ring and none is stored twice.
RingWindow ==
    /\ \A i \in Slot : (buf[i] = Nil) <=> ((i + Capacity - head) % Capacity >= size)
    /\ \A i, j \in 1..size : Contents[i] = Contents[j] => i = j

\* Consumers that will test the loop condition again without another wakeup.
Roused == {c \in Consumer : cpc[c] = "loop" \/ (cpc[c] = "parked" /\ c \notin waiters)}

\* No lost wakeup: while someone is parked, every buffered batch has a roused
\* consumer on its way to it; nobody stays parked on a closed queue; and a
\* parked consumer whose context is done still has its watcher to wake it.
NoLostWakeup ==
    /\ waiters # {} => size <= Cardinality(Roused) /\ ~closed
    /\ \A c \in waiters : ctxDone[c] => c \in watching

\* A Dequeue that leaves the loop without a batch has an error to return, even
\* though it reads q.closed after unlocking: ctx.Err() is never nil there.
EmptyHasError == \A c \in Consumer : cpc[c] = "empty" => closed \/ ctxDone[c]

\* Reported overflow drops are of batches that are gone, and each is reported
\* by exactly one producer: a batch is never dropped and buffered.
DropAccounting ==
    LET reporting == {p \in Producer : victim[p] # Nil}
    IN  /\ \A i \in 1..size : Contents[i] \notin queueFull
        /\ \A p \in reporting : /\ victim[p] \notin queueFull
                                /\ \A i \in 1..size : Contents[i] # victim[p]
        /\ \A p, r \in reporting : victim[p] = victim[r] => p = r

\* A consumer in Dequeue gets out once the queue is closed or its context is
\* cancelled, whatever the others do.
DequeueReturns ==
    \A c \in Consumer : (closed \/ ctxDone[c]) ~> (cpc[c] = "done")

\* What the queue_length help text says of the gauge: with no Enqueue or
\* Dequeue in progress past its critical section it is the number buffered.
GaugeSettles ==
    (/\ \A p \in Producer : ppc[p] = "idle"
     /\ \A c \in Consumer : cpc[c] # "onDequeue")
        => queueLength = size

\* The ring buffer implements the drop-oldest FIFO.
Abstract == INSTANCE DropOldestQueue WITH items <- Contents

ImplementsQueue == Abstract!Spec
=============================================================================
