---------------------------- MODULE QueueProofs ----------------------------
(***************************************************************************)
(* Queue.tla for every number of producers and consumers and every         *)
(* capacity: type correctness, the ring buffer's window, the accounting of *)
(* overflow drops, the proof that the ring implements DropOldestQueue, and *)
(* the proof that no wakeup is lost.                                       *)
(*                                                                         *)
(* None of these is inductive by itself.  That OnDrop reports a batch and  *)
(* not nil needs the window (a full ring has no nil slot); that it reports *)
(* a batch once needs the order of the batches (whatever was dropped is    *)
(* older than whatever is buffered).  IInv is their joint strengthening.   *)
(***************************************************************************)
EXTENDS Queue, TLAPS, FiniteSetTheorems

-----------------------------------------------------------------------------
(* Arithmetic of ring indices, without % *)

Wrap(a) == IF a < Capacity THEN a ELSE a - Capacity

\* The number of steps from slot h to slot i, going round the ring.
Offset(h, i) == IF i >= h THEN i - h ELSE i + Capacity - h

\* % is Wrap on sums of two indices: the ring's arithmetic stays linear.
LEMMA ModIsWrap == \A a \in 0..(2 * Capacity - 1) : a % Capacity = Wrap(a)
<1>1. \A a \in Nat : a < Capacity => a % Capacity = a
  BY QueueAssumption
<1>2. \A a \in Nat : Capacity <= a /\ a < 2 * Capacity => a % Capacity = a - Capacity
  BY QueueAssumption
<1> QED
  BY <1>1, <1>2, QueueAssumption DEF Wrap

\* Advance moves one slot on.
LEMMA AdvanceIsWrap == \A h \in Slot : Advance(h) = Wrap(h + 1) /\ Advance(h) \in Slot
<1> TAKE h \in Slot
<1>1. h + 1 \in 0..(2 * Capacity - 1)
  BY QueueAssumption DEF Slot
<1> QED
  BY <1>1, ModIsWrap, QueueAssumption DEF Advance, Slot, Wrap

\* The tail slot is size slots after head.
LEMMA TailIsWrap ==
  \A h \in Slot, s \in Slot : TailSlot(h, s) = Wrap(h + s) /\ TailSlot(h, s) \in Slot
<1> TAKE h \in Slot, s \in Slot
<1>1. h + s \in 0..(2 * Capacity - 1)
  BY QueueAssumption DEF Slot
<1> QED
  BY <1>1, ModIsWrap, QueueAssumption DEF TailSlot, Slot, Wrap

-----------------------------------------------------------------------------
(* The inductive invariant *)

\* Exactly the slots of the window hold a batch.
Window == \A i \in Slot : (buf[i] = Nil) <=> (Offset(head, i) >= size)

\* Batches are buffered in the order they were offered.
Ordered ==
    /\ \A i, j \in Slot : Offset(head, i) < Offset(head, j) /\ Offset(head, j) < size
                              => buf[i] < buf[j]
    /\ \A i \in Slot : Offset(head, i) < size => buf[i] <= offered

\* A producer has a victim exactly while it still has to report it.
VictimHeld == \A p \in Producer : (ppc[p] = "onDrop") <=> (victim[p] # Nil)

\* Every dropped batch, reported or not, is older than every buffered one, and
\* is either reported or held by one producer.
DroppedFirst ==
    /\ \A b \in queueFull : b <= offered
    /\ \A b \in queueFull, i \in Slot : Offset(head, i) < size => b < buf[i]
    /\ \A p \in Producer : victim[p] # Nil =>
          /\ victim[p] <= offered /\ victim[p] \notin queueFull
          /\ \A i \in Slot : Offset(head, i) < size => victim[p] < buf[i]
          /\ \A r \in Producer : victim[r] = victim[p] => r = p

IInv == TypeOK /\ Window /\ Ordered /\ VictimHeld /\ DroppedFirst

-----------------------------------------------------------------------------
(* What the three actions that touch the ring do to it *)

\* A store at the tail of a ring that is not full.
LEMMA StoreStep ==
  ASSUME IInv, NEW p \in Producer, EnqueueOpen(p), size # Capacity
  PROVE  /\ TailSlot(head, size) \in Slot
         /\ head' = head /\ size' = size + 1
         /\ buf' = [buf EXCEPT ![TailSlot(head, size)] = offered + 1]
         /\ \A i \in Slot : (Offset(head, i) = size) <=> (i = TailSlot(head, size))
<1>1. size \in Slot /\ head \in Slot
  BY QueueAssumption DEF IInv, TypeOK, Slot
<1>2. TailSlot(head, size) = Wrap(head + size) /\ TailSlot(head, size) \in Slot
  BY <1>1, TailIsWrap
<1>3. \A i \in Slot : (Offset(head, i) = size) <=> (i = TailSlot(head, size))
  BY <1>1, <1>2, QueueAssumption DEF Offset, Wrap, Slot
<1> QED
  BY <1>2, <1>3 DEF EnqueueOpen

\* Moving head on by one brings every other slot one step nearer.
LEMMA OffsetStep ==
  ASSUME IInv
  PROVE  /\ \A i \in Slot : Offset(head, i) \in Slot
         /\ \A i \in Slot : Offset(head, i) = 0 <=> i = head
         /\ \A i \in Slot \ {head} : Offset(Advance(head), i) = Offset(head, i) - 1
         /\ Offset(Advance(head), head) = Capacity - 1
<1>1. head \in Slot
  BY DEF IInv, TypeOK
<1>2. Advance(head) = Wrap(head + 1)
  BY <1>1, AdvanceIsWrap
<1> QED
  BY <1>1, <1>2, QueueAssumption DEF Offset, Wrap, Slot

\* A store into a full ring overwrites the head slot.
LEMMA OverwriteStep ==
  ASSUME IInv, NEW p \in Producer, EnqueueOpen(p), size = Capacity
  PROVE  /\ head' = Advance(head) /\ size' = Capacity
         /\ buf' = [buf EXCEPT ![head] = offered + 1]
<1>1. head \in Slot /\ Advance(head) \in Slot /\ Advance(head) = Wrap(head + 1)
  BY AdvanceIsWrap DEF IInv, TypeOK
<1>2. Capacity - 1 \in Slot
  BY QueueAssumption DEF Slot
<1>3. TailSlot(Advance(head), Capacity - 1) = Wrap(Advance(head) + (Capacity - 1))
  BY <1>1, <1>2, TailIsWrap
<1>4. TailSlot(Advance(head), Capacity - 1) = head
  BY <1>1, <1>3, QueueAssumption DEF Wrap, Slot
<1>5. /\ head' = Advance(head) /\ size' = Capacity - 1 + 1
      /\ buf' = [[buf EXCEPT ![head] = Nil] EXCEPT ![head] = offered + 1]
  BY <1>4 DEF EnqueueOpen, Clear
<1> QED
  BY <1>1, <1>5, QueueAssumption DEF IInv, TypeOK

\* Slots inside the window hold numbered batches, the others nil.
LEMMA InWindow ==
  ASSUME IInv
  PROVE  /\ size \in Nat /\ Capacity \in Nat /\ size <= Capacity
         /\ \A i \in Slot : Offset(head, i) \in Nat /\ Offset(head, i) < Capacity
         /\ \A i \in Slot : Offset(head, i) < size => buf[i] \in Batch /\ buf[i] \in Nat /\ buf[i] # Nil
         /\ \A i \in Slot : ~(Offset(head, i) < size) => buf[i] = Nil
<1>1. size \in Nat /\ Capacity \in Nat /\ size <= Capacity
  BY QueueAssumption DEF IInv, TypeOK
<1>2. \A i \in Slot : Offset(head, i) \in Nat /\ Offset(head, i) < Capacity
  BY OffsetStep, QueueAssumption DEF Slot
<1>3. \A i \in Slot : buf[i] \in Batch \cup {Nil}
  BY DEF IInv, TypeOK
<1>4. \A i \in Slot : (buf[i] = Nil) <=> ~(Offset(head, i) < size)
  BY <1>1, <1>2 DEF IInv, Window
<1>5. \A b \in Batch : b \in Nat
  BY QueueAssumption DEF Batch
<1> QED
  BY <1>1, <1>2, <1>3, <1>4, <1>5

-----------------------------------------------------------------------------
(* Preservation *)

\* The types after an Enqueue on an open queue.
LEMMA EnqueueTypes ==
  ASSUME IInv, NEW p \in Producer, EnqueueOpen(p)
  PROVE  TypeOK'
<1> USE QueueAssumption DEF IInv, TypeOK, Batch
<1>1. offered + 1 \in 1..MaxBatches
  BY DEF EnqueueOpen
<1>2. head' \in Slot /\ size' \in 0..Capacity /\ buf' \in [Slot -> 1..MaxBatches \cup {Nil}]
  <2>1. CASE size = Capacity
    BY <1>1, <2>1, OverwriteStep, AdvanceIsWrap
  <2>2. CASE size # Capacity
    BY <1>1, <2>2, StoreStep
  <2> QED
    BY <2>1, <2>2
<1>3. plen' \in [Producer -> 0..Capacity] /\ ppc' \in [Producer -> {"idle", "onDrop", "onEnqueue"}]
  BY DEF EnqueueOpen
<1>4. victim' \in [Producer -> 1..MaxBatches \cup {Nil}]
  BY DEF EnqueueOpen, Oldest
<1>5. offered' \in 0..MaxBatches /\ waiters' \in SUBSET Consumer
  BY DEF EnqueueOpen, Signal
<1> QED
  BY <1>2, <1>3, <1>4, <1>5 DEF EnqueueOpen, cons, watch, metrics

\* Enqueue on an open queue.
LEMMA EnqueueKeeps ==
  ASSUME IInv, NEW p \in Producer, EnqueueOpen(p)
  PROVE  IInv'
<1> USE QueueAssumption
<1>1. TypeOK'
  BY EnqueueTypes
<1>2. /\ offered \in Nat /\ offered' = offered + 1 /\ queueFull' = queueFull
      /\ ppc[p] = "idle" /\ victim[p] = Nil
      /\ Nil \notin Nat /\ buf \in [Slot -> Batch \cup {Nil}] /\ Batch \subseteq Nat
  BY DEF EnqueueOpen, IInv, VictimHeld, TypeOK, Batch, metrics
<1>3. CASE size # Capacity
  <2> DEFINE t == TailSlot(head, size)
  <2>1. /\ t \in Slot /\ head' = head /\ size' = size + 1
        /\ buf' = [buf EXCEPT ![t] = offered + 1]
        /\ \A i \in Slot : (Offset(head, i) = size) <=> (i = t)
    BY <1>3, StoreStep
  <2>2. /\ buf'[t] = offered + 1
        /\ \A i \in Slot \ {t} : buf'[i] = buf[i]
    BY <1>2, <2>1
  <2> HIDE DEF t
  <2>3. /\ size \in Nat /\ \A i \in Slot : Offset(head, i) \in Nat
        /\ \A i \in Slot \ {t} : (Offset(head, i) < size + 1) <=> (Offset(head, i) < size)
        /\ Offset(head, t) = size
    BY <2>1, InWindow
  <2>4. /\ ppc' = [ppc EXCEPT ![p] = "onEnqueue"]
        /\ victim' = [victim EXCEPT ![p] = Nil]
    BY <1>3 DEF EnqueueOpen
  <2>5. victim' = victim
    BY <1>2, <2>4 DEF IInv, TypeOK
  <2>6. \A i \in Slot : Offset(head, i) < size => buf[i] \in Nat
    BY InWindow
  <2>7. Window'
    BY <1>2, <2>1, <2>2, <2>3 DEF IInv, Window
  <2>8. Ordered'
    BY <1>2, <2>1, <2>2, <2>3, <2>6 DEF IInv, Ordered
  <2>9. VictimHeld'
    BY <1>2, <2>4, <2>5 DEF IInv, VictimHeld, TypeOK
  <2>10. DroppedFirst'
    <3>1. \A b \in queueFull : b \in Nat /\ b <= offered
      BY <1>2 DEF IInv, DroppedFirst, TypeOK
    <3>2. \A r \in Producer : victim[r] # Nil => victim[r] \in Nat /\ victim[r] <= offered
      BY <1>2 DEF IInv, DroppedFirst, TypeOK
    <3>3. \A b \in queueFull, i \in Slot : Offset(head, i) < size + 1 => b < buf'[i]
      BY <1>2, <2>2, <2>3, <3>1 DEF IInv, DroppedFirst
    <3>4. \A r \in Producer, i \in Slot :
             victim[r] # Nil /\ Offset(head, i) < size + 1 => victim[r] < buf'[i]
      BY <1>2, <2>2, <2>3, <3>2 DEF IInv, DroppedFirst
    <3>5. \A r \in Producer : victim[r] # Nil =>
              victim[r] \notin queueFull /\ \A q \in Producer : victim[q] = victim[r] => q = r
      BY DEF IInv, DroppedFirst
    <3> QED
      BY <1>2, <2>1, <2>5, <3>1, <3>2, <3>3, <3>4, <3>5 DEF DroppedFirst
  <2> QED
    BY <1>1, <2>7, <2>8, <2>9, <2>10 DEF IInv
<1>4. CASE size = Capacity
  <2>1. /\ head \in Slot /\ head' = Advance(head) /\ size' = Capacity
        /\ buf' = [buf EXCEPT ![head] = offered + 1]
    BY <1>4, OverwriteStep DEF IInv, TypeOK
  <2>2. /\ buf'[head] = offered + 1
        /\ \A i \in Slot \ {head} : buf'[i] = buf[i]
    BY <1>2, <2>1
  <2>3. /\ Capacity \in Nat
        /\ \A i \in Slot : Offset(head, i) \in Nat /\ Offset(head, i) < Capacity
        /\ Offset(head, head) = 0
        /\ \A i \in Slot \ {head} : /\ 0 < Offset(head, i)
                                   /\ Offset(head', i) = Offset(head, i) - 1
        /\ Offset(head', head) = Capacity - 1
    BY <2>1, OffsetStep DEF Slot
  <2>4. \A i \in Slot : buf[i] \in Nat /\ buf[i] <= offered
    BY <1>4, <2>3, InWindow DEF IInv, Ordered
  <2>5. \A i \in Slot \ {head} : buf[head] < buf[i]
    BY <1>4, <2>1, <2>3 DEF IInv, Ordered
  <2>6. /\ ppc' = [ppc EXCEPT ![p] = "onDrop"]
        /\ victim' = [victim EXCEPT ![p] = buf[head]]
    BY <1>4 DEF EnqueueOpen, Oldest
  <2>7. Window'
    BY <1>2, <2>1, <2>2, <2>3, <2>4 DEF Window
  <2>8. Ordered'
    BY <1>2, <1>4, <2>1, <2>2, <2>3, <2>4 DEF IInv, Ordered
  <2>9. VictimHeld'
    BY <1>2, <2>1, <2>4, <2>6 DEF IInv, VictimHeld, TypeOK
  <2>10. \A b \in queueFull : b \in Nat /\ b <= offered /\ \A i \in Slot : b < buf[i]
    BY <1>2, <1>4, <2>3 DEF IInv, DroppedFirst, TypeOK
  <2>11. \A r \in Producer : victim[r] # Nil =>
            /\ victim[r] \in Nat /\ victim[r] <= offered /\ victim[r] \notin queueFull
            /\ \A i \in Slot : victim[r] < buf[i]
    BY <1>2, <1>4, <2>3 DEF IInv, DroppedFirst, TypeOK
  <2>12. \A r \in Producer : victim'[r] = IF r = p THEN buf[head] ELSE victim[r]
    BY <2>6 DEF IInv, TypeOK
  <2>13. DroppedFirst'
    <3>1. \A b \in queueFull' : b <= offered'
      BY <1>2, <2>10
    <3>2. \A b \in queueFull', i \in Slot : b < buf'[i]
      BY <1>2, <2>1, <2>2, <2>10
    <3>3. ASSUME NEW r \in Producer, victim'[r] # Nil
          PROVE  /\ victim'[r] <= offered' /\ victim'[r] \notin queueFull'
                 /\ \A i \in Slot : victim'[r] < buf'[i]
      BY <1>2, <2>1, <2>2, <2>4, <2>5, <2>10, <2>11, <2>12, <3>3
    <3>4. ASSUME NEW r \in Producer, NEW q \in Producer, victim'[r] # Nil, victim'[q] = victim'[r]
          PROVE  q = r
      BY <2>1, <2>4, <2>11, <2>12, <3>4 DEF IInv, DroppedFirst
    <3> QED
      BY <3>1, <3>2, <3>3, <3>4 DEF DroppedFirst
  <2> QED
    BY <1>1, <2>7, <2>8, <2>9, <2>13 DEF IInv
<1> QED
  BY <1>3, <1>4
\* Dequeue of a batch.
LEMMA TakeKeeps ==
  ASSUME IInv, NEW c \in Consumer, DequeueTake(c)
  PROVE  IInv'
<1> USE QueueAssumption
<1>1. /\ head \in Slot /\ head' = Advance(head) /\ head' \in Slot
      /\ size > 0 /\ size' = size - 1
      /\ buf' = [buf EXCEPT ![head] = Nil]
      /\ offered' = offered /\ ppc' = ppc /\ victim' = victim /\ queueFull' = queueFull
  BY AdvanceIsWrap DEF DequeueTake, Clear, IInv, TypeOK, prod, metrics
<1>2. TypeOK'
  BY <1>1 DEF DequeueTake, IInv, TypeOK, watch, prod, metrics
<1>3. /\ buf'[head] = Nil
      /\ \A i \in Slot \ {head} : buf'[i] = buf[i]
  BY <1>1 DEF IInv, TypeOK
<1>4. /\ \A i \in Slot \ {head} : /\ 0 < Offset(head, i)
                                 /\ Offset(head', i) = Offset(head, i) - 1
      /\ Offset(head', head) = Capacity - 1
  BY <1>1, OffsetStep DEF Slot
<1>5. \A i \in Slot : Offset(head', i) < size' => i # head /\ Offset(head, i) < size
  BY <1>1, <1>4, InWindow
<1>6. Window'
  BY <1>1, <1>3, <1>4, InWindow DEF IInv, Window
<1>7. Ordered'
  BY <1>1, <1>3, <1>4, <1>5, InWindow DEF IInv, Ordered
<1>8. VictimHeld'
  BY <1>1 DEF IInv, VictimHeld
<1>9. DroppedFirst'
  BY <1>1, <1>3, <1>5 DEF IInv, DroppedFirst
<1> QED
  BY <1>2, <1>6, <1>7, <1>8, <1>9 DEF IInv

\* The report of a dropped batch.
LEMMA OnDropKeeps ==
  ASSUME IInv, NEW p \in Producer, OnDrop(p)
  PROVE  IInv'
<1> USE QueueAssumption
<1>1. /\ buf' = buf /\ head' = head /\ size' = size /\ offered' = offered
      /\ queueFull' = queueFull \cup {victim[p]}
      /\ victim' = [victim EXCEPT ![p] = Nil]
      /\ ppc' = [ppc EXCEPT ![p] = "onEnqueue"]
  BY DEF OnDrop, ring
<1>2. victim[p] # Nil /\ victim[p] \in Batch
  BY DEF OnDrop, IInv, VictimHeld, TypeOK
<1>3. TypeOK'
  BY <1>1, <1>2 DEF OnDrop, IInv, TypeOK, cons, watch, ring
<1>4. Window' /\ Ordered'
  BY <1>1 DEF IInv, Window, Ordered
<1>5. VictimHeld'
  BY <1>1 DEF IInv, VictimHeld, TypeOK
<1>6. \A r \in Producer : victim'[r] = IF r = p THEN Nil ELSE victim[r]
  BY <1>1 DEF IInv, TypeOK
<1>7. DroppedFirst'
  <2>1. \A b \in queueFull' : b <= offered'
    BY <1>1, <1>2 DEF IInv, DroppedFirst
  <2>2. \A b \in queueFull', i \in Slot : Offset(head', i) < size' => b < buf'[i]
    BY <1>1, <1>2 DEF IInv, DroppedFirst
  <2>3. ASSUME NEW r \in Producer, victim'[r] # Nil
        PROVE  /\ victim'[r] <= offered' /\ victim'[r] \notin queueFull'
               /\ \A i \in Slot : Offset(head', i) < size' => victim'[r] < buf'[i]
               /\ \A q \in Producer : victim'[q] = victim'[r] => q = r
    BY <1>1, <1>2, <1>6, <2>3 DEF IInv, DroppedFirst
  <2> QED
    BY <2>1, <2>2, <2>3 DEF DroppedFirst
<1> QED
  BY <1>3, <1>4, <1>5, <1>7 DEF IInv

\* Steps that leave the ring, the victims and the reports alone.
LEMMA FrameKeeps ==
  ASSUME IInv, TypeOK', UNCHANGED <<buf, head, size, victim, queueFull>>,
         offered' = offered \/ offered' = offered + 1,
         \A p \in Producer : (ppc'[p] = "onDrop") <=> (ppc[p] = "onDrop")
  PROVE  IInv'
<1>1. offered \in Nat
  BY QueueAssumption DEF IInv, TypeOK
<1>2. Window' /\ VictimHeld'
  BY DEF IInv, Window, VictimHeld
<1>3. Ordered'
  BY <1>1, InWindow DEF IInv, Ordered
<1>4. DroppedFirst'
  <2>1. \A b \in Batch : b \in Nat
    BY QueueAssumption DEF Batch
  <2>2. \A b \in queueFull : b <= offered'
    BY <1>1, <2>1 DEF IInv, DroppedFirst, TypeOK
  <2>3. \A p \in Producer : victim[p] # Nil => victim[p] <= offered'
    BY <1>1, <2>1 DEF IInv, DroppedFirst, TypeOK
  <2> QED
    BY <2>2, <2>3 DEF IInv, DroppedFirst
<1> QED
  BY <1>2, <1>3, <1>4 DEF IInv

\* Every step of every goroutine keeps the invariant.
LEMMA IInvStep == IInv /\ [Next]_vars => IInv'
<1> SUFFICES ASSUME IInv, [Next]_vars PROVE IInv'
  OBVIOUS
<1> USE QueueAssumption
<1>0. TypeOK
  BY DEF IInv
<1>1. ASSUME NEW p \in Producer, EnqueueClosed(p) PROVE IInv'
  <2>1. TypeOK'
    BY <1>0, <1>1 DEF EnqueueClosed, TypeOK, ring, prod, cons, watch, metrics
  <2> QED
    BY <1>1, <2>1, FrameKeeps DEF EnqueueClosed, ring, prod, metrics
<1>2. ASSUME NEW p \in Producer, EnqueueOpen(p) PROVE IInv'
  BY <1>2, EnqueueKeeps
<1>3. ASSUME NEW p \in Producer, OnDrop(p) PROVE IInv'
  BY <1>3, OnDropKeeps
<1>4. ASSUME NEW p \in Producer, OnEnqueue(p) PROVE IInv'
  <2>1. TypeOK'
    BY <1>0, <1>4 DEF OnEnqueue, TypeOK, ring, cons, watch
  <2>2. \A r \in Producer : (ppc'[r] = "onDrop") <=> (ppc[r] = "onDrop")
    BY <1>0, <1>4 DEF OnEnqueue, TypeOK
  <2> QED
    BY <1>4, <2>1, <2>2, FrameKeeps DEF OnEnqueue, ring
<1>5. ASSUME NEW c \in Consumer, DequeueTake(c) PROVE IInv'
  BY <1>5, TakeKeeps
<1>6. ASSUME NEW c \in Consumer,
             \/ DequeueLock(c) \/ DequeueTest(c) \/ CondWait(c) \/ Awake(c)
             \/ DequeueNothing(c) \/ DequeueError(c) \/ OnDequeue(c)
      PROVE  IInv'
  <2> USE DEF TypeOK, ring, prod, watch, metrics
  <2>1. TypeOK'
    <3>1. CASE DequeueLock(c)
      BY <1>0, <3>1 DEF DequeueLock
    <3>2. CASE DequeueTest(c)
      BY <1>0, <3>2 DEF DequeueTest
    <3>3. CASE CondWait(c)
      BY <1>0, <3>3 DEF CondWait
    <3>4. CASE Awake(c)
      BY <1>0, <3>4 DEF Awake
    <3>5. CASE DequeueNothing(c)
      BY <1>0, <3>5 DEF DequeueNothing
    <3>6. CASE DequeueError(c)
      BY <1>0, <3>6 DEF DequeueError, StopWatch
    <3>7. CASE OnDequeue(c)
      BY <1>0, <3>7 DEF OnDequeue, StopWatch
    <3> QED
      BY <1>6, <3>1, <3>2, <3>3, <3>4, <3>5, <3>6, <3>7
  <2>2. UNCHANGED <<buf, head, size, victim, queueFull, ppc, offered>>
    BY <1>6 DEF DequeueLock, DequeueTest, CondWait, Awake, DequeueNothing, DequeueError, OnDequeue
  <2> QED
    BY <2>1, <2>2, FrameKeeps
<1>7. ASSUME NEW c \in Consumer, WatcherNext(c) \/ Cancel(c) PROVE IInv'
  <2>1. TypeOK'
    BY <1>0, <1>7 DEF WatcherNext, WatchCancel, WatchLate, Cancel, Broadcast, TypeOK,
                      ring, prod, cons, watch, metrics
  <2> QED
    BY <1>7, <2>1, FrameKeeps DEF WatcherNext, WatchCancel, WatchLate, Cancel, ring, prod, metrics
<1>8. CASE Close
  <2>1. TypeOK'
    BY <1>0, <1>8 DEF Close, Broadcast, TypeOK, ring, prod, cons, watch, metrics
  <2> QED
    BY <1>8, <2>1, FrameKeeps DEF Close, ring, prod, metrics
<1>9. CASE UNCHANGED vars
  <2>1. TypeOK'
    BY <1>0, <1>9 DEF TypeOK, vars, ring, prod, cons, watch, metrics
  <2> QED
    BY <1>9, <2>1, FrameKeeps DEF vars, ring, prod, metrics
<1> QED
  BY <1>1, <1>2, <1>3, <1>4, <1>5, <1>6, <1>7, <1>8, <1>9
     DEF Next, ProducerNext, ConsumerNext

\* NewQueue's empty ring is in the invariant.
LEMMA IInvInit == Init => IInv
<1> SUFFICES ASSUME Init PROVE IInv
  OBVIOUS
<1> USE QueueAssumption
<1>1. TypeOK
  <2>1. head \in Slot /\ buf \in [Slot -> Batch \cup {Nil}]
    BY DEF Init, Slot
  <2>2. ctxDone \in [Consumer -> BOOLEAN]
    BY Zenon DEF Init
  <2>3. /\ ppc \in [Producer -> {"idle", "onDrop", "onEnqueue"}]
        /\ plen \in [Producer -> 0..Capacity]
        /\ victim \in [Producer -> Batch \cup {Nil}]
        /\ cpc \in [Consumer -> {"idle", "loop", "wait", "parked", "empty", "onDequeue", "done"}]
        /\ clen \in [Consumer -> 0..Capacity]
    BY DEF Init
  <2>4. mu \in Consumer \cup {Nil} /\ closed \in BOOLEAN
    BY DEF Init
  <2>5. size \in 0..Capacity /\ offered \in 0..MaxBatches /\ queueLength \in 0..Capacity
    BY DEF Init
  <2>6. /\ waiters \in SUBSET Consumer /\ watching \in SUBSET Consumer
        /\ lingering \in SUBSET Consumer /\ queueFull \in SUBSET Batch
    BY DEF Init
  <2> QED
    BY <2>1, <2>2, <2>3, <2>4, <2>5, <2>6 DEF TypeOK
<1>2. \A i \in Slot : Offset(head, i) \in Nat
  BY DEF Init, Offset, Slot
<1>3. Window /\ Ordered /\ VictimHeld /\ DroppedFirst
  BY <1>2 DEF Init, Window, Ordered, VictimHeld, DroppedFirst
<1> QED
  BY <1>1, <1>3 DEF IInv

\* The joint invariant of the ring, its order and its drops.
THEOREM QueueInvariant == Spec => []IInv
  BY IInvInit, IInvStep, PTL DEF Spec

\* Type correctness of the queue, for any goroutines and any capacity: head and
\* size never leave the ring, and what is reported as dropped is a batch.
THEOREM TypeCorrect == Spec => []TypeOK
<1>1. IInv => TypeOK
  BY DEF IInv
<1> QED
  BY <1>1, QueueInvariant, PTL
-----------------------------------------------------------------------------
(* What the invariant gives *)

\* The i-th buffered batch is in the slot i - 1 steps after head.
LEMMA ContentsAt ==
  ASSUME IInv, NEW i \in 1..size
  PROVE  /\ Wrap(head + i - 1) \in Slot /\ Offset(head, Wrap(head + i - 1)) = i - 1
         /\ Contents[i] = buf[Wrap(head + i - 1)]
         /\ Contents[i] \in Batch /\ Contents[i] \in Nat
<1>1. head \in 0..(Capacity - 1) /\ size \in 0..Capacity /\ Capacity \in Nat \ {0}
  BY QueueAssumption DEF IInv, TypeOK, Slot
<1>2. head + i - 1 \in 0..(2 * Capacity - 1)
  BY <1>1
<1>3. Wrap(head + i - 1) \in Slot /\ Offset(head, Wrap(head + i - 1)) = i - 1
  BY <1>1 DEF Wrap, Offset, Slot
<1>4. Contents[i] = buf[Wrap(head + i - 1)]
  BY <1>2, ModIsWrap DEF Contents
<1> QED
  BY <1>1, <1>3, <1>4, InWindow

\* The window and the order of the batches imply RingWindow.
LEMMA WindowIsRing == IInv => RingWindow
<1> SUFFICES ASSUME IInv PROVE RingWindow
  OBVIOUS
<1>1. ASSUME NEW i \in Slot
      PROVE  (buf[i] = Nil) <=> ((i + Capacity - head) % Capacity >= size)
  <2>1. head \in 0..(Capacity - 1) /\ i \in 0..(Capacity - 1) /\ Capacity \in Nat \ {0}
    BY QueueAssumption DEF IInv, TypeOK, Slot
  <2>2. i + Capacity - head \in 0..(2 * Capacity - 1)
    BY <2>1
  <2>3. (i + Capacity - head) % Capacity = Wrap(i + Capacity - head)
    BY <2>2, ModIsWrap
  <2>4. Wrap(i + Capacity - head) = Offset(head, i)
    BY <2>1 DEF Wrap, Offset
  <2> QED
    BY <2>3, <2>4 DEF IInv, Window
<1>2. ASSUME NEW i \in 1..size, NEW j \in 1..size, i < j PROVE Contents[i] < Contents[j]
  <2>1. size \in Nat
    BY InWindow
  <2>2. i - 1 < j - 1 /\ j - 1 < size
    BY <1>2, <2>1
  <2> QED
    BY <2>2, ContentsAt DEF IInv, Ordered
<1>3. ASSUME NEW i \in 1..size, NEW j \in 1..size, Contents[i] = Contents[j] PROVE i = j
  <2>1. size \in Nat
    BY InWindow
  <2>2. Contents[i] \in Nat /\ Contents[j] \in Nat
    BY ContentsAt
  <2> QED
    BY <1>2, <1>3, <2>1, <2>2
<1> QED
  BY <1>1, <1>3 DEF RingWindow

\* The ring buffer's window is exact: no slot outside it keeps a batch alive,
\* every slot inside it holds one, and no batch is stored twice.
THEOREM RingWindowHolds == Spec => []RingWindow
  BY WindowIsRing, QueueInvariant, PTL

\* Dropped batches are older than buffered ones, hence not among them.
LEMMA DroppedIsAccounted == IInv => DropAccounting
<1> SUFFICES ASSUME IInv PROVE DropAccounting
  OBVIOUS
<1>1. ASSUME NEW i \in 1..size
      PROVE  /\ Contents[i] \in Nat
             /\ \A b \in queueFull : b < Contents[i]
             /\ \A p \in Producer : victim[p] # Nil => victim[p] < Contents[i]
  <2>1. size \in Nat /\ i - 1 < size
    BY InWindow
  <2> QED
    BY <2>1, ContentsAt DEF IInv, DroppedFirst
<1>2. \A p \in Producer : victim[p] # Nil => victim[p] \notin queueFull
  BY DEF IInv, DroppedFirst
<1>3. \A p, r \in Producer : victim[p] # Nil /\ victim[p] = victim[r] => p = r
  BY DEF IInv, DroppedFirst
<1>4. \A i \in 1..size : Contents[i] \notin queueFull
  BY <1>1
<1>5. \A p \in Producer : victim[p] # Nil => \A i \in 1..size : Contents[i] # victim[p]
  BY <1>1
<1> QED
  BY <1>2, <1>3, <1>4, <1>5 DEF DropAccounting

\* Overflow drops are accounted exactly: a batch reported, or about to be reported,
\* as dropped is not in the ring and is reported by one producer only, although
\* the report is made after the mutex is released.
THEOREM DropsAccounted == Spec => []DropAccounting
  BY DroppedIsAccounted, QueueInvariant, PTL
-----------------------------------------------------------------------------
(* Refinement *)

\* Contents is a sequence of batches as long as the window, read from head on.
ContentsShape ==
    /\ size \in Nat
    /\ Contents \in Seq(Batch) /\ Len(Contents) = size
    /\ \A i \in 1..size : /\ Wrap(head + i - 1) \in Slot
                         /\ Offset(head, Wrap(head + i - 1)) = i - 1
                         /\ Contents[i] = buf[Wrap(head + i - 1)]

\* The buffered batches, oldest first, are a sequence of length size.
LEMMA ContentsIsSeq == IInv => ContentsShape
<1> SUFFICES ASSUME IInv PROVE ContentsShape
  OBVIOUS
<1>1. size \in Nat
  BY InWindow
<1>2. \A i \in 1..size : Contents[i] \in Batch
  BY ContentsAt
<1>3. Contents \in Seq(Batch) /\ Len(Contents) = size
  BY <1>1, <1>2 DEF Contents
<1> QED
  BY <1>1, <1>3, ContentsAt DEF ContentsShape

\* The same of the next state.
LEMMA ContentsIsSeqNext == IInv' => ContentsShape'
  BY ContentsIsSeq, PTL

\* Storing a batch in a ring with room appends it.
LEMMA StoreAppends ==
  ASSUME IInv, NEW p \in Producer, EnqueueOpen(p), size # Capacity
  PROVE  Contents' = Append(Contents, offered + 1)
<1> DEFINE t == TailSlot(head, size)
<1>1. /\ t \in Slot /\ head' = head /\ size' = size + 1
      /\ buf' = [buf EXCEPT ![t] = offered + 1]
      /\ \A i \in Slot : (Offset(head, i) = size) <=> (i = t)
  BY StoreStep
<1>2. IInv'
  BY EnqueueKeeps
<1>3. Contents \in Seq(Batch) /\ Len(Contents) = size /\ size \in Nat
  BY ContentsIsSeq DEF ContentsShape
<1>4. Contents' \in Seq(Batch) /\ Len(Contents') = size + 1
  BY <1>1, <1>2, ContentsIsSeqNext DEF ContentsShape
<1> HIDE DEF t
<1>5. ASSUME NEW i \in 1..(size + 1)
      PROVE  Contents'[i] = IF i = size + 1 THEN offered + 1 ELSE Contents[i]
  <2>1. i \in 1..size'
    BY <1>1
  <2>2. /\ Wrap(head + i - 1) \in Slot /\ Offset(head, Wrap(head + i - 1)) = i - 1
        /\ Contents'[i] = buf'[Wrap(head + i - 1)]
    BY <1>1, <1>2, <2>1, ContentsIsSeqNext DEF ContentsShape
  <2>3. buf'[t] = offered + 1 /\ \A j \in Slot \ {t} : buf'[j] = buf[j]
    BY <1>1 DEF IInv, TypeOK
  <2>4. CASE i = size + 1
    BY <1>1, <1>3, <2>2, <2>3, <2>4
  <2>5. CASE i # size + 1
    <3>1. i \in 1..size /\ i - 1 # size
      BY <1>3, <2>5
    <3>2. Contents[i] = buf[Wrap(head + i - 1)]
      BY <3>1, ContentsAt
    <3> QED
      BY <1>1, <2>2, <2>3, <2>5, <3>1, <3>2
  <2> QED
    BY <2>4, <2>5
<1> QED
  BY <1>3, <1>4, <1>5

\* Leaving the head slot and moving on drops the first batch.
LEMMA HeadLeaves ==
  ASSUME IInv, IInv', size > 0, head' = Advance(head), size' >= size - 1,
         \A j \in Slot \ {head} : buf'[j] = buf[j]
  PROVE  \A i \in 1..(size - 1) : Contents'[i] = Contents[i + 1]
<1> TAKE i \in 1..(size - 1)
<1>1. /\ size \in Nat /\ size' \in Nat /\ size <= Capacity
      /\ head \in 0..(Capacity - 1) /\ head \in Slot /\ Capacity \in Nat \ {0}
  BY InWindow, ContentsIsSeqNext, QueueAssumption DEF IInv, TypeOK, Slot, ContentsShape
<1>2. i \in 1..size' /\ i + 1 \in 1..size
  BY <1>1
<1>3. Contents'[i] = buf'[Wrap(head' + i - 1)]
  BY <1>2, ContentsIsSeqNext DEF ContentsShape
<1>4. Contents[i + 1] = buf[Wrap(head + (i + 1) - 1)]
  BY <1>2, ContentsAt
<1>5. head' = Wrap(head + 1)
  BY <1>1, AdvanceIsWrap
<1>6. /\ Wrap(head' + i - 1) = Wrap(head + (i + 1) - 1)
      /\ Wrap(head' + i - 1) \in Slot \ {head}
  BY <1>1, <1>5 DEF Wrap, Slot
<1> QED
  BY <1>3, <1>4, <1>6

\* Storing a batch in a full ring drops the oldest and appends.
LEMMA OverwriteAppends ==
  ASSUME IInv, NEW p \in Producer, EnqueueOpen(p), size = Capacity
  PROVE  Contents' = Append(Tail(Contents), offered + 1)
<1>1. /\ head' = Advance(head) /\ size' = Capacity
      /\ buf' = [buf EXCEPT ![head] = offered + 1]
  BY OverwriteStep
<1>2. IInv'
  BY EnqueueKeeps
<1>3. /\ Contents \in Seq(Batch) /\ Len(Contents) = Capacity /\ Capacity \in Nat \ {0}
      /\ Contents' \in Seq(Batch) /\ Len(Contents') = Capacity
  BY <1>1, <1>2, ContentsIsSeq, ContentsIsSeqNext, QueueAssumption DEF ContentsShape
<1>4. \A i \in 1..(Capacity - 1) : Contents'[i] = Contents[i + 1]
  <2>1. \A j \in Slot \ {head} : buf'[j] = buf[j]
    BY <1>1 DEF IInv, TypeOK
  <2> QED
    BY <1>1, <1>2, <1>3, <2>1, HeadLeaves
<1>5. Contents'[Capacity] = offered + 1
  <2>1. head \in 0..(Capacity - 1) /\ head \in Slot
    BY DEF IInv, TypeOK, Slot
  <2>2. Capacity \in 1..size'
    BY <1>1, <1>3
  <2>3. Contents'[Capacity] = buf'[Wrap(head' + Capacity - 1)]
    BY <1>2, <2>2, ContentsIsSeqNext DEF ContentsShape
  <2>4. head' = Wrap(head + 1)
    BY <1>1, <2>1, AdvanceIsWrap
  <2>5. Wrap(head' + Capacity - 1) = head
    BY <1>3, <2>1, <2>4 DEF Wrap
  <2> QED
    BY <1>1, <2>1, <2>3, <2>5 DEF IInv, TypeOK
<1> QED
  BY <1>3, <1>4, <1>5

\* Taking from the ring takes the first batch.
LEMMA TakeIsTail ==
  ASSUME IInv, NEW c \in Consumer, DequeueTake(c)
  PROVE  Contents # <<>> /\ Head(Contents) \in Batch /\ Contents' = Tail(Contents)
<1>1. /\ size > 0 /\ head' = Advance(head) /\ size' = size - 1
      /\ buf' = [buf EXCEPT ![head] = Nil]
  BY DEF DequeueTake, Clear
<1>2. IInv'
  BY TakeKeeps
<1>3. /\ Contents \in Seq(Batch) /\ Len(Contents) = size /\ size \in Nat
      /\ Contents' \in Seq(Batch) /\ Len(Contents') = size - 1
  BY <1>1, <1>2, ContentsIsSeq, ContentsIsSeqNext DEF ContentsShape
<1>4. \A i \in 1..(size - 1) : Contents'[i] = Contents[i + 1]
  <2>1. \A j \in Slot \ {head} : buf'[j] = buf[j]
    BY <1>1 DEF IInv, TypeOK
  <2>2. size' >= size - 1
    BY <1>1, <1>3
  <2> QED
    BY <1>1, <1>2, <2>1, <2>2, HeadLeaves
<1> QED
  BY <1>1, <1>3, <1>4

\* Steps that leave the ring alone leave the abstract queue alone.
LEMMA ContentsFrame == UNCHANGED <<buf, head, size>> => UNCHANGED Contents
  BY DEF Contents

\* Every step of the ring buffer is a step of the abstract queue, or none.
LEMMA StepRefines == IInv /\ [Next]_vars => [Abstract!Next]_(Abstract!qvars)
<1> SUFFICES ASSUME IInv, [Next]_vars PROVE Abstract!Next \/ UNCHANGED <<Contents, closed>>
  BY DEF Abstract!qvars
<1> USE DEF ring, prod, cons, watch, metrics
<1>1. ASSUME NEW p \in Producer, EnqueueOpen(p) PROVE Abstract!Next
  <2>1. offered + 1 \in Batch /\ ~closed /\ closed' = closed
    BY <1>1, QueueAssumption DEF EnqueueOpen, IInv, TypeOK, Batch
  <2>2. Contents' = Append(IF Len(Contents) = Capacity THEN Tail(Contents) ELSE Contents, offered + 1)
    BY <1>1, ContentsIsSeq, StoreAppends, OverwriteAppends DEF ContentsShape
  <2>3. Abstract!Put(offered + 1)
    BY <2>1, <2>2 DEF Abstract!Put, Abstract!Full
  <2> QED
    BY <2>1, <2>3 DEF Abstract!Next
<1>2. ASSUME NEW c \in Consumer, DequeueTake(c) PROVE Abstract!Next
  <2>1. Abstract!Take(Head(Contents)) /\ Head(Contents) \in Batch
    BY <1>2, TakeIsTail DEF Abstract!Take, DequeueTake
  <2> QED
    BY <2>1 DEF Abstract!Next
<1>3. CASE Close
  BY <1>3, ContentsFrame DEF Close, Abstract!Next, Abstract!Shut
<1>4. ASSUME NEW p \in Producer, EnqueueClosed(p) \/ OnDrop(p) \/ OnEnqueue(p)
      PROVE  UNCHANGED <<Contents, closed>>
  BY <1>4, ContentsFrame DEF EnqueueClosed, OnDrop, OnEnqueue
<1>5. ASSUME NEW c \in Consumer,
             \/ DequeueLock(c) \/ DequeueTest(c) \/ CondWait(c) \/ Awake(c)
             \/ DequeueNothing(c) \/ DequeueError(c) \/ OnDequeue(c)
      PROVE  UNCHANGED <<Contents, closed>>
  BY <1>5, ContentsFrame DEF DequeueLock, DequeueTest, CondWait, Awake, DequeueNothing,
                             DequeueError, OnDequeue
<1>6. ASSUME NEW c \in Consumer, WatcherNext(c) \/ Cancel(c) PROVE UNCHANGED <<Contents, closed>>
  BY <1>6, ContentsFrame DEF WatcherNext, WatchCancel, WatchLate, Cancel
<1>7. CASE UNCHANGED vars
  BY <1>7, ContentsFrame DEF vars
<1> QED
  BY <1>1, <1>2, <1>3, <1>4, <1>5, <1>6, <1>7 DEF Next, ProducerNext, ConsumerNext

\* NewQueue's empty ring is the empty FIFO.
LEMMA InitRefines == Init => Abstract!Init
<1> SUFFICES ASSUME Init PROVE Contents = <<>> /\ closed = FALSE
  BY DEF Abstract!Init
<1>1. Contents \in Seq(Batch) /\ Len(Contents) = 0
  BY IInvInit, ContentsIsSeq DEF Init, ContentsShape
<1> QED
  BY <1>1 DEF Init

\* The ring buffer with its mutex, condition variable and watchers implements the
\* drop-oldest FIFO: for every capacity, batches leave in the order they were
\* offered, only the oldest is ever discarded, and only by a put on a full queue.
THEOREM RingImplementsQueue == Spec => ImplementsQueue
<1>1. Spec => Abstract!Init
  BY InitRefines DEF Spec
<1>2. Spec => [][Abstract!Next]_(Abstract!qvars)
  BY QueueInvariant, StepRefines, PTL DEF Spec
<1> QED
  BY <1>1, <1>2 DEF ImplementsQueue, Abstract!Spec

-----------------------------------------------------------------------------

\* A Dequeue that leaves its loop without a batch finds the queue closed or its
\* context cancelled when it looks again without the mutex, since neither is ever
\* undone: it never returns nil with a nil error.
THEOREM NoSilentReturn == Spec => []EmptyHasError
<1>1. Init => EmptyHasError
  BY DEF Init, EmptyHasError
<1>2. IInv /\ EmptyHasError /\ [Next]_vars => EmptyHasError'
  <2> SUFFICES ASSUME IInv, EmptyHasError, [Next]_vars, NEW d \in Consumer, cpc'[d] = "empty"
               PROVE  (closed \/ ctxDone[d])'
    BY DEF EmptyHasError
  <2> USE DEF IInv, TypeOK, EmptyHasError, ring, prod, cons, watch, metrics
  <2>1. ASSUME NEW c \in Consumer, DequeueNothing(c) PROVE (closed \/ ctxDone[d])'
    BY <2>1 DEF DequeueNothing, MustWait
  <2>2. ASSUME NEW c \in Consumer,
               \/ DequeueLock(c) \/ DequeueTest(c) \/ CondWait(c) \/ Awake(c)
               \/ DequeueTake(c) \/ DequeueError(c) \/ OnDequeue(c)
        PROVE  (closed \/ ctxDone[d])'
    BY <2>2 DEF DequeueLock, DequeueTest, CondWait, Awake, DequeueTake, DequeueError, OnDequeue
  <2>3. ASSUME NEW c \in Consumer, WatcherNext(c) \/ Cancel(c) PROVE (closed \/ ctxDone[d])'
    BY <2>3 DEF WatcherNext, WatchCancel, WatchLate, Cancel
  <2>4. ASSUME NEW p \in Producer, ProducerNext(p) PROVE (closed \/ ctxDone[d])'
    BY <2>4 DEF ProducerNext, EnqueueClosed, EnqueueOpen, OnDrop, OnEnqueue
  <2>5. CASE Close \/ UNCHANGED vars
    BY <2>5 DEF Close, vars
  <2> QED
    BY <2>1, <2>2, <2>3, <2>4, <2>5 DEF Next, ConsumerNext
<1> QED
  BY <1>1, <1>2, QueueInvariant, PTL DEF Spec

-----------------------------------------------------------------------------
(* Wakeups.  The argument is a count: whoever parks does so on an empty    *)
(* queue, every batch added while someone is parked rouses one consumer,   *)
(* and a roused consumer that goes away either takes a batch with it or    *)
(* has found none.                                                         *)

\* The mutex is held between two actions by the consumer in its loop.
Locking == \A c \in Consumer : (mu = c) <=> (cpc[c] \in {"loop", "wait"})

\* Only consumers inside cond.Wait are waiters.
ParkedInWait == \A c \in waiters : cpc[c] = "parked"

\* What the test before cond.Wait found still holds at cond.Wait.
WaitIsDue == \A c \in Consumer : cpc[c] = "wait" => size = 0 /\ ~closed

\* A consumer that waits, or may come to wait, has its watcher.
Watched ==
    \A c \in Consumer :
        /\ cpc[c] = "wait" \/ c \in waiters => c \in watching
        /\ cpc[c] \in {"loop", "parked"} /\ ~ctxDone[c] => c \in watching

\* While someone is parked there are enough roused consumers for the batches.
Served == waiters # {} => ~closed /\ size <= Cardinality(Roused)

Sync == Locking /\ ParkedInWait /\ WaitIsDue /\ Watched /\ Served

\* Cardinality(Roused) is a number.
LEMMA RousedIsFinite == IsFiniteSet(Roused) /\ Cardinality(Roused) \in Nat
<1>1. Roused \in SUBSET Consumer
  BY DEF Roused
<1>2. IsFiniteSet(Roused)
  BY <1>1, FS_Subset, QueueAssumption
<1> QED
  BY <1>2, FS_CardinalityType

\* The same of the next state.
LEMMA RousedIsFiniteNext == IsFiniteSet(Roused') /\ Cardinality(Roused') \in Nat
<1>1. Roused' \in SUBSET Consumer
  BY DEF Roused
<1>2. IsFiniteSet(Roused')
  BY <1>1, FS_Subset, QueueAssumption
<1> QED
  BY <1>2, FS_CardinalityType

\* A consumer that is roused adds one.
LEMMA RousedGains ==
  ASSUME NEW c \in Consumer, c \notin Roused, Roused' = Roused \cup {c}
  PROVE  Cardinality(Roused') = Cardinality(Roused) + 1
  BY RousedIsFinite, FS_AddElement

\* A consumer that leaves or waits takes one away.
LEMMA RousedLoses ==
  ASSUME NEW c \in Consumer, c \in Roused, Roused' = Roused \ {c}
  PROVE  Cardinality(Roused') = Cardinality(Roused) - 1
  BY RousedIsFinite, FS_RemoveElement

\* A stored batch rouses a parked consumer, if there is one.
LEMMA EnqueueServes ==
  ASSUME TypeOK, Sync, NEW p \in Producer, EnqueueOpen(p)
  PROVE  Sync'
<1> USE DEF Sync, Locking, ParkedInWait, WaitIsDue, Watched, cons, watch
<1>1. /\ mu = Nil /\ mu' = mu /\ closed' = closed /\ ~closed /\ cpc' = cpc
      /\ ctxDone' = ctxDone /\ watching' = watching /\ waiters' \subseteq waiters
  BY DEF EnqueueOpen, Signal
<1>2. \A c \in Consumer : cpc[c] \notin {"loop", "wait"}
  BY <1>1, QueueAssumption DEF TypeOK
<1>3. Locking' /\ ParkedInWait' /\ WaitIsDue' /\ Watched'
  BY <1>1, <1>2
<1>4. Served'
  <2> SUFFICES ASSUME waiters' # {} PROVE size' <= Cardinality(Roused')
    BY <1>1 DEF Served
  <2>1. PICK c \in waiters : waiters' = waiters \ {c}
    BY DEF EnqueueOpen, Signal
  <2>2. c \in Consumer /\ cpc[c] = "parked"
    BY DEF TypeOK
  <2>3. c \notin Roused /\ Roused' = Roused \cup {c}
    BY <1>1, <2>1, <2>2 DEF Roused
  <2>4. Cardinality(Roused') = Cardinality(Roused) + 1
    BY <2>2, <2>3, RousedGains
  <2>5. size \in Nat /\ size' \in Nat /\ size' <= size + 1
    BY QueueAssumption DEF EnqueueOpen, TypeOK
  <2>6. size <= Cardinality(Roused)
    BY <2>1 DEF Served
  <2> QED
    BY <2>4, <2>5, <2>6, RousedIsFinite
<1> QED
  BY <1>3, <1>4

\* Taking the mutex, or taking it back after a wakeup: the consumer is roused.
LEMMA LockServes ==
  ASSUME TypeOK, Sync, NEW c \in Consumer, DequeueLock(c) \/ Awake(c)
  PROVE  Sync'
<1> USE DEF Sync, Locking, ParkedInWait, WaitIsDue, Watched, ring, cons, watch
<1>1. /\ mu = Nil /\ mu' = c /\ cpc[c] \in {"idle", "parked"} /\ c \notin waiters
      /\ cpc' = [cpc EXCEPT ![c] = "loop"] /\ waiters' = waiters /\ size' = size
      /\ closed' = closed /\ ctxDone' = ctxDone
      /\ watching' = (IF cpc[c] = "idle" THEN watching \cup {c} ELSE watching)
  BY DEF DequeueLock, Awake
<1>2. \A d \in Consumer : cpc[d] \notin {"loop", "wait"} /\ mu # d
  BY <1>1, QueueAssumption DEF TypeOK
<1>3. \A d \in Consumer : cpc'[d] = IF d = c THEN "loop" ELSE cpc[d]
  BY <1>1 DEF TypeOK
<1>4. Locking' /\ ParkedInWait' /\ WaitIsDue' /\ Watched'
  BY <1>1, <1>2, <1>3
<1>5. Served'
  <2>1. Roused' = Roused \cup {c}
    BY <1>1, <1>3 DEF Roused
  <2>2. Cardinality(Roused') = Cardinality(Roused) \/ Cardinality(Roused') = Cardinality(Roused) + 1
    BY <2>1, RousedIsFinite, FS_AddElement
  <2>3. size \in Nat
    BY QueueAssumption DEF TypeOK
  <2> QED
    BY <1>1, <2>2, <2>3, RousedIsFinite DEF Served
<1> QED
  BY <1>4, <1>5

\* Going on to cond.Wait, parking, or leaving without a batch: the queue is empty.
LEMMA EmptyServes ==
  ASSUME TypeOK, Sync, NEW c \in Consumer, DequeueTest(c) \/ CondWait(c) \/ DequeueNothing(c)
  PROVE  Sync'
<1> USE DEF Sync, Locking, ParkedInWait, WaitIsDue, Watched, MustWait, ring, cons, watch
<1>1. /\ mu = c /\ cpc[c] \in {"loop", "wait"} /\ size = 0
      /\ size' = size /\ closed' = closed /\ ctxDone' = ctxDone /\ watching' = watching
  BY DEF DequeueTest, CondWait, DequeueNothing
<1>2. \A d \in Consumer \ {c} : cpc[d] \notin {"loop", "wait"} /\ cpc'[d] = cpc[d] /\ mu # d
  BY <1>1 DEF TypeOK, DequeueTest, CondWait, DequeueNothing
<1>3. \/ /\ DequeueTest(c) /\ cpc'[c] = "wait" /\ mu' = c /\ waiters' = waiters
         /\ ~closed /\ ~ctxDone[c] /\ cpc[c] = "loop"
      \/ /\ CondWait(c) /\ cpc'[c] = "parked" /\ mu' = Nil /\ waiters' = waiters \cup {c}
         /\ cpc[c] = "wait"
      \/ /\ DequeueNothing(c) /\ cpc'[c] = "empty" /\ mu' = Nil /\ waiters' = waiters
         /\ cpc[c] = "loop"
  BY <1>1 DEF TypeOK, DequeueTest, CondWait, DequeueNothing
<1>4. Locking'
  BY <1>1, <1>2, <1>3, QueueAssumption
<1>5. ParkedInWait'
  BY <1>1, <1>2, <1>3 DEF TypeOK
<1>6. WaitIsDue' /\ Watched'
  BY <1>1, <1>2, <1>3
<1>7. Served'
  <2>1. waiters' # {} => ~closed'
    BY <1>1, <1>3 DEF Served
  <2> QED
    BY <1>1, <2>1, RousedIsFiniteNext DEF Served
<1> QED
  BY <1>4, <1>5, <1>6, <1>7

\* Taking a batch: one batch and one roused consumer less.
LEMMA TakeServes ==
  ASSUME TypeOK, Sync, NEW c \in Consumer, DequeueTake(c)
  PROVE  Sync'
<1> USE DEF Sync, Locking, ParkedInWait, WaitIsDue, Watched, ring, cons, watch
<1>1. /\ mu = c /\ cpc[c] = "loop" /\ size' = size - 1 /\ closed' = closed /\ mu' = Nil
      /\ ctxDone' = ctxDone /\ watching' = watching /\ waiters' = waiters
  BY DEF DequeueTake
<1>2. /\ cpc'[c] = "onDequeue"
      /\ \A d \in Consumer \ {c} : cpc[d] \notin {"loop", "wait"} /\ cpc'[d] = cpc[d] /\ mu # d
  BY <1>1 DEF TypeOK, DequeueTake
<1>3. Locking' /\ ParkedInWait' /\ WaitIsDue' /\ Watched'
  BY <1>1, <1>2, QueueAssumption DEF TypeOK
<1>4. Served'
  <2>1. c \in Roused /\ Roused' = Roused \ {c}
    BY <1>1, <1>2 DEF Roused
  <2>2. Cardinality(Roused') = Cardinality(Roused) - 1
    BY <2>1, RousedLoses
  <2>3. size \in Nat
    BY QueueAssumption DEF TypeOK
  <2> QED
    BY <1>1, <2>2, <2>3, RousedIsFinite DEF Served
<1> QED
  BY <1>3, <1>4

\* A broadcast leaves no one parked.  The watcher's is made under the mutex, so
\* nobody is between the test and cond.Wait.
LEMMA BroadcastServes ==
  ASSUME TypeOK, Sync, mu = Nil, waiters' = {}, UNCHANGED <<mu, cpc, size, ctxDone>>,
         \A c \in Consumer : ~ctxDone[c] /\ c \in watching => c \in watching'
  PROVE  Sync'
<1>1. \A c \in Consumer : cpc[c] \notin {"loop", "wait"}
  BY QueueAssumption DEF Sync, Locking
<1> QED
  BY <1>1 DEF Sync, Locking, ParkedInWait, WaitIsDue, Watched, Served

\* Steps that move a consumer outside the loop, or no consumer.
LEMMA FrameServes ==
  ASSUME TypeOK, Sync, UNCHANGED <<mu, waiters, size, closed>>,
         \A c \in Consumer : ctxDone[c] => ctxDone'[c],
         \A c \in Consumer : \/ cpc'[c] = cpc[c] /\ (c \in watching' <=> c \in watching)
                             \/ cpc[c] \in {"empty", "onDequeue"} /\ cpc'[c] \in {"idle", "done"}
  PROVE  Sync'
<1>1. \A c \in waiters : c \in Consumer /\ cpc[c] = "parked"
  BY DEF TypeOK, Sync, ParkedInWait
<1>2. Roused' = Roused
  BY DEF Roused
<1>3. Served'
  BY <1>2 DEF Sync, Served
<1>4. Locking' /\ ParkedInWait' /\ WaitIsDue'
  BY <1>1 DEF Sync, Locking, ParkedInWait, WaitIsDue
<1>5. Watched'
  BY <1>1 DEF Sync, Watched
<1> QED
  BY <1>3, <1>4, <1>5 DEF Sync

\* Before the first call nobody waits.
LEMMA SyncInit == Init => Sync
  BY QueueAssumption
     DEF Init, Sync, Locking, ParkedInWait, WaitIsDue, Watched, Served

\* Every step of Enqueue, Dequeue, Close and the watchers keeps Sync.
LEMMA SyncStep == TypeOK /\ Sync /\ [Next]_vars => Sync'
<1> SUFFICES ASSUME TypeOK, Sync, [Next]_vars PROVE Sync'
  OBVIOUS
<1> USE DEF ring, prod, cons, watch, metrics
<1>1. ASSUME NEW p \in Producer, EnqueueOpen(p) PROVE Sync'
  BY <1>1, EnqueueServes
<1>2. ASSUME NEW p \in Producer, EnqueueClosed(p) \/ OnDrop(p) \/ OnEnqueue(p) PROVE Sync'
  BY <1>2, FrameServes DEF EnqueueClosed, OnDrop, OnEnqueue
<1>3. ASSUME NEW c \in Consumer, DequeueLock(c) \/ Awake(c) PROVE Sync'
  BY <1>3, LockServes
<1>4. ASSUME NEW c \in Consumer, DequeueTest(c) \/ CondWait(c) \/ DequeueNothing(c) PROVE Sync'
  BY <1>4, EmptyServes
<1>5. ASSUME NEW c \in Consumer, DequeueTake(c) PROVE Sync'
  BY <1>5, TakeServes
<1>6. ASSUME NEW c \in Consumer, DequeueError(c) \/ OnDequeue(c) PROVE Sync'
  <2>1. \A d \in Consumer : \/ cpc'[d] = cpc[d] /\ (d \in watching' <=> d \in watching)
                            \/ cpc[d] \in {"empty", "onDequeue"} /\ cpc'[d] \in {"idle", "done"}
    BY <1>6 DEF TypeOK, DequeueError, OnDequeue, StopWatch
  <2> QED
    BY <1>6, <2>1, FrameServes DEF DequeueError, OnDequeue
<1>7. ASSUME NEW c \in Consumer, WatchCancel(c) PROVE Sync'
  BY <1>7, BroadcastServes DEF WatchCancel, Broadcast
<1>8. ASSUME NEW c \in Consumer, WatchLate(c) PROVE Sync'
  BY <1>8, BroadcastServes, FrameServes DEF WatchLate, Broadcast
<1>9. ASSUME NEW c \in Consumer, Cancel(c) PROVE Sync'
  BY <1>9, FrameServes DEF Cancel, TypeOK
<1>10. CASE Close
  BY <1>10, BroadcastServes DEF Close, Broadcast
<1>11. CASE UNCHANGED vars
  BY <1>11, FrameServes DEF vars
<1> QED
  BY <1>1, <1>2, <1>3, <1>4, <1>5, <1>6, <1>7, <1>8, <1>9, <1>10, <1>11
     DEF Next, ProducerNext, ConsumerNext, WatcherNext

\* No wakeup is lost: a consumer parked in cond.Wait is never left beside more
\* batches than there are roused consumers, nor on a closed queue, nor without the
\* watcher that will turn its cancelled context into a Broadcast.
THEOREM WakeupsAreKept == Spec => []NoLostWakeup
<1>1. Spec => []Sync
  BY SyncInit, SyncStep, TypeCorrect, PTL DEF Spec
<1>2. TypeOK /\ Sync => NoLostWakeup
  BY DEF TypeOK, Sync, Watched, Served, NoLostWakeup
<1> QED
  BY <1>1, <1>2, TypeCorrect, PTL
=============================================================================
