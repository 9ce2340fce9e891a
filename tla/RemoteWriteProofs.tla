-------------------------- MODULE RemoteWriteProofs --------------------------
(***************************************************************************)
(* RemoteWrite.tla for every capacity, retry policy, timeout, receiver and *)
(* number of batches: what is counted, in which order batches leave, how   *)
(* long one keeps the sender, what a shutdown leaves, and that the breaker *)
(* is used as Breaker.tla assumes.                                         *)
(***************************************************************************)
EXTENDS RemoteWrite, FiniteSetTheorems, SequenceTheorems, TLAPS

-----------------------------------------------------------------------------
(* The inductive invariant *)

\* TypeOK without the breaker's own variables, except for its failure record.
Types ==
    /\ now \in Nat
    /\ streak \in Seq(Nat)
    /\ items \in Seq(Batch)
    /\ closed \in BOOLEAN
    /\ ppc \in {"start", "select", "draining", "cancelling", "done"}
    /\ ctxDone \in BOOLEAN
    /\ drainAt \in Nat
    /\ cancelled \in BOOLEAN
    /\ flushed \in 0..MaxBatches
    /\ spc \in {"dequeue", "allow", "encode", "attempt", "backoff", "exited"}
    /\ batch \in 0..MaxBatches
    /\ attempt \in Nat
    /\ deadline \in Nat \cup {ZeroTime}
    /\ due \in Nat
    /\ doomed \in BOOLEAN
    /\ notBefore \in Nat
    /\ began \in Nat
    /\ posted \in SUBSET Batch
    /\ probes \in 0..2
    /\ acct \in [Batch -> Seq(Fates)]

\* The batches that have left the queue are 1..Gone.
Gone == flushed - Len(items)

\* The buffered batches are the youngest ones, in order.
Ordered ==
    /\ Len(items) <= flushed
    /\ \A i \in 1..Len(items) : items[i] = Gone + i

\* Of the batches that left, all but the one in processBatch are counted, once.
Accounted ==
    /\ batch <= Gone
    /\ (batch = 0) <=> spc \in {"dequeue", "exited"}
    /\ \A b \in Batch : Len(acct[b]) = IF b <= Gone /\ b # batch THEN 1 ELSE 0

\* Nothing younger than the batch in processBatch has been POSTed.
PostedInOrder ==
    \A b \in posted : b <= Gone /\ (batch # 0 => b <= batch)

\* A batch adds at most one failure to the breaker's record.
StreakCounted == Len(streak) + (IF batch = 0 THEN 0 ELSE 1) <= Gone

\* Where Pusher.Run is determines the queue and the senders' context.
Phases ==
    /\ closed <=> ppc \in {"draining", "cancelling", "done"}
    /\ cancelled <=> ppc \in {"cancelling", "done"}
    /\ ppc = "cancelling" => now >= drainAt
    /\ ppc \in {"start", "select"} => now <= MaxNow
    /\ ppc = "draining" => drainAt <= MaxNow + DrainTimeout
    /\ spc = "exited" => items = <<>> /\ closed
    /\ ppc = "done" => spc = "exited"

\* The timers of the batch in progress against its time budget.
Timed ==
    /\ MaxElapsed > 0 /\ spc \in {"attempt", "backoff"} => deadline = began + MaxElapsed
    /\ MaxElapsed = 0 => deadline = ZeroTime
    /\ spc \in {"attempt", "backoff"} => now <= due
    /\ spc = "attempt" /\ MaxElapsed > 0 => due <= deadline + Timeout
    /\ spc = "backoff" => due - now <= MaxBackoff
    /\ spc = "backoff" /\ MaxElapsed > 0 => due <= deadline

IInv ==
    /\ Types /\ Ordered /\ Accounted /\ PostedInOrder /\ StreakCounted
    /\ Phases /\ DrainIsGiven /\ Timed

-----------------------------------------------------------------------------
(* Durations *)

\* Arithmetic that wraps stays a duration.
LEMMA WrappedIsDuration == \A x \in Int : Wrapped(x) \in (-MaxDuration - 1)..MaxDuration
  BY RemoteWriteAssumption DEF Wrapped

\* The jitter's upper end is positive and at most MaxBackoff, also when the
\* doubled InitialBackoff has wrapped around.
LEMMA BackoffUpperBounded == \A n \in Nat : BackoffUpper(n) \in 1..MaxBackoff
<1> TAKE n \in Nat
<1> DEFINE upper == Wrapped(InitialBackoff * 2^Minimum(n, 16))
<1>1. InitialBackoff * 2^Minimum(n, 16) \in Int
  BY RemoteWriteAssumption DEF Minimum
<1>2. upper \in Int
  BY <1>1, WrappedIsDuration, RemoteWriteAssumption
<1>3. BackoffUpper(n) = IF upper > MaxBackoff \/ upper <= 0 THEN MaxBackoff ELSE upper
  BY DEF BackoffUpper
<1> HIDE DEF upper
<1> QED
  BY <1>2, <1>3, RemoteWriteAssumption

\* Whatever header the receiver sends, what is made of it is a duration.
LEMMA RetryAfterIsDuration ==
  ASSUME now \in Nat, NEW h \in RetryAfterHeaders
  PROVE  parseRetryAfter(h) \in Int
<1>1. h.value \in Int
  BY RemoteWriteAssumption
<1>2. Wrapped(h.value) \in Int
  BY <1>1, WrappedIsDuration, RemoteWriteAssumption
<1>3. h.value > now => Minimum(h.value - now, MaxDuration) \in Int
  BY <1>1, RemoteWriteAssumption DEF Minimum
<1> QED
  BY <1>2, <1>3 DEF parseRetryAfter

\* Every verdict on an answer carries a duration.
LEMMA ClassifiedIsDuration ==
  ASSUME now \in Nat, NEW s \in Statuses, NEW h \in RetryAfterHeaders
  PROVE  classifyStatus(s, h).retryAfter \in Int
<1>1. parseRetryAfter(h) \in Int
  BY RetryAfterIsDuration
<1> QED
  BY <1>1 DEF classifyStatus

\* computeBackoff never exceeds MaxBackoff, and the floor it honours neither.
LEMMA BackoffBounded ==
  ASSUME NEW n \in Nat, NEW err, err.retryAfter \in Int
  PROVE  Floor(err) \in 0..MaxBackoff /\ computeBackoff(n, err) \subseteq 0..MaxBackoff
<1>1. Floor(err) \in 0..MaxBackoff
  BY RemoteWriteAssumption DEF Floor, Minimum
<1>2. BackoffUpper(n) \in 1..MaxBackoff
  BY BackoffUpperBounded
<1>3. ASSUME NEW j \in 0..BackoffUpper(n) PROVE Maximum(j, Floor(err)) \in 0..MaxBackoff
  BY <1>1, <1>2, RemoteWriteAssumption DEF Maximum
<1> QED
  BY <1>1, <1>3 DEF computeBackoff

-----------------------------------------------------------------------------
(* The invariant is inductive *)

\* An endpoint starts in the invariant.
LEMMA InitIInv == Init => IInv
<1> SUFFICES ASSUME Init PROVE IInv
  OBVIOUS
<1>0. items = <<>> /\ streak = <<>> /\ acct = [b \in Batch |-> <<>>] /\ flushed = 0
  BY DEF Init, Q!Init, B!Init
<1>1. Types
  <2>1. items \in Seq(Batch) /\ streak \in Seq(Nat)
    BY <1>0
  <2>2. acct \in [Batch -> Seq(Fates)]
    BY <1>0
  <2>3. now \in Nat /\ flushed \in 0..MaxBatches /\ batch \in 0..MaxBatches /\ probes \in 0..2
    BY RemoteWriteAssumption DEF Init, B!Init
  <2> QED
    BY <2>1, <2>2, <2>3 DEF Init, Q!Init, Types, ZeroTime
<1>2. Gone = 0 /\ Len(items) = 0 /\ Len(streak) = 0 /\ \A b \in Batch : Len(acct[b]) = 0
  <2>1. Len(items) = 0 /\ Len(streak) = 0
    BY <1>0
  <2>2. \A b \in Batch : acct[b] = <<>>
    BY <1>0
  <2>3. Len(<<>>) = 0
    OBVIOUS
  <2>4. flushed = 0
    BY <1>0
  <2>5. Gone = 0
    BY <2>1, <2>4 DEF Gone
  <2> QED
    BY <2>1, <2>2, <2>3, <2>5
<1>3. Ordered /\ Accounted /\ PostedInOrder /\ StreakCounted
  BY <1>0, <1>2, RemoteWriteAssumption
     DEF Init, Ordered, Accounted, PostedInOrder, StreakCounted, Batch
<1>4. Phases /\ Timed
  BY RemoteWriteAssumption DEF Init, Q!Init, B!Init, Phases, Timed
<1>5. DrainIsGiven
  BY <1>2 DEF DrainIsGiven
<1> QED
  BY <1>1, <1>3, <1>4, <1>5 DEF IInv

\* The numbers the steps below reason about.
LEMMA Numbers ==
  ASSUME IInv
  PROVE  /\ Len(items) \in Nat /\ Len(streak) \in Nat /\ Gone \in 0..flushed
         /\ flushed \in Nat /\ batch \in Nat /\ now \in Nat
         /\ \A b \in Batch : b \in Nat /\ Len(acct[b]) \in Nat
  BY RemoteWriteAssumption DEF IInv, Types, Ordered, Gone, Batch

\* processBatch returns: the batch is added to one counter.
LEMMA FinishKeeps ==
  ASSUME IInv, NEW fate \in Fates, FinishAs(fate), spc \notin {"dequeue", "exited"},
         streak' \in Seq(Nat), Len(streak') <= Len(streak) + 1,
         fate = "shutdown_drain" => cancelled,
         probes' \in 0..2, UNCHANGED <<posted, now, qvars, pusherVars>>
  PROVE  IInv'
<1>1. /\ batch \in Batch /\ batch' = 0 /\ spc' = "dequeue"
      /\ acct' = [acct EXCEPT ![batch] = Append(@, fate)]
      /\ Gone' = Gone /\ items' = items
  BY RemoteWriteAssumption DEF IInv, Types, Accounted, FinishAs, Finish, Count, Batch, qvars,
     pusherVars, Gone
<1>2. /\ acct'[batch] \in Seq(Fates) /\ Len(acct'[batch]) = 1
      /\ acct'[batch][1] = fate
      /\ \A b \in Batch \ {batch} : acct'[b] = acct[b]
  <2>1. acct[batch] \in Seq(Fates) /\ Len(acct[batch]) = 0
    BY <1>1 DEF IInv, Types, Accounted
  <2>2. acct'[batch] = Append(acct[batch], fate)
    BY <1>1 DEF IInv, Types
  <2> QED
    BY <1>1, <2>1, <2>2 DEF IInv, Types
<1>3. Types'
  <2>1. acct' \in [Batch -> Seq(Fates)]
    BY <1>1, <1>2 DEF IInv, Types
  <2>2. 0 \in Nat /\ 0 \in 0..MaxBatches
    BY RemoteWriteAssumption
  <2> QED
    BY <1>1, <2>1, <2>2 DEF IInv, Types, FinishAs, Finish, qvars, pusherVars
<1>4. Ordered' /\ PostedInOrder'
  BY <1>1 DEF IInv, Ordered, PostedInOrder, pusherVars
<1>5. Accounted'
  BY <1>1, <1>2, Numbers DEF IInv, Accounted, Batch
<1>6. StreakCounted'
  BY <1>1, Numbers, RemoteWriteAssumption DEF IInv, StreakCounted, Batch
<1>7. Phases'
  BY <1>1 DEF IInv, Phases, qvars, pusherVars
<1>8. DrainIsGiven'
  <2> SUFFICES ASSUME NEW b \in Batch, acct'[b] = <<"shutdown_drain">>
               PROVE  cancelled /\ closed /\ now >= drainAt
    BY DEF DrainIsGiven, qvars, pusherVars
  <2>1. CASE b = batch
    <3>1. fate = "shutdown_drain"
      BY <1>2, <2>1
    <3>2. ppc = "cancelling" \/ ppc = "done"
      BY <3>1 DEF IInv, Phases
    <3>3. ppc # "done"
      BY DEF IInv, Phases
    <3> QED
      BY <3>1, <3>2, <3>3 DEF IInv, Phases
  <2>2. CASE b # batch
    BY <1>2, <2>2 DEF IInv, DrainIsGiven
  <2> QED
    BY <2>1, <2>2
<1>9. Timed'
  BY <1>1 DEF Timed, FinishAs, Finish
<1> QED
  BY <1>3, <1>4, <1>5, <1>6, <1>7, <1>8, <1>9 DEF IInv

\* A POST starts, for the first time or after a backoff.
LEMMA PostKeeps ==
  ASSUME IInv, spc \in {"encode", "backoff"}, Post,
         attempt' \in Nat, began' \in Nat, notBefore' \in Nat,
         deadline' \in Nat \cup {ZeroTime}, Timed',
         probes' \in 0..2, UNCHANGED <<now, streak, qvars, pusherVars, batch, acct>>
  PROVE  IInv'
<1>1. /\ batch \in Batch /\ spc' = "attempt" /\ Gone' = Gone
      /\ due' = now + Timeout /\ doomed' = cancelled
      /\ posted' \subseteq posted \cup {batch}
  BY RemoteWriteAssumption DEF IInv, Types, Accounted, Post, Batch, qvars, pusherVars, Gone
<1>2. Types'
  BY <1>1, RemoteWriteAssumption DEF IInv, Types, qvars, pusherVars
<1>3. Ordered' /\ Accounted' /\ StreakCounted'
  BY <1>1 DEF IInv, Ordered, Accounted, StreakCounted, qvars, pusherVars
<1>4. PostedInOrder'
  BY <1>1, Numbers DEF IInv, PostedInOrder, Accounted
<1>5. Phases' /\ DrainIsGiven'
  BY <1>1 DEF IInv, Phases, DrainIsGiven, qvars, pusherVars
<1> QED
  BY <1>2, <1>3, <1>4, <1>5 DEF IInv

\* A failed attempt: the batch is given up, or its backoff ends within the budget.
LEMMA RetryKeeps ==
  ASSUME IInv, NEW err, err.retryAfter \in Int, spc = "attempt", RetryOrGiveUp(err),
         UNCHANGED <<now, bvars, qvars, pusherVars, hist>>
  PROVE  IInv'
<1>1. PICK w \in computeBackoff(attempt, err) :
        LET wait == CutToDeadline(w)
        IN  IF BudgetSpent(wait)
            THEN FinishAs("retry_budget_exhausted")
            ELSE /\ spc' = "backoff"
                 /\ due' = now + wait
                 /\ attempt' = attempt + 1
                 /\ notBefore' = now + Floor(err)
                 /\ UNCHANGED <<batch, deadline, doomed, began, acct>>
  BY DEF RetryOrGiveUp
<1> DEFINE wait == CutToDeadline(w)
<1>2. w \in 0..MaxBackoff /\ Floor(err) \in 0..MaxBackoff
  BY BackoffBounded DEF IInv, Types
<1>3. streak' = streak /\ streak \in Seq(Nat) /\ probes' = probes /\ posted' = posted
  BY DEF bvars, hist, IInv, Types
<1>4. CASE BudgetSpent(wait)
  <2>1. FinishAs("retry_budget_exhausted") /\ "retry_budget_exhausted" \in Fates
    BY <1>1, <1>4 DEF Fates
  <2>2. Len(streak') <= Len(streak) + 1 /\ probes' \in 0..2
    BY <1>3, Numbers DEF IInv, Types
  <2> QED
    BY <1>3, <2>1, <2>2, FinishKeeps
<1>5. CASE ~BudgetSpent(wait)
  <2>1. /\ spc' = "backoff" /\ due' = now + wait /\ attempt' = attempt + 1
        /\ notBefore' = now + Floor(err) /\ UNCHANGED <<batch, deadline, doomed, began, acct>>
    BY <1>1, <1>5
  <2>2. /\ wait \in 0..MaxBackoff
        /\ deadline # ZeroTime => now + wait <= deadline
    BY <1>2, <1>5, RemoteWriteAssumption
       DEF IInv, Types, CutToDeadline, BudgetSpent, Minimum, ZeroTime
  <2> HIDE DEF wait
  <2>3. Gone' = Gone
    BY DEF Gone, qvars, pusherVars
  <2>4. Types'
    BY <1>2, <1>3, <2>1, <2>2, RemoteWriteAssumption DEF IInv, Types, qvars, pusherVars
  <2>5. Ordered' /\ Accounted' /\ PostedInOrder' /\ StreakCounted'
    BY <1>3, <2>1, <2>3
       DEF IInv, Ordered, Accounted, PostedInOrder, StreakCounted, qvars, pusherVars
  <2>6. Phases' /\ DrainIsGiven'
    BY <2>1 DEF IInv, Phases, DrainIsGiven, qvars, pusherVars
  <2>7. Timed'
    BY <2>1, <2>2, Numbers, RemoteWriteAssumption DEF IInv, Types, Timed, ZeroTime
  <2> QED
    BY <2>4, <2>5, <2>6, <2>7 DEF IInv
<1> QED
  BY <1>4, <1>5

\* Enqueue: the youngest batch goes in, and the oldest one out if there is no room.
LEMMA FlushKeeps == ASSUME IInv, Flush PROVE IInv'
<1>1. /\ flushed' = flushed + 1 /\ flushed < MaxBatches /\ ~closed /\ ppc' = "select"
      /\ items' = Append(IF Len(items) = Capacity THEN Tail(items) ELSE items, flushed + 1)
      /\ IF Len(items) = Capacity THEN Count(Head(items), "queue_full") ELSE UNCHANGED acct
      /\ UNCHANGED <<closed, now, bvars, ctxDone, drainAt, cancelled, senderVars, hist>>
  BY DEF Flush, Q!Put, Q!Full
<1>2. /\ Len(items) \in Nat /\ flushed \in Nat /\ MaxBatches \in Nat /\ items \in Seq(Batch)
      /\ flushed + 1 \in Batch /\ Gone \in Nat
  BY <1>1, Numbers, RemoteWriteAssumption DEF IInv, Types, Batch
<1>3. UNCHANGED <<now, streak, batch, spc, posted>>
  BY <1>1 DEF bvars, senderVars, hist
<1> DEFINE Parts == /\ items' \in Seq(Batch) /\ acct' \in [Batch -> Seq(Fates)]
                    /\ Ordered' /\ Accounted' /\ PostedInOrder' /\ StreakCounted' /\ DrainIsGiven'
<1>4. ASSUME Len(items) # Capacity PROVE Parts
  <2>1. items' = Append(items, flushed + 1) /\ acct' = acct
    BY <1>1, <1>4
  <2>a. /\ items' \in Seq(Batch) /\ Len(items') = Len(items) + 1
        /\ \A i \in 1..Len(items) : items'[i] = items[i]
        /\ items'[Len(items) + 1] = flushed + 1
    BY <1>2, <2>1
  <2>b. Gone' = Gone
    BY <1>1, <1>2, <2>a DEF Gone
  <2>2. /\ items' \in Seq(Batch) /\ Len(items') = Len(items) + 1 /\ Gone' = Gone
        /\ \A i \in 1..Len(items) : items'[i] = items[i]
        /\ items'[Len(items) + 1] = flushed + 1
    BY <2>a, <2>b
  <2>3. Ordered'
    <3>1. ASSUME NEW i \in 1..Len(items') PROVE items'[i] = Gone + i
      <4>1. CASE i = Len(items) + 1
        BY <1>2, <2>2, <4>1 DEF Gone
      <4>2. CASE i \in 1..Len(items)
        BY <2>2, <4>2 DEF IInv, Ordered
      <4> QED
        BY <1>2, <2>2, <4>1, <4>2
    <3>2. Len(items') <= flushed'
      BY <1>1, <1>2, <2>2 DEF IInv, Ordered
    <3> QED
      BY <2>2, <3>1, <3>2 DEF Ordered
  <2>4. Accounted' /\ PostedInOrder' /\ StreakCounted'
    BY <1>3, <2>1, <2>2 DEF IInv, Accounted, PostedInOrder, StreakCounted
  <2>5. acct' \in [Batch -> Seq(Fates)] /\ DrainIsGiven'
    BY <1>1, <1>3, <2>1 DEF IInv, Types, DrainIsGiven
  <2> QED
    BY <2>2, <2>3, <2>4, <2>5
<1>5. ASSUME Len(items) = Capacity PROVE Parts
  <2> DEFINE h == Head(items)
  <2>1. /\ items' = Append(Tail(items), flushed + 1)
        /\ acct' = [acct EXCEPT ![h] = Append(@, "queue_full")]
    BY <1>1, <1>5 DEF Count
  <2>2. items # <<>> /\ Len(items) >= 1
    BY <1>2, <1>5, RemoteWriteAssumption
  <2>3. h = Gone + 1 /\ h \in Batch
    BY <1>2, <2>2 DEF IInv, Ordered
  <2>4. /\ Tail(items) \in Seq(Batch) /\ Len(Tail(items)) = Len(items) - 1
        /\ \A i \in 1..(Len(items) - 1) : Tail(items)[i] = items[i + 1]
    BY <1>2, <2>2
  <2>5. /\ items' \in Seq(Batch) /\ Len(items') = Len(items) /\ Gone' = Gone + 1
        /\ \A i \in 1..(Len(items) - 1) : items'[i] = items[i + 1]
        /\ items'[Len(items)] = flushed + 1
    <3>1. /\ items' \in Seq(Batch) /\ Len(items') = Len(items)
          /\ \A i \in 1..(Len(items) - 1) : items'[i] = Tail(items)[i]
          /\ items'[Len(items)] = flushed + 1
      BY <1>2, <2>1, <2>2, <2>4
    <3>2. flushed' = flushed + 1 /\ flushed \in Nat /\ Len(items) \in Nat /\ Len(items') = Len(items)
      BY <1>1, <1>2, <3>1
    <3>3. Gone' = Gone + 1
      BY <3>2 DEF Gone
    <3> QED
      BY <2>4, <3>1, <3>3
  <2> HIDE DEF h
  <2>6. Ordered'
    <3>1. ASSUME NEW i \in 1..Len(items') PROVE items'[i] = Gone + 1 + i
      <4>1. CASE i = Len(items)
        BY <1>2, <2>5, <4>1 DEF Gone
      <4>2. CASE i # Len(items)
        <5>1. i \in 1..(Len(items) - 1) /\ i + 1 \in 1..Len(items)
          BY <1>2, <2>5, <4>2
        <5> QED
          BY <1>2, <2>5, <5>1 DEF IInv, Ordered
      <4> QED
        BY <4>1, <4>2
    <3>2. Len(items') <= flushed'
      BY <1>1, <1>2, <2>5 DEF IInv, Ordered
    <3> QED
      BY <2>5, <3>1, <3>2 DEF Ordered
  <2>7. /\ acct[h] \in Seq(Fates) /\ Len(acct[h]) = 0 /\ h # batch
        /\ acct'[h] = Append(acct[h], "queue_full")
        /\ \A b \in Batch \ {h} : acct'[b] = acct[b]
    BY <1>2, <2>1, <2>3, Numbers DEF IInv, Types, Accounted
  <2>8. /\ acct'[h] \in Seq(Fates) /\ Len(acct'[h]) = 1 /\ acct'[h][1] = "queue_full"
    BY <2>7 DEF Fates
  <2>9. Accounted'
    <3>1. batch' <= Gone' /\ ((batch = 0) <=> spc \in {"dequeue", "exited"})'
      BY <1>2, <1>3, <2>5, Numbers DEF IInv, Accounted
    <3>2. ASSUME NEW b \in Batch
          PROVE  Len(acct'[b]) = IF b <= Gone' /\ b # batch' THEN 1 ELSE 0
      <4>1. CASE b = h
        <5>1. b <= Gone' /\ b # batch'
          BY <1>2, <1>3, <2>3, <2>5, <2>7, <4>1
        <5> QED
          BY <2>8, <4>1, <5>1
      <4>2. CASE b # h
        <5>1. b \in Nat /\ (b <= Gone + 1 <=> b <= Gone)
          BY <1>2, <2>3, <4>2, Numbers
        <5> QED
          BY <1>3, <2>5, <2>7, <4>2, <5>1 DEF IInv, Accounted
      <4> QED
        BY <4>1, <4>2
    <3> QED
      BY <3>1, <3>2 DEF Accounted
  <2>10. PostedInOrder' /\ StreakCounted'
    BY <1>2, <1>3, <2>5, Numbers DEF IInv, Types, Batch, PostedInOrder, StreakCounted
  <2>11. acct' \in [Batch -> Seq(Fates)]
    BY <2>1, <2>3, <2>7, <2>8 DEF IInv, Types
  <2>12. DrainIsGiven'
    <3> SUFFICES ASSUME NEW b \in Batch, acct'[b] = <<"shutdown_drain">>
                 PROVE  cancelled /\ closed /\ now >= drainAt
      BY <1>1 DEF DrainIsGiven
    <3>1. acct[b] = <<"shutdown_drain">>
      BY <2>7, <2>8
    <3> QED
      BY <3>1 DEF IInv, DrainIsGiven
  <2> QED
    BY <2>5, <2>6, <2>9, <2>10, <2>11, <2>12
<1>6. items' \in Seq(Batch) /\ acct' \in [Batch -> Seq(Fates)] /\ flushed' \in 0..MaxBatches
  BY <1>1, <1>2, <1>4, <1>5
<1>7. Types'
  BY <1>1, <1>6 DEF IInv, Types, bvars, senderVars, loopVars, hist
<1>8. Phases' /\ Timed'
  BY <1>1 DEF IInv, Phases, Timed, Flush, senderVars, loopVars
<1> QED
  BY <1>4, <1>5, <1>7, <1>8 DEF IInv

\* Dequeue: the oldest buffered batch is younger than all that were POSTed.
LEMMA DequeueKeeps == ASSUME IInv, Dequeue PROVE IInv'
<1>1. /\ spc = "dequeue" /\ spc' = "allow" /\ items # <<>>
      /\ batch' = Head(items) /\ items' = Tail(items) /\ closed' = closed
      /\ UNCHANGED <<now, bvars, pusherVars, loopVars, hist, acct>>
  BY DEF Dequeue, Q!Take
<1>2. /\ Len(items) \in Nat /\ Len(items) >= 1 /\ items \in Seq(Batch) /\ flushed' = flushed
      /\ flushed \in Nat /\ Gone \in Nat
  BY <1>1, Numbers DEF IInv, Types, pusherVars
<1>3. batch' = Gone + 1 /\ batch' \in Batch
  BY <1>1, <1>2 DEF IInv, Ordered
<1>4. /\ items' \in Seq(Batch) /\ Len(items') = Len(items) - 1 /\ Gone' = Gone + 1
      /\ \A i \in 1..Len(items') : items'[i] = items[i + 1]
  BY <1>1, <1>2 DEF Gone
<1>5. Types'
  BY <1>1, <1>3, <1>4, RemoteWriteAssumption
     DEF IInv, Types, Batch, bvars, pusherVars, loopVars, hist
<1>6. Ordered'
  BY <1>2, <1>4 DEF IInv, Ordered
<1>7. Accounted'
  <2>1. batch = 0
    BY <1>1 DEF IInv, Accounted
  <2>2. \A b \in Batch : (b <= Gone + 1 /\ b # Gone + 1) <=> (b <= Gone /\ b # 0)
    BY <1>2, RemoteWriteAssumption DEF Batch
  <2> QED
    BY <1>1, <1>2, <1>3, <1>4, <2>1, <2>2 DEF IInv, Accounted
<1>8. PostedInOrder' /\ StreakCounted'
  BY <1>1, <1>2, <1>3, <1>4, Numbers
     DEF IInv, Types, Batch, PostedInOrder, StreakCounted, Accounted, hist, bvars
<1>9. Phases' /\ DrainIsGiven' /\ Timed'
  BY <1>1 DEF IInv, Phases, DrainIsGiven, Timed, pusherVars, loopVars
<1> QED
  BY <1>5, <1>6, <1>7, <1>8, <1>9 DEF IInv

\* Every step of pusher, sender, receiver and clock keeps the invariant.
LEMMA NextIInv == IInv /\ [Next]_vars => IInv'
<1> SUFFICES ASSUME IInv, [Next]_vars PROVE IInv'
  OBVIOUS
<1> USE DEF Gone, pusherVars, qvars, senderVars, loopVars, hist, bvars
<1>0. /\ streak \in Seq(Nat) /\ Len(streak) \in Nat /\ now \in Nat /\ probes \in 0..2
      /\ Len(streak) <= Len(streak) + 1
  BY Numbers DEF IInv, Types
<1>1. CASE FlushNothing
  BY <1>1 DEF FlushNothing, IInv, Types, Ordered, Accounted, PostedInOrder, StreakCounted,
              Phases, DrainIsGiven, Timed
<1>2. CASE Flush
  BY <1>2, FlushKeeps
<1>3. CASE Interrupt
  BY <1>3 DEF Interrupt, IInv, Types, Ordered, Accounted, PostedInOrder, StreakCounted,
              Phases, DrainIsGiven, Timed
<1>4. CASE Shutdown
  <2>1. /\ ppc = "select" /\ ppc' = "draining" /\ drainAt' = now + DrainTimeout /\ closed' = TRUE
        /\ UNCHANGED <<items, now, bvars, ctxDone, cancelled, flushed, senderVars, hist, acct>>
    BY <1>4 DEF Shutdown, Q!Shut
  <2>2. Types'
    BY <1>0, <2>1, RemoteWriteAssumption DEF IInv, Types
  <2>3. Ordered' /\ Accounted' /\ PostedInOrder' /\ StreakCounted' /\ Timed'
    BY <2>1 DEF IInv, Ordered, Accounted, PostedInOrder, StreakCounted, Timed
  <2>4. Phases'
    BY <1>0, <2>1, RemoteWriteAssumption DEF IInv, Types, Phases
  <2>5. DrainIsGiven'
    BY <2>1 DEF IInv, Phases, DrainIsGiven
  <2> QED
    BY <2>2, <2>3, <2>4, <2>5 DEF IInv
<1>5. CASE DrainExpires
  BY <1>5 DEF DrainExpires, IInv, Types, Ordered, Accounted, PostedInOrder, StreakCounted,
              Phases, DrainIsGiven, Timed
<1>6. CASE Drained
  BY <1>6 DEF Drained, IInv, Types, Ordered, Accounted, PostedInOrder, StreakCounted,
              Phases, DrainIsGiven, Timed
<1>7. CASE Dequeue
  BY <1>7, DequeueKeeps
<1>8. CASE SenderExits
  BY <1>8 DEF SenderExits, IInv, Types, Ordered, Accounted, PostedInOrder, StreakCounted,
              Phases, DrainIsGiven, Timed
<1>9. CASE BreakerRefuses
  <2>1. UNCHANGED bvars /\ "breaker_open" \in Fates
    BY <1>9 DEF BreakerRefuses, B!AllowFalse, B!bvars, Fates
  <2> QED
    BY <1>0, <1>9, <2>1, FinishKeeps DEF BreakerRefuses
<1>10. CASE BreakerAllows
  <2>1. /\ spc = "allow" /\ spc' = "encode" /\ streak' = streak
        /\ UNCHANGED <<now, qvars, pusherVars, batch, loopVars, hist, acct>>
    BY <1>10 DEF BreakerAllows, B!AllowTrue
  <2> QED
    BY <2>1 DEF IInv, Types, Ordered, Accounted, PostedInOrder, StreakCounted,
                Phases, DrainIsGiven, Timed
<1>11. CASE EncodeFails
  <2>1. "non_retryable" \in Fates
    BY DEF Fates
  <2> QED
    BY <1>0, <1>11, <2>1, FinishKeeps DEF EncodeFails
<1>12. CASE Encode
  <2>1. /\ spc = "encode" /\ Post /\ attempt' = 0 /\ began' = now /\ notBefore' = now
        /\ deadline' = IF MaxElapsed > 0 THEN now + MaxElapsed ELSE ZeroTime
        /\ probes' \in 0..2
        /\ UNCHANGED <<now, streak, qvars, pusherVars, batch, acct>>
    BY <1>0, <1>12 DEF Encode, Minimum
  <2>2. attempt' \in Nat /\ began' \in Nat /\ notBefore' \in Nat
    BY <1>0, <2>1
  <2>3. deadline' \in Nat \cup {ZeroTime}
    BY <1>0, <2>1, RemoteWriteAssumption
  <2>4. /\ now' = now /\ due' = now + Timeout /\ spc' = "attempt" /\ began' = now
        /\ MaxElapsed > 0 => deadline' = now + MaxElapsed
        /\ MaxElapsed = 0 => deadline' = ZeroTime
    BY <2>1 DEF Post
  <2>5. Timed'
    BY <1>0, <2>4, RemoteWriteAssumption DEF Timed
  <2> QED
    BY <2>1, <2>2, <2>3, <2>5, PostKeeps
<1>13. CASE AttemptTimesOut
  <2>1. TransportError.retryAfter \in Int
    BY DEF TransportError
  <2> QED
    BY <1>13, <2>1, RetryKeeps DEF AttemptTimesOut
<1>14. CASE AttemptCancelled
  <2>1. "shutdown_drain" \in Fates
    BY DEF Fates
  <2> QED
    BY <1>0, <1>14, <2>1, FinishKeeps DEF AttemptCancelled
<1>15. CASE BackoffEnds
  <2>1. /\ spc = "backoff" /\ now >= due /\ Post
        /\ UNCHANGED <<probes, now, bvars, qvars, pusherVars, batch, attempt, deadline,
                        notBefore, began, acct>>
    BY <1>15 DEF BackoffEnds
  <2>2. /\ attempt' \in Nat /\ began' \in Nat /\ notBefore' \in Nat
        /\ deadline' \in Nat \cup {ZeroTime} /\ due \in Nat /\ now <= due /\ began \in Nat
        /\ MaxElapsed > 0 => deadline = began + MaxElapsed /\ due <= deadline
        /\ MaxElapsed = 0 => deadline = ZeroTime
    BY <2>1 DEF IInv, Types, Timed
  <2>3. /\ now' = now /\ due' = now + Timeout /\ spc' = "attempt" /\ began' = began
        /\ deadline' = deadline
    BY <2>1 DEF Post
  <2>4. Timed'
    BY <1>0, <2>2, <2>3, RemoteWriteAssumption DEF Timed
  <2>5. probes' \in 0..2 /\ UNCHANGED <<now, streak, qvars, pusherVars, batch, acct>>
    BY <1>0, <2>1
  <2> QED
    BY <2>1, <2>2, <2>4, <2>5, PostKeeps
<1>16. CASE BackoffCancelled
  <2>1. "shutdown_drain" \in Fates
    BY DEF Fates
  <2> QED
    BY <1>0, <1>16, <2>1, FinishKeeps DEF BackoffCancelled
<1>17. CASE AttemptSucceeds
  <2>1. streak' = <<>> /\ "sent" \in Fates
    BY <1>17 DEF AttemptSucceeds, B!RecordSuccess, Fates
  <2>2. streak' \in Seq(Nat) /\ Len(streak') <= Len(streak) + 1
    BY <1>0, <2>1
  <2> QED
    BY <1>17, <2>1, <2>2, FinishKeeps DEF AttemptSucceeds
<1>18. CASE AttemptRejected
  <2>1. streak' \in {<<>>, Append(streak, now)} /\ "non_retryable" \in Fates
    BY <1>18 DEF AttemptRejected, B!RecordFailure, B!Opened, Fates
  <2>2. streak' \in Seq(Nat) /\ Len(streak') <= Len(streak) + 1
    <3>1. CASE streak' = <<>>
      BY <1>0, <3>1
    <3>2. CASE streak' = Append(streak, now)
      BY <1>0, <3>2
    <3> QED
      BY <2>1, <3>1, <3>2
  <2> QED
    BY <1>18, <2>1, <2>2, FinishKeeps DEF AttemptRejected
<1>19. CASE AttemptRetryable
  <2>1. TransportError.retryAfter \in Int
    BY DEF TransportError
  <2>2. \A s \in Statuses, h \in RetryAfterHeaders : classifyStatus(s, h).retryAfter \in Int
    BY <1>0, ClassifiedIsDuration
  <2> QED
    BY <1>19, <2>1, <2>2, RetryKeeps DEF AttemptRetryable
<1>20. CASE Tick
  <2>1. /\ now' = now + 1 /\ UNCHANGED <<bvars, qvars, pusherVars, senderVars, hist, acct>>
        /\ now < MaxNow \/ ppc = "draining"
        /\ spc \in {"attempt", "backoff"} => ~(now >= due)
    BY <1>20 DEF Tick, TimerDue
  <2>2. Types'
    BY <1>0, <2>1 DEF IInv, Types
  <2>3. Ordered' /\ Accounted' /\ PostedInOrder' /\ StreakCounted'
    BY <2>1 DEF IInv, Ordered, Accounted, PostedInOrder, StreakCounted
  <2>4. Phases'
    BY <1>0, <2>1, RemoteWriteAssumption DEF IInv, Types, Phases
  <2>5. DrainIsGiven'
    <3> SUFFICES ASSUME NEW b \in Batch, acct[b] = <<"shutdown_drain">>
                 PROVE  cancelled /\ closed /\ now + 1 >= drainAt
      BY <2>1 DEF DrainIsGiven
    <3>1. cancelled /\ closed /\ now >= drainAt /\ drainAt \in Nat
      BY DEF IInv, Types, DrainIsGiven
    <3> QED
      BY <1>0, <3>1
  <2>6. Timed'
    BY <1>0, <2>1, RemoteWriteAssumption DEF IInv, Types, Timed
  <2> QED
    BY <2>2, <2>3, <2>4, <2>5, <2>6 DEF IInv
<1>21. CASE UNCHANGED vars
  BY <1>21 DEF vars, IInv, Types, Ordered, Accounted, PostedInOrder, StreakCounted,
               Phases, DrainIsGiven, Timed
<1> QED
  BY <1>1, <1>2, <1>3, <1>4, <1>5, <1>6, <1>7, <1>8, <1>9, <1>10, <1>11, <1>12, <1>13, <1>14,
     <1>15, <1>16, <1>17, <1>18, <1>19, <1>20, <1>21
     DEF Next, PusherNext, SenderNext, Answer, Finished

\* The joint invariant of pusher, queue, sender and breaker record.
THEOREM RemoteWriteInvariant == Spec => []IInv
  BY InitIInv, NextIInv, PTL DEF Spec

-----------------------------------------------------------------------------
(* What the invariant gives *)

\* Enqueue, Dequeue and processBatch lose no batch and count none twice, for any
\* number of batches and any mix of overflow, refusal, retry and cancellation.
THEOREM NoSampleLost == Spec => []CountedOnce
<1>1. ASSUME IInv PROVE CountedOnce
  <2> SUFFICES ASSUME NEW b \in Batch
               PROVE  Buffered(b) + Held(b) + Counted(b) = IF b <= flushed THEN 1 ELSE 0
    BY DEF CountedOnce
  <2> DEFINE at == {i \in 1..Len(items) : items[i] = b}
  <2>1. /\ Len(items) \in Nat /\ Gone \in Nat /\ flushed = Gone + Len(items) /\ b \in Nat \ {0}
        /\ batch <= Gone /\ batch \in Nat
    BY <1>1, Numbers, RemoteWriteAssumption DEF Gone, Batch, IInv, Accounted
  <2>2. \A i \in 1..Len(items) : items[i] = b <=> b = Gone + i
    BY <1>1 DEF IInv, Ordered
  <2>3. Counted(b) = IF b <= Gone /\ b # batch THEN 1 ELSE 0
    BY <1>1 DEF IInv, Accounted, Counted
  <2>4. CASE b <= Gone
    <3>1. at = {}
      BY <2>1, <2>2, <2>4
    <3>2. Buffered(b) = 0
      BY <3>1, FS_EmptySet DEF Buffered
    <3> QED
      BY <2>1, <2>3, <2>4, <3>2 DEF Held
  <2>5. CASE b > Gone /\ b <= flushed
    <3>1. b - Gone \in 1..Len(items) /\ b # batch
      BY <2>1, <2>5
    <3>2. at = {b - Gone}
      BY <2>1, <2>2, <3>1
    <3>3. Buffered(b) = 1
      BY <3>2, FS_Singleton DEF Buffered
    <3>4. Counted(b) = 0 /\ Held(b) = 0
      BY <2>1, <2>3, <2>5, <3>1 DEF Held
    <3> QED
      BY <2>5, <3>3, <3>4
  <2>6. CASE b > flushed
    <3>1. at = {} /\ b # batch /\ ~(b <= Gone)
      BY <2>1, <2>2, <2>6
    <3>2. Buffered(b) = 0
      BY <3>1, FS_EmptySet DEF Buffered
    <3>3. Counted(b) = 0 /\ Held(b) = 0
      BY <2>3, <3>1 DEF Held
    <3>4. ~(b <= flushed)
      BY <2>1, <2>6
    <3> QED
      BY <3>2, <3>3, <3>4
  <2> QED
    BY <2>1, <2>4, <2>5, <2>6
<1> QED
  BY <1>1, RemoteWriteInvariant, PTL

\* Pusher.Run returns after its sender, with the queue empty.
THEOREM ReturnsEmptyHanded == Spec => []NothingLeftBehind
<1>1. IInv => NothingLeftBehind
  BY DEF IInv, Phases, Accounted, NothingLeftBehind
<1> QED
  BY <1>1, RemoteWriteInvariant, PTL

\* Only cancelSenders, a full DrainTimeout after the signal, abandons a batch.
THEOREM FullDrainTimeout == Spec => []DrainIsGiven
<1>1. IInv => DrainIsGiven
  BY DEF IInv
<1> QED
  BY <1>1, RemoteWriteInvariant, PTL

\* Sender.Run POSTs batches oldest first, each after its elders' verdicts.
THEOREM OldestFirst == Spec => []InOrder
<1>1. ASSUME IInv PROVE InOrder
  <2> SUFFICES ASSUME NEW b \in Batch, spc = "attempt", batch = b
               PROVE  /\ \A a \in 1..(b - 1) : Counted(a) = 1
                      /\ \A c \in (b + 1)..MaxBatches : c \notin posted
    BY DEF InOrder
  <2>1. b \in 1..MaxBatches /\ MaxBatches \in Nat /\ b <= Gone /\ Gone \in Nat
    BY <1>1, Numbers, RemoteWriteAssumption DEF IInv, Accounted, Batch
  <2>2. ASSUME NEW a \in 1..(b - 1) PROVE Counted(a) = 1
    <3>1. a \in Batch /\ a <= Gone /\ a # batch
      BY <2>1 DEF Batch
    <3> QED
      BY <1>1, <3>1 DEF IInv, Accounted, Counted
  <2>3. ASSUME NEW c \in (b + 1)..MaxBatches PROVE c \notin posted
    <3>1. batch # 0 /\ ~(c <= batch)
      BY <2>1
    <3> QED
      BY <1>1, <3>1 DEF IInv, PostedInOrder
  <2> QED
    BY <2>2, <2>3
<1> QED
  BY <1>1, RemoteWriteInvariant, PTL

\* processBatch's timers stay inside MaxElapsed plus one Timeout, and no backoff
\* exceeds MaxBackoff, for every retry policy, answer and Retry-After header.
THEOREM BatchTimeBounded == Spec => []BoundedProcessing
<1>1. ASSUME IInv PROVE BoundedProcessing
  <2>1. now \in Nat /\ due \in Nat /\ began \in Nat /\ Timeout \in Nat /\ MaxBackoff \in Nat
        /\ MaxElapsed \in Nat
    BY <1>1, RemoteWriteAssumption DEF IInv, Types
  <2>2. spc = "backoff" => due - now \in 0..MaxBackoff
    BY <1>1, <2>1 DEF IInv, Timed
  <2>3. ASSUME MaxElapsed > 0, spc \in {"attempt", "backoff"}
        PROVE  now <= began + MaxElapsed + Timeout
    BY <1>1, <2>1, <2>3 DEF IInv, Timed
  <2> QED
    BY <2>2, <2>3 DEF BoundedProcessing
<1> QED
  BY <1>1, RemoteWriteInvariant, PTL

-----------------------------------------------------------------------------
(* The breaker inside the sender *)

\* Every step of the endpoint is one of the calls Breaker.tla allows, or none.
LEMMA BreakerStep == IInv /\ [Next]_vars => [B!Next]_(B!vars)
<1> SUFFICES ASSUME IInv, [Next]_vars PROVE B!Next \/ UNCHANGED B!vars
  OBVIOUS
<1> USE DEF pusherVars, qvars, senderVars, loopVars, hist, bvars, B!bvars, B!vars, Sending
<1>1. CASE PusherNext
  BY <1>1 DEF PusherNext, FlushNothing, Flush, Shutdown, DrainExpires, Drained
<1>2. CASE Interrupt
  BY <1>2 DEF Interrupt
<1>3. CASE Dequeue
  BY <1>3 DEF Dequeue
<1>4. CASE SenderExits
  BY <1>4 DEF SenderExits
<1>5. CASE BreakerRefuses
  <2>1. B!Refuse
    BY <1>5 DEF BreakerRefuses, B!Refuse, FinishAs, Finish
  <2> QED
    BY <2>1 DEF B!Next
<1>6. CASE BreakerAllows
  <2>1. B!Admit
    BY <1>6 DEF BreakerAllows, B!Admit
  <2> QED
    BY <2>1 DEF B!Next
<1>7. CASE EncodeFails \/ AttemptCancelled \/ BackoffCancelled
  <2>1. B!Abandon
    BY <1>7 DEF EncodeFails, AttemptCancelled, BackoffCancelled, FinishAs, Finish, B!Abandon
  <2> QED
    BY <2>1 DEF B!Next
<1>8. CASE Encode \/ BackoffEnds
  BY <1>8 DEF Encode, BackoffEnds, Post
<1>9. CASE AttemptTimesOut \/ AttemptRetryable
  <2>1. PICK err : RetryOrGiveUp(err)
    BY <1>9 DEF AttemptTimesOut, AttemptRetryable
  <2>2. spc = "attempt" /\ UNCHANGED <<now, state, failures, openedAt, stateGauge, streak, opening>>
    BY <1>9 DEF AttemptTimesOut, AttemptRetryable
  <2>3. spc' \in {"dequeue", "backoff"}
    BY <2>1 DEF RetryOrGiveUp, FinishAs, Finish
  <2>4. B!Abandon \/ UNCHANGED B!vars
    BY <2>2, <2>3 DEF B!Abandon
  <2> QED
    BY <2>4 DEF B!Next
<1>10. CASE AttemptSucceeds
  <2>1. B!Succeed
    BY <1>10 DEF AttemptSucceeds, FinishAs, Finish, B!Succeed
  <2> QED
    BY <2>1 DEF B!Next
<1>11. CASE AttemptRejected
  <2>1. Len(streak) < MaxBatches
    <3>1. batch # 0
      BY <1>11 DEF AttemptRejected, IInv, Accounted
    <3>2. /\ Len(streak) + 1 <= Gone /\ Gone \in 0..flushed /\ flushed \in 0..MaxBatches
          /\ Len(streak) \in Nat
      BY <3>1, Numbers DEF IInv, Types, StreakCounted
    <3> QED
      BY <3>2, RemoteWriteAssumption
  <2>2. B!Fail
    BY <1>11, <2>1 DEF AttemptRejected, FinishAs, Finish, B!Fail
  <2> QED
    BY <2>2 DEF B!Next
<1>12. CASE Tick
  <2>1. now < MaxNow + DrainTimeout
    <3>1. now \in Nat /\ drainAt \in Nat /\ MaxNow \in Nat /\ DrainTimeout \in Nat
      BY RemoteWriteAssumption DEF IInv, Types
    <3>2. CASE now < MaxNow
      BY <3>1, <3>2
    <3>3. CASE ppc = "draining"
      <4>1. ~(now >= drainAt) /\ drainAt <= MaxNow + DrainTimeout
        BY <1>12, <3>3 DEF Tick, TimerDue, IInv, Phases
      <4> QED
        BY <3>1, <4>1
    <3> QED
      BY <1>12, <3>2, <3>3 DEF Tick
  <2>2. B!Tick
    BY <1>12, <2>1 DEF Tick, B!Tick
  <2> QED
    BY <2>2 DEF B!Next
<1>13. CASE UNCHANGED vars
  BY <1>13 DEF vars
<1> QED
  BY <1>1, <1>2, <1>3, <1>4, <1>5, <1>6, <1>7, <1>8, <1>9, <1>10, <1>11, <1>12, <1>13
     DEF Next, SenderNext, Answer, Finished

\* processBatch calls Allow, RecordSuccess and RecordFailure in the order
\* Breaker.tla assumes, and never more often: the endpoint implements it.
THEOREM SenderImplementsBreaker == Spec => UsesBreaker
<1>1. Init => B!Init
  BY DEF Init, B!Init, Sending
<1> QED
  BY <1>1, BreakerStep, RemoteWriteInvariant, PTL DEF Spec, UsesBreaker, B!Spec
=============================================================================
