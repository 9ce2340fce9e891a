----------------------------- MODULE RemoteWrite -----------------------------
(***************************************************************************)
(* One remote-write endpoint end to end (internal/remotewrite): the Pusher *)
(* that gathers the registry and enqueues batches (pusher.go), the queue   *)
(* (DropOldestQueue, implemented by Queue.tla), the Sender that dequeues a *)
(* batch and POSTs it with retries (sender.go, wire.go) behind the circuit *)
(* breaker (Breaker.tla), and the receiver, which is external.             *)
(*                                                                         *)
(* Time is a discrete clock that does not pass a timer that is due: timers *)
(* fire on time, everything else takes as long as it takes.                *)
(***************************************************************************)
EXTENDS Integers, Sequences, FiniteSets

CONSTANTS
    Capacity,                          \* queue capacity
    MaxAttempts, MaxElapsed, Timeout,  \* EndpointConfig; MaxElapsed = 0: no limit
    InitialBackoff, MaxBackoff,        \* EndpointConfig, defaults applied
    DrainTimeout,                      \* PusherConfig
    FailureThreshold, Window, Cooldown,
    Statuses,                          \* HTTP statuses the receiver may answer
    RetryAfterHeaders,                 \* Retry-After headers it may send
    MaxDuration,                       \* largest time.Duration (2^63 - 1 ns)
    MaxBatches,                        \* bound: batches gathered
    MaxNow                             \* bound: clock, except while draining

ASSUME RemoteWriteAssumption ==
    /\ Capacity \in Nat \ {0}
    /\ MaxAttempts \in Int
    /\ MaxElapsed \in Nat
    /\ Timeout \in Nat \ {0}
    /\ InitialBackoff \in Nat \ {0}
    /\ MaxBackoff \in 1..(MaxDuration - 1)   \* see computeBackoff
    /\ DrainTimeout \in Nat \ {0}
    /\ FailureThreshold \in Nat \ {0}
    /\ Window \in Nat \ {0}
    /\ Cooldown \in Nat \ {0}
    /\ Statuses \subseteq Nat
    /\ RetryAfterHeaders \subseteq [form : {"absent", "seconds", "date"}, value : Int]
    /\ MaxDuration \in Nat
    /\ MaxBatches \in Nat
    /\ MaxNow \in Nat

VARIABLES
    now,
    state, failures, openedAt, stateGauge, streak, opening,  \* see Breaker
    items, closed,                                           \* see DropOldestQueue
    ppc,        \* where Pusher.Run is
    ctxDone,    \* the application's context is cancelled
    drainAt,    \* when shutdown stops waiting for the sender
    cancelled,  \* senderCtx is cancelled
    flushed,    \* batches enqueued so far; batch n is the n-th
    spc,        \* where Sender.Run is
    batch,      \* the batch in processBatch, 0 if none
    attempt,    \* processBatch's loop counter
    deadline,   \* processBatch's `deadline`, ZeroTime if unset
    due,        \* when the attempt times out or the backoff timer fires
    doomed,     \* the attempt began with its context already cancelled
    notBefore,  \* history: earliest retry the receiver asked for (capped)
    began,      \* history: when processBatch entered its loop
    posted,     \* history: batches POSTed at least once
    probes,     \* history: batches POSTed since the breaker half-opened, up to 2
    acct        \* history: for each batch the counters it was added to

qvars == <<items, closed>>
bvars == <<state, failures, openedAt, stateGauge, streak, opening>>
pusherVars == <<ppc, ctxDone, drainAt, cancelled, flushed>>
loopVars == <<attempt, deadline, due, doomed, notBefore, began>>
senderVars == <<spc, batch, loopVars>>
hist == <<posted, probes>>
vars == <<now, bvars, qvars, pusherVars, senderVars, hist, acct>>

Batch == 1..MaxBatches
ZeroTime == -1
Fates == {"sent", "non_retryable", "retry_budget_exhausted",
          "queue_full", "breaker_open", "shutdown_drain"}

Sending == spc \in {"encode", "attempt", "backoff"}

Q == INSTANCE DropOldestQueue
B == INSTANCE Breaker WITH admitted <- Sending, MaxStreak <- MaxBatches,
                           MaxNow <- MaxNow + DrainTimeout

TypeOK ==
    /\ B!TypeOK
    /\ items \in Seq(Batch)
    /\ closed \in BOOLEAN
    /\ ppc \in {"start", "select", "draining", "cancelling", "done"}
    /\ ctxDone \in BOOLEAN
    /\ drainAt \in Nat
    /\ cancelled \in BOOLEAN
    /\ flushed \in 0..MaxBatches
    /\ spc \in {"dequeue", "allow", "encode", "attempt", "backoff", "exited"}
    /\ batch \in 0..MaxBatches
    /\ attempt \in Nat
    /\ deadline \in Nat \cup {ZeroTime}
    /\ due \in Nat
    /\ doomed \in BOOLEAN
    /\ notBefore \in Nat
    /\ began \in Nat
    /\ posted \in SUBSET Batch
    /\ probes \in 0..2
    /\ acct \in [Batch -> Seq(Fates)]

Init ==
    /\ Q!Init
    /\ ppc = "start"
    /\ ctxDone = FALSE
    /\ drainAt = 0
    /\ cancelled = FALSE
    /\ flushed = 0
    /\ spc = "dequeue"
    /\ B!Init
    /\ batch = 0
    /\ attempt = 0
    /\ deadline = ZeroTime
    /\ due = 0
    /\ doomed = FALSE
    /\ notBefore = 0
    /\ began = 0
    /\ posted = {}
    /\ probes = 0
    /\ acct = [b \in Batch |-> <<>>]

Minimum(x, y) == IF x <= y THEN x ELSE y
Maximum(x, y) == IF x >= y THEN x ELSE y

\* One of samples_total, samples_failed_total{reason}, samples_dropped_total
\* {reason} grows by the samples of batch b.
Count(b, fate) == acct' = [acct EXCEPT ![b] = Append(@, fate)]

-----------------------------------------------------------------------------
(* Pusher *)

\* flush when gathering fails or yields no series.
FlushNothing ==
    /\ ppc \in {"start", "select"}
    /\ ppc' = "select"
    /\ UNCHANGED <<now, bvars, qvars, ctxDone, drainAt, cancelled, flushed,
                   senderVars, hist, acct>>

\* flush of a batch: Enqueue, which may drop and count the oldest one.
Flush ==
    /\ ppc \in {"start", "select"}
    /\ flushed < MaxBatches
    /\ ppc' = "select"
    /\ flushed' = flushed + 1
    /\ Q!Put(flushed + 1)
    /\ IF Q!Full THEN Count(Head(items), "queue_full") ELSE UNCHANGED acct
    /\ UNCHANGED <<now, bvars, ctxDone, drainAt, cancelled, senderVars, hist>>

\* Mutant of Interrupt: the senders' context derives from the application's.
InterruptCancels ==
    /\ ~ctxDone
    /\ ctxDone' = TRUE
    /\ cancelled' = TRUE
    /\ UNCHANGED <<now, bvars, qvars, ppc, drainAt, flushed, senderVars, hist, acct>>

\* SIGINT or SIGTERM cancels the application's context.
Interrupt ==
    /\ ~ctxDone
    /\ ctxDone' = TRUE
    /\ UNCHANGED <<now, bvars, qvars, ppc, drainAt, cancelled, flushed,
                   senderVars, hist, acct>>

\* shutdown: close the queue and start waiting for the sender.
Shutdown ==
    /\ ppc = "select" /\ ctxDone
    /\ ppc' = "draining"
    /\ drainAt' = now + DrainTimeout
    /\ Q!Shut
    /\ UNCHANGED <<now, bvars, ctxDone, cancelled, flushed, senderVars, hist, acct>>

\* shutdown: the drain timer fires first; cancelSenders, then wait again.
DrainExpires ==
    /\ ppc = "draining" /\ now >= drainAt
    /\ ppc' = "cancelling"
    /\ cancelled' = TRUE
    /\ UNCHANGED <<now, bvars, qvars, ctxDone, drainAt, flushed, senderVars, hist, acct>>

\* Mutant of Drained: no second wait after cancelSenders.
DrainedUnwaited ==
    /\ ppc = "cancelling" \/ (ppc = "draining" /\ spc = "exited")
    /\ ppc' = "done"
    /\ cancelled' = TRUE
    /\ UNCHANGED <<now, bvars, qvars, ctxDone, drainAt, flushed, senderVars, hist, acct>>

\* shutdown: the sender's goroutine has returned, so Run returns.
Drained ==
    /\ ppc \in {"draining", "cancelling"} /\ spc = "exited"
    /\ ppc' = "done"
    /\ cancelled' = TRUE
    /\ UNCHANGED <<now, bvars, qvars, ctxDone, drainAt, flushed, senderVars, hist, acct>>

-----------------------------------------------------------------------------
(* Sender *)

\* Leave processBatch, and its locals, for the next Dequeue.
Finish ==
    /\ spc' = "dequeue"
    /\ batch' = 0
    /\ attempt' = 0 /\ deadline' = ZeroTime /\ due' = 0
    /\ doomed' = FALSE /\ notBefore' = 0 /\ began' = 0

FinishAs(fate) == Finish /\ Count(batch, fate)

\* Mutant of Dequeue: the newest batch first.
DequeueNewest ==
    /\ spc = "dequeue" /\ items # <<>>
    /\ batch' = items[Len(items)]
    /\ items' = SubSeq(items, 1, Len(items) - 1)
    /\ spc' = "allow"
    /\ UNCHANGED <<closed, now, bvars, pusherVars, loopVars, hist, acct>>

\* Dequeue hands out a batch, cancelled or not.
Dequeue ==
    /\ spc = "dequeue"
    /\ \E b \in Batch : Q!Take(b) /\ batch' = b
    /\ spc' = "allow"
    /\ UNCHANGED <<now, bvars, pusherVars, loopVars, hist, acct>>

\* Mutant of SenderExits: an error from Dequeue is retried.
SenderSpins ==
    /\ spc = "dequeue" /\ items = <<>> /\ (closed \/ cancelled)
    /\ UNCHANGED vars

\* Dequeue fails only on an empty queue that is closed, or whose caller is
\* cancelled; either error ends Sender.Run.
SenderExits ==
    /\ spc = "dequeue" /\ items = <<>> /\ (closed \/ cancelled)
    /\ spc' = "exited"
    /\ UNCHANGED <<now, bvars, qvars, pusherVars, batch, loopVars, hist, acct>>

BreakerRefuses ==
    /\ spc = "allow" /\ B!AllowFalse
    /\ FinishAs("breaker_open")
    /\ UNCHANGED <<now, qvars, pusherVars, hist>>

\* Mutant of BreakerAllows: Allow's verdict is ignored.
BreakerBypassed ==
    /\ spc = "allow"
    /\ spc' = "encode"
    /\ UNCHANGED <<now, bvars, qvars, pusherVars, batch, loopVars, hist, acct>>

BreakerAllows ==
    /\ spc = "allow" /\ B!AllowTrue
    /\ spc' = "encode"
    /\ UNCHANGED <<now, qvars, pusherVars, batch, loopVars, hist, acct>>

\* Mutant of EncodeFails: the samples are not counted.
EncodeFailsSilently ==
    /\ spc = "encode"
    /\ Finish
    /\ UNCHANGED <<now, bvars, qvars, pusherVars, hist, acct>>

\* Marshalling fails: counted, but not held against the receiver.
EncodeFails ==
    /\ spc = "encode"
    /\ FinishAs("non_retryable")
    /\ UNCHANGED <<now, bvars, qvars, pusherVars, hist>>

\* sendContext and the start of the POST.  The transport refuses a request
\* whose context is already cancelled.
Post ==
    /\ spc' = "attempt"
    /\ due' = now + Timeout
    /\ doomed' = cancelled
    /\ posted' = IF cancelled THEN posted ELSE posted \cup {batch}

Encode ==
    /\ spc = "encode"
    /\ Post
    /\ attempt' = 0
    /\ deadline' = IF MaxElapsed > 0 THEN now + MaxElapsed ELSE ZeroTime
    /\ began' = now
    /\ notBefore' = now
    /\ probes' = IF state = B!BreakerHalfOpen THEN Minimum(probes + 1, 2) ELSE 0
    /\ UNCHANGED <<now, bvars, qvars, pusherVars, batch, acct>>

\* time.Duration is a signed 64-bit integer: products and shifts wrap around.
Wrapped(x) == ((x + MaxDuration + 1) % (2 * (MaxDuration + 1))) - (MaxDuration + 1)

\* Delta-seconds, whose product with time.Second may wrap, or a date, from which
\* Sub saturates; 0 if negative, past, absent or not parseable.
parseRetryAfter(h) ==
    CASE h.form = "seconds" /\ h.value >= 0 -> Wrapped(h.value)
      [] h.form = "date" /\ h.value > now -> Minimum(h.value - now, MaxDuration)
      [] OTHER -> 0

\* 2xx is success; 400, 401, 403, 404 are final; 408, 429, 5xx are retryable and
\* may carry Retry-After; everything else is retryable.
classifyStatus(status, h) ==
    CASE status \in 200..299 -> [kind |-> "nil", retryAfter |-> 0]
      [] status \in {400, 401, 403, 404} -> [kind |-> "non_retryable", retryAfter |-> 0]
      [] status \in {408, 429} \cup 500..599 ->
             [kind |-> "retryable", retryAfter |-> parseRetryAfter(h)]
      [] OTHER -> [kind |-> "retryable", retryAfter |-> 0]

\* Connection errors and a request that cannot be built are retried.
TransportError == [kind |-> "retryable", retryAfter |-> 0]

\* The upper end of the jitter: InitialBackoff doubled per attempt (at most 16
\* times), or MaxBackoff if that is more or has wrapped.
BackoffUpper(n) ==
    LET upper == Wrapped(InitialBackoff * 2^Minimum(n, 16))
    IN  IF upper > MaxBackoff \/ upper <= 0 THEN MaxBackoff ELSE upper

\* A Retry-After that counts, capped at MaxBackoff.
Floor(err) == IF err.retryAfter > 0 THEN Minimum(err.retryAfter, MaxBackoff) ELSE 0

\* Mutant of computeBackoff: the floor is not capped.
computeBackoffUncapped(n, err) ==
    {Maximum(j, err.retryAfter) : j \in 0..BackoffUpper(n)}

\* The waits computeBackoff may return: full jitter, raised to Retry-After.
\* Int63n(upper + 1) needs upper + 1 to be positive: RemoteWriteAssumption keeps
\* MaxBackoff below the largest duration, at which the sum would wrap.
computeBackoff(n, err) == {Maximum(j, Floor(err)) : j \in 0..BackoffUpper(n)}

\* Mutant of CutToDeadline: the wait may outlast the budget.
CutNothing(wait) == wait

\* What is left of the batch's time budget limits the wait.
CutToDeadline(wait) ==
    IF deadline = ZeroTime THEN wait ELSE Minimum(wait, deadline - now)

\* The budget is spent: last attempt, deadline passed, or no time left to wait.
\* A drawn wait of 0 also counts as "no time left" when there is a deadline.
BudgetSpent(wait) ==
    \/ attempt + 1 >= MaxAttempts
    \/ deadline # ZeroTime /\ (now > deadline \/ wait <= 0)

\* A failed attempt that may be repeated: give up or arm the backoff timer.
RetryOrGiveUp(err) ==
    \E w \in computeBackoff(attempt, err) :
        LET wait == CutToDeadline(w)
        IN  IF BudgetSpent(wait)
            THEN FinishAs("retry_budget_exhausted")
            ELSE /\ spc' = "backoff"
                 /\ due' = now + wait
                 /\ attempt' = attempt + 1
                 /\ notBefore' = now + Floor(err)
                 /\ UNCHANGED <<batch, deadline, doomed, began, acct>>

\* The attempt's switch, by error; every branch is the whole case.
AttemptSucceeds ==
    /\ spc = "attempt" /\ ~doomed
    /\ \E s \in Statuses, h \in RetryAfterHeaders : classifyStatus(s, h).kind = "nil"
    /\ B!RecordSuccess
    /\ FinishAs("sent")
    /\ probes' = 0
    /\ UNCHANGED <<now, qvars, pusherVars, posted>>

AttemptRejected ==
    /\ spc = "attempt" /\ ~doomed
    /\ \E s \in Statuses, h \in RetryAfterHeaders : classifyStatus(s, h).kind = "non_retryable"
    /\ B!RecordFailure
    /\ FinishAs("non_retryable")
    /\ probes' = 0
    /\ UNCHANGED <<now, qvars, pusherVars, posted>>

AttemptRetryable ==
    /\ spc = "attempt" /\ ~doomed
    /\ \/ \E s \in Statuses, h \in RetryAfterHeaders :
              /\ classifyStatus(s, h).kind = "retryable"
              /\ RetryOrGiveUp(classifyStatus(s, h))
       \/ RetryOrGiveUp(TransportError)
    /\ UNCHANGED <<now, bvars, qvars, pusherVars, hist>>

\* context.DeadlineExceeded: counted as a timeout and retried.
AttemptTimesOut ==
    /\ spc = "attempt" /\ ~doomed /\ now >= due
    /\ RetryOrGiveUp(TransportError)
    /\ UNCHANGED <<now, bvars, qvars, pusherVars, hist>>

\* context.Canceled: the drain budget ran out before or during the POST.
AttemptCancelled ==
    /\ spc = "attempt" /\ cancelled
    /\ FinishAs("shutdown_drain")
    /\ UNCHANGED <<now, bvars, qvars, pusherVars, hist>>

\* The select between the backoff timer and ctx.Done; when both are ready
\* either may be chosen.
BackoffEnds ==
    /\ spc = "backoff" /\ now >= due
    /\ Post
    /\ UNCHANGED <<probes, now, bvars, qvars, pusherVars, batch, attempt, deadline,
                   notBefore, began, acct>>

BackoffCancelled ==
    /\ spc = "backoff" /\ cancelled
    /\ FinishAs("shutdown_drain")
    /\ UNCHANGED <<now, bvars, qvars, pusherVars, hist>>

-----------------------------------------------------------------------------

TimerDue ==
    \/ spc \in {"attempt", "backoff"} /\ now >= due
    \/ ppc = "draining" /\ now >= drainAt

Tick ==
    /\ now < MaxNow \/ ppc = "draining"
    /\ ~TimerDue
    /\ now' = now + 1
    /\ UNCHANGED <<bvars, qvars, pusherVars, senderVars, hist, acct>>

PusherNext == FlushNothing \/ Flush \/ Shutdown \/ DrainExpires \/ Drained

Answer == AttemptSucceeds \/ AttemptRejected \/ AttemptRetryable

SenderNext ==
    \/ Dequeue \/ SenderExits \/ BreakerRefuses \/ BreakerAllows
    \/ EncodeFails \/ Encode
    \/ AttemptTimesOut \/ AttemptCancelled \/ BackoffEnds \/ BackoffCancelled

Finished == ppc = "done" /\ UNCHANGED vars

Next == PusherNext \/ Interrupt \/ SenderNext \/ Answer \/ Tick \/ Finished

\* Goroutines that can run do, and time passes.  The receiver need not answer,
\* the application need not be interrupted and the registry need not be full.
Fairness ==
    /\ WF_vars(Shutdown) /\ WF_vars(DrainExpires) /\ WF_vars(Drained)
    /\ WF_vars(FlushNothing \/ Flush)
    /\ WF_vars(SenderNext)
    /\ WF_vars(Tick)

Spec == Init /\ [][Next]_vars

FairSpec == Spec /\ Fairness

-----------------------------------------------------------------------------
(* Properties *)

\* How many times batch b is buffered, held by the sender, or counted.
Buffered(b) == Cardinality({i \in 1..Len(items) : items[i] = b})
Held(b) == IF batch = b THEN 1 ELSE 0
Counted(b) == Len(acct[b])

\* Every batch the Pusher enqueued is in exactly one place, or has been added to
\* exactly one of the samples counters; none is lost or counted twice, through
\* overflow, breaker drops, retries, cancellation and drain.
CountedOnce ==
    \A b \in Batch :
        Buffered(b) + Held(b) + Counted(b) = IF b <= flushed THEN 1 ELSE 0

\* When Run returns there is nothing left to count.
NothingLeftBehind == ppc = "done" => items = <<>> /\ batch = 0 /\ spc = "exited"

\* shutdown_drain is a verdict of the drain timer alone: a batch is abandoned
\* only after a full DrainTimeout of trying.
DrainIsGiven ==
    (\E b \in Batch : acct[b] = <<"shutdown_drain">>)
        => cancelled /\ closed /\ now >= drainAt

\* Batches leave in the order they were gathered: a batch is first POSTed only
\* after every older one has been counted, and never again after its own count.
InOrder ==
    \A b \in Batch : spc = "attempt" /\ batch = b =>
        /\ \A a \in 1..(b - 1) : Counted(a) = 1
        /\ \A c \in (b + 1)..MaxBatches : c \notin posted

\* A batch keeps the sender busy for at most MaxElapsed plus one Timeout, and no
\* single wait is longer than MaxBackoff or over before it began, whatever the
\* receiver asks for, a Retry-After that wraps around included: a slow or
\* misbehaving receiver delays the next batch by no more than that.
BoundedProcessing ==
    /\ spc = "backoff" => due - now \in 0..MaxBackoff
    /\ MaxElapsed > 0 /\ spc \in {"attempt", "backoff"}
           => now <= began + MaxElapsed + Timeout

\* The sender calls the breaker as Breaker.tla assumes, so what holds of every
\* behaviour of Breaker holds here.
UsesBreaker == B!Spec

\* A cancelled application gets its Pusher back, with a receiver that may never
\* answer, whatever is queued.
ShutdownTerminates == ctxDone ~> (ppc = "done")

\* A Retry-After is a minimum delay (capped at MaxBackoff).
RetryAfterHonored == [][spc = "backoff" /\ spc' = "attempt" => now >= notBefore]_vars

\* The comment on CircuitBreaker: half-open probes once, so between leaving open
\* and the next verdict on the receiver only one batch is POSTed.
ProbesOnce == probes <= 1
=============================================================================
