------------------------------- MODULE Breaker -------------------------------
(***************************************************************************)
(* internal/remotewrite/breaker.go: the circuit breaker of one endpoint,   *)
(* with the way its only user (Sender.processBatch) calls it: Allow before *)
(* a batch, then at most one RecordSuccess or RecordFailure.  A batch that *)
(* ends in retryable errors, an encoding error or a cancelled context      *)
(* records nothing.  Methods hold cb.mu throughout, so each is one action. *)
(***************************************************************************)
EXTENDS Integers, Sequences

CONSTANTS
    FailureThreshold, Window, Cooldown,   \* BreakerConfig, defaults applied
    MaxNow,                               \* bound: last instant of the clock
    MaxStreak                             \* bound: failures with no success between

ASSUME BreakerAssumption ==
    /\ FailureThreshold \in Nat \ {0}
    /\ Window \in Nat \ {0}
    /\ Cooldown \in Nat \ {0}
    /\ MaxNow \in Nat
    /\ MaxStreak \in Nat

VARIABLES
    now,          \* cb.now(), in ticks of a monotonic clock
    state,        \* cb.state
    failures,     \* cb.failures, oldest first
    openedAt,     \* cb.openedAt
    stateGauge,   \* circuit_breaker_state, set by OnStateChange
    admitted,     \* a batch let through by Allow is being sent
    streak,       \* history: times of all failures since a success or an opening
    opening       \* history: when the state last became open; at first, long ago

bvars == <<state, failures, openedAt, stateGauge, streak, opening>>
vars == <<now, bvars, admitted>>

BreakerClosed == 0
BreakerOpen == 1
BreakerHalfOpen == 2
States == {BreakerClosed, BreakerOpen, BreakerHalfOpen}

TypeOK ==
    /\ now \in Nat
    /\ state \in States
    /\ failures \in Seq(Nat)
    /\ openedAt \in Nat
    /\ stateGauge \in States
    /\ admitted \in BOOLEAN
    /\ streak \in Seq(Nat)
    /\ opening \in Int

Init ==
    /\ now = 0
    /\ state = BreakerClosed
    /\ failures = <<>>
    /\ openedAt = 0
    /\ stateGauge = BreakerClosed
    /\ admitted = FALSE
    /\ streak = <<>>
    /\ opening = -Cooldown

\* Mutant of setStateLocked: the observer is not told.
setStateUnreported(s) == state' = s /\ UNCHANGED stateGauge

\* A state set to its own value is no change and is not reported.
setStateLocked(s) ==
    /\ state' = s
    /\ stateGauge' = IF state = s THEN stateGauge ELSE s

\* Mutant of StateAfterAllow: the cooldown ends one tick early.
StateAfterAllowEarly ==
    IF state = BreakerOpen /\ now + 1 - openedAt >= Cooldown THEN BreakerHalfOpen ELSE state

\* What Allow leaves in cb.state: an open breaker past its cooldown half-opens.
StateAfterAllow ==
    IF state = BreakerOpen /\ now - openedAt >= Cooldown THEN BreakerHalfOpen ELSE state

\* Allow lets a batch through: the breaker is closed or (now) half-open.
AllowTrue ==
    /\ StateAfterAllow # BreakerOpen
    /\ setStateLocked(StateAfterAllow)
    /\ UNCHANGED <<failures, openedAt, streak, opening>>

\* Allow refuses: nothing changes.
AllowFalse == StateAfterAllow = BreakerOpen /\ UNCHANGED bvars

RecordSuccess ==
    /\ setStateLocked(BreakerClosed)
    /\ failures' = <<>>
    /\ streak' = <<>>
    /\ UNCHANGED <<openedAt, opening>>

\* Mutants of Pruned: a failure leaves the window one tick early, or late.
PrunedEarly(s, cutoff) ==
    LET first == CHOOSE k \in 1..(Len(s) + 1) :
                    \A i \in 1..Len(s) : (i >= k) <=> (s[i] > cutoff + 1)
    IN  SubSeq(s, first, Len(s))

PrunedLate(s, cutoff) ==
    LET first == CHOOSE k \in 1..(Len(s) + 1) :
                    \A i \in 1..Len(s) : (i >= k) <=> (s[i] >= cutoff)
    IN  SubSeq(s, first, Len(s))

\* The failures still inside the window.  Times are recorded in ascending
\* order, so the ones to keep are a suffix.
Pruned(s, cutoff) ==
    LET first == CHOOSE k \in 1..(Len(s) + 1) :
                    \A i \in 1..Len(s) : (i >= k) <=> (s[i] > cutoff)
    IN  SubSeq(s, first, Len(s))

\* Mutant of FailuresWhenOpened: the list is not cleared.
FailuresKept(fs) == fs

FailuresWhenOpened(fs) == <<>>

\* Mutant of Opened: a breaker that re-opens keeps the time of its first opening.
OpenedOnce ==
    /\ openedAt' = IF state = BreakerHalfOpen THEN openedAt ELSE now
    /\ setStateLocked(BreakerOpen)

Opened == openedAt' = now /\ setStateLocked(BreakerOpen)

\* In half-open the breaker re-opens at once and failures are left alone;
\* otherwise the failure is added to the pruned window, which opens the
\* breaker and is cleared when it reaches the threshold.
RecordFailure ==
    /\ IF state = BreakerHalfOpen
       THEN Opened /\ streak' = <<>> /\ UNCHANGED failures
       ELSE LET fs == Append(Pruned(failures, now - Window), now)
            IN  IF Len(fs) >= FailureThreshold
                THEN /\ Opened
                     /\ failures' = FailuresWhenOpened(fs)
                     /\ streak' = <<>>
                ELSE /\ failures' = fs
                     /\ streak' = Append(streak, now)
                     /\ UNCHANGED <<state, stateGauge, openedAt>>
    /\ opening' = IF state # BreakerOpen /\ state' = BreakerOpen THEN now ELSE opening

-----------------------------------------------------------------------------
(* The sender's calls *)

Refuse == ~admitted /\ AllowFalse /\ UNCHANGED <<now, admitted>>

Admit == ~admitted /\ AllowTrue /\ admitted' = TRUE /\ UNCHANGED now

Succeed == admitted /\ RecordSuccess /\ admitted' = FALSE /\ UNCHANGED now

Fail ==
    /\ admitted /\ Len(streak) < MaxStreak
    /\ RecordFailure
    /\ admitted' = FALSE
    /\ UNCHANGED now

\* The batch ends without a verdict on the receiver.
Abandon == admitted /\ admitted' = FALSE /\ UNCHANGED <<now, bvars>>

Tick == now < MaxNow /\ now' = now + 1 /\ UNCHANGED <<bvars, admitted>>

Next == Refuse \/ Admit \/ Succeed \/ Fail \/ Abandon \/ Tick

Spec == Init /\ [][Next]_vars

-----------------------------------------------------------------------------
(* Properties *)

\* cb.failures is what the rolling window needs and no more: ascending times,
\* fewer than the threshold, empty unless closed, a suffix of the true failure
\* record from which only failures outside the window have been forgotten.
FailureList ==
    /\ Len(failures) < FailureThreshold
    /\ state # BreakerClosed => failures = <<>> /\ streak = <<>>
    /\ \A i, j \in 1..Len(streak) : i <= j => streak[i] <= streak[j]
    /\ \A i \in 1..Len(streak) : streak[i] <= now
    /\ Len(failures) <= Len(streak)
    /\ \A i \in 1..Len(failures) : failures[i] = streak[Len(streak) - Len(failures) + i]
    /\ \A i \in 1..(Len(streak) - Len(failures)) : streak[i] <= now - Window

\* The breaker cannot miss an overload: while it is closed, the
\* FailureThreshold-th most recent failure, if there is one, has left the window.
ClosedMeansFewFailures ==
    state = BreakerClosed /\ Len(streak) >= FailureThreshold
        => streak[Len(streak) - FailureThreshold + 1] <= now - Window

\* It cannot cry wolf: a closed breaker opens only on a failure that makes
\* FailureThreshold of them, with no success between, within the window.
OpensOnlyOnThreshold ==
    [][state = BreakerClosed /\ state' = BreakerOpen =>
          /\ Len(streak) + 1 >= FailureThreshold
          /\ FailureThreshold > 1 =>
                streak[Len(streak) - FailureThreshold + 2] > now - Window]_vars

\* After every opening, the first and those of failed probes alike, no batch is let
\* through for a whole Cooldown, judged by when the state changed and not by the time
\* the code keeps.
CooldownIsQuiet == [][admitted' /\ ~admitted => now >= opening + Cooldown]_vars

\* The exported gauge is the state at all times, and a batch in progress was
\* never sent past an open breaker.
GaugeShowsState == stateGauge = state /\ (admitted => state # BreakerOpen)
=============================================================================
