---------------------------- MODULE BreakerProofs ----------------------------
(***************************************************************************)
(* Breaker.tla for every threshold, window and cooldown, and an unbounded  *)
(* clock and failure record.                                               *)
(***************************************************************************)
EXTENDS Breaker, SequenceTheorems, WellFoundedInduction, TLAPS

-----------------------------------------------------------------------------
(* Pruning *)

Ascending(s) == \A i, j \in 1..Len(s) : i <= j => s[i] <= s[j]

\* k is where the part of s after cutoff begins.
Cut(s, cutoff, k) == \A i \in 1..Len(s) : (i >= k) <=> (s[i] > cutoff)

\* A non-empty set of numbers has a least element.
LEMMA LeastNumber ==
  ASSUME NEW T \in SUBSET Nat, T # {}
  PROVE  \E x \in T : \A y \in T : x <= y
<1>1. PICK x \in T : \A y \in T : ~ (<<y, x>> \in OpToRel(<, Nat))
  BY NatLessThanWellFounded, WFMin
<1>2. \A y \in T : ~ (y < x)
  BY <1>1 DEF OpToRel
<1> QED
  BY <1>2

\* An ascending sequence has such a k.
LEMMA CutExists ==
  ASSUME NEW s \in Seq(Nat), NEW cutoff \in Int, Ascending(s)
  PROVE  \E k \in 1..(Len(s) + 1) : Cut(s, cutoff, k)
<1> DEFINE late == {i \in 1..Len(s) : s[i] > cutoff}
<1>0. Len(s) \in Nat /\ \A i \in 1..Len(s) : s[i] \in Nat
  OBVIOUS
<1>1. CASE late = {}
  <2>1. Cut(s, cutoff, Len(s) + 1)
    BY <1>0, <1>1 DEF Cut
  <2>2. Len(s) + 1 \in 1..(Len(s) + 1)
    BY <1>0
  <2> QED
    BY <2>1, <2>2
<1>2. CASE late # {}
  <2>0. late \in SUBSET Nat
    BY <1>0
  <2>1. PICK k \in late : \A i \in late : k <= i
    <3> HIDE DEF late
    <3> QED
      BY <1>2, <2>0, LeastNumber
  <2>2. k \in 1..(Len(s) + 1)
    BY <1>0
  <2>3. Cut(s, cutoff, k)
    BY <1>0, <2>1 DEF Cut, Ascending
  <2> QED
    BY <2>2, <2>3
<1> QED
  BY <1>1, <1>2

\* What Pruned keeps of an ascending sequence: the suffix after cutoff.
LEMMA PrunedIsSuffix ==
  ASSUME NEW s \in Seq(Nat), NEW cutoff \in Int, Ascending(s)
  PROVE  /\ Pruned(s, cutoff) \in Seq(Nat)
         /\ Len(Pruned(s, cutoff)) <= Len(s)
         /\ \A i \in 1..Len(Pruned(s, cutoff)) :
               /\ Pruned(s, cutoff)[i] = s[Len(s) - Len(Pruned(s, cutoff)) + i]
               /\ Pruned(s, cutoff)[i] > cutoff
         /\ \A i \in 1..(Len(s) - Len(Pruned(s, cutoff))) : s[i] <= cutoff
<1> DEFINE first == CHOOSE k \in 1..(Len(s) + 1) :
                       \A i \in 1..Len(s) : (i >= k) <=> (s[i] > cutoff)
<1>1. first \in 1..(Len(s) + 1) /\ \A i \in 1..Len(s) : (i >= first) <=> (s[i] > cutoff)
  BY CutExists DEF Cut
<1>2. Pruned(s, cutoff) = SubSeq(s, first, Len(s))
  BY DEF Pruned
<1> HIDE DEF first
<1>3. Len(s) \in Nat /\ \A i \in 1..Len(s) : s[i] \in Nat
  OBVIOUS
<1>4. /\ SubSeq(s, first, Len(s)) \in Seq(Nat)
      /\ Len(SubSeq(s, first, Len(s))) = IF first <= Len(s) THEN Len(s) - first + 1 ELSE 0
      /\ \A i \in 1..(Len(s) - first + 1) : SubSeq(s, first, Len(s))[i] = s[first + i - 1]
  <2>1. first \in Int /\ Len(s) \in Int /\ \A i \in first..Len(s) : s[i] \in Nat
    BY <1>1, <1>3
  <2> QED
    BY <2>1, SubSeqProperties
<1> DEFINE p == Pruned(s, cutoff)
<1>5. p \in Seq(Nat) /\ Len(p) = Len(s) - first + 1 /\ \A i \in 1..Len(p) : p[i] = s[first + i - 1]
  BY <1>1, <1>2, <1>3, <1>4
<1> HIDE DEF p
<1>6. Len(p) <= Len(s) /\ Len(p) \in Nat /\ Len(s) - Len(p) = first - 1
  BY <1>1, <1>3, <1>5
<1>7. \A i \in 1..Len(p) : p[i] = s[Len(s) - Len(p) + i] /\ p[i] > cutoff
  <2> TAKE i \in 1..Len(p)
  <2>1. /\ first + i - 1 = Len(s) - Len(p) + i
        /\ first + i - 1 \in 1..Len(s)
        /\ first + i - 1 >= first
    BY <1>1, <1>3, <1>5, <1>6
  <2>2. p[i] = s[first + i - 1]
    BY <1>5
  <2>3. s[first + i - 1] > cutoff
    BY <1>1, <2>1
  <2> QED
    BY <2>1, <2>2, <2>3
<1>8. \A i \in 1..(Len(s) - Len(p)) : s[i] <= cutoff
  BY <1>1, <1>3, <1>6
<1>9. p \in Seq(Nat)
  BY <1>5
<1>10. Len(p) <= Len(s)
  BY <1>6
<1> QED
  BY <1>7, <1>8, <1>9, <1>10 DEF p

-----------------------------------------------------------------------------
(* The inductive invariant *)

\* While the breaker is open, openedAt is when it became so; in any other state
\* the cooldown of the last opening is over.
OpeningKnown ==
    /\ state = BreakerOpen => opening = openedAt
    /\ state # BreakerOpen => now >= opening + Cooldown

\* FailureList alone is not inductive: a failure recorded in the open state
\* would break it, and that no batch is in progress then is GaugeShowsState.
\* The last conjunct ties the time the code keeps to the one the history keeps.
IInv == TypeOK /\ FailureList /\ GaugeShowsState /\ OpeningKnown

\* What RecordFailure's window holds when a closed breaker records a failure:
\* the pruned list is the part of the failure record that is in the window.
LEMMA PrunedMatchesStreak ==
  ASSUME IInv,
         NEW p, p = Pruned(failures, now - Window)
  PROVE  /\ p \in Seq(Nat) /\ Len(p) \in Nat
         /\ Len(p) <= Len(failures)
         /\ Len(p) <= Len(streak)
         /\ \A i \in 1..Len(p) : /\ p[i] = streak[Len(streak) - Len(p) + i]
                                 /\ p[i] > now - Window
         /\ \A i \in 1..(Len(streak) - Len(p)) : streak[i] <= now - Window
<1> DEFINE f == failures
           d == Len(streak) - Len(failures)
           cutoff == now - Window
<1>1. /\ Len(f) \in Nat /\ Len(streak) \in Nat /\ d \in Nat
      /\ f \in Seq(Nat) /\ cutoff \in Int
      /\ \A i \in 1..Len(streak) : streak[i] \in Nat
  BY BreakerAssumption DEF IInv, TypeOK, FailureList
<1>2. /\ \A i \in 1..Len(f) : f[i] = streak[d + i]
      /\ \A i \in 1..d : streak[i] <= cutoff
      /\ \A i, j \in 1..Len(streak) : i <= j => streak[i] <= streak[j]
      /\ Len(streak) = d + Len(f)
  BY <1>1 DEF IInv, FailureList
<1> HIDE DEF f, d, cutoff
<1>3. Ascending(f)
  <2> SUFFICES ASSUME NEW i \in 1..Len(f), NEW j \in 1..Len(f), i <= j
               PROVE  f[i] <= f[j]
    BY DEF Ascending
  <2>1. d + i \in 1..Len(streak) /\ d + j \in 1..Len(streak) /\ d + i <= d + j
    BY <1>1, <1>2
  <2> QED
    BY <1>2, <2>1
<1>4. p = Pruned(f, cutoff)
  BY DEF f, cutoff
<1>5. /\ p \in Seq(Nat)
      /\ Len(p) <= Len(f)
      /\ \A i \in 1..Len(p) : p[i] = f[Len(f) - Len(p) + i] /\ p[i] > cutoff
      /\ \A i \in 1..(Len(f) - Len(p)) : f[i] <= cutoff
  BY <1>1, <1>3, <1>4, PrunedIsSuffix
<1>6. Len(p) \in Nat
  BY <1>5
<1>7. \A i \in 1..Len(p) : p[i] = streak[Len(streak) - Len(p) + i]
  <2> TAKE i \in 1..Len(p)
  <2>1. Len(f) - Len(p) + i \in 1..Len(f)
    BY <1>1, <1>5, <1>6
  <2>2. d + (Len(f) - Len(p) + i) = Len(streak) - Len(p) + i
    BY <1>1, <1>2, <1>6
  <2> QED
    BY <1>2, <1>5, <2>1, <2>2
<1>8. \A i \in 1..(Len(streak) - Len(p)) : streak[i] <= cutoff
  <2> TAKE i \in 1..(Len(streak) - Len(p))
  <2>1. CASE i <= d
    BY <1>1, <1>2, <1>6, <2>1
  <2>2. CASE i > d
    <3>1. i - d \in 1..(Len(f) - Len(p)) /\ i - d \in 1..Len(f) /\ d + (i - d) = i
      BY <1>1, <1>2, <1>5, <1>6, <2>2
    <3> QED
      BY <1>2, <1>5, <3>1
  <2> QED
    BY <1>1, <1>6, <2>1, <2>2
<1>9. Len(p) <= Len(streak)
  BY <1>1, <1>2, <1>5, <1>6
<1> QED
  BY <1>5, <1>6, <1>7, <1>8, <1>9 DEF f, cutoff

\* The empty sequence is a list of times.
LEMMA EmptyTimes == <<>> \in Seq(Nat)
OBVIOUS

\* The breaker starts in the invariant.
LEMMA InitIInv == Init => IInv
<1> SUFFICES ASSUME Init PROVE IInv
  OBVIOUS
<1>1. TypeOK
  <2>1. failures \in Seq(Nat) /\ streak \in Seq(Nat)
    BY EmptyTimes DEF Init
  <2>2. now \in Nat /\ openedAt \in Nat /\ opening \in Int
    BY BreakerAssumption DEF Init
  <2>3. state \in States /\ stateGauge \in States /\ admitted \in BOOLEAN
    BY DEF Init, States
  <2> QED
    BY <2>1, <2>2, <2>3 DEF TypeOK
<1>2. Len(failures) = 0 /\ Len(streak) = 0 /\ state = BreakerClosed
  BY DEF Init
<1>3. FailureList
  BY <1>2, BreakerAssumption DEF FailureList
<1>4. GaugeShowsState
  BY DEF Init, GaugeShowsState
<1>5. OpeningKnown
  BY BreakerAssumption DEF Init, OpeningKnown, BreakerClosed, BreakerOpen
<1> QED
  BY <1>1, <1>3, <1>4, <1>5 DEF IInv

\* Every call of the sender and every tick of the clock keeps the invariant.
LEMMA NextIInv == IInv /\ [Next]_vars => IInv'
<1> SUFFICES ASSUME IInv, [Next]_vars PROVE IInv'
  OBVIOUS
<1>0. /\ FailureThreshold \in Nat \ {0} /\ Window \in Nat /\ now \in Nat /\ openedAt \in Nat
      /\ failures \in Seq(Nat) /\ streak \in Seq(Nat)
      /\ state \in States /\ stateGauge = state /\ opening \in Int /\ Cooldown \in Nat
  BY BreakerAssumption DEF IInv, TypeOK, GaugeShowsState
<1>e. ASSUME failures' = <<>>, streak' = <<>>
      PROVE  FailureList' /\ failures' \in Seq(Nat) /\ streak' \in Seq(Nat)
  <2>1. Len(failures') = 0 /\ Len(streak') = 0
    BY <1>e
  <2> QED
    BY <1>0, <1>e, <2>1, EmptyTimes DEF FailureList
<1>1. CASE Refuse
  BY <1>1 DEF IInv, TypeOK, FailureList, GaugeShowsState, OpeningKnown, Refuse, AllowFalse, bvars
<1>2. CASE Admit
  <2>1. /\ UNCHANGED <<now, failures, openedAt, streak, opening>>
        /\ state' = StateAfterAllow /\ stateGauge' = state' /\ state' # BreakerOpen
        /\ admitted' = TRUE
    BY <1>0, <1>2 DEF Admit, AllowTrue, setStateLocked
  <2>2. state' \in States /\ (state' = BreakerClosed <=> state = BreakerClosed)
    BY <1>0, <2>1 DEF StateAfterAllow, States, BreakerClosed, BreakerOpen, BreakerHalfOpen
  <2>3. TypeOK'
    BY <2>1, <2>2 DEF IInv, TypeOK
  <2>4. FailureList'
    BY <2>1, <2>2 DEF IInv, FailureList
  <2>5. now >= opening + Cooldown
    BY <1>0, <2>1 DEF IInv, OpeningKnown, StateAfterAllow
  <2> QED
    BY <2>1, <2>3, <2>4, <2>5 DEF IInv, GaugeShowsState, OpeningKnown
<1>3. CASE Succeed
  <2>1. /\ state' = BreakerClosed /\ stateGauge' = BreakerClosed /\ admitted' = FALSE
        /\ failures' = <<>> /\ streak' = <<>> /\ UNCHANGED <<now, openedAt, opening>>
    BY <1>0, <1>3 DEF Succeed, RecordSuccess, setStateLocked
  <2>2. TypeOK'
    BY <1>0, <1>e, <2>1 DEF TypeOK, States
  <2>3. FailureList'
    BY <1>e, <2>1
  <2>4. now >= opening + Cooldown
    BY <1>3 DEF Succeed, IInv, GaugeShowsState, OpeningKnown
  <2>5. OpeningKnown'
    BY <2>1, <2>4 DEF OpeningKnown, BreakerClosed, BreakerOpen
  <2> QED
    BY <2>1, <2>2, <2>3, <2>5 DEF IInv, GaugeShowsState
<1>4. CASE Fail
  <2>0. admitted /\ RecordFailure /\ admitted' = FALSE /\ now' = now /\ state # BreakerOpen
    BY <1>4 DEF Fail, IInv, GaugeShowsState
  <2>1. CASE state = BreakerHalfOpen
    <3>1. /\ openedAt' = now /\ state' = BreakerOpen /\ stateGauge' = BreakerOpen
          /\ streak' = <<>> /\ failures' = failures /\ failures = <<>>
          /\ opening' = now
      BY <1>0, <2>0, <2>1 DEF RecordFailure, Opened, setStateLocked, IInv, FailureList,
                              BreakerClosed, BreakerHalfOpen
    <3>2. TypeOK'
      <4>1. opening' \in Int
        BY <1>0, <3>1
      <4> QED
        BY <1>0, <2>0, <3>1, <4>1 DEF TypeOK, States
    <3>3. FailureList'
      BY <1>e, <3>1
    <3>4. OpeningKnown'
      BY <3>1 DEF OpeningKnown
    <3> QED
      BY <2>0, <3>1, <3>2, <3>3, <3>4 DEF IInv, GaugeShowsState
  <2>2. CASE state = BreakerClosed
    <3> DEFINE p == Pruned(failures, now - Window)
               fs == Append(p, now)
    <3>1. /\ p \in Seq(Nat) /\ Len(p) \in Nat
          /\ Len(p) <= Len(streak)
          /\ \A i \in 1..Len(p) : p[i] = streak[Len(streak) - Len(p) + i]
          /\ \A i \in 1..(Len(streak) - Len(p)) : streak[i] <= now - Window
      BY PrunedMatchesStreak
    <3>2. state # BreakerHalfOpen
      BY <2>2 DEF BreakerClosed, BreakerHalfOpen
    <3>3. CASE Len(fs) >= FailureThreshold
      <4>1. /\ openedAt' = now /\ state' = BreakerOpen /\ stateGauge' = BreakerOpen
            /\ failures' = <<>> /\ streak' = <<>> /\ opening' = now
        BY <1>0, <2>0, <3>2, <3>3 DEF RecordFailure, Opened, setStateLocked, FailuresWhenOpened
      <4>2. TypeOK'
        <5>1. opening' \in Int
          BY <1>0, <4>1
        <5> QED
          BY <1>0, <1>e, <2>0, <4>1, <5>1 DEF TypeOK, States
      <4>3. FailureList'
        BY <1>e, <4>1
      <4>4. OpeningKnown'
        BY <4>1 DEF OpeningKnown
      <4> QED
        BY <2>0, <4>1, <4>2, <4>3, <4>4 DEF IInv, GaugeShowsState
    <3>4. CASE ~ (Len(fs) >= FailureThreshold)
      <4>1. /\ failures' = fs /\ streak' = Append(streak, now)
            /\ UNCHANGED <<state, stateGauge, openedAt, opening>>
        BY <2>0, <3>2, <3>4 DEF RecordFailure
      <4> HIDE DEF p
      <4>2. /\ fs \in Seq(Nat) /\ Len(fs) = Len(p) + 1
            /\ \A i \in 1..Len(p) : fs[i] = p[i]
            /\ fs[Len(p) + 1] = now
        BY <1>0, <3>1
      <4>3. /\ streak' \in Seq(Nat) /\ Len(streak') = Len(streak) + 1 /\ Len(streak) \in Nat
            /\ \A i \in 1..Len(streak) : streak'[i] = streak[i] /\ streak[i] \in Nat
            /\ streak'[Len(streak) + 1] = now
        BY <1>0, <4>1
      <4> HIDE DEF fs
      <4>4. TypeOK'
        BY <1>0, <2>0, <4>1, <4>2, <4>3 DEF IInv, TypeOK
      <4>5. Len(failures') < FailureThreshold /\ Len(failures') <= Len(streak')
        BY <1>0, <3>1, <3>4, <4>1, <4>2, <4>3
      <4>6. state' = BreakerClosed
        BY <2>2, <4>1
      <4>7. \A i \in 1..Len(streak') : streak'[i] <= now'
        <5> SUFFICES ASSUME NEW i \in 1..(Len(streak) + 1) PROVE streak'[i] <= now
          BY <2>0, <4>3
        <5>1. CASE i = Len(streak) + 1
          BY <1>0, <4>3, <5>1
        <5>2. CASE i \in 1..Len(streak)
          BY <4>3, <5>2 DEF IInv, FailureList
        <5> QED
          BY <4>3, <5>1, <5>2
      <4>8. \A i, j \in 1..Len(streak') : i <= j => streak'[i] <= streak'[j]
        <5> SUFFICES ASSUME NEW i \in 1..Len(streak'), NEW j \in 1..Len(streak'), i <= j
                     PROVE  streak'[i] <= streak'[j]
          OBVIOUS
        <5>1. CASE j = Len(streak) + 1
          BY <2>0, <4>3, <4>7, <5>1
        <5>2. CASE j # Len(streak) + 1
          <6>1. i \in 1..Len(streak) /\ j \in 1..Len(streak)
            BY <4>3, <5>2
          <6> QED
            BY <4>3, <6>1 DEF IInv, FailureList
        <5> QED
          BY <5>1, <5>2
      <4>9. \A i \in 1..Len(failures') :
               failures'[i] = streak'[Len(streak') - Len(failures') + i]
        <5> SUFFICES ASSUME NEW i \in 1..Len(fs)
                     PROVE  fs[i] = streak'[Len(streak) - Len(p) + i]
          <6>1. Len(streak') - Len(failures') = Len(streak) - Len(p)
            BY <3>1, <4>1, <4>2, <4>3
          <6> QED
            BY <4>1, <6>1
        <5>1. CASE i = Len(p) + 1
          <6>1. Len(streak) - Len(p) + i = Len(streak) + 1
            BY <3>1, <4>3, <5>1
          <6> QED
            BY <4>2, <4>3, <5>1, <6>1
        <5>2. CASE i # Len(p) + 1
          <6>1. i \in 1..Len(p) /\ Len(streak) - Len(p) + i \in 1..Len(streak)
            BY <3>1, <4>2, <4>3, <5>2
          <6> QED
            BY <3>1, <4>2, <4>3, <6>1
        <5> QED
          BY <5>1, <5>2
      <4>10. \A i \in 1..(Len(streak') - Len(failures')) : streak'[i] <= now' - Window
        BY <2>0, <3>1, <4>1, <4>2, <4>3
      <4>11. FailureList'
        BY <4>5, <4>6, <4>7, <4>8, <4>9, <4>10 DEF FailureList
      <4>12. GaugeShowsState'
        BY <1>0, <2>0, <4>1 DEF GaugeShowsState
      <4>13. OpeningKnown'
        BY <2>0, <4>1 DEF IInv, OpeningKnown
      <4> QED
        BY <4>4, <4>11, <4>12, <4>13 DEF IInv
    <3> QED
      BY <3>3, <3>4
  <2> QED
    BY <1>0, <2>0, <2>1, <2>2 DEF States
<1>5. CASE Abandon
  BY <1>5 DEF IInv, TypeOK, FailureList, GaugeShowsState, OpeningKnown, Abandon, bvars
<1>6. CASE Tick
  <2>1. /\ now' = now + 1
        /\ UNCHANGED <<state, failures, openedAt, stateGauge, streak, opening, admitted>>
    BY <1>6 DEF Tick, bvars
  <2>2. TypeOK'
    BY <1>0, <2>1 DEF IInv, TypeOK
  <2>3. Len(streak) \in Nat /\ Len(failures) \in Nat /\ \A i \in 1..Len(streak) : streak[i] \in Nat
    BY <1>0
  <2>4. FailureList'
    <3>1. \A i \in 1..Len(streak') : streak'[i] <= now'
      BY <1>0, <2>1, <2>3 DEF IInv, FailureList
    <3>2. \A i \in 1..(Len(streak') - Len(failures')) : streak'[i] <= now' - Window
      <4> SUFFICES ASSUME NEW i \in 1..(Len(streak') - Len(failures'))
                   PROVE  streak'[i] <= now' - Window
        OBVIOUS
      <4>1. i \in 1..(Len(streak) - Len(failures)) /\ streak'[i] = streak[i]
        BY <2>1
      <4>2. i \in 1..Len(streak) /\ streak[i] <= now - Window
        BY <2>3, <4>1 DEF IInv, FailureList
      <4> QED
        BY <1>0, <2>1, <2>3, <4>1, <4>2
    <3> QED
      BY <2>1, <3>1, <3>2 DEF IInv, FailureList
  <2>5. OpeningKnown'
    BY <1>0, <2>1 DEF IInv, OpeningKnown
  <2> QED
    BY <2>1, <2>2, <2>4, <2>5 DEF IInv, GaugeShowsState
<1>7. CASE UNCHANGED vars
  BY <1>7 DEF IInv, TypeOK, FailureList, GaugeShowsState, OpeningKnown, vars, bvars
<1> QED
  BY <1>1, <1>2, <1>3, <1>4, <1>5, <1>6, <1>7 DEF Next

-----------------------------------------------------------------------------
(* Theorems *)

\* The joint invariant of the breaker and the sender's calls holds.
THEOREM BreakerInvariant == Spec => []IInv
BY InitIInv, NextIInv, PTL DEF Spec

\* Types of the breaker's fields.
THEOREM BreakerTypeCorrect == Spec => []TypeOK
<1>1. IInv => TypeOK
  BY DEF IInv
<1> QED
  BY <1>1, BreakerInvariant, PTL

\* cb.failures is the in-window suffix of the true failure record, for every
\* threshold and window and however long the record grows.
THEOREM WindowIsExact == Spec => []FailureList
<1>1. IInv => FailureList
  BY DEF IInv
<1> QED
  BY <1>1, BreakerInvariant, PTL

\* The circuit_breaker_state gauge shows cb.state and no batch is sent past an
\* open breaker.
THEOREM GaugeIsCurrent == Spec => []GaugeShowsState
<1>1. IInv => GaugeShowsState
  BY DEF IInv
<1> QED
  BY <1>1, BreakerInvariant, PTL

\* A closed breaker has not missed an overload: RecordFailure has opened it
\* whenever FailureThreshold failures fell within one window.
THEOREM NoMissedOverload == Spec => []ClosedMeansFewFailures
<1>1. IInv => ClosedMeansFewFailures
  <2> SUFFICES ASSUME IInv, Len(streak) >= FailureThreshold
               PROVE  streak[Len(streak) - FailureThreshold + 1] <= now - Window
    BY DEF ClosedMeansFewFailures
  <2>1. Len(streak) \in Nat /\ Len(failures) \in Nat /\ FailureThreshold \in Nat \ {0}
    BY BreakerAssumption DEF IInv, TypeOK
  <2>2. Len(failures) < FailureThreshold
    BY DEF IInv, FailureList
  <2>3. Len(streak) - FailureThreshold + 1 \in 1..(Len(streak) - Len(failures))
    BY <2>1, <2>2
  <2> QED
    BY <2>3 DEF IInv, FailureList
<1> QED
  BY <1>1, BreakerInvariant, PTL

\* RecordFailure opens a closed breaker only when FailureThreshold failures,
\* this one included, are in the window.
THEOREM NoFalseAlarm == Spec => OpensOnlyOnThreshold
<1>1. ASSUME IInv, [Next]_vars, state = BreakerClosed, state' = BreakerOpen
      PROVE  /\ Len(streak) + 1 >= FailureThreshold
             /\ FailureThreshold > 1 =>
                   streak[Len(streak) - FailureThreshold + 2] > now - Window
  <2> DEFINE p == Pruned(failures, now - Window)
  <2>1. RecordFailure
    BY <1>1 DEF Next, Refuse, Admit, Succeed, Fail, Abandon, Tick, AllowFalse, AllowTrue,
                RecordSuccess, setStateLocked, StateAfterAllow, vars, bvars,
                BreakerClosed, BreakerOpen, BreakerHalfOpen
  <2>2. Len(Append(p, now)) >= FailureThreshold
    BY <1>1, <2>1 DEF RecordFailure, BreakerClosed, BreakerOpen, BreakerHalfOpen
  <2>3. /\ p \in Seq(Nat) /\ Len(p) \in Nat
        /\ Len(p) <= Len(failures)
        /\ Len(p) <= Len(streak)
        /\ \A i \in 1..Len(p) : /\ p[i] = streak[Len(streak) - Len(p) + i]
                                /\ p[i] > now - Window
    BY <1>1, PrunedMatchesStreak
  <2> HIDE DEF p
  <2>4. /\ Len(p) + 1 >= FailureThreshold
        /\ Len(failures) < FailureThreshold
        /\ FailureThreshold \in Nat \ {0} /\ Len(streak) \in Nat /\ Len(failures) \in Nat
    BY <1>1, <2>2, <2>3, BreakerAssumption DEF IInv, TypeOK, FailureList
  <2>5. Len(p) = FailureThreshold - 1
    BY <2>3, <2>4
  <2>6. ASSUME FailureThreshold > 1
        PROVE  streak[Len(streak) - FailureThreshold + 2] > now - Window
    <3>1. 1 \in 1..Len(p) /\ Len(streak) - Len(p) + 1 = Len(streak) - FailureThreshold + 2
      BY <2>4, <2>5, <2>6
    <3> QED
      BY <2>3, <3>1
  <2> QED
    BY <2>3, <2>4, <2>6
<1>2. IInv /\ [Next]_vars =>
        [state = BreakerClosed /\ state' = BreakerOpen =>
          /\ Len(streak) + 1 >= FailureThreshold
          /\ FailureThreshold > 1 =>
                streak[Len(streak) - FailureThreshold + 2] > now - Window]_vars
  BY <1>1
<1> QED
  BY <1>2, BreakerInvariant, PTL DEF Spec, OpensOnlyOnThreshold

\* No batch is let through within Cooldown of an opening, whichever state it was made
\* from: RecordFailure restarts the cooldown every time it opens the breaker, and
\* Allow waits for the end of it.
THEOREM CooldownHolds == Spec => CooldownIsQuiet
<1>1. IInv /\ [Next]_vars => [admitted' /\ ~admitted => now >= opening + Cooldown]_vars
  <2> SUFFICES ASSUME IInv, [Next]_vars, admitted', ~admitted
               PROVE  now >= opening + Cooldown
    OBVIOUS
  <2>1. AllowTrue
    BY DEF Next, Refuse, Admit, Succeed, Fail, Abandon, Tick, vars
  <2>2. CASE state = BreakerOpen
    <3>1. now - openedAt >= Cooldown /\ opening = openedAt
      BY <2>1, <2>2 DEF AllowTrue, StateAfterAllow, IInv, OpeningKnown
    <3> QED
      BY <3>1, BreakerAssumption DEF IInv, TypeOK
  <2>3. CASE state # BreakerOpen
    BY <2>3 DEF IInv, OpeningKnown
  <2> QED
    BY <2>2, <2>3
<1> QED
  BY <1>1, BreakerInvariant, PTL DEF Spec, CooldownIsQuiet
=============================================================================
