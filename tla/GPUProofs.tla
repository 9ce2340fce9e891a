----------------------------- MODULE GPUProofs -----------------------------
(***************************************************************************)
(* The macOS backend of GPU.tla for any output of ioreg and any number of  *)
(* polls: what the series show after a poll, and what is logged.           *)
(***************************************************************************)
EXTENDS GPU, TLAPS

-----------------------------------------------------------------------------
(* The inductive invariant *)

\* Only the Linux backend collects files.
Where == pc = "collect" => backend = "linux"

Series == DOMAIN gauge = CardIndex \X Metric

\* healthy and polled stand for the outcome of the last poll, and the last line
\* logged tells it.
Health ==
    /\ polled <=> answer # <<>>
    /\ healthy <=> polled /\ parseIOAccelerator(answer[1])
    /\ polled => notice.level = IF parseIOAccelerator(answer[1]) THEN "info" ELSE "warn"
    /\ flips \in Nat /\ notice.lines = flips

\* A loop that waits for its ticker has polled.
Waiting == backend = "darwin" /\ pc = "wait" => polled

IInv == Where /\ Series /\ Health /\ Waiting /\ NeverFrozen

-----------------------------------------------------------------------------
(* It holds at first and is kept by every step *)

LEMMA AppleSeries == \A m \in Metric : <<0, m>> \in CardIndex \X Metric
  BY DEF CardIndex

LEMMA InitIInv == Init => IInv
<1> SUFFICES ASSUME Init PROVE IInv
  OBVIOUS
<1>1. pc = "new" /\ gauge = [s \in CardIndex \X Metric |-> Nil]
  BY DEF Init
<1>2. healthy = FALSE /\ polled = FALSE /\ answer = <<>>
  BY DEF Init
<1>3. flips = 0 /\ notice.lines = 0
  BY DEF Init
<1>4. Health
  BY <1>2, <1>3 DEF Health
<1> QED
  BY <1>1, <1>4 DEF IInv, Where, Series, Waiting, NeverFrozen

\* A step that leaves the sampler and the gauges alone keeps the invariant if it
\* does not end a poll or start to collect on another backend.
LEMMA QuietKeeps ==
  ASSUME IInv, UNCHANGED <<appleVars, gauge, backend>>,
         pc' = "collect" => backend = "linux", pc' = "wait" => pc = "wait"
  PROVE  IInv'
<1>1. Where' /\ Series'
  BY DEF IInv, Where, Series
<1>2. Health'
  BY DEF IInv, Health, appleVars, parseIOAccelerator
<1>3. Waiting'
  BY DEF IInv, Waiting, appleVars
<1>4. NeverFrozen'
  BY DEF IInv, NeverFrozen, appleVars, parseIOAccelerator
<1> QED
  BY <1>1, <1>2, <1>3, <1>4 DEF IInv

LEMMA CollectKeeps ==
  ASSUME IInv, Collect
  PROVE  IInv'
<1>1. backend = "linux" /\ backend' = "linux"
  BY DEF IInv, Where, Collect, loopVars
<1>2. Series'
  BY DEF IInv, Series, Collect, CollectUtilization, CollectTemperature, CollectVRAMUsed,
         CollectVRAMTotal, CollectPower, CollectClocks, Emit
<1>3. Health'
  <2>1. UNCHANGED appleVars
    BY DEF Collect
  <2> QED
    BY <2>1 DEF IInv, Health, appleVars, parseIOAccelerator
<1> QED
  BY <1>1, <1>2, <1>3 DEF IInv, Where, Waiting, NeverFrozen

LEMMA PollKeeps ==
  ASSUME IInv, NEW out, PollReturns(out)
  PROVE  IInv'
<1> DEFINE u == <<0, "utilization">>
           v == <<0, "vramUsed">>
<1>0. u \in CardIndex \X Metric /\ v \in CardIndex \X Metric /\ u # v
  BY AppleSeries DEF Metric
<1>1. /\ DOMAIN gauge' = CardIndex \X Metric
      /\ gauge'[u] = IF parseIOAccelerator(out) THEN <<out.util, 1>> ELSE Nil
      /\ gauge'[v] = IF parseIOAccelerator(out) /\ out.mem # Nil THEN <<out.mem, 1>> ELSE Nil
  <2>1. CASE ~parseIOAccelerator(out)
    <3>1. gauge' = delete(gauge, {"utilization", "vramUsed"})
      BY <2>1 DEF PollReturns, markUnhealthy
    <3> QED
      BY <2>1, <3>1, <1>0 DEF delete, IInv, Series
  <2>2. CASE parseIOAccelerator(out)
    <3> DEFINE g1 == set(gauge, "utilization", out.util)
               g2 == IF out.mem # Nil THEN set(g1, "vramUsed", out.mem) ELSE delete(g1, {"vramUsed"})
               g3 == IF total > 0 THEN set(g2, "vramTotal", total) ELSE g2
    <3>1. gauge' = g3
      BY <2>2 DEF PollReturns, markHealthy
    <3>2. DOMAIN g1 = CardIndex \X Metric /\ g1[u] = <<out.util, 1>>
      BY <1>0 DEF set, IInv, Series
    <3> HIDE DEF g1
    <3>3. /\ DOMAIN g2 = CardIndex \X Metric /\ g2[u] = <<out.util, 1>>
          /\ g2[v] = IF out.mem # Nil THEN <<out.mem, 1>> ELSE Nil
      BY <1>0, <3>2 DEF set, delete
    <3> HIDE DEF g2
    <3>4. DOMAIN g3 = CardIndex \X Metric /\ g3[u] = g2[u] /\ g3[v] = g2[v]
      BY <1>0, <3>3 DEF set
    <3> QED
      BY <2>2, <3>1, <3>3, <3>4
  <2> QED
    BY <2>1, <2>2
<1>2. /\ polled' = TRUE /\ answer' = <<out>> /\ pc' = "wait"
      /\ healthy' = parseIOAccelerator(out)
  BY DEF PollReturns, markHealthy, markUnhealthy, parseIOAccelerator
<1>3. flips' = IF answer # <<>> /\ parseIOAccelerator(answer[1]) = parseIOAccelerator(out)
               THEN flips ELSE flips + 1
  BY DEF PollReturns
<1>4. IF parseIOAccelerator(out)
      THEN notice' = IF ~healthy THEN [lines |-> notice.lines + 1, level |-> "info"] ELSE notice
      ELSE notice' = IF healthy \/ ~polled THEN [lines |-> notice.lines + 1, level |-> "warn"]
                                          ELSE notice
  BY DEF PollReturns, markHealthy, markUnhealthy, log
<1>5. answer' # <<>> /\ answer'[1] = out
  BY <1>2
<1>6. parseIOAccelerator(out) \in BOOLEAN /\ parseIOAccelerator(answer[1]) \in BOOLEAN
  BY DEF parseIOAccelerator
<1>7. parseIOAccelerator(answer[1])' = parseIOAccelerator(out)
  BY <1>5 DEF parseIOAccelerator
<1>8. Health'
  <2>1. flips' \in Nat /\ notice'.lines = flips'
    BY <1>3, <1>4, <1>6 DEF IInv, Health
  <2>2. notice'.level = IF parseIOAccelerator(out) THEN "info" ELSE "warn"
    BY <1>4, <1>6 DEF IInv, Health
  <2> QED
    BY <1>2, <1>5, <1>7, <2>1, <2>2 DEF Health
<1>9. NeverFrozen'
  <2>1. /\ gauge'[u] = IF parseIOAccelerator(out) /\ out["util"] # Nil THEN <<out["util"], 1>> ELSE Nil
        /\ gauge'[v] = IF parseIOAccelerator(out) /\ out["mem"] # Nil THEN <<out["mem"], 1>> ELSE Nil
    BY <1>1 DEF parseIOAccelerator
  <2>2. NeverFrozen' = (backend' = "darwin" /\ pc' = "wait" =>
            /\ gauge'[u] = IF parseIOAccelerator(answer[1])' /\ answer'[1]["util"] # Nil
                           THEN <<answer'[1]["util"], 1>> ELSE Nil
            /\ gauge'[v] = IF parseIOAccelerator(answer[1])' /\ answer'[1]["mem"] # Nil
                           THEN <<answer'[1]["mem"], 1>> ELSE Nil)
    BY DEF NeverFrozen
  <2> QED
    BY <1>5, <1>7, <2>1, <2>2
<1> QED
  BY <1>1, <1>2, <1>8, <1>9 DEF IInv, Where, Series, Waiting

LEMMA NextIInv ==
  ASSUME IInv, [Next]_vars
  PROVE  IInv'
<1>1. CASE Collect
  BY <1>1, CollectKeeps
<1>2. CASE ReadReturns \/ ReadCancelled \/ ReadRefused
  BY <1>2, PollKeeps DEF ReadReturns, ReadCancelled, ReadRefused
<1>3. CASE \/ \E c \in ToSet(Card) : HwmonMoves(c) \/ \E f \in File : FileChanges(c, f)
           \/ IORegChanges \/ Cancel \/ NotConstructed \/ Return \/ UNCHANGED vars
  <2>1. UNCHANGED <<appleVars, gauge, backend>> /\ (pc' = pc \/ pc' = "done")
    BY <1>3 DEF HwmonMoves, FileChanges, IORegChanges, Cancel, NotConstructed, Return, vars, loopVars
  <2> QED
    BY <2>1, QuietKeeps DEF IInv, Where
<1>4. CASE NewCollector
  <2>1. UNCHANGED <<appleVars, gauge, backend>> /\ pc' \in {"begin", "done"}
    BY <1>4 DEF NewCollector
  <2> QED
    BY <2>1, QuietKeeps
<1>5. CASE Start \/ Tick
  <2>1. /\ UNCHANGED <<appleVars, gauge, backend>> /\ pc' # "wait"
        /\ pc' = "collect" => backend = "linux"
    BY <1>5 DEF Start, Tick, Cycle, loopVars
  <2> QED
    BY <2>1, QuietKeeps
<1> QED
  BY <1>1, <1>2, <1>3, <1>4, <1>5 DEF Next

-----------------------------------------------------------------------------
(* Theorems *)

\* The sampler's two flags stand for the outcome of the last poll, and a loop
\* that waits has made one (appleSampler.healthy, polled).
THEOREM SamplerInvariant == Spec => []IInv
<1>1. IInv /\ [Next]_vars => IInv'
  BY NextIInv
<1> QED
  BY <1>1, InitIInv, PTL DEF Spec

\* After every poll on macOS the series are what that poll read, and absent if
\* it read nothing: no reading outlives the probe (markUnhealthy, markHealthy).
THEOREM SeriesNeverFrozen == Spec => []NeverFrozen
<1>1. IInv => NeverFrozen
  BY DEF IInv
<1> QED
  BY <1>1, SamplerInvariant, PTL

\* The probe's health is logged once at the first poll and once per change.
THEOREM ChangesLoggedOnce == Spec => []OneNoticePerChange
<1>1. IInv => OneNoticePerChange
  BY DEF IInv, Health, Waiting, OneNoticePerChange
<1> QED
  BY <1>1, SamplerInvariant, PTL
=============================================================================
