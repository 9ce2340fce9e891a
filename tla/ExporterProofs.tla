--------------------------- MODULE ExporterProofs ---------------------------
(***************************************************************************)
(* Exporter.tla for every configuration, any number of proxied requests    *)
(* and any model names: the in-flight gauge, what is observed of a request *)
(* and what the process waits for before it exits.                         *)
(***************************************************************************)
EXTENDS Exporter, FiniteSetTheorems, TLAPS

-----------------------------------------------------------------------------
(* The inductive invariant *)

\* Request r counts as in flight under model l.
Counts(r, l) ==
    /\ req[r].at \in {"forward", "body", "deferred", "dec"}
    /\ ~req[r].kind.excluded
    /\ req[r].model = l

InFlight(l) == {r \in Request : Counts(r, l)}

\* What has been observed of a request at each place of its handler: nothing
\* before the answer; then a result of its own or an observer, never both; a
\* duration only once the deferred calls run, which excluded paths never reach.
Progress(r) ==
    /\ req[r].at \in {"idle", "prefix", "forward"} => extractions[r] = 0 /\ ~req[r].observer
    /\ req[r].at = "body" /\ req[r].observer => Observed(r) /\ extractions[r] = 0
    /\ req[r].at \in {"deferred", "dec"} => ~req[r].kind.excluded
    /\ req[r].at \in {"deferred", "dec"} /\ req[r].observer => extractions[r] = 1
    /\ extractions[r] <= IF Observed(r) THEN 1 ELSE 0
    /\ durations[r] = IF req[r].at = "dec" \/ (req[r].at = "done" /\ ~req[r].kind.excluded)
                      THEN 1 ELSE 0

\* The WaitGroup counts every goroutine main has to wait for, from before main
\* first can.
Waited ==
    /\ main = "starting" => pusher = "off" /\ metricsSrv = "off"
    /\ pusher \in {"running", "draining"} => "pusher" \in wg
    /\ metricsSrv \in {"starting", "serving"} => "metrics" \in wg

IInv ==
    /\ TypeOK
    /\ \A l \in Label : inFlight[l] = Cardinality(InFlight(l))
    /\ \A r \in Request : Progress(r)
    /\ Waited
    /\ DrainsBeforeExit

-----------------------------------------------------------------------------
(* Requests *)

\* The sets InFlight speaks of can be counted.
LEMMA Countable == \A l \in Label : IsFiniteSet(InFlight(l)) /\ Cardinality(InFlight(l)) \in Nat
  BY ExporterAssumption, FS_Subset, FS_CardinalityType DEF InFlight

\* The types of a request's fields.
LEMMA Fields ==
  ASSUME TypeOK, NEW r \in Request
  PROVE  /\ req[r] \in ReqType /\ req[r].kind \in Kind /\ req[r].model \in Label
         /\ req[r].kind.excluded \in BOOLEAN /\ req[r].kind.inference \in BOOLEAN
         /\ req[r].observer \in BOOLEAN /\ Observed(r) \in BOOLEAN
         /\ durations[r] \in Nat /\ extractions[r] \in Nat
  BY DEF TypeOK, ReqType, Kind, Observed

\* What a step of one handler has to show: the rest of the process and of the
\* requests is as it was.
LEMMA RequestKeeps ==
  ASSUME IInv, NEW r \in Request, NEW v \in ReqType,
         req' = [req EXCEPT ![r] = v],
         durations' \in [Request -> Nat], extractions' \in [Request -> Nat],
         \A q \in Request \ {r} : durations'[q] = durations[q] /\ extractions'[q] = extractions[q],
         Progress(r)',
         inFlight' \in [Label -> Nat],
         \A l \in Label : inFlight'[l] = Cardinality(InFlight(l))',
         UNCHANGED <<mainVars, metricsVars, pusher, proxyVars>>
  PROVE  IInv'
<1>1. TypeOK'
  <2>1. req' \in [Request -> ReqType]
    BY DEF IInv, TypeOK
  <2>2. UNCHANGED <<config, ctxDone, main, wg, metricsSrv, metricsShut, scraping, pusher,
                    proxySrv, proxyShut>>
    BY DEF mainVars, metricsVars, proxyVars
  <2>3. TypeOK
    BY DEF IInv
  <2>4. /\ config' \in Configs /\ ctxDone' \in BOOLEAN
        /\ main' \in {"starting", "running", "shutdown", "waiting", "exited"}
        /\ wg' \in SUBSET {"metrics", "pusher"}
        /\ metricsSrv' \in {"off", "starting", "serving", "returned"}
        /\ metricsShut' \in BOOLEAN /\ scraping' \in BOOLEAN
        /\ pusher' \in {"off", "running", "draining", "done"}
        /\ proxySrv' \in {"off", "starting", "serving", "returned"}
        /\ proxyShut' \in {"off", "waiting", "shutting", "timedOut", "done"}
    BY <2>2, <2>3 DEF TypeOK
  <2> QED
    BY <2>1, <2>4 DEF TypeOK
<1>2. ASSUME NEW q \in Request PROVE Progress(q)'
  <2>1. CASE q = r
    BY <2>1
  <2>2. CASE q # r
    <3>1. req'[q] = req[q] /\ durations'[q] = durations[q] /\ extractions'[q] = extractions[q]
      BY <2>2 DEF IInv, TypeOK
    <3> QED
      BY <3>1 DEF IInv, Progress, Observed
  <2> QED
    BY <2>1, <2>2
<1>3. Waited' /\ DrainsBeforeExit'
  BY DEF IInv, Waited, DrainsBeforeExit, mainVars, metricsVars
<1> QED
  BY <1>1, <1>2, <1>3 DEF IInv

\* A step that does not change how its request counts leaves the gauge exact.
LEMMA GaugeKept ==
  ASSUME IInv, NEW r \in Request, NEW v \in ReqType, req' = [req EXCEPT ![r] = v],
         \A l \in Label : Counts(r, l)' <=> Counts(r, l),
         inFlight' = inFlight
  PROVE  /\ inFlight' \in [Label -> Nat]
         /\ \A l \in Label : inFlight'[l] = Cardinality(InFlight(l))'
<1>1. ASSUME NEW l \in Label PROVE InFlight(l)' = InFlight(l)
  <2>1. ASSUME NEW q \in Request PROVE Counts(q, l)' <=> Counts(q, l)
    BY DEF IInv, TypeOK, Counts
  <2> QED
    BY <2>1 DEF InFlight
<1> QED
  BY <1>1 DEF IInv, TypeOK

\* Dispatch: the body's prefix has been read, or could not be.
LEMMA DispatchKeeps ==
  ASSUME IInv, NEW r \in Request, NEW body \in Label, NEW readErr \in BOOLEAN,
         Dispatch(r, body, readErr)
  PROVE  IInv'
<1> DEFINE model == IF body = NoModel THEN req[r].model ELSE body
           excluded == req[r].kind.excluded
           at == CASE ~readErr -> "forward" [] readErr /\ excluded -> "done" [] OTHER -> "deferred"
           v == [req[r] EXCEPT !.model = IF excluded THEN NoModel ELSE model, !.at = at]
<1>0. /\ req[r].at = "prefix" /\ req' = [req EXCEPT ![r] = v]
      /\ inFlight' = IF excluded THEN inFlight ELSE [inFlight EXCEPT ![model] = @ + 1]
      /\ UNCHANGED <<mainVars, metricsVars, pusher, proxyVars, durations, extractions>>
  BY DEF Dispatch, At, IInv, TypeOK, ReqType
<1>1. /\ req[r] \in ReqType /\ model \in Label /\ excluded \in BOOLEAN
      /\ req[r].observer \in BOOLEAN /\ req[r].kind \in Kind
  BY Fields DEF IInv
<1>2. at \in {"forward", "done", "deferred"} /\ (at = "done" => excluded) /\ (at = "deferred" => ~excluded)
  BY <1>1
<1>3. /\ v \in ReqType /\ v.at = at /\ v.kind = req[r].kind /\ v.observer = req[r].observer
      /\ v.model = IF excluded THEN NoModel ELSE model
  BY <1>1, <1>2, ExporterAssumption DEF ReqType
<1> HIDE DEF v, at, model
<1>4. req'[r] = v /\ \A q \in Request \ {r} : req'[q] = req[q]
  BY <1>0 DEF IInv, TypeOK
<1>5. Progress(r)'
  <2>1. /\ durations[r] = 0 /\ extractions[r] = 0 /\ req[r].observer = FALSE
    BY <1>0, <1>1 DEF IInv, Progress
  <2>2. durations'[r] = 0 /\ extractions'[r] = 0 /\ req'[r].observer = FALSE
        /\ req'[r].at = at /\ req'[r].kind = req[r].kind
    BY <1>0, <1>3, <1>4, <2>1
  <2> QED
    BY <1>2, <2>2 DEF Progress, Observed
<1>6. \A l \in Label : ~Counts(r, l)
  BY <1>0 DEF Counts
<1>7. inFlight' \in [Label -> Nat] /\ \A l \in Label : inFlight'[l] = Cardinality(InFlight(l))'
  <2>1. CASE excluded
    <3>1. \A l \in Label : Counts(r, l)' <=> Counts(r, l)
      BY <1>3, <1>4, <1>6, <2>1 DEF Counts
    <3> QED
      BY <1>0, <1>3, <2>1, <3>1, GaugeKept
  <2>2. CASE ~excluded
    <3>0. inFlight' = [inFlight EXCEPT ![model] = @ + 1]
      BY <1>0, <2>2
    <3>1. inFlight' \in [Label -> Nat]
      BY <1>1, <3>0 DEF IInv, TypeOK
    <3>2. ASSUME NEW l \in Label PROVE inFlight'[l] = Cardinality(InFlight(l))'
      <4>0. \A q \in Request \ {r} : Counts(q, l)' <=> Counts(q, l)
        BY <1>4 DEF Counts
      <4>1. CASE l = model
        <5>1. Counts(r, l)'
          BY <1>2, <1>3, <1>4, <2>2, <4>1 DEF Counts
        <5>2. InFlight(l)' = InFlight(l) \cup {r} /\ r \notin InFlight(l)
          BY <1>6, <4>0, <5>1 DEF InFlight
        <5>3. Cardinality(InFlight(l) \cup {r}) = Cardinality(InFlight(l)) + 1
          BY <5>2, Countable, FS_AddElement
        <5>4. inFlight'[l] = inFlight[l] + 1
          BY <3>0, <4>1 DEF IInv, TypeOK
        <5> QED
          BY <5>2, <5>3, <5>4 DEF IInv
      <4>2. CASE l # model
        <5>1. ~Counts(r, l)'
          BY <1>3, <1>4, <2>2, <4>2 DEF Counts
        <5>2. InFlight(l)' = InFlight(l)
          BY <1>6, <4>0, <5>1 DEF InFlight
        <5>3. inFlight'[l] = inFlight[l]
          BY <1>1, <3>0, <4>2 DEF IInv, TypeOK
        <5> QED
          BY <5>2, <5>3 DEF IInv
      <4> QED
        BY <4>1, <4>2
    <3> QED
      BY <3>1, <3>2
  <2> QED
    BY <2>1, <2>2
<1>8. durations' \in [Request -> Nat] /\ extractions' \in [Request -> Nat]
  BY <1>0 DEF IInv, TypeOK
<1> QED
  BY <1>0, <1>3, <1>5, <1>7, <1>8, RequestKeeps

\* The last deferred call: the gauge loses the request under the model it was
\* counted under.
LEMMA DecrementKeeps ==
  ASSUME IInv, NEW r \in Request, Decrement(r)
  PROVE  IInv'
<1> DEFINE model == req[r].model
           v == [req[r] EXCEPT !.at = "done", !.model = NoModel, !.observer = FALSE]
<1>0. /\ req[r].at = "dec" /\ req' = [req EXCEPT ![r] = v]
      /\ inFlight' = [inFlight EXCEPT ![model] = @ - 1]
      /\ UNCHANGED <<mainVars, metricsVars, pusher, proxyVars, durations, extractions>>
  BY DEF Decrement, At
<1>1. req[r] \in ReqType /\ model \in Label /\ req[r].kind \in Kind
  BY Fields DEF IInv
<1>2. v \in ReqType /\ v.at = "done" /\ v.kind = req[r].kind /\ v.observer = FALSE
  BY <1>1, ExporterAssumption DEF ReqType
<1> HIDE DEF v, model
<1>3. req'[r] = v /\ \A q \in Request \ {r} : req'[q] = req[q]
  BY <1>0 DEF IInv, TypeOK
<1>4. Progress(r)'
  BY <1>0, <1>2, <1>3 DEF IInv, Progress, Observed
<1>5. Counts(r, model) /\ (\A l \in Label : Counts(r, l) => l = model) /\ \A l \in Label : ~Counts(r, l)'
  BY <1>0, <1>2, <1>3 DEF IInv, Progress, Counts, model
<1>6. ASSUME NEW l \in Label
      PROVE  inFlight'[l] \in Nat /\ inFlight'[l] = Cardinality(InFlight(l))'
  <2>0. \A q \in Request \ {r} : Counts(q, l)' <=> Counts(q, l)
    BY <1>3 DEF Counts
  <2>1. CASE l = model
    <3>1. InFlight(l)' = InFlight(l) \ {r} /\ r \in InFlight(l)
      BY <1>5, <2>0, <2>1 DEF InFlight
    <3>2. Cardinality(InFlight(l) \ {r}) = Cardinality(InFlight(l)) - 1
          /\ IsFiniteSet(InFlight(l) \ {r})
      BY <3>1, Countable, FS_RemoveElement
    <3>3. Cardinality(InFlight(l) \ {r}) \in Nat
      BY <3>2, FS_CardinalityType
    <3>4. inFlight'[l] = inFlight[l] - 1
      BY <1>0, <2>1 DEF IInv, TypeOK
    <3> QED
      BY <3>1, <3>2, <3>3, <3>4 DEF IInv
  <2>2. CASE l # model
    <3>1. InFlight(l)' = InFlight(l)
      BY <1>5, <2>0, <2>2 DEF InFlight
    <3>2. inFlight'[l] = inFlight[l]
      BY <1>0, <1>1, <2>2 DEF IInv, TypeOK
    <3> QED
      BY <3>1, <3>2 DEF IInv, TypeOK
  <2> QED
    BY <2>1, <2>2
<1>7. inFlight' \in [Label -> Nat]
  <2>1. DOMAIN inFlight' = Label /\ inFlight' = [l \in Label |-> inFlight'[l]]
    BY <1>0 DEF IInv, TypeOK
  <2> QED
    BY <1>6, <2>1
<1>8. durations' \in [Request -> Nat] /\ extractions' \in [Request -> Nat]
  BY <1>0 DEF IInv, TypeOK
<1> QED
  BY <1>0, <1>2, <1>4, <1>6, <1>7, <1>8, RequestKeeps

\* A request is accepted.
LEMMA EnterKeeps ==
  ASSUME IInv, NEW r \in Request, NEW kind \in Kind, NEW query \in Label, Enter(r, kind, query)
  PROVE  IInv'
<1> DEFINE v == [at |-> "prefix", kind |-> kind, model |-> query, observer |-> FALSE]
<1>0. /\ req[r].at = "idle" /\ req' = [req EXCEPT ![r] = v] /\ v \in ReqType
      /\ UNCHANGED <<mainVars, metricsVars, pusher, proxyVars, inFlight, durations, extractions>>
  BY DEF Enter, At, ReqType
<1>1. req'[r].at = "prefix" /\ req'[r].observer = FALSE
  BY <1>0 DEF IInv, TypeOK
<1>2. Progress(r)'
  <2>1. extractions[r] = 0 /\ durations[r] = 0
    BY <1>0 DEF IInv, Progress
  <2> QED
    BY <1>0, <1>1, <2>1 DEF Progress
<1>3. \A l \in Label : Counts(r, l)' <=> Counts(r, l)
  BY <1>0, <1>1 DEF Counts
<1>4. inFlight' \in [Label -> Nat] /\ \A l \in Label : inFlight'[l] = Cardinality(InFlight(l))'
  BY <1>0, <1>3, GaugeKept
<1>5. durations' \in [Request -> Nat] /\ extractions' \in [Request -> Nat]
  BY <1>0 DEF IInv, TypeOK
<1> QED
  BY <1>0, <1>2, <1>4, <1>5, RequestKeeps

\* Upstream answers: a result at once, an observer, or neither.
LEMMA AnswersKeeps ==
  ASSUME IInv, NEW r \in Request, NEW ok \in BOOLEAN, Answers(r, ok)
  PROVE  IInv'
<1> DEFINE v == [req[r] EXCEPT !.at = "body", !.observer = ok /\ Observed(r)]
<1>0. /\ req[r].at = "forward" /\ req' = [req EXCEPT ![r] = v]
      /\ extractions' = IF Observed(r) /\ ~ok THEN [extractions EXCEPT ![r] = @ + 1] ELSE extractions
      /\ UNCHANGED <<mainVars, metricsVars, pusher, proxyVars, inFlight, durations>>
  BY DEF Answers, At, IInv, TypeOK
<1>1. /\ req[r] \in ReqType /\ Observed(r) \in BOOLEAN /\ extractions[r] = 0 /\ durations[r] = 0
  BY <1>0, Fields DEF IInv, Progress
<1>2. /\ v \in ReqType /\ v.at = "body" /\ v.observer = (ok /\ Observed(r)) /\ v.kind = req[r].kind
      /\ v.model = req[r].model
  BY <1>1 DEF ReqType
<1> HIDE DEF v
<1>3. req'[r] = v
  BY <1>0 DEF IInv, TypeOK
<1>4. /\ extractions'[r] = IF Observed(r) /\ ~ok THEN 1 ELSE 0
      /\ \A q \in Request \ {r} : extractions'[q] = extractions[q]
      /\ extractions' \in [Request -> Nat] /\ durations' \in [Request -> Nat]
  BY <1>0, <1>1 DEF IInv, TypeOK
<1>5. Observed(r)' = Observed(r)
  BY <1>2, <1>3 DEF Observed
<1>6. Progress(r)'
  BY <1>0, <1>1, <1>2, <1>3, <1>4, <1>5 DEF Progress
<1>7. \A l \in Label : Counts(r, l)' <=> Counts(r, l)
  BY <1>0, <1>2, <1>3 DEF Counts
<1>8. inFlight' \in [Label -> Nat] /\ \A l \in Label : inFlight'[l] = Cardinality(InFlight(l))'
  BY <1>0, <1>2, <1>7, GaugeKept
<1> QED
  BY <1>0, <1>2, <1>4, <1>6, <1>8, RequestKeeps

\* ServeHTTP is left, by return or by panic, with the observer's report if there
\* is an observer.
LEMMA LeaveKeeps ==
  ASSUME IInv, NEW r \in Request, req[r].at \in {"forward", "body"}, Leave(r), BodyReported(r),
         UNCHANGED <<mainVars, metricsVars, pusher, proxyVars, inFlight, durations>>
  PROVE  IInv'
<1> DEFINE excluded == req[r].kind.excluded
           v == [req[r] EXCEPT !.at = IF excluded THEN "done" ELSE "deferred"]
<1>0. req' = [req EXCEPT ![r] = v]
  BY DEF Leave, Goto, IInv, TypeOK
<1>1. /\ req[r] \in ReqType /\ Observed(r) \in BOOLEAN /\ excluded \in BOOLEAN
      /\ extractions[r] \in Nat /\ durations[r] = 0
      /\ req[r].observer => Observed(r) /\ extractions[r] = 0
      /\ extractions[r] <= IF Observed(r) THEN 1 ELSE 0
  BY Fields DEF IInv, Progress
<1>2. /\ v \in ReqType /\ v.at = IF excluded THEN "done" ELSE "deferred"
      /\ v.observer = req[r].observer /\ v.kind = req[r].kind /\ v.model = req[r].model
  BY <1>1 DEF ReqType
<1> HIDE DEF v
<1>3. req'[r] = v
  BY <1>0 DEF IInv, TypeOK
<1>4. /\ extractions'[r] = IF req[r].observer THEN 1 ELSE extractions[r]
      /\ \A q \in Request \ {r} : extractions'[q] = extractions[q]
      /\ extractions' \in [Request -> Nat] /\ durations' \in [Request -> Nat]
  BY <1>1 DEF BodyReported, IInv, TypeOK
<1>5. Observed(r)' = Observed(r)
  BY <1>2, <1>3 DEF Observed
<1>6. Progress(r)'
  BY <1>1, <1>2, <1>3, <1>4, <1>5 DEF Progress
<1>7. \A l \in Label : Counts(r, l)' <=> Counts(r, l)
  BY <1>1, <1>2, <1>3 DEF Counts
<1>8. inFlight' \in [Label -> Nat] /\ \A l \in Label : inFlight'[l] = Cardinality(InFlight(l))'
  BY <1>0, <1>2, <1>7, GaugeKept
<1> QED
  BY <1>0, <1>2, <1>4, <1>6, <1>8, RequestKeeps

\* The first deferred call.
LEMMA ObserveDurationKeeps ==
  ASSUME IInv, NEW r \in Request, ObserveDuration(r)
  PROVE  IInv'
<1> DEFINE v == [req[r] EXCEPT !.at = "dec"]
<1>0. /\ req[r].at = "deferred" /\ req' = [req EXCEPT ![r] = v]
      /\ durations' = [durations EXCEPT ![r] = @ + 1]
      /\ UNCHANGED <<mainVars, metricsVars, pusher, proxyVars, inFlight, extractions>>
  BY DEF ObserveDuration, At, Goto, IInv, TypeOK
<1>1. /\ req[r] \in ReqType /\ durations[r] = 0
  BY <1>0, Fields DEF IInv, Progress
<1>2. /\ v \in ReqType /\ v.at = "dec" /\ v.observer = req[r].observer /\ v.kind = req[r].kind
      /\ v.model = req[r].model
  BY <1>1 DEF ReqType
<1> HIDE DEF v
<1>3. req'[r] = v
  BY <1>0 DEF IInv, TypeOK
<1>4. /\ durations'[r] = 1 /\ \A q \in Request \ {r} : durations'[q] = durations[q]
      /\ durations' \in [Request -> Nat] /\ extractions' \in [Request -> Nat]
  BY <1>0, <1>1 DEF IInv, TypeOK
<1>5. Observed(r)' = Observed(r)
  BY <1>2, <1>3 DEF Observed
<1>6. Progress(r)'
  BY <1>0, <1>2, <1>3, <1>4, <1>5 DEF IInv, Progress
<1>7. \A l \in Label : Counts(r, l)' <=> Counts(r, l)
  BY <1>0, <1>2, <1>3 DEF Counts
<1>8. inFlight' \in [Label -> Nat] /\ \A l \in Label : inFlight'[l] = Cardinality(InFlight(l))'
  BY <1>0, <1>2, <1>7, GaugeKept
<1> QED
  BY <1>0, <1>2, <1>4, <1>6, <1>8, RequestKeeps

\* Every step of a handler keeps the invariant.
LEMMA RequestIInv == ASSUME IInv, NEW r \in Request, RequestNext(r) PROVE IInv'
<1>1. ASSUME UpstreamFails(r) PROVE IInv'
  <2>1. req[r].at = "forward" /\ Leave(r) /\ extractions' = extractions
        /\ UNCHANGED <<mainVars, metricsVars, pusher, proxyVars, inFlight, durations>>
    BY <1>1 DEF UpstreamFails, At
  <2>2. ~req[r].observer
    BY <2>1 DEF IInv, Progress
  <2>3. BodyReported(r)
    BY <2>1, <2>2 DEF BodyReported
  <2> QED
    BY <2>1, <2>3, LeaveKeeps
<1>2. ASSUME BodyEnds(r) \/ BodyAborts(r) PROVE IInv'
  BY <1>2, LeaveKeeps DEF BodyEnds, BodyAborts, At
<1> QED
  BY <1>1, <1>2, EnterKeeps, DispatchKeeps, AnswersKeeps, ObserveDurationKeeps, DecrementKeeps
     DEF RequestNext

-----------------------------------------------------------------------------
(* The process *)

\* The process starts in the invariant.
LEMMA InitIInv == Init => IInv
<1> SUFFICES ASSUME Init PROVE IInv
  OBVIOUS
<1>1. NoRequest \in ReqType
  BY ExporterAssumption DEF NoRequest, ReqType, Kind
<1>2. TypeOK
  BY <1>1 DEF Init, TypeOK
<1>3. \A r \in Request : /\ req[r] = NoRequest /\ durations[r] = 0 /\ extractions[r] = 0
                         /\ req[r].at = "idle" /\ req[r].observer = FALSE
  BY DEF Init, NoRequest
<1>4. ASSUME NEW l \in Label PROVE inFlight[l] = Cardinality(InFlight(l))
  <2>1. InFlight(l) = {}
    BY <1>3 DEF InFlight, Counts
  <2>2. inFlight[l] = 0
    BY DEF Init
  <2> QED
    BY <2>1, <2>2, FS_EmptySet
<1>5. \A r \in Request : Progress(r)
  BY <1>3 DEF Progress
<1>6. Waited /\ DrainsBeforeExit
  BY DEF Init, Waited, DrainsBeforeExit
<1> QED
  BY <1>2, <1>4, <1>5, <1>6 DEF IInv

\* What a step outside the handlers has to show.
LEMMA ProcessKeeps ==
  ASSUME IInv, TypeOK', Waited', DrainsBeforeExit', UNCHANGED reqVars
  PROVE  IInv'
<1>1. \A l \in Label : InFlight(l)' = InFlight(l)
  BY DEF InFlight, Counts, reqVars
<1>2. \A r \in Request : Progress(r)'
  BY DEF IInv, Progress, Observed, reqVars
<1> QED
  BY <1>1, <1>2 DEF IInv, reqVars

\* Every step of the process keeps the invariant.
LEMMA NextIInv == IInv /\ [Next]_vars => IInv'
<1> SUFFICES ASSUME IInv, [Next]_vars PROVE IInv'
  OBVIOUS
<1> USE DEF mainVars, metricsVars, proxyVars
<1>0. TypeOK /\ Waited /\ DrainsBeforeExit
  BY DEF IInv
<1>r. ASSUME UNCHANGED reqVars
      PROVE  /\ req' = req /\ inFlight' = inFlight /\ durations' = durations
             /\ extractions' = extractions
  BY <1>r DEF reqVars
<1>1. CASE StartFails
  <2>1. TypeOK' /\ Waited' /\ DrainsBeforeExit' /\ UNCHANGED reqVars
    BY <1>0, <1>1, <1>r DEF StartFails, TypeOK, Waited, DrainsBeforeExit
  <2> QED
    BY <2>1, ProcessKeeps
<1>2. ASSUME NEW parsed \in BOOLEAN, Start(parsed) PROVE IInv'
  <2>1. UNCHANGED reqVars /\ main' = "running"
    BY <1>2 DEF Start
  <2>2. TypeOK'
    BY <1>0, <1>2, <1>r DEF Start, TypeOK
  <2>3. Waited' /\ DrainsBeforeExit'
    BY <1>0, <1>2 DEF Start, Waited, DrainsBeforeExit
  <2> QED
    BY <2>1, <2>2, <2>3, ProcessKeeps
<1>3. CASE Signal \/ MainSignalled \/ ShutdownReturns \/ ShutdownTimesOut
  <2>1. UNCHANGED <<reqVars, wg, metricsSrv, pusher>> /\ main' \notin {"exited", "starting"}
    BY <1>3 DEF Signal, MainSignalled, ShutdownReturns, ShutdownTimesOut, Alive
  <2>2. TypeOK'
    <3>1. CASE Signal
      BY <1>0, <1>r, <3>1 DEF Signal, TypeOK
    <3>2. CASE MainSignalled
      <4>1. config.metrics \in BOOLEAN
        BY <1>0 DEF TypeOK, Configs
      <4> QED
        BY <1>0, <1>r, <3>2, <4>1 DEF MainSignalled, TypeOK
    <3>3. CASE ShutdownReturns
      BY <1>0, <1>r, <3>3 DEF ShutdownReturns, TypeOK
    <3>4. CASE ShutdownTimesOut
      BY <1>0, <1>r, <3>4 DEF ShutdownTimesOut, TypeOK
    <3> QED
      BY <1>3, <3>1, <3>2, <3>3, <3>4
  <2>3. Waited' /\ DrainsBeforeExit'
    BY <1>0, <2>1 DEF Waited, DrainsBeforeExit
  <2> QED
    BY <2>1, <2>2, <2>3, ProcessKeeps
<1>4. CASE MainExits
  <2>1. /\ main = "waiting" /\ main' = "exited" /\ wg = {}
        /\ UNCHANGED <<config, ctxDone, wg, metricsVars, pusher, proxyVars, reqVars>>
    BY <1>4 DEF MainExits
  <2>2. TypeOK'
    BY <1>0, <1>r, <2>1 DEF TypeOK
  <2>3. Waited' /\ DrainsBeforeExit'
    BY <1>0, <2>1 DEF Waited, DrainsBeforeExit, TypeOK
  <2> QED
    BY <2>1, <2>2, <2>3, ProcessKeeps
<1>5. CASE \/ MetricsNext \/ MetricsFails \/ ScrapeBegins \/ ScrapeEnds
           \/ PusherNext \/ ProxyNext \/ ProxyFails
  <2>1. UNCHANGED <<reqVars, main, config, ctxDone>> /\ main \notin {"exited", "starting"}
    BY <1>5 DEF MetricsNext, MetricsServes, MetricsReturns, ScrapeBegins, ScrapeEnds, PusherNext,
                PusherDrains, PusherReturns, ProxyNext, ProxyServes, ProxyReturns, MetricsFails, ProxyFails,
                ProxyShutdown, ProxyShutdownReturns, Alive
  <2>2. TypeOK'
    <3>1. CASE MetricsServes
      BY <1>0, <1>r, <3>1 DEF MetricsServes, TypeOK
    <3>2. CASE MetricsReturns
      BY <1>0, <1>r, <3>2 DEF MetricsReturns, TypeOK
    <3>3. CASE ScrapeBegins
      BY <1>0, <1>r, <3>3 DEF ScrapeBegins, TypeOK
    <3>4. CASE ScrapeEnds
      <4>1. scraping' = FALSE /\ UNCHANGED <<wg, metricsSrv, metricsShut, pusher, proxySrv, proxyShut>>
        BY <3>4 DEF ScrapeEnds
      <4> QED
        BY <1>0, <1>r, <2>1, <4>1 DEF TypeOK
    <3>5. CASE PusherDrains
      BY <1>0, <1>r, <3>5 DEF PusherDrains, TypeOK
    <3>6. CASE PusherReturns
      BY <1>0, <1>r, <3>6 DEF PusherReturns, TypeOK
    <3>7. CASE ProxyServes
      BY <1>0, <1>r, <3>7 DEF ProxyServes, TypeOK
    <3>8. CASE ProxyReturns
      BY <1>0, <1>r, <3>8 DEF ProxyReturns, TypeOK
    <3>9. CASE ProxyShutdown
      BY <1>0, <1>r, <3>9 DEF ProxyShutdown, TypeOK
    <3>10. CASE ProxyShutdownReturns
      BY <1>0, <1>r, <3>10 DEF ProxyShutdownReturns, TypeOK
    <3>11. CASE MetricsFails
      BY <1>0, <1>r, <3>11 DEF MetricsFails, TypeOK
    <3>12. CASE ProxyFails
      BY <1>0, <1>r, <3>12 DEF ProxyFails, TypeOK
    <3> QED
      BY <1>5, <3>1, <3>2, <3>3, <3>4, <3>5, <3>6, <3>7, <3>8, <3>9, <3>10, <3>11, <3>12
         DEF MetricsNext, PusherNext, ProxyNext
  <2>3. Waited'
    BY <1>0, <1>5, <2>1
       DEF MetricsNext, MetricsServes, MetricsReturns, ScrapeBegins, ScrapeEnds, PusherNext,
           PusherDrains, PusherReturns, ProxyNext, ProxyServes, ProxyReturns, MetricsFails, ProxyFails,
           ProxyShutdown, ProxyShutdownReturns, Waited
  <2>4. DrainsBeforeExit'
    BY <2>1 DEF DrainsBeforeExit
  <2> QED
    BY <2>1, <2>2, <2>3, <2>4, ProcessKeeps
<1>6. CASE \E r \in Request : RequestNext(r)
  BY <1>6, RequestIInv
<1>7. CASE UNCHANGED vars
  <2>1. UNCHANGED reqVars /\ UNCHANGED <<config, ctxDone, main, wg, metricsSrv, metricsShut,
                                         scraping, pusher, proxySrv, proxyShut>>
    BY <1>7 DEF vars
  <2>2. TypeOK' /\ Waited' /\ DrainsBeforeExit'
    BY <1>0, <1>r, <2>1 DEF TypeOK, Waited, DrainsBeforeExit
  <2> QED
    BY <2>1, <2>2, ProcessKeeps
<1> QED
  BY <1>1, <1>2, <1>3, <1>4, <1>5, <1>6, <1>7 DEF Next, MainNext, EnvNext, Exited

-----------------------------------------------------------------------------
(* Theorems *)

\* The joint invariant of main, its goroutines and the handlers.
THEOREM ExporterInvariant == Spec => []IInv
  BY InitIInv, NextIInv, PTL DEF Spec

\* Types of the process: the gauge of no model ever goes below zero.
THEOREM ExporterTypeCorrect == Spec => []TypeOK
<1>1. IInv => TypeOK
  BY DEF IInv
<1> QED
  BY <1>1, ExporterInvariant, PTL

\* ollama_requests_in_flight is the number of observed requests in progress, for
\* any number of concurrent requests, models and ways out of the handler.
THEOREM GaugeIsExact == Spec => []InFlightIsExact
<1>1. IInv => InFlightIsExact
  BY DEF IInv, InFlightIsExact, InFlight, Counts
<1> QED
  BY <1>1, ExporterInvariant, PTL

\* The instrumented handler and modifyResponse observe each request once.
THEOREM EachRequestObservedOnce == Spec => []ObservedOnce
<1>1. ASSUME IInv PROVE ObservedOnce
  <2> SUFFICES ASSUME NEW r \in Request
               PROVE  /\ req[r].at = "done" => durations[r] = IF req[r].kind.excluded THEN 0 ELSE 1
                      /\ extractions[r] <= IF Observed(r) THEN 1 ELSE 0
                      /\ req[r].at = "dec" /\ req[r].observer => extractions[r] = 1
    BY DEF ObservedOnce
  <2>1. Progress(r) /\ req[r].kind.excluded \in BOOLEAN
    BY <1>1, Fields DEF IInv
  <2> QED
    BY <2>1 DEF Progress
<1> QED
  BY <1>1, ExporterInvariant, PTL

\* main returns only after Pusher.Run and the /metrics server's ListenAndServe.
THEOREM PusherOutlived == Spec => []DrainsBeforeExit
<1>1. IInv => DrainsBeforeExit
  BY DEF IInv
<1> QED
  BY <1>1, ExporterInvariant, PTL

=============================================================================
