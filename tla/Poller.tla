------------------------------- MODULE Poller -------------------------------
(***************************************************************************)
(* internal/collector/poller.go: one scrape is GET /, GET /api/ps, a       *)
(* metadata lookup per running and per vanished model, GET /api/tags, and  *)
(* the reconciliation of the cache and of the per-model gauges, with the   *)
(* Ollama server changing and the proxy's requests completing in between.  *)
(*                                                                         *)
(* loadedGauge stands for ollama_model_loaded and, written at the same     *)
(* places, ollama_model_vram_bytes (1 for the reported size); tokenGauge   *)
(* for the three gauges the proxy sets.  A series is a model with a label. *)
(***************************************************************************)
EXTENDS ModelCache

CONSTANTS
    Request,      \* concurrent proxy requests
    poller        \* the poller's goroutine

ASSUME PollerAssumption ==
    /\ poller \notin Request
    /\ Thread = Request \cup {poller}
    /\ Nil \notin {0, 1}

VARIABLES
    running,      \* server: models loaded in memory
    ppc,          \* where scrape is
    up,           \* ollama_up
    ps,           \* models of the /api/ps answer, and whether the list was null
    psNull,
    todo,         \* models the current loop of scrape has still to visit
    present,      \* scrape's local set of models to keep
    seenPulls,    \* history: the models' generations when /api/tags answered
    doomedSeries, \* pruneModelGauge's local `absent`
    prevLoaded, initialized,
    firstLoaded,  \* history: models the first complete scrape found loaded
    loadedGauge,  \* value of each series, Nil if it does not exist
    loads,        \* model_load_total - model_unload_total of each series
    events,       \* model_load_events_total - model_unload_events_total
    tokenGauge,   \* the series that exist
    rpc,          \* where each request is
    forgotten     \* history: generation up to which a prune removed the model

pollVars == <<ppc, up, ps, psNull, todo, present, seenPulls, doomedSeries,
              prevLoaded, initialized, firstLoaded>>
gaugeVars == <<loadedGauge, loads, events>>
vars == <<serverVars, running, cacheVars, pollVars, gaugeVars, tokenGauge, rpc, forgotten>>

Series == Model \X Label

TypeOK ==
    /\ CacheTypeOK
    /\ running \in SUBSET Model
    /\ ppc \in {"idle", "ps", "running", "vanished", "tags", "prune",
                "loadedGauge", "collect", "delete", "finish"}
    /\ up \in {0, 1}
    /\ ps \in SUBSET Model
    /\ psNull \in BOOLEAN
    /\ todo \in SUBSET Model
    /\ present \in SUBSET Model
    /\ seenPulls \in [Model -> 0..MaxPulls]
    /\ doomedSeries \in SUBSET Model
    /\ prevLoaded \in SUBSET Model
    /\ initialized \in BOOLEAN
    /\ firstLoaded \in SUBSET Model
    /\ loadedGauge \in [Series -> {Nil, 0, 1}]
    /\ loads \in [Series -> Int]
    /\ events \in [Model -> Int]
    /\ tokenGauge \in SUBSET Series
    /\ rpc \in [Request -> {"idle", "completed", "ended"}]
    /\ forgotten \in [Model -> -1..MaxPulls]

Init ==
    /\ CacheInit
    /\ running = {}
    /\ ppc = "idle"
    /\ up = 0
    /\ ps = {} /\ psNull = FALSE
    /\ todo = {}
    /\ present = {}
    /\ seenPulls = [m \in Model |-> 0]
    /\ doomedSeries = {}
    /\ prevLoaded = {}
    /\ initialized = FALSE
    /\ firstLoaded = {}
    /\ loadedGauge = [s \in Series |-> Nil]
    /\ loads = [s \in Series |-> 0]
    /\ events = [m \in Model |-> 0]
    /\ tokenGauge = {}
    /\ rpc = [r \in Request |-> "idle"]
    /\ forgotten = [m \in Model |-> -1]

-----------------------------------------------------------------------------
(* scrape *)

HealthFails ==
    /\ ppc = "idle"
    /\ up' = 0
    /\ UNCHANGED <<serverVars, running, cacheVars, ppc, ps, psNull, todo, present, seenPulls,
                   doomedSeries, prevLoaded, initialized, firstLoaded, gaugeVars,
                   tokenGauge, rpc, forgotten>>

HealthPasses ==
    /\ ppc = "idle"
    /\ up' = 1
    /\ ppc' = "ps"
    /\ UNCHANGED <<serverVars, running, cacheVars, ps, psNull, todo, present, seenPulls,
                   doomedSeries, prevLoaded, initialized, firstLoaded, gaugeVars,
                   tokenGauge, rpc, forgotten>>

PSFails ==
    /\ ppc = "ps"
    /\ ppc' = "idle"
    /\ UNCHANGED <<serverVars, running, cacheVars, up, ps, psNull, todo, present, seenPulls,
                   doomedSeries, prevLoaded, initialized, firstLoaded, gaugeVars,
                   tokenGauge, rpc, forgotten>>

\* A snapshot of the running models; an empty list may arrive as null.
PSAnswers ==
    /\ ppc = "ps"
    /\ ps' = running
    /\ psNull' \in (IF running = {} THEN BOOLEAN ELSE {FALSE})
    /\ todo' = running
    /\ ppc' = "running"
    /\ UNCHANGED <<serverVars, running, cacheVars, up, present, seenPulls, doomedSeries,
                   prevLoaded, initialized, firstLoaded, gaugeVars, tokenGauge, rpc, forgotten>>

\* Either loop asks the cache for the next model.
ScrapeLooksUp ==
    /\ ppc \in {"running", "vanished"}
    /\ \E m \in todo : GetBegins(poller, m)
    /\ UNCHANGED <<serverVars, running, pollVars, gaugeVars, tokenGauge, rpc, forgotten>>

setLoaded(s, v) == [loadedGauge EXCEPT ![s] = v]

\* Mutant of newlyLoaded: prevLoaded is not consulted.
runningNow(m) == TRUE

newlyLoaded(m) == m \notin prevLoaded

\* Mutant of loadEvent: models found by the first scrape have a load event.
loadEventAlways(m) == [events EXCEPT ![m] = @ + 1]

\* Load events begin with the second scrape.
loadEvent(m) == IF initialized THEN [events EXCEPT ![m] = @ + 1] ELSE events

\* The body of the loop over ps.Models.
RunningModel ==
    /\ ppc = "running" /\ look[poller].at = "got"
    /\ LET m == look[poller].model
           s == <<m, look[poller].info>>
       IN  /\ loadedGauge' = setLoaded(s, 1)
           /\ loads' = IF newlyLoaded(m) THEN [loads EXCEPT ![s] = @ + 1] ELSE loads
           /\ events' = IF newlyLoaded(m) THEN loadEvent(m) ELSE events
           /\ todo' = todo \ {m}
    /\ GetDone(poller)
    /\ UNCHANGED <<serverVars, running, cache, writer, cacheGen, ppc, up, ps, psNull, present,
                   seenPulls, doomedSeries, prevLoaded, initialized, firstLoaded,
                   tokenGauge, rpc, forgotten>>

RunningDone ==
    /\ ppc = "running" /\ todo = {} /\ look[poller].at = "none"
    /\ ppc' = "vanished"
    /\ todo' = prevLoaded \ ps
    /\ UNCHANGED <<serverVars, running, cacheVars, up, ps, psNull, present, seenPulls,
                   doomedSeries, prevLoaded, initialized, firstLoaded, gaugeVars,
                   tokenGauge, rpc, forgotten>>

\* The body of the loop over models that were loaded at the last tick.
VanishedModel ==
    /\ ppc = "vanished" /\ look[poller].at = "got"
    /\ LET m == look[poller].model
           s == <<m, look[poller].info>>
       IN  /\ loadedGauge' = setLoaded(s, 0)
           /\ loads' = [loads EXCEPT ![s] = @ - 1]
           /\ events' = [events EXCEPT ![m] = @ - 1]
           /\ todo' = todo \ {m}
    /\ GetDone(poller)
    /\ UNCHANGED <<serverVars, running, cache, writer, cacheGen, ppc, up, ps, psNull, present,
                   seenPulls, doomedSeries, prevLoaded, initialized, firstLoaded,
                   tokenGauge, rpc, forgotten>>

VanishedDone ==
    /\ ppc = "vanished" /\ todo = {} /\ look[poller].at = "none"
    /\ ppc' = "tags"
    /\ UNCHANGED <<serverVars, running, cacheVars, up, ps, psNull, todo, present, seenPulls,
                   doomedSeries, prevLoaded, initialized, firstLoaded, gaugeVars,
                   tokenGauge, rpc, forgotten>>

\* /api/tags fails, or one of the two lists was null: the inventory is kept.
TagsUnusable ==
    /\ ppc = "tags"
    /\ ppc' = "finish"
    /\ UNCHANGED <<serverVars, running, cacheVars, up, ps, psNull, todo, present, seenPulls,
                   doomedSeries, prevLoaded, initialized, firstLoaded, gaugeVars,
                   tokenGauge, rpc, forgotten>>

\* Mutant of TagsAnswers: what is running but not installed is absent.
TagsIgnoresRunning ==
    /\ ppc = "tags" /\ ~psNull
    /\ present' = Installed
    /\ seenPulls' = pulls
    /\ ppc' = "prune"
    /\ UNCHANGED <<serverVars, running, cacheVars, up, ps, psNull, todo, doomedSeries,
                   prevLoaded, initialized, firstLoaded, gaugeVars, tokenGauge, rpc, forgotten>>

\* What is installed, and whatever /api/ps said is running, is present.
TagsAnswers ==
    /\ ppc = "tags" /\ ~psNull
    /\ present' = Installed \cup ps
    /\ seenPulls' = pulls
    /\ ppc' = "prune"
    /\ UNCHANGED <<serverVars, running, cacheVars, up, ps, psNull, todo, doomedSeries,
                   prevLoaded, initialized, firstLoaded, gaugeVars, tokenGauge, rpc, forgotten>>

PruneCache ==
    /\ ppc = "prune"
    /\ prune(present)
    /\ forgotten' = [m \in Model |-> IF m \in present THEN forgotten[m] ELSE seenPulls[m]]
    /\ ppc' = "loadedGauge"
    /\ UNCHANGED <<serverVars, running, up, ps, psNull, todo, present, seenPulls,
                   doomedSeries, prevLoaded, initialized, firstLoaded, gaugeVars, tokenGauge, rpc>>

\* pruneModelGauge on the gauges only the poller writes.
PruneLoadedGauge ==
    /\ ppc = "loadedGauge"
    /\ loadedGauge' = [s \in Series |-> IF s[1] \in present THEN loadedGauge[s] ELSE Nil]
    /\ ppc' = "collect"
    /\ UNCHANGED <<serverVars, running, cacheVars, up, ps, psNull, todo, present, seenPulls,
                   doomedSeries, prevLoaded, initialized, firstLoaded, loads, events,
                   tokenGauge, rpc, forgotten>>

\* Mutant of AbsentModels: only models that were loaded are considered.
AbsentLoadedModels == ({s[1] : s \in tokenGauge} \cap prevLoaded) \ present

AbsentModels == {s[1] : s \in tokenGauge} \ present

\* pruneModelGauge on the gauges requests write too: collect the absent models
\* of the existing series, then delete every series of those models.
CollectTokenGauge ==
    /\ ppc = "collect"
    /\ doomedSeries' = AbsentModels
    /\ ppc' = "delete"
    /\ UNCHANGED <<serverVars, running, cacheVars, up, ps, psNull, todo, present, seenPulls,
                   prevLoaded, initialized, firstLoaded, gaugeVars, tokenGauge, rpc, forgotten>>

DeleteTokenGauge ==
    /\ ppc = "delete"
    /\ tokenGauge' = {s \in tokenGauge : s[1] \notin doomedSeries}
    /\ doomedSeries' = {}
    /\ ppc' = "finish"
    /\ UNCHANGED <<serverVars, running, cacheVars, up, ps, psNull, todo, present, seenPulls,
                   prevLoaded, initialized, firstLoaded, gaugeVars, rpc, forgotten>>

\* The last assignments of scrape; its locals go out of scope.
ScrapeEnds ==
    /\ ppc = "finish"
    /\ prevLoaded' = ps
    /\ initialized' = TRUE
    /\ firstLoaded' = IF initialized THEN firstLoaded ELSE ps
    /\ ppc' = "idle"
    /\ ps' = {} /\ psNull' = FALSE /\ present' = {}
    /\ seenPulls' = [m \in Model |-> 0]
    /\ UNCHANGED <<serverVars, running, cacheVars, up, todo, doomedSeries, gaugeVars,
                   tokenGauge, rpc, forgotten>>

LookupStep ==
    /\ \E t \in Thread : GetStep(t)
    /\ UNCHANGED <<serverVars, running, pollVars, gaugeVars, tokenGauge, rpc, forgotten>>

-----------------------------------------------------------------------------
(* Proxy requests: what their completion does to the cache and the gauges *)

\* An inference on an installed model completes: recordGenerateMetrics.
InferenceCompletes(r, m) ==
    /\ rpc[r] = "idle" /\ m \in Installed
    /\ GetBegins(r, m)
    /\ rpc' = [rpc EXCEPT ![r] = "completed"]
    /\ UNCHANGED <<serverVars, running, pollVars, gaugeVars, tokenGauge, forgotten>>

\* Any request ends, for a model that need not exist: its duration is observed
\* under labels looked up the same way.
RequestEnds(r, m) ==
    /\ rpc[r] = "idle"
    /\ GetBegins(r, m)
    /\ rpc' = [rpc EXCEPT ![r] = "ended"]
    /\ UNCHANGED <<serverVars, running, pollVars, gaugeVars, tokenGauge, forgotten>>

RequestObserves(r) ==
    /\ rpc[r] # "idle" /\ look[r].at = "got"
    /\ tokenGauge' = IF rpc[r] = "completed"
                     THEN tokenGauge \cup {<<look[r].model, look[r].info>>}
                     ELSE tokenGauge
    /\ GetDone(r)
    /\ rpc' = [rpc EXCEPT ![r] = "idle"]
    /\ UNCHANGED <<serverVars, running, cache, writer, cacheGen, pollVars, gaugeVars, forgotten>>

-----------------------------------------------------------------------------
(* The Ollama server *)

ServerPulls(m, i) ==
    /\ Pull(m, i)
    /\ UNCHANGED <<running, cacheVars, pollVars, gaugeVars, tokenGauge, rpc, forgotten>>

ServerLoads(m) ==
    /\ m \in Installed \ running
    /\ running' = running \cup {m}
    /\ UNCHANGED <<serverVars, cacheVars, pollVars, gaugeVars, tokenGauge, rpc, forgotten>>

ServerUnloads(m) ==
    /\ m \in running
    /\ running' = running \ {m}
    /\ UNCHANGED <<serverVars, cacheVars, pollVars, gaugeVars, tokenGauge, rpc, forgotten>>

\* Deleting a model also unloads it.
ServerDeletes(m) ==
    /\ m \in Installed
    /\ meta' = [meta EXCEPT ![m] = Nil]
    /\ running' = running \ {m}
    /\ UNCHANGED <<pulls, cacheVars, pollVars, gaugeVars, tokenGauge, rpc, forgotten>>

Scrape ==
    \/ HealthFails \/ HealthPasses \/ PSFails \/ PSAnswers \/ ScrapeLooksUp
    \/ RunningModel \/ RunningDone \/ VanishedModel \/ VanishedDone
    \/ TagsUnusable \/ TagsAnswers \/ PruneCache \/ PruneLoadedGauge
    \/ CollectTokenGauge \/ DeleteTokenGauge \/ ScrapeEnds

RequestNext(r) ==
    \/ \E m \in Model : InferenceCompletes(r, m) \/ RequestEnds(r, m)
    \/ RequestObserves(r)

Server ==
    \E m \in Model :
        \/ \E i \in Info : ServerPulls(m, i)
        \/ ServerLoads(m) \/ ServerUnloads(m) \/ ServerDeletes(m)

Next == Scrape \/ LookupStep \/ (\E r \in Request : RequestNext(r)) \/ Server

\* The ticker keeps firing, lookups end (the HTTP client has a timeout) and a
\* completed request records its metrics.
Fairness ==
    /\ WF_vars(Scrape)
    /\ \A t \in Thread : WF_vars(GetStep(t) /\ LookupStep)
    /\ \A r \in Request : WF_vars(RequestObserves(r))

Spec == Init /\ [][Next]_vars

FairSpec == Spec /\ Fairness

-----------------------------------------------------------------------------
(* Properties *)

One(x) == IF x THEN 1 ELSE 0

\* Models whose series show 1: loaded at the last complete scrape, adjusted by
\* what the scrape in progress has already done.
Shown ==
    CASE ppc = "running" -> prevLoaded \cup (ps \ todo)
      [] ppc = "vanished" -> ps \cup (prevLoaded \cap todo)
      [] ppc \in {"tags", "prune", "loadedGauge", "collect", "delete", "finish"} -> ps
      [] OTHER -> prevLoaded

\* ollama_model_loaded is 1 for exactly one series of each model that is shown
\* and for no other series, and that series carries the cached labels, although
\* labels are looked up anew at every scrape, entries come and go, and models
\* are deleted and pulled again with other metadata.
OneLoadedSeries ==
    \A m \in Model :
        IF m \in Shown
        THEN /\ cache[m] # Nil
             /\ \A l \in Label : (loadedGauge[<<m, l>>] = 1) <=> (l = cache[m])
        ELSE \A l \in Label : loadedGauge[<<m, l>>] # 1

\* load_total and unload_total of a series differ by 1 while it shows 1 and agree
\* otherwise: every load is matched by an unload under the same labels.  The event
\* counters do the same, except that a model found loaded by the first scrape has
\* no load event.
LoadsBalance ==
    /\ \A s \in Series : loads[s] = One(s[1] \in Shown /\ cache[s[1]] = s[2])
    /\ initialized =>
          \A m \in Model : events[m] = One(m \in Shown) - One(m \in firstLoaded)

\* Metadata the server gave for a model never predates the inventory that last
\* removed the model: a lookup in progress does not restore what prune evicted.
PruneIsFinal == \A m \in Model : cache[m] \in Info => cacheGen[m] > forgotten[m]

\* The series of a model that is gone for good are gone for good, if inventory
\* polls keep succeeding: late observations are removed by a later poll.
Reclaimed ==
    \A m \in Model :
        (<>[](m \notin Installed) /\ []<>(ppc = "delete"))
            => <>[](\A l \in Label : <<m, l>> \notin tokenGauge /\ loadedGauge[<<m, l>>] = Nil)

\* docs/metrics.md: a model that an inventory poll saw deleted and that was pulled
\* again is looked up again, so its entry is of the present generation.
RecreatedIsRefetched ==
    \A m \in Installed :
        forgotten[m] >= 1 /\ cache[m] # Nil => cacheGen[m] > forgotten[m]
=============================================================================
