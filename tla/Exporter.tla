------------------------------ MODULE Exporter ------------------------------
(***************************************************************************)
(* The process: main (cmd/exporter/main.go) with the goroutines it starts, *)
(* the /metrics server, the remote-write Pusher (RemoteWrite.tla, here     *)
(* only "running" and "done"), the collector's proxy server, and the       *)
(* proxy's instrumented request handler (internal/collector/proxy.go).     *)
(* net/http's Server and ReverseProxy are external.  There is no clock:    *)
(* the two Shutdown timeouts may fire at any time.                         *)
(***************************************************************************)
EXTENDS Integers, FiniteSets

CONSTANTS
    Request,   \* requests to the proxy
    Label,     \* values of the model label
    NoModel    \* no model in the request's query or body: the empty label

ASSUME ExporterAssumption ==
    /\ IsFiniteSet(Request)
    /\ NoModel \in Label

VARIABLES
    config,      \* the parts that are enabled
    ctxDone,     \* SIGINT or SIGTERM has been received
    main,        \* where main is
    wg,          \* goroutines main's WaitGroup counts
    metricsSrv,  \* the /metrics server's ListenAndServe
    metricsShut, \* Shutdown has been called on it
    scraping,    \* GET /metrics in progress
    pusher,      \* Pusher.Run
    proxySrv,    \* the proxy's ListenAndServe
    proxyShut,   \* the goroutine that shuts the proxy down
    req,         \* where each handler is, and what it knows of its request
    inFlight,    \* ollama_requests_in_flight
    durations,   \* observations of the duration histogram, by request
    extractions  \* extraction results, by request

mainVars == <<config, ctxDone, main, wg>>
metricsVars == <<metricsSrv, metricsShut, scraping>>
proxyVars == <<proxySrv, proxyShut>>
reqVars == <<req, inFlight, durations, extractions>>
vars == <<mainVars, metricsVars, pusher, proxyVars, reqVars>>

\* What of a request matters to the handler: whether it is a POST to one of the
\* inference paths, whether its path is excluded, and `model`, which is the
\* query's until the body's prefix has been read; and whether its response
\* body has been given an observer.
Kind == [inference : BOOLEAN, excluded : BOOLEAN]
Configs == [metrics : BOOLEAN, remoteWrite : BOOLEAN, proxy : BOOLEAN]
ReqType ==
    [at : {"idle", "prefix", "forward", "body", "deferred", "dec", "done"},
     kind : Kind, model : Label, observer : BOOLEAN]

TypeOK ==
    /\ config \in Configs
    /\ ctxDone \in BOOLEAN
    /\ main \in {"starting", "running", "shutdown", "waiting", "exited"}
    /\ wg \in SUBSET {"metrics", "pusher"}
    /\ metricsSrv \in {"off", "starting", "serving", "returned"}
    /\ metricsShut \in BOOLEAN
    /\ scraping \in BOOLEAN
    /\ pusher \in {"off", "running", "draining", "done"}
    /\ proxySrv \in {"off", "starting", "serving", "returned"}
    /\ proxyShut \in {"off", "waiting", "shutting", "timedOut", "done"}
    /\ req \in [Request -> ReqType]
    /\ inFlight \in [Label -> Nat]
    /\ durations \in [Request -> Nat]
    /\ extractions \in [Request -> Nat]

NoRequest ==
    [at |-> "idle", model |-> NoModel, observer |-> FALSE,
     kind |-> [inference |-> FALSE, excluded |-> FALSE]]

Init ==
    /\ config \in Configs
    /\ ctxDone = FALSE
    /\ main = "starting"
    /\ wg = {}
    /\ metricsSrv = "off" /\ metricsShut = FALSE /\ scraping = FALSE
    /\ pusher = "off"
    /\ proxySrv = "off" /\ proxyShut = "off"
    /\ req = [r \in Request |-> NoRequest]
    /\ inFlight = [l \in Label |-> 0]
    /\ durations = [r \in Request |-> 0]
    /\ extractions = [r \in Request |-> 0]

\* Goroutines run only while main has not returned.
Alive == main \notin {"starting", "exited"}

-----------------------------------------------------------------------------
(* main *)

\* Loading the configuration, building the collector or the pusher fails.
StartFails ==
    /\ main = "starting"
    /\ main' = "exited"
    /\ UNCHANGED <<config, ctxDone, wg, metricsVars, pusher, proxyVars, reqVars>>

\* Mutant of Start: no wg.Add for the pusher.
StartUncounted(parsed) ==
    /\ main = "starting"
    /\ main' = "running"
    /\ proxySrv' = CASE ~config.proxy -> "off"
                     [] config.proxy /\ parsed -> "starting"
                     [] OTHER -> "returned"
    /\ proxyShut' = IF config.proxy /\ parsed THEN "waiting" ELSE "off"
    /\ metricsSrv' = IF config.metrics THEN "starting" ELSE "off"
    /\ pusher' = IF config.remoteWrite THEN "running" ELSE "off"
    /\ wg' = IF config.metrics THEN {"metrics"} ELSE {}
    /\ UNCHANGED <<config, ctxDone, metricsShut, scraping, reqVars>>

\* The collector is started outside the WaitGroup; the /metrics server and the
\* pusher are counted by it.  Proxy.Start gives up at once, with no server and no
\* shutdown goroutine, if the upstream's URL cannot be parsed.
Start(parsed) ==
    /\ main = "starting"
    /\ main' = "running"
    /\ proxySrv' = CASE ~config.proxy -> "off"
                     [] config.proxy /\ parsed -> "starting"
                     [] OTHER -> "returned"
    /\ proxyShut' = IF config.proxy /\ parsed THEN "waiting" ELSE "off"
    /\ metricsSrv' = IF config.metrics THEN "starting" ELSE "off"
    /\ pusher' = IF config.remoteWrite THEN "running" ELSE "off"
    /\ wg' = (IF config.metrics THEN {"metrics"} ELSE {})
                \cup (IF config.remoteWrite THEN {"pusher"} ELSE {})
    /\ UNCHANGED <<config, ctxDone, metricsShut, scraping, reqVars>>

Signal ==
    /\ Alive /\ ~ctxDone
    /\ ctxDone' = TRUE
    /\ UNCHANGED <<config, main, wg, metricsVars, pusher, proxyVars, reqVars>>

\* <-ctx.Done(), and the call of srv.Shutdown if there is a server.
MainSignalled ==
    /\ main = "running" /\ ctxDone
    /\ main' = IF config.metrics THEN "shutdown" ELSE "waiting"
    /\ metricsShut' = config.metrics
    /\ UNCHANGED <<config, ctxDone, wg, metricsSrv, scraping, pusher, proxyVars, reqVars>>

\* srv.Shutdown returns: no scrape is in progress, or its timeout has passed.
ShutdownReturns ==
    /\ main = "shutdown" /\ ~scraping
    /\ main' = "waiting"
    /\ UNCHANGED <<config, ctxDone, wg, metricsVars, pusher, proxyVars, reqVars>>

\* Mutant of ShutdownTimesOut: Shutdown waits for scrapes without a timeout.
ShutdownUnbounded == main = "shutdown" /\ scraping /\ UNCHANGED vars

ShutdownTimesOut ==
    /\ main = "shutdown" /\ scraping
    /\ main' = "waiting"
    /\ UNCHANGED <<config, ctxDone, wg, metricsVars, pusher, proxyVars, reqVars>>

\* wg.Wait returns and main with it, which ends every goroutine.
MainExits ==
    /\ main = "waiting" /\ wg = {}
    /\ main' = "exited"
    /\ UNCHANGED <<config, ctxDone, wg, metricsVars, pusher, proxyVars, reqVars>>

-----------------------------------------------------------------------------
(* The /metrics server's goroutine, and the pusher's *)

MetricsServes ==
    /\ Alive /\ metricsSrv = "starting" /\ ~metricsShut
    /\ metricsSrv' = "serving"
    /\ UNCHANGED <<mainVars, metricsShut, scraping, pusher, proxyVars, reqVars>>

\* ListenAndServe returns: the address cannot be bound, or Shutdown has been
\* called, perhaps before it.  The error is logged and the process goes on.
MetricsReturns ==
    /\ Alive
    /\ metricsSrv = "starting" \/ (metricsSrv = "serving" /\ metricsShut)
    /\ metricsSrv' = "returned"
    /\ wg' = wg \ {"metrics"}
    /\ UNCHANGED <<config, ctxDone, main, metricsShut, scraping, pusher, proxyVars, reqVars>>

\* Serve returns an error of its own, a listener that no longer accepts.
MetricsFails ==
    /\ Alive /\ metricsSrv = "serving" /\ ~metricsShut
    /\ metricsSrv' = "returned"
    /\ wg' = wg \ {"metrics"}
    /\ UNCHANGED <<config, ctxDone, main, metricsShut, scraping, pusher, proxyVars, reqVars>>

ScrapeBegins ==
    /\ Alive /\ metricsSrv = "serving" /\ ~metricsShut /\ ~scraping
    /\ scraping' = TRUE
    /\ UNCHANGED <<mainVars, metricsSrv, metricsShut, pusher, proxyVars, reqVars>>

ScrapeEnds ==
    /\ Alive /\ scraping
    /\ scraping' = FALSE
    /\ UNCHANGED <<mainVars, metricsSrv, metricsShut, pusher, proxyVars, reqVars>>

PusherDrains ==
    /\ Alive /\ pusher = "running" /\ ctxDone
    /\ pusher' = "draining"
    /\ UNCHANGED <<mainVars, metricsVars, proxyVars, reqVars>>

\* Run returns (RemoteWrite: ppc = "done") and the deferred wg.Done runs.
PusherReturns ==
    /\ Alive /\ pusher = "draining"
    /\ pusher' = "done"
    /\ wg' = wg \ {"pusher"}
    /\ UNCHANGED <<config, ctxDone, main, metricsVars, proxyVars, reqVars>>

-----------------------------------------------------------------------------
(* The proxy's server *)

ProxyServes ==
    /\ Alive /\ proxySrv = "starting" /\ proxyShut = "waiting"
    /\ proxySrv' = "serving"
    /\ UNCHANGED <<mainVars, metricsVars, pusher, proxyShut, reqVars>>

ProxyReturns ==
    /\ Alive
    /\ proxySrv = "starting" \/ (proxySrv = "serving" /\ proxyShut # "waiting")
    /\ proxySrv' = "returned"
    /\ UNCHANGED <<mainVars, metricsVars, pusher, proxyShut, reqVars>>

\* As MetricsFails; the shutdown goroutine stays, and so do requests in progress.
ProxyFails ==
    /\ Alive /\ proxySrv = "serving" /\ proxyShut = "waiting"
    /\ proxySrv' = "returned"
    /\ UNCHANGED <<mainVars, metricsVars, pusher, proxyShut, reqVars>>

\* The shutdown goroutine: <-ctx.Done(), then server.Shutdown with a timeout of
\* its own, because ctx has already been cancelled.
ProxyShutdown ==
    /\ Alive /\ proxyShut = "waiting" /\ ctxDone
    /\ proxyShut' = "shutting"
    /\ UNCHANGED <<mainVars, metricsVars, pusher, proxySrv, reqVars>>

Handling == {r \in Request : req[r].at \notin {"idle", "done"}}

ProxyShutdownReturns ==
    /\ Alive /\ proxyShut = "shutting"
    /\ proxyShut' = IF Handling = {} THEN "done" ELSE "timedOut"
    /\ UNCHANGED <<mainVars, metricsVars, pusher, proxySrv, reqVars>>

-----------------------------------------------------------------------------
(* The instrumented handler, around httputil.ReverseProxy *)

At(r, where) == Alive /\ req[r].at = where

Goto(r, where) == req' = [req EXCEPT ![r].at = where]

\* A request is accepted; its model is the one named in the query, if any.
Enter(r, kind, query) ==
    /\ At(r, "idle") /\ proxySrv = "serving" /\ proxyShut = "waiting"
    /\ req' = [req EXCEPT ![r] = [at |-> "prefix", kind |-> kind, model |-> query,
                                  observer |-> FALSE]]
    /\ UNCHANGED <<mainVars, metricsVars, pusher, proxyVars, inFlight, durations, extractions>>

\* The body's prefix is read if the request is an inference, and a model found
\* there replaces the query's.  An excluded path is forwarded unobserved, its
\* model forgotten; other requests count as in flight from here on.  A prefix that
\* cannot be read is answered with 400.
Dispatch(r, body, readErr) ==
    /\ At(r, "prefix")
    /\ req[r].kind.inference \/ (body = NoModel /\ ~readErr)
    /\ LET model == IF body = NoModel THEN req[r].model ELSE body
           excluded == req[r].kind.excluded
       IN  /\ req' = [req EXCEPT ![r].model = IF excluded THEN NoModel ELSE model,
                                 ![r].at = CASE ~readErr -> "forward"
                                             [] readErr /\ excluded -> "done"
                                             [] OTHER -> "deferred"]
           /\ inFlight' = IF excluded THEN inFlight
                                      ELSE [inFlight EXCEPT ![model] = @ + 1]
    /\ UNCHANGED <<mainVars, metricsVars, pusher, proxyVars, durations, extractions>>

\* modifyResponse: only inferences on paths that are not excluded are observed.
Observed(r) == req[r].kind.inference /\ ~req[r].kind.excluded

\* Mutant of Answers: a status other than 2xx gets an observer as well.
AnswersObserved(r, ok) ==
    /\ At(r, "forward")
    /\ req' = [req EXCEPT ![r].at = "body", ![r].observer = Observed(r)]
    /\ extractions' = IF Observed(r) /\ ~ok THEN [extractions EXCEPT ![r] = @ + 1]
                                            ELSE extractions
    /\ UNCHANGED <<mainVars, metricsVars, pusher, proxyVars, inFlight, durations>>

\* Upstream answers.  A status other than 2xx is a result of its own; otherwise
\* an observer (ResponseBody) is installed, which reports when the body ends.
Answers(r, ok) ==
    /\ At(r, "forward")
    /\ req' = [req EXCEPT ![r].at = "body", ![r].observer = ok /\ Observed(r)]
    /\ extractions' = IF Observed(r) /\ ~ok THEN [extractions EXCEPT ![r] = @ + 1]
                                            ELSE extractions
    /\ UNCHANGED <<mainVars, metricsVars, pusher, proxyVars, inFlight, durations>>

\* Where a request goes when ServeHTTP is left, normally or by a panic: to the
\* deferred calls, if any were registered.
Leave(r) == Goto(r, IF req[r].kind.excluded THEN "done" ELSE "deferred")

\* The round trip fails: the ReverseProxy answers 502 and returns.
UpstreamFails(r) ==
    /\ At(r, "forward")
    /\ Leave(r)
    /\ UNCHANGED <<mainVars, metricsVars, pusher, proxyVars, inFlight, durations, extractions>>

\* The observer reports once, and is gone with the body.
BodyReported(r) ==
    extractions' = IF req[r].observer THEN [extractions EXCEPT ![r] = @ + 1]
                                                     ELSE extractions

\* The body has been copied; it is read to its end and closed.
BodyEnds(r) ==
    /\ At(r, "body")
    /\ BodyReported(r)
    /\ Leave(r)
    /\ UNCHANGED <<mainVars, metricsVars, pusher, proxyVars, inFlight, durations>>

\* Mutant of BodyAborts: the clean-up is not deferred and the panic skips it.
BodyAbortsUnclean(r) ==
    /\ At(r, "body")
    /\ BodyReported(r)
    /\ Goto(r, "done")
    /\ UNCHANGED <<mainVars, metricsVars, pusher, proxyVars, inFlight, durations>>

\* Copying fails on either side: the body is closed and the ReverseProxy panics
\* with ErrAbortHandler; deferred calls still run.
BodyAborts(r) ==
    /\ At(r, "body")
    /\ BodyReported(r)
    /\ Leave(r)
    /\ UNCHANGED <<mainVars, metricsVars, pusher, proxyVars, inFlight, durations>>

\* The deferred calls, last registered first: the duration is observed after a
\* metadata lookup, then the gauge obtained at entry is decremented.
ObserveDuration(r) ==
    /\ At(r, "deferred")
    /\ durations' = [durations EXCEPT ![r] = @ + 1]
    /\ Goto(r, "dec")
    /\ UNCHANGED <<mainVars, metricsVars, pusher, proxyVars, inFlight, extractions>>

Decrement(r) ==
    /\ At(r, "dec")
    /\ inFlight' = [inFlight EXCEPT ![req[r].model] = @ - 1]
    /\ req' = [req EXCEPT ![r] = [@ EXCEPT !.at = "done", !.model = NoModel,
                                                 !.observer = FALSE]]
    /\ UNCHANGED <<mainVars, metricsVars, pusher, proxyVars, durations, extractions>>

-----------------------------------------------------------------------------

MainNext ==
    \/ StartFails \/ (\E parsed \in BOOLEAN : Start(parsed)) \/ MainSignalled
    \/ ShutdownReturns \/ ShutdownTimesOut \/ MainExits

\* What the environment may do and need not.
EnvNext == Signal \/ ScrapeBegins \/ ScrapeEnds \/ MetricsFails \/ ProxyFails

MetricsNext == MetricsServes \/ MetricsReturns

PusherNext == PusherDrains \/ PusherReturns

ProxyNext == ProxyServes \/ ProxyReturns \/ ProxyShutdown \/ ProxyShutdownReturns

RequestNext(r) ==
    \/ \E k \in Kind, query \in Label : Enter(r, k, query)
    \/ \E body \in Label, readErr \in BOOLEAN : Dispatch(r, body, readErr)
    \/ \E ok \in BOOLEAN : Answers(r, ok)
    \/ UpstreamFails(r) \/ BodyEnds(r) \/ BodyAborts(r)
    \/ ObserveDuration(r) \/ Decrement(r)

Exited == main = "exited" /\ UNCHANGED vars

Next ==
    \/ MainNext \/ EnvNext \/ MetricsNext \/ PusherNext \/ ProxyNext
    \/ (\E r \in Request : RequestNext(r)) \/ Exited

\* Runnable goroutines run, timeouts fire, and Pusher.Run returns
\* (RemoteWrite!ShutdownTerminates).  Scrapes and proxied requests may take
\* forever, no signal has to come and no listener has to fail.
Fairness == WF_vars(MainNext) /\ WF_vars(MetricsNext) /\ WF_vars(PusherNext) /\ WF_vars(ProxyNext)

Spec == Init /\ [][Next]_vars

FairSpec == Spec /\ Fairness

-----------------------------------------------------------------------------
(* Properties *)

\* The in-flight gauge of each model is the number of observed requests in
\* progress, on every way out of the handler: 400, 502, a body that ends, and a
\* panic of the reverse proxy.
InFlightIsExact ==
    \A l \in Label :
        inFlight[l] = Cardinality({r \in Request :
                          /\ req[r].at \in {"forward", "body", "deferred", "dec"}
                          /\ ~req[r].kind.excluded
                          /\ req[r].model = l})

\* A finished request has been observed exactly once, or not at all if its path
\* is excluded; only inferences have an extraction result, and one at most.
ObservedOnce ==
    \A r \in Request :
        /\ req[r].at = "done" => durations[r] = IF req[r].kind.excluded THEN 0 ELSE 1
        /\ extractions[r] <= IF Observed(r) THEN 1 ELSE 0
        /\ req[r].at = "dec" /\ req[r].observer => extractions[r] = 1

\* The process does not exit under the pusher's drain, nor while the /metrics
\* server is still in ListenAndServe.
DrainsBeforeExit ==
    main = "exited" => pusher \in {"off", "done"} /\ metricsSrv \in {"off", "returned"}

\* After a signal the process exits, even if a scrape or a proxied request never
\* ends, a server could not be started or failed later, or the signal came first.
ExitsAfterSignal == ctxDone ~> (main = "exited")

\* Graceful shutdown (CHANGELOG.md; the proxy's shutdown context "must outlive
\* the already-cancelled parent"): the process does not exit under a proxied
\* request that the proxy's Shutdown is still waiting for.
ProxyDrainsBeforeExit ==
    main = "exited" /\ Handling # {} => proxyShut = "timedOut"
=============================================================================
