------------------------------ MODULE Startup ------------------------------
(***************************************************************************)
(* From the config file to a running exporter: config.Load, main's         *)
(* buildPusher and toBuildSpec, remotewrite.Build with the defaults of the *)
(* parts it constructs, the interval the GPU collector gets, and one push  *)
(* of what the registry holds.  The file is read line by line, so that     *)
(* every prefix of a file is a file too.                                   *)
(***************************************************************************)
EXTENDS Config, Convert, FiniteSets

CONSTANTS
    Nil,
    Files,        \* families of files: the lines they begin with, those that may
                  \* follow, how many, and the values of OLLAMA_URL and LISTEN_ADDR
                  \* ("" for unset) they are loaded with
    Host,         \* host part of every URL text
    Registries    \* metric families a push may find

ASSUME StartupAssumption ==
    /\ Second \in Nat \ {0}
    /\ \A x \in DOMAIN Duration : Duration[x] \in Int
    /\ \A x \in DOMAIN Number : Number[x] \in Int
    /\ \A f \in DOMAIN Files :
          /\ Files[f].prefix \in Seq(Line) /\ Files[f].lines \subseteq Line
          /\ Files[f].more \in Nat

VARIABLES
    phase,    \* "scan", "loaded", "running", "failed"
    file,     \* the family of the file
    doc,      \* lines scanned so far
    tree,     \* parseYAMLTree's state
    env,
    cfg,      \* the loaded configuration
    running,  \* what the parts were constructed with
    registry, \* the families that were pushed, and the series they became
    pushed

vars == <<phase, file, doc, tree, env, cfg, running, registry, pushed>>

Init ==
    /\ phase = "scan"
    /\ file \in DOMAIN Files
    /\ doc = <<>> /\ tree = NewTree
    /\ env \in Files[file].environments
    /\ cfg = Nil /\ running = Nil
    /\ registry = <<>> /\ pushed = <<>>

\* The lines that may come next in a file of the family.
nextLines ==
    LET f == Files[file]
        n == Len(doc)
    IN  IF n < Len(f.prefix) THEN {f.prefix[n + 1]}
        ELSE IF n < Len(f.prefix) + f.more THEN f.lines ELSE {}

ScanLine(l) ==
    /\ phase = "scan"
    /\ ~tree.err
    /\ doc' = Append(doc, l)
    /\ tree' = parseLine(tree, l)
    /\ UNCHANGED <<phase, file, env, cfg, running, registry, pushed>>

\* The rest of Load, on the settings of the file or, without one, the defaults.
LoadFrom(c) ==
    LET o == override(c, env)
    IN  /\ phase = "scan"
        /\ IF c.err \/ ~validate(o)
           THEN phase' = "failed" /\ UNCHANGED cfg
           ELSE phase' = "loaded" /\ cfg' = o
        /\ UNCHANGED <<file, doc, tree, env, running, registry, pushed>>

Load == LoadFrom(IF tree.err THEN [defaults EXCEPT !.err = TRUE] ELSE applyTree(tree.nodes))

\* A missing file is not an error; one that cannot be read is.
LoadWithoutFile == doc = <<>> /\ \E unreadable \in BOOLEAN : LoadFrom([defaults EXCEPT !.err = unreadable])

-----------------------------------------------------------------------------
(* Construction *)

orDefault(x, d) == IF x <= 0 THEN d ELSE x

\* collector.New and gpu.NewCollector: the poller's interval unless there is one.
gpuInterval(c) ==
    orDefault(orDefault(c.set[<<"gpu", "poll_interval">>], c.set[<<"top", "poll_interval">>]), 15 * Second)

\* Mutant of Build: the capacity is taken as it is.
BuildUnsized(rw) ==
    [endpoint |-> rw.set[<<"entry", "url">>], capacity |-> rw.set[<<"queue", "capacity">>],
     failureThreshold |-> 5, window |-> 60 * Second, cooldown |-> 30 * Second,
     maxAttempts |-> 1, initialBackoff |-> Second, maxBackoff |-> Second, maxElapsed |-> 0,
     timeout |-> 30 * Second, flush |-> 10 * Second, user |-> "", password |-> "", token |-> "",
     headers |-> rw.headers, external |-> NewLabels(rw.external_labels)]

\* toBuildSpec, Build, NewCircuitBreaker and newHTTPClient for the first entry, with
\* what the sender makes of its settings: processBatch takes no attempts for one, and
\* computeBackoff has defaults of its own.
Build(rw) ==
    LET s == rw.set
        user == s[<<"basic_auth", "username">>]
    IN  [endpoint |-> IF s[<<"entry", "name">>] # "" THEN s[<<"entry", "name">>] ELSE Host[s[<<"entry", "url">>]],
         capacity |-> orDefault(s[<<"queue", "capacity">>], 10000),
         failureThreshold |-> orDefault(s[<<"circuit_breaker", "failure_threshold">>], 5),
         window |-> orDefault(s[<<"circuit_breaker", "window">>], 60 * Second),
         cooldown |-> orDefault(s[<<"circuit_breaker", "cooldown">>], 30 * Second),
         maxAttempts |-> orDefault(s[<<"retry", "max_attempts">>], 1),
         initialBackoff |-> orDefault(s[<<"retry", "initial_backoff">>], Second),
         maxBackoff |-> orDefault(s[<<"retry", "max_backoff">>], 30 * Second),
         maxElapsed |-> s[<<"retry", "max_elapsed">>],
         timeout |-> orDefault(s[<<"entry", "timeout">>], 30 * Second),
         flush |-> orDefault(s[<<"entry", "flush_interval">>], 10 * Second),
         user |-> user,
         password |-> IF user # "" THEN s[<<"basic_auth", "password_file">>] ELSE "",
         token |-> s[<<"entry", "bearer_token_file">>],
         headers |-> rw.headers,
         external |-> NewLabels(rw.external_labels)]

\* loadCreds and newHTTPClient read files; any of them may fail.
readsFiles(rw) ==
    \/ rw.set[<<"entry", "bearer_token_file">>] # ""
    \/ rw.set[<<"basic_auth", "username">>] # "" /\ rw.set[<<"basic_auth", "password_file">>] # ""
    \/ rw.set[<<"tls", "ca_file">>] # ""

BuildPusher ==
    /\ phase = "loaded"
    /\ phase' = "running"
    /\ running' = [poll |-> cfg.set[<<"top", "poll_interval">>], gpu |-> gpuInterval(cfg),
                   push |-> IF cfg.remoteWrite = <<>> THEN <<>> ELSE <<Build(cfg.remoteWrite[1])>>]
    /\ UNCHANGED <<file, doc, tree, env, cfg, registry, pushed>>

BuildFails ==
    /\ phase = "loaded"
    /\ cfg.remoteWrite # <<>> /\ readsFiles(cfg.remoteWrite[1])
    /\ phase' = "failed"
    /\ UNCHANGED <<file, doc, tree, env, cfg, running, registry, pushed>>

\* The pusher's flush.
Push ==
    /\ phase = "running" /\ running.push # <<>>
    /\ registry = <<>>
    /\ registry' \in Registries
    /\ pushed' = Gather(registry', running.push[1].external)
    /\ UNCHANGED <<phase, file, doc, tree, env, cfg, running>>

Next ==
    \/ \E l \in nextLines : ScanLine(l)
    \/ Load \/ LoadWithoutFile
    \/ BuildPusher \/ BuildFails
    \/ Push

Spec == Init /\ [][Next]_vars

-----------------------------------------------------------------------------

\* Whatever the file says, a running exporter's parts are constructed with what
\* they rely on: a queue of at least one batch, a breaker with a positive threshold,
\* window and cooldown, at least one attempt, positive tickers and timeouts, one kind
\* of credentials, no plain http that was not asked for, no reserved header and
\* somewhere for the metrics to go.
RunsAsAssumed ==
    phase = "running" =>
        /\ running.poll >= Second /\ running.gpu > 0
        /\ running.push = <<>> => cfg.set[<<"metrics_endpoint", "enabled">>]
        /\ \A i \in DOMAIN running.push : LET p == running.push[i] IN
              /\ p.capacity >= 1 /\ p.maxAttempts >= 1
              /\ p.failureThreshold >= 1 /\ p.window > 0 /\ p.cooldown > 0
              /\ p.flush >= Second /\ p.timeout > 0
              /\ p.initialBackoff > 0 /\ p.maxBackoff > 0 /\ p.maxElapsed >= 0
              /\ p.token = "" \/ (p.user = "" /\ p.password = "")
              /\ LET s == cfg.remoteWrite[1].set
                 IN  Scheme[s[<<"entry", "url">>]] = "http" => s[<<"entry", "insecure_http">>]
              /\ \A h \in DOMAIN p.headers : Canonical[h] \notin ReservedHeaders
=============================================================================
