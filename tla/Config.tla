------------------------------- MODULE Config -------------------------------
(***************************************************************************)
(* internal/config/config.go: from the parsed file to a validated          *)
(* configuration.  Every apply function walks the entries of a map in      *)
(* order and assigns by key, so one table says which keys a section knows  *)
(* and how their text is read; keys it does not know are ignored.          *)
(*                                                                         *)
(* Settings are a function on <<section, key>>.  Scalars are opaque texts  *)
(* with the meanings the constants give them; durations are in ticks.      *)
(***************************************************************************)
EXTENDS Yaml, TLC

CONSTANTS
    Duration,   \* time.ParseDuration on the texts it accepts
    Number,     \* strconv.Atoi on the texts it accepts
    Scheme,     \* url.Parse: scheme of every text that is a URL
    Canonical,  \* http.CanonicalHeaderKey
    Second      \* ticks of a second

\* strconv.ParseBool (some of its spellings).
Bool == [x \in {"1", "true", "0", "false"} |-> x \in {"1", "true"}]

\* How the text of a key is read.  "optional" and "optionalDuration" skip an
\* empty text; "forbidden" refuses the file.
Schema ==
    [top |-> [ollama_url |-> "string", listen_addr |-> "string",
              poll_interval |-> "duration", log_level |-> "string"],
     metrics_endpoint |-> [enabled |-> "bool", listen_address |-> "string"],
     proxy |-> [enabled |-> "bool", listen_addr |-> "optional"],
     gpu |-> [enabled |-> "bool", poll_interval |-> "optionalDuration", sysfs_base |-> "optional"],
     entry |-> [url |-> "string", name |-> "string", flush_interval |-> "duration",
                timeout |-> "duration", insecure_http |-> "bool", bearer_token |-> "forbidden",
                bearer_token_file |-> "string"],
     queue |-> [capacity |-> "int"],
     retry |-> [max_attempts |-> "int", max_elapsed |-> "duration",
                initial_backoff |-> "duration", max_backoff |-> "duration"],
     circuit_breaker |-> [failure_threshold |-> "int", window |-> "duration",
                          cooldown |-> "duration"],
     tls |-> [insecure_skip_verify |-> "bool", ca_file |-> "string"],
     basic_auth |-> [username |-> "string", password |-> "forbidden",
                     password_file |-> "string"]]

TopSections == {"metrics_endpoint", "proxy", "gpu"}
EntrySections == {"queue", "retry", "circuit_breaker", "tls", "basic_auth"}

keysOf(sections) == {<<s, k>> : s \in sections, k \in UNION {DOMAIN Schema[x] : x \in sections}}
settingsOf(sections) == {sk \in keysOf(sections) : sk[2] \in DOMAIN Schema[sk[1]]}

zero(type) ==
    CASE type \in {"string", "optional", "forbidden"} -> ""
      [] type = "bool" -> FALSE
      [] OTHER -> 0

-----------------------------------------------------------------------------
(* Reading a tree.  A result c has `err` and the settings `set`. *)

reads(type, text) ==
    CASE type \in {"duration", "optionalDuration"} -> text \in DOMAIN Duration
      [] type = "int" -> text \in DOMAIN Number
      [] type = "bool" -> text \in DOMAIN Bool
      [] type = "forbidden" -> FALSE
      [] OTHER -> TRUE

read(type, text) ==
    CASE type \in {"duration", "optionalDuration"} -> Duration[text]
      [] type = "int" -> Number[text]
      [] type = "bool" -> Bool[text]
      [] OTHER -> text

assign(c, section, key, text) ==
    IF c.err \/ key \notin DOMAIN Schema[section] THEN c
    ELSE LET type == Schema[section][key] IN
         CASE type \in {"optional", "optionalDuration"} /\ text = "" -> c
           [] ~reads(type, text) /\ ~(type \in {"optional", "optionalDuration"} /\ text = "") ->
                  [c EXCEPT !.err = TRUE]
           [] OTHER -> [c EXCEPT !.set[<<section, key>>] = read(type, text)]

\* applyQueue, applyRetry, applyBreaker, applyTLS, applyGPU, applyMetricsEndpoint.
applySection(c, section, nodes, n) ==
    IF n.kind # "map" THEN c
    ELSE FoldLeft(LAMBDA a, e : assign(a, section, e.key, asString(nodes[e.n])), c, n.children)

\* A fresh value each time; none at all if it is not a map.
applyBasicAuth(c, nodes, n) ==
    applySection([c EXCEPT !.basicAuth = n.kind = "map",
                           !.set[<<"basic_auth", "username">>] = "",
                           !.set[<<"basic_auth", "password_file">>] = ""], "basic_auth", nodes, n)

applyNames(m, nodes, n) ==
    IF n.kind # "map" THEN m
    ELSE FoldLeft(LAMBDA a, e : (e.key :> asString(nodes[e.n])) @@ a, m, n.children)

NewEntry ==
    [err |-> FALSE, basicAuth |-> FALSE, headers |-> <<>>, external_labels |-> <<>>,
     set |-> [sk \in settingsOf({"entry"} \cup EntrySections) |-> zero(Schema[sk[1]][sk[2]])]]

\* One key of an entry.
applyEntryKey(c, nodes, e) ==
    CASE c.err -> c
      [] ~c.err /\ e.key = "basic_auth" -> applyBasicAuth(c, nodes, nodes[e.n])
      [] ~c.err /\ e.key \in EntrySections \ {"basic_auth"} ->
             applySection(c, e.key, nodes, nodes[e.n])
      [] ~c.err /\ e.key = "headers" ->
             [c EXCEPT !.headers = applyNames(@, nodes, nodes[e.n])]
      [] ~c.err /\ e.key = "external_labels" ->
             [c EXCEPT !.external_labels = applyNames(@, nodes, nodes[e.n])]
      [] OTHER -> assign(c, "entry", e.key, asString(nodes[e.n]))

parseRemoteWriteEntry(nodes, n) ==
    IF n.kind # "map" THEN [NewEntry EXCEPT !.err = TRUE]
    ELSE FoldLeft(LAMBDA c, e : applyEntryKey(c, nodes, e), NewEntry, n.children)

applyRemoteWrite(c, nodes, n) ==
    IF n.kind # "list" THEN c
    ELSE LET entries == [i \in DOMAIN n.children |->
                            parseRemoteWriteEntry(nodes, nodes[n.children[i].n])]
         IN  [c EXCEPT !.remoteWrite = @ \o entries,
                       !.err = \E i \in DOMAIN entries : entries[i].err]

applyProxy(c, nodes, n) ==
    LET lists == IF n.kind # "map" THEN <<>>
                 ELSE SelectSeq(n.children, LAMBDA e : e.key = "exclude_paths" /\ nodes[e.n].kind = "list")
        items(e) == [i \in DOMAIN nodes[e.n].children |-> asString(nodes[nodes[e.n].children[i].n])]
    IN  applySection(IF lists = <<>> THEN c ELSE [c EXCEPT !.excludePaths = items(Last(lists))],
                     "proxy", nodes, n)

defaults ==
    [err |-> FALSE, remoteWrite |-> <<>>, excludePaths |-> <<"default">>,
     set |-> [sk \in settingsOf({"top"} \cup TopSections) |->
                CASE sk = <<"top", "poll_interval">> -> 15 * Second
                  [] sk[2] = "enabled" -> TRUE
                  [] sk \in {<<"metrics_endpoint", "listen_address">>} -> ""
                  [] sk = <<"gpu", "poll_interval">> -> 0
                  [] OTHER -> "default"]]

\* One key of the document.
applyKey(c, nodes, e) ==
    CASE c.err -> c
      [] ~c.err /\ e.key = "proxy" -> applyProxy(c, nodes, nodes[e.n])
      [] ~c.err /\ e.key \in TopSections \ {"proxy"} -> applySection(c, e.key, nodes, nodes[e.n])
      [] ~c.err /\ e.key = "remote_write" -> applyRemoteWrite(c, nodes, nodes[e.n])
      [] OTHER -> assign(c, "top", e.key, asString(nodes[e.n]))

applyTree(nodes) == FoldLeft(LAMBDA c, e : applyKey(c, nodes, e), defaults, nodes[1].children)

-----------------------------------------------------------------------------
(* The environment and validation *)

\* Mutant of override: LISTEN_ADDR is not mirrored.
overrideUnmirrored(c, env) ==
    LET url == IF env.OLLAMA_URL # "" THEN env.OLLAMA_URL ELSE c.set[<<"top", "ollama_url">>]
        own == c.set[<<"metrics_endpoint", "listen_address">>]
    IN  [c EXCEPT !.set[<<"top", "ollama_url">>] = url,
                  !.set[<<"metrics_endpoint", "listen_address">>] =
                      IF own = "" THEN c.set[<<"top", "listen_addr">>] ELSE own]

\* The environment's values, and the listen address in its two places.
override(c, env) ==
    LET url == IF env.OLLAMA_URL # "" THEN env.OLLAMA_URL ELSE c.set[<<"top", "ollama_url">>]
        legacy == IF env.LISTEN_ADDR # "" THEN env.LISTEN_ADDR ELSE c.set[<<"top", "listen_addr">>]
        own == c.set[<<"metrics_endpoint", "listen_address">>]
        addr == IF own = "" THEN legacy ELSE own
    IN  [c EXCEPT !.set[<<"top", "ollama_url">>] = url,
                  !.set[<<"top", "listen_addr">>] = addr,
                  !.set[<<"metrics_endpoint", "listen_address">>] = addr]

ReservedHeaders ==
    {"Authorization", "Content-Encoding", "Content-Type", "X-Prometheus-Remote-Write-Version"}

\* Settings that must not be negative.
NotNegative ==
    {<<"entry", "flush_interval">>, <<"entry", "timeout">>, <<"retry", "max_attempts">>,
     <<"retry", "initial_backoff">>, <<"retry", "max_backoff">>, <<"retry", "max_elapsed">>,
     <<"circuit_breaker", "window">>, <<"circuit_breaker", "cooldown">>, <<"queue", "capacity">>}

validateRemoteWrite(rw) ==
    LET url == rw.set[<<"entry", "url">>]
        flush == rw.set[<<"entry", "flush_interval">>]
    IN  /\ url # "" /\ url \in DOMAIN Scheme
        /\ Scheme[url] = "https" \/ (Scheme[url] = "http" /\ rw.set[<<"entry", "insecure_http">>])
        /\ ~(rw.basicAuth /\ rw.set[<<"entry", "bearer_token_file">>] # "")
        /\ \A h \in DOMAIN rw.headers : Canonical[h] \notin ReservedHeaders
        /\ \A sk \in NotNegative : rw.set[sk] >= 0
        /\ flush > 0 => flush >= Second

\* Mutant of validate: no entries of remote_write are looked at.
validateTop(c) ==
    /\ c.set[<<"top", "ollama_url">>] # ""
    /\ c.set[<<"top", "poll_interval">>] >= Second
    /\ c.set[<<"metrics_endpoint", "enabled">>] \/ c.remoteWrite # <<>>

validate(c) ==
    /\ c.set[<<"top", "ollama_url">>] # ""
    /\ c.set[<<"top", "poll_interval">>] >= Second
    /\ \A i \in DOMAIN c.remoteWrite : validateRemoteWrite(c.remoteWrite[i])
    /\ c.set[<<"metrics_endpoint", "enabled">>] \/ c.remoteWrite # <<>>
=============================================================================
