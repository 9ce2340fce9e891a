----------------------------- MODULE MCStartup -----------------------------
(***************************************************************************)
(* The files, environments and registries TLC starts the exporter with,    *)
(* and what a file means: a reading of the whole document by columns,      *)
(* written without the parser's stack, to check the parser and the apply   *)
(* functions against.                                                      *)
(***************************************************************************)
EXTENDS Startup

\* Where the key of a line stands; "- " takes two columns.
column(l) == l.indent + (IF l.item THEN 2 ELSE 0)

\* The line whose block line i is in, 0 for the document.
owner(d, i) ==
    LET outer == {j \in 1..(i - 1) : column(d[j]) < column(d[i])}
    IN  IF outer = {} THEN 0 ELSE CHOOSE j \in outer : \A k \in outer : k <= j

block(d, o) == {i \in DOMAIN d : owner(d, i) = o}

isList(d, o) == \E i \in block(d, o) : d[i].item

\* Keys from the top of the document down to line i, "-" for "an item of".
paths(d) ==
    LET path[i \in 0..Len(d)] ==
            IF i = 0 THEN <<>>
            ELSE LET o == owner(d, i)
                 IN  path[o] \o (IF isList(d, o) THEN <<"-", d[i].key>> ELSE <<d[i].key>>)
    IN  path

\* The number of the remote_write entry line i is in.
entryOf(d, i) ==
    Cardinality({j \in 1..i : /\ d[j].item /\ Len(paths(d)[j]) = 3
                              /\ IsPrefix(<<"remote_write", "-">>, paths(d)[j])})

\* The lines of the block of o are keys two columns in, or scalar items two
\* columns in, or items of keys whose first has the "- ".
wellFormedBlock(d, o) ==
    LET b == block(d, o)
        base == IF o = 0 THEN -2 ELSE column(d[o])
        keyed == \A i \in b : d[i].key # NoKey
        first == CHOOSE i \in b : \A j \in b : i <= j
    IN  b # {} =>
        /\ o # 0 => d[o].key # NoKey /\ d[o].val = ""
        /\ \/ keyed /\ \A i \in b : ~d[i].item /\ d[i].indent = base + 2
           \/ o # 0 /\ \A i \in b : d[i].item /\ d[i].indent = base + 2
                                    /\ d[i].key = NoKey /\ d[i].val # ""
           \/ o # 0 /\ keyed /\ d[first].item /\ \A i \in b : column(d[i]) = base + 4

\* A document of the subset yaml.go's comment describes, no key given twice.
WellFormed(d) ==
    /\ \A o \in 0..Len(d) : wellFormedBlock(d, o)
    /\ \A i, j \in DOMAIN d :
          i # j /\ d[i].key # NoKey /\ paths(d)[i] = paths(d)[j] => entryOf(d, i) # entryOf(d, j)

\* ... in which the key after a "- " has its value on the same line.
Documented(d) == WellFormed(d) /\ \A i \in DOMAIN d : d[i].item => d[i].val # ""

-----------------------------------------------------------------------------
(* What a documented file configures *)

entryAddress(sk) ==
    <<"remote_write", "-">> \o (IF sk[1] = "entry" THEN <<sk[2]>> ELSE sk)

address(sk) == IF sk[1] = "top" THEN <<sk[2]>> ELSE sk

\* The value of the setting at an address, from lines, else its default.
setting(d, lines, p, type, default) ==
    LET at == {i \in lines : paths(d)[i] = p}
        text == unquoteYAML(d[CHOOSE i \in at : TRUE].val)
    IN  IF at = {} \/ (type \in {"optional", "optionalDuration"} /\ text = "")
        THEN default ELSE read(type, text)

\* The block `name` of an entry, as a function from its keys.
namesIn(d, lines, name) ==
    LET at == {i \in lines : /\ Len(paths(d)[i]) = 4
                             /\ IsPrefix(<<"remote_write", "-", name>>, paths(d)[i])}
    IN  [k \in {d[i].key : i \in at} |->
            unquoteYAML(d[CHOOSE i \in at : d[i].key = k].val)]

wantedEntry(d, n) ==
    LET lines == {i \in DOMAIN d : entryOf(d, i) = n}
    IN  [err |-> FALSE,
         basicAuth |-> DOMAIN namesIn(d, lines, "basic_auth") # {},
         headers |-> namesIn(d, lines, "headers"),
         external_labels |-> namesIn(d, lines, "external_labels"),
         set |-> [sk \in DOMAIN NewEntry.set |->
                    setting(d, lines, entryAddress(sk), Schema[sk[1]][sk[2]], NewEntry.set[sk])]]

\* metrics_endpoint.listen_address, then LISTEN_ADDR, then listen_addr; OLLAMA_URL
\* before ollama_url.
wanted(d, e) ==
    LET inFile == [sk \in DOMAIN defaults.set |->
                      setting(d, DOMAIN d, address(sk), Schema[sk[1]][sk[2]], defaults.set[sk])]
        first(texts) == texts[CHOOSE i \in DOMAIN texts :
                            /\ texts[i] # "" \/ i = Len(texts)
                            /\ \A j \in 1..(i - 1) : texts[j] = ""]
        listen == first(<<inFile[<<"metrics_endpoint", "listen_address">>], e.LISTEN_ADDR,
                          inFile[<<"top", "listen_addr">>]>>)
        excluded == SelectSeq([i \in DOMAIN d |-> i],
                        LAMBDA i : IsPrefix(<<"proxy", "exclude_paths", "-">>, paths(d)[i]))
        entries == IF d = <<>> THEN 0 ELSE entryOf(d, Len(d))
    IN  [err |-> FALSE,
         remoteWrite |-> [n \in 1..entries |-> wantedEntry(d, n)],
         excludePaths |-> IF excluded = <<>> THEN defaults.excludePaths
                          ELSE [i \in DOMAIN excluded |-> unquoteYAML(d[excluded[i]].val)],
         set |-> [inFile EXCEPT ![<<"top", "ollama_url">>] = first(<<e.OLLAMA_URL, @>>),
                                ![<<"top", "listen_addr">>] = listen,
                                ![<<"metrics_endpoint", "listen_address">>] = listen]]

\* Some line gives a setting a text it cannot have.
unreadable(d) ==
    \E i \in DOMAIN d :
        LET text == unquoteYAML(d[i].val)
            bad(type) == ~reads(type, text) /\ ~(type = "optionalDuration" /\ text = "")
        IN  \/ \E sk \in DOMAIN defaults.set : paths(d)[i] = address(sk) /\ bad(Schema[sk[1]][sk[2]])
            \/ \E sk \in DOMAIN NewEntry.set : paths(d)[i] = entryAddress(sk) /\ bad(Schema[sk[1]][sk[2]])
            \/ paths(d)[i] = <<"remote_write", "-", NoKey>>

\* A documented file is refused when it holds an unreadable or forbidden text or
\* fails validation, and otherwise every setting of the loaded configuration is
\* the one line that gives it, whatever the order and nesting of the lines around
\* it, or the environment's, or the default: parseYAMLTree's stack of frames loses
\* no line and gives none to the wrong parent, and Load's mirroring of the listen
\* address keeps the documented order of precedence.
EffectiveSettings ==
    (phase \in {"loaded", "failed"} /\ doc # <<>> /\ Documented(doc)) =>
        LET w == wanted(doc, env)
            accepted == ~unreadable(doc) /\ validate(w)
        IN  IF accepted THEN cfg = w ELSE cfg = Nil

\* What the registry's metric m says, as [suffix of its family's name, labels of the
\* sample's own, value].
samples(f, m) ==
    LET bucket(le, n) == <<"_bucket", {<<"le", formatFloat(le)>>}, n>>
        total == {<<"_count", {}, m.count>>, <<"_sum", {}, m.sum>>}
    IN  CASE f.type = "histogram" ->
                 total \cup {bucket(b.le, b.count) : b \in ToSet(m.buckets)} \cup {bucket(Inf, m.count)}
          [] f.type = "summary" ->
                 total \cup {<<"", {<<"quantile", formatFloat(q.q)>>}, q.value>> : q \in ToSet(m.quantiles)}
          [] OTHER -> {<<"", {}, m.value>>}

\* The series a push of registry r owes the receiver, each as a set of labels and a
\* value: one for every sample that is not NaN, with the labels of the sample and of
\* its metric, and the external labels whose names those leave free.
owed(r, external) ==
    LET labelled(own) == own \cup {<<n, external[n]>> : n \in DOMAIN external \ {l[1] : l \in own}}
        of(f, m) == {[labels |-> labelled({<<"__name__", <<f.name, x[1]>>>>} \cup x[2] \cup ToSet(m.labels)),
                      value |-> x[3]] : x \in {y \in samples(f, m) : y[3] # NaN}}
    IN  UNION {UNION {of(f, m) : m \in ToSet(f.metrics)} : f \in ToSet(r)}

\* A push carries exactly the samples of the registry with their values, NaN left out
\* and a histogram's +Inf bucket (equal to its count) supplied where it is missing;
\* an external_label of the file never displaces a label of a metric, a bucket, a
\* quantile or the series' name; and, as receivers demand, the labels of a series
\* are strictly ordered by name and no two series have the same labels.
PushedSeriesValid ==
    registry # <<>> =>
        LET sent == {[labels |-> ToSet(s.labels), value |-> s.value] : s \in ToSet(pushed)}
        IN  /\ sent = owed(registry, cfg.remoteWrite[1].external_labels)
            /\ Cardinality({s.labels : s \in sent}) = Len(pushed)
            /\ \A k \in DOMAIN pushed : \A i, j \in DOMAIN pushed[k].labels :
                  i < j => rank(pushed[k].labels[i][1]) < rank(pushed[k].labels[j][1])

\* docs/remote-write.md: plaintext password and bearer_token keys are rejected at
\* config load.  In a well-formed file the exporter runs with, no line of an entry
\* is one.
PlaintextRejected ==
    phase = "running" /\ WellFormed(doc) =>
        \A i \in DOMAIN doc : paths(doc)[i] \notin
            {<<"remote_write", "-", "bearer_token">>, <<"remote_write", "-", "basic_auth", "password">>}

-----------------------------------------------------------------------------
(* The instance *)

line(indent, key, val) == [indent |-> indent, item |-> FALSE, key |-> key, val |-> val]
item(indent, key, val) == [indent |-> indent, item |-> TRUE, key |-> key, val |-> val]

Url(indent) == item(indent, "url", "https://a")

Unset == [OLLAMA_URL |-> "", LISTEN_ADDR |-> ""]

\* Sections of the top level, with lines under them that are indented too far, too
\* little or by an odd number of columns, and a line without a colon.
TopFiles ==
    [prefix |-> <<>>, more |-> 4, environments |-> {Unset},
     lines |-> {line(0, "proxy", ""), line(2, "enabled", "false"), line(2, "listen_addr", EmptyQuotes),
                line(2, "exclude_paths", ""), item(4, NoKey, "/x"), item(2, NoKey, "/y"),
                item(4, NoKey, ""), line(0, "gpu", ""), line(2, "poll_interval", "-1s"),
                line(4, "enabled", "maybe"), line(3, "enabled", "false"), line(0, NoKey, "x")}]

\* Two places for the listen address, and whether there is any output at all.
ListenFiles ==
    [prefix |-> <<>>, more |-> 4,
     environments |-> {Unset, [OLLAMA_URL |-> "o", LISTEN_ADDR |-> "e"]},
     lines |-> {line(0, "metrics_endpoint", ""), line(2, "enabled", "false"),
                line(2, "listen_address", "m"), line(0, "listen_addr", "l"),
                line(0, "ollama_url", EmptyQuotes), line(0, "poll_interval", "500ms"),
                line(0, "remote_write", ""), Url(2)}]

\* Transport and credentials, one of them given as the first key of the item.
CredentialFiles ==
    [prefix |-> <<line(0, "remote_write", "")>>, more |-> 4, environments |-> {Unset},
     lines |-> {Url(2), item(2, "url", "http://b"), line(4, "insecure_http", "true"),
                line(4, "url", "https://a"), item(2, "basic_auth", ""), line(4, "basic_auth", ""),
                line(6, "username", "u"), line(6, "password", "p"), line(6, "password_file", "f"),
                line(4, "bearer_token", "t"), line(4, "bearer_token_file", "t"),
                line(4, "tls", ""), line(6, "ca_file", "c")}]

\* Headers and labels of one or two entries.
LabelFiles ==
    [prefix |-> <<line(0, "remote_write", ""), Url(2)>>, more |-> 5, environments |-> {Unset},
     lines |-> {Url(2), line(4, "headers", ""), line(6, "authorization", "x"),
                line(4, "external_labels", ""), line(6, "job", "ext"), line(6, "zone", "z")}]

\* External labels with the names convert.go gives labels itself.
ReservedFiles ==
    [prefix |-> <<line(0, "remote_write", ""), Url(2), line(4, "external_labels", "")>>,
     more |-> 3, environments |-> {Unset},
     lines |-> {line(6, "__name__", "ext"), line(6, "le", "ext"), line(6, "quantile", "ext"),
                line(6, "model", "ext"), line(6, "zone", "z")}]

\* Numbers and durations at and below zero.
NumericFiles ==
    [prefix |-> <<line(0, "remote_write", ""), Url(2)>>, more |-> 3, environments |-> {Unset},
     lines |-> {line(4, "queue", ""), line(6, "capacity", "0"), line(6, "capacity", "-1"),
                line(4, "retry", ""), line(6, "max_attempts", "-1"), line(6, "max_backoff", "-1s"),
                line(4, "circuit_breaker", ""), line(6, "failure_threshold", "-1"),
                line(6, "cooldown", "-1s"), line(4, "flush_interval", "500ms"),
                line(4, "flush_interval", "-1s"), line(4, "timeout", "0")}]

MCFiles ==
    [top |-> TopFiles, listen |-> ListenFiles, credentials |-> CredentialFiles,
     labels |-> LabelFiles, reserved |-> ReservedFiles, numeric |-> NumericFiles]

MCSecond == 2
MCDuration == ("-1s" :> -2) @@ ("0" :> 0) @@ ("500ms" :> 1)
MCNumber == ("-1" :> -1) @@ ("0" :> 0)
MCScheme == ("https://a" :> "https") @@ ("http://b" :> "http")
MCHost == ("https://a" :> "a") @@ ("http://b" :> "b")
MCCanonical ==
    ("authorization" :> "Authorization") @@ ("job" :> "Job") @@ ("zone" :> "Zone")
        @@ ("__name__" :> "__name__") @@ ("le" :> "Le") @@ ("quantile" :> "Quantile") @@ ("model" :> "Model")
MCLabelNames == <<"__name__", "authorization", "job", "le", "model", "quantile", "zone">>

gaugeOf(labels, value) == [labels |-> labels, value |-> value]
histogramOf(buckets) ==
    [labels |-> <<<<"model", "m">>>>, count |-> 3, sum |-> 7, buckets |-> buckets]

MCRegistries ==
    {<<[name |-> "up", type |-> "gauge",
        metrics |-> <<gaugeOf(<<<<"model", "m">>, <<"job", "own">>>>, 1), gaugeOf(<<>>, NaN),
                      gaugeOf(<<<<"zone", "y">>>>, 2)>>]>>,
     <<[name |-> "dur", type |-> "histogram",
        metrics |-> <<histogramOf(<<[le |-> 1, count |-> 2]>>)>>],
       [name |-> "wait", type |-> "histogram",
        metrics |-> <<histogramOf(<<[le |-> 1, count |-> 2], [le |-> Inf, count |-> 3]>>)>>]>>,
     <<[name |-> "gc", type |-> "summary",
        metrics |-> <<[labels |-> <<>>, count |-> 2, sum |-> NaN,
                       quantiles |-> <<[q |-> 0, value |-> 1], [q |-> 1, value |-> NaN]>>]>>]>>}
=============================================================================
