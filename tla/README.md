# A TLA+ verification of ollama-exporter

ollama-exporter is a Go program that sits beside an Ollama server. It polls the
server, proxies requests to it and reads metrics off the streamed responses,
serves everything on `/metrics`, and pushes the same metrics to Prometheus
remote-write endpoints. This directory holds TLA+ models of its stateful parts,
TLC configurations that check them on small instances, and TLAPS proofs of the
results that matter most. Source paths below are relative to the repository.

## 1. The system

### Components

| Component (source) | State | Operations | What makes it correct |
|---|---|---|---|
| Remote-write queue (`internal/remotewrite/queue.go`) | ring `buf`/`head`/`size`, `closed`, mutex, condition variable, one cancellation watcher per `Dequeue` | `Enqueue`, `Dequeue`, `Close`, `Len` | FIFO with drop-oldest; no lost wakeup; each drop reported once; `Dequeue` never returns neither batch nor error |
| Circuit breaker (`breaker.go`) | state, failure times, `openedAt` | `Allow`, `RecordSuccess`, `RecordFailure`, `State` | opens exactly when the threshold falls in one window; quiet during the cooldown; gauge equals state |
| Sender (`sender.go`) and wire protocol (`wire.go`) | batch in hand, attempt number, deadline, timers | `Run`, `processBatch`, `computeBackoff`, `sendContext`; classification of answers | each batch counted once, in order, in bounded time; cancellation noticed everywhere |
| Pusher (`pusher.go`) | ticker, drain timer, sender context | `Run`, `flush`, `shutdown` | a first flush at once and one per tick; the queue is closed at shutdown and drained for `DrainTimeout`; returns with nothing left behind |
| Remote-write assembly and metrics (`build.go`, `metrics.go`, `main.go`) | counters | `buildPusher`, `Build`, `loadCreds`, `newHTTPClient` | the parts above get the settings they rely on |
| Metric conversion (`convert.go`) | none | `Gather`, `mergeLabels`, `NewLabels` | series a receiver accepts, which carry the samples of the registry and nothing else |
| Model cache (`internal/collector/modelcache.go`) | name → labels map under an RW mutex | `Get`, `fetch`, `prune` | one label per model at a time; pruned metadata stays pruned |
| Poller (`poller.go`) | `prevLoaded`, `initialized`, gauges and counters | `scrape` every tick | one loaded series per model, balanced counters, series of deleted models reclaimed |
| Proxy (`proxy.go`) | in-flight gauge, server | instrumented handler, `modifyResponse`, start and shutdown | in-flight gauge and observations right on every way out |
| Response observer (`responsebody.go`) | line and event framing, merged fields, result | `Read`, `Close`, callbacks | one result per response, the one the whole body deserves |
| JSON recognizer (`streamjson.go`) | stack of frames, token, scalar grammar, selected fields | `feed`, `complete`, `failureReason` | accepts JSON objects and nothing else; keeps exactly the selected fields, within its limits |
| Process (`cmd/exporter/main.go`, `collector.go`) | WaitGroup, contexts, servers | start, signal, shutdown | drains the pusher and exits after a signal |
| GPU collectors (`internal/gpu`) | devices found at start, health of the Apple probe, gauges | discovery, one cycle per tick | every readable value comes to be shown; a broken Apple probe leaves nothing stale; the loop ends when cancelled |
| Configuration (`internal/config`) | none | `parseYAMLTree`, apply functions, overrides, `validate` | a file means what its columns say; bad settings are refused or defaulted |
| Metric registry, deployment files | none | | not modelled, see section 8 |

### How they interact

`main` starts the metrics server and the pusher under a WaitGroup, and the
collector (poller, proxy, GPU) outside it. The poller and the proxy's handler
goroutines share the model cache and the metric vectors. The pusher gathers the
registry, enqueues one batch per tick, and owns the sender goroutine, which
dequeues, asks the breaker, and POSTs with retries. The queue and the breaker
tell the self-metrics what happened through observers, the queue after its
unlock and the breaker under its lock.

### What is hard

Condition variables with cancellation; gauge writes after an unlock; a
two-lookup cache whose write lock spans an HTTP call; scrapes made of several
calls, each of which may fail while the server changes; retries, timeouts and
drain cancellation racing each other; a body that may end, fail, or be closed,
in any order, at any byte; a recognizer that must decide every byte on the little
state it keeps; sysfs files and an external probe that fail and come back one by
one; a hand-written parser driven by indentation; shutdown with work in progress. The list, by line, is
`hazards` in `PROJECT.json`.

## 2. The modules

| Module | Models | Uses |
|---|---|---|
| `DropOldestQueue` | what the queue promises: a bounded FIFO that drops its oldest item | |
| `Queue` | `queue.go` in full | refines `DropOldestQueue` |
| `Breaker` | `breaker.go` with the sender's calling order | |
| `RemoteWrite` | `pusher.go`, `sender.go`, classification in `wire.go` | `INSTANCE`s `DropOldestQueue` and `Breaker` |
| `ModelCache` | `modelcache.go`, the Ollama server's models (external) | |
| `Poller` | `poller.go`, completions of proxied requests | extends `ModelCache` |
| `ResponseBody` | `responsebody.go`, callbacks of `modifyResponse` | |
| `ResponseReference` | what a whole body means, the reference for `ResponseBody` | extends `ResponseBody` |
| `StreamJSON` | `streamjson.go`, byte by byte | |
| `Exporter` | `main.go`, `collector.go`, the handler and server of `proxy.go` | |
| `GPU` | `internal/gpu`, all three build targets; sysfs and ioreg (external) | |
| `Yaml` | `yaml.go`, one step per line | |
| `Config` | `config.go` | extends `Yaml` |
| `Convert` | `convert.go` | |
| `Startup` | `Load`, `buildPusher`, `build.go`, the first push | extends `Config` and `Convert` |
| `QueueProofs`, `BreakerProofs`, `RemoteWriteProofs`, `ExporterProofs`, `PollerProofs`, `ResponseBodyProofs`, `GPUProofs`, `StartupProofs` | theorems | each extends the module it is about |
| `MC*` | instances for TLC; `MCStreamJSON` and `MCStartup` also the references their models are compared with | |

Definitions keep the names of the functions they model; a definition that
models a part of a function is named for what that part does. `PROJECT.json`
maps each one to its lines. Operators marked "Mutant of" are wrong variants of a
definition, used to confirm that a property notices the corresponding bug; no
specification uses them.

**Queue.** A section under `q.mu` is one action, because the mutex makes it
atomic. `Dequeue` is split at the one place where this hides something: between
the loop's test (`DequeueTest`) and `cond.Wait` (`CondWait`) a context may be
cancelled, which needs no mutex. Everything after an unlock is a separate
action: `OnDrop`, `OnEnqueue`, `OnDequeue`, and `DequeueError`, which reads
`q.closed` without the lock. The watcher of a call may fire while the call waits
(`WatchCancel`) or after it returned (`WatchLate`). Batches are numbered in the
order they were offered.

**Breaker.** Every method is one action, under `cb.mu`. Two history variables are
what the breaker's own record is judged against: `streak`, all failures since the
last success or opening, never pruned, for the pruned list `failures`; and
`opening`, the instant of the last step into open, for `openedAt`, which the code
sets in two places and reads in a third.

**RemoteWrite.** `Flush`/`FlushNothing` are the flush at the start and the ticks,
`Interrupt`, `Shutdown`, `DrainExpires` and `Drained` are `Pusher.shutdown`. The
sender is between batches, encoding, in an attempt, or in a backoff; each way
out of these is an action. `acct[b]` lists the counters batch `b` was added to.
Time is discrete: timers that are due fire before the clock moves on, everything
else takes arbitrarily long. The jitter is a free choice below the bound. The
queue is used through its abstract specification, which `Queue` is proved to
implement; the breaker through `Breaker`'s own operators, and `UsesBreaker`
checks that the composed system is a behaviour of `Breaker`. `time.Duration` has
a width: `Wrapped` is its arithmetic, with `MaxDuration` in the place of
2^63 - 1, so that a `Retry-After` in seconds and the shifted backoff wrap as they
do in Go.

**ModelCache, Poller.** A scrape is cut at each HTTP call and each lookup. The
server may pull, load, unload and delete models between any two of them, with
other metadata each time. A lookup is cut between the read-locked and the
write-locked test and around `/api/show`. `pulls` and `cacheGen` are generations,
history variables that say which incarnation of a model an entry describes.

**ResponseBody.** Bytes are abstracted to the tokens the control flow tells
apart: `CR`, `LF`, `data:`, other line starts, `[DONE]`, whole objects, the two
halves of an object, junk, something beyond a limit. A first half is cut between
members, inside a string, or inside a number or literal, because a line end or
other text means something else in each. An object is the fields the observer
selects: error, done, `message_stop`, and for each usage key whether its value is
missing, null, a count or something else. A piece of an object also says whether an
oversized field name ends in it, which is where the parser remembers it. `Read` is
one call of `src.Read` with any number of tokens: `readToken` on each, and one
`noteFieldSkip` after all of them, so that an event whose parser was replaced
within the read is seen by `dispatch` only. `ReadEOF`, `ReadError` and `Close` come
at any point and repeatedly; a last read with bytes and an error is a `Read` followed
by one of these.
`ResponseReference` says what a whole body means without any of this state: which
positions are line starts, which lines are data, where events end, which tokens of
an event make objects, which verdict the objects deserve, and whether an oversized
name ended in what could be read of one.

**StreamJSON.** The parser is a record with the fields of `jsonFields`, `byte` its
transition, split as the method is into strings, scalars and structure. The
alphabet has one byte per case the code tells apart; `json.Unmarshal` of a name is
modelled by what it does to escapes (`\u002e` is the separator of paths). The
limits are constants: 9, 5 and 5 in place of 128, 4096 and 64.

**GPU.** On Linux every file read of a cycle is a step, and between any two of
them a file may change, vanish or come back and a driver may be rebound, which
moves its hwmon directory. On macOS a cycle is one run of ioreg, which returns, is
cut by its timeout, is cancelled, or is not started because the context is already
cancelled. `answer`, `flips` and `notice` are history variables.

**Yaml, Config, Convert, Startup.** `ScanLine` is one pass of `parseYAMLTree`'s
loop from the first line on, so every prefix of a file is a file too; the tree is a sequence of nodes
that refer to each other by position, because a frame of the stack keeps adding to
its node. The apply functions differ only in the keys they know and how a text is
read, so `Schema` holds that as a table and `assign`, `applySection` and
`parseRemoteWriteEntry` walk it. `Build` collects the defaults of every part it
constructs; `running.push` holds what it built, and is empty without a
`remote_write` entry. `Push` is one flush: `Gather` on some registry with the labels of the
configuration.

**Exporter.** The pusher is here only "running" and "done". The handler has an
action per step and per exit: body read error, upstream error (502), end of the
body, panic in copying the body, then the deferred observation and decrement in
the order the deferred functions run. `net/http` is external: `Shutdown` makes
`ListenAndServe` return at once and waits for requests until its timeout; either
server may also fail to listen or fail while it serves (`MetricsFails`,
`ProxyFails`), and a target that `url.Parse` refuses leaves the proxy unstarted.

## 3. Runs

Sizes are distinct states on a two-worker TLC run.

| Run | Instance | Shows | States |
|---|---|---|---|
| `queue` | 1 producer, 2 consumers, 2 slots, 3 batches | refinement of the FIFO, ring window, no lost wakeup, drop accounting, errors on empty returns, every `Dequeue` returns after a close or cancellation | 75,947 |
| `breaker` | threshold 3, window 3, cooldown 2, 9 ticks | window exact, no missed overload, no false alarm, quiet cooldown, gauge | 6,919 |
| `remote_write` | 4 batches, 2 slots, 3 attempts, 4 ticks, 6 `Retry-After` headers | every batch counted once, in order, in bounded time, a wrapped `Retry-After` included; drain time given; shutdown terminates with nothing left; breaker used as it assumes | 448,396 |
| `poller` | 1 model, 2 label pairs, 2 pulls, 1 request and the poller | one loaded series, balanced counters, prune is final, stale series reclaimed | 319,175 |
| `response_body` | bodies of up to 6 event-stream or 4 plain tokens of 9 and 13 kinds, in reads of any size | one result, the first stands, agreement with the reference, an oversized name noticed once by the read that holds it | 4,618,271 |
| `exporter` | 2 requests, 2 labels, every configuration | in-flight gauge exact, observed once, pusher drained before exit, exit after a signal | 911,650 |
| `gpu` | 2 cards or one Apple GPU, files that hold one of a few values or nothing | values that can be read come to be shown; no stale Apple series; one notice per change of health; the loop ends | 138,282 |
| `stream_json` | 13 starts, 5 to 7 more bytes, selected paths of one to three names | agreement with a recursive-descent grammar; exactly the selected fields | 487,241 |
| `startup` | 6 families of files, up to 5 lines each after their beginning, 3 registries | effective settings, constructed parts, pushed series equal to the registry's samples | 153,567 |

Three more runs check a statement made by the documentation, a comment or a help
text that the code does not keep; TLC finds a behaviour that violates it. They
are the `findings` of `PROJECT.json`:

| Run | The text | What the code does |
|---|---|---|
| `queue_gauge` | `queue_length` is the number of buffered batches | the gauge is set after the unlock, so two writes can land in the other order and stay wrong until the next call |
| `half_open_probe` | the breaker probes once in half-open | a batch that ends in retryable errors gives no verdict, and the next one is let through too |
| `plaintext_password` | plaintext `password` and `bearer_token` keys are rejected at config load | in an entry that begins with `- basic_auth:` the key is taken for an empty scalar, the lines under it for unknown keys of the entry, and the exporter runs without credentials |

Further configurations state what a text says and are refuted by TLC in the same
way; they are kept for a reader who wants to see the behaviour:

| Configuration | Property | The text | What the code does |
|---|---|---|---|
| `MCRemoteWriteRetryAfter.cfg` | `RetryAfterHonored` | `sender.go:194`, `docs/remote-write.md:115`: `Retry-After` is honoured | the wait is cut to what is left of `max_elapsed` and the request sent anyway |
| `MCPollerRecreated.cfg` | `RecreatedIsRefetched` | `docs/metrics.md:166`: metadata of a recreated model is fetched again | a lookup between prune and pull caches the fallback, which stays |
| `MCExporterProxy.cfg` | `ProxyDrainsBeforeExit` | `CHANGELOG.md:148`: graceful shutdown; `proxy.go:63`: the proxy's shutdown outlives the cancelled context | `main` does not wait for the collector |
| `MCGPUFrozen.cfg` | `UnreadableIsAbsent` | `README.md:342`: unreadable files do not produce that metric | the Linux collector leaves the last value; only a file that never was readable has no series |

### Bounds and why they suffice

- `MaxBatches` (queue 3, remote write 4): one more than a full ring of two slots
  plus, in remote write, the batch in hand, so that the ring wraps and overflows,
  in remote write while the sender is busy. The queue run overflows at most once;
  that repeated overflows and several producers change nothing is what
  `QueueProofs` shows, for every bound and every set of producers.
- `MaxNow`, `MaxStreak` (breaker): longer than two windows or a window and two
  cooldowns. Proved for all values.
- `MaxDuration` (remote write 7): a width at which 2 s fits and the two large
  headers wrap, one to a negative and one to a positive duration.
- `MaxNow` (remote write, 4 ticks): a whole `MaxElapsed` plus `Timeout`, a
  breaker opening with its cooldown, or a drain, in any overlap of two of these.
  The clock runs on after it while the pusher is draining, so that the drain
  timer always fires.
- `MaxPulls` (poller 2): a model, its deletion, and its second incarnation with
  the same or other labels. Models do not interact except through the write
  lock, which `Request` contends for with the poller.
- `MaxSSETokens`, `MaxPlainTokens`: six tokens hold an event with a split
  object, its blank line and a `[DONE]` or a second event's start; four plain
  tokens hold a split object followed by another, and every failure after every
  kind of prefix. Two usage keys are enough for one to be wrong or overridden while
  the other is not. All that is checked here is proved without these bounds.
- Two requests in `Exporter` show the gauge with same and different labels; the
  requests do not interact otherwise.
- `MaxChanges` (GPU): two changes on Linux, enough for a file to go and come
  back or for two files to change between samples; four on macOS, enough for the
  probe to fail, recover and fail again. The cards do not interact.
- The starts of `MCStreamJSON` are prefixes that lead into each region of the
  recognizer (names, escapes, numbers, nesting, near each limit) with the bytes
  that matter there, so that five to seven more bytes exercise every transition of it.
- The six families of `MCStartup` keep apart what does not interact: sections and
  indentation, the listen address and outputs, credentials, names and labels,
  external labels with the names that `convert.go` uses itself, numbers. Within a family
  every order and repetition of its lines occurs.

No symmetry reduction is used.

### Fairness

- `Queue`: strong fairness of a consumer's and its watcher's steps. Go's
  `sync.Mutex` switches to starvation mode after 1 ms and hands the lock over in
  FIFO order, so a goroutine that asks for it again and again gets it. Callers
  need not call, cancel or close.
- `RemoteWrite`: goroutines that can run do, and time passes. The receiver need
  not ever answer, and the application need not ever be stopped.
- `Poller`: the ticker fires, HTTP calls end because the client has a timeout,
  a completed request records its metrics. `Reclaimed` supposes in its own text
  that inventory calls keep succeeding; the server's changes are not fair.
- `Exporter`: goroutines that can run do, `Shutdown` timeouts fire, and
  `Pusher.Run` returns, which is `ShutdownTerminates` of `RemoteWrite`. Scrapes
  and proxied requests may last forever and no signal need come.

- `GPU`: the ticker fires and reads return, ioreg because it has a timeout.
  `Return` is strongly fair, because `select` draws among the cases that are
  ready and so does not prefer the ticker forever. The machine's changes are not
  fair, and no cancellation need come.

`Queue` (all callers gone), `GPU` (the loop has ended), `StreamJSON` (the input
has) and `Startup` (the exporter has failed, or has pushed once) may stop, so
their configurations turn the deadlock check off.

## 4. Proofs

All are for every value of the constants that satisfies the named assumptions.

**`QueueProofs`** (from `QueueAssumption`: a positive capacity, `Nil` is neither
a batch nor a consumer, finitely many consumers). `IInv` joins the types, the
window (exactly the slots from `head` on for `size` steps are full), the order
of the batches (ascending along the ring, so none is held twice), the victim a
producer is about to report (older than everything buffered), and the dropped
batches (older still, reported once). None is inductive alone: that `OnDrop`
reports a batch and not nil needs the window, that it reports each once needs
the order. `ModIsWrap` first turns `%` into a case split so that the solver
sees linear arithmetic. From it: `TypeCorrect`, `RingWindowHolds`,
`DropsAccounted`, `NoSilentReturn`, and `RingImplementsQueue`, in which a
step maps to an abstract enqueue, dequeue or close, or to a stutter. A second
invariant, `Sync`, says who holds the mutex, that what the loop's test found still
holds at `cond.Wait`, that everyone who waits has a watcher, and counts: while
someone is parked there are at least as many roused consumers as batches. Each
action changes both sides of that count together. Result: `WakeupsAreKept`.

**`BreakerProofs`** (from `BreakerAssumption`: threshold, window and cooldown
positive, as `NewCircuitBreaker`'s defaults make them). An ascending sequence has a
point where the window begins (`CutExists`, by well-foundedness of the naturals), so
`Pruned` keeps exactly the suffix inside it. `IInv` is types, `FailureList`,
`GaugeShowsState` and `OpeningKnown`. The third is needed because a failure recorded
while open would break the second; the fourth says that `openedAt` is the instant of
the last opening while the breaker is open, without which the guard of `Allow`
says nothing about the time that has really passed, and that the cooldown is over in
any other state. Results: `WindowIsExact`, `GaugeIsCurrent`,
`NoMissedOverload`, `NoFalseAlarm`, `CooldownHolds`.

**`RemoteWriteProofs`** (from `RemoteWriteAssumption`). The queue holds the
youngest batches in the order they were built (`Ordered`), so what has left it
is `1..Gone`; of these all but the one in `processBatch` are counted, once
(`Accounted`). `CountedOnce` follows, and is not inductive without the order:
overflow drops the head, and only the order says that the head was not yet
counted. `Phases` ties the queue and the senders' context to where `Run` is,
which gives `NothingLeftBehind` and `DrainIsGiven`; `PostedInOrder` gives
`InOrder`. `Timed` bounds every timer of a batch by its deadline, which
`BoundedProcessing` needs because the deadline is only looked at between attempts;
the lemmas on durations show that a wrapped product is still a duration and that
the backoff drawn from it stays within `MaxBackoff`. Results: `NoSampleLost`,
`ReturnsEmptyHanded`, `FullDrainTimeout`, `OldestFirst`, `BatchTimeBounded`. In
`SenderImplementsBreaker` (`Spec => UsesBreaker`) every step of the sender is a
call of `allow`, an outcome, a clock tick or a stutter of `Breaker`; the bound
`Breaker` puts on its failure record is met because a batch adds at most one
failure (`StreakCounted`). What `BreakerProofs` shows of every behaviour of
`Breaker` therefore holds of the breaker inside the sender, for every
configuration. That last inference is made here and not by the prover, which
cannot cite a theorem through `INSTANCE`. It is also how the
types of the breaker's own variables follow: `Types` leaves them out.

**`ExporterProofs`** (from `ExporterAssumption`: finitely many requests, and
the label of a request without a model). `Progress` says what has been observed
of a request at each place of its handler: a result of its own or an observer,
never both, and a duration only once the deferred calls run. With it the gauge
is the cardinality of the requests between their increment and their decrement,
one element more or less per step. `Waited` says that the WaitGroup counts a
goroutine from before main can wait. Results: `ExporterTypeCorrect`,
`GaugeIsExact`, `EachRequestObservedOnce`, `PusherOutlived`.

**`PollerProofs`** (from `PollerAssumption` and `ModelCacheAssumption`; an
absent series is neither 0 nor 1). `Locked`: between the second look at the
cache and the store a goroutine holds the write lock and the entry is still
missing, so a store never replaces the labels of a series that shows 1.
`Where`: what the poller looks up is what its loop still has to visit, and what it
got stays cached until it is used, because nobody else prunes. `Fresh`: what
`/api/show` says of an installed model is newer than the inventory that last
removed it, and stays so until it is stored, because the write lock is held from
the request to the store and `prune` takes the same lock. `FirstScrape`: no events before there is something
to compare with. Results: `PollerTypeCorrect`, `EvictionIsFinal`,
`LoadedSeriesUnique`, `LoadsAndUnloadsBalance`.

**`ResponseBodyProofs`** (from `ResponseBodyAssumption`; `Nil` is no failure
reason, object or marker). Two invariants. The first, `IInv`, is about the observer
alone. Each function on its state (`fail`, `merge`, `emitted`,
`parse`, `noteFieldSkip`, `dispatch`, `newline`, `sseToken`, `readToken`,
`flushEvent`) has a lemma: from a state in `Body`, where a half-read object is
known and a failure has its reason, it leads to one in `Body` that is `Later`,
where the first failure, what was seen and the skip notice stay. A `Read` is a fold
of `readToken` over any number of tokens; `ReadLoop` unfolds it into the states after
each of them, and induction along these carries the lemma over the whole read. `IInv` adds that
nothing is counted before the end or the close and one result afterwards, and that
the result says whether the request was recorded. Results: `ResponseBodyTypeCorrect`,
`CountedExactlyOnce`, `ResultIsFinal`, and `FirstFailureStands`, which no run
states: the first failure is what is counted, and nothing that failed is recorded.

The second, `MInv`, compares it with the reference. That the verdict is right at the
end says nothing about the tokens before it, so `Observed` says what the observer
knows while it reads. Of a plain body (`PlainAt`): the parser is inside an object
exactly if the content is cut there, it has failed exactly if some whole object is
an error, and the sample holds the last value given of each field. Of an event
stream (`StreamAt`): which kind of line it is on; what the data of the current
event are (`EventAt`); and of the events that have ended (`EventsAt`) the failure
of the first that fails, the fields merged, whether one was terminal, and whether
a field name was noticed; within a read the skip of the current event is still in
its parser's flag and not yet counted. After a CR the observer has not acted on the line end,
which the reference already counts, because an LF may follow: there `InStream`
holds of the body without it. A token is one step of the observer and appends one
position to the reference, so each reference operator has a lemma for what `Append`
does to it (`AtAppend`, `WholeAppend`, `DataAppend`, `PastAppend`, `UnifiedAppend`).
They rest on facts about `FlattenSeq` proved by induction on the length; the
induction is stated with a set closed under + 1 in place of the library's operator
parameter. At the end of a body the last line is ended for the parser too (`Ended`).
That the count of skips is right at all times, and not only at the end, is
`SkipNoticedOnce`, a conjunct of `MInv`. Results: `ObserverInvariant`,
`VerdictIsRight`, `SkipCountedOnce`.

**`GPUProofs`** (from `GPUAssumption`). `Health`: the two flags of the sampler
stand for the outcome of the last poll, and the last line logged tells it; with
it `notice.lines = flips` is inductive. Results: `SeriesNeverFrozen` and
`ChangesLoggedOnce`, for every output of ioreg.

**`StartupProofs`** (from `StartupAssumption`: a second is positive, durations and
numbers read as integers, files are lines). `IInv` follows a file to the running
parts. While it is scanned, `TreeOK`: the tree refers to its own nodes only and the
stack of frames keeps the root. Once it is loaded, `ConfigOK`: every setting is there
and the numeric ones hold numbers, in every entry, and a user name comes with
`basic_auth` only. This is needed because the tests of `validate` and the defaults of
`Build` bound a setting only if it is a number, and the credentials a part is built
with are exclusive only if the entry's were. The folds over children and entries
are unrolled with the same form of induction. Results: `StartupInvariant`, and
`StartsAsAssumed`, for every file, environment and table of spellings.

Only model-checked, and why:

- Liveness (`DequeueReturns`, `ShutdownTerminates`, `Reclaimed`,
  `ExitsAfterSignal`, `Settles`, `StopsOnCancel`): fairness and `ENABLED` are
  outside the prover's reach.
- `AgreesWithGrammar` and `ExtractsSelected`: the grammar they compare the
  recognizer with is recursive descent, and the prover does not work in a module
  that reaches a `RECURSIVE` operator.
- `EffectiveSettings` and `PushedSeriesValid`: header and label maps are built with
  `@@`, `Gather` sorts and filters with `SortSeq` and `SelectSeq`, and the prover has
  no definition of these to expand. The first also needs an induction that relates
  the parser's stack to the columns of all earlier lines.
- The types of `GPU`: the devices are selected from the cards with `SelectSeq`,
  of which the provers know nothing.

## 5. Assumptions and simplifications

- One sender per queue and one endpoint, as `Build` wires them; `Queue` itself
  is modelled with any number of both.
- The constants of `Queue`, `Breaker` and `RemoteWrite` are positive where their
  assumptions say so. `StartsAsAssumed` shows that every file the exporter starts
  with gives them such values: a timeout of 0, for one, becomes
  the HTTP client's 30 s.
- The two power files of a card are read in one step of `GPU`, and a card's name
  label, fixed at start, is left out.
- `MaxBackoff` is below the largest `time.Duration`: `computeBackoff` draws
  `rand.Int63n(int64(upper)+1)`, which would panic at that one value, some 292 years.
- Durations are ticks, and the clock is monotonic, as Go's is for these uses.
- VRAM bytes, the three token gauges and the histograms are written where the
  modelled ones are and are not modelled separately.
- Logging, headers, wording and encodings are left out.

## 6. Status

Every row of the table in section 2 exists and is checked. Every invariant and
action property that a run checks of `Queue`, `Breaker`, `RemoteWrite`, `Poller`,
`ResponseBody`, `ResponseReference`, `Exporter`, `GPU` and `Startup` themselves, and
both refinements, are proved. Of the comparisons with a reference, that of
`ResponseBody` is proved; those of `StreamJSON`, `Yaml` with `Config`, and `Convert`
are checked by TLC within the bounds of section 3.

## 7. Plan

What would come next, in this order:

1. A reference for `StreamJSON` on positions, as `ResponseReference` is for
   `ResponseBody`, so that the recognizer can be proved about.
2. The tree half of `EffectiveSettings`, which needs no map: which node a line goes
   to, by columns.
3. The Linux half of `GPU`: a series that exists was read from the card it is
   labelled with.

## 8. Not modelled

- Protobuf and snappy encoding, HTTP headers and the redaction of URLs in
  `wire.go` and `redact.go`: conversions whose only outcomes here are success and
  failure.
- `send_duration`, `retries_total` and `last_send_timestamp` (`metrics.go`):
  written at places the model has and never read.
- URL building and JSON decoding of the Ollama client: a call is its outcomes.
- The contents of credential and CA files, and TLS.
- Comments, blank lines and quoting in the config file, except the quoted empty
  text; the spellings of durations, numbers and URLs, which are functions given
  as constants.
- The metric registry and the deployment files have no behaviour; the test
  receiver under `remotewrite/testutil` is not part of the program.
