----------------------------- MODULE ModelCache -----------------------------
(***************************************************************************)
(* internal/collector/modelcache.go: the metadata cache shared by the      *)
(* poller and the proxy's requests, and the Ollama server it asks          *)
(* (external).  Get looks under the read lock; on a miss it takes the      *)
(* write lock, looks again, and keeps the lock across POST /api/show.      *)
(* Poller.tla extends this module with the scrape loop and the metrics.    *)
(***************************************************************************)
EXTENDS Integers, FiniteSets

CONSTANTS
    Model,        \* model names
    Info,         \* family/quantization pairs /api/show may report
    Fallback,     \* the pair parsed from the name when /api/show fails
    Thread,       \* goroutines that look models up
    Nil,
    MaxPulls      \* bound: how often each model is pulled

ASSUME ModelCacheAssumption ==
    /\ Fallback \notin Info
    /\ Nil \notin Info \cup {Fallback} \cup Thread \cup Model
    /\ MaxPulls \in Nat

VARIABLES
    meta,         \* server: what /api/show says of an installed model, else Nil
    pulls,        \* server: times the model was pulled; the model's generation
    cache,        \* mc.cache, Nil where there is no entry
    writer,       \* holder of mc.mu for writing, across several actions
    look,         \* each goroutine's Get in progress
    cacheGen      \* history: generation of the model when its entry was looked up

Label == Info \cup {Fallback}

serverVars == <<meta, pulls>>
cacheVars == <<cache, writer, look, cacheGen>>

NoLookup == [at |-> "none", model |-> Nil, info |-> Nil, gen |-> 0]

LookupType ==
    [at : {"none", "miss", "show", "store", "got"}, model : Model \cup {Nil},
     info : Label \cup {Nil}, gen : 0..MaxPulls]

CacheTypeOK ==
    /\ meta \in [Model -> Info \cup {Nil}]
    /\ pulls \in [Model -> 0..MaxPulls]
    /\ cache \in [Model -> Label \cup {Nil}]
    /\ writer \in Thread \cup {Nil}
    /\ look \in [Thread -> LookupType]
    /\ cacheGen \in [Model -> 0..MaxPulls]

CacheInit ==
    /\ meta = [m \in Model |-> Nil]
    /\ pulls = [m \in Model |-> 0]
    /\ cache = [m \in Model |-> Nil]
    /\ writer = Nil
    /\ look = [t \in Thread |-> NoLookup]
    /\ cacheGen = [m \in Model |-> 0]

-----------------------------------------------------------------------------
(* Get *)

\* The fast path under the read lock.
GetHit(t, m) ==
    /\ look[t].at = "none" /\ writer = Nil /\ cache[m] # Nil
    /\ look' = [look EXCEPT ![t] = [at |-> "got", model |-> m, info |-> cache[m],
                                    gen |-> cacheGen[m]]]
    /\ UNCHANGED <<cache, writer, cacheGen>>

\* A miss under the read lock; the lock is given up before the next step.
GetMiss(t, m) ==
    /\ look[t].at = "none" /\ writer = Nil /\ cache[m] = Nil
    /\ look' = [look EXCEPT ![t] = [NoLookup EXCEPT !.at = "miss", !.model = m]]
    /\ UNCHANGED <<cache, writer, cacheGen>>

\* fetchAndCache: write lock, and a second look at the cache.
FetchLock(t) ==
    /\ look[t].at = "miss" /\ writer = Nil
    /\ LET m == look[t].model
       IN  IF cache[m] # Nil
           THEN /\ look' = [look EXCEPT ![t] = [@ EXCEPT !.at = "got", !.info = cache[m],
                                                         !.gen = cacheGen[m]]]
                /\ UNCHANGED writer
           ELSE /\ look' = [look EXCEPT ![t].at = "show"]
                /\ writer' = t
    /\ UNCHANGED <<cache, cacheGen>>

\* The metadata fetch may return: the server's answer, or the fallback if the
\* model is not installed or the call fails.
fetch(m) == {Fallback} \cup ({meta[m]} \ {Nil})

\* The server answers /api/show; the caller has not stored the answer yet.
Show(t) ==
    /\ look[t].at = "show"
    /\ \E i \in fetch(look[t].model) :
          look' = [look EXCEPT ![t] = [@ EXCEPT !.at = "store", !.info = i,
                                                !.gen = pulls[look[t].model]]]
    /\ UNCHANGED <<cache, writer, cacheGen>>

\* Store the answer and release the write lock.
FetchStore(t) ==
    /\ look[t].at = "store"
    /\ cache' = [cache EXCEPT ![look[t].model] = look[t].info]
    /\ cacheGen' = [cacheGen EXCEPT ![look[t].model] = look[t].gen]
    /\ look' = [look EXCEPT ![t].at = "got"]
    /\ writer' = Nil

GetStep(t) == FetchLock(t) \/ Show(t) \/ FetchStore(t)

GetBegins(t, m) == GetHit(t, m) \/ GetMiss(t, m)

\* The caller has used the result.
GetDone(t) == look' = [look EXCEPT ![t] = NoLookup]

\* Mutant of prune: it does not take the write lock.
pruneUnlocked(present) ==
    /\ cache' = [m \in Model |-> IF m \in present THEN cache[m] ELSE Nil]
    /\ UNCHANGED <<writer, look, cacheGen>>

\* prune needs the write lock, so it waits for a fetch in progress.
prune(present) ==
    /\ writer = Nil
    /\ cache' = [m \in Model |-> IF m \in present THEN cache[m] ELSE Nil]
    /\ UNCHANGED <<writer, look, cacheGen>>

-----------------------------------------------------------------------------
(* The Ollama server *)

Pull(m, i) ==
    /\ pulls[m] < MaxPulls /\ meta[m] = Nil
    /\ meta' = [meta EXCEPT ![m] = i]
    /\ pulls' = [pulls EXCEPT ![m] = @ + 1]

Installed == {m \in Model : meta[m] # Nil}
=============================================================================
