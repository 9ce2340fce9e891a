---------------------------- MODULE PollerProofs ----------------------------
(***************************************************************************)
(* Poller.tla with ModelCache.tla for any number of models, labels, pulls  *)
(* and concurrent requests: which series shows a loaded model, how loads   *)
(* and unloads balance, and that a lookup never restores what prune        *)
(* evicted.                                                                *)
(***************************************************************************)
EXTENDS Poller, TLAPS

-----------------------------------------------------------------------------
(* The inductive invariant *)

\* A goroutine between the second look at the cache and its store holds the
\* write lock, and the entry it is going to write is still missing.
Locked ==
    \A t \in Thread :
        /\ look[t].at # "none" => look[t].model \in Model
        /\ look[t].at \in {"store", "got"} => look[t].info \in Label
        /\ look[t].at \in {"show", "store"} => writer = t /\ cache[look[t].model] = Nil

\* The poller looks up only what its loop has still to visit, and what it has
\* got is in the cache until it is used: nobody else prunes.
Where ==
    /\ look[poller].at # "none" => ppc \in {"running", "vanished"} /\ look[poller].model \in todo
    /\ look[poller].at = "got" => cache[look[poller].model] = look[poller].info
    /\ ppc = "running" => todo \subseteq ps
    /\ ppc = "vanished" => todo \subseteq prevLoaded \ ps
    /\ ppc \in {"prune", "loadedGauge"} => ps \subseteq present

\* An installed model is of a later generation than the inventory that last
\* removed it, and so is what /api/show says of it; the inventory about to be
\* applied is no exception.
Fresh ==
    /\ \A m \in Model : forgotten[m] <= pulls[m] /\ (meta[m] # Nil => forgotten[m] < pulls[m])
    /\ \A t \in Thread : look[t].at = "store" /\ look[t].info \in Info
                             => look[t].gen > forgotten[look[t].model]
    /\ ppc = "prune" => \A m \in Model \ present :
           seenPulls[m] <= pulls[m] /\ (meta[m] # Nil => seenPulls[m] < pulls[m])

\* The first scrape has nothing to compare with and counts no events.
FirstScrape == ~initialized => prevLoaded = {} /\ \A m \in Model : events[m] = 0

IInv ==
    /\ TypeOK /\ Locked /\ Where /\ Fresh /\ FirstScrape
    /\ PruneIsFinal /\ OneLoadedSeries /\ LoadsBalance

-----------------------------------------------------------------------------
(* Frames: what a step has to leave alone to keep a part of the invariant *)

\* The constants and the fields of a lookup.
LEMMA Typed ==
  ASSUME TypeOK
  PROVE  /\ poller \in Thread /\ Nil \notin Label /\ Nil \notin Thread /\ Nil \notin Model
         /\ Fallback \in Label /\ Info \subseteq Label /\ MaxPulls \in Nat
         /\ \A t \in Thread : look[t] \in LookupType /\ look[t].gen \in 0..MaxPulls
         /\ \A m \in Model : /\ pulls[m] \in 0..MaxPulls /\ cacheGen[m] \in 0..MaxPulls
                             /\ forgotten[m] \in -1..MaxPulls /\ seenPulls[m] \in 0..MaxPulls
                             /\ cache[m] \in Label \cup {Nil} /\ meta[m] \in Info \cup {Nil}
  BY PollerAssumption, ModelCacheAssumption DEF TypeOK, CacheTypeOK, LookupType, Label

\* Outside Get a goroutine's lookup is the empty one.
LEMMA NoLookupTyped == NoLookup \in LookupType /\ NoLookup.at = "none"
<1>1. 0 \in 0..MaxPulls
  BY ModelCacheAssumption
<1> QED
  BY <1>1 DEF NoLookup, LookupType

\* Shown, by where the scrape is, before and after a step.
LEMMA ShownIs ==
  /\ ppc = "running" => Shown = prevLoaded \cup (ps \ todo)
  /\ ppc = "vanished" => Shown = ps \cup (prevLoaded \cap todo)
  /\ ppc \in {"tags", "prune", "loadedGauge", "collect", "delete", "finish"} => Shown = ps
  /\ ppc \in {"idle", "ps"} => Shown = prevLoaded
  /\ ppc' = "running" => Shown' = prevLoaded' \cup (ps' \ todo')
  /\ ppc' = "vanished" => Shown' = ps' \cup (prevLoaded' \cap todo')
  /\ ppc' \in {"tags", "prune", "loadedGauge", "collect", "delete", "finish"} => Shown' = ps'
  /\ ppc' \in {"idle", "ps"} => Shown' = prevLoaded'
  BY DEF Shown

\* Series are undisturbed by a step that shows the same models under the same
\* cached labels.
LEMMA SeriesKept ==
  ASSUME OneLoadedSeries, LoadsBalance, Shown' = Shown,
         \A m \in Shown : cache'[m] = cache[m],
         loadedGauge' = loadedGauge, loads' = loads, events' = events,
         initialized' = initialized, firstLoaded' = firstLoaded
  PROVE  OneLoadedSeries' /\ LoadsBalance'
<1>1. OneLoadedSeries'
  BY DEF OneLoadedSeries
<1>2. ASSUME NEW s \in Series
      PROVE  loads'[s] = One(s[1] \in Shown' /\ cache'[s[1]] = s[2])
  <2>1. (s[1] \in Shown' /\ cache'[s[1]] = s[2]) = (s[1] \in Shown /\ cache[s[1]] = s[2])
    OBVIOUS
  <2> QED
    BY <2>1 DEF LoadsBalance
<1> QED
  BY <1>1, <1>2 DEF LoadsBalance

\* A lookup moves one goroutine without touching the cache.
LEMMA LookMoves ==
  ASSUME IInv, NEW t \in Thread, NEW v \in LookupType, look' = [look EXCEPT ![t] = v],
         cache' = cache, cacheGen' = cacheGen,
         writer' = writer \/ (writer = Nil /\ writer' = t),
         v.at # "none" => v.model \in Model,
         v.at \in {"store", "got"} => v.info \in Label,
         v.at \in {"show", "store"} => writer' = t /\ cache[v.model] = Nil,
         t = poller /\ v.at # "none" => ppc \in {"running", "vanished"} /\ v.model \in todo,
         t = poller /\ v.at = "got" => cache[v.model] = v.info,
         v.at = "store" /\ v.info \in Info => v.gen > forgotten[v.model],
         tokenGauge' \in SUBSET Series, rpc' \in [Request -> {"idle", "completed", "ended"}],
         UNCHANGED <<serverVars, running, pollVars, gaugeVars, forgotten>>
  PROVE  IInv'
<1>0. look'[t] = v /\ \A u \in Thread \ {t} : look'[u] = look[u]
  BY DEF IInv, TypeOK, CacheTypeOK
<1>1. TypeOK'
  <2>1. CacheTypeOK'
    BY DEF IInv, TypeOK, CacheTypeOK, serverVars
  <2> QED
    BY <2>1 DEF IInv, TypeOK, pollVars, gaugeVars
<1>2. Locked'
  <2>1. ASSUME NEW u \in Thread, u # t, look[u].at \in {"show", "store"} PROVE writer' = u
    BY <2>1, Typed DEF IInv, Locked
  <2> QED
    BY <1>0, <2>1 DEF IInv, Locked
<1>3. Where'
  <2>1. CASE t = poller
    BY <1>0, <2>1 DEF IInv, Where, pollVars
  <2>2. CASE t # poller
    <3>1. look'[poller] = look[poller]
      BY <1>0, <2>2, Typed DEF IInv
    <3> QED
      BY <3>1 DEF IInv, Where, pollVars
  <2> QED
    BY <2>1, <2>2
<1>4. Fresh' /\ PruneIsFinal'
  BY <1>0 DEF IInv, Fresh, PruneIsFinal, pollVars, serverVars
<1>5. FirstScrape' /\ Shown' = Shown
  BY DEF IInv, FirstScrape, Shown, pollVars, gaugeVars
<1>6. OneLoadedSeries' /\ LoadsBalance'
  BY <1>5, SeriesKept DEF IInv, pollVars, gaugeVars
<1> QED
  BY <1>1, <1>2, <1>3, <1>4, <1>5, <1>6 DEF IInv

-----------------------------------------------------------------------------
(* Get *)

\* Get begins, with a hit or a miss.
LEMMA BeginKeeps ==
  ASSUME IInv, NEW t \in Thread, NEW m \in Model, GetBegins(t, m),
         t = poller => ppc \in {"running", "vanished"} /\ m \in todo,
         tokenGauge' = tokenGauge, rpc' \in [Request -> {"idle", "completed", "ended"}],
         UNCHANGED <<serverVars, running, pollVars, gaugeVars, forgotten>>
  PROVE  IInv'
<1>0. tokenGauge' \in SUBSET Series
  BY DEF IInv, TypeOK
<1>1. CASE GetHit(t, m)
  <2> DEFINE v == [at |-> "got", model |-> m, info |-> cache[m], gen |-> cacheGen[m]]
  <2>1. /\ cache[m] \in Label /\ look' = [look EXCEPT ![t] = v]
        /\ UNCHANGED <<cache, writer, cacheGen>>
    BY <1>1, Typed DEF GetHit, IInv
  <2>2. v \in LookupType /\ v.at = "got" /\ v.model = m /\ v.info = cache[m]
    BY <2>1, Typed DEF LookupType, IInv
  <2> HIDE DEF v
  <2> QED
    BY <1>0, <2>1, <2>2, LookMoves
<1>2. CASE GetMiss(t, m)
  <2> DEFINE v == [NoLookup EXCEPT !.at = "miss", !.model = m]
  <2>1. look' = [look EXCEPT ![t] = v] /\ UNCHANGED <<cache, writer, cacheGen>>
    BY <1>2 DEF GetMiss
  <2>2. v \in LookupType /\ v.at = "miss" /\ v.model = m
    BY NoLookupTyped DEF LookupType
  <2> HIDE DEF v
  <2> QED
    BY <1>0, <2>1, <2>2, LookMoves
<1> QED
  BY <1>1, <1>2 DEF GetBegins

\* fetchAndCache takes the write lock, or finds the entry at the second look.
LEMMA LockKeeps ==
  ASSUME IInv, NEW t \in Thread, FetchLock(t),
         UNCHANGED <<serverVars, running, pollVars, gaugeVars, tokenGauge, rpc, forgotten>>
  PROVE  IInv'
<1> DEFINE m == look[t].model
<1>0. /\ look[t].at = "miss" /\ writer = Nil /\ m \in Model /\ UNCHANGED <<cache, cacheGen>>
      /\ look[t] \in LookupType /\ tokenGauge' \in SUBSET Series
      /\ rpc' \in [Request -> {"idle", "completed", "ended"}]
      /\ t = poller => ppc \in {"running", "vanished"} /\ m \in todo
  BY Typed DEF FetchLock, IInv, TypeOK, Locked, Where
<1>1. CASE cache[m] # Nil
  <2> DEFINE v == [look[t] EXCEPT !.at = "got", !.info = cache[m], !.gen = cacheGen[m]]
  <2>1. look' = [look EXCEPT ![t] = v] /\ writer' = writer
    BY <1>1 DEF FetchLock
  <2>2. cache[m] \in Label /\ cacheGen[m] \in 0..MaxPulls
    BY <1>0, <1>1, Typed DEF IInv
  <2>3. v \in LookupType /\ v.at = "got" /\ v.model = m /\ v.info = cache[m]
    BY <1>0, <2>2 DEF LookupType
  <2> HIDE DEF v, m
  <2> QED
    BY <1>0, <2>1, <2>2, <2>3, LookMoves
<1>2. CASE cache[m] = Nil
  <2> DEFINE v == [look[t] EXCEPT !.at = "show"]
  <2>1. look' = [look EXCEPT ![t] = v] /\ writer' = t
    BY <1>2 DEF FetchLock, IInv, TypeOK, CacheTypeOK
  <2>2. v \in LookupType /\ v.at = "show" /\ v.model = m
    BY <1>0 DEF LookupType
  <2> HIDE DEF v, m
  <2> QED
    BY <1>0, <1>2, <2>1, <2>2, LookMoves
<1> QED
  BY <1>1, <1>2

\* /api/show answers: what it says of an installed model is of the model's
\* present generation, which no inventory has removed.
LEMMA ShowKeeps ==
  ASSUME IInv, NEW t \in Thread, Show(t),
         UNCHANGED <<serverVars, running, pollVars, gaugeVars, tokenGauge, rpc, forgotten>>
  PROVE  IInv'
<1> DEFINE m == look[t].model
<1>0. /\ look[t].at = "show" /\ m \in Model /\ UNCHANGED <<cache, writer, cacheGen>>
      /\ look[t] \in LookupType /\ tokenGauge' \in SUBSET Series
      /\ rpc' \in [Request -> {"idle", "completed", "ended"}]
      /\ writer = t /\ cache[m] = Nil
      /\ t = poller => ppc \in {"running", "vanished"} /\ m \in todo
  BY Typed DEF Show, IInv, TypeOK, Locked, Where
<1>1. PICK j \in fetch(m) :
        look' = [look EXCEPT ![t] = [look[t] EXCEPT !.at = "store", !.info = j, !.gen = pulls[m]]]
  BY DEF Show
<1> DEFINE v == [look[t] EXCEPT !.at = "store", !.info = j, !.gen = pulls[m]]
<1>2. j \in Label /\ pulls[m] \in 0..MaxPulls /\ (j \in Info => meta[m] # Nil)
  BY <1>0, <1>1, Typed, ModelCacheAssumption DEF fetch, IInv
<1>3. v \in LookupType /\ v.at = "store" /\ v.model = m /\ v.info = j /\ v.gen = pulls[m]
  BY <1>0, <1>2 DEF LookupType
<1>4. j \in Info => pulls[m] > forgotten[m]
  BY <1>0, <1>2, Typed DEF IInv, Fresh
<1> HIDE DEF v, m
<1>5. look' = [look EXCEPT ![t] = v]
  BY <1>1 DEF v, m
<1> QED
  BY <1>0, <1>2, <1>3, <1>4, <1>5, LookMoves

\* The answer is stored: the entry was missing, so no series shows the model.
LEMMA StoreKeeps ==
  ASSUME IInv, NEW t \in Thread, FetchStore(t),
         UNCHANGED <<serverVars, running, pollVars, gaugeVars, tokenGauge, rpc, forgotten>>
  PROVE  IInv'
<1> DEFINE m == look[t].model
           v == [look[t] EXCEPT !.at = "got"]
<1>0. /\ look[t].at = "store" /\ m \in Model /\ cache[m] = Nil /\ writer = t
      /\ look[t] \in LookupType /\ look[t].info \in Label /\ look[t].gen \in 0..MaxPulls
  BY Typed DEF FetchStore, IInv, Locked
<1>1. /\ look' = [look EXCEPT ![t] = v] /\ writer' = Nil
      /\ cache' = [cache EXCEPT ![m] = look[t].info]
      /\ cacheGen' = [cacheGen EXCEPT ![m] = look[t].gen]
  BY DEF FetchStore, IInv, TypeOK, CacheTypeOK
<1>2. v \in LookupType /\ v.at = "got" /\ v.model = m /\ v.info = look[t].info
  BY <1>0 DEF LookupType
<1> HIDE DEF v, m
<1>3. /\ look'[t] = v /\ \A u \in Thread \ {t} : look'[u] = look[u]
      /\ cache'[m] = look[t].info /\ \A n \in Model \ {m} : cache'[n] = cache[n]
      /\ cacheGen'[m] = look[t].gen /\ \A n \in Model \ {m} : cacheGen'[n] = cacheGen[n]
  BY <1>0, <1>1 DEF IInv, TypeOK, CacheTypeOK
<1>4. TypeOK'
  <2>1. CacheTypeOK'
    BY <1>0, <1>1, <1>2 DEF IInv, TypeOK, CacheTypeOK, serverVars
  <2> QED
    BY <2>1 DEF IInv, TypeOK, pollVars, gaugeVars
<1>5. Locked'
  <2>1. ASSUME NEW u \in Thread \ {t} PROVE look'[u].at \notin {"show", "store"}
    BY <1>0, <1>3 DEF IInv, Locked
  <2> QED
    BY <1>0, <1>2, <1>3, <2>1 DEF IInv, Locked
<1>6. Where'
  <2>1. CASE t = poller
    BY <1>0, <1>2, <1>3, <2>1 DEF IInv, Where, pollVars, m
  <2>2. CASE t # poller
    <3>1. look'[poller] = look[poller]
      BY <1>3, <2>2, Typed DEF IInv
    <3>2. look[poller].at = "got" => cache'[look[poller].model] = cache[look[poller].model]
      <4> SUFFICES ASSUME look[poller].at = "got" PROVE look[poller].model \in Model \ {m}
        BY <1>3
      <4>1. look[poller].model \in Model /\ look[poller].info \in Label
        BY Typed DEF IInv, Locked
      <4>2. cache[look[poller].model] # Nil
        BY <4>1, Typed DEF IInv, Where
      <4> QED
        BY <1>0, <4>1, <4>2
    <3> QED
      BY <3>1, <3>2 DEF IInv, Where, pollVars
  <2> QED
    BY <2>1, <2>2
<1>7. Fresh' /\ FirstScrape' /\ Shown' = Shown
  BY <1>2, <1>3 DEF IInv, Fresh, FirstScrape, Shown, pollVars, serverVars, gaugeVars
<1>8. PruneIsFinal'
  <2>1. look[t].info \in Info => look[t].gen > forgotten[m]
    BY <1>0 DEF IInv, Fresh, m
  <2> QED
    BY <1>3, <2>1 DEF IInv, PruneIsFinal
<1>9. OneLoadedSeries' /\ LoadsBalance'
  <2>1. \A n \in Shown : n \in Model
    BY DEF IInv, TypeOK, Shown
  <2>2. m \notin Shown
    BY <1>0 DEF IInv, OneLoadedSeries
  <2> QED
    BY <1>3, <1>7, <2>1, <2>2, SeriesKept DEF IInv, pollVars, gaugeVars
<1> QED
  BY <1>4, <1>5, <1>6, <1>7, <1>8, <1>9 DEF IInv

-----------------------------------------------------------------------------
(* scrape *)

\* A step of scrape that touches neither cache nor gauges.
LEMMA PollKeeps ==
  ASSUME IInv, TypeOK', Where', FirstScrape', Shown' = Shown,
         ppc' = "prune" => \A m \in Model \ present' :
             seenPulls'[m] <= pulls[m] /\ (meta[m] # Nil => seenPulls'[m] < pulls[m]),
         UNCHANGED <<serverVars, cacheVars, gaugeVars, initialized, firstLoaded, forgotten>>
  PROVE  IInv'
<1>1. Locked' /\ Fresh' /\ PruneIsFinal'
  BY DEF IInv, Locked, Fresh, PruneIsFinal, serverVars, cacheVars
<1>2. OneLoadedSeries' /\ LoadsBalance'
  BY SeriesKept DEF IInv, cacheVars, gaugeVars
<1> QED
  BY <1>1, <1>2 DEF IInv

\* The steps of scrape between its loops.
LEMMA ScrapeMoves ==
  ASSUME IInv,
         \/ HealthFails \/ HealthPasses \/ PSFails \/ PSAnswers \/ RunningDone \/ VanishedDone
         \/ TagsUnusable \/ TagsAnswers \/ CollectTokenGauge \/ DeleteTokenGauge
  PROVE  IInv'
<1> USE DEF pollVars
<1>0. TypeOK /\ Where /\ FirstScrape
  BY DEF IInv
<1>1. CASE HealthFails
  <2>1. TypeOK'
    BY <1>0, <1>1 DEF HealthFails, TypeOK, CacheTypeOK, serverVars, cacheVars, gaugeVars
  <2>2. Where' /\ FirstScrape' /\ Shown' = Shown
    BY <1>0, <1>1 DEF HealthFails, Where, FirstScrape, Shown, cacheVars, gaugeVars
  <2> QED
    BY <1>1, <2>1, <2>2, PollKeeps DEF HealthFails
<1>2. CASE HealthPasses
  <2>1. TypeOK'
    BY <1>0, <1>2 DEF HealthPasses, TypeOK, CacheTypeOK, serverVars, cacheVars, gaugeVars
  <2>2. Where' /\ FirstScrape' /\ Shown' = Shown
    BY <1>0, <1>2, ShownIs DEF HealthPasses, Where, FirstScrape, cacheVars, gaugeVars
  <2> QED
    BY <1>2, <2>1, <2>2, PollKeeps DEF HealthPasses
<1>3. CASE PSFails
  <2>1. TypeOK'
    BY <1>0, <1>3 DEF PSFails, TypeOK, CacheTypeOK, serverVars, cacheVars, gaugeVars
  <2>2. Where' /\ FirstScrape' /\ Shown' = Shown
    BY <1>0, <1>3, ShownIs DEF PSFails, Where, FirstScrape, cacheVars, gaugeVars
  <2> QED
    BY <1>3, <2>1, <2>2, PollKeeps DEF PSFails
<1>4. CASE PSAnswers
  <2>1. TypeOK'
    BY <1>0, <1>4 DEF PSAnswers, TypeOK, CacheTypeOK, serverVars, cacheVars, gaugeVars
  <2>2. Where' /\ FirstScrape' /\ Shown' = Shown
    BY <1>0, <1>4, ShownIs DEF PSAnswers, Where, FirstScrape, cacheVars, gaugeVars
  <2> QED
    BY <1>4, <2>1, <2>2, PollKeeps DEF PSAnswers
<1>5. CASE RunningDone
  <2>1. TypeOK'
    BY <1>0, <1>5 DEF RunningDone, TypeOK, CacheTypeOK, serverVars, cacheVars, gaugeVars
  <2>2. Where' /\ FirstScrape' /\ Shown' = Shown
    BY <1>0, <1>5, ShownIs DEF RunningDone, Where, FirstScrape, cacheVars, gaugeVars
  <2> QED
    BY <1>5, <2>1, <2>2, PollKeeps DEF RunningDone
<1>6. CASE VanishedDone
  <2>1. TypeOK'
    BY <1>0, <1>6 DEF VanishedDone, TypeOK, CacheTypeOK, serverVars, cacheVars, gaugeVars
  <2>2. Where' /\ FirstScrape' /\ Shown' = Shown
    BY <1>0, <1>6, ShownIs DEF VanishedDone, Where, FirstScrape, cacheVars, gaugeVars
  <2> QED
    BY <1>6, <2>1, <2>2, PollKeeps DEF VanishedDone
<1>7. CASE TagsUnusable
  <2>1. TypeOK'
    BY <1>0, <1>7 DEF TagsUnusable, TypeOK, CacheTypeOK, serverVars, cacheVars, gaugeVars
  <2>2. Where' /\ FirstScrape' /\ Shown' = Shown
    BY <1>0, <1>7, ShownIs DEF TagsUnusable, Where, FirstScrape, cacheVars, gaugeVars
  <2> QED
    BY <1>7, <2>1, <2>2, PollKeeps DEF TagsUnusable
<1>8. CASE TagsAnswers
  <2>1. TypeOK'
    BY <1>0, <1>8 DEF TagsAnswers, TypeOK, CacheTypeOK, serverVars, cacheVars, gaugeVars, Installed
  <2>2. Where' /\ FirstScrape' /\ Shown' = Shown
    BY <1>0, <1>8, ShownIs DEF TagsAnswers, Where, FirstScrape, cacheVars, gaugeVars
  <2>3. \A m \in Model \ present' :
            seenPulls'[m] <= pulls[m] /\ (meta[m] # Nil => seenPulls'[m] < pulls[m])
    BY <1>0, <1>8, Typed DEF TagsAnswers, Installed
  <2> QED
    BY <1>8, <2>1, <2>2, <2>3, PollKeeps DEF TagsAnswers
<1>9. CASE CollectTokenGauge
  <2>1. TypeOK'
    <3>1. AbsentModels \in SUBSET Model
      BY <1>0 DEF AbsentModels, TypeOK, Series
    <3> QED
      BY <1>0, <1>9, <3>1 DEF CollectTokenGauge, TypeOK, CacheTypeOK, serverVars, cacheVars, gaugeVars
  <2>2. Where' /\ FirstScrape' /\ Shown' = Shown
    BY <1>0, <1>9, ShownIs DEF CollectTokenGauge, Where, FirstScrape, cacheVars, gaugeVars
  <2> QED
    BY <1>9, <2>1, <2>2, PollKeeps DEF CollectTokenGauge
<1>10. CASE DeleteTokenGauge
  <2>1. TypeOK'
    BY <1>0, <1>10 DEF DeleteTokenGauge, TypeOK, CacheTypeOK, serverVars, cacheVars, gaugeVars
  <2>2. Where' /\ FirstScrape' /\ Shown' = Shown
    BY <1>0, <1>10, ShownIs DEF DeleteTokenGauge, Where, FirstScrape, cacheVars, gaugeVars
  <2> QED
    BY <1>10, <2>1, <2>2, PollKeeps DEF DeleteTokenGauge
<1> QED
  BY <1>1, <1>2, <1>3, <1>4, <1>5, <1>6, <1>7, <1>8, <1>9, <1>10

\* prune: no fetch is in progress, and what is shown is present.
LEMMA PruneKeeps == ASSUME IInv, PruneCache PROVE IInv'
<1>0. /\ ppc = "prune" /\ ppc' = "loadedGauge" /\ writer = Nil
      /\ cache' = [m \in Model |-> IF m \in present THEN cache[m] ELSE Nil]
      /\ forgotten' = [m \in Model |-> IF m \in present THEN forgotten[m] ELSE seenPulls[m]]
      /\ UNCHANGED <<serverVars, running, writer, look, cacheGen, up, ps, psNull, todo, present,
                     seenPulls, doomedSeries, prevLoaded, initialized, firstLoaded, gaugeVars,
                     tokenGauge, rpc>>
  BY DEF PruneCache, prune
<1>1. \A t \in Thread : look[t].at \notin {"show", "store"}
  BY <1>0, Typed DEF IInv, Locked
<1>2. TypeOK'
  <2>1. CacheTypeOK'
    BY <1>0 DEF IInv, TypeOK, CacheTypeOK, serverVars
  <2>2. forgotten' \in [Model -> -1..MaxPulls]
    BY <1>0, Typed DEF IInv, TypeOK
  <2> QED
    BY <1>0, <2>1, <2>2 DEF IInv, TypeOK, gaugeVars
<1>3. Locked'
  BY <1>0, <1>1 DEF IInv, Locked
<1>4. look[poller].at = "none" /\ ps \subseteq present
  BY <1>0 DEF IInv, Where
<1>5. Where' /\ FirstScrape'
  BY <1>0, <1>4 DEF IInv, Where, FirstScrape, gaugeVars
<1>6. Fresh'
  BY <1>0, <1>1 DEF IInv, Fresh, serverVars
<1>7. PruneIsFinal'
  BY <1>0, ModelCacheAssumption DEF IInv, PruneIsFinal
<1>8. Shown' = Shown /\ Shown = ps /\ ps \subseteq Model
  BY <1>0, ShownIs DEF IInv, TypeOK
<1>9. OneLoadedSeries' /\ LoadsBalance'
  BY <1>0, <1>4, <1>8, SeriesKept DEF IInv, gaugeVars
<1> QED
  BY <1>2, <1>3, <1>5, <1>6, <1>7, <1>9 DEF IInv

\* pruneModelGauge: a series that is removed did not show 1.
LEMMA PruneLoadedKeeps == ASSUME IInv, PruneLoadedGauge PROVE IInv'
<1>0. /\ ppc = "loadedGauge" /\ ppc' = "collect"
      /\ loadedGauge' = [s \in Series |-> IF s[1] \in present THEN loadedGauge[s] ELSE Nil]
      /\ UNCHANGED <<serverVars, running, cacheVars, up, ps, psNull, todo, present, seenPulls,
                     doomedSeries, prevLoaded, initialized, firstLoaded, loads, events,
                     tokenGauge, rpc, forgotten>>
  BY DEF PruneLoadedGauge
<1>1. TypeOK'
  <2>1. loadedGauge' \in [Series -> {Nil, 0, 1}]
    BY <1>0 DEF IInv, TypeOK
  <2> QED
    BY <1>0, <2>1 DEF IInv, TypeOK, CacheTypeOK, serverVars, cacheVars
<1>2. Locked' /\ Where' /\ Fresh' /\ PruneIsFinal' /\ FirstScrape'
  BY <1>0 DEF IInv, Locked, Where, Fresh, PruneIsFinal, FirstScrape, serverVars, cacheVars
<1>3. Shown' = Shown /\ Shown = ps /\ ps \subseteq present /\ cache' = cache
  BY <1>0, ShownIs DEF IInv, Where, cacheVars
<1>4. OneLoadedSeries'
  <2> SUFFICES ASSUME NEW m \in Model
               PROVE  IF m \in Shown
                      THEN /\ cache[m] # Nil
                           /\ \A l \in Label : (loadedGauge'[<<m, l>>] = 1) <=> (l = cache[m])
                      ELSE \A l \in Label : loadedGauge'[<<m, l>>] # 1
    BY <1>3 DEF OneLoadedSeries
  <2>1. \A l \in Label : loadedGauge'[<<m, l>>] = IF m \in present THEN loadedGauge[<<m, l>>] ELSE Nil
    BY <1>0 DEF Series
  <2>2. Nil # 1
    BY PollerAssumption
  <2> QED
    BY <1>3, <2>1, <2>2 DEF IInv, OneLoadedSeries
<1>5. LoadsBalance'
  BY <1>0, <1>3 DEF IInv, LoadsBalance
<1> QED
  BY <1>1, <1>2, <1>4, <1>5 DEF IInv

\* The end of a scrape: what it found loaded is what the next one compares with.
LEMMA EndKeeps == ASSUME IInv, ScrapeEnds PROVE IInv'
<1>0. /\ ppc = "finish" /\ ppc' = "idle" /\ prevLoaded' = ps /\ initialized' = TRUE
      /\ firstLoaded' = IF initialized THEN firstLoaded ELSE ps
      /\ ps' = {} /\ psNull' = FALSE /\ present' = {} /\ seenPulls' = [m \in Model |-> 0]
      /\ UNCHANGED <<serverVars, running, cacheVars, up, todo, doomedSeries, gaugeVars,
                     tokenGauge, rpc, forgotten>>
  BY DEF ScrapeEnds
<1>1. TypeOK'
  <2>1. seenPulls' \in [Model -> 0..MaxPulls]
    BY <1>0, ModelCacheAssumption
  <2> QED
    BY <1>0, <2>1 DEF IInv, TypeOK, CacheTypeOK, serverVars, cacheVars, gaugeVars
<1>2. Locked' /\ Where' /\ Fresh' /\ PruneIsFinal' /\ FirstScrape'
  BY <1>0 DEF IInv, Locked, Where, Fresh, PruneIsFinal, FirstScrape, serverVars, cacheVars
<1>3. Shown' = Shown /\ Shown = ps /\ cache' = cache /\ UNCHANGED <<loadedGauge, loads, events>>
  BY <1>0, ShownIs DEF cacheVars, gaugeVars
<1>4. OneLoadedSeries'
  BY <1>3 DEF IInv, OneLoadedSeries
<1>5. LoadsBalance'
  <2>1. ASSUME NEW m \in Model
        PROVE  events'[m] = One(m \in Shown') - One(m \in firstLoaded')
    <3>1. CASE initialized
      BY <1>0, <1>3, <3>1 DEF IInv, LoadsBalance
    <3>2. CASE ~initialized
      <4>1. events'[m] = 0 /\ One(m \in Shown') = One(m \in firstLoaded')
        BY <1>0, <1>3, <3>2 DEF IInv, FirstScrape
      <4> QED
        BY <4>1 DEF One
    <3> QED
      BY <3>1, <3>2
  <2> QED
    BY <1>3, <2>1 DEF IInv, LoadsBalance
<1> QED
  BY <1>1, <1>2, <1>4, <1>5 DEF IInv

\* What the body of either loop has: the model to visit, its cached label, and
\* everything but the gauges.
LEMMA Visit ==
  ASSUME IInv, ppc \in {"running", "vanished"}, look[poller].at = "got",
         NEW m, m = look[poller].model, NEW l, l = look[poller].info,
         GetDone(poller), todo' = todo \ {m},
         loadedGauge' \in [Series -> {Nil, 0, 1}], loads' \in [Series -> Int],
         events' \in [Model -> Int], ~initialized => events' = events,
         UNCHANGED <<serverVars, running, cache, writer, cacheGen, ppc, up, ps, psNull, present,
                     seenPulls, doomedSeries, prevLoaded, initialized, firstLoaded,
                     tokenGauge, rpc, forgotten>>
  PROVE  /\ m \in todo /\ m \in Model /\ l \in Label /\ cache[m] = l /\ l # Nil
         /\ TypeOK' /\ Locked' /\ Where' /\ Fresh' /\ FirstScrape' /\ PruneIsFinal'
<1>1. m \in todo /\ m \in Model /\ l \in Label /\ cache[m] = l /\ l # Nil
  BY Typed DEF IInv, Where, Locked
<1>2. look' = [look EXCEPT ![poller] = NoLookup] /\ poller \in Thread
  BY Typed DEF GetDone, IInv
<1>3. look'[poller] = NoLookup /\ \A t \in Thread \ {poller} : look'[t] = look[t]
  BY <1>2 DEF IInv, TypeOK, CacheTypeOK
<1>4. TypeOK'
  <2>1. CacheTypeOK'
    BY <1>2, NoLookupTyped DEF IInv, TypeOK, CacheTypeOK, serverVars
  <2> QED
    BY <2>1 DEF IInv, TypeOK
<1>5. Locked' /\ Where'
  BY <1>3, NoLookupTyped DEF IInv, Locked, Where
<1>6. Fresh' /\ PruneIsFinal'
  BY <1>3, NoLookupTyped DEF IInv, Fresh, PruneIsFinal, serverVars
<1>7. FirstScrape'
  BY DEF IInv, FirstScrape
<1> QED
  BY <1>1, <1>4, <1>5, <1>6, <1>7

\* The loop over ps.Models: the model is shown under its cached label, and
\* counted as loaded if it was not shown before.
LEMMA RunningModelKeeps == ASSUME IInv, RunningModel PROVE IInv'
<1> DEFINE m == look[poller].model
           l == look[poller].info
<1>0. /\ ppc = "running" /\ look[poller].at = "got" /\ GetDone(poller) /\ todo' = todo \ {m}
      /\ loadedGauge' = [loadedGauge EXCEPT ![<<m, l>>] = 1]
      /\ loads' = IF m \notin prevLoaded THEN [loads EXCEPT ![<<m, l>>] = @ + 1] ELSE loads
      /\ events' = IF m \notin prevLoaded /\ initialized THEN [events EXCEPT ![m] = @ + 1] ELSE events
      /\ UNCHANGED <<serverVars, running, cache, writer, cacheGen, ppc, up, ps, psNull, present,
                     seenPulls, doomedSeries, prevLoaded, initialized, firstLoaded,
                     tokenGauge, rpc, forgotten>>
  BY DEF RunningModel, setLoaded, newlyLoaded, loadEvent
<1>s. m \in Model /\ <<m, l>> \in Series
  BY <1>0, Typed DEF IInv, Locked, Series
<1>1. /\ loadedGauge' \in [Series -> {Nil, 0, 1}] /\ loads' \in [Series -> Int]
      /\ events' \in [Model -> Int]
  <2> HIDE DEF m, l
  <2>1. loadedGauge' \in [Series -> {Nil, 0, 1}]
    BY <1>0, <1>s DEF IInv, TypeOK
  <2>2. loads' \in [Series -> Int]
    BY <1>0, <1>s DEF IInv, TypeOK
  <2>3. events' \in [Model -> Int]
    BY <1>0, <1>s DEF IInv, TypeOK
  <2> QED
    BY <2>1, <2>2, <2>3
<1>2. /\ m \in todo /\ m \in Model /\ l \in Label /\ cache[m] = l /\ l # Nil
      /\ TypeOK' /\ Locked' /\ Where' /\ Fresh' /\ FirstScrape' /\ PruneIsFinal'
  BY <1>0, <1>1, Visit
<1> HIDE DEF m, l
<1>3. /\ Shown = prevLoaded \cup (ps \ todo) /\ Shown' = Shown \cup {m}
      /\ m \in Shown <=> m \in prevLoaded
  BY <1>0, <1>2, ShownIs DEF IInv, Where
<1>4. OneLoadedSeries'
  <2> SUFFICES ASSUME NEW n \in Model
               PROVE  IF n \in Shown'
                      THEN /\ cache[n] # Nil
                           /\ \A k \in Label : (loadedGauge'[<<n, k>>] = 1) <=> (k = cache[n])
                      ELSE \A k \in Label : loadedGauge'[<<n, k>>] # 1
    BY <1>0 DEF OneLoadedSeries
  <2>1. \A k \in Label : loadedGauge'[<<n, k>>] = IF n = m /\ k = l THEN 1 ELSE loadedGauge[<<n, k>>]
    BY <1>0, <1>2 DEF IInv, TypeOK, Series
  <2> QED
    BY <1>2, <1>3, <2>1 DEF IInv, OneLoadedSeries
<1>5. ASSUME NEW s \in Series PROVE loads'[s] = One(s[1] \in Shown' /\ cache'[s[1]] = s[2])
  <2>0. <<m, l>> \in Series /\ loads[s] = One(s[1] \in Shown /\ cache[s[1]] = s[2]) /\ loads[s] \in Int
    BY <1>2 DEF Series, IInv, LoadsBalance, TypeOK
  <2>1. CASE s = <<m, l>>
    <3>1. One(s[1] \in Shown' /\ cache'[s[1]] = s[2]) = 1
      BY <1>0, <1>2, <1>3, <2>1 DEF One
    <3>2. loads[s] = IF m \in prevLoaded THEN 1 ELSE 0
      BY <1>2, <1>3, <2>0, <2>1 DEF One
    <3>3. loads'[s] = IF m \in prevLoaded THEN loads[s] ELSE loads[s] + 1
      BY <1>0, <2>0, <2>1 DEF IInv, TypeOK
    <3> QED
      BY <3>1, <3>2, <3>3
  <2>2. CASE s # <<m, l>>
    <3>1. loads'[s] = loads[s]
      BY <1>0, <2>2 DEF IInv, TypeOK
    <3>2. s[1] \in Model /\ (s[1] = m => s[2] # l)
      BY <2>2 DEF Series
    <3>3. (s[1] \in Shown' /\ cache'[s[1]] = s[2]) = (s[1] \in Shown /\ cache[s[1]] = s[2])
      BY <1>0, <1>2, <1>3, <3>2
    <3> QED
      BY <2>0, <3>1, <3>3
  <2> QED
    BY <2>1, <2>2
<1>6. ASSUME initialized, NEW n \in Model
      PROVE  events'[n] = One(n \in Shown') - One(n \in firstLoaded')
  <2>1. events[n] = One(n \in Shown) - One(n \in firstLoaded) /\ events[n] \in Int
    BY <1>6 DEF IInv, LoadsBalance, TypeOK
  <2>2. firstLoaded' = firstLoaded
    BY <1>0
  <2>3. events'[n] = IF n = m /\ m \notin prevLoaded THEN events[n] + 1 ELSE events[n]
    BY <1>0, <1>6 DEF IInv, TypeOK
  <2>4. One(n \in Shown') = IF n = m /\ m \notin prevLoaded THEN One(n \in Shown) + 1
                                                          ELSE One(n \in Shown)
    BY <1>3 DEF One
  <2>5. One(n \in Shown) \in Int /\ One(n \in firstLoaded) \in Int
    BY DEF One
  <2> QED
    BY <2>1, <2>2, <2>3, <2>4, <2>5
<1>7. LoadsBalance'
  BY <1>0, <1>5, <1>6 DEF LoadsBalance
<1> QED
  BY <1>2, <1>4, <1>7 DEF IInv

\* The loop over models that are gone: the one series that showed the model, by
\* its cached label, is set to 0 and counted as unloaded.
LEMMA VanishedModelKeeps == ASSUME IInv, VanishedModel PROVE IInv'
<1> DEFINE m == look[poller].model
           l == look[poller].info
<1>0. /\ ppc = "vanished" /\ look[poller].at = "got" /\ GetDone(poller) /\ todo' = todo \ {m}
      /\ loadedGauge' = [loadedGauge EXCEPT ![<<m, l>>] = 0]
      /\ loads' = [loads EXCEPT ![<<m, l>>] = @ - 1]
      /\ events' = [events EXCEPT ![m] = @ - 1]
      /\ UNCHANGED <<serverVars, running, cache, writer, cacheGen, ppc, up, ps, psNull, present,
                     seenPulls, doomedSeries, prevLoaded, initialized, firstLoaded,
                     tokenGauge, rpc, forgotten>>
  BY DEF VanishedModel, setLoaded
<1>s. m \in Model /\ <<m, l>> \in Series
  BY <1>0, Typed DEF IInv, Locked, Series
<1>1. /\ loadedGauge' \in [Series -> {Nil, 0, 1}] /\ loads' \in [Series -> Int]
      /\ events' \in [Model -> Int]
  <2> HIDE DEF m, l
  <2>1. loadedGauge' \in [Series -> {Nil, 0, 1}]
    BY <1>0, <1>s DEF IInv, TypeOK
  <2>2. loads' \in [Series -> Int]
    BY <1>0, <1>s DEF IInv, TypeOK
  <2>3. events' \in [Model -> Int]
    BY <1>0, <1>s DEF IInv, TypeOK
  <2> QED
    BY <2>1, <2>2, <2>3
<1>i. initialized
  BY <1>0 DEF IInv, Where, FirstScrape
<1>2. /\ m \in todo /\ m \in Model /\ l \in Label /\ cache[m] = l /\ l # Nil
      /\ TypeOK' /\ Locked' /\ Where' /\ Fresh' /\ FirstScrape' /\ PruneIsFinal'
  BY <1>0, <1>1, <1>i, Visit
<1> HIDE DEF m, l
<1>3. Shown = ps \cup (prevLoaded \cap todo) /\ Shown' = Shown \ {m} /\ m \in Shown
  BY <1>0, <1>2, ShownIs DEF IInv, Where
<1>4. OneLoadedSeries'
  <2> SUFFICES ASSUME NEW n \in Model
               PROVE  IF n \in Shown'
                      THEN /\ cache[n] # Nil
                           /\ \A k \in Label : (loadedGauge'[<<n, k>>] = 1) <=> (k = cache[n])
                      ELSE \A k \in Label : loadedGauge'[<<n, k>>] # 1
    BY <1>0 DEF OneLoadedSeries
  <2>1. \A k \in Label : loadedGauge'[<<n, k>>] = IF n = m /\ k = l THEN 0 ELSE loadedGauge[<<n, k>>]
    BY <1>0, <1>2 DEF IInv, TypeOK, Series
  <2> QED
    BY <1>2, <1>3, <2>1 DEF IInv, OneLoadedSeries
<1>5. ASSUME NEW s \in Series PROVE loads'[s] = One(s[1] \in Shown' /\ cache'[s[1]] = s[2])
  <2>0. <<m, l>> \in Series /\ loads[s] = One(s[1] \in Shown /\ cache[s[1]] = s[2]) /\ loads[s] \in Int
    BY <1>2 DEF Series, IInv, LoadsBalance, TypeOK
  <2>1. CASE s = <<m, l>>
    <3>1. One(s[1] \in Shown' /\ cache'[s[1]] = s[2]) = 0
      BY <1>3, <2>1 DEF One
    <3>2. loads[s] = 1
      BY <1>2, <1>3, <2>0, <2>1 DEF One
    <3>3. loads'[s] = loads[s] - 1
      BY <1>0, <2>0, <2>1 DEF IInv, TypeOK
    <3> QED
      BY <3>1, <3>2, <3>3
  <2>2. CASE s # <<m, l>>
    <3>1. loads'[s] = loads[s]
      BY <1>0, <2>2 DEF IInv, TypeOK
    <3>2. s[1] \in Model /\ (s[1] = m => s[2] # l)
      BY <2>2 DEF Series
    <3>3. (s[1] \in Shown' /\ cache'[s[1]] = s[2]) = (s[1] \in Shown /\ cache[s[1]] = s[2])
      BY <1>0, <1>2, <1>3, <3>2
    <3> QED
      BY <2>0, <3>1, <3>3
  <2> QED
    BY <2>1, <2>2
<1>6. ASSUME NEW n \in Model
      PROVE  events'[n] = One(n \in Shown') - One(n \in firstLoaded')
  <2>1. events[n] = One(n \in Shown) - One(n \in firstLoaded) /\ events[n] \in Int
    BY <1>i DEF IInv, LoadsBalance, TypeOK
  <2>2. firstLoaded' = firstLoaded
    BY <1>0
  <2>3. events'[n] = IF n = m THEN events[n] - 1 ELSE events[n]
    BY <1>0 DEF IInv, TypeOK
  <2>4. One(n \in Shown') = IF n = m THEN One(n \in Shown) - 1 ELSE One(n \in Shown)
    BY <1>3 DEF One
  <2>5. One(n \in Shown) \in Int /\ One(n \in firstLoaded) \in Int
    BY DEF One
  <2> QED
    BY <2>1, <2>2, <2>3, <2>4, <2>5
<1>7. LoadsBalance'
  BY <1>5, <1>6 DEF LoadsBalance
<1> QED
  BY <1>2, <1>4, <1>7 DEF IInv

-----------------------------------------------------------------------------
(* Requests and the server *)

\* A request looks its model up, and uses what it got.
LEMMA RequestKeeps == ASSUME IInv, NEW r \in Request, RequestNext(r) PROVE IInv'
<1>0. r \in Thread /\ r # poller
  BY PollerAssumption
<1>1. ASSUME NEW m \in Model, InferenceCompletes(r, m) \/ RequestEnds(r, m) PROVE IInv'
  <2>1. /\ GetBegins(r, m) /\ tokenGauge' = tokenGauge
        /\ UNCHANGED <<serverVars, running, pollVars, gaugeVars, forgotten>>
    BY <1>1 DEF InferenceCompletes, RequestEnds
  <2>2. rpc' \in [Request -> {"idle", "completed", "ended"}]
    BY <1>1 DEF InferenceCompletes, RequestEnds, IInv, TypeOK
  <2> QED
    BY <1>0, <2>1, <2>2, BeginKeeps
<1>2. ASSUME RequestObserves(r) PROVE IInv'
  <2>1. /\ look[r].at = "got" /\ look' = [look EXCEPT ![r] = NoLookup]
        /\ UNCHANGED <<serverVars, running, cache, writer, cacheGen, pollVars, gaugeVars, forgotten>>
    BY <1>2 DEF RequestObserves, GetDone
  <2>2. rpc' \in [Request -> {"idle", "completed", "ended"}]
    BY <1>2 DEF RequestObserves, IInv, TypeOK
  <2>3. <<look[r].model, look[r].info>> \in Series
    BY <1>0, <2>1 DEF IInv, Locked, Series
  <2>4. tokenGauge' \in SUBSET Series
    BY <1>2, <2>3 DEF RequestObserves, IInv, TypeOK
  <2> QED
    BY <1>0, <2>1, <2>2, <2>4, NoLookupTyped, LookMoves
<1> QED
  BY <1>1, <1>2 DEF RequestNext

\* Pulls, loads, unloads and deletions on the server: a pulled model is of a new
\* generation.
LEMMA ServerKeeps == ASSUME IInv, Server PROVE IInv'
<1>1. PICK m \in Model : \/ \E j \in Info : ServerPulls(m, j)
                         \/ ServerLoads(m) \/ ServerUnloads(m) \/ ServerDeletes(m)
  BY DEF Server
<1>2. UNCHANGED <<cacheVars, pollVars, gaugeVars, tokenGauge, rpc, forgotten>>
  BY <1>1 DEF ServerPulls, ServerLoads, ServerUnloads, ServerDeletes
<1>3. /\ running' \in SUBSET Model
      /\ meta' \in [Model -> Info \cup {Nil}] /\ pulls' \in [Model -> 0..MaxPulls]
      /\ \A n \in Model : /\ pulls'[n] >= pulls[n]
                          /\ meta'[n] # Nil => meta[n] # Nil \/ pulls'[n] > pulls[n]
  <2>0. \A n \in Model : pulls[n] \in 0..MaxPulls /\ MaxPulls \in Nat
    BY Typed DEF IInv
  <2>t. /\ running \in SUBSET Model /\ meta \in [Model -> Info \cup {Nil}]
        /\ pulls \in [Model -> 0..MaxPulls]
    BY DEF IInv, TypeOK, CacheTypeOK
  <2>1. CASE \E j \in Info : ServerPulls(m, j)
    BY <2>0, <2>1, <2>t DEF ServerPulls, Pull
  <2>2. CASE ServerLoads(m) \/ ServerUnloads(m)
    BY <2>0, <2>2, <2>t DEF ServerLoads, ServerUnloads, serverVars
  <2>3. CASE ServerDeletes(m)
    BY <2>0, <2>3, <2>t DEF ServerDeletes
  <2> QED
    BY <1>1, <2>1, <2>2, <2>3
<1>4. TypeOK'
  <2>1. CacheTypeOK'
    BY <1>2, <1>3 DEF IInv, TypeOK, CacheTypeOK, cacheVars
  <2> QED
    BY <1>2, <1>3, <2>1 DEF IInv, TypeOK, pollVars, gaugeVars
<1>5. Locked' /\ Where' /\ FirstScrape' /\ PruneIsFinal'
  BY <1>2 DEF IInv, Locked, Where, FirstScrape, PruneIsFinal, cacheVars, pollVars, gaugeVars
<1>6. Fresh'
  <2>1. \A n \in Model : pulls[n] \in Int /\ pulls'[n] \in Int /\ forgotten[n] \in Int /\ seenPulls[n] \in Int
    BY <1>3, Typed DEF IInv
  <2>2. UNCHANGED <<look, forgotten, ppc, present, seenPulls>>
    BY <1>2 DEF cacheVars, pollVars
  <2>3. ASSUME NEW n \in Model
        PROVE  forgotten[n] <= pulls'[n] /\ (meta'[n] # Nil => forgotten[n] < pulls'[n])
    BY <1>3, <2>1 DEF IInv, Fresh
  <2>4. ASSUME ppc = "prune", NEW n \in Model \ present
        PROVE  seenPulls[n] <= pulls'[n] /\ (meta'[n] # Nil => seenPulls[n] < pulls'[n])
    BY <1>3, <2>1, <2>4 DEF IInv, Fresh
  <2> QED
    BY <2>2, <2>3, <2>4 DEF IInv, Fresh
<1>7. Shown' = Shown
  BY <1>2 DEF Shown, pollVars
<1>8. OneLoadedSeries' /\ LoadsBalance'
  BY <1>2, <1>7, SeriesKept DEF IInv, cacheVars, pollVars, gaugeVars
<1> QED
  BY <1>4, <1>5, <1>6, <1>8 DEF IInv

-----------------------------------------------------------------------------
(* Theorems *)

\* Nothing is shown, cached or forgotten at first.
LEMMA InitIInv == Init => IInv
<1> SUFFICES ASSUME Init PROVE IInv
  OBVIOUS
<1>0. 0 \in 0..MaxPulls /\ -1 \in -1..MaxPulls
  BY ModelCacheAssumption
<1>1. TypeOK
  <2>1. CacheTypeOK
    BY <1>0, NoLookupTyped DEF Init, CacheInit, CacheTypeOK
  <2>2. /\ loadedGauge \in [Series -> {Nil, 0, 1}] /\ loads \in [Series -> Int]
        /\ events \in [Model -> Int] /\ seenPulls \in [Model -> 0..MaxPulls]
        /\ forgotten \in [Model -> -1..MaxPulls]
    BY <1>0 DEF Init
  <2>3. rpc \in [Request -> {"idle", "completed", "ended"}]
    BY DEF Init
  <2> QED
    BY <2>1, <2>2, <2>3 DEF Init, TypeOK
<1>2. \A t \in Thread : look[t].at = "none"
  BY NoLookupTyped DEF Init, CacheInit
<1>3. Locked /\ Where /\ FirstScrape
  BY <1>1, <1>2, Typed DEF Init, Locked, Where, FirstScrape
<1>4. Fresh /\ PruneIsFinal
  BY <1>2, ModelCacheAssumption DEF Init, CacheInit, Fresh, PruneIsFinal
<1>5. Shown = {}
  BY ShownIs DEF Init
<1>6. OneLoadedSeries
  <2>1. \A m \in Model, l \in Label : loadedGauge[<<m, l>>] = Nil
    BY DEF Init, Series
  <2> QED
    BY <1>5, <2>1, PollerAssumption DEF OneLoadedSeries
<1>7. LoadsBalance
  BY <1>5 DEF Init, LoadsBalance, One
<1> QED
  BY <1>1, <1>3, <1>4, <1>6, <1>7 DEF IInv

\* Every step of the poller, a request or the server keeps the invariant.
LEMMA NextIInv == IInv /\ [Next]_vars => IInv'
<1> SUFFICES ASSUME IInv, [Next]_vars PROVE IInv'
  OBVIOUS
<1>1. CASE Scrape
  <2>1. ASSUME ScrapeLooksUp PROVE IInv'
    <3>1. PICK m \in todo : GetBegins(poller, m)
      BY <2>1 DEF ScrapeLooksUp
    <3>2. /\ m \in Model /\ poller \in Thread /\ ppc \in {"running", "vanished"}
          /\ rpc' \in [Request -> {"idle", "completed", "ended"}]
          /\ UNCHANGED <<serverVars, running, pollVars, gaugeVars, tokenGauge, forgotten>>
      BY <2>1, <3>1, Typed DEF ScrapeLooksUp, IInv, TypeOK
    <3> QED
      BY <3>1, <3>2, BeginKeeps
  <2> QED
    BY <1>1, <2>1, ScrapeMoves, RunningModelKeeps, VanishedModelKeeps, PruneKeeps,
       PruneLoadedKeeps, EndKeeps
       DEF Scrape
<1>2. CASE LookupStep
  BY <1>2, LockKeeps, ShowKeeps, StoreKeeps DEF LookupStep, GetStep
<1>3. CASE \E r \in Request : RequestNext(r)
  BY <1>3, RequestKeeps
<1>4. CASE Server
  BY <1>4, ServerKeeps
<1>5. CASE UNCHANGED vars
  <2>1. UNCHANGED <<serverVars, running, cacheVars, pollVars, gaugeVars, tokenGauge, rpc, forgotten>>
    BY <1>5 DEF vars
  <2>2. TypeOK'
    <3>1. CacheTypeOK'
      BY <2>1 DEF IInv, TypeOK, CacheTypeOK, serverVars, cacheVars
    <3> QED
      BY <2>1, <3>1 DEF IInv, TypeOK, pollVars, gaugeVars
  <2>3. Where' /\ FirstScrape' /\ Shown' = Shown
    BY <2>1 DEF IInv, Where, FirstScrape, Shown, cacheVars, pollVars, gaugeVars
  <2>4. ppc' = "prune" => \A m \in Model \ present' :
            seenPulls'[m] <= pulls[m] /\ (meta[m] # Nil => seenPulls'[m] < pulls[m])
    BY <2>1 DEF IInv, Fresh, pollVars
  <2>5. UNCHANGED <<initialized, firstLoaded>>
    BY <2>1 DEF pollVars
  <2> QED
    BY <2>1, <2>2, <2>3, <2>4, <2>5, PollKeeps
<1> QED
  BY <1>1, <1>2, <1>3, <1>4, <1>5 DEF Next

\* The joint invariant of the scrape, the cache and the per-model gauges.
THEOREM PollerInvariant == Spec => []IInv
  BY InitIInv, NextIInv, PTL DEF Spec

\* Types of poller, cache and gauges.
THEOREM PollerTypeCorrect == Spec => []TypeOK
<1>1. IInv => TypeOK
  BY DEF IInv
<1> QED
  BY <1>1, PollerInvariant, PTL

\* A fetch that was in progress when prune ran does not bring back what prune
\* evicted, for any number of models, goroutines and re-pulls.
THEOREM EvictionIsFinal == Spec => []PruneIsFinal
<1>1. IInv => PruneIsFinal
  BY DEF IInv
<1> QED
  BY <1>1, PollerInvariant, PTL

\* scrape leaves at most one ollama_model_loaded series of a model at 1, the one
\* with the cached labels, and none of a model that is not loaded.
THEOREM LoadedSeriesUnique == Spec => []OneLoadedSeries
<1>1. IInv => OneLoadedSeries
  BY DEF IInv
<1> QED
  BY <1>1, PollerInvariant, PTL

\* scrape counts every unload under the labels of its load, and load and unload
\* events in pairs.
THEOREM LoadsAndUnloadsBalance == Spec => []LoadsBalance
<1>1. IInv => LoadsBalance
  BY DEF IInv
<1> QED
  BY <1>1, PollerInvariant, PTL

=============================================================================
