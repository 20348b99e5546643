----------------------- MODULE ParametersCache_proofs -----------------------
(***************************************************************************)
(* Proofs about ParametersCache, for any calls, endpoints, rows and times.  *)
(***************************************************************************)
EXTENDS ParametersCache, TLAPS

\* A stage other than "idle" is that of a lookup under way.
LEMMA StageIsLookup ==
  ASSUME TypeOK, NEW c \in Calls, call[c].at \in Stages
  PROVE  call[c] \in Lookups
<1>1. Idle.at \notin Stages
  BY DEF Idle, Stages
<1> QED
  BY <1>1 DEF TypeOK

LEMMA NoMapIsMap == NoMap \in Maps
  BY DEF NoMap, Maps

LEMMA BlankIsImage == Blank \in Images
  BY NoMapIsMap, TimesAssumption DEF Blank, Images, Sources, Times

LEMMA OutdatedIsImage ==
  ASSUME TypeOK
  PROVE  /\ Outdated \in Images
         /\ Outdated.map = cache.image.map /\ Outdated.source = cache.image.source
         /\ Outdated.rows = cache.image.rows /\ ~Outdated.current
  BY DEF TypeOK, Caches, Images, Outdated

\* The rows a query may file under '*' are rows, or there are none.
LEMMA CandidatesAreRows ==
  ASSUME NEW rows \in SUBSET Rows
  PROVE  /\ OneOf(FirstDeprecated(rows)) \subseteq Rows \cup {NoRow}
         /\ OneOf(LegacyRows(rows)) \subseteq Rows \cup {NoRow}
<1>1. FirstDeprecated(rows) \subseteq Rows /\ LegacyRows(rows) \subseteq Rows
  BY DEF FirstDeprecated, LegacyRows, Deprecated, Own
<1> QED
  BY <1>1 DEF OneOf

LEMMA ServiceMapIsMap ==
  ASSUME NEW rows \in SUBSET Rows, NEW first \in Rows \cup {NoRow}
  PROVE  ServiceMap(rows, first) \in Maps
  BY DEF ServiceMap, Maps

LEMMA LegacyMapIsMap == ASSUME NEW r \in Rows \cup {NoRow} PROVE LegacyMap(r) \in Maps
  BY DEF LegacyMap, Maps

\* What a query has read.
ReadImage(map, source) ==
  [map |-> map, source |-> source, rows |-> table, asOf |-> now, current |-> TRUE]

LEMMA ReadIsImage ==
  ASSUME TypeOK, NEW map \in Maps, NEW source \in Sources
  PROVE  ReadImage(map, source) \in Images
  BY DEF TypeOK, Images, ReadImage

\* A call that moves alone.
LEMMA CallType ==
  ASSUME TypeOK, NEW c \in Calls, NEW x \in Lookups \cup {Idle},
         call' = [call EXCEPT ![c] = x], UNCHANGED <<now, table, cache>>
  PROVE  TypeOK'
  BY DEF TypeOK, Lookups, Images, Idle, Caches, Empty, Blank

\* What each step of one call does: a stage, and what it has read or found.
LEMMA AskStep ==
  ASSUME TypeOK, NEW c \in Calls, Ask(c)
  PROVE  \E x \in Lookups : x.at = "asked" /\ call' = [call EXCEPT ![c] = x]
<1>1. PICK e \in Endpoints :
        call' = [call EXCEPT ![c] = [at |-> "asked", endpoint |-> e, started |-> 0,
                                     image |-> Blank, row |-> NoRow]]
  BY DEF Ask
<1>2. [at |-> "asked", endpoint |-> e, started |-> 0, image |-> Blank, row |-> NoRow]
        \in Lookups
  BY BlankIsImage, TimesAssumption DEF Lookups, Stages, Times
<1> QED
  BY <1>1, <1>2

LEMMA GotoStep ==
  ASSUME TypeOK, NEW c \in Calls, call[c].at \in Stages, NEW stage \in Stages, Goto(c, stage)
  PROVE  \E x \in Lookups :
           /\ x.at = stage /\ x.started = call[c].started
           /\ call' = [call EXCEPT ![c] = x]
<1>1. call[c] \in Lookups
  BY StageIsLookup
<1>2. /\ [call[c] EXCEPT !.at = stage] \in Lookups
      /\ [call[c] EXCEPT !.at = stage].at = stage
      /\ [call[c] EXCEPT !.at = stage].started = call[c].started
  BY <1>1 DEF Lookups
<1>3. call' = [call EXCEPT ![c] = [call[c] EXCEPT !.at = stage]]
  BY DEF Goto
<1> QED
  BY <1>2, <1>3

LEMMA CheckStep ==
  ASSUME TypeOK, NEW c \in Calls, Check(c)
  PROVE  \E x \in Lookups :
           /\ x.at \in {"query", "lookup"}
           /\ x.at = "query" => x.started = now
           /\ x.at = "lookup" => ~NeedsRefresh
           /\ call' = [call EXCEPT ![c] = x]
<1>1. call[c] \in Lookups /\ call[c].at \in Stages
  BY StageIsLookup DEF Check, Stages
<1>2. CASE NeedsRefresh
  <2> DEFINE x == [call[c] EXCEPT !.at = "query", !.started = now]
  <2>1. x \in Lookups /\ x.at = "query" /\ x.started = now
    BY <1>1 DEF Lookups, Stages, TypeOK
  <2>2. call' = [call EXCEPT ![c] = x]
    BY <1>2 DEF Check
  <2> HIDE DEF x
  <2> QED
    BY <2>1, <2>2
<1>3. CASE ~NeedsRefresh
  <2>1. Goto(c, "lookup")
    BY <1>3 DEF Check
  <2> QED
    BY <1>1, <1>3, <2>1, GotoStep DEF Stages
<1> QED
  BY <1>2, <1>3

LEMMA ProceedStep ==
  ASSUME TypeOK, NEW c \in Calls, call[c].at \in Stages, Proceed(c)
  PROVE  \E x \in Lookups : x.at = "lookup" /\ call' = [call EXCEPT ![c] = x]
<1> DEFINE x == [call[c] EXCEPT !.at = "lookup", !.started = 0, !.image = Blank]
<1>1. call[c] \in Lookups /\ Blank \in Images /\ 0 \in Times
  BY StageIsLookup, BlankIsImage, TimesAssumption DEF Times
<1>2. x \in Lookups /\ x.at = "lookup"
  BY <1>1 DEF Lookups, Stages
<1>3. call' = [call EXCEPT ![c] = x]
  BY DEF Proceed
<1> HIDE DEF x
<1> QED
  BY <1>2, <1>3

LEMMA ReadStep ==
  ASSUME TypeOK, NEW c \in Calls, call[c].at \in Stages,
         NEW map \in Maps, NEW source \in Sources, Read(c, map, source)
  PROVE  \E x \in Lookups :
           /\ x.at = "read" /\ x.started = call[c].started /\ x.image = ReadImage(map, source)
           /\ call' = [call EXCEPT ![c] = x]
<1>1. call[c] \in Lookups /\ ReadImage(map, source) \in Images
  BY StageIsLookup, ReadIsImage
<1> DEFINE x == [call[c] EXCEPT !.at = "read", !.image = ReadImage(map, source)]
<1>2. /\ x \in Lookups /\ x.at = "read" /\ x.started = call[c].started
      /\ x.image = ReadImage(map, source)
  BY <1>1 DEF Lookups, Stages
<1>3. call' = [call EXCEPT ![c] = x]
  BY DEF Read, ReadImage
<1> QED
  BY <1>2, <1>3

LEMMA FindIsRow ==
  ASSUME NEW map \in Maps, NEW e \in Endpoints PROVE Find(map, e) \in Rows \cup {NoRow}
  BY DEF Find, Maps, Keys

LEMMA LookupStep ==
  ASSUME TypeOK, NEW c \in Calls, Lookup(c)
  PROVE  \E x \in Lookups :
           /\ x.at = "answered" /\ x.image = cache.image
           /\ x.row = Find(cache.image.map, x.endpoint)
           /\ call' = [call EXCEPT ![c] = x]
<1>1. call[c] \in Lookups /\ cache.image \in Images
  BY StageIsLookup DEF Lookup, Stages, TypeOK, Caches
<1>2. Find(cache.image.map, call[c].endpoint) \in Rows \cup {NoRow}
  BY <1>1, FindIsRow DEF Images, Lookups
<1> DEFINE x == [call[c] EXCEPT !.at = "answered", !.image = cache.image,
                                !.row = Find(cache.image.map, call[c].endpoint)]
<1>3. /\ x \in Lookups /\ x.at = "answered" /\ x.image = cache.image
      /\ x.endpoint = call[c].endpoint
      /\ x.row = Find(cache.image.map, call[c].endpoint)
  BY <1>1, <1>2 DEF Lookups, Stages
<1>4. call' = [call EXCEPT ![c] = x]
  BY DEF Lookup
<1> QED
  BY <1>3, <1>4

-----------------------------------------------------------------------------
\* What comes of a query: the legacy one, or a map.
LEMMA QueryStep ==
  ASSUME TypeOK, NEW c \in Calls, QueryService(c) \/ QueryLegacy(c)
  PROVE  \/ Goto(c, "legacy")
         \/ \E first \in OneOf(FirstDeprecated(table)) :
              Read(c, ServiceMap(table, first), "service")
         \/ \E r \in OneOf(LegacyRows(table)) : Read(c, LegacyMap(r), "legacy")
  BY DEF QueryService, QueryLegacy

LEMMA QueryTypes ==
  ASSUME TypeOK
  PROVE  /\ \A first \in OneOf(FirstDeprecated(table)) : ServiceMap(table, first) \in Maps
         /\ \A r \in OneOf(LegacyRows(table)) : LegacyMap(r) \in Maps
         /\ {"service", "legacy"} \subseteq Sources
<1>1. table \in SUBSET Rows
  BY DEF TypeOK
<1> QED
  BY <1>1, CandidatesAreRows, ServiceMapIsMap, LegacyMapIsMap DEF Sources

LEMMA NextType == TypeOK /\ [Next]_vars => TypeOK'
<1> SUFFICES ASSUME TypeOK, [Next]_vars PROVE TypeOK'
  OBVIOUS
<1>1. CASE Tick
  BY <1>1, TimesAssumption
     DEF Tick, TypeOK, Lookups, Images, Idle, Caches, Empty, Blank, Times
<1>2. CASE Edit
  BY <1>2, RowsAssumption DEF Edit, TypeOK, Lookups, Images, Idle, Caches, Empty, Blank
<1>3. CASE Restart
  <2>1. Empty \in Caches /\ Empty.lastFetch = Never
    BY BlankIsImage DEF Empty, Caches
  <2> QED
    BY <1>3, <2>1 DEF Restart, TypeOK
<1>4. ASSUME NEW c \in Calls, Resolve(c) PROVE TypeOK'
  <2>1. CASE Ask(c)
    BY <2>1, AskStep, CallType DEF Ask
  <2>2. CASE Check(c)
    BY <2>2, CheckStep, CallType DEF Check
  <2>3. CASE QueryService(c) \/ QueryLegacy(c)
    <3>1. call[c].at \in Stages /\ UNCHANGED <<now, table, cache>>
      BY <2>3 DEF QueryService, QueryLegacy, Stages
    <3>2. CASE Goto(c, "legacy")
      BY <3>1, <3>2, GotoStep, CallType DEF Stages
    <3>3. CASE \E map \in Maps, source \in Sources : Read(c, map, source)
      BY <3>1, <3>3, ReadStep, CallType
    <3> QED
      BY <2>3, <3>2, <3>3, QueryStep, QueryTypes
  <2>4. CASE QueryFails(c) \/ FetchFails(c)
    BY <2>4, GotoStep, CallType DEF QueryFails, FetchFails, Stages
  <2>5. CASE Lookup(c)
    BY <2>5, LookupStep, CallType DEF Lookup
  <2>6. CASE Return(c)
    BY <2>6, CallType DEF Return
  <2>7. CASE Store(c) \/ StoreFailure(c)
    <3>1. call[c].at \in Stages /\ Proceed(c) /\ UNCHANGED <<now, table>>
      BY <2>7 DEF Store, StoreFailure, Stages
    <3>2. PICK x \in Lookups : call' = [call EXCEPT ![c] = x]
      BY <3>1, ProceedStep
    <3>3. call' \in [Calls -> Lookups \cup {Idle}]
      BY <3>2 DEF TypeOK
    <3>4. call[c].image \in Images /\ call[c].started \in Times
      BY <3>1, StageIsLookup DEF Lookups
    <3>5. cache' \in Caches /\ cache'.lastFetch # Never
      BY <2>7, <3>4, OutdatedIsImage DEF Store, StoreFailure, Caches, Times, Never
    <3> QED
      BY <3>1, <3>3, <3>5 DEF TypeOK, Lookups, Images, Idle, Caches, Empty, Blank
  <2> QED
    BY <1>4, <2>1, <2>2, <2>3, <2>4, <2>5, <2>6, <2>7 DEF Resolve
<1>5. CASE UNCHANGED vars
  BY <1>5 DEF vars, TypeOK, Lookups, Images, Idle, Caches, Empty, Blank
<1> QED
  BY <1>1, <1>2, <1>3, <1>4, <1>5 DEF Next

LEMMA InitType == Init => TypeOK
<1>1. Empty \in Caches /\ 0 \in Times /\ Tables \subseteq SUBSET Rows
  BY BlankIsImage, TimesAssumption, RowsAssumption DEF Empty, Caches, Times
<1> QED
  BY <1>1 DEF Init, TypeOK

\* The clock, the table, the cached map and every lookup keep their types.
THEOREM TypeCorrect == Spec => []TypeOK
  BY InitType, NextType, PTL DEF Spec

-----------------------------------------------------------------------------
\* The map in the cache is no older than the time it counts as fetched, one that
\* was read no older than its fetch, and no fetch is older than its timeout.
Recent(image) == image.current => now - image.asOf <= Staleness

CacheInTime == cache.image.current => cache.lastFetch <= cache.image.asOf
CallInTime(c) ==
  /\ call[c].at \in Busy => call[c].started <= now /\ now <= call[c].started + FetchTimeout
  /\ call[c].at = "read" => call[c].started <= call[c].image.asOf
  /\ call[c].at = "lookup" => Recent(cache.image)
  /\ call[c].at = "answered" => Recent(call[c].image)
TimeInv == CacheInTime /\ \A c \in Calls : CallInTime(c)

LEMMA StalenessIsEnough ==
  Staleness \in Nat /\ Ttl <= Staleness /\ FetchTimeout <= Staleness
  BY TimesAssumption DEF Staleness

\* One call moves alone, to a place that is in time.
LEMMA CallMovesInTime ==
  ASSUME TimeInv, TypeOK, NEW c \in Calls, NEW x \in Lookups \cup {Idle},
         call' = [call EXCEPT ![c] = x], UNCHANGED <<now, cache>>,
         x.at \in Busy => x.started <= now /\ now <= x.started + FetchTimeout,
         x.at = "read" => x.started <= x.image.asOf,
         x.at = "lookup" => Recent(cache.image),
         x.at = "answered" => Recent(x.image)
  PROVE  TimeInv'
<1>1. call'[c] = x /\ \A d \in Calls \ {c} : call'[d] = call[d]
  BY DEF TypeOK
<1>2. CallInTime(c)'
  BY <1>1 DEF CallInTime, Recent
<1>3. ASSUME NEW d \in Calls, d # c PROVE CallInTime(d)'
  BY <1>1, <1>3 DEF TimeInv, CallInTime, Recent
<1> QED
  BY <1>2, <1>3 DEF TimeInv, CacheInTime

\* A cache that is replaced by a recent image, or by one that is not current.
LEMMA CacheMovesInTime ==
  ASSUME TimeInv, TypeOK, NEW c \in Calls, NEW x \in Lookups, x.at = "lookup",
         call' = [call EXCEPT ![c] = x], now' = now,
         CacheInTime', Recent(cache.image)'
  PROVE  TimeInv'
<1>1. call'[c] = x /\ \A d \in Calls \ {c} : call'[d] = call[d]
  BY DEF TypeOK
<1>2. CallInTime(c)'
  BY <1>1 DEF CallInTime, Busy
<1>3. ASSUME NEW d \in Calls, d # c PROVE CallInTime(d)'
  BY <1>1, <1>3 DEF TimeInv, CallInTime, Recent
<1> QED
  BY <1>2, <1>3 DEF TimeInv

LEMMA NextTime == TypeOK /\ TimeInv /\ [Next]_vars => TimeInv'
<1> SUFFICES ASSUME TypeOK, TimeInv, [Next]_vars PROVE TimeInv'
  OBVIOUS
<1> USE StalenessIsEnough
<1>1. CASE Tick
  <2>1. /\ now' = now + 1 /\ UNCHANGED <<cache, call>> /\ now \in Int
        /\ \A c \in Calls : /\ call[c].at \notin {"lookup", "answered"}
                            /\ call[c].at \in Busy => now < call[c].started + FetchTimeout
    BY <1>1 DEF Tick, TypeOK, Times
  <2>2. ASSUME NEW c \in Calls, call[c].at \in Busy PROVE call[c].started \in Int
    BY <2>2, StageIsLookup DEF Busy, Stages, Lookups, Times
  <2>3. ASSUME NEW c \in Calls PROVE CallInTime(c)'
    BY <2>1, <2>2, TimesAssumption DEF TimeInv, CallInTime
  <2> QED
    BY <2>1, <2>3 DEF TimeInv, CacheInTime
<1>2. CASE UNCHANGED <<now, cache, call>>
  BY <1>2 DEF TimeInv, CacheInTime, CallInTime, Recent
<1>3. CASE Restart
  <2>1. call' = [c \in Calls |-> Idle] /\ cache' = Empty
    BY <1>3 DEF Restart
  <2>2. Idle.at \notin Busy \cup {"lookup", "answered"} /\ ~Empty.image.current
    BY DEF Idle, Busy, Empty, Blank
  <2> QED
    BY <2>1, <2>2 DEF TimeInv, CacheInTime, CallInTime, Busy
<1>4. ASSUME NEW c \in Calls, Resolve(c) PROVE TimeInv'
  <2>0. /\ now \in Int /\ cache.image.asOf \in Int /\ cache.lastFetch \in Int
        /\ call[c].at \in Busy => call[c].started \in Int
    BY StageIsLookup DEF TypeOK, Caches, Images, Times, Never, Lookups, Busy, Stages
  <2>1. CASE Ask(c)
    BY <2>1, AskStep, CallMovesInTime DEF Ask, Busy
  <2>2. CASE Check(c)
    <3>1. PICK x \in Lookups : /\ x.at \in {"query", "lookup"}
                               /\ x.at = "query" => x.started = now
                               /\ x.at = "lookup" => ~NeedsRefresh
                               /\ call' = [call EXCEPT ![c] = x]
      BY <2>2, CheckStep
    <3>2. ~NeedsRefresh => Recent(cache.image)
      BY <2>0, TimesAssumption DEF NeedsRefresh, Recent, TimeInv, CacheInTime
    <3>3. x.at \in Busy => x.started <= now /\ now <= x.started + FetchTimeout
      BY <2>0, <3>1, TimesAssumption DEF Busy
    <3> QED
      BY <2>2, <3>1, <3>2, <3>3, CallMovesInTime DEF Check
  <2>3. ASSUME NEW stage \in {"legacy", "failed"}, Goto(c, stage), call[c].at \in Busy,
               UNCHANGED <<now, table, cache>>
        PROVE  TimeInv'
    <3>1. PICK x \in Lookups : /\ x.at = stage /\ x.started = call[c].started
                               /\ call' = [call EXCEPT ![c] = x]
      BY <2>3, GotoStep DEF Busy, Stages
    <3> QED
      BY <2>3, <3>1, CallMovesInTime DEF TimeInv, CallInTime
  <2>4. ASSUME NEW map \in Maps, NEW source \in Sources, Read(c, map, source),
               call[c].at \in Busy, UNCHANGED <<now, table, cache>>
        PROVE  TimeInv'
    <3>1. PICK x \in Lookups :
            /\ x.at = "read" /\ x.started = call[c].started /\ x.image = ReadImage(map, source)
            /\ call' = [call EXCEPT ![c] = x]
      BY <2>4, ReadStep DEF Busy, Stages
    <3>2. x.image.asOf = now
      BY <3>1 DEF ReadImage
    <3> QED
      BY <2>4, <3>1, <3>2, CallMovesInTime DEF TimeInv, CallInTime
  <2>5. CASE QueryService(c) \/ QueryLegacy(c)
    <3>1. call[c].at \in Busy /\ UNCHANGED <<now, table, cache>>
      BY <2>5 DEF QueryService, QueryLegacy, Busy
    <3> QED
      BY <2>3, <2>4, <2>5, <3>1, QueryStep, QueryTypes
  <2>6. CASE QueryFails(c) \/ FetchFails(c)
    BY <2>3, <2>6 DEF QueryFails, FetchFails, Busy
  <2>7. CASE Lookup(c)
    <3>1. PICK x \in Lookups : /\ x.at = "answered" /\ x.image = cache.image
                               /\ call' = [call EXCEPT ![c] = x]
      BY <2>7, LookupStep
    <3> QED
      BY <2>7, <3>1, CallMovesInTime DEF Lookup, TimeInv, CallInTime, Busy
  <2>8. CASE Return(c)
    <3>1. Idle.at \notin Busy \cup {"read", "lookup", "answered"}
      BY DEF Idle, Busy
    <3> QED
      BY <2>8, <3>1, CallMovesInTime DEF Return
  <2>9. CASE Store(c) \/ StoreFailure(c)
    <3>1. call[c].at \in Stages /\ call[c].at \in Busy /\ Proceed(c) /\ now' = now
      BY <2>9 DEF Store, StoreFailure, Stages, Busy
    <3>2. PICK x \in Lookups : x.at = "lookup" /\ call' = [call EXCEPT ![c] = x]
      BY <3>1, ProceedStep
    <3>3. CASE Store(c)
      <4>1. /\ cache'.image = call[c].image /\ cache'.lastFetch = call[c].started
            /\ call[c].started <= call[c].image.asOf /\ now <= call[c].started + FetchTimeout
        BY <3>1, <3>3 DEF Store, TimeInv, CallInTime
      <4>2. call[c].image.asOf \in Int
        BY <3>1, StageIsLookup DEF Lookups, Images, Times
      <4>3. CacheInTime'
        BY <4>1 DEF CacheInTime
      <4>4. Recent(cache.image)'
        BY <2>0, <3>1, <4>1, <4>2, TimesAssumption DEF Recent
      <4> QED
        BY <3>1, <3>2, <4>3, <4>4, CacheMovesInTime
    <3>4. CASE StoreFailure(c)
      <4>1. ~cache'.image.current
        BY <3>4, OutdatedIsImage DEF StoreFailure
      <4>2. CacheInTime' /\ Recent(cache.image)'
        BY <4>1 DEF CacheInTime, Recent
      <4> QED
        BY <3>1, <3>2, <4>2, CacheMovesInTime
    <3> QED
      BY <2>9, <3>3, <3>4
  <2> QED
    BY <1>4, <2>1, <2>2, <2>5, <2>6, <2>7, <2>8, <2>9 DEF Resolve
<1> QED
  BY <1>1, <1>2, <1>3, <1>4 DEF Next, Edit, vars

LEMMA InitTime == Init => TimeInv
<1>1. Idle.at \notin Busy \cup {"lookup", "answered", "read"} /\ ~Empty.image.current
  BY DEF Idle, Busy, Empty, Blank
<1> QED
  BY <1>1 DEF Init, TimeInv, CacheInTime, CallInTime

\* A lookup after a refresh that succeeded sees the table as it was at most the time
\* to live, or the time of a fetch, ago, however many refreshes overlap.
THEOREM LookupsAreRecent == Spec => []LookupIsRecent
<1>1. TypeOK /\ TimeInv => LookupIsRecent
  BY DEF TimeInv, CallInTime, Recent, LookupIsRecent, Answered
<1> QED
  BY TypeCorrect, InitTime, NextTime, <1>1, PTL DEF Spec

-----------------------------------------------------------------------------
\* A call that is past its check found an attempt that is recent, or made one.
Attempted == cache.lastFetch # Never /\ now - cache.lastFetch <= Staleness
AttemptInv == \A c \in Calls : call[c].at \in {"lookup", "answered"} => Attempted

\* A call that begins nothing of that kind, and leaves the cache alone.
LEMMA OthersAttempted ==
  ASSUME AttemptInv, TypeOK, NEW c \in Calls, NEW x \in Lookups \cup {Idle},
         call' = [call EXCEPT ![c] = x], UNCHANGED <<now, cache>>,
         x.at \in {"lookup", "answered"} => Attempted
  PROVE  AttemptInv'
<1>1. call'[c] = x /\ \A d \in Calls \ {c} : call'[d] = call[d]
  BY DEF TypeOK
<1> QED
  BY <1>1 DEF AttemptInv, Attempted

LEMMA NextAttempt == TypeOK /\ TimeInv /\ AttemptInv /\ [Next]_vars => AttemptInv'
<1> SUFFICES ASSUME TypeOK, TimeInv, AttemptInv, [Next]_vars PROVE AttemptInv'
  OBVIOUS
<1> USE StalenessIsEnough
<1>1. CASE Tick
  BY <1>1 DEF Tick, AttemptInv
<1>2. CASE UNCHANGED <<now, cache, call>>
  BY <1>2 DEF AttemptInv, Attempted
<1>3. CASE Restart
  BY <1>3 DEF Restart, AttemptInv, Idle
<1>4. ASSUME NEW c \in Calls, Resolve(c) PROVE AttemptInv'
  <2>0. now \in Int /\ cache.lastFetch \in Int
    BY DEF TypeOK, Caches, Times, Never
  <2>1. CASE Ask(c)
    BY <2>1, AskStep, OthersAttempted DEF Ask
  <2>2. CASE Check(c)
    <3>1. ~NeedsRefresh => Attempted
      BY <2>0, TimesAssumption DEF NeedsRefresh, Attempted
    <3> QED
      BY <2>2, <3>1, CheckStep, OthersAttempted DEF Check
  <2>3. CASE QueryService(c) \/ QueryLegacy(c) \/ QueryFails(c) \/ FetchFails(c)
    <3>1. UNCHANGED <<now, cache>> /\ call[c].at \in Stages
      BY <2>3 DEF QueryService, QueryLegacy, QueryFails, FetchFails, Stages
    <3>2. \/ \E stage \in {"legacy", "failed"} : Goto(c, stage)
          \/ \E map \in Maps, source \in Sources : Read(c, map, source)
      BY <2>3, QueryStep, QueryTypes DEF QueryFails, FetchFails
    <3>3. \E x \in Lookups : /\ x.at \in {"legacy", "failed", "read"}
                             /\ call' = [call EXCEPT ![c] = x]
      BY <3>1, <3>2, GotoStep, ReadStep DEF Stages
    <3> QED
      BY <3>1, <3>3, OthersAttempted
  <2>4. CASE Lookup(c)
    <3>1. call[c].at = "lookup" /\ UNCHANGED <<now, cache>>
      BY <2>4 DEF Lookup
    <3> QED
      BY <2>4, <3>1, LookupStep, OthersAttempted DEF AttemptInv
  <2>5. CASE Return(c)
    BY <2>5, OthersAttempted DEF Return, Idle
  <2>6. CASE Store(c) \/ StoreFailure(c)
    <3>1. call[c].at \in Stages /\ call[c].at \in Busy /\ now' = now
      BY <2>6 DEF Store, StoreFailure, Stages, Busy
    <3>2. cache'.lastFetch = call[c].started
      BY <2>6 DEF Store, StoreFailure
    <3>3. call[c].started \in Times /\ now <= call[c].started + FetchTimeout
      BY <3>1, StageIsLookup DEF Lookups, TimeInv, CallInTime
    <3>4. Attempted'
      BY <2>0, <3>1, <3>2, <3>3, TimesAssumption DEF Attempted, Times, Never
    <3> QED
      BY <3>4 DEF AttemptInv
  <2> QED
    BY <1>4, <2>1, <2>2, <2>3, <2>4, <2>5, <2>6 DEF Resolve
<1> QED
  BY <1>1, <1>2, <1>3, <1>4 DEF Next, Edit, vars

LEMMA InitAttempt == Init => AttemptInv
  BY DEF Init, AttemptInv, Idle

\* What a failed refresh leaves, the environment's price included, lasts no longer than
\* the time to live, or the time of a fetch.
THEOREM AttemptsAreRecent == Spec => []AttemptIsRecent
<1>1. AttemptInv => AttemptIsRecent
  BY DEF AttemptInv, Attempted, AttemptIsRecent, Answered
<1> QED
  BY TypeCorrect, InitTime, NextTime, InitAttempt, NextAttempt, <1>1, PTL DEF Spec

-----------------------------------------------------------------------------
\* A map is that of the rows it was read from, also after a failure.
Faithful(image) ==
  /\ image.source = "service" => \E first \in OneOf(FirstDeprecated(image.rows)) :
                                   image.map = ServiceMap(image.rows, first)
  /\ image.source = "legacy"  => \E r \in OneOf(LegacyRows(image.rows)) :
                                   image.map = LegacyMap(r)
  /\ image.source = "nothing" => image.map = NoMap

Found(x) ==
  /\ x.image.source = "service" => x.row \in OneOf(Preferred(x.image.rows, x.endpoint))
  /\ x.image.source = "legacy"  => x.row \in OneOf(x.image.rows)
  /\ x.image.source = "nothing" => x.row = NoRow

SourceInv ==
  /\ Faithful(cache.image)
  /\ \A c \in Calls : /\ call[c].at = "read" => Faithful(call[c].image)
                      /\ call[c].at = "answered" => Found(call[c])

\* The order of lookup_cached finds the row of the endpoint, or else that for '*', or
\* else one with the deprecated name, in whatever order the rows came.
LEMMA FindIsPreferred ==
  ASSUME NEW rows \in SUBSET Rows, NEW e \in Endpoints,
         NEW first \in OneOf(FirstDeprecated(rows))
  PROVE  Find(ServiceMap(rows, first), e) \in OneOf(Preferred(rows, e))
<1> DEFINE mine(k) == [own |-> TRUE, endpoint |-> k, deprecated |-> FALSE]
<1>1. e \in Keys /\ Everywhere \in Keys /\ e # Everywhere
  BY RowsAssumption DEF Keys
<1>2. /\ ServiceMap(rows, first)[e] = IF mine(e) \in rows THEN mine(e) ELSE NoRow
      /\ ServiceMap(rows, first)[Everywhere] =
           IF mine(Everywhere) \in rows THEN mine(Everywhere) ELSE first
  BY <1>1 DEF ServiceMap
<1>3. ASSUME NEW k \in Keys PROVE Named(rows, k) = {mine(k)} \cap rows
  <2>1. ASSUME NEW r \in rows, r.own, r.endpoint = k, ~r.deprecated PROVE r = mine(k)
    BY <2>1, RowsAssumption
  <2> QED
    BY <2>1 DEF Named, Own
<1>4. \A k \in Keys : mine(k) \in rows => mine(k) # NoRow
  BY RowsAssumption
<1>5. first \in OneOf(Deprecated(rows))
  BY DEF OneOf, FirstDeprecated
<1> HIDE DEF mine
<1>6. CASE mine(e) \in rows
  <2>1. Find(ServiceMap(rows, first), e) = mine(e)
    BY <1>1, <1>2, <1>4, <1>6 DEF Find
  <2>2. Preferred(rows, e) = {mine(e)}
    BY <1>1, <1>3, <1>6 DEF Preferred
  <2> QED
    BY <2>1, <2>2 DEF OneOf
<1>7. CASE mine(e) \notin rows /\ mine(Everywhere) \in rows
  <2>1. Find(ServiceMap(rows, first), e) = mine(Everywhere)
    BY <1>2, <1>7 DEF Find
  <2>2. Named(rows, e) = {} /\ Named(rows, Everywhere) = {mine(Everywhere)}
    BY <1>1, <1>3, <1>7
  <2>3. Preferred(rows, e) = {mine(Everywhere)}
    BY <2>2 DEF Preferred
  <2> QED
    BY <2>1, <2>3 DEF OneOf
<1>8. CASE mine(e) \notin rows /\ mine(Everywhere) \notin rows
  <2>1. Find(ServiceMap(rows, first), e) = first
    BY <1>2, <1>8 DEF Find
  <2>2. Named(rows, e) = {} /\ Named(rows, Everywhere) = {}
    BY <1>1, <1>3, <1>8
  <2>3. Preferred(rows, e) = Deprecated(rows)
    BY <2>2 DEF Preferred
  <2> QED
    BY <1>5, <2>1, <2>3
<1> QED
  BY <1>6, <1>7, <1>8

\* What is looked up in a faithful map was found in the table.
LEMMA FaithfulFinds ==
  ASSUME NEW x \in Lookups, Faithful(x.image), x.row = Find(x.image.map, x.endpoint)
  PROVE  Found(x)
<1>1. x.image.rows \in SUBSET Rows /\ x.endpoint \in Endpoints /\ x.endpoint # Everywhere
  BY RowsAssumption DEF Lookups, Images
<1>2. x.endpoint \in Keys /\ Everywhere \in Keys
  BY <1>1 DEF Keys
<1>3. Find(NoMap, x.endpoint) = NoRow
  BY <1>2 DEF Find, NoMap
<1>4. \A r : Find(LegacyMap(r), x.endpoint) = r
  BY <1>1, <1>2 DEF Find, LegacyMap
<1>a. OneOf(LegacyRows(x.image.rows)) \subseteq OneOf(x.image.rows)
  BY DEF OneOf, LegacyRows
<1>5. CASE x.image.source = "service"
  BY <1>1, <1>5, FindIsPreferred DEF Faithful, Found
<1>6. CASE x.image.source = "legacy"
  BY <1>4, <1>6, <1>a DEF Faithful, Found
<1>7. CASE x.image.source = "nothing"
  BY <1>3, <1>7 DEF Faithful, Found
<1> QED
  BY <1>5, <1>6, <1>7 DEF Found

\* One call moves to a place that is faithful, and the cache stays or becomes so.
LEMMA CallMovesFaithfully ==
  ASSUME SourceInv, TypeOK, NEW c \in Calls, NEW x \in Lookups \cup {Idle},
         call' = [call EXCEPT ![c] = x], Faithful(cache'.image),
         x.at = "read" => Faithful(x.image),
         x.at = "answered" => Found(x)
  PROVE  SourceInv'
<1>1. call'[c] = x /\ \A d \in Calls \ {c} : call'[d] = call[d]
  BY DEF TypeOK
<1>2. Faithful(cache.image)'
  BY DEF Faithful
<1>3. ASSUME NEW d \in Calls
      PROVE  (call[d].at = "read" => Faithful(call[d].image))'
  <2>1. CASE d = c
    BY <1>1, <2>1 DEF Faithful
  <2>2. CASE d # c
    BY <1>1, <2>2 DEF SourceInv, Faithful
  <2> QED
    BY <2>1, <2>2
<1>4. ASSUME NEW d \in Calls
      PROVE  (call[d].at = "answered" => Found(call[d]))'
  <2>1. CASE d = c
    BY <1>1, <2>1 DEF Found
  <2>2. CASE d # c
    BY <1>1, <2>2 DEF SourceInv, Found
  <2> QED
    BY <2>1, <2>2
<1> QED
  BY <1>2, <1>3, <1>4 DEF SourceInv

LEMMA NextSource == TypeOK /\ SourceInv /\ [Next]_vars => SourceInv'
<1> SUFFICES ASSUME TypeOK, SourceInv, [Next]_vars PROVE SourceInv'
  OBVIOUS
<1>1. CASE UNCHANGED <<cache, call>>
  BY <1>1 DEF SourceInv, Faithful, Found
<1>2. CASE Restart
  <2>1. call' = [c \in Calls |-> Idle] /\ cache' = Empty
    BY <1>2 DEF Restart
  <2>2. Idle.at \notin {"read", "answered"} /\ Faithful(Empty.image)
    BY DEF Idle, Empty, Blank, Faithful
  <2> QED
    BY <2>1, <2>2 DEF SourceInv, Faithful
<1>3. ASSUME NEW c \in Calls, Resolve(c) PROVE SourceInv'
  <2>0. Faithful(cache.image)
    BY DEF SourceInv
  <2>1. CASE Ask(c)
    BY <2>0, <2>1, AskStep, CallMovesFaithfully DEF Ask
  <2>2. CASE Check(c)
    BY <2>0, <2>2, CheckStep, CallMovesFaithfully DEF Check
  <2>3. ASSUME NEW stage \in {"legacy", "failed"}, Goto(c, stage), call[c].at \in Busy,
               UNCHANGED <<now, table, cache>>
        PROVE  SourceInv'
    <3>1. PICK x \in Lookups : x.at = stage /\ call' = [call EXCEPT ![c] = x]
      BY <2>3, GotoStep DEF Busy, Stages
    <3> QED
      BY <2>0, <2>3, <3>1, CallMovesFaithfully
  <2>4. ASSUME NEW map \in Maps, NEW source \in Sources, Read(c, map, source),
               Faithful(ReadImage(map, source)),
               call[c].at \in Busy, UNCHANGED <<now, table, cache>>
        PROVE  SourceInv'
    <3>1. PICK x \in Lookups : /\ x.at = "read" /\ x.image = ReadImage(map, source)
                               /\ call' = [call EXCEPT ![c] = x]
      BY <2>4, ReadStep DEF Busy, Stages
    <3> QED
      BY <2>0, <2>4, <3>1, CallMovesFaithfully
  <2>5. CASE QueryService(c) \/ QueryLegacy(c)
    <3>2. call[c].at \in Busy /\ UNCHANGED <<now, table, cache>>
      BY <2>5 DEF QueryService, QueryLegacy, Busy
    <3>3. /\ \A first \in OneOf(FirstDeprecated(table)) :
               Faithful(ReadImage(ServiceMap(table, first), "service"))
          /\ \A r \in OneOf(LegacyRows(table)) : Faithful(ReadImage(LegacyMap(r), "legacy"))
      BY DEF Faithful, ReadImage
    <3> QED
      BY <2>3, <2>4, <2>5, <3>2, <3>3, QueryStep, QueryTypes
  <2>6. CASE QueryFails(c) \/ FetchFails(c)
    BY <2>3, <2>6 DEF QueryFails, FetchFails, Busy
  <2>7. CASE Lookup(c)
    <3>1. PICK x \in Lookups : /\ x.at = "answered" /\ x.image = cache.image
                               /\ x.row = Find(cache.image.map, x.endpoint)
                               /\ call' = [call EXCEPT ![c] = x]
      BY <2>7, LookupStep
    <3>2. Found(x)
      BY <2>0, <3>1, FaithfulFinds
    <3> QED
      BY <2>0, <2>7, <3>1, <3>2, CallMovesFaithfully DEF Lookup
  <2>8. CASE Return(c)
    <3>1. Idle.at \notin {"read", "answered"}
      BY DEF Idle
    <3> QED
      BY <2>0, <2>8, <3>1, CallMovesFaithfully DEF Return
  <2>9. CASE Store(c) \/ StoreFailure(c)
    <3>1. call[c].at \in Stages /\ Proceed(c)
      BY <2>9 DEF Store, StoreFailure, Stages
    <3>2. PICK x \in Lookups : x.at = "lookup" /\ call' = [call EXCEPT ![c] = x]
      BY <3>1, ProceedStep
    <3>3. CASE Store(c)
      <4>1. cache'.image = call[c].image /\ Faithful(call[c].image)
        BY <3>3 DEF Store, SourceInv
      <4> QED
        BY <3>2, <4>1, CallMovesFaithfully
    <3>4. CASE StoreFailure(c)
      <4>1. cache'.image = Outdated
        BY <3>4 DEF StoreFailure
      <4>2. Faithful(Outdated)
        BY <2>0, OutdatedIsImage DEF Faithful
      <4> QED
        BY <3>2, <4>1, <4>2, CallMovesFaithfully
    <3> QED
      BY <2>9, <3>3, <3>4
  <2> QED
    BY <1>3, <2>1, <2>2, <2>5, <2>6, <2>7, <2>8, <2>9 DEF Resolve
<1> QED
  BY <1>1, <1>2, <1>3 DEF Next, Tick, Edit, vars

LEMMA InitSource == Init => SourceInv
<1>1. Idle.at \notin {"read", "answered"} /\ Faithful(Empty.image)
  BY DEF Idle, Empty, Blank, Faithful
<1> QED
  BY <1>1 DEF Init, SourceInv, Faithful

\* A lookup finds what the table had when it was last read, whatever has failed since.
THEOREM LookupsAreOfTheTable == Spec => []LookupIsOfTheTable
<1>1. SourceInv => LookupIsOfTheTable
  BY DEF SourceInv, Found, LookupIsOfTheTable, Answered
<1> QED
  BY TypeCorrect, InitSource, NextSource, <1>1, PTL DEF Spec
=============================================================================
