-------------------------- MODULE ParametersCache --------------------------
(***************************************************************************)
(* The price list of one instance of the service: parameters.rs keeps the   *)
(* table `parameters` of the database in memory for a time, and every       *)
(* lookup refreshes it first if that time is over.  The table is shared     *)
(* with other services.  One parameter, X402_ACCEPTS_JSON, stands for all,  *)
(* under its name or the deprecated one with the prefix SOLRISK_.           *)
(***************************************************************************)
EXTENDS Integers

CONSTANTS
  Calls,          \* invocations of the instance that overlap
  Endpoints,      \* what is sold: each has a price of its own
  Everywhere,     \* the endpoint '*'
  Rows,           \* the rows that operators may put into the table
  Tables,         \* what the table may hold at one time
  NoRow,
  Ttl,            \* SOLRISK_PARAMETERS_CACHE_TTL_SEC
  FetchTimeout,   \* what the timeouts of db.rs leave a fetch, both queries together
  MaxTime         \* bound on the clock

Keys == Endpoints \cup {Everywhere}

ASSUME RowsAssumption ==
  /\ Everywhere \notin Endpoints
  /\ Rows \subseteq [own : BOOLEAN, endpoint : Keys, deprecated : BOOLEAN]
  /\ NoRow \notin Rows
  /\ Tables \subseteq SUBSET Rows
ASSUME TimesAssumption == Ttl \in Nat /\ FetchTimeout \in Nat /\ MaxTime \in Nat

VARIABLES
  now,     \* the monotonic clock of the instance
  table,   \* the rows in force
  cache,   \* PARAMETERS: the map and the time of the last fetch
  call     \* the lookup of each call

vars == <<now, table, cache, call>>

Never == -1
Times == 0 .. MaxTime

\* A map as it was read, with what it was read from: `rows` at time `asOf`, by the
\* query for the service or by the one that knows no services.  It is `current` until
\* a refresh fails.
Maps    == [Keys -> Rows \cup {NoRow}]
Sources == {"nothing", "service", "legacy"}
Images  == [map : Maps, source : Sources, rows : SUBSET Rows, asOf : Times,
            current : BOOLEAN]

NoMap == [k \in Keys |-> NoRow]
Blank == [map |-> NoMap, source |-> "nothing", rows |-> {}, asOf |-> 0, current |-> FALSE]

Caches == [image : Images, lastFetch : Times \cup {Never}]
Empty  == [image |-> Blank, lastFetch |-> Never]

Stages == {"asked", "query", "legacy", "read", "failed", "lookup", "answered"}
Lookups == [at : Stages, endpoint : Endpoints, started : Times,
            image : Images, row : Rows \cup {NoRow}]
Idle == [at |-> "idle"]
Busy == {"query", "legacy", "read", "failed"}

TypeOK ==
  /\ now \in Times
  /\ table \subseteq Rows
  /\ cache \in Caches
  /\ cache.lastFetch = Never => cache = Empty
  /\ call \in [Calls -> Lookups \cup {Idle}]

Init ==
  /\ now = 0
  /\ table \in Tables
  /\ cache = Empty
  /\ call = [c \in Calls |-> Idle]

\* No fetch outlives its timeouts, and no time is spent between two awaits.
Tick ==
  /\ now < MaxTime
  /\ \A c \in Calls :
       /\ call[c].at \notin {"lookup", "answered"}
       /\ call[c].at \in Busy => now < call[c].started + FetchTimeout
  /\ now' = now + 1
  /\ UNCHANGED <<table, cache, call>>

\* Rows are inserted, deleted, made inactive or active, become effective or expire.
Edit ==
  /\ table' \in Tables \ {table}
  /\ UNCHANGED <<now, cache, call>>

-----------------------------------------------------------------------------
OneOf(rows) == IF rows = {} THEN {NoRow} ELSE rows

Own(rows) == {r \in rows : r.own}
Named(rows, endpoint) == {r \in Own(rows) : r.endpoint = endpoint /\ ~r.deprecated}
Deprecated(rows) == {r \in Own(rows) : r.deprecated}

\* The rows of the service come by endpoint, '*' before all others, which come as the
\* collation of the database has them.
FirstDeprecated(rows) ==
  LET everywhere == {r \in Deprecated(rows) : r.endpoint = Everywhere}
  IN  IF everywhere # {} THEN everywhere ELSE Deprecated(rows)

\* The map of the rows of the service, each under its endpoint.  One with the
\* deprecated name is filed, whatever its endpoint, as the row of '*', where it gives
\* way to whatever is or comes there; what else the code files under the prefixed name
\* or under no endpoint is only looked up after that, and so never found.
ServiceMap(rows, first) ==
  [k \in Keys |->
     LET mine == [own |-> TRUE, endpoint |-> k, deprecated |-> FALSE]
     IN  IF mine \in rows THEN mine ELSE IF k = Everywhere THEN first ELSE NoRow]

\* The legacy query brings the rows of all services, all as rows of '*', the deprecated
\* name first: of the others the last one stays, and rows of one name come in any order.
LegacyRows(rows) ==
  LET named == {r \in rows : ~r.deprecated} IN IF named # {} THEN named ELSE rows
LegacyMap(r) == [k \in Keys |-> IF k = Everywhere THEN r ELSE NoRow]

\* Mutant: '*' would be looked up before the endpoint.
FindEverywhereFirst(map, endpoint) ==
  IF map[Everywhere] # NoRow THEN map[Everywhere] ELSE map[endpoint]
Find(map, endpoint) == IF map[endpoint] # NoRow THEN map[endpoint] ELSE map[Everywhere]

\* Mutant: an instance would ask the table once and for all.
RefreshOnce == cache.lastFetch = Never
NeedsRefresh == cache.lastFetch = Never \/ now - cache.lastFetch > Ttl

Goto(c, stage) == call' = [call EXCEPT ![c].at = stage]

Ask(c) ==
  /\ call[c] = Idle
  /\ \E e \in Endpoints :
       call' = [call EXCEPT ![c] = [at |-> "asked", endpoint |-> e, started |-> 0,
                                    image |-> Blank, row |-> NoRow]]
  /\ UNCHANGED <<now, table, cache>>

\* refresh_parameters_from_db up to the query: the clock is read before it.
Check(c) ==
  /\ call[c].at = "asked"
  /\ IF NeedsRefresh
     THEN call' = [call EXCEPT ![c].at = "query", ![c].started = now]
     ELSE Goto(c, "lookup")
  /\ UNCHANGED <<now, table, cache>>

Read(c, map, source) ==
  call' = [call EXCEPT ![c].at = "read",
             ![c].image = [map |-> map, source |-> source, rows |-> table, asOf |-> now,
                           current |-> TRUE]]

\* The query for the rows of the service.
QueryService(c) ==
  /\ call[c].at = "query"
  /\ IF Own(table) # {}
     THEN \E first \in OneOf(FirstDeprecated(table)) :
            Read(c, ServiceMap(table, first), "service")
     ELSE Goto(c, "legacy")
  /\ UNCHANGED <<now, table, cache>>

\* It fails or times out: a warning, and the legacy query is tried.
QueryFails(c) ==
  /\ call[c].at = "query"
  /\ Goto(c, "legacy")
  /\ UNCHANGED <<now, table, cache>>

QueryLegacy(c) ==
  /\ call[c].at = "legacy"
  /\ \E r \in OneOf(LegacyRows(table)) : Read(c, LegacyMap(r), "legacy")
  /\ UNCHANGED <<now, table, cache>>

\* The legacy query fails, or there was no connection for either.
FetchFails(c) ==
  /\ call[c].at \in {"query", "legacy"}
  /\ Goto(c, "failed")
  /\ UNCHANGED <<now, table, cache>>

\* Back from the refresh: its map is with the cache now, and its clock reading too.
Proceed(c) == call' = [call EXCEPT ![c].at = "lookup", ![c].started = 0, ![c].image = Blank]

\* Mutant: the clock would be read when the map is stored.
StoreNow(c) ==
  /\ call[c].at = "read"
  /\ cache' = [image |-> call[c].image, lastFetch |-> now]
  /\ Proceed(c)
  /\ UNCHANGED <<now, table>>

\* The write lock is taken only now: the map and the time of this fetch replace
\* those of any fetch that ended meanwhile.
Store(c) ==
  /\ call[c].at = "read"
  /\ cache' = [image |-> call[c].image, lastFetch |-> call[c].started]
  /\ Proceed(c)
  /\ UNCHANGED <<now, table>>

Outdated == [cache.image EXCEPT !.current = FALSE]

\* Mutant: "continuing with env vars only", as the warning has it.
DropMap(c) ==
  /\ call[c].at = "failed"
  /\ cache' = [image |-> [Outdated EXCEPT !.map = NoMap], lastFetch |-> call[c].started]
  /\ Proceed(c)
  /\ UNCHANGED <<now, table>>

\* Mutant: the next call would try again at once.
ForgetFetch(c) ==
  /\ call[c].at = "failed"
  /\ cache' = [image |-> Outdated, lastFetch |-> Never]
  /\ Proceed(c)
  /\ UNCHANGED <<now, table>>

\* After a failure the map stays, and counts as fetched.
StoreFailure(c) ==
  /\ call[c].at = "failed"
  /\ cache' = [image |-> Outdated, lastFetch |-> call[c].started]
  /\ Proceed(c)
  /\ UNCHANGED <<now, table>>

\* lookup_cached; without a row the environment decides, and a price of 0 there is
\* the free tier.
Lookup(c) ==
  /\ call[c].at = "lookup"
  /\ call' = [call EXCEPT ![c].at = "answered", ![c].image = cache.image,
                          ![c].row = Find(cache.image.map, call[c].endpoint)]
  /\ UNCHANGED <<now, table, cache>>

Return(c) ==
  /\ call[c].at = "answered"
  /\ call' = [call EXCEPT ![c] = Idle]
  /\ UNCHANGED <<now, table, cache>>

\* The platform ends the instance, and starts another.
Restart ==
  /\ cache # Empty \/ \E c \in Calls : call[c] # Idle
  /\ cache' = Empty
  /\ call' = [c \in Calls |-> Idle]
  /\ UNCHANGED <<now, table>>

Resolve(c) ==
  \/ Ask(c) \/ Check(c)
  \/ QueryService(c) \/ QueryFails(c) \/ QueryLegacy(c) \/ FetchFails(c)
  \/ Store(c) \/ StoreFailure(c)
  \/ Lookup(c) \/ Return(c)

Next == Tick \/ Edit \/ Restart \/ \E c \in Calls : Resolve(c)

Spec == Init /\ [][Next]_vars

-----------------------------------------------------------------------------
Answered(c) == call[c].at = "answered"

\* However refreshes overlap, and though an older map may be stored over a newer
\* one, a lookup sees the table as it was at most the time to live, or the time a
\* fetch may take, ago; unless the last refresh failed.
Staleness == IF Ttl > FetchTimeout THEN Ttl ELSE FetchTimeout
LookupIsRecent ==
  \A c \in Calls : Answered(c) /\ call[c].image.current => now - call[c].image.asOf <= Staleness

\* A price that rests on a failed refresh, be it the map of before or, in an instance
\* that never read the table, the environment's, lasts no longer than a map that was
\* read: every lookup rests on an attempt begun at most that long ago.
AttemptIsRecent ==
  \A c \in Calls : Answered(c) => cache.lastFetch # Never /\ now - cache.lastFetch <= Staleness

\* The rows that may price an endpoint: its own, or else that for '*', or else one with
\* the deprecated name, be it of another endpoint.
Preferred(rows, endpoint) ==
  CASE Named(rows, endpoint) # {}   -> Named(rows, endpoint)
    [] Named(rows, endpoint) = {} /\ Named(rows, Everywhere) # {} -> Named(rows, Everywhere)
    [] OTHER                        -> Deprecated(rows)

\* What an instance has read it does not lose, whatever fails afterwards: a lookup
\* finds no row only in an instance that never read the table, or if there was none
\* to find; and it finds the preferred row if the query for the service answered.
LookupIsOfTheTable ==
  \A c \in Calls : Answered(c) =>
    LET image == call[c].image IN
    /\ image.source = "service" => call[c].row \in OneOf(Preferred(image.rows, call[c].endpoint))
    /\ image.source = "legacy"  => call[c].row \in OneOf(image.rows)
    /\ image.source = "nothing" => call[c].row = NoRow

\* migrations/CUTOVER.md: the row of service 'solrisk' and the endpoint is preferred,
\* and then the one for '*'.  After a query that failed it is not so: the legacy query
\* gives every endpoint the price of some other, or of another service.
OwnRowIsPreferred ==
  \A c \in Calls :
    LET image == call[c].image IN
    Answered(c) /\ image.source # "nothing" /\ Preferred(image.rows, call[c].endpoint) # {} =>
      call[c].row \in Preferred(image.rows, call[c].endpoint)
=============================================================================
