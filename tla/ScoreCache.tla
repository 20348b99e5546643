---------------------------- MODULE ScoreCache ----------------------------
(***************************************************************************)
(* The row of one endpoint and subject in solrisk_score_cache (db.rs):      *)
(* set_cached_score, a transaction of DELETE and INSERT, run by several     *)
(* instances at once, and get_cached_score.  How PostgreSQL locks rows and  *)
(* checks the primary key at READ COMMITTED is EXTERNAL.                    *)
(***************************************************************************)
EXTENDS Naturals

CONSTANTS
  Writers, Readers,   \* calls that have a fresh score, and calls that look one up
  Ttl,                \* 300 s in write_cache_and_log
  PoolWait,           \* the longest wait for a connection and its BEGIN
  MaxTime             \* bound on the clock

ASSUME TtlAssumption == Ttl \in Nat \ {0}
ASSUME WaitAssumption == PoolWait \in Nat /\ MaxTime \in Nat

VARIABLES
  now,      \* the clock of the database, in seconds
  row,      \* the committed row: when it was scored, stored, expires
  write,    \* set_cached_score of each writer
  lookup    \* get_cached_score of each reader

vars == <<now, row, write, lookup>>

Empty == [scored |-> 0, stored |-> 0, expires |-> 0]
Idle  == [at |-> "idle", scored |-> 0, start |-> 0, owns |-> FALSE]
Times == 0 .. MaxTime
Rows  == [scored : Times, stored : Times, expires : Ttl .. MaxTime + Ttl]
Stages == {"idle", "scored", "begun", "blocked", "deleted", "inserted"}

Writes == [at : Stages, scored : Times, start : Times, owns : BOOLEAN]
Lookups ==
  [at : {"idle", "miss", "error"}] \cup [at : {"asked"}, since : Times]
                                 \cup [at : {"hit"}, since : Times, got : Rows]

TypeOK ==
  /\ now \in Times
  /\ row \in Rows \cup {Empty}
  /\ write \in [Writers -> Writes]
  /\ \A w \in Writers : write[w].owns => write[w].at \in {"deleted", "inserted"}
  /\ lookup \in [Readers -> Lookups]

Init ==
  /\ now = 0
  /\ row = Empty
  /\ write = [w \in Writers |-> Idle]
  /\ lookup = [r \in Readers |-> [at |-> "idle"]]

\* conn() and BEGIN end, one way or the other, within their timeouts.
Tick ==
  /\ now < MaxTime
  /\ \A w \in Writers : write[w].at = "scored" => now < write[w].scored + PoolWait
  /\ now' = now + 1
  /\ UNCHANGED <<row, write, lookup>>

-----------------------------------------------------------------------------
Step(w, stage) == write' = [write EXCEPT ![w].at = stage]

\* The row is deleted by a transaction that has not ended, or it is about to be
\* joined by one that is not committed.
OtherOwns(w)    == \E v \in Writers \ {w} : write[v].owns
OtherInserts(w) == \E v \in Writers \ {w} : write[v].at = "inserted"

\* The handler has a score to keep and asks for a connection.
Score(w) ==
  /\ write[w] = Idle
  /\ write' = [write EXCEPT ![w] = [Idle EXCEPT !.at = "scored", !.scored = now]]
  /\ UNCHANGED <<now, row, lookup>>

\* open_transaction; NOW() is the time of the BEGIN from here on.
Open(w) ==
  /\ write[w].at = "scored"
  /\ write' = [write EXCEPT ![w].at = "begun", ![w].start = now]
  /\ UNCHANGED <<now, row, lookup>>

\* Mutant: without the explicit transaction the DELETE is committed at once.
DeleteCommitted(w) ==
  /\ write[w].at = "begun"
  /\ row' = Empty
  /\ Step(w, "deleted")
  /\ UNCHANGED <<now, lookup>>

\* DELETE: takes the committed row, if there is one and no one else has it.
Delete(w) ==
  /\ write[w].at = "begun"
  /\ IF row # Empty /\ OtherOwns(w)
     THEN Step(w, "blocked")
     ELSE write' = [write EXCEPT ![w].at = "deleted", ![w].owns = row # Empty]
  /\ UNCHANGED <<now, row, lookup>>

\* The owner has rolled back: the DELETE goes on with the row it had found.
Unblock(w) ==
  /\ write[w].at = "blocked"
  /\ ~OtherOwns(w)
  /\ write' = [write EXCEPT ![w].at = "deleted", ![w].owns = TRUE]
  /\ UNCHANGED <<now, row, lookup>>

\* INSERT waits for whoever is replacing the row.
InsertWaits(w) == OtherInserts(w) \/ OtherOwns(w)

Insert(w) ==
  /\ write[w].at = "deleted"
  /\ ~InsertWaits(w)
  /\ row = Empty \/ write[w].owns
  /\ Step(w, "inserted")
  /\ UNCHANGED <<now, row, lookup>>

\* A row was committed after this writer's DELETE had found none: the primary key
\* refuses a second one, and the client is discarded.
InsertConflicts(w) ==
  /\ write[w].at = "deleted"
  /\ ~InsertWaits(w)
  /\ row # Empty /\ ~write[w].owns
  /\ write' = [write EXCEPT ![w] = Idle]
  /\ UNCHANGED <<now, row, lookup>>

\* Mutant: expires_at would be counted from the COMMIT.
RowFromCommit(w) == [scored |-> write[w].scored, stored |-> now, expires |-> now + Ttl]
RowOf(w) ==
  [scored |-> write[w].scored, stored |-> write[w].start, expires |-> write[w].start + Ttl]

\* COMMIT, whether or not the client hears of it.  A DELETE that was waiting for
\* this row finds it gone, and does not see the new one.
Commit(w) ==
  /\ write[w].at = "inserted"
  /\ row' = RowOf(w)
  /\ write' = [v \in Writers |->
       IF v = w THEN Idle
       ELSE IF write[v].at = "blocked" THEN [write[v] EXCEPT !.at = "deleted"]
       ELSE write[v]]
  /\ UNCHANGED <<now, lookup>>

\* Mutant: the client would go back to the pool with its transaction open.
ReturnOpen(w) ==
  /\ write[w] # Idle
  /\ write' = [write EXCEPT ![w] = [Idle EXCEPT !.owns = write[w].owns]]
  /\ UNCHANGED <<now, row, lookup>>

\* No connection, a statement that fails or times out, or the end of the instance:
\* discard_client closes the connection and the server rolls back.
GiveUp(w) ==
  /\ write[w] # Idle
  /\ write' = [write EXCEPT ![w] = Idle]
  /\ UNCHANGED <<now, row, lookup>>

-----------------------------------------------------------------------------
Ask(r) ==
  /\ lookup[r].at = "idle"
  /\ lookup' = [lookup EXCEPT ![r] = [at |-> "asked", since |-> now]]
  /\ UNCHANGED <<now, row, write>>

\* expires_at > NOW(), with the NOW() of the reader's BEGIN.
InForce(since) == row # Empty /\ row.expires > since

Select(r) ==
  /\ lookup[r].at = "asked"
  /\ LET since == lookup[r].since IN
     lookup' = [lookup EXCEPT ![r] =
       IF InForce(since) THEN [at |-> "hit", since |-> since, got |-> row] ELSE [at |-> "miss"]]
  /\ UNCHANGED <<now, row, write>>

\* A failed read only makes the handler score afresh.
ReadFails(r) ==
  /\ lookup[r].at = "asked"
  /\ lookup' = [lookup EXCEPT ![r] = [at |-> "error"]]
  /\ UNCHANGED <<now, row, write>>

Return(r) ==
  /\ lookup[r].at \in {"hit", "miss", "error"}
  /\ lookup' = [lookup EXCEPT ![r] = [at |-> "idle"]]
  /\ UNCHANGED <<now, row, write>>

-----------------------------------------------------------------------------
SetCachedScore(w) ==
  \/ Score(w) \/ Open(w) \/ Delete(w) \/ Unblock(w)
  \/ Insert(w) \/ InsertConflicts(w) \/ Commit(w) \/ GiveUp(w)

GetCachedScore(r) == Ask(r) \/ Select(r) \/ ReadFails(r) \/ Return(r)

Next ==
  \/ Tick
  \/ \E w \in Writers : SetCachedScore(w)
  \/ \E r \in Readers : GetCachedScore(r)

Spec == Init /\ [][Next]_vars

-----------------------------------------------------------------------------
\* A score that is served from the cache was computed less than the time to live
\* before the call looked it up, but for the wait for a connection: also when an
\* older score overwrites a newer one, and when the lookup itself was slow.
HitIsRecent ==
  \A r \in Readers : lookup[r].at = "hit" =>
    lookup[r].since < lookup[r].got.scored + PoolWait + Ttl

Waits(w) ==
  \/ write[w].at = "blocked" /\ OtherOwns(w)
  \/ write[w].at = "deleted" /\ InsertWaits(w)

\* Writers that meet at the row wait for each other, never in a circle and never
\* for someone who has gone: of those in a transaction one can always go on
\* without a timeout.
SomeWriterGoesOn ==
  (\E w \in Writers : Waits(w)) =>
     \E w \in Writers : write[w].at \notin {"idle", "scored"} /\ ~Waits(w)

Register == INSTANCE ScoreRegister WITH cell <- row

\* DELETE and INSERT replace the row in one step: no reader misses a score that is
\* being renewed, and none reads one that was not stored.
CacheIsARegister == Register!Spec
=============================================================================
