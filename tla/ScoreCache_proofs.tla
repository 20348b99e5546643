-------------------------- MODULE ScoreCache_proofs --------------------------
(***************************************************************************)
(* Proofs about ScoreCache, for any writers, readers and times.             *)
(***************************************************************************)
EXTENDS ScoreCache, Integers, TLAPS

LEMMA InitType == Init => TypeOK
<1> SUFFICES ASSUME Init PROVE TypeOK
  OBVIOUS
<1>1. now \in Times
  BY WaitAssumption DEF Init, Times
<1>2. Idle \in Writes
  BY WaitAssumption DEF Idle, Writes, Stages, Times
<1>3. \A w \in Writers : write[w] = Idle
  BY DEF Init
<1>4. [at |-> "idle"] \in Lookups
  BY DEF Lookups
<1> QED
  BY <1>1, <1>2, <1>3, <1>4 DEF Init, TypeOK, Idle

LEMMA WriteType ==
  ASSUME TypeOK, NEW w \in Writers, NEW x \in Writes,
         x.owns => x.at \in {"deleted", "inserted"}, write' = [write EXCEPT ![w] = x],
         UNCHANGED <<now, row, lookup>>
  PROVE  TypeOK'
  BY DEF TypeOK, Times, Rows, Writes, Lookups, Stages, Empty

LEMMA LookupType ==
  ASSUME TypeOK, NEW r \in Readers, NEW x \in Lookups, lookup' = [lookup EXCEPT ![r] = x],
         UNCHANGED <<now, row, write>>
  PROVE  TypeOK'
  BY DEF TypeOK, Times, Rows, Writes, Lookups, Stages, Empty

LEMMA RowIsRow ==
  ASSUME TypeOK, NEW w \in Writers
  PROVE  RowOf(w) \in Rows
<1>1. write[w].scored \in Times /\ write[w].start \in Times
  BY DEF TypeOK, Writes
<1>2. write[w].start + Ttl \in Ttl .. MaxTime + Ttl
  BY <1>1, TtlAssumption, WaitAssumption DEF Times
<1> QED
  BY <1>1, <1>2 DEF RowOf, Rows

LEMMA CommitType ==
  ASSUME TypeOK, NEW w \in Writers, Commit(w)
  PROVE  TypeOK'
<1>1. Idle \in Writes
  BY WaitAssumption DEF Idle, Writes, Stages, Times
<1>2. ASSUME NEW v \in Writers
      PROVE  write'[v] \in Writes /\ (write'[v].owns => write'[v].at \in {"deleted", "inserted"})
  <2>1. write[v] \in Writes
    BY DEF TypeOK
  <2>2. CASE v = w
    BY <1>1, <2>2 DEF Commit, Idle
  <2>3. CASE v # w /\ write[v].at = "blocked"
    <3>1. write'[v] = [write[v] EXCEPT !.at = "deleted"]
      BY <2>3 DEF Commit
    <3> QED
      BY <2>1, <2>3, <3>1 DEF TypeOK, Writes, Stages
  <2>4. CASE v # w /\ write[v].at # "blocked"
    BY <2>1, <2>4 DEF Commit, TypeOK
  <2> QED
    BY <2>2, <2>3, <2>4
<1>3. write' \in [Writers -> Writes]
  BY <1>2 DEF Commit
<1> QED
  BY <1>2, <1>3, RowIsRow DEF Commit, TypeOK, Times, Rows, Writes, Lookups, Stages

LEMMA WriterType ==
  ASSUME TypeOK, NEW w \in Writers, SetCachedScore(w)
  PROVE  TypeOK'
<1>1. write[w] \in Writes /\ now \in Times
  BY DEF TypeOK
<1>2. Idle \in Writes
  BY WaitAssumption DEF Idle, Writes, Stages, Times
<1>3. CASE Score(w)
  <2>1. [Idle EXCEPT !.at = "scored", !.scored = now] \in Writes
    BY <1>1, <1>2 DEF Writes, Stages
  <2> QED
    BY <1>3, <2>1, WriteType DEF Score, Idle
<1>4. CASE Open(w)
  <2>1. [write[w] EXCEPT !.at = "begun", !.start = now] \in Writes /\ ~write[w].owns
    BY <1>1, <1>4 DEF Open, TypeOK, Writes, Stages
  <2>2. write' = [write EXCEPT ![w] = [write[w] EXCEPT !.at = "begun", !.start = now]]
    BY <1>4 DEF Open, TypeOK
  <2> QED
    BY <1>4, <1>1, <2>1, <2>2, WriteType DEF Open, Writes
<1>5. CASE Delete(w)
  <2>1. CASE row # Empty /\ OtherOwns(w)
    <3>1. [write[w] EXCEPT !.at = "blocked"] \in Writes /\ ~write[w].owns
      BY <1>1, <1>5 DEF Delete, TypeOK, Writes, Stages
    <3>2. write' = [write EXCEPT ![w] = [write[w] EXCEPT !.at = "blocked"]]
      BY <1>5, <2>1 DEF Delete, Step, TypeOK
    <3> QED
      BY <1>5, <1>1, <3>1, <3>2, WriteType DEF Delete, Writes
  <2>2. CASE ~(row # Empty /\ OtherOwns(w))
    <3> DEFINE x == [write[w] EXCEPT !.at = "deleted", !.owns = row # Empty]
    <3>1. x \in Writes /\ x.at = "deleted"
      BY <1>1 DEF Writes, Stages
    <3>2. write' = [write EXCEPT ![w] = x]
      BY <1>5, <2>2 DEF Delete, TypeOK
    <3> QED
      BY <1>5, <3>1, <3>2, WriteType DEF Delete
  <2> QED
    BY <2>1, <2>2
<1>6. CASE Unblock(w)
  <2> DEFINE x == [write[w] EXCEPT !.at = "deleted", !.owns = TRUE]
  <2>1. x \in Writes /\ x.at = "deleted"
    BY <1>1 DEF Writes, Stages
  <2>2. write' = [write EXCEPT ![w] = x]
    BY <1>6 DEF Unblock, TypeOK
  <2> QED
    BY <1>6, <2>1, <2>2, WriteType DEF Unblock
<1>7. CASE Insert(w)
  <2> DEFINE x == [write[w] EXCEPT !.at = "inserted"]
  <2>1. x \in Writes /\ x.at = "inserted"
    BY <1>1 DEF Writes, Stages
  <2>2. write' = [write EXCEPT ![w] = x]
    BY <1>7 DEF Insert, Step, TypeOK
  <2> QED
    BY <1>7, <2>1, <2>2, WriteType DEF Insert
<1>8. CASE InsertConflicts(w) \/ GiveUp(w)
  BY <1>8, <1>2, WriteType DEF InsertConflicts, GiveUp, Idle
<1> QED
  BY <1>3, <1>4, <1>5, <1>6, <1>7, <1>8, CommitType DEF SetCachedScore

LEMMA ReaderType ==
  ASSUME TypeOK, NEW r \in Readers, GetCachedScore(r)
  PROVE  TypeOK'
<1>1. CASE Ask(r)
  <2>1. [at |-> "asked", since |-> now] \in Lookups
    BY DEF TypeOK, Lookups
  <2> QED
    BY <1>1, <2>1, LookupType DEF Ask
<1>2. CASE Select(r)
  <2>1. lookup[r] \in Lookups /\ lookup[r].at = "asked"
    BY <1>2 DEF Select, TypeOK
  <2>2. lookup[r].since \in Times
    BY <2>1 DEF Lookups
  <2>3. InForce(lookup[r].since) => [at |-> "hit", since |-> lookup[r].since, got |-> row] \in Lookups
    BY <2>2 DEF InForce, TypeOK, Lookups
  <2>4. [at |-> "miss"] \in Lookups
    BY DEF Lookups
  <2> QED
    BY <1>2, <2>3, <2>4, LookupType DEF Select
<1>3. CASE ReadFails(r)
  <2>1. [at |-> "error"] \in Lookups
    BY DEF Lookups
  <2> QED
    BY <1>3, <2>1, LookupType DEF ReadFails
<1>4. CASE Return(r)
  <2>1. [at |-> "idle"] \in Lookups
    BY DEF Lookups
  <2> QED
    BY <1>4, <2>1, LookupType DEF Return
<1> QED
  BY <1>1, <1>2, <1>3, <1>4 DEF GetCachedScore

LEMMA NextType == TypeOK /\ [Next]_vars => TypeOK'
<1> SUFFICES ASSUME TypeOK, [Next]_vars PROVE TypeOK'
  OBVIOUS
<1>1. CASE Tick
  <2>1. now' \in Times
    BY <1>1, WaitAssumption DEF Tick, TypeOK, Times
  <2> QED
    BY <1>1, <2>1 DEF Tick, TypeOK, Times, Rows, Writes, Lookups
<1>2. CASE UNCHANGED vars
  BY <1>2 DEF vars, TypeOK, Times, Rows, Writes, Lookups
<1> QED
  BY <1>1, <1>2, WriterType, ReaderType DEF Next

\* Every variable keeps its type, and only a writer between its DELETE and its
\* COMMIT owns the row.
THEOREM TypeCorrect == Spec => []TypeOK
  BY InitType, NextType, PTL DEF Spec

-----------------------------------------------------------------------------
\* The times of a score stay in order on its way from the handler to the reader.
InOrder(scored, start) == scored <= start /\ start <= now /\ start <= scored + PoolWait
WriteInTime(w) ==
  /\ write[w].at = "scored" => InOrder(write[w].scored, now)
  /\ write[w].at \in {"begun", "blocked", "deleted", "inserted"} =>
       InOrder(write[w].scored, write[w].start)
RowInTime == row # Empty =>
  InOrder(row.scored, row.stored) /\ row.expires = row.stored + Ttl
HitInTime(r) == lookup[r].at = "hit" =>
  /\ lookup[r].since < lookup[r].got.expires
  /\ lookup[r].got.expires <= lookup[r].got.scored + PoolWait + Ttl
TimeInv == (\A w \in Writers : WriteInTime(w)) /\ RowInTime /\ (\A r \in Readers : HitInTime(r))

LEMMA TimesAreInt ==
  ASSUME TypeOK
  PROVE  /\ now \in Int /\ PoolWait \in Int /\ Ttl \in Int /\ 0 <= PoolWait /\ 0 < Ttl
         /\ row.scored \in Int /\ row.stored \in Int /\ row.expires \in Int
         /\ \A w \in Writers : write[w].scored \in Int /\ write[w].start \in Int
<1>1. now \in Int /\ PoolWait \in Int /\ Ttl \in Int /\ 0 <= PoolWait /\ 0 < Ttl
  BY TtlAssumption, WaitAssumption DEF TypeOK, Times
<1>2. row.scored \in Int /\ row.stored \in Int /\ row.expires \in Int
  BY TtlAssumption, WaitAssumption DEF TypeOK, Rows, Empty, Times
<1>3. ASSUME NEW w \in Writers PROVE write[w].scored \in Int /\ write[w].start \in Int
  BY WaitAssumption DEF TypeOK, Writes, Times
<1> QED
  BY <1>1, <1>2, <1>3

LEMMA InitTime == Init => TimeInv
  BY DEF Init, TimeInv, WriteInTime, RowInTime, HitInTime, Idle

\* A stored score is never the empty row.
LEMMA RowIsStored ==
  ASSUME TypeOK, NEW w \in Writers
  PROVE  RowOf(w) # Empty
<1>1. write[w].start \in Nat
  BY WaitAssumption DEF TypeOK, Writes, Times
<1>2. RowOf(w).expires > 0
  BY <1>1, TtlAssumption DEF RowOf
<1> QED
  BY <1>2 DEF Empty

LEMMA WriterTime ==
  ASSUME TypeOK, TimeInv, NEW w \in Writers, SetCachedScore(w)
  PROVE  TimeInv'
<1>0. UNCHANGED <<now, lookup>>
  BY DEF SetCachedScore, Score, Open, Delete, Unblock, Insert, InsertConflicts, Commit, GiveUp, Step
<1>1. \A r \in Readers : HitInTime(r)'
  BY <1>0 DEF TimeInv, HitInTime
<1>2. ASSUME NEW v \in Writers, v # w PROVE WriteInTime(v)'
  <2>1. write[v] \in Writes /\ WriteInTime(v)
    BY DEF TypeOK, TimeInv
  <2>2. write'[v] = write[v] \/ (write[v].at = "blocked" /\ write'[v] = [write[v] EXCEPT !.at = "deleted"])
    BY <1>2 DEF SetCachedScore, Score, Open, Delete, Unblock, Insert, InsertConflicts, Commit,
                GiveUp, Step, TypeOK
  <2> QED
    BY <1>0, <2>1, <2>2 DEF WriteInTime, InOrder, Writes
<1>3. WriteInTime(w)'
  <2>1. write[w] \in Writes /\ WriteInTime(w)
    BY DEF TypeOK, TimeInv
  <2>2. CASE Score(w)
    <3>1. write'[w] = [Idle EXCEPT !.at = "scored", !.scored = now]
      BY <2>2 DEF Score, TypeOK
    <3> QED
      BY <1>0, <3>1, TimesAreInt DEF WriteInTime, InOrder, Idle
  <2>3. CASE Open(w)
    <3>1. write'[w] = [write[w] EXCEPT !.at = "begun", !.start = now] /\ write[w].at = "scored"
      BY <2>3 DEF Open, TypeOK
    <3> QED
      BY <1>0, <2>1, <3>1 DEF WriteInTime, InOrder, Writes
  <2>4. CASE Delete(w) \/ Unblock(w) \/ Insert(w)
    <3>1. /\ write'[w].scored = write[w].scored /\ write'[w].start = write[w].start
          /\ write[w].at \in {"begun", "blocked", "deleted"}
          /\ write'[w].at \in {"blocked", "deleted", "inserted"}
      BY <2>1, <2>4 DEF Delete, Unblock, Insert, Step, TypeOK, Writes
    <3> QED
      BY <1>0, <2>1, <3>1 DEF WriteInTime, InOrder
  <2>5. CASE InsertConflicts(w) \/ Commit(w) \/ GiveUp(w)
    <3>1. write'[w] = Idle
      BY <2>5 DEF InsertConflicts, Commit, GiveUp, TypeOK
    <3> QED
      BY <3>1 DEF WriteInTime, Idle
  <2> QED
    BY <2>2, <2>3, <2>4, <2>5 DEF SetCachedScore
<1>4. RowInTime'
  <2>1. CASE Commit(w)
    <3>1. row' = RowOf(w) /\ InOrder(write[w].scored, write[w].start)
      BY <2>1 DEF Commit, TimeInv, WriteInTime
    <3> QED
      BY <1>0, <3>1 DEF RowInTime, RowOf, InOrder
  <2>2. CASE row' = row
    BY <1>0, <2>2 DEF TimeInv, RowInTime, InOrder
  <2> QED
    BY <2>1, <2>2 DEF SetCachedScore, Score, Open, Delete, Unblock, Insert, InsertConflicts, GiveUp
<1> QED
  BY <1>1, <1>2, <1>3, <1>4 DEF TimeInv

LEMMA ReaderTime ==
  ASSUME TypeOK, TimeInv, NEW r \in Readers, GetCachedScore(r)
  PROVE  TimeInv'
<1>0. UNCHANGED <<now, row, write>>
  BY DEF GetCachedScore, Ask, Select, ReadFails, Return
<1>1. ASSUME NEW q \in Readers, q # r PROVE HitInTime(q)'
  <2>1. lookup'[q] = lookup[q]
    BY <1>1 DEF GetCachedScore, Ask, Select, ReadFails, Return, TypeOK
  <2> QED
    BY <2>1 DEF TimeInv, HitInTime
<1>2. HitInTime(r)'
  <2>1. CASE Select(r) /\ InForce(lookup[r].since)
    <3>1. lookup'[r] = [at |-> "hit", since |-> lookup[r].since, got |-> row]
      BY <2>1 DEF Select, TypeOK
    <3>2. InOrder(row.scored, row.stored) /\ row.expires = row.stored + Ttl
      BY <2>1 DEF InForce, TimeInv, RowInTime
    <3>3. lookup[r].since \in Int /\ row.expires > lookup[r].since
      BY <2>1, WaitAssumption DEF InForce, Select, TypeOK, Lookups, Times
    <3> QED
      BY <3>1, <3>2, <3>3, TimesAreInt DEF HitInTime, InOrder
  <2>2. CASE ~(Select(r) /\ InForce(lookup[r].since))
    <3>1. lookup'[r].at # "hit"
      BY <2>2 DEF GetCachedScore, Ask, Select, ReadFails, Return, TypeOK
    <3> QED
      BY <3>1 DEF HitInTime
  <2> QED
    BY <2>1, <2>2
<1> QED
  BY <1>0, <1>1, <1>2 DEF TimeInv, WriteInTime, RowInTime, InOrder

LEMMA NextTime == TypeOK /\ TimeInv /\ [Next]_vars => TimeInv'
<1> SUFFICES ASSUME TypeOK, TimeInv, [Next]_vars PROVE TimeInv'
  OBVIOUS
<1>1. CASE Tick
  <2>1. now' = now + 1 /\ UNCHANGED <<row, write, lookup>>
    BY <1>1 DEF Tick
  <2>2. \A w \in Writers : WriteInTime(w)'
    BY <1>1, <2>1, TimesAreInt DEF Tick, TimeInv, WriteInTime, InOrder
  <2> QED
    BY <2>1, <2>2, TimesAreInt DEF TimeInv, RowInTime, HitInTime, InOrder
<1>2. CASE UNCHANGED vars
  BY <1>2 DEF vars, TimeInv, WriteInTime, RowInTime, HitInTime, InOrder
<1> QED
  BY <1>1, <1>2, WriterTime, ReaderTime DEF Next

LEMMA TimesInOrder == Spec => [](TypeOK /\ TimeInv)
  BY InitType, NextType, InitTime, NextTime, PTL DEF Spec

\* No score is served from the cache for longer than the time to live and one wait
\* for a connection (handlers.rs:199, db.rs:318-408).
THEOREM HitsAreRecent == Spec => []HitIsRecent
<1>1. TypeOK /\ TimeInv => HitIsRecent
  <2> SUFFICES ASSUME TypeOK, TimeInv, NEW r \in Readers, lookup[r].at = "hit"
               PROVE  lookup[r].since < lookup[r].got.scored + PoolWait + Ttl
    BY DEF HitIsRecent
  <2>1. lookup[r].since \in Int /\ lookup[r].got \in Rows
    BY WaitAssumption DEF TypeOK, Lookups, Times
  <2>2. lookup[r].got.scored \in Int /\ lookup[r].got.expires \in Int
    BY <2>1, TtlAssumption, WaitAssumption DEF Rows, Times
  <2> QED
    BY <2>1, <2>2, TimesAreInt DEF TimeInv, HitInTime
<1> QED
  BY TimesInOrder, <1>1, PTL

-----------------------------------------------------------------------------
\* At most one writer is replacing the row: the one that has deleted it, or has
\* inserted one where there was none.
Engaged(w) == write[w].owns \/ write[w].at = "inserted"
OneReplaces == \A v, w \in Writers : Engaged(v) /\ Engaged(w) => v = w
OwnsTheRow == \A w \in Writers :
  /\ write[w].owns \/ write[w].at = "blocked" => row # Empty
  /\ write[w].at = "inserted" /\ row # Empty => write[w].owns
OwnInv == OneReplaces /\ OwnsTheRow

LEMMA InitOwn == Init => OwnInv
  BY DEF Init, OwnInv, OneReplaces, OwnsTheRow, Engaged, Idle

\* Steps of one writer that do not commit.
LEMMA OwnStep ==
  ASSUME OwnInv, NEW w \in Writers, row' = row, \A v \in Writers \ {w} : write'[v] = write[v],
         Engaged(w)' => Engaged(w) \/ \A v \in Writers \ {w} : ~Engaged(v),
         write'[w].owns \/ write'[w].at = "blocked" => row # Empty,
         write'[w].at = "inserted" /\ row # Empty => write'[w].owns
  PROVE  OwnInv'
<1>1. \A v \in Writers : v # w => (Engaged(v)' <=> Engaged(v))
  BY DEF Engaged
<1>2. ASSUME NEW u \in Writers, NEW v \in Writers, Engaged(u)', Engaged(v)' PROVE u = v
  BY <1>1, <1>2 DEF OwnInv, OneReplaces
<1>3. OwnsTheRow'
  BY DEF OwnInv, OwnsTheRow
<1> QED
  BY <1>2, <1>3 DEF OwnInv, OneReplaces

LEMMA WriterOwn ==
  ASSUME TypeOK, OwnInv, NEW w \in Writers, SetCachedScore(w)
  PROVE  OwnInv'
<1>0. write[w] \in Writes /\ (write[w].owns => row # Empty)
  BY DEF TypeOK, OwnInv, OwnsTheRow
<1>1. CASE Score(w) \/ InsertConflicts(w) \/ GiveUp(w)
  <2>1. /\ row' = row
        /\ \A v \in Writers \ {w} : write'[v] = write[v]
        /\ ~write'[w].owns /\ write'[w].at \notin {"blocked", "inserted"}
    <3>1. row' = row /\ \A v \in Writers \ {w} : write'[v] = write[v]
      BY <1>1 DEF Score, InsertConflicts, GiveUp, TypeOK
    <3>2. write'[w] \in {Idle, [Idle EXCEPT !.at = "scored", !.scored = now]}
      BY <1>1 DEF Score, InsertConflicts, GiveUp, TypeOK
    <3>3. CASE write'[w] = Idle
      BY <3>1, <3>3 DEF Idle
    <3>4. CASE write'[w] = [Idle EXCEPT !.at = "scored", !.scored = now]
      <4>1. write'[w].at = "scored" /\ write'[w].owns = FALSE
        BY <3>4 DEF Idle
      <4> QED
        BY <3>1, <4>1
    <3> QED
      BY <3>2, <3>3, <3>4
  <2> QED
    BY <2>1, OwnStep DEF Engaged
<1>2. CASE Open(w)
  <2>1. /\ row' = row
        /\ \A v \in Writers \ {w} : write'[v] = write[v]
        /\ write'[w].owns = write[w].owns /\ write'[w].at = "begun"
    BY <1>0, <1>2 DEF Open, TypeOK, Writes
  <2> QED
    BY <1>0, <2>1, OwnStep DEF Engaged
<1>3. CASE Delete(w)
  <2>0. /\ row' = row
        /\ \A v \in Writers \ {w} : write'[v] = write[v]
    BY <1>3 DEF Delete, Step, TypeOK
  <2>1. CASE row # Empty /\ OtherOwns(w)
    <3>1. write'[w].owns = write[w].owns /\ write'[w].at = "blocked"
      BY <1>0, <1>3, <2>1 DEF Delete, Step, TypeOK, Writes
    <3> QED
      BY <1>0, <2>0, <2>1, <3>1, OwnStep DEF Engaged
  <2>2. CASE row = Empty \/ ~OtherOwns(w)
    <3>1. write'[w].owns = (row # Empty) /\ write'[w].at = "deleted"
      BY <1>0, <1>3, <2>2 DEF Delete, Step, TypeOK, Writes
    <3>2. row # Empty => \A v \in Writers \ {w} : ~Engaged(v)
      BY <2>2 DEF OtherOwns, OwnInv, OwnsTheRow, Engaged
    <3>3. Engaged(w)' => row # Empty
      BY <3>1 DEF Engaged
    <3> QED
      BY <2>0, <3>1, <3>2, <3>3, OwnStep
  <2> QED
    BY <2>1, <2>2
<1>4. CASE Unblock(w)
  <2>1. /\ row' = row
        /\ \A v \in Writers \ {w} : write'[v] = write[v]
        /\ write'[w].owns /\ write'[w].at = "deleted"
    BY <1>0, <1>4 DEF Unblock, TypeOK, Writes
  <2>2. row # Empty
    BY <1>4 DEF Unblock, OwnInv, OwnsTheRow
  <2>3. \A v \in Writers \ {w} : ~Engaged(v)
    BY <1>4, <2>2 DEF Unblock, OtherOwns, OwnInv, OwnsTheRow, Engaged
  <2> QED
    BY <2>1, <2>2, <2>3, OwnStep
<1>5. CASE Insert(w)
  <2>1. /\ row' = row
        /\ \A v \in Writers \ {w} : write'[v] = write[v]
        /\ write'[w].owns = write[w].owns /\ write'[w].at = "inserted"
    BY <1>0, <1>5 DEF Insert, Step, TypeOK, Writes
  <2>2. \A v \in Writers \ {w} : ~Engaged(v)
    BY <1>5 DEF Insert, InsertWaits, OtherOwns, OtherInserts, Engaged
  <2>3. row # Empty => write[w].owns
    BY <1>5 DEF Insert
  <2> QED
    BY <1>0, <2>1, <2>2, <2>3, OwnStep
<1>6. CASE Commit(w)
  <2>1. row' # Empty
    BY <1>6, RowIsStored DEF Commit
  <2>2. \A v \in Writers : v # w => ~Engaged(v)
    BY <1>6 DEF Commit, OwnInv, OneReplaces, Engaged
  <2>3. ASSUME NEW v \in Writers PROVE ~Engaged(v)'
    <3>1. write[v] \in Writes
      BY DEF TypeOK
    <3>2. CASE v = w
      BY <1>6, <3>2 DEF Commit, Engaged, Idle
    <3>3. CASE v # w /\ write[v].at = "blocked"
      <4>1. write'[v] = [write[v] EXCEPT !.at = "deleted"]
        BY <1>6, <3>3 DEF Commit
      <4>2. write'[v].at = "deleted" /\ write'[v].owns = write[v].owns
        BY <3>1, <4>1 DEF Writes
      <4> QED
        BY <2>2, <3>3, <4>2 DEF Engaged
    <3>4. CASE v # w /\ write[v].at # "blocked"
      <4>1. write'[v] = write[v]
        BY <1>6, <3>4 DEF Commit
      <4> QED
        BY <2>2, <3>4, <4>1 DEF Engaged
    <3> QED
      BY <3>2, <3>3, <3>4
  <2> QED
    BY <2>1, <2>3 DEF OwnInv, OneReplaces, OwnsTheRow, Engaged
<1> QED
  BY <1>1, <1>2, <1>3, <1>4, <1>5, <1>6 DEF SetCachedScore

LEMMA NextOwn == TypeOK /\ OwnInv /\ [Next]_vars => OwnInv'
<1> SUFFICES ASSUME TypeOK, OwnInv, [Next]_vars PROVE OwnInv'
  OBVIOUS
<1>1. CASE UNCHANGED <<row, write>>
  BY <1>1 DEF OwnInv, OneReplaces, OwnsTheRow, Engaged
<1>2. ASSUME NEW r \in Readers, GetCachedScore(r) PROVE OwnInv'
  BY <1>1, <1>2 DEF GetCachedScore, Ask, Select, ReadFails, Return
<1> QED
  BY <1>1, <1>2, WriterOwn DEF Next, Tick, vars

LEMMA RowIsOwned == Spec => [](TypeOK /\ OwnInv)
  BY InitType, NextType, InitOwn, NextOwn, PTL DEF Spec

\* Writers never wait in a circle: whoever a writer waits for is replacing the row
\* and waits for no one.
THEOREM WritersGoOn == Spec => []SomeWriterGoesOn
<1>1. TypeOK /\ OwnInv => SomeWriterGoesOn
  <2> SUFFICES ASSUME TypeOK, OwnInv, NEW w \in Writers, Waits(w)
               PROVE  \E v \in Writers : write[v].at \notin {"idle", "scored"} /\ ~Waits(v)
    BY DEF SomeWriterGoesOn
  <2>1. PICK v \in Writers : Engaged(v)
    BY DEF Waits, InsertWaits, OtherOwns, OtherInserts, Engaged
  <2>2. write[v].at \in {"deleted", "inserted"}
    BY <2>1 DEF Engaged, TypeOK
  <2>3. ~Waits(v)
    BY <2>1, <2>2 DEF Waits, InsertWaits, OtherOwns, OtherInserts, OwnInv, OneReplaces, Engaged
  <2> QED
    BY <2>2, <2>3
<1> QED
  BY RowIsOwned, <1>1, PTL

-----------------------------------------------------------------------------
\* Every step of the transactions is a step of the register, or none of its steps.
LEMMA InitRefines == Init => Register!Init
  BY DEF Init, Register!Init

LEMMA StepRefines == TypeOK /\ TimeInv /\ [Next]_vars => [Register!Next]_Register!vars
<1> SUFFICES ASSUME TypeOK, TimeInv, [Next]_vars PROVE [Register!Next]_Register!vars
  OBVIOUS
<1> DEFINE Stutter == UNCHANGED <<now, row, lookup>>
<1>0. Stutter => UNCHANGED Register!vars
  BY DEF Register!vars
<1>1. CASE Tick
  BY <1>1 DEF Tick, Register!Next, Register!Tick
<1>2. ASSUME NEW w \in Writers, Commit(w) PROVE Register!Next
  <2>1. InOrder(write[w].scored, write[w].start)
    BY <1>2 DEF Commit, TimeInv, WriteInTime
  <2>2. write[w].scored \in 0 .. now /\ write[w].start \in write[w].scored .. now
    BY <2>1, TimesAreInt, WaitAssumption DEF InOrder, TypeOK, Writes, Times
  <2>3. Register!Put
    BY <1>2, <2>2 DEF Commit, RowOf, Register!Put
  <2> QED
    BY <2>3 DEF Register!Next
<1>3. ASSUME NEW w \in Writers, SetCachedScore(w), ~Commit(w) PROVE Stutter
  BY <1>3 DEF SetCachedScore, Score, Open, Delete, Unblock, Insert, InsertConflicts, GiveUp, Step
<1>4. ASSUME NEW r \in Readers, GetCachedScore(r) PROVE Register!Next
  <2>1. CASE Ask(r)
    BY <2>1 DEF Ask, Register!Next, Register!Ask
  <2>2. CASE Select(r)
    BY <2>2 DEF Select, InForce, Register!Next, Register!Hit, Register!Miss, Register!InForce
  <2>3. CASE ReadFails(r)
    BY <2>3 DEF ReadFails, Register!Next, Register!Unreadable
  <2>4. CASE Return(r)
    BY <2>4 DEF Return, Register!Next, Register!Done
  <2> QED
    BY <1>4, <2>1, <2>2, <2>3, <2>4 DEF GetCachedScore
<1>5. CASE UNCHANGED vars
  BY <1>0, <1>5 DEF vars
<1> QED
  BY <1>0, <1>1, <1>2, <1>3, <1>4, <1>5 DEF Next

\* For any number of concurrent writers and readers, DELETE and INSERT in one
\* transaction (db.rs:341-370) are an atomic replacement of the row.
THEOREM CacheRefinesRegister == Spec => CacheIsARegister
  BY TimesInOrder, InitRefines, StepRefines, PTL DEF Spec, CacheIsARegister, Register!Spec
=============================================================================
