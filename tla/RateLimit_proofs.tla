-------------------------- MODULE RateLimit_proofs --------------------------
(***************************************************************************)
(* Proofs about RateLimit, for any calls, keys, limits and windows.         *)
(***************************************************************************)
EXTENDS RateLimit, FiniteSetTheorems, TLAPS

\* A stage other than "idle" is that of a check under way.
LEMMA StageIsBusy ==
  ASSUME TypeOK, NEW c \in Calls, check[c].at \in Stages \/ check[c] # NoCheck
  PROVE  check[c] \in Checks
<1>1. NoCheck.at \notin Stages
  BY DEF NoCheck, Stages
<1> QED
  BY <1>1 DEF TypeOK

LEMMA WindowsInUse == \A t \in Times : Window(t) \in Windows
  BY DEF Windows

LEMMA InitType == Init => TypeOK
<1> SUFFICES ASSUME Init PROVE TypeOK
  OBVIOUS
<1>1. now \in Times
  BY ClockAssumption DEF Init, Times
<1>2. count \in Counters /\ attempts \in Counters /\ admitted \in Counters
  BY DEF Init, Counters
<1> QED
  BY <1>1, <1>2 DEF Init, TypeOK

\* One more in a counter is a counter again.
LEMMA RaisedIsCounter ==
  ASSUME NEW f \in Counters, NEW k \in Keys, NEW w \in Windows
  PROVE  /\ Raised(f, k, w) \in Counters
         /\ \A j \in Keys, v \in Windows :
              Raised(f, k, w)[j][v] = IF j = k /\ v = w THEN f[j][v] + 1 ELSE f[j][v]
  BY DEF Counters, Raised

\* A call that changes only its own check, to a well formed one.
LEMMA CheckType ==
  ASSUME TypeOK, NEW c \in Calls, NEW x \in Checks \cup {NoCheck},
         check' = [check EXCEPT ![c] = x],
         now' = now, count' \in Counters, attempts' \in Counters, admitted' \in Counters
  PROVE  TypeOK'
  BY DEF TypeOK, Checks, Counters, NoCheck, Windows, Times, Window

\* What the COMMIT of a check stores.
LEMMA StoredIsCounter ==
  ASSUME TypeOK, NEW c \in Calls, check[c] \in Checks
  PROVE  /\ Stored(c) \in Counters
         /\ \A k \in Keys, w \in Windows :
              Stored(c)[k][w] = IF k = check[c].key /\ w = check[c].window
                                THEN check[c].n ELSE count[k][w]
  BY DEF Stored, TypeOK, Counters, Checks

LEMMA NextType == TypeOK /\ [Next]_vars => TypeOK'
<1> SUFFICES ASSUME TypeOK, [Next]_vars PROVE TypeOK'
  OBVIOUS
<1>1. CASE Tick
  <2>1. now' \in Times
    BY <1>1, ClockAssumption DEF Tick, TypeOK, Times
  <2> QED
    BY <1>1, <2>1 DEF Tick, TypeOK, Counters, Checks, Windows, Times, Window
<1>2. ASSUME NEW c \in Calls, Arrive(c) PROVE TypeOK'
  <2>1. Window(0) \in Windows
    BY WindowsInUse, ClockAssumption DEF Times
  <2>2. PICK ip \in Ips, payer \in Payers \cup {"none"} :
          check' = [check EXCEPT ![c] = [at |-> "asked", key |-> ip, payer |-> payer,
                                         window |-> Window(0), n |-> 0]]
    BY <1>2 DEF Arrive
  <2>3. [at |-> "asked", key |-> ip, payer |-> payer, window |-> Window(0), n |-> 0] \in Checks
    BY <2>1 DEF Checks, Stages, Keys
  <2> QED
    BY <1>2, <2>2, <2>3, CheckType DEF Arrive, TypeOK
<1>3. ASSUME NEW c \in Calls, Begin(c) PROVE TypeOK'
  <2>1. check[c] \in Checks
    BY <1>3, StageIsBusy DEF Begin, Stages
  <2>2. Window(now) \in Windows
    BY WindowsInUse DEF TypeOK
  <2>3. [check[c] EXCEPT !.at = "begun", !.window = Window(now)] \in Checks
    BY <2>1, <2>2 DEF Checks, Stages
  <2>4. attempts' \in Counters
    BY <1>3, <2>1, <2>2, RaisedIsCounter DEF Begin, TypeOK, Checks
  <2>5. check' = [check EXCEPT ![c] = [check[c] EXCEPT !.at = "begun", !.window = Window(now)]]
    BY <1>3 DEF Begin, TypeOK
  <2> QED
    BY <1>3, <2>3, <2>4, <2>5, CheckType DEF Begin, TypeOK
<1>4. ASSUME NEW c \in Calls, Upsert(c) PROVE TypeOK'
  <2>1. check[c] \in Checks
    BY <1>4, StageIsBusy DEF Upsert, Stages
  <2>2. NextCount(c) \in Nat
    BY <2>1 DEF NextCount, Checks, TypeOK, Counters
  <2>3. [check[c] EXCEPT !.at = "counted", !.n = NextCount(c)] \in Checks
    BY <2>1, <2>2 DEF Checks, Stages
  <2>4. check' = [check EXCEPT ![c] = [check[c] EXCEPT !.at = "counted", !.n = NextCount(c)]]
    BY <1>4 DEF Upsert, TypeOK
  <2> QED
    BY <1>4, <2>3, <2>4, CheckType DEF Upsert, TypeOK
<1>5. ASSUME NEW c \in Calls, NEW stage \in Stages, Goto(c, stage), check[c] \in Checks,
             now' = now, attempts' = attempts, count' \in Counters, admitted' \in Counters
      PROVE  TypeOK'
  <2>1. [check[c] EXCEPT !.at = stage] \in Checks
    BY <1>5 DEF Checks
  <2>2. check' = [check EXCEPT ![c] = [check[c] EXCEPT !.at = stage]]
    BY <1>5 DEF Goto, TypeOK
  <2> QED
    BY <1>5, <2>1, <2>2, CheckType DEF TypeOK
<1>6. ASSUME NEW c \in Calls, Commit(c) PROVE TypeOK'
  <2>1. check[c] \in Checks
    BY <1>6, StageIsBusy DEF Commit, Stages
  <2>2. count' \in Counters
    BY <1>6, <2>1, StoredIsCounter DEF Commit
  <2>3. admitted' \in Counters
    BY <1>6, <2>1, RaisedIsCounter DEF Commit, TypeOK, Checks
  <2> QED
    BY <1>6, <2>1, <2>2, <2>3, <1>5 DEF Commit, Stages
<1>7. ASSUME NEW c \in Calls, CommitUnheard(c) PROVE TypeOK'
  <2>1. check[c] \in Checks
    BY <1>7, StageIsBusy DEF CommitUnheard, Stages
  <2>2. count' \in Counters
    BY <1>7, <2>1, StoredIsCounter DEF CommitUnheard
  <2> QED
    BY <1>7, <2>1, <2>2, <1>5 DEF CommitUnheard, Stages, TypeOK
<1>8. ASSUME NEW c \in Calls, Fail(c) PROVE TypeOK'
  <2>1. check[c] \in Checks
    BY <1>8, StageIsBusy DEF Fail, Stages
  <2> QED
    BY <1>8, <2>1, <1>5 DEF Fail, Stages, TypeOK
<1>9. ASSUME NEW c \in Calls, CheckPayer(c) PROVE TypeOK'
  <2>1. check[c] \in Checks
    BY <1>9, StageIsBusy DEF CheckPayer, Stages
  <2>2. Window(0) \in Windows
    BY WindowsInUse, ClockAssumption DEF Times
  <2>3. [check[c] EXCEPT !.at = "asked", !.key = check[c].payer,
                         !.window = Window(0), !.n = 0] \in Checks
    BY <1>9, <2>1, <2>2 DEF CheckPayer, Checks, Stages, Keys
  <2>4. check' = [check EXCEPT ![c] = [check[c] EXCEPT !.at = "asked", !.key = check[c].payer,
                                                       !.window = Window(0), !.n = 0]]
    BY <1>9 DEF CheckPayer, TypeOK
  <2> QED
    BY <1>9, <2>3, <2>4, CheckType DEF CheckPayer, TypeOK
<1>10. ASSUME NEW c \in Calls, Leave(c) PROVE TypeOK'
  BY <1>10, CheckType DEF Leave, TypeOK
<1>11. CASE UNCHANGED vars
  BY <1>11 DEF vars, TypeOK, Counters, Checks, Windows, Times, Window
<1> QED
  BY <1>1, <1>2, <1>3, <1>4, <1>6, <1>7, <1>8, <1>9, <1>10, <1>11 DEF Next

\* Every variable keeps its type: a check is always of a key and a window in use,
\* also where a subscriber's call goes on from its address to its payer.
THEOREM TypeCorrect == Spec => []TypeOK
  BY InitType, NextType, PTL DEF Spec

-----------------------------------------------------------------------------
\* A row that has been counted and not committed has one owner, which has read the
\* committed count; and what has been admitted was counted, within the limit.
Counted(c) == check[c].at = "counted"
RowHasOneOwner == \A c, d \in Calls : Counted(c) /\ Counted(d) /\ SameRow(c, d) => c = d
OwnerIsCurrent == \A c \in Calls : Counted(c) => check[c].n = NextCount(c)
AdmittedWasCounted == \A k \in Keys, w \in Windows : admitted[k][w] <= count[k][w]
IInv == TypeOK /\ RowHasOneOwner /\ OwnerIsCurrent /\ AdmittedWasCounted /\ AdmittedWithinLimit

LEMMA LimitIsNat == \A k \in Keys : Limit(k) \in Nat
  BY LimitsAssumption DEF Limit

LEMMA InitIInv == Init => IInv
<1> SUFFICES ASSUME Init PROVE IInv
  OBVIOUS
<1>1. \A c \in Calls : ~Counted(c)
  BY DEF Init, Counted, NoCheck
<1>2. \A k \in Keys, w \in Windows : admitted[k][w] = 0 /\ count[k][w] = 0
  BY DEF Init
<1> QED
  BY <1>1, <1>2, InitType, LimitIsNat
     DEF IInv, RowHasOneOwner, OwnerIsCurrent, AdmittedWasCounted, AdmittedWithinLimit

\* A step that changes no counter, after which no check is counted that was not.
LEMMA QuietStep ==
  ASSUME IInv, TypeOK', UNCHANGED <<count, admitted>>,
         \A d \in Calls : Counted(d)' => Counted(d) /\ check'[d] = check[d]
  PROVE  IInv'
<1>1. RowHasOneOwner'
  BY DEF IInv, RowHasOneOwner, SameRow, Counted
<1>2. OwnerIsCurrent'
  BY DEF IInv, OwnerIsCurrent, NextCount, Counted
<1> QED
  BY <1>1, <1>2 DEF IInv, AdmittedWasCounted, AdmittedWithinLimit, Limit, Keys, Windows, Window, Times

LEMMA UpsertKeepsIInv ==
  ASSUME IInv, TypeOK', NEW c \in Calls, Upsert(c)
  PROVE  IInv'
<1>1. check[c] \in Checks
  BY StageIsBusy DEF Upsert, Stages, IInv
<1>2. /\ check'[c] = [check[c] EXCEPT !.at = "counted", !.n = NextCount(c)]
      /\ \A d \in Calls \ {c} : check'[d] = check[d]
  BY DEF Upsert, IInv, TypeOK
<1>3. /\ check'[c].key = check[c].key /\ check'[c].window = check[c].window
      /\ check'[c].n = NextCount(c)
  BY <1>1, <1>2 DEF Checks
<1>4. \A d \in Calls \ {c} : Counted(d) => ~SameRow(c, d)
  BY DEF Upsert, Locked, Counted
<1>5. ASSUME NEW d \in Calls, NEW e \in Calls, Counted(d)', Counted(e)', SameRow(d, e)', d # e
      PROVE  FALSE
  <2>1. SameRow(d, e) /\ SameRow(e, d)
    BY <1>2, <1>3, <1>5 DEF SameRow
  <2>2. (d # c => Counted(d)) /\ (e # c => Counted(e))
    BY <1>2, <1>5 DEF Counted
  <2> QED
    BY <1>4, <1>5, <2>1, <2>2 DEF IInv, RowHasOneOwner
<1>6. OwnerIsCurrent'
  BY <1>2, <1>3 DEF IInv, OwnerIsCurrent, Counted, NextCount, Upsert
<1> QED
  BY <1>5, <1>6 DEF Upsert, IInv, RowHasOneOwner, AdmittedWasCounted, AdmittedWithinLimit, Limit, Keys, Windows,
     Window, Times

\* A COMMIT, heard of or not: the count of one row becomes that of its owner.
LEMMA StoreKeepsOwners ==
  ASSUME IInv, NEW c \in Calls, Counted(c), count' = Stored(c),
         NEW stage \in Stages, stage # "counted", Goto(c, stage)
  PROVE  RowHasOneOwner' /\ OwnerIsCurrent'
<1>1. check[c] \in Checks
  BY StageIsBusy DEF Counted, Stages, IInv
<1>2. /\ check'[c].at = stage
      /\ \A d \in Calls \ {c} : check'[d] = check[d]
  BY <1>1 DEF Goto, IInv, TypeOK, Checks
<1>3. \A d \in Calls : Counted(d)' => d # c /\ Counted(d) /\ ~SameRow(c, d)
  BY <1>2 DEF IInv, RowHasOneOwner, Counted
<1>4. ASSUME NEW d \in Calls, Counted(d)' PROVE check'[d].n = NextCount(d)'
  <2>1. check[d] \in Checks
    BY <1>3, <1>4, StageIsBusy DEF Counted, Stages, IInv
  <2>2. count'[check[d].key][check[d].window] = count[check[d].key][check[d].window]
    BY <1>1, <1>3, <1>4, <2>1, StoredIsCounter DEF IInv, SameRow, Checks
  <2> QED
    BY <1>2, <1>3, <1>4, <2>2 DEF IInv, OwnerIsCurrent, NextCount
<1>5. ASSUME NEW d \in Calls, NEW e \in Calls, Counted(d)', Counted(e)', SameRow(d, e)'
      PROVE  d = e
  <2>1. Counted(d) /\ Counted(e) /\ check'[d] = check[d] /\ check'[e] = check[e]
    BY <1>2, <1>3, <1>5
  <2> QED
    BY <1>5, <2>1 DEF IInv, RowHasOneOwner, SameRow
<1> QED
  BY <1>4, <1>5 DEF OwnerIsCurrent, RowHasOneOwner

\* What is stored is one more than was committed.
LEMMA StoredIsMore ==
  ASSUME IInv, NEW c \in Calls, Counted(c)
  PROVE  /\ check[c] \in Checks
         /\ \A k \in Keys, w \in Windows :
              Stored(c)[k][w] = IF k = check[c].key /\ w = check[c].window
                                THEN count[k][w] + 1 ELSE count[k][w]
<1>1. check[c] \in Checks
  BY StageIsBusy DEF Counted, Stages, IInv
<1> QED
  BY <1>1, StoredIsCounter DEF IInv, OwnerIsCurrent, NextCount

LEMMA CommitKeepsIInv ==
  ASSUME IInv, TypeOK', NEW c \in Calls, Commit(c)
  PROVE  IInv'
<1>1. Counted(c) /\ count' = Stored(c)
  BY DEF Commit, Counted
<1>2. PICK stage \in Stages : stage # "counted" /\ Goto(c, stage)
  BY DEF Commit, Stages
<1>3. RowHasOneOwner' /\ OwnerIsCurrent'
  BY <1>1, <1>2, StoreKeepsOwners
<1> DEFINE k == check[c].key
           w == check[c].window
<1>4. check[c] \in Checks /\ k \in Keys /\ w \in Windows
  BY <1>1, StoredIsMore DEF Checks
<1>5. ASSUME NEW j \in Keys, NEW v \in Windows
      PROVE  admitted'[j][v] <= count'[j][v] /\ admitted'[j][v] <= Limit(j)
  <2>1. /\ admitted[j][v] \in Nat /\ count[j][v] \in Nat /\ Limit(j) \in Nat
        /\ admitted[j][v] <= count[j][v] /\ admitted[j][v] <= Limit(j)
    BY LimitIsNat DEF IInv, AdmittedWasCounted, AdmittedWithinLimit, TypeOK, Counters
  <2>2. count'[j][v] = IF j = k /\ v = w THEN count[j][v] + 1 ELSE count[j][v]
    BY <1>1, StoredIsMore
  <2>3. CASE WithinLimit(c)
    <3>1. admitted'[j][v] = IF j = k /\ v = w THEN admitted[j][v] + 1 ELSE admitted[j][v]
      BY <2>3, <1>4, RaisedIsCounter DEF Commit, IInv, TypeOK
    <3>2. j = k /\ v = w => count[j][v] + 1 <= Limit(j)
      BY <2>3, <1>1 DEF WithinLimit, IInv, OwnerIsCurrent, NextCount
    <3> QED
      BY <2>1, <2>2, <3>1, <3>2
  <2>4. CASE ~WithinLimit(c)
    <3>1. admitted' = admitted
      BY <2>4 DEF Commit
    <3> QED
      BY <2>1, <2>2, <3>1
  <2> QED
    BY <2>3, <2>4
<1> QED
  BY <1>3, <1>5 DEF IInv, AdmittedWasCounted, AdmittedWithinLimit, Limit, Keys, Windows, Window, Times

LEMMA CommitUnheardKeepsIInv ==
  ASSUME IInv, TypeOK', NEW c \in Calls, CommitUnheard(c)
  PROVE  IInv'
<1>1. Counted(c) /\ count' = Stored(c) /\ admitted' = admitted /\ Goto(c, "failed")
  BY DEF CommitUnheard, Counted
<1>2. RowHasOneOwner' /\ OwnerIsCurrent'
  BY <1>1, StoreKeepsOwners DEF Stages
<1>3. ASSUME NEW j \in Keys, NEW v \in Windows
      PROVE  admitted'[j][v] <= count'[j][v] /\ admitted'[j][v] <= Limit(j)
  <2>1. /\ admitted[j][v] \in Nat /\ count[j][v] \in Nat
        /\ admitted[j][v] <= count[j][v] /\ admitted[j][v] <= Limit(j)
    BY DEF IInv, AdmittedWasCounted, AdmittedWithinLimit, TypeOK, Counters
  <2>2. count'[j][v] \in {count[j][v], count[j][v] + 1}
    BY <1>1, StoredIsMore
  <2> QED
    BY <1>1, <2>1, <2>2
<1> QED
  BY <1>2, <1>3 DEF IInv, AdmittedWasCounted, AdmittedWithinLimit, Limit, Keys, Windows, Window, Times

LEMMA NextIInv == IInv /\ [Next]_vars => IInv'
<1> SUFFICES ASSUME IInv, [Next]_vars PROVE IInv'
  OBVIOUS
<1>t. TypeOK /\ TypeOK'
  BY NextType DEF IInv
<1>1. CASE Tick
  BY <1>1, <1>t, QuietStep DEF Tick, Counted
<1>2. ASSUME NEW c \in Calls, \A d \in Calls \ {c} : check'[d] = check[d], ~Counted(c)',
             UNCHANGED <<count, admitted>>
      PROVE  IInv'
  <2>1. \A d \in Calls : Counted(d)' => Counted(d) /\ check'[d] = check[d]
    BY <1>2 DEF Counted
  <2> QED
    BY <1>2, <1>t, <2>1, QuietStep
<1>3. ASSUME NEW c \in Calls, Arrive(c) PROVE IInv'
  <2>1. (\A d \in Calls \ {c} : check'[d] = check[d]) /\ check'[c].at = "asked"
    BY <1>3, <1>t DEF Arrive, TypeOK
  <2> QED
    BY <1>2, <1>3, <2>1 DEF Arrive, Counted
<1>4. ASSUME NEW c \in Calls,
             Begin(c) \/ Fail(c) \/ CheckPayer(c)
      PROVE  IInv'
  <2>1. check[c] \in Checks
    BY <1>4, <1>t, StageIsBusy DEF Begin, Fail, CheckPayer, Stages
  <2>2. check'[c].at # "counted"
    BY <1>4, <1>t, <2>1 DEF Begin, Fail, CheckPayer, Goto, TypeOK, Checks
  <2>3. \A d \in Calls \ {c} : check'[d] = check[d]
    BY <1>4, <1>t DEF Begin, Fail, CheckPayer, Goto, TypeOK
  <2>4. UNCHANGED <<count, admitted>>
    BY <1>4 DEF Begin, Fail, CheckPayer
  <2> QED
    BY <1>2, <2>2, <2>3, <2>4 DEF Counted
<1>5. ASSUME NEW c \in Calls, Leave(c) PROVE IInv'
  <2>1. (\A d \in Calls \ {c} : check'[d] = check[d]) /\ check'[c].at # "counted"
    BY <1>5, <1>t DEF Leave, TypeOK, NoCheck
  <2> QED
    BY <1>2, <1>5, <2>1 DEF Leave, Counted
<1>6. CASE UNCHANGED vars
  BY <1>6, <1>t, QuietStep DEF vars, Counted
<1> QED
  BY <1>1, <1>3, <1>4, <1>5, <1>6, <1>t, UpsertKeepsIInv, CommitKeepsIInv,
     CommitUnheardKeepsIInv DEF Next

\* For any limits and any number of concurrent calls, no more than the limit pass
\* the check in one window (auth/dual.rs:57, 79, db.rs:243-257).
THEOREM LimitHolds == Spec => []AdmittedWithinLimit
<1>1. IInv => AdmittedWithinLimit
  BY DEF IInv
<1> QED
  BY InitIInv, NextIInv, <1>1, PTL DEF Spec

-----------------------------------------------------------------------------
\* A check that has begun and not ended will raise the count by one at most; those
\* that have been counted, and those that may still be, are among the attempts.
Pending(k, w) ==
  {c \in Calls : check[c].at \in {"begun", "counted"} /\ check[c].key = k /\ check[c].window = w}
AttemptsCoverCounts ==
  \A k \in Keys, w \in Windows :
    IsFiniteSet(Pending(k, w)) /\ count[k][w] + Cardinality(Pending(k, w)) <= attempts[k][w]
RefusedInv == AttemptsCoverCounts /\ RefusedOnlyOverLimit

LEMMA InitRefused == Init => RefusedInv
<1> SUFFICES ASSUME Init PROVE RefusedInv
  OBVIOUS
<1>1. \A c \in Calls : check[c].at = "idle"
  BY DEF Init, NoCheck
<1>2. \A k, w : Pending(k, w) = {}
  BY <1>1 DEF Pending
<1>3. \A k \in Keys, w \in Windows : count[k][w] = 0 /\ attempts[k][w] = 0
  BY DEF Init
<1>4. AttemptsCoverCounts
  <2>1. \A k, w : IsFiniteSet(Pending(k, w)) /\ Cardinality(Pending(k, w)) = 0
    BY <1>2, FS_EmptySet
  <2> QED
    BY <1>3, <2>1 DEF AttemptsCoverCounts
<1> QED
  BY <1>1, <1>4 DEF RefusedInv, RefusedOnlyOverLimit

\* What a step of one call does to the checks under way, and the counts it allows.
LEMMA PendingWithout ==
  ASSUME TypeOK, NEW c \in Calls, \A d \in Calls \ {c} : check'[d] = check[d],
         check'[c].at \notin {"begun", "counted"}, NEW k, NEW w
  PROVE  Pending(k, w)' = Pending(k, w) \ {c}
  BY DEF Pending

\* A step after which no more is under way, and that raises no count.
LEMMA NoMoreCounts ==
  ASSUME IInv, RefusedInv, NEW c \in Calls, \A d \in Calls \ {c} : check'[d] = check[d],
         check'[c].at \notin {"begun", "counted", "exceeded"}, UNCHANGED <<count, attempts>>
  PROVE  RefusedInv'
<1>1. AttemptsCoverCounts'
  <2> SUFFICES ASSUME NEW k \in Keys, NEW w \in Windows
      PROVE  /\ IsFiniteSet(Pending(k, w)')
             /\ count[k][w] + Cardinality(Pending(k, w)') <= attempts[k][w]
    BY DEF AttemptsCoverCounts, Keys, Windows, Window, Times
  <2>1. Pending(k, w)' = Pending(k, w) \ {c}
    BY PendingWithout DEF IInv
  <2>2. IsFiniteSet(Pending(k, w)) /\ count[k][w] + Cardinality(Pending(k, w)) <= attempts[k][w]
    BY DEF RefusedInv, AttemptsCoverCounts
  <2>3. IsFiniteSet(Pending(k, w)') /\ Cardinality(Pending(k, w)') <= Cardinality(Pending(k, w))
    BY <2>1, <2>2, FS_Subset
  <2>4. Cardinality(Pending(k, w)) \in Nat /\ Cardinality(Pending(k, w)') \in Nat
    BY <2>2, <2>3, FS_CardinalityType
  <2>5. count[k][w] \in Nat /\ attempts[k][w] \in Nat
    BY DEF IInv, TypeOK, Counters
  <2> QED
    BY <2>2, <2>3, <2>4, <2>5
<1>2. RefusedOnlyOverLimit'
  BY DEF RefusedInv, RefusedOnlyOverLimit, Limit
<1> QED
  BY <1>1, <1>2 DEF RefusedInv

LEMMA BeginKeepsRefused ==
  ASSUME IInv, RefusedInv, NEW c \in Calls, Begin(c)
  PROVE  RefusedInv'
<1>1. check[c] \in Checks /\ check[c].at = "asked"
  BY StageIsBusy DEF IInv, Begin, Stages
<1>2. /\ check'[c].at = "begun" /\ check'[c].key = check[c].key /\ check'[c].window = Window(now)
      /\ \A d \in Calls \ {c} : check'[d] = check[d]
  BY <1>1 DEF Begin, IInv, TypeOK, Checks
<1>3. check[c].key \in Keys /\ Window(now) \in Windows
  BY <1>1, WindowsInUse DEF IInv, TypeOK, Checks
<1>4. \A j \in Keys, v \in Windows :
        attempts'[j][v] = IF j = check[c].key /\ v = Window(now) THEN attempts[j][v] + 1
                          ELSE attempts[j][v]
  BY <1>3, RaisedIsCounter DEF Begin, IInv, TypeOK
<1>5. AttemptsCoverCounts'
  <2> SUFFICES ASSUME NEW k \in Keys, NEW w \in Windows
      PROVE  /\ IsFiniteSet(Pending(k, w)')
             /\ count[k][w] + Cardinality(Pending(k, w)') <= attempts'[k][w]
    BY DEF AttemptsCoverCounts, Begin, Keys, Windows, Window, Times
  <2>1. c \notin Pending(k, w)
    BY <1>1 DEF Pending
  <2>2. Pending(k, w)' = IF k = check[c].key /\ w = Window(now) THEN Pending(k, w) \cup {c}
                         ELSE Pending(k, w)
    BY <1>2, <2>1 DEF Pending
  <2>3. IsFiniteSet(Pending(k, w)) /\ count[k][w] + Cardinality(Pending(k, w)) <= attempts[k][w]
    BY DEF RefusedInv, AttemptsCoverCounts
  <2>4. /\ IsFiniteSet(Pending(k, w) \cup {c})
        /\ Cardinality(Pending(k, w) \cup {c}) = Cardinality(Pending(k, w)) + 1
        /\ Cardinality(Pending(k, w)) \in Nat
    BY <2>1, <2>3, FS_AddElement, FS_CardinalityType
  <2>5. count[k][w] \in Nat /\ attempts[k][w] \in Nat
    BY DEF IInv, TypeOK, Counters
  <2>6. CASE k = check[c].key /\ w = Window(now)
    BY <1>4, <2>2, <2>3, <2>4, <2>5, <2>6
  <2>7. CASE ~(k = check[c].key /\ w = Window(now))
    BY <1>4, <2>2, <2>3, <2>7
  <2> QED
    BY <2>6, <2>7
<1>6. RefusedOnlyOverLimit'
  <2> SUFFICES ASSUME NEW d \in Calls, check'[d].at = "exceeded"
               PROVE  attempts'[check'[d].key][check'[d].window] > Limit(check'[d].key)
    BY DEF RefusedOnlyOverLimit, Limit
  <2>1. check'[d] = check[d]
    BY <1>2
  <2>2. check[d] \in Checks
    BY <2>1, StageIsBusy DEF IInv, Stages
  <2>3. /\ check[d].key \in Keys /\ check[d].window \in Windows
        /\ attempts[check[d].key][check[d].window] > Limit(check[d].key)
    BY <2>1, <2>2 DEF Checks, RefusedInv, RefusedOnlyOverLimit
  <2>4. attempts[check[d].key][check[d].window] \in Nat /\ Limit(check[d].key) \in Nat
    BY <2>3, LimitIsNat DEF IInv, TypeOK, Counters
  <2> QED
    BY <1>4, <2>1, <2>3, <2>4
<1> QED
  BY <1>5, <1>6 DEF RefusedInv

\* A COMMIT, heard of or not, turns a check under way into one more in the count.
LEMMA StoreKeepsRefused ==
  ASSUME IInv, RefusedInv, NEW c \in Calls, Commit(c) \/ CommitUnheard(c)
  PROVE  RefusedInv'
<1>1. Counted(c) /\ count' = Stored(c) /\ attempts' = attempts
  BY DEF Commit, CommitUnheard, Counted
<1>2. check[c] \in Checks
  BY <1>1, StoredIsMore
<1>3. /\ \A d \in Calls \ {c} : check'[d] = check[d]
      /\ check'[c].at \in {"within", "exceeded", "failed"}
      /\ check'[c].key = check[c].key /\ check'[c].window = check[c].window
      /\ check'[c].at = "exceeded" => check[c].n > Limit(check[c].key)
  <2>1. PICK stage \in {"within", "exceeded", "failed"} :
          Goto(c, stage) /\ (stage = "exceeded" => ~WithinLimit(c))
    BY DEF Commit, CommitUnheard
  <2>2. check'[c] = [check[c] EXCEPT !.at = stage] /\ \A d \in Calls \ {c} : check'[d] = check[d]
    BY <2>1 DEF Goto, IInv, TypeOK
  <2>3. check[c].n \in Nat /\ Limit(check[c].key) \in Nat
    BY <1>2, LimitIsNat DEF Checks
  <2> QED
    BY <1>2, <2>1, <2>2, <2>3 DEF Checks, WithinLimit
<1>4. c \in Pending(check[c].key, check[c].window)
  BY <1>1 DEF Pending, Counted
<1>5. ASSUME NEW k \in Keys, NEW w \in Windows
      PROVE  /\ IsFiniteSet(Pending(k, w)')
             /\ count'[k][w] + Cardinality(Pending(k, w)') <= attempts[k][w]
             /\ k = check[c].key /\ w = check[c].window => count[k][w] + 1 <= attempts[k][w]
  <2>1. Pending(k, w)' = Pending(k, w) \ {c}
    BY <1>3, PendingWithout DEF IInv
  <2>2. IsFiniteSet(Pending(k, w)) /\ count[k][w] + Cardinality(Pending(k, w)) <= attempts[k][w]
    BY DEF RefusedInv, AttemptsCoverCounts
  <2>3. /\ IsFiniteSet(Pending(k, w) \ {c})
        /\ Cardinality(Pending(k, w) \ {c}) = IF c \in Pending(k, w) THEN Cardinality(Pending(k, w)) - 1
                                              ELSE Cardinality(Pending(k, w))
        /\ Cardinality(Pending(k, w)) \in Nat /\ Cardinality(Pending(k, w) \ {c}) \in Nat
    BY <2>2, FS_RemoveElement, FS_CardinalityType
  <2>4. count[k][w] \in Nat /\ attempts[k][w] \in Nat
    BY DEF IInv, TypeOK, Counters
  <2>5. count'[k][w] = IF k = check[c].key /\ w = check[c].window THEN count[k][w] + 1 ELSE count[k][w]
    BY <1>1, StoredIsMore
  <2>6. k = check[c].key /\ w = check[c].window => c \in Pending(k, w)
    BY <1>4
  <2> QED
    BY <2>1, <2>2, <2>3, <2>4, <2>5, <2>6
<1>6. AttemptsCoverCounts'
  BY <1>1, <1>5 DEF AttemptsCoverCounts, Keys, Windows, Window, Times
<1>7. RefusedOnlyOverLimit'
  <2> SUFFICES ASSUME NEW d \in Calls, check'[d].at = "exceeded"
               PROVE  attempts[check'[d].key][check'[d].window] > Limit(check'[d].key)
    BY <1>1 DEF RefusedOnlyOverLimit, Limit
  <2>1. CASE d # c
    BY <1>3, <2>1 DEF RefusedInv, RefusedOnlyOverLimit
  <2>2. CASE d = c
    <3> DEFINE k == check[c].key
               w == check[c].window
    <3>1. k \in Keys /\ w \in Windows /\ check[c].n = count[k][w] + 1
      BY <1>1, <1>2 DEF Checks, IInv, OwnerIsCurrent, NextCount
    <3>2. count[k][w] + 1 <= attempts[k][w] /\ count[k][w] \in Nat /\ attempts[k][w] \in Nat
      BY <1>5, <3>1 DEF IInv, TypeOK, Counters
    <3>3. check[c].n > Limit(k) /\ Limit(k) \in Nat
      BY <1>3, <2>2, <3>1, LimitIsNat
    <3> QED
      BY <1>3, <2>2, <3>1, <3>2, <3>3
  <2> QED
    BY <2>1, <2>2
<1> QED
  BY <1>6, <1>7 DEF RefusedInv

LEMMA NextRefused == IInv /\ RefusedInv /\ [Next]_vars => RefusedInv'
<1> SUFFICES ASSUME IInv, RefusedInv, [Next]_vars PROVE RefusedInv'
  OBVIOUS
<1>1. CASE UNCHANGED <<count, attempts, check>>
  BY <1>1 DEF RefusedInv, AttemptsCoverCounts, RefusedOnlyOverLimit, Pending, Limit, Keys, Windows,
     Window, Times
<1>2. ASSUME NEW c \in Calls, Arrive(c) \/ Fail(c) \/ CheckPayer(c) \/ Leave(c) PROVE RefusedInv'
  <2>1. /\ \A d \in Calls \ {c} : check'[d] = check[d]
        /\ UNCHANGED <<count, attempts>>
    BY <1>2 DEF Arrive, Fail, CheckPayer, Leave, Goto, IInv, TypeOK
  <2>2. check'[c].at \in {"asked", "failed", "idle"}
    <3>1. CASE Arrive(c) \/ Leave(c)
      BY <3>1 DEF Arrive, Leave, NoCheck, IInv, TypeOK
    <3>2. CASE Fail(c) \/ CheckPayer(c)
      <4>1. check[c] \in Checks
        BY <3>2, StageIsBusy DEF Fail, CheckPayer, Stages, IInv
      <4> QED
        BY <3>2, <4>1 DEF Fail, CheckPayer, Goto, IInv, TypeOK, Checks
    <3> QED
      BY <1>2, <3>1, <3>2
  <2> QED
    BY <2>1, <2>2, NoMoreCounts
<1>3. ASSUME NEW c \in Calls, Upsert(c) PROVE RefusedInv'
  <2>1. check[c] \in Checks
    BY <1>3, StageIsBusy DEF Upsert, Stages, IInv
  <2>2. /\ check'[c].at = "counted" /\ check[c].at = "begun"
        /\ check'[c].key = check[c].key /\ check'[c].window = check[c].window
        /\ \A d \in Calls \ {c} : check'[d] = check[d]
    BY <1>3, <2>1 DEF Upsert, IInv, TypeOK, Checks
  <2>3. \A k, w : Pending(k, w)' = Pending(k, w)
    BY <2>2 DEF Pending
  <2> QED
    BY <1>3, <2>2, <2>3 DEF Upsert, RefusedInv, AttemptsCoverCounts, RefusedOnlyOverLimit, Limit,
       Keys, Windows, Window, Times
<1> QED
  BY <1>1, <1>2, <1>3, BeginKeepsRefused, StoreKeepsRefused DEF Next, Tick, vars

\* A call is refused only if its window has seen more checks than the limit, for any
\* limits and any number of calls (auth/dual.rs:57, 79): no check counts twice.
THEOREM RefusalsAreDue == Spec => []RefusedOnlyOverLimit
<1>1. RefusedInv => RefusedOnlyOverLimit
  BY DEF RefusedInv
<1> QED
  BY InitIInv, NextIInv, InitRefused, NextRefused, <1>1, PTL DEF Spec

-----------------------------------------------------------------------------
\* Every step of the transactions is a step of the counter, or none of its steps.
Request == [c \in Calls |-> RequestOf(check[c])]

LEMMA InitCounts == Init => Counter!Init
<1> SUFFICES ASSUME Init PROVE Counter!Init
  OBVIOUS
<1>1. Window(now) = 0
  BY ClockAssumption DEF Init, Window
<1>2. \A c \in Calls : RequestOf(check[c]) = [at |-> "idle"]
  BY DEF Init, NoCheck, RequestOf
<1>3. Request = [c \in Calls |-> Counter!Idle]
  BY <1>2 DEF Request, Counter!Idle
<1> QED
  BY <1>1, <1>3 DEF Init, Counter!Init, Request

\* Minutes follow each other.
LEMMA TickCounts == TypeOK /\ Tick => [Counter!Next]_Counter!vars
<1> SUFFICES ASSUME TypeOK, Tick PROVE [Counter!Next]_Counter!vars
  OBVIOUS
<1>1. now \in Nat /\ now' = now + 1
  BY ClockAssumption DEF TypeOK, Tick, Times
<1>2. (now + 1) \div Minute \in {now \div Minute, now \div Minute + 1}
  BY <1>1, ClockAssumption
<1>3. Window(now)' = Window(now) \/ Window(now)' = Window(now) + 1
  BY <1>1, <1>2 DEF Window
<1>4. CASE Window(now)' = Window(now)
  BY <1>4 DEF Tick, Counter!vars
<1>5. CASE Window(now)' = Window(now) + 1
  BY <1>5 DEF Tick, Counter!Next, Counter!Turn
<1> QED
  BY <1>3, <1>4, <1>5

\* A call that changes only its own check changes only its own request.
LEMMA OwnRequest ==
  ASSUME TypeOK, NEW c \in Calls, NEW x, check' = [check EXCEPT ![c] = x]
  PROVE  /\ Request' = [Request EXCEPT ![c] = RequestOf(x)]
         /\ RequestOf(check[c]) = RequestOf(x) => Request' = Request
         /\ Request[c] = RequestOf(check[c])
  BY DEF TypeOK, Request

\* A transaction that has begun is a request of its key and window.
LEMMA UnderWay ==
  ASSUME TypeOK, NEW c \in Calls, check[c].at \in {"begun", "counted"}
  PROVE  /\ check[c] \in Checks
         /\ Request[c] = [at |-> "made", key |-> check[c].key, window |-> check[c].window]
<1>1. check[c] \in Checks
  BY StageIsBusy DEF Stages
<1> QED
  BY <1>1 DEF Request, RequestOf

LEMMA BeginCounts ==
  ASSUME TypeOK, NEW c \in Calls, Begin(c)
  PROVE  Counter!Next
<1> DEFINE x == [check[c] EXCEPT !.at = "begun", !.window = Window(now)]
<1>1. check[c] \in Checks /\ check[c].at = "asked"
  BY StageIsBusy DEF Begin, Stages
<1>2. check' = [check EXCEPT ![c] = x]
  BY DEF Begin, TypeOK
<1>3. RequestOf(x) = [at |-> "made", key |-> check[c].key, window |-> Window(now)]
  BY <1>1 DEF RequestOf, Checks
<1>4. Request[c] = [at |-> "idle"]
  BY <1>1, <1>2, OwnRequest DEF RequestOf
<1>5. Request' = [Request EXCEPT ![c] = RequestOf(x)]
  BY <1>2, OwnRequest
<1>6. check[c].key \in Keys /\ UNCHANGED <<now, count>>
  BY <1>1 DEF Begin, Checks
<1>7. Counter!Make(c, check[c].key)
  BY <1>3, <1>4, <1>5, <1>6 DEF Counter!Make, Counter!Idle, Request, Window
<1> QED
  BY <1>6, <1>7 DEF Counter!Next

\* The COMMIT, heard of or not, counts what is committed and one more.
LEMMA StoreCounts ==
  ASSUME IInv, NEW c \in Calls, Counted(c), count' = Stored(c), now' = now,
         NEW stage \in {"within", "exceeded", "failed"}, Goto(c, stage)
  PROVE  /\ Request[c] = [at |-> "made", key |-> check[c].key, window |-> check[c].window]
         /\ Request' = [Request EXCEPT ![c] = [at |-> stage]]
         /\ count' = [count EXCEPT ![check[c].key][check[c].window] = @ + 1]
         /\ Window(now)' = Window(now)
<1> DEFINE x == [check[c] EXCEPT !.at = stage]
<1>1. /\ check[c] \in Checks
      /\ Request[c] = [at |-> "made", key |-> check[c].key, window |-> check[c].window]
  BY UnderWay DEF Counted, IInv
<1>2. check' = [check EXCEPT ![c] = x]
  BY DEF Goto, IInv, TypeOK
<1>3. RequestOf(x) = [at |-> stage]
  BY <1>1 DEF RequestOf, Checks
<1>4. Request' = [Request EXCEPT ![c] = [at |-> stage]]
  <2>1. Request' = [Request EXCEPT ![c] = RequestOf(x)]
    BY <1>2, OwnRequest DEF IInv
  <2> QED
    BY <1>3, <2>1
<1>5. check[c].n = count[check[c].key][check[c].window] + 1
  BY DEF IInv, OwnerIsCurrent, NextCount
<1>6. count' = [count EXCEPT ![check[c].key][check[c].window] = @ + 1]
  BY <1>1, <1>5 DEF Stored, IInv, TypeOK, Counters, Checks
<1> QED
  BY <1>1, <1>4, <1>6 DEF Window

LEMMA CommitCounts ==
  ASSUME IInv, NEW c \in Calls, Commit(c)
  PROVE  Counter!Next
<1> DEFINE k == check[c].key
           w == check[c].window
           stage == IF WithinLimit(c) THEN "within" ELSE "exceeded"
<1>1. Counted(c) /\ count' = Stored(c) /\ now' = now /\ Goto(c, stage)
  BY DEF Commit, Counted
<1>2. /\ Request[c] = [at |-> "made", key |-> k, window |-> w]
      /\ Request' = [Request EXCEPT ![c] = [at |-> stage]]
      /\ count' = [count EXCEPT ![k][w] = @ + 1]
      /\ Window(now)' = Window(now)
  BY <1>1, StoreCounts
<1>3. /\ k \in Keys /\ w \in Windows
      /\ count[k][w] \in Nat /\ Limit(k) \in Nat /\ check[c].n = count[k][w] + 1
  <2>1. check[c] \in Checks
    BY <1>1, StoredIsMore
  <2>2. k \in Keys /\ w \in Windows
    BY <2>1 DEF Checks
  <2> QED
    BY <1>1, <2>2, LimitIsNat DEF IInv, OwnerIsCurrent, NextCount, TypeOK, Counters
<1>4. WithinLimit(c) <=> count[k][w] < Limit(k)
  BY <1>3 DEF WithinLimit
<1>5. WithinLimit(c) <=> Counter!HasRoom(k, w)
  BY <1>3, <1>4 DEF Counter!HasRoom
<1>6. Request[c].at = "made" /\ Request[c].key = k /\ Request[c].window = w
  BY <1>2
<1>7. Request' = [Request EXCEPT ![c] = Counter!Told(
        IF Counter!HasRoom(Request[c].key, Request[c].window) THEN "within" ELSE "exceeded")]
  BY <1>2, <1>5, <1>6 DEF Counter!Told
<1>8. Counter!CountIn(Request[c].key, Request[c].window)
  BY <1>2, <1>6 DEF Counter!CountIn
<1>9. Counter!Decide(c)
  BY <1>2, <1>6, <1>7, <1>8 DEF Counter!Decide, Request
<1> QED
  BY <1>9 DEF Counter!Next

LEMMA CommitUnheardCounts ==
  ASSUME IInv, NEW c \in Calls, CommitUnheard(c)
  PROVE  Counter!Next
<1>1. Counted(c) /\ count' = Stored(c) /\ now' = now /\ Goto(c, "failed")
  BY DEF CommitUnheard, Counted
<1>2. /\ Request[c] = [at |-> "made", key |-> check[c].key, window |-> check[c].window]
      /\ Request' = [Request EXCEPT ![c] = [at |-> "failed"]]
      /\ count' = [count EXCEPT ![check[c].key][check[c].window] = @ + 1]
      /\ Window(now)' = Window(now)
  BY <1>1, StoreCounts
<1>3. Request[c].at = "made" /\ Counter!CountIn(Request[c].key, Request[c].window)
  BY <1>2 DEF Counter!CountIn
<1>4. Request' = [Request EXCEPT ![c] = Counter!Told("failed")]
  BY <1>2 DEF Counter!Told
<1>5. Counter!Lose(c)
  BY <1>2, <1>3, <1>4 DEF Counter!Lose, Request
<1> QED
  BY <1>5 DEF Counter!Next

\* What fails before its COMMIT leaves no trace in the count.
LEMMA FailCounts ==
  ASSUME TypeOK, NEW c \in Calls, Fail(c)
  PROVE  Counter!Next
<1> DEFINE x == [check[c] EXCEPT !.at = "failed"]
<1>1. check[c] \in Checks /\ check[c].at \in {"asked", "begun", "counted"}
  BY StageIsBusy DEF Fail, Stages
<1>2. check' = [check EXCEPT ![c] = x]
  BY DEF Fail, Goto, TypeOK
<1>3. RequestOf(x) = [at |-> "failed"]
  BY <1>1 DEF RequestOf, Checks
<1>4. Request' = [Request EXCEPT ![c] = RequestOf(x)]
  BY <1>2, OwnRequest
<1>5. Request' = [Request EXCEPT ![c] = Counter!Told("failed")]
  BY <1>3, <1>4 DEF Counter!Told
<1>6. Request[c].at \in {"idle", "made"}
  <2>1. Request[c] = RequestOf(check[c])
    BY DEF Request
  <2> QED
    BY <1>1, <2>1 DEF RequestOf
<1>7. UNCHANGED <<now, count>>
  BY DEF Fail
<1>8. Counter!Miss(c)
  BY <1>5, <1>6, <1>7 DEF Counter!Miss, Request, Window
<1> QED
  BY <1>8 DEF Counter!Next

\* A call that goes on to its payer's limit, or that ends, is no longer a request.
LEMMA EndCounts ==
  ASSUME TypeOK, NEW c \in Calls, CheckPayer(c) \/ Leave(c)
  PROVE  [Counter!Next]_Counter!vars
<1>1. Request' = [Request EXCEPT ![c] = [at |-> "idle"]]
  <2>1. CASE CheckPayer(c)
    <3> DEFINE y == [check[c] EXCEPT !.at = "asked", !.key = check[c].payer,
                                     !.window = Window(0), !.n = 0]
    <3>1. check[c] \in Checks
      BY <2>1, StageIsBusy DEF CheckPayer, Stages
    <3>2. check' = [check EXCEPT ![c] = y]
      BY <2>1 DEF CheckPayer, TypeOK
    <3>3. RequestOf(y) = [at |-> "idle"]
      BY <3>1 DEF RequestOf, Checks
    <3>4. Request' = [Request EXCEPT ![c] = RequestOf(y)]
      BY <3>2, OwnRequest
    <3> QED
      BY <3>3, <3>4
  <2>2. CASE Leave(c)
    <3>1. Request' = [Request EXCEPT ![c] = RequestOf(NoCheck)]
      BY <2>2, OwnRequest DEF Leave
    <3>2. RequestOf(NoCheck) = [at |-> "idle"]
      BY DEF NoCheck, RequestOf
    <3> QED
      BY <3>1, <3>2
  <2> QED
    BY <2>1, <2>2
<1>2. UNCHANGED <<now, count>>
  BY DEF CheckPayer, Leave
<1>3. CASE Request[c] = [at |-> "idle"]
  <2>1. Request' = Request
    BY <1>1, <1>3 DEF Request
  <2> QED
    BY <1>2, <2>1 DEF Counter!vars, Request, Window
<1>4. CASE Request[c] # [at |-> "idle"]
  <2>1. Counter!Forget(c)
    BY <1>1, <1>2, <1>4 DEF Counter!Forget, Counter!Idle, Request, Window
  <2> QED
    BY <2>1 DEF Counter!Next
<1> QED
  BY <1>3, <1>4

\* To the counter nothing happens before the BEGIN, nor at the upsert.
LEMMA UncountedSteps ==
  ASSUME TypeOK, NEW c \in Calls, Arrive(c) \/ Upsert(c)
  PROVE  UNCHANGED Counter!vars
<1>1. Request' = Request
  <2>1. CASE Arrive(c)
    <3>1. PICK ip, payer :
            check' = [check EXCEPT ![c] = [at |-> "asked", key |-> ip, payer |-> payer,
                                           window |-> Window(0), n |-> 0]]
      BY <2>1 DEF Arrive
    <3>2. RequestOf([at |-> "asked", key |-> ip, payer |-> payer, window |-> Window(0), n |-> 0])
            = RequestOf(NoCheck)
      BY DEF RequestOf, NoCheck
    <3> QED
      BY <2>1, <3>1, <3>2, OwnRequest DEF Arrive
  <2>2. CASE Upsert(c)
    <3> DEFINE y == [check[c] EXCEPT !.at = "counted", !.n = NextCount(c)]
    <3>1. check[c] \in Checks /\ check[c].at = "begun"
      BY <2>2, StageIsBusy DEF Upsert, Stages
    <3>2. check' = [check EXCEPT ![c] = y]
      BY <2>2 DEF Upsert, TypeOK
    <3>3. RequestOf(y) = RequestOf(check[c])
      BY <3>1 DEF RequestOf, Checks
    <3> QED
      BY <3>2, <3>3, OwnRequest
  <2> QED
    BY <2>1, <2>2
<1>2. UNCHANGED <<now, count>>
  BY DEF Arrive, Upsert
<1> QED
  BY <1>1, <1>2 DEF Counter!vars, Request, Window

LEMMA StepCounts == IInv /\ [Next]_vars => [Counter!Next]_Counter!vars
<1> SUFFICES ASSUME IInv, [Next]_vars PROVE [Counter!Next]_Counter!vars
  OBVIOUS
<1>1. TypeOK
  BY DEF IInv
<1>2. CASE UNCHANGED vars
  BY <1>2 DEF vars, Counter!vars
<1> QED
  BY <1>1, <1>2, TickCounts, BeginCounts, CommitCounts, CommitUnheardCounts, FailCounts,
     EndCounts, UncountedSteps DEF Next

\* For any number of calls on any number of instances, the transactions around the
\* upsert (db.rs:243-257, 590-616) count and decide like one counter that is asked
\* once for each check.
THEOREM ChecksCountAtOnce == Spec => CountsAtOnce
  BY InitIInv, NextIInv, InitCounts, StepCounts, PTL DEF Spec, CountsAtOnce, Counter!Spec
=============================================================================
