------------------------ MODULE Subscription_proofs ------------------------
(***************************************************************************)
(* Proofs about Subscription, for any calls, payers, tiers, resolution of   *)
(* the clock and leeway.                                                    *)
(***************************************************************************)
EXTENDS Subscription, SequenceTheorems, TLAPS

(* Seconds and ticks. *)

\* Whole seconds are compared: an earlier second is an earlier instant, and instants
\* of one second, or of an earlier one, are less than a second late.
LEMMA EarlierSecond ==
  ASSUME NEW a \in Nat, NEW b \in Nat, Seconds(a) < Seconds(b)
  PROVE  a < b
  BY TicksAssumption DEF Seconds

LEMMA SameSecond ==
  ASSUME NEW a \in Nat, NEW b \in Nat, ~(Seconds(b) < Seconds(a))
  PROVE  a < b + TicksPerSecond
  BY TicksAssumption DEF Seconds

\* A whole second is what is left when its ticks are counted in seconds and back.
LEMMA WholeSecond ==
  ASSUME NEW a \in Nat
  PROVE  /\ Seconds(a) \in Nat
         /\ a % TicksPerSecond = 0 => Seconds(a) * TicksPerSecond = a
         /\ Seconds(Seconds(a) * TicksPerSecond) = Seconds(a)
  BY TicksAssumption DEF Seconds

\* When the term of a token ends.
Ends(token) == token.issuedAt + token.tier * TicksPerSecond

LEMMA TokenParts ==
  ASSUME NEW token \in Tokens
  PROVE  /\ token.payer \in Payers /\ token.issuedAt \in Times
         /\ token.issuedAt \in Nat /\ Ends(token) \in Nat
         /\ token.iat = Seconds(token.issuedAt)
         /\ token.exp = Seconds(Ends(token))
<1>1. PICK p \in Payers, d \in Tiers, t \in Times : token = SignToken(p, d, t)
  BY DEF Tokens
<1>2. t \in Nat /\ d \in Nat /\ TicksPerSecond \in Nat
  BY TiersAssumption, TicksAssumption, BoundsAssumption DEF Times
<1>3. d * TicksPerSecond \in Nat
  BY <1>2
<1> QED
  BY <1>1, <1>2, <1>3 DEF SignToken, Ends

-----------------------------------------------------------------------------
(* Types. *)

Works == [at : Busy, token : signed, since : 0 .. now, barred : BOOLEAN]

LEMMA StageIsBusy ==
  ASSUME TypeOK, NEW c \in Calls, call[c] # Idle \/ call[c].at \in Busy
  PROVE  call[c] \in Works
<1>1. Idle.at \notin Busy
  BY DEF Idle, Busy, Verdicts
<1> QED
  BY <1>1 DEF TypeOK, Works

LEMMA InitType == Init => TypeOK
  BY BoundsAssumption DEF Init, TypeOK, Times, Idle

\* A call that changes nothing but where it stands.
LEMMA CallType ==
  ASSUME TypeOK, NEW c \in Calls, NEW w \in {Idle} \cup Works',
         call' = [call EXCEPT ![c] = w],
         now' = now, signed \subseteq signed'
  PROVE  call' \in [Calls -> {Idle} \cup Works']
<1>1. Works \subseteq Works'
  BY DEF Works
<1> QED
  BY <1>1 DEF TypeOK, Works

LEMMA GotoType ==
  ASSUME TypeOK, NEW c \in Calls, call[c].at \in Busy, NEW stage \in Busy, Goto(c, stage),
         UNCHANGED <<now, signed, tokens, table, cut>>
  PROVE  TypeOK'
<1>1. call[c] \in Works
  BY StageIsBusy
<1>2. [call[c] EXCEPT !.at = stage] \in Works'
  BY <1>1 DEF Works
<1>3. call' = [call EXCEPT ![c] = [call[c] EXCEPT !.at = stage]]
  BY DEF Goto, TypeOK
<1>4. call' \in [Calls -> {Idle} \cup Works']
  BY <1>2, <1>3, CallType
<1> QED
  BY <1>4 DEF TypeOK, Works

\* What a call with a token stands at.
LEMMA WorkingType ==
  ASSUME TypeOK, NEW at \in Busy, NEW token \in signed', NEW barred \in BOOLEAN, now' = now
  PROVE  Working(at, token, barred) \in Works'
  BY BoundsAssumption DEF Working, Works, TypeOK, Times

LEMMA RecordedType ==
  ASSUME TypeOK, NEW token \in signed
  PROVE  /\ Recorded(token) \in Seq(Rows)
         /\ Len(Recorded(token)) = Len(table) + 1
         /\ \A i \in DOMAIN table : i \in DOMAIN Recorded(token) /\ Recorded(token)[i] = table[i]
         /\ \A i \in DOMAIN Recorded(token) : i \in DOMAIN table \/ i = Len(table) + 1
         /\ Recorded(token)[Len(table) + 1].payer = token.payer
         /\ Recorded(token)[Len(table) + 1].issuedAt = token.issuedAt
         /\ Recorded(token)[Len(table) + 1].revoked = FALSE
         /\ Len(table) + 1 \in DOMAIN Recorded(token)
<1> DEFINE row == [payer |-> token.payer, issuedAt |-> token.issuedAt, revoked |-> FALSE]
<1>1. table \in Seq(Rows) /\ token \in Tokens
  BY DEF TypeOK
<1>2. row \in Rows
  BY <1>1, TokenParts DEF Rows
<1>3. Recorded(token) = Append(table, row)
  BY DEF Recorded
<1> HIDE DEF row
<1>4. /\ Append(table, row) \in Seq(Rows)
      /\ Len(Append(table, row)) = Len(table) + 1
      /\ \A i \in 1 .. Len(table) : Append(table, row)[i] = table[i]
      /\ Append(table, row)[Len(table) + 1] = row
      /\ Len(table) \in Nat /\ DOMAIN table = 1 .. Len(table)
      /\ DOMAIN Append(table, row) = 1 .. Len(table) + 1
  BY <1>1, <1>2, AppendProperties
<1>5. row.payer = token.payer /\ row.issuedAt = token.issuedAt /\ row.revoked = FALSE
  BY DEF row
<1> QED
  BY <1>3, <1>4, <1>5

LEMMA RevokedType ==
  ASSUME TypeOK, NEW p \in Payers, Revoke(p)
  PROVE  /\ table' \in Seq(Rows) /\ DOMAIN table' = DOMAIN table
         /\ \A i \in DOMAIN table :
              /\ table'[i].payer = table[i].payer /\ table'[i].issuedAt = table[i].issuedAt
              /\ table'[i].revoked = (table[i].revoked \/ table[i].payer = p)
<1>1. table \in Seq(Rows)
  BY DEF TypeOK
<1>2. \A i \in DOMAIN table : table[i] \in Rows
  BY <1>1
<1>3. \A i \in DOMAIN table : [table[i] EXCEPT !.revoked = TRUE] \in Rows
  BY <1>2 DEF Rows
<1>4. table' = [i \in DOMAIN table |-> IF table[i].payer = p THEN [table[i] EXCEPT !.revoked = TRUE]
                                                           ELSE table[i]]
  BY DEF Revoke
<1>5. \A i \in DOMAIN table : table'[i] \in Rows
  BY <1>2, <1>3, <1>4
<1>6. Len(table) \in Nat /\ DOMAIN table = 1 .. Len(table)
  BY <1>1
<1>7. DOMAIN table' = 1 .. Len(table)
  BY <1>4, <1>6
<1>8. table' \in [1 .. Len(table) -> Rows]
  BY <1>4, <1>5, <1>6
<1>9. table' \in Seq(Rows)
  BY <1>6, <1>8
<1> QED
  BY <1>2, <1>4, <1>6, <1>7, <1>9 DEF Rows

LEMMA NextType == TypeOK /\ [Next]_vars => TypeOK'
<1> SUFFICES ASSUME TypeOK, [Next]_vars PROVE TypeOK'
  OBVIOUS
<1>1. CASE Tick
  <2>1. now' \in Times /\ 0 .. now \subseteq 0 .. now'
    BY <1>1, BoundsAssumption DEF Tick, TypeOK, Times
  <2>2. \A c \in Calls : call[c] \in {Idle} \cup Works'
    BY <1>1, <2>1 DEF Tick, TypeOK, Works
  <2> QED
    BY <1>1, <2>1, <2>2 DEF Tick, TypeOK, Works
<1>2. ASSUME NEW c \in Calls, Subscribe(c) PROVE TypeOK'
  <2>1. PICK p \in Payers, tier \in Tiers :
          /\ signed' = signed \cup {SignToken(p, tier, now)}
          /\ call' = [call EXCEPT ![c] = Working("record", SignToken(p, tier, now), FALSE)]
    BY <1>2 DEF Subscribe
  <2>2. SignToken(p, tier, now) \in Tokens
    BY DEF Tokens, TypeOK
  <2>3. Working("record", SignToken(p, tier, now), FALSE) \in Works'
    BY <1>2, <2>1, WorkingType DEF Subscribe, Busy
  <2>4. call' \in [Calls -> {Idle} \cup Works']
    BY <1>2, <2>1, <2>3, CallType DEF Subscribe
  <2> QED
    BY <1>2, <2>1, <2>2, <2>4 DEF Subscribe, TypeOK, Works
<1>3. ASSUME NEW c \in Calls, Record(c) \/ RecordThenLost(c) PROVE TypeOK'
  <2>1. call[c].at = "record"
    BY <1>3 DEF Record, RecordThenLost
  <2>2. call[c].token \in signed
    BY <2>1, StageIsBusy DEF Works, Busy
  <2>3. table' \in Seq(Rows)
    <3>1. table' = table \/ table' = Recorded(call[c].token)
      BY <1>3 DEF Record, RecordThenLost
    <3>2. Recorded(call[c].token) \in Seq(Rows)
      BY <2>2, RecordedType
    <3>3. table \in Seq(Rows)
      BY DEF TypeOK
    <3> QED
      BY <3>1, <3>2, <3>3
  <2>4. call' \in [Calls -> {Idle} \cup Works']
    BY <1>3, CallType DEF Record, RecordThenLost
  <2>5. tokens' \subseteq signed'
    BY <1>3, <2>2 DEF Record, RecordThenLost, TypeOK
  <2> QED
    BY <1>3, <2>3, <2>4, <2>5 DEF Record, RecordThenLost, TypeOK, Works
<1>4. ASSUME NEW c \in Calls, PresentExpired(c) \/ Present(c) PROVE TypeOK'
  <2>1. PICK token \in tokens, at \in {"TOKEN_EXPIRED", "revocation"} :
          call' = [call EXCEPT ![c] = Working(at, token, token \in cut)]
    BY <1>4 DEF PresentExpired, Present
  <2>2. token \in signed' /\ at \in Busy /\ now' = now /\ (token \in cut) \in BOOLEAN
    BY <1>4 DEF PresentExpired, Present, TypeOK, Busy, Verdicts
  <2>3. Working(at, token, token \in cut) \in Works'
    BY <2>2, WorkingType
  <2>4. call' \in [Calls -> {Idle} \cup Works']
    BY <1>4, <2>1, <2>3, CallType DEF PresentExpired, Present
  <2> QED
    BY <1>4, <2>4 DEF PresentExpired, Present, TypeOK, Works
<1>5. ASSUME NEW c \in Calls, PassRevocation(c) \/ RefuseRevoked(c) \/ RefuseUnverified(c)
                              \/ PassLimit(c) \/ RefuseLimited(c)
      PROVE  TypeOK'
  <2>1. PICK stage \in Busy : Goto(c, stage)
    BY <1>5 DEF PassRevocation, RefuseRevoked, RefuseUnverified, PassLimit, RefuseLimited,
       Busy, Verdicts
  <2>2. call[c].at \in Busy /\ UNCHANGED <<now, signed, tokens, table, cut>>
    BY <1>5 DEF PassRevocation, RefuseRevoked, RefuseUnverified, PassLimit, RefuseLimited, Busy
  <2> QED
    BY <2>1, <2>2, GotoType
<1>6. ASSUME NEW c \in Calls, Leave(c) PROVE TypeOK'
  <2>1. call' \in [Calls -> {Idle} \cup Works']
    BY <1>6, CallType DEF Leave
  <2> QED
    BY <1>6, <2>1 DEF Leave, TypeOK, Works
<1>7. ASSUME NEW p \in Payers, Revoke(p) PROVE TypeOK'
  <2>1. table' \in Seq(Rows)
    BY <1>7, RevokedType
  <2> QED
    BY <1>7, <2>1 DEF Revoke, TypeOK
<1>8. CASE UNCHANGED vars
  BY <1>8 DEF vars, TypeOK
<1> QED
  BY <1>1, <1>2, <1>3, <1>4, <1>5, <1>6, <1>7, <1>8 DEF Next, Issue, Verify

\* Every variable keeps its type: a row is always of a payer and an instant of the
\* clock, and a call always holds a token that was signed.
THEOREM TypeCorrect == Spec => []TypeOK
  BY InitType, NextType, PTL DEF Spec

-----------------------------------------------------------------------------
(* What one step does to one call. *)

Stages == {"revocation", "limit", "served"}

\* The verdicts that a call reaches by moving on, and from where.
Moves ==
  {<<"revocation", "limit">>, <<"revocation", "TOKEN_REVOKED">>,
   <<"revocation", "REVOCATION_UNVERIFIED">>, <<"limit", "served">>,
   <<"limit", "SUBSCRIBER_RATE_LIMIT_EXCEEDED">>}

MovesOn(c) ==
  /\ <<call[c].at, call'[c].at>> \in Moves
  /\ call'[c].token = call[c].token /\ call'[c].since = call[c].since
  /\ call'[c].barred = call[c].barred

Starts(c) ==
  \E token \in tokens :
    \/ ~InTerm(token) /\ call'[c] = Working("TOKEN_EXPIRED", token, token \in cut)
    \/ InTerm(token) /\ call'[c] = Working("revocation", token, token \in cut)

LEMMA MoveOn ==
  ASSUME TypeOK, NEW c \in Calls, NEW stage, <<call[c].at, stage>> \in Moves, Goto(c, stage)
  PROVE  MovesOn(c) /\ \A d \in Calls \ {c} : call'[d] = call[d]
<1>1. call[c] \in Works
  BY StageIsBusy DEF Moves, Busy
<1> QED
  BY <1>1 DEF MovesOn, Goto, TypeOK, Works

LEMMA CallSteps ==
  ASSUME TypeOK, [Next]_vars, NEW c \in Calls
  PROVE  \/ call'[c] = call[c] \/ call'[c] = Idle \/ call'[c].at = "record"
         \/ MovesOn(c) \/ Starts(c)
<1>1. CASE Tick \/ UNCHANGED vars
  BY <1>1 DEF Tick, vars
<1>2. ASSUME NEW d \in Calls, Issue(d) PROVE call'[c] = call[c] \/ call'[c] = Idle \/ call'[c].at = "record"
  BY <1>2 DEF Issue, Subscribe, Record, RecordThenLost, Working, TypeOK
<1>3. ASSUME NEW d \in Calls, PresentExpired(d) \/ Present(d) PROVE call'[c] = call[c] \/ Starts(c)
  BY <1>3 DEF PresentExpired, Present, TypeOK, Starts
<1>4. ASSUME NEW d \in Calls, PassRevocation(d) \/ RefuseRevoked(d) \/ RefuseUnverified(d)
                              \/ PassLimit(d) \/ RefuseLimited(d)
      PROVE  call'[c] = call[c] \/ MovesOn(c)
  <2>1. PICK stage : <<call[d].at, stage>> \in Moves /\ Goto(d, stage)
    BY <1>4 DEF PassRevocation, RefuseRevoked, RefuseUnverified, PassLimit, RefuseLimited, Moves
  <2> QED
    BY <2>1, MoveOn
<1>5. ASSUME NEW d \in Calls, Leave(d) PROVE call'[c] = call[c] \/ call'[c] = Idle
  BY <1>5 DEF Leave, TypeOK
<1>6. ASSUME NEW p \in Payers, Revoke(p) PROVE call'[c] = call[c]
  BY <1>6 DEF Revoke
<1> QED
  BY <1>1, <1>2, <1>3, <1>4, <1>5, <1>6 DEF Next, Verify

-----------------------------------------------------------------------------
(* The term. *)

\* A call was told that its token has expired, or went on with it, according to the
\* seconds in which it arrived and in which the token ends.
TermInv ==
  \A c \in Calls :
    /\ call[c].at = "TOKEN_EXPIRED" => call[c].token.exp < Seconds(call[c].since)
    /\ call[c].at \in Stages => ~(call[c].token.exp < Seconds(call[c].since))

LEMMA InitTerm == Init => TermInv
  BY DEF Init, TermInv, Idle, Stages

LEMMA NextTerm == TypeOK /\ TermInv /\ [Next]_vars => TermInv'
<1> SUFFICES ASSUME TypeOK, TermInv, [Next]_vars, NEW c \in Calls
             PROVE  /\ call'[c].at = "TOKEN_EXPIRED" => call'[c].token.exp < Seconds(call'[c].since)
                    /\ call'[c].at \in Stages => ~(call'[c].token.exp < Seconds(call'[c].since))
  BY DEF TermInv, Seconds
<1>1. CASE call'[c] = call[c]
  BY <1>1 DEF TermInv
<1>2. CASE call'[c] = Idle \/ call'[c].at = "record"
  BY <1>2 DEF Idle, Stages
<1>3. CASE MovesOn(c)
  BY <1>3 DEF MovesOn, Moves, TermInv, Stages
<1>4. CASE Starts(c)
  <2>1. PICK token \in tokens :
          \/ ~InTerm(token) /\ call'[c] = Working("TOKEN_EXPIRED", token, token \in cut)
          \/ InTerm(token) /\ call'[c] = Working("revocation", token, token \in cut)
    BY <1>4 DEF Starts
  <2>2. token.exp \in Nat /\ Seconds(now) \in Nat
    <3>1. token \in Tokens /\ now \in Nat
      BY BoundsAssumption DEF TypeOK, Times
    <3> QED
      BY <3>1, TokenParts, WholeSecond
  <2>3. InTerm(token) <=> ~(token.exp < Seconds(now))
    BY <2>2, LeewayAssumption DEF InTerm, Decodes
  <2> QED
    BY <2>1, <2>3 DEF Working, Stages
<1> QED
  BY <1>1, <1>2, <1>3, <1>4, CallSteps

\* A subscriber gets the time the tier promises and less than one second more, for any
\* tier, resolution and leeway (subscription.rs, auth/dual.rs:109-118).
THEOREM TermHonoured == Spec => []TermIsHonoured
<1>1. TypeOK /\ TermInv => TermIsHonoured
  <2> SUFFICES ASSUME TypeOK, TermInv, NEW c \in Calls, call[c].at \in {"TOKEN_EXPIRED", "served"}
               PROVE  /\ call[c].at = "TOKEN_EXPIRED" => call[c].since >= Ends(call[c].token)
                      /\ call[c].at = "served" => call[c].since < Ends(call[c].token) + TicksPerSecond
    BY DEF TermIsHonoured, Ends
  <2>1. call[c] \in Works
    BY StageIsBusy DEF Busy, Verdicts
  <2>2. call[c].since \in Nat /\ call[c].token \in Tokens
    BY <2>1 DEF Works, TypeOK
  <2>3. Ends(call[c].token) \in Nat /\ call[c].token.exp = Seconds(Ends(call[c].token))
    BY <2>2, TokenParts
  <2>4. CASE call[c].at = "TOKEN_EXPIRED"
    <3>1. Ends(call[c].token) < call[c].since
      BY <2>2, <2>3, <2>4, EarlierSecond DEF TermInv
    <3> QED
      BY <2>2, <2>3, <2>4, <3>1
  <2>5. CASE call[c].at = "served"
    BY <2>2, <2>3, <2>5, SameSecond DEF TermInv, Stages
  <2> QED
    BY <2>4, <2>5
<1> QED
  BY InitType, NextType, InitTerm, NextTerm, <1>1, PTL DEF Spec

-----------------------------------------------------------------------------
(* Rows, tokens and revocations. *)

RowOf(i, token) == table[i].payer = token.payer /\ table[i].issuedAt = token.issuedAt

\* A payer and an instant name one token, and a row is that of a token.
SignedOnce ==
  \A s, t \in signed : s.payer = t.payer /\ s.issuedAt = t.issuedAt => s = t
RowsAreOfTokens == \A i \in DOMAIN table : \E t \in signed : RowOf(i, t)

\* A token is recorded by the call that signed it, before its buyer has it.
RecordIsFirst ==
  \A c \in Calls : call[c].at = "record" =>
    /\ call[c].token \notin tokens /\ ~HasRow(call[c].token)
    /\ \A d \in Calls : call[d].at = "record" /\ call[d].token = call[c].token => c = d

\* Who revokes meets every row of what is cut, and nothing else.
CutIsHeld == \A t \in cut : t \in tokens \/ HasRow(t)
CutIsRevoked == \A t \in cut : \A i \in DOMAIN table : RowOf(i, t) => table[i].revoked
RevokedIsCut == \A i \in DOMAIN table : table[i].revoked => \E t \in cut : RowOf(i, t)

\* A token that was cut when its call arrived still is, and gets past the lookup only
\* without a row, or in the middle of a second.
BarredIsCut ==
  \A c \in Calls : call[c].at \in Stages =>
    call[c].token \in tokens /\ (call[c].barred => call[c].token \in cut)
PassedHasNoRow ==
  \A c \in Calls :
    call[c].at \in {"limit", "served"} /\ call[c].barred
      /\ call[c].token.issuedAt % TicksPerSecond = 0
    => ~HasRow(call[c].token)

RowInv == SignedOnce /\ RowsAreOfTokens /\ RecordIsFirst
CutInv == CutIsHeld /\ CutIsRevoked /\ RevokedIsCut
LookupInv == BarredIsCut /\ PassedHasNoRow /\ RevocationHitsOnlyItsSecond
IInv == TypeOK /\ RowInv /\ CutInv /\ LookupInv

LEMMA InitIInv == Init => IInv
<1> SUFFICES ASSUME Init PROVE IInv
  OBVIOUS
<1>1. table = <<>> /\ DOMAIN table = {} /\ signed = {} /\ cut = {}
  BY DEF Init
<1>2. \A c \in Calls : call[c].at = "idle"
  BY DEF Init, Idle
<1> QED
  BY <1>1, <1>2, InitType DEF IInv, RowInv, SignedOnce, RowsAreOfTokens, RecordIsFirst,
     CutInv, CutIsHeld, CutIsRevoked, RevokedIsCut,
     LookupInv, BarredIsCut, PassedHasNoRow, RevocationHitsOnlyItsSecond, Stages

\* The row that is_revoked finds for a token is of one signed in the same second; for a
\* token of a whole second, it is the token's own.
LEMMA MatchIsOfSecond ==
  ASSUME TypeOK, NEW token \in Tokens, NEW i \in Matches(token), NEW t \in Tokens, RowOf(i, t)
  PROVE  t.payer = token.payer /\ t.iat = token.iat
<1>1. t.payer = token.payer /\ t.issuedAt = token.iat * TicksPerSecond
  BY DEF Matches, RowOf
<1>2. token.issuedAt \in Nat /\ token.iat = Seconds(token.issuedAt) /\ t.iat = Seconds(t.issuedAt)
  BY TokenParts
<1> QED
  BY <1>1, <1>2, WholeSecond

LEMMA WholeSecondMatches ==
  ASSUME TypeOK, NEW token \in Tokens, token.issuedAt % TicksPerSecond = 0
  PROVE  Matches(token) = {i \in DOMAIN table : RowOf(i, token)}
<1>1. token.issuedAt \in Nat /\ token.iat = Seconds(token.issuedAt)
  BY TokenParts
<1>2. token.iat * TicksPerSecond = token.issuedAt
  BY <1>1, WholeSecond
<1> QED
  BY <1>2 DEF Matches, RowOf

-----------------------------------------------------------------------------
(* Rows are written once. *)

\* A step after which no call records that did not, and that writes no row.
LEMMA NoRowWritten ==
  ASSUME IInv, UNCHANGED <<signed, tokens>>, DOMAIN table' = DOMAIN table,
         \A i \in DOMAIN table : table'[i].payer = table[i].payer
                                 /\ table'[i].issuedAt = table[i].issuedAt,
         \A c \in Calls : call'[c].at = "record" => call'[c] = call[c]
  PROVE  RowInv' /\ \A t : HasRow(t)' <=> HasRow(t)
<1>1. \A t : HasRow(t)' <=> HasRow(t)
  BY DEF HasRow
<1>2. SignedOnce' /\ RowsAreOfTokens'
  BY DEF IInv, RowInv, SignedOnce, RowsAreOfTokens, RowOf
<1>3. RecordIsFirst'
  BY <1>1 DEF IInv, RowInv, RecordIsFirst
<1> QED
  BY <1>1, <1>2, <1>3 DEF RowInv

LEMMA SubscribeKeepsRows ==
  ASSUME IInv, NEW c \in Calls, Subscribe(c)
  PROVE  RowInv' /\ call'[c].at = "record" /\ (\A d \in Calls \ {c} : call'[d] = call[d])
<1>1. PICK p \in Payers, tier \in Tiers :
        /\ \A other \in signed : other.payer = p => other.issuedAt # now
        /\ signed' = signed \cup {SignToken(p, tier, now)}
        /\ call' = [call EXCEPT ![c] = Working("record", SignToken(p, tier, now), FALSE)]
  BY DEF Subscribe
<1>0. PICK new : new = SignToken(p, tier, now)
  OBVIOUS
<1>2. new.payer = p /\ new.issuedAt = now /\ signed' = signed \cup {new}
  BY <1>0, <1>1 DEF SignToken
<1>3. /\ call'[c].at = "record" /\ call'[c].token = new
      /\ \A d \in Calls \ {c} : call'[d] = call[d]
  BY <1>0, <1>1 DEF IInv, TypeOK, Working
<1>4. new \notin signed
  BY <1>1, <1>2
<1>5. UNCHANGED <<tokens, table>> /\ tokens \subseteq signed
  BY DEF Subscribe, IInv, TypeOK
<1>6. SignedOnce'
  BY <1>1, <1>2 DEF IInv, RowInv, SignedOnce
<1>7. RowsAreOfTokens'
  BY <1>2, <1>5 DEF IInv, RowInv, RowsAreOfTokens, RowOf
<1>8. ~HasRow(new)'
  BY <1>1, <1>2, <1>5 DEF IInv, RowInv, RowsAreOfTokens, RowOf, HasRow
<1>9. \A d \in Calls : call[d].at = "record" => call[d].token \in signed
  BY StageIsBusy DEF IInv, Works, Busy
<1>10. \A t : HasRow(t)' <=> HasRow(t)
  BY <1>5 DEF HasRow
<1>11. RecordIsFirst'
  BY <1>3, <1>4, <1>5, <1>8, <1>9, <1>10 DEF IInv, RowInv, RecordIsFirst
<1> QED
  BY <1>3, <1>6, <1>7, <1>11 DEF RowInv

\* The INSERT succeeds or not, and the buyer gets the token or not.
LEMMA RecordRows ==
  ASSUME IInv, NEW c \in Calls, Record(c) \/ RecordThenLost(c)
  PROVE  /\ call[c] \in Works /\ call[c].at = "record" /\ call[c].token \notin cut
         /\ call'[c] = Idle /\ \A d \in Calls \ {c} : call'[d] = call[d]
         /\ table' \in {table, Recorded(call[c].token)}
         /\ \A t \in signed : t # call[c].token => (HasRow(t)' <=> HasRow(t))
         /\ RowInv'
<1>0. PICK new : new = call[c].token
  OBVIOUS
<1>1. call[c].at = "record"
  BY DEF Record, RecordThenLost
<1>2. call[c] \in Works /\ new \in signed
  BY <1>0, <1>1, StageIsBusy DEF IInv, Busy, Works
<1>3. new \notin cut
  BY <1>0, <1>1 DEF IInv, RowInv, RecordIsFirst, CutInv, CutIsHeld
<1>4. call'[c] = Idle /\ \A d \in Calls \ {c} : call'[d] = call[d]
  BY DEF Record, RecordThenLost, IInv, TypeOK
<1>5. /\ table' \in {table, Recorded(new)}
      /\ signed' = signed /\ tokens' \subseteq tokens \cup {new}
  BY <1>0 DEF Record, RecordThenLost
<1>6. /\ \A i \in DOMAIN table : i \in DOMAIN table' /\ table'[i] = table[i]
      /\ \A i \in DOMAIN table' : i \in DOMAIN table \/ RowOf(i, new)'
  BY <1>2, <1>5, RecordedType DEF IInv, RowOf
<1>7. \A t \in signed : t # new => (HasRow(t)' <=> HasRow(t))
  <2> SUFFICES ASSUME NEW t \in signed, t # new PROVE HasRow(t)' <=> HasRow(t)
    OBVIOUS
  <2>1. ASSUME NEW i \in DOMAIN table', RowOf(i, t)' PROVE i \in DOMAIN table /\ RowOf(i, t)
    <3>1. ~RowOf(i, new)'
      BY <1>2, <2>1 DEF IInv, RowInv, SignedOnce, RowOf
    <3> QED
      BY <1>6, <2>1, <3>1 DEF RowOf
  <2> QED
    BY <1>6, <2>1 DEF HasRow, RowOf
<1>8. SignedOnce' /\ RowsAreOfTokens'
  BY <1>2, <1>5, <1>6 DEF IInv, RowInv, SignedOnce, RowsAreOfTokens, RowOf
<1>9. RecordIsFirst'
  <2> SUFFICES ASSUME NEW d \in Calls, call'[d].at = "record"
               PROVE  /\ call'[d].token \notin tokens' /\ ~HasRow(call[d].token)'
                      /\ \A e \in Calls : call'[e].at = "record" /\ call'[e].token = call'[d].token
                                          => d = e
    BY DEF RecordIsFirst
  <2>1. d # c /\ call'[d] = call[d]
    BY <1>4 DEF Idle
  <2>2. call[d].token \in signed
    BY <2>1, StageIsBusy DEF IInv, Busy, Works
  <2>3. call[d].token # new
    BY <1>0, <1>1, <2>1 DEF IInv, RowInv, RecordIsFirst
  <2>4. \A e \in Calls : call'[e].at = "record" => call'[e] = call[e]
    BY <1>4 DEF Idle
  <2> QED
    BY <1>5, <1>7, <2>1, <2>2, <2>3, <2>4 DEF IInv, RowInv, RecordIsFirst
<1> QED
  BY <1>0, <1>1, <1>2, <1>3, <1>4, <1>5, <1>7, <1>8, <1>9 DEF RowInv

\* Every step that records nothing and revokes nothing.
Quiet == UNCHANGED <<signed, tokens, table, cut>>

LEMMA StepCases ==
  ASSUME TypeOK, [Next]_vars
  PROVE  \/ Quiet /\ \A c \in Calls : call'[c].at = "record" => call'[c] = call[c]
         \/ \E c \in Calls : Subscribe(c) \/ Record(c) \/ RecordThenLost(c)
         \/ \E p \in Payers : Revoke(p)
<1>1. CASE Tick \/ UNCHANGED vars
  BY <1>1 DEF Tick, vars, Quiet
<1>2. ASSUME NEW c \in Calls, PresentExpired(c) \/ Present(c) \/ Leave(c)
      PROVE  Quiet /\ \A d \in Calls : call'[d].at = "record" => call'[d] = call[d]
  BY <1>2 DEF PresentExpired, Present, Leave, Working, Idle, Quiet, TypeOK
<1>3. ASSUME NEW c \in Calls, PassRevocation(c) \/ RefuseRevoked(c) \/ RefuseUnverified(c)
                              \/ PassLimit(c) \/ RefuseLimited(c)
      PROVE  Quiet /\ \A d \in Calls : call'[d].at = "record" => call'[d] = call[d]
  <2>1. PICK stage : <<call[c].at, stage>> \in Moves /\ Goto(c, stage)
    BY <1>3 DEF PassRevocation, RefuseRevoked, RefuseUnverified, PassLimit, RefuseLimited, Moves
  <2>2. MovesOn(c) /\ \A d \in Calls \ {c} : call'[d] = call[d]
    BY <2>1, MoveOn
  <2>3. Quiet
    BY <1>3 DEF PassRevocation, RefuseRevoked, RefuseUnverified, PassLimit, RefuseLimited, Quiet
  <2> QED
    BY <2>2, <2>3 DEF MovesOn, Moves
<1> QED
  BY <1>1, <1>2, <1>3 DEF Next, Issue, Verify

LEMMA NextRows ==
  ASSUME IInv, [Next]_vars
  PROVE  RowInv'
<1>1. CASE Quiet /\ \A c \in Calls : call'[c].at = "record" => call'[c] = call[c]
  BY <1>1, NoRowWritten DEF Quiet
<1>2. ASSUME NEW c \in Calls, Subscribe(c) \/ Record(c) \/ RecordThenLost(c) PROVE RowInv'
  BY <1>2, SubscribeKeepsRows, RecordRows
<1>3. ASSUME NEW p \in Payers, Revoke(p) PROVE RowInv'
  BY <1>3, RevokedType, NoRowWritten DEF Revoke, IInv
<1> QED
  BY <1>1, <1>2, <1>3, StepCases DEF IInv

-----------------------------------------------------------------------------
(* What is cut is revoked, and nothing else is. *)

LEMMA NextCut ==
  ASSUME IInv, [Next]_vars
  PROVE  CutInv'
<1>1. CASE UNCHANGED <<tokens, table, cut>>
  BY <1>1 DEF IInv, CutInv, CutIsHeld, CutIsRevoked, RevokedIsCut, HasRow, RowOf
<1>2. ASSUME NEW c \in Calls, Record(c) \/ RecordThenLost(c) PROVE CutInv'
  <2>1. PICK new \in signed : new = call[c].token
    BY <1>2, RecordRows DEF Works
  <2>2. /\ new \notin cut /\ table' \in {table, Recorded(new)}
        /\ \A t \in signed : t # new => (HasRow(t)' <=> HasRow(t))
    BY <1>2, <2>1, RecordRows
  <2>3. cut' = cut /\ tokens \subseteq tokens' /\ cut \subseteq signed
    BY <1>2 DEF Record, RecordThenLost, IInv, TypeOK
  <2>4. CutIsHeld'
    BY <2>2, <2>3 DEF IInv, CutInv, CutIsHeld
  <2>5. /\ \A i \in DOMAIN table : i \in DOMAIN table' /\ table'[i] = table[i]
        /\ \A i \in DOMAIN table' : i \in DOMAIN table \/ (RowOf(i, new)' /\ ~table'[i].revoked)
    BY <2>2, RecordedType DEF IInv, RowOf
  <2>6. \A t \in cut : \A i \in DOMAIN table' : RowOf(i, t)' => i \in DOMAIN table /\ RowOf(i, t)
    <3> SUFFICES ASSUME NEW t \in cut, NEW i \in DOMAIN table', RowOf(i, t)'
                 PROVE  i \in DOMAIN table /\ RowOf(i, t)
      OBVIOUS
    <3>1. t # new /\ t \in signed
      BY <2>2, <2>3
    <3>2. ~RowOf(i, new)'
      BY <3>1 DEF IInv, RowInv, SignedOnce, RowOf
    <3> QED
      BY <2>5, <3>2 DEF RowOf
  <2>7. CutIsRevoked'
    BY <2>3, <2>5, <2>6 DEF IInv, CutInv, CutIsRevoked
  <2>8. RevokedIsCut'
    BY <2>3, <2>5 DEF IInv, CutInv, RevokedIsCut, RowOf
  <2> QED
    BY <2>4, <2>7, <2>8 DEF CutInv
<1>3. ASSUME NEW p \in Payers, Revoke(p) PROVE CutInv'
  <2>1. /\ DOMAIN table' = DOMAIN table
        /\ \A i \in DOMAIN table :
              /\ table'[i].payer = table[i].payer /\ table'[i].issuedAt = table[i].issuedAt
              /\ table'[i].revoked = (table[i].revoked \/ table[i].payer = p)
    BY <1>3, RevokedType DEF IInv
  <2>2. /\ cut' = cut \cup {t \in signed : t.payer = p /\ (t \in tokens \/ HasRow(t))}
        /\ tokens' = tokens /\ signed' = signed
    BY <1>3 DEF Revoke
  <2>3. \A t, i : i \in DOMAIN table => (RowOf(i, t)' <=> RowOf(i, t))
    BY <2>1 DEF RowOf
  <2>4. \A t : HasRow(t)' <=> HasRow(t)
    BY <2>1 DEF HasRow
  <2>5. CutIsHeld'
    BY <2>2, <2>4 DEF IInv, CutInv, CutIsHeld
  <2>6. CutIsRevoked'
    <3> SUFFICES ASSUME NEW t \in cut', NEW i \in DOMAIN table', RowOf(i, t)' PROVE table'[i].revoked
      BY DEF CutIsRevoked
    <3>1. i \in DOMAIN table /\ RowOf(i, t)
      BY <2>1, <2>3
    <3>2. CASE t \in cut
      BY <2>1, <3>1, <3>2 DEF IInv, CutInv, CutIsRevoked
    <3>3. CASE t.payer = p
      BY <2>1, <3>1, <3>3 DEF RowOf
    <3> QED
      BY <2>2, <3>2, <3>3
  <2>7. RevokedIsCut'
    <3> SUFFICES ASSUME NEW i \in DOMAIN table', table'[i].revoked
                 PROVE  \E t \in cut' : RowOf(i, t)'
      BY DEF RevokedIsCut
    <3>1. CASE table[i].revoked
      BY <2>1, <2>2, <2>3, <3>1 DEF IInv, CutInv, RevokedIsCut
    <3>2. CASE table[i].payer = p
      <4>1. PICK t \in signed : RowOf(i, t)
        BY <2>1 DEF IInv, RowInv, RowsAreOfTokens
      <4>2. t.payer = p /\ HasRow(t)
        BY <2>1, <3>2, <4>1 DEF RowOf, HasRow
      <4> QED
        BY <2>1, <2>2, <2>3, <4>1, <4>2
    <3> QED
      BY <2>1, <3>1, <3>2
  <2> QED
    BY <2>5, <2>6, <2>7 DEF CutInv
<1>4. ASSUME NEW c \in Calls, Subscribe(c) PROVE CutInv'
  BY <1>1, <1>4 DEF Subscribe
<1> QED
  BY <1>1, <1>2, <1>3, <1>4, StepCases DEF IInv, Quiet

-----------------------------------------------------------------------------
(* What the lookup makes of it. *)

\* The tokens in use stay in hand and cut, and those cut get no row.
LEMMA HandsKept ==
  ASSUME IInv, [Next]_vars
  PROVE  /\ tokens \subseteq tokens' /\ cut \subseteq cut'
         /\ \A t \in tokens : HasRow(t)' => HasRow(t)
<1>1. CASE Quiet
  BY <1>1 DEF Quiet, HasRow
<1>2. ASSUME NEW c \in Calls, Subscribe(c)
      PROVE  UNCHANGED <<tokens, cut>> /\ \A t \in tokens : HasRow(t)' => HasRow(t)
  BY <1>2 DEF Subscribe, HasRow
<1>3. ASSUME NEW c \in Calls, Record(c) \/ RecordThenLost(c)
      PROVE  /\ tokens \subseteq tokens' /\ cut' = cut
             /\ \A t \in tokens : HasRow(t)' => HasRow(t)
  <2>1. call[c].token \notin tokens /\ tokens \subseteq signed
    BY <1>3, RecordRows DEF IInv, RowInv, RecordIsFirst, TypeOK
  <2> QED
    BY <1>3, <2>1, RecordRows DEF Record, RecordThenLost
<1>4. ASSUME NEW p \in Payers, Revoke(p)
      PROVE  /\ tokens' = tokens /\ cut \subseteq cut'
             /\ \A t \in tokens : HasRow(t)' => HasRow(t)
  BY <1>4, RevokedType DEF Revoke, IInv, HasRow
<1> QED
  BY <1>1, <1>2, <1>3, <1>4, StepCases DEF IInv

\* Only the lookup lets a call go on to the limit, or calls a token revoked.
LEMMA LookupMoves ==
  ASSUME TypeOK, [Next]_vars, NEW c \in Calls, MovesOn(c), call[c].at = "revocation"
  PROVE  /\ call'[c].at = "limit" =>
              \/ Matches(call[c].token) = {}
              \/ \E i \in Matches(call[c].token) : ~table[i].revoked
         /\ call'[c].at = "TOKEN_REVOKED" => \E i \in Matches(call[c].token) : table[i].revoked
         /\ Quiet
<1>1. call'[c].at \in {"limit", "TOKEN_REVOKED", "REVOCATION_UNVERIFIED"}
  BY DEF MovesOn, Moves
<1>2. CASE Tick \/ UNCHANGED vars
  BY <1>1, <1>2 DEF Tick, vars
<1>3. ASSUME NEW p \in Payers, Revoke(p) PROVE FALSE
  BY <1>1, <1>3 DEF Revoke
<1>4. ASSUME NEW d \in Calls, d # c, Issue(d) \/ Verify(d) \/ Leave(d) PROVE FALSE
  <2>1. call'[c] = call[c]
    BY <1>4 DEF Issue, Subscribe, Record, RecordThenLost, Verify, PresentExpired, Present,
       PassRevocation, RefuseRevoked, RefuseUnverified, PassLimit, RefuseLimited, Leave, Goto, TypeOK
  <2> QED
    BY <1>1, <2>1
<1>5. ASSUME Issue(c) \/ Leave(c) \/ PresentExpired(c) \/ Present(c) \/ PassLimit(c) \/ RefuseLimited(c)
      PROVE  FALSE
  <2>1. call[c] # Idle
    BY DEF Idle
  <2>2. CASE Leave(c)
    BY <1>1, <2>2 DEF Leave, Idle, TypeOK
  <2> QED
    BY <1>5, <2>1, <2>2 DEF Issue, Subscribe, Record, RecordThenLost, PresentExpired, Present,
       PassLimit, RefuseLimited
<1>6. CASE PassRevocation(c) \/ RefuseRevoked(c) \/ RefuseUnverified(c)
  <2>1. PICK stage : Goto(c, stage) /\ <<call[c].at, stage>> \in Moves
    BY <1>6 DEF PassRevocation, RefuseRevoked, RefuseUnverified, Moves
  <2>2. \A other : Goto(c, other) => call'[c].at = other
    <3>1. call[c] \in Works
      BY StageIsBusy DEF Busy
    <3> QED
      BY <3>1 DEF Goto, TypeOK, Works
  <2> QED
    BY <1>6, <2>2 DEF PassRevocation, RefuseRevoked, RefuseUnverified, Quiet
<1> QED
  BY <1>2, <1>3, <1>4, <1>5, <1>6 DEF Next, Verify

LEMMA NextLookup ==
  ASSUME IInv, [Next]_vars
  PROVE  LookupInv'
<1> SUFFICES ASSUME NEW c \in Calls
    PROVE  /\ call'[c].at \in Stages =>
                call'[c].token \in tokens' /\ (call'[c].barred => call'[c].token \in cut')
           /\ (call'[c].at \in {"limit", "served"} /\ call'[c].barred
                 /\ call'[c].token.issuedAt % TicksPerSecond = 0) => ~HasRow(call[c].token)'
           /\ call'[c].at = "TOKEN_REVOKED" =>
                \E t \in cut' : t.payer = call'[c].token.payer /\ t.iat = call'[c].token.iat
  BY DEF LookupInv, BarredIsCut, PassedHasNoRow, RevocationHitsOnlyItsSecond
<1>0. TypeOK
  BY DEF IInv
<1>1. CASE call'[c] = call[c]
  <2>1. call'[c].at \in Stages => \A t : t = call'[c].token => (HasRow(t)' => HasRow(t))
    BY <1>1, HandsKept DEF IInv, LookupInv, BarredIsCut
  <2> QED
    BY <1>1, <2>1, HandsKept
       DEF IInv, LookupInv, BarredIsCut, PassedHasNoRow, RevocationHitsOnlyItsSecond, Stages
<1>2. CASE call'[c] = Idle \/ call'[c].at = "record"
  BY <1>2 DEF Idle, Stages
<1>3. CASE Starts(c)
  <2>1. PICK token \in tokens, at \in {"TOKEN_EXPIRED", "revocation"} :
          call'[c] = Working(at, token, token \in cut)
    BY <1>3 DEF Starts
  <2>2. call'[c].at = at /\ call'[c].token = token /\ call'[c].barred = (token \in cut)
    BY <2>1 DEF Working
  <2> QED
    BY <2>2, HandsKept DEF Stages
<1>4. CASE MovesOn(c)
  <2>1. call[c].at \in Stages \ {"served"}
    BY <1>4 DEF MovesOn, Moves, Stages
  <2>2. PICK token \in tokens : /\ token = call[c].token /\ token = call'[c].token
                                /\ (call[c].barred => token \in cut)
    BY <1>4, <2>1 DEF MovesOn, IInv, LookupInv, BarredIsCut
  <2>3. token \in tokens' /\ (call[c].barred => token \in cut') /\ (HasRow(token)' => HasRow(token))
    BY <2>2, HandsKept
  <2>4. token \in Tokens /\ cut \subseteq Tokens
    BY <1>0, <2>2 DEF TypeOK
  <2>5. CASE call[c].at = "limit"
    BY <1>4, <2>2, <2>3, <2>5 DEF MovesOn, Moves, IInv, LookupInv, PassedHasNoRow
  <2>6. CASE call[c].at = "revocation" /\ call'[c].at = "limit"
    <3>1. ASSUME call[c].barred, token.issuedAt % TicksPerSecond = 0 PROVE ~HasRow(token)
      <4>1. Matches(token) = {i \in DOMAIN table : RowOf(i, token)}
        BY <1>0, <2>4, <3>1, WholeSecondMatches
      <4>2. \A i \in Matches(token) : table[i].revoked
        BY <2>2, <3>1, <4>1 DEF IInv, CutInv, CutIsRevoked
      <4>3. Matches(token) = {}
        BY <1>0, <1>4, <2>2, <2>6, <4>2, LookupMoves
      <4> QED
        BY <4>1, <4>3 DEF HasRow, RowOf
    <3> QED
      BY <1>4, <2>2, <2>3, <2>6, <3>1 DEF MovesOn
  <2>7. CASE call[c].at = "revocation" /\ call'[c].at = "TOKEN_REVOKED"
    <3>1. PICK i \in Matches(token) : table[i].revoked
      BY <1>0, <1>4, <2>2, <2>7, LookupMoves
    <3>2. PICK t \in cut : RowOf(i, t)
      BY <3>1 DEF Matches, IInv, CutInv, RevokedIsCut
    <3>3. t.payer = token.payer /\ t.iat = token.iat
      BY <1>0, <2>4, <3>1, <3>2, MatchIsOfSecond
    <3> QED
      BY <2>2, <2>7, <3>3, HandsKept DEF Stages
  <2>8. CASE call[c].at = "revocation" /\ call'[c].at = "REVOCATION_UNVERIFIED"
    BY <2>8 DEF Stages
  <2> QED
    BY <1>4, <2>1, <2>5, <2>6, <2>7, <2>8 DEF MovesOn, Moves, Stages
<1> QED
  BY <1>0, <1>1, <1>2, <1>3, <1>4, CallSteps

LEMMA NextIInv == IInv /\ [Next]_vars => IInv'
  BY NextType, NextRows, NextCut, NextLookup DEF IInv

\* A revocation bites whenever the row was written and its instant is a whole second,
\* for any payers and purchases and however the calls overlap (auth/dual.rs:126-147).
THEOREM RevocationBites == Spec => []WholeSecondRevocationBites
<1>1. IInv => WholeSecondRevocationBites
  BY DEF IInv, LookupInv, PassedHasNoRow, WholeSecondRevocationBites
<1> QED
  BY InitIInv, NextIInv, <1>1, PTL DEF Spec

\* No token is called revoked for a purchase of another second (db.rs:223).
THEOREM RevocationHits == Spec => []RevocationHitsOnlyItsSecond
<1>1. IInv => RevocationHitsOnlyItsSecond
  BY DEF IInv, LookupInv
<1> QED
  BY InitIInv, NextIInv, <1>1, PTL DEF Spec
=============================================================================
