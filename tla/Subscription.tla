--------------------------- MODULE Subscription ---------------------------
(***************************************************************************)
(* The life of a subscription token: POST /subscribe after its payment      *)
(* (api/subscribe.rs), the JWT of subscription.rs, the row of db.rs that    *)
(* revocation looks up, and verify_bearer of auth/dual.rs.  Time is counted *)
(* in the ticks of TIMESTAMPTZ, of which a second of the JWT has several.   *)
(***************************************************************************)
EXTENDS Integers, Sequences, FiniteSets

CONSTANTS
  Calls,            \* concurrent invocations, of both handlers
  Payers,           \* payer of the settlement, or "unknown"
  Tiers,            \* durations on sale, in seconds (TIER_DURATIONS_SEC)
  TicksPerSecond,   \* microseconds in the code
  Leeway,           \* seconds jsonwebtoken grants beyond exp (60)
  MaxTime,          \* bound on the clock, in ticks
  MaxTokens         \* bound on the tokens that are signed

ASSUME TiersAssumption == Tiers \subseteq Nat \ {0}
ASSUME TicksAssumption == TicksPerSecond \in Nat \ {0}
ASSUME LeewayAssumption == Leeway \in Nat
ASSUME BoundsAssumption == MaxTime \in Nat /\ MaxTokens \in Nat

VARIABLES
  now,      \* the clock
  signed,   \* history: tokens signed, whether or not their buyer got them
  tokens,   \* tokens in the hands of buyers
  table,    \* solrisk_subscriptions, in the order of its BIGSERIAL id
  call,     \* what each invocation is doing
  cut       \* history: tokens of the payers an operator has revoked

vars == <<now, signed, tokens, table, call, cut>>

Times == 0 .. MaxTime
Seconds(t) == t \div TicksPerSecond

\* The claims iat and exp, and the instant of the signature, which the token
\* itself does not carry.
SignToken(payer, tier, issuedAt) ==
  [payer |-> payer, issuedAt |-> issuedAt, tier |-> tier,
   iat |-> Seconds(issuedAt), exp |-> Seconds(issuedAt + tier * TicksPerSecond)]

Tokens == {SignToken(p, d, t) : p \in Payers, d \in Tiers, t \in Times}
Rows   == [payer : Payers, issuedAt : Times, revoked : BOOLEAN]

\* Stages of POST /subscribe: "record".  Of a data route: "revocation", "limit",
\* and the verdict "served" or the reason of a 401 or 429.
Verdicts == {"served", "TOKEN_EXPIRED", "TOKEN_REVOKED", "REVOCATION_UNVERIFIED",
             "SUBSCRIBER_RATE_LIMIT_EXCEEDED"}
Busy     == {"record", "revocation", "limit"} \cup Verdicts
Idle     == [at |-> "idle"]
\* since and barred: when the call arrived, and whether its token was cut by then.
Working(at, token, barred) == [at |-> at, token |-> token, since |-> now, barred |-> barred]

TypeOK ==
  /\ now \in Times
  /\ signed \subseteq Tokens /\ tokens \subseteq signed /\ cut \subseteq signed
  /\ table \in Seq(Rows)
  /\ call \in [Calls -> {Idle} \cup
                 [at : Busy, token : signed, since : 0 .. now, barred : BOOLEAN]]

Init ==
  /\ now = 0
  /\ signed = {} /\ tokens = {} /\ cut = {}
  /\ table = <<>>
  /\ call = [c \in Calls |-> Idle]

Goto(c, state) == call' = [call EXCEPT ![c].at = state]

Tick ==
  /\ now < MaxTime
  /\ now' = now + 1
  /\ UNCHANGED <<signed, tokens, table, call, cut>>

-----------------------------------------------------------------------------
\* handle_subscribe, paid, signs a token at Utc::now().  Two tokens of a payer
\* in the same microsecond are left out.
Subscribe(c) ==
  /\ call[c] = Idle
  /\ Cardinality(signed) < MaxTokens
  /\ \E p \in Payers, tier \in Tiers :
       LET token == SignToken(p, tier, now) IN
       /\ \A other \in signed : other.payer = p => other.issuedAt # now
       /\ signed' = signed \cup {token}
       /\ call' = [call EXCEPT ![c] = Working("record", token, FALSE)]
  /\ UNCHANGED <<now, tokens, table, cut>>

\* Mutant: issued_at and expires_at would be swapped.
RecordedSwapped(token) ==
  Append(table, [payer |-> token.payer, issuedAt |-> token.exp * TicksPerSecond, revoked |-> FALSE])

\* The row holds issued_at at the resolution of the column.
Recorded(token) ==
  Append(table, [payer |-> token.payer, issuedAt |-> token.issuedAt, revoked |-> FALSE])

\* record_subscription, whose result is dropped: the buyer gets the token anyway.
Record(c) ==
  /\ call[c].at = "record"
  /\ table' \in {table, Recorded(call[c].token)}
  /\ tokens' = tokens \cup {call[c].token}
  /\ call' = [call EXCEPT ![c] = Idle]
  /\ UNCHANGED <<now, signed, cut>>

\* The invocation ends after the INSERT and before its response is delivered.
RecordThenLost(c) ==
  /\ call[c].at = "record"
  /\ table' = Recorded(call[c].token)
  /\ call' = [call EXCEPT ![c] = Idle]
  /\ UNCHANGED <<now, signed, tokens, cut>>

HasRow(token) ==
  \E i \in DOMAIN table : table[i].payer = token.payer /\ table[i].issuedAt = token.issuedAt

\* EXTERNAL: an operator revokes what a payer has bought so far; no code in this
\* repository writes the column.
Revoke(p) ==
  /\ table' = [i \in DOMAIN table |-> IF table[i].payer = p THEN [table[i] EXCEPT !.revoked = TRUE]
                                                           ELSE table[i]]
  /\ cut' = cut \cup {token \in signed : token.payer = p /\ (token \in tokens \/ HasRow(token))}
  /\ UNCHANGED <<now, signed, tokens, call>>

-----------------------------------------------------------------------------
\* verify_subscription_token lets a token live for Leeway seconds more;
\* verify_bearer then compares exp itself.
Decodes(token) == token.exp >= Seconds(now) - Leeway
\* Mutants: the library's check alone, and a token that ends at exp, not after it.
InTermWithLeeway(token) == Decodes(token)
InTermStrictly(token) == Decodes(token) /\ ~(token.exp <= Seconds(now))
InTerm(token) == Decodes(token) /\ ~(token.exp < Seconds(now))

PresentExpired(c) ==
  /\ call[c] = Idle
  /\ \E token \in tokens :
       /\ ~InTerm(token)
       /\ call' = [call EXCEPT ![c] = Working("TOKEN_EXPIRED", token, token \in cut)]
  /\ UNCHANGED <<now, signed, tokens, table, cut>>

Present(c) ==
  /\ call[c] = Idle
  /\ \E token \in tokens :
       /\ InTerm(token)
       /\ call' = [call EXCEPT ![c] = Working("revocation", token, token \in cut)]
  /\ UNCHANGED <<now, signed, tokens, table, cut>>

\* Mutant: any row of the payer would do.
MatchesOfPayer(token) == {i \in DOMAIN table : table[i].payer = token.payer}

\* The rows is_revoked looks for: issued_at is compared with iat in whole seconds.
Matches(token) ==
  {i \in DOMAIN table : /\ table[i].payer = token.payer
                        /\ table[i].issuedAt = token.iat * TicksPerSecond}

\* No such row means not revoked.
PassRevocation(c) ==
  /\ call[c].at = "revocation"
  /\ \/ Matches(call[c].token) = {}
     \/ \E i \in Matches(call[c].token) : ~table[i].revoked
  /\ Goto(c, "limit")
  /\ UNCHANGED <<now, signed, tokens, table, cut>>

RefuseRevoked(c) ==
  /\ call[c].at = "revocation"
  /\ \E i \in Matches(call[c].token) : table[i].revoked
  /\ Goto(c, "TOKEN_REVOKED")
  /\ UNCHANGED <<now, signed, tokens, table, cut>>

\* Mutant: it would fail open, as the rate limits do.
UnverifiedPasses(c) ==
  /\ call[c].at = "revocation"
  /\ Goto(c, "limit")
  /\ UNCHANGED <<now, signed, tokens, table, cut>>

\* The database does not answer: fail closed.
RefuseUnverified(c) ==
  /\ call[c].at = "revocation"
  /\ Goto(c, "REVOCATION_UNVERIFIED")
  /\ UNCHANGED <<now, signed, tokens, table, cut>>

\* check_payer_rate_limit, which fails open.
PassLimit(c) ==
  /\ call[c].at = "limit"
  /\ Goto(c, "served")
  /\ UNCHANGED <<now, signed, tokens, table, cut>>

RefuseLimited(c) ==
  /\ call[c].at = "limit"
  /\ Goto(c, "SUBSCRIBER_RATE_LIMIT_EXCEEDED")
  /\ UNCHANGED <<now, signed, tokens, table, cut>>

\* The call ends, with its verdict or, cut off, without one.
Leave(c) ==
  /\ call[c] # Idle
  /\ call' = [call EXCEPT ![c] = Idle]
  /\ UNCHANGED <<now, signed, tokens, table, cut>>

-----------------------------------------------------------------------------
Issue(c)  == Subscribe(c) \/ Record(c) \/ RecordThenLost(c)
Verify(c) == \/ PresentExpired(c) \/ Present(c)
             \/ PassRevocation(c) \/ RefuseRevoked(c) \/ RefuseUnverified(c)
             \/ PassLimit(c) \/ RefuseLimited(c)

Next ==
  \/ Tick
  \/ \E c \in Calls : Issue(c) \/ Verify(c) \/ Leave(c)
  \/ \E p \in Payers : Revoke(p)

Spec == Init /\ [][Next]_vars

-----------------------------------------------------------------------------
\* A subscriber gets the time the tier promises, and never more than one second
\* beyond it: iat and exp are cut to seconds when the token is signed, now when
\* it is checked, and the library's leeway is taken back by verify_bearer.
TermIsHonoured ==
  \A c \in Calls :
    LET ends == call[c].token.issuedAt + call[c].token.tier * TicksPerSecond IN
    /\ call[c].at = "TOKEN_EXPIRED" => call[c].since >= ends
    /\ call[c].at = "served" => call[c].since < ends + TicksPerSecond

\* A token that was revoked before the call arrived is refused, even when the
\* database cannot say so, if its row was written and its instant of issue
\* happens to be a whole second.
WholeSecondRevocationBites ==
  \A c \in Calls :
    call[c].at = "served" /\ call[c].barred =>
      ~HasRow(call[c].token) \/ call[c].token.issuedAt % TicksPerSecond # 0

\* A token is called revoked only if one that its payer bought in the same second
\* was: a later purchase is not hit by an earlier revocation.
RevocationHitsOnlyItsSecond ==
  \A c \in Calls : call[c].at = "TOKEN_REVOKED" =>
    \E token \in cut : token.payer = call[c].token.payer /\ token.iat = call[c].token.iat

\* "Revocation must be authoritative" (auth/dual.rs:126): a token whose row said
\* revoked when the call arrived is not served.
RevocationIsAuthoritative ==
  \A c \in Calls :
    call[c].at = "served" /\ HasRow(call[c].token) => ~call[c].barred
=============================================================================
