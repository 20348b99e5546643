--------------------------- MODULE TokenSignals ---------------------------
(***************************************************************************)
(* token-risk after the gate: four reads of a mint (signals/token.rs), each *)
(* with its own with_retry, and the score.  A read that fails leaves the    *)
(* default of its signals.                                                  *)
(***************************************************************************)
EXTENDS RpcRetry, Scoring

CONSTANT Mint   \* of each mint: what a complete reading would find

Mints == DOMAIN Mint

ASSUME MintAssumption ==
  \A m \in Mints :
    /\ Mint[m].supply \in Nat /\ Mint[m].top10 \in 0 .. Mint[m].supply
    /\ Mint[m].revoked \in BOOLEAN /\ Mint[m].freezable \in BOOLEAN
    /\ Mint[m].initialized \in BOOLEAN   \* 82 bytes of data, or more
    /\ Mint[m].idle \in Nat              \* days since its newest signature; 0 if unknown

VARIABLE token   \* the token-risk call

NextRead == [supply |-> "info", info |-> "largest", largest |-> "signature", signature |-> "scored"]
TokenReads == DOMAIN NextRead
Needed == {"supply", "info", "largest"}

NoToken == [at |-> "idle", mint |-> "none", got |-> {}, verdict |-> NoVerdict]

\* Mutant: a supply that could not be read would not lower the confidence.
TokenSignalsUnmarked(t) ==
  LET m == Mint[t.mint] IN
  [supply |-> IF "supply" \in t.got THEN m.supply ELSE 0,
   revoked |-> "info" \in t.got /\ m.revoked, freezable |-> "info" \in t.got /\ m.freezable,
   top10 |-> IF "largest" \in t.got THEN m.top10 ELSE 0,
   age |-> IF "signature" \in t.got THEN m.idle ELSE 0,
   lowConfidence |-> ~ {"info", "largest"} \subseteq t.got]

\* An authority that could not be read counts as held, a concentration that could
\* not be computed as none.  The age is that of the newest signature, limit 1.
TokenSignalsOf(t) ==
  LET m == Mint[t.mint] IN
  [supply |-> IF "supply" \in t.got THEN m.supply ELSE 0,
   revoked |-> "info" \in t.got /\ m.revoked, freezable |-> "info" \in t.got /\ m.freezable,
   top10 |-> IF "largest" \in t.got THEN m.top10 ELSE 0,
   age |-> IF "signature" \in t.got THEN m.idle ELSE 0,
   lowConfidence |-> ~ Needed \subseteq t.got]

-----------------------------------------------------------------------------
AskToken ==
  /\ token.at = "idle"
  /\ \E m \in Mints : token' = [NoToken EXCEPT !.at = "supply", !.mint = m]
  /\ rpc' = FirstAttempt

\* Mutant: a read that failed would be made again, whatever with_retry returned.
TokenReadAgain ==
  /\ token.at \in TokenReads
  /\ \E ok \in BOOLEAN :
       /\ Returns(ok)
       /\ LET t == [token EXCEPT !.got = IF ok THEN @ \cup {token.at} ELSE @,
                                 !.at = IF ok THEN NextRead[token.at] ELSE @]
          IN IF t.at = "scored"
             THEN token' = [t EXCEPT !.verdict = ScoreToken(TokenSignalsOf(t))] /\ rpc' = NoRead
             ELSE token' = t /\ rpc' = FirstAttempt

TokenRead ==
  /\ token.at \in TokenReads
  /\ \E ok \in BOOLEAN :
       /\ Returns(ok)
       /\ LET useful == ok /\ (token.at = "info" => Mint[token.mint].initialized)
              t == [token EXCEPT !.got = IF useful THEN @ \cup {token.at} ELSE @,
                                 !.at = NextRead[token.at]]
          IN IF t.at = "scored"
             THEN token' = [t EXCEPT !.verdict = ScoreToken(TokenSignalsOf(t))] /\ rpc' = NoRead
             ELSE token' = t /\ rpc' = FirstAttempt

AnswerToken ==
  /\ token.at = "scored"
  /\ token' = NoToken
  /\ UNCHANGED rpc

TokenStep == TokenRead \/ AnswerToken
=============================================================================
