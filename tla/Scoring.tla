------------------------------ MODULE Scoring ------------------------------
(***************************************************************************)
(* The three score models as functions of the signals: scoring.rs,          *)
(* scoring_token.rs and scoring_tx.rs.  Confidence is in hundredths.        *)
(***************************************************************************)
EXTENDS Integers, Sequences, FiniteSetsExt

Points(condition, n) == IF condition THEN n ELSE 0
Clamp(score) == IF score < 0 THEN 0 ELSE IF score > 100 THEN 100 ELSE score
Weight(found) == MapThenSumSet(LAMBDA l : l.weight, found)

Band(score) ==
  CASE score < 25 -> "LOW"
    [] score \in 25 .. 49 -> "MEDIUM"
    [] score \in 50 .. 74 -> "HIGH"
    [] score > 74 -> "CRITICAL"

\* Mutant: the quality of the signals would not count.
RecommendByBand(band, denied, quality) ==
  IF denied \/ band = "CRITICAL" THEN "BLOCK"
  ELSE IF band \in {"HIGH", "MEDIUM"} THEN "REVIEW"
  ELSE "ALLOW"

RecommendationFrom(band, denied, quality) ==
  IF denied \/ band = "CRITICAL" THEN "BLOCK"
  ELSE IF band \in {"HIGH", "MEDIUM"} \/ quality = "low" THEN "REVIEW"
  ELSE "ALLOW"

NoVerdict == [score |-> 0, quality |-> "none", confidence |-> 0, recommendation |-> "none"]
Verdicts ==
  [score : 0 .. 100, quality : {"low", "medium", "high"}, confidence : 0 .. 95,
   recommendation : {"ALLOW", "SIGN", "REVIEW", "BLOCK"}]

-----------------------------------------------------------------------------
\* min(15, 3 ln days) in whole points: one for each bound that is reached.
AgeBounds == <<2, 2, 3, 4, 6, 8, 11, 15, 21, 29, 40, 55, 77, 107, 149>>
AgeBonus(days) == Cardinality({k \in DOMAIN AgeBounds : days >= AgeBounds[k]})

\* The labelled hop nearest to the wallet, beyond its own funder.
ChainPoints(chain) ==
  LET labelled == {hop \in 2 .. Len(chain) : chain[hop].labelled}
  IN IF 2 \in labelled THEN 25 ELSE Points(labelled # {}, 15)

WalletScore(s, denied, allowed) ==
  Clamp(Points(s.fresh, 25)
        + Points(s.age > 30 /\ s.tx30 < 3, 10)
        + Points(s.tx30 > 50 /\ s.lamports < 10000000, 15)
        + Points(s.chain # <<>> /\ s.chain[1].labelled, 40)
        + ChainPoints(s.chain)
        + Points(s.source \in {"partial_history", "genesis_untraceable"}, 5)
        + Points(s.flagged # {}, 30)
        + Weight(denied)
        - AgeBonus(s.age)
        - Points(~s.estimated /\ s.tx30 >= 10 /\ s.parties >= 5, 10)
        + Weight(allowed))

WalletQuality(s) ==
  IF s.total < 5 \/ s.pages < 2 THEN "low" ELSE IF s.estimated THEN "medium" ELSE "high"

WalletConfidence(s) ==
  LET quality == WalletQuality(s)
      sum == (IF quality = "high" THEN 65 ELSE IF quality = "medium" THEN 55 ELSE 45)
             + (IF s.total >= 50 THEN 20 ELSE Points(s.total >= 10, 10))
             + (IF s.age >= 90 THEN 15 ELSE Points(s.age >= 7, 5))
             + Points(s.active48, 5) + Points(s.accounts >= 3, 5)
  IN IF sum > 95 THEN 95 ELSE sum

\* score_wallet and the recommendation the handler makes of it.
ScoreWallet(s, denied, allowed) ==
  LET score == WalletScore(s, denied, allowed)
  IN [score |-> score, quality |-> WalletQuality(s), confidence |-> WalletConfidence(s),
      recommendation |-> RecommendationFrom(Band(score), denied # {}, WalletQuality(s))]

-----------------------------------------------------------------------------
\* Percentages are compared without dividing.
Over(s, percent) == s.supply > 0 /\ 100 * s.top10 > percent * s.supply

TokenScore(s) ==
  Clamp(Points(~s.revoked, 35) + Points(s.freezable, 20)
        + Points(Over(s, 80), 30) + Points(s.age < 7 /\ Over(s, 50), 15))

\* Liquidity is never looked at, so that the quality is never high.
TokenQuality(s) == IF s.lowConfidence THEN "low" ELSE "medium"

TokenConfidence(s) ==
  (IF s.lowConfidence THEN 45 ELSE 70) + Points(s.supply > 0, 10) + Points(s.age > 30, 5)

\* score_token; the handler looks up no label for a mint.
ScoreToken(s) ==
  [score |-> TokenScore(s), quality |-> TokenQuality(s), confidence |-> TokenConfidence(s),
   recommendation |-> RecommendationFrom(Band(TokenScore(s)), FALSE, TokenQuality(s))]

-----------------------------------------------------------------------------
\* The changes of balance are those the simulation measured, one of SOL at most.
SolOutflow(s)   == s.unknown # {} /\ \E n \in s.sol : n < -10000000
TokenOutflow(s) == s.unknown # {} /\ \E n \in s.tokens : n < 0

HasBlock(s) == s.denied > 0 \/ s.handoffs > 0
StaticReview(s) == s.delegations > 0 \/ s.closes > 0 \/ s.lookups \/ s.unknown # {}
HasReview(s) == StaticReview(s) \/ s.fails \/ SolOutflow(s) \/ TokenOutflow(s)

TxScore(s) ==
  Clamp(60 * s.denied + 60 * s.handoffs
        + Points(s.delegations > 0, 30) + Points(s.closes > 0, 20)
        + Points(s.lookups, 15) + Points(s.unknown # {}, 15) + Points(s.fails, 10)
        + Points(SolOutflow(s), 25) + Points(TokenOutflow(s), 25))

TxQuality(s) ==
  IF s.instructions = 0 THEN "low" ELSE IF s.lookups THEN "medium" ELSE "high"

\* Mutant: the bands of the score would decide, as for a wallet.
VerdictByBand(s) ==
  CASE Band(TxScore(s)) = "LOW" -> "SIGN"
    [] Band(TxScore(s)) \in {"MEDIUM", "HIGH"} -> "REVIEW"
    [] Band(TxScore(s)) = "CRITICAL" -> "BLOCK"
TxVerdict(s) == IF HasBlock(s) THEN "BLOCK" ELSE IF HasReview(s) THEN "REVIEW" ELSE "SIGN"

TxConfidence(s) ==
  CASE TxQuality(s) = "high" -> 85 [] TxQuality(s) = "medium" -> 60 [] OTHER -> 40

ScoreTx(s) ==
  [score |-> TxScore(s), quality |-> TxQuality(s), confidence |-> TxConfidence(s),
   recommendation |-> TxVerdict(s)]
=============================================================================
