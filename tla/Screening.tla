----------------------------- MODULE Screening -----------------------------
(***************************************************************************)
(* One instance that answers wallet-risk, token-risk and tx-risk after the  *)
(* gate: one call at a time in detail, on labels that other calls of the    *)
(* process may refresh and operators may edit, until the platform ends the  *)
(* process.  How calls are paid for and cached is PaidRequest's and         *)
(* ScoreCache's matter.                                                     *)
(***************************************************************************)
EXTENDS WalletSignals, TokenSignals, TxScreening

vars == <<rpc, labelVars, wallet, token, tx>>

Idle == wallet.at = "idle" /\ token.at = "idle" /\ tx.at = "idle"

Init ==
  /\ rpc = NoRead
  /\ LabelInit
  /\ wallet = NoWallet /\ token = NoToken /\ tx = NoTx

-----------------------------------------------------------------------------
Ask ==
  /\ Idle
  /\ \/ AskWallet /\ UNCHANGED <<token, tx>>
     \/ AskToken /\ UNCHANGED <<labelVars, wallet, tx>>
     \/ AskTx /\ UNCHANGED <<rpc, wallet, token>>

\* What the executor runs of a call once its await is over.
Step ==
  \/ WalletStep /\ UNCHANGED <<token, tx>>
  \/ TokenStep /\ UNCHANGED <<labelVars, wallet, tx>>
  \/ TxStep /\ UNCHANGED <<rpc, wallet, token>>
  \/ Retry /\ UNCHANGED <<labelVars, wallet, token, tx>>

\* What others do meanwhile.
Environment ==
  \/ (EditLabels \/ LabelsAge \/ RefreshByOther) /\ UNCHANGED <<rpc, wallet, token, tx>>
  \/ BalanceMoves /\ UNCHANGED <<rpc, wallet, token>>

\* The platform ends the process, at the time limit of a call or between calls.
Restart ==
  /\ ForgetLabels
  /\ rpc' = NoRead
  /\ wallet' = NoWallet /\ token' = NoToken /\ tx' = NoTx

Next == Ask \/ Step \/ Environment \/ Restart

\* Every request to the node ends, since its client has a timeout, and every sleep
\* ends; the executor then polls the call again.
Spec == Init /\ [][Next]_vars
FairSpec == Spec /\ WF_vars(Step)

-----------------------------------------------------------------------------
\* Every variable has its type; no more hops are traced, pages read and transactions
\* parsed than the configuration allows.
TypeOK ==
  /\ RpcTypeOK
  /\ LabelTypeOK
  /\ wallet.at \in {"idle", "refresh", "score", "weigh", "scored"} \cup ReadStates
  /\ wallet.subject \in Wallets \cup {None}
  /\ wallet.lamports \in Nat /\ wallet.accounts \in Nat
  /\ wallet.pages \in 0 .. MaxPages /\ wallet.hopPages \in 0 .. HopPages - 1
  /\ wallet.genesis \in BOOLEAN
  /\ wallet.chain \in Seq(Hops) /\ Len(wallet.chain) <= MaxHops
  /\ wallet.source \in {None, "partial_history", "no_history", "genesis_untraceable",
                        "labeled_bad", "traced_clean"}
  /\ wallet.index \subseteq Labels /\ wallet.denied \subseteq Labels
  /\ wallet.parsed \in 0 .. wallet.tried /\ wallet.tried \in 0 .. MaxParse
  /\ wallet.parties \subseteq Addresses
  /\ wallet.verdict \in Verdicts \cup {NoVerdict}
  /\ token.at \in {"idle", "scored"} \cup TokenReads
  /\ token.mint \in Mints \cup {"none"}
  /\ token.got \subseteq TokenReads
  /\ token.verdict \in Verdicts \cup {NoVerdict}
  /\ tx.at \in {"idle", "accounts", "balance", "simulate", "screened"}
  /\ tx.tx \in Txs \cup {"none"}
  /\ tx.hits \in Nat /\ tx.accounts \in BOOLEAN /\ tx.balance \in BOOLEAN
  /\ tx.moved \subseteq Nat /\ tx.slots \in Nat /\ tx.unparsed \subseteq Nat
  /\ tx.fails \in BOOLEAN /\ tx.sol \subseteq Int /\ tx.tokens \subseteq Int
  /\ tx.verdict \in Verdicts \cup {NoVerdict}

\* A wallet or program whose deny label the instance has held ever since the call
\* began is blocked, whatever is read or fails, whatever speaks for it, and however
\* the labels are refreshed or edited while the call runs.
DeniedIsBlocked ==
  /\ (wallet.at = "scored" /\ Listed(standing, wallet.subject))
       => wallet.verdict.recommendation = "BLOCK"
  /\ (tx.at = "screened" /\ \E p \in Programs(tx.tx) : Listed(standing, p))
       => tx.verdict.recommendation = "BLOCK"

\* A wallet is only allowed if it has a history of a full page or more, and that much
\* of it was read: while the node withholds the history no wallet is allowed, whatever
\* speaks for it.  Not all that counts need be read, though.  A genesis or a recent
\* transaction that could not be read hides a labelled funder or counterparty, and the
\* verdict is milder than complete reads would have made it.
AllowNeedsHistory ==
  (wallet.at = "scored" /\ wallet.verdict.recommendation = "ALLOW") =>
    /\ Len(History[wallet.subject]) >= PageSize
    /\ Totals(wallet).total >= PageSize

\* The account h paid for the first balance of a: it lost something in the first
\* transaction of a, no other account lost more, and a received.
Funded(h, a) ==
  LET t == Genesis[a]
      lost == {i \in DOMAIN t.keys : t.keys[i] # a /\ Lost(t, i) > 0}
  IN /\ \E i \in lost : t.keys[i] = h /\ \A j \in lost : Lost(t, j) <= Lost(t, i)
     /\ \E i \in DOMAIN t.keys : t.keys[i] = a /\ Lost(t, i) < 0

\* Provenance is never guessed: a trace is reported only of a history that was read to
\* its beginning, each of its hops did fund the one before, a bad source is its last
\* hop, and a trace called clean passed no account on the standing deny list.
TraceIsHonest ==
  (wallet.at = "scored" /\ wallet.source \in {"traced_clean", "labeled_bad"}) =>
    LET n == Len(wallet.chain)
        hop(i) == IF i = 0 THEN wallet.subject ELSE wallet.chain[i].address
    IN /\ n > 0 /\ Totals(wallet).total = Len(History[wallet.subject])
       /\ \A i \in 1 .. n : Funded(hop(i), hop(i - 1))
       /\ \A i \in 1 .. n : wallet.chain[i].labelled <=> (i = n /\ wallet.source = "labeled_bad")
       /\ wallet.source = "traced_clean" => \A i \in 1 .. n : ~Listed(standing, hop(i))

\* A call makes at most so many reads, each within RetriesAreBounded, whatever the
\* chain looks like: the only bound there is on the time of a call.
ReadsAreBounded == wallet.reads <= ReadBound

\* A mint is only allowed on its supply, its authorities and its largest accounts as they
\* were read, never on their defaults: nobody can mint more of it, ten accounts do not
\* hold more than four fifths of it, and a freeze authority has counted against it.
AllowedMintsAreSafe ==
  (token.at = "scored" /\ token.verdict.recommendation = "ALLOW") =>
    /\ Needed \subseteq token.got
    /\ Mint[token.mint].revoked
    /\ ~Over(Mint[token.mint], 80)
    /\ Mint[token.mint].freezable => token.verdict.score >= 20

\* The simulation enriches and never excuses: what is blocked is what the static screen
\* blocks, what it wants reviewed is never signed, and no score falls.
SimulationOnlyAdds ==
  tx.at = "screened" =>
    LET static == ScoreTx(StaticSignals(tx.tx, tx.hits)) IN
    /\ tx.verdict.recommendation = "BLOCK" <=> static.recommendation = "BLOCK"
    /\ tx.verdict.recommendation = "SIGN" => static.recommendation = "SIGN"
    /\ tx.verdict.score >= static.score

\* No outflow is made up from missing data: one that is reported is what the
\* transaction does to that account, unless others took from it after it was read or
\* the node returned something that is no token account.
OutflowIsObserved ==
  tx.at = "screened" =>
    /\ \A n \in tx.sol : n < 0 => (n = Effect[tx.tx].sol \/ 0 \in tx.moved)
    /\ \A n \in tx.tokens : n < 0 =>
         \E i \in Touched(tx.tx) : n = Delta(tx.tx, i) \/ i \in tx.moved \cup tx.unparsed

\* Every call ends, with an answer or with the process: no wallet makes the trace go
\* round, and no node that errs makes it wait forever.
EveryCallEnds == ~Idle ~> Idle

\* The awaits a call has before it, at most: those of its reads, and of its scoring.
WalletAwaits ==
  CASE wallet.at = "idle" -> 0 [] wallet.at = "scored" -> 1 [] wallet.at = "weigh" -> 2
    [] wallet.at = "score" -> 3 [] wallet.at \in ReadStates -> 4 + ReadBound - wallet.reads
    [] wallet.at = "refresh" -> 5 + ReadBound
TokenAwaits ==
  CASE token.at = "idle" -> 0 [] token.at = "scored" -> 1 [] token.at = "signature" -> 2
    [] token.at = "largest" -> 3 [] token.at = "info" -> 4 [] token.at = "supply" -> 5
TxAwaits ==
  CASE tx.at = "idle" -> 0 [] tx.at = "screened" -> 1 [] tx.at = "simulate" -> 2
    [] tx.at = "balance" -> 3 [] tx.at = "accounts" -> 4
AwaitsLeft == WalletAwaits + TokenAwaits + TxAwaits

\* A call never turns back: every step it takes leaves it fewer awaits, or is one more
\* attempt at the read it waits for, of which RetriesAreBounded allows so many; and
\* nothing that others do meanwhile lengthens what is left.
NoCallTurnsBack ==
  [][/\ Step => \/ AwaitsLeft' < AwaitsLeft
                \/ AwaitsLeft' = AwaitsLeft /\ rpc.attempt < rpc'.attempt
     /\ ~Idle => AwaitsLeft' <= AwaitsLeft]_vars
=============================================================================
