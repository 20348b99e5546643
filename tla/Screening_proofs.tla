-------------------------- MODULE Screening_proofs --------------------------
(***************************************************************************)
(* Proofs about Screening, for any ledger, labels, bounds and policy.       *)
(***************************************************************************)
EXTENDS Screening, FiniteInduction, FiniteSetTheorems, TLAPS

-----------------------------------------------------------------------------
(* Retries. *)

RetryInv ==
  /\ rpc \in [attempt : Nat, spent : Nat]
  /\ RetriesAreBounded

LEMMA StartsBounded ==
  /\ NoRead \in [attempt : Nat, spent : Nat] /\ FirstAttempt \in [attempt : Nat, spent : Nat]
  /\ NoRead.attempt <= MaxAttempts /\ NoRead.spent < Budget
  /\ FirstAttempt.attempt <= MaxAttempts /\ FirstAttempt.spent < Budget
  BY PolicyAssumption DEF NoRead, FirstAttempt

\* A wait is never as long as what the budget has left.
LEMMA RetryBounded == RetryInv /\ Retry => RetryInv'
<1> SUFFICES ASSUME RetryInv, Retry PROVE RetryInv'
  OBVIOUS
<1>1. PICK kind \in ErrorKinds, took \in 0 .. MaxOp :
        /\ WillRetry(kind, took)
        /\ \E sleep \in Waits(took) :
             rpc' = [attempt |-> rpc.attempt + 1, spent |-> rpc.spent + took + sleep]
  BY DEF Retry
<1>2. PICK sleep \in Waits(took) :
        rpc' = [attempt |-> rpc.attempt + 1, spent |-> rpc.spent + took + sleep]
  BY <1>1
<1>3. rpc.attempt \in Nat /\ rpc.spent \in Nat /\ took \in Nat /\ rpc.attempt < MaxAttempts
  BY <1>1, PolicyAssumption DEF RetryInv, WillRetry
<1>4. BudgetLeft(took) > 1 /\ BudgetLeft(took) = Budget - (rpc.spent + took)
  BY <1>1, <1>3, PolicyAssumption DEF WillRetry, BudgetLeft
<1>5. sleep \in Int /\ sleep >= 0 /\ sleep < BudgetLeft(took)
  BY <1>2 DEF Waits
<1> QED
  BY <1>2, <1>3, <1>4, <1>5, PolicyAssumption DEF RetryInv, RetriesAreBounded

\* No other step leaves anything but a first attempt, or no read, behind.
LEMMA ReadsStartAfresh ==
  ASSUME [Next]_vars, ~Retry
  PROVE  rpc' \in {rpc, NoRead, FirstAttempt}
<1>1. \A w : Proceed(w) => rpc' \in {NoRead, FirstAttempt}
  BY DEF Proceed
<1>2. CASE Ask
  BY <1>2 DEF Ask, AskWallet, AskToken
<1>3. CASE WalletStep
  BY <1>1, <1>3 DEF WalletStep, RefreshForWallet, WalletRead, LookUpDeny, WeighWallet, AnswerWallet,
     BalanceRead, AccountsRead, PageRead, GenesisRead, HopPageRead, HopGenesisRead, ActivityRead
<1>4. CASE TokenStep
  BY <1>4 DEF TokenStep, TokenRead, AnswerToken
<1>5. CASE (TxStep /\ UNCHANGED rpc) \/ Environment \/ Restart \/ UNCHANGED vars
  BY <1>5 DEF Environment, Restart, vars
<1> QED
  BY <1>2, <1>3, <1>4, <1>5 DEF Next, Step

LEMMA InitRetry == Init => RetryInv
  BY StartsBounded DEF Init, RetryInv, RetriesAreBounded

LEMMA NextRetry == RetryInv /\ [Next]_vars => RetryInv'
<1> SUFFICES ASSUME RetryInv, [Next]_vars PROVE RetryInv'
  OBVIOUS
<1>1. CASE Retry
  BY <1>1, RetryBounded
<1>2. CASE ~Retry
  BY <1>2, ReadsStartAfresh, StartsBounded DEF RetryInv, RetriesAreBounded
<1> QED
  BY <1>1, <1>2

\* Every read of the chain ends within its attempts and its budget and one request
\* more, whatever the node answers and however long it takes (RetriesAreBounded).
THEOREM RetriesBounded == Spec => []RetriesAreBounded
<1>1. RetryInv => RetriesAreBounded
  BY DEF RetryInv
<1> QED
  BY InitRetry, NextRetry, <1>1, PTL DEF Spec

-----------------------------------------------------------------------------
(* Labels. *)

LabelInv ==
  /\ labelTable \in LabelTables
  /\ LabelsAreOneTable
  /\ standing \subseteq labels.deny

LEMMA InitLabels == Init => LabelInv
  BY DEF Init, LabelInit, LabelInv, LabelsAreOneTable, Split

LEMMA RefreshLabels ==
  ASSUME LabelInv, Refresh, UNCHANGED labelTable
  PROVE  LabelInv' /\ standing' \subseteq standing
  BY DEF Refresh, StoreRows, Hold, LabelInv, LabelsAreOneTable

\* The labels of a call only change by a refresh, its own or another's.
LEMMA LabelStep ==
  ASSUME LabelInv, [Next]_vars
  PROVE  /\ LabelInv'
         /\ \/ standing' \subseteq standing
            \/ Ask /\ (AskWallet \/ AskTx) /\ UNCHANGED <<labels, labelTable>>
            \/ Restart
<1>1. CASE UNCHANGED labelVars
  BY <1>1 DEF labelVars, LabelInv, LabelsAreOneTable
<1>2. CASE Ask /\ (AskWallet \/ AskTx)
  BY <1>2 DEF AskWallet, AskTx, StartStanding, LabelInv, LabelsAreOneTable
<1>3. CASE RefreshForWallet \/ RefreshByOther
  BY <1>3, RefreshLabels DEF RefreshForWallet, RefreshByOther
<1>4. CASE EditLabels \/ LabelsAge
  BY <1>4 DEF EditLabels, LabelsAge, LabelInv, LabelsAreOneTable
<1>5. CASE Restart
  BY <1>5 DEF Restart, ForgetLabels, LabelInv, LabelsAreOneTable, Split
<1> QED
  <2>1. CASE Ask
    BY <2>1, <1>1, <1>2 DEF Ask
  <2>2. CASE Step
    BY <2>2, <1>1, <1>3 DEF Step, WalletStep, WalletRead, LookUpDeny, WeighWallet, AnswerWallet,
       TxStep, TokenAccountsRead, PreBalanceRead, SimulateAnswers, SimulateFails, AnswerTx
  <2>3. CASE Environment
    BY <2>3, <1>1, <1>3, <1>4 DEF Environment, BalanceMoves
  <2> QED
    BY <2>1, <2>2, <2>3, <1>1, <1>5 DEF Next, vars, labelVars

\* Deny and allow labels are always those of one reading of the table, or the seeds
\* (LabelsAreOneTable).
THEOREM LabelsOfOneTable == Spec => []LabelsAreOneTable
<1>1. LabelInv /\ [Next]_vars => LabelInv'
  BY LabelStep
<1>2. LabelInv => LabelsAreOneTable
  BY DEF LabelInv
<1> QED
  BY InitLabels, <1>1, <1>2, PTL DEF Spec

\* The deny index is finite, as the tables and the seeds are.
LEMMA DenyIsFinite == LabelInv => IsFiniteSet(labels.deny)
<1> SUFFICES ASSUME LabelInv PROVE IsFiniteSet(labels.deny)
  OBVIOUS
<1>1. PICK t \in LabelTables \cup {StaticLabels} : labels = Split(t)
  BY DEF LabelInv, LabelsAreOneTable
<1>2. IsFiniteSet(t)
  BY LabelsAssumption
<1>3. labels.deny \subseteq t
  BY <1>1 DEF Split
<1> QED
  BY <1>2, <1>3, FS_Subset

-----------------------------------------------------------------------------
(* The steps of a wallet-risk call: each says what it leaves alone. *)

Fields == DOMAIN NoWallet
IsCall(w) == w = [f \in Fields |-> w[f]]
Same(x, w, changed) == IsCall(x) /\ \A f \in Fields \ changed : x[f] = w[f]

LEMMA FieldsAre ==
  Fields = {"at", "subject", "lamports", "accounts", "pages", "genesis", "chain", "hopPages",
            "source", "index", "tried", "parsed", "parties", "denied", "reads", "verdict"}
  BY DEF Fields, NoWallet

LEMMA NoWalletIsCall == IsCall(NoWallet)
  BY DEF IsCall, Fields, NoWallet

LEMMA Proceeds ==
  ASSUME NEW w, IsCall(w), Proceed(w)
  PROVE  /\ Same(wallet', w, {"reads"})
         /\ wallet'.reads = IF w.at \in ReadStates THEN Least(w.reads, ReadBound) + 1 ELSE w.reads
  BY FieldsAre DEF Proceed, IsCall, Same

LEMMA EndTraceMoves ==
  ASSUME NEW w, IsCall(w), NEW s
  PROVE  /\ Same(EndTrace(w, s), w, {"at", "index", "source"})
         /\ EndTrace(w, s).at \in {"score", "activity"}
         /\ EndTrace(w, s).at = "activity" => ToParse(w) # 0
<1> DEFINE x == [w EXCEPT !.source = s]
<1>1. Same(x, w, {"source"}) /\ ToParse(x) = ToParse(w)
  BY FieldsAre DEF IsCall, Same, ToParse, Totals
<1> QED
  BY <1>1, FieldsAre DEF EndTrace, StartActivity, IsCall, Same

LEMMA StartTraceMoves ==
  ASSUME NEW w, IsCall(w)
  PROVE  /\ Same(StartTrace(w), w, {"at", "index", "source"})
         /\ StartTrace(w).at \in {"genesis", "score", "activity"}
         /\ StartTrace(w).at = "activity" => ToParse(w) # 0
<1>1. CASE StartTrace(w) = [w EXCEPT !.at = "genesis"]
  BY <1>1, FieldsAre DEF IsCall, Same
<1>2. CASE \E s : StartTrace(w) = EndTrace(w, s)
  BY <1>2, EndTraceMoves
<1> QED
  BY <1>1, <1>2 DEF StartTrace

LEMMA VisitMoves ==
  ASSUME NEW w, IsCall(w), NEW a
  PROVE  /\ Same(Visit(w, a), w, {"at", "index", "source", "chain", "hopPages"})
         /\ Visit(w, a).at \in {"hop", "score", "activity"}
         /\ Visit(w, a).at = "activity" => ToParse(w) # 0
         /\ Visit(w, a).chain = Append(w.chain, [address |-> a, labelled |-> Listed(labels.deny, a)])
         /\ Visit(w, a).hopPages = 0
         /\ Visit(w, a).at = "hop" => ~(Len(Visit(w, a).chain) >= MaxHops)
<1> DEFINE x == [w EXCEPT !.chain = Append(@, [address |-> a, labelled |-> Listed(labels.deny, a)]),
                          !.hopPages = 0]
<1>1. /\ Same(x, w, {"chain", "hopPages"}) /\ ToParse(x) = ToParse(w)
      /\ x.chain = Append(w.chain, [address |-> a, labelled |-> Listed(labels.deny, a)])
      /\ x.hopPages = 0
  BY FieldsAre DEF IsCall, Same, ToParse, Totals
<1>2. Visit(w, a) \in {[x EXCEPT !.at = "hop"], EndTrace(x, "labeled_bad"), EndTrace(x, "traced_clean")}
  BY DEF Visit
<1>3. Visit(w, a) = [x EXCEPT !.at = "hop"] => ~(Len(x.chain) >= MaxHops)
  <2>1. EndTrace(x, "labeled_bad").at # "hop" /\ EndTrace(x, "traced_clean").at # "hop"
    BY <1>1, EndTraceMoves DEF Same
  <2>2. [x EXCEPT !.at = "hop"].at = "hop"
    BY <1>1, FieldsAre DEF Same, IsCall
  <2> QED
    BY <2>1, <2>2 DEF Visit
<1> HIDE DEF x
<1>4. CASE Visit(w, a) = [x EXCEPT !.at = "hop"]
  BY <1>1, <1>3, <1>4, FieldsAre DEF IsCall, Same
<1>5. CASE \E s : Visit(w, a) = EndTrace(x, s)
  <2> PICK s : Visit(w, a) = EndTrace(x, s)
    BY <1>5
  <2>1. /\ Same(EndTrace(x, s), x, {"at", "index", "source"})
        /\ EndTrace(x, s).at \in {"score", "activity"}
        /\ EndTrace(x, s).at = "activity" => ToParse(x) # 0
    BY <1>1, EndTraceMoves DEF Same
  <2> QED
    BY <1>1, <2>1, FieldsAre DEF Same
<1> QED
  BY <1>2, <1>4, <1>5

-----------------------------------------------------------------------------
(* How much of a history has been read. *)

PageInv ==
  /\ IsCall(wallet)
  /\ wallet.at # "idle" => wallet.subject \in Wallets
  /\ wallet.pages \in 0 .. MaxPages
  /\ wallet.at \in {"idle", "refresh", "balance", "accounts"} => wallet.pages = 0
  /\ wallet.at = "pages" => /\ wallet.pages < MaxPages
                            /\ Len(History[wallet.subject]) >= wallet.pages * 100
  /\ wallet.pages > 0 => Len(History[wallet.subject]) >= (wallet.pages - 1) * 100

LEMMA InitPages == Init => PageInv
<1>1. NoWallet.at = "idle" /\ NoWallet.pages = 0
  BY DEF NoWallet
<1> QED
  BY <1>1, NoWalletIsCall, WalletAssumption DEF Init, PageInv

LEMMA HistoryIsSequence == \A a \in Wallets : Len(History[a]) \in Nat
  BY WalletAssumption

\* A step that leaves the pages alone, and does not go back to them.
LEMMA PagesKept ==
  ASSUME PageInv, IsCall(wallet'), wallet'.at # "idle",
         wallet'.subject = wallet.subject, wallet.at # "idle", wallet'.pages = wallet.pages,
         wallet'.at \in {"refresh", "balance", "accounts", "pages"}
           => wallet.pages = 0 /\ (wallet'.at = "pages" => MaxPages # 0)
  PROVE  PageInv'
  BY HistoryIsSequence, WalletAssumption DEF PageInv

\* A page that is full, but the last the budget has, ends the reading like one that is
\* not full.
LEMMA PageReadKeeps ==
  ASSUME PageInv, NEW ok \in BOOLEAN, PageRead(ok)
  PROVE  /\ PageInv' /\ Same(wallet', wallet, {"at", "index", "source", "pages", "genesis", "reads"})
         /\ wallet'.at \in {"pages", "genesis", "score", "activity"}
<1> DEFINE page == wallet.pages + 1
           w == IF ok THEN [wallet EXCEPT !.pages = page, !.genesis = IsLast(wallet.subject, page)]
                ELSE wallet
           ends == ~ok \/ w.genesis \/ page = MaxPages
<1>1. wallet.at = "pages" /\ Proceed(IF ends THEN StartTrace(w) ELSE w)
  BY DEF PageRead
<1>2. /\ Same(w, wallet, {"pages", "genesis"})
      /\ w.pages = IF ok THEN page ELSE wallet.pages
      /\ ok => w.genesis = IsLast(wallet.subject, page)
  BY FieldsAre DEF PageInv, Same, IsCall
<1>3. /\ wallet.subject \in Wallets /\ wallet.pages \in Nat /\ wallet.pages < MaxPages
      /\ Len(History[wallet.subject]) \in Nat
      /\ Len(History[wallet.subject]) >= wallet.pages * 100
  BY <1>1, HistoryIsSequence, WalletAssumption DEF PageInv
<1> HIDE DEF w
<1>4. CASE ends
  <2>1. Same(StartTrace(w), w, {"at", "index", "source"})
        /\ StartTrace(w).at \in {"genesis", "score", "activity"}
    BY <1>2, StartTraceMoves DEF Same
  <2>2. Same(wallet', StartTrace(w), {"reads"})
    BY <1>1, <1>4, <2>1, Proceeds DEF Same
  <2>3. /\ Same(wallet', wallet, {"at", "index", "source", "pages", "genesis", "reads"})
        /\ wallet'.at \in {"genesis", "score", "activity"}
        /\ wallet'.pages = w.pages
    BY <1>2, <2>1, <2>2, FieldsAre DEF Same
  <2>4. wallet'.subject = wallet.subject /\ IsCall(wallet')
    BY <2>3, FieldsAre DEF Same
  <2> QED
    BY <1>2, <1>3, <2>3, <2>4, WalletAssumption DEF PageInv
<1>5. CASE ~ends
  <2>1. Same(wallet', w, {"reads"})
    BY <1>1, <1>2, <1>5, Proceeds DEF Same
  <2>2. /\ Same(wallet', wallet, {"at", "index", "source", "pages", "genesis", "reads"})
        /\ wallet'.at = "pages" /\ wallet'.pages = page
    BY <1>1, <1>2, <1>5, <2>1, FieldsAre DEF Same
  <2>3. wallet'.subject = wallet.subject /\ IsCall(wallet')
    BY <2>2, FieldsAre DEF Same
  <2>4. page # MaxPages /\ ~IsLast(wallet.subject, page)
    BY <1>2, <1>5
  <2>5. page \in Nat /\ page < MaxPages /\ page > 0 /\ MaxPages \in Nat
    BY <1>3, <2>4, WalletAssumption
  <2>6. Len(History[wallet.subject]) >= page * 100
    BY <1>3, <2>4, <2>5 DEF IsLast, PageSize
  <2>7. Len(History[wallet.subject]) >= (page - 1) * 100
    BY <1>3
  <2> HIDE DEF page
  <2> QED
    BY <1>3, <2>2, <2>3, <2>5, <2>6, <2>7 DEF PageInv
<1> QED
  BY <1>4, <1>5

\* The other reads.
LEMMA OtherReads ==
  ASSUME IsCall(wallet), NEW ok \in BOOLEAN,
         BalanceRead(ok) \/ AccountsRead(ok) \/ GenesisRead(ok) \/ HopPageRead(ok)
         \/ HopGenesisRead(ok) \/ ActivityRead(ok)
  PROVE  /\ Same(wallet', wallet, Fields \ {"subject", "pages", "genesis", "denied", "verdict"})
         /\ wallet'.at \notin {"idle", "refresh", "balance", "weigh", "scored"}
         /\ wallet'.at = "accounts" => wallet.at = "balance"
         /\ wallet'.at = "pages" => wallet.at = "accounts" /\ MaxPages # 0
         /\ wallet.at \in ReadStates
<1> DEFINE changes == Fields \ {"subject", "pages", "genesis", "denied", "verdict"}
           good(w) == /\ Same(w, wallet, changes)
                      /\ w.at \notin {"idle", "refresh", "balance", "weigh", "scored"}
                      /\ w.at = "accounts" => wallet.at = "balance"
                      /\ w.at = "pages" => wallet.at = "accounts" /\ MaxPages # 0
<1>0. \A w : good(w) /\ Proceed(w) => good(wallet')
  <2> SUFFICES ASSUME NEW w, good(w), Proceed(w) PROVE good(wallet')
    OBVIOUS
  <2>1. Same(wallet', w, {"reads"})
    BY Proceeds DEF Same
  <2> QED
    BY <2>1, FieldsAre DEF Same
<1>1. \A v, s : Same(v, wallet, changes) => good(EndTrace(v, s))
  <2> SUFFICES ASSUME NEW v, NEW s, Same(v, wallet, changes) PROVE good(EndTrace(v, s))
    OBVIOUS
  <2>1. Same(EndTrace(v, s), v, {"at", "index", "source"}) /\ EndTrace(v, s).at \in {"score", "activity"}
    BY EndTraceMoves DEF Same
  <2> QED
    BY <2>1, FieldsAre DEF Same
<1>2. \A a : good(Visit(wallet, a))
  <2> SUFFICES ASSUME NEW a PROVE good(Visit(wallet, a))
    OBVIOUS
  <2>1. /\ Same(Visit(wallet, a), wallet, {"at", "index", "source", "chain", "hopPages"})
        /\ Visit(wallet, a).at \in {"hop", "score", "activity"}
    BY VisitMoves
  <2> QED
    BY <2>1, FieldsAre DEF Same
<1>3. Same(wallet, wallet, changes)
  BY DEF Same
<1>4. CASE BalanceRead(ok)
  <2> DEFINE w == [wallet EXCEPT !.at = "accounts",
                     !.lamports = IF ok THEN Lamports[wallet.subject] ELSE 0]
  <2>1. good(w) /\ wallet.at = "balance"
    BY <1>4, FieldsAre DEF BalanceRead, Same, IsCall
  <2> QED
    BY <1>0, <1>4, <2>1 DEF BalanceRead, ReadStates
<1>5. CASE AccountsRead(ok)
  <2> DEFINE w == [wallet EXCEPT !.at = "pages",
                     !.accounts = IF ok THEN TokenAccounts[wallet.subject] ELSE 0]
  <2>1. Same(w, wallet, changes) /\ w.at = "pages"
    BY FieldsAre DEF Same, IsCall
  <2>2. wallet.at = "accounts" /\ Proceed(IF MaxPages = 0 THEN StartTrace(w) ELSE w)
    BY <1>5 DEF AccountsRead
  <2> HIDE DEF w
  <2>3. CASE MaxPages = 0
    <3>1. Same(StartTrace(w), w, {"at", "index", "source"})
          /\ StartTrace(w).at \in {"genesis", "score", "activity"}
      BY <2>1, StartTraceMoves DEF Same
    <3>2. good(StartTrace(w))
      BY <2>1, <3>1, FieldsAre DEF Same
    <3> QED
      BY <1>0, <2>2, <2>3, <3>2 DEF ReadStates
  <2>4. CASE MaxPages # 0
    BY <1>0, <2>1, <2>2, <2>4 DEF ReadStates
  <2> QED
    BY <2>3, <2>4
<1>6. CASE GenesisRead(ok)
  BY <1>0, <1>1, <1>2, <1>3, <1>6 DEF GenesisRead, ReadStates
<1>7. CASE HopPageRead(ok)
  <2> DEFINE current == wallet.chain[Len(wallet.chain)].address
             page == wallet.hopPages + 1
  <2>1. good([wallet EXCEPT !.at = "hop_genesis"])
    BY FieldsAre DEF Same, IsCall
  <2>2. wallet.at = "hop" => good([wallet EXCEPT !.hopPages = page])
    BY FieldsAre DEF Same, IsCall
  <2>3. good(EndTrace(wallet, "traced_clean"))
    BY <1>1, <1>3
  <2>4. wallet.at = "hop" /\ \E w : Proceed(w) /\ w \in {[wallet EXCEPT !.at = "hop_genesis"],
          [wallet EXCEPT !.hopPages = page], EndTrace(wallet, "traced_clean")}
    <3> HIDE DEF good, changes
    <3> QED
      BY <1>7 DEF HopPageRead
  <2> HIDE DEF good
  <2>5. PICK w : Proceed(w) /\ good(w)
    BY <2>1, <2>2, <2>3, <2>4
  <2>6. good(wallet')
    BY <1>0, <2>5
  <2> QED
    BY <2>4, <2>6 DEF good, ReadStates
<1>8. CASE HopGenesisRead(ok)
  BY <1>0, <1>1, <1>2, <1>3, <1>8 DEF HopGenesisRead, ReadStates
<1>9. CASE ActivityRead(ok)
  <2> DEFINE i == wallet.tried + 1
             w == [wallet EXCEPT !.tried = i, !.parsed = IF ok THEN @ + 1 ELSE @,
                     !.parties = IF ok THEN @ \cup Counterparties(Recent[wallet.subject][i], wallet.subject)
                                 ELSE @]
  <2>1. wallet.at = "activity" /\ Proceed(IF i = ToParse(wallet) THEN [w EXCEPT !.at = "score"] ELSE w)
    BY <1>9 DEF ActivityRead
  <2>2. good(w) /\ good([w EXCEPT !.at = "score"])
    BY <2>1, FieldsAre DEF Same, IsCall
  <2> HIDE DEF good, w
  <2>3. good(wallet')
    BY <1>0, <2>1, <2>2
  <2> QED
    BY <2>1, <2>3 DEF good, ReadStates
<1> QED
  BY <1>4, <1>5, <1>6, <1>7, <1>8, <1>9

\* The steps of a call that are no reads.
LEMMA WalletTurns ==
  ASSUME IsCall(wallet)
  PROVE  /\ RefreshForWallet => /\ wallet.at = "refresh" /\ wallet'.at = "balance"
                                /\ Same(wallet', wallet, {"at", "reads"})
         /\ LookUpDeny => /\ wallet.at = "score" /\ wallet'.at = "weigh"
                          /\ Same(wallet', wallet, {"at", "denied", "reads"})
                          /\ wallet'.denied = Lookup(labels.deny, wallet.subject)
         /\ WeighWallet => /\ wallet.at = "weigh" /\ wallet'.at = "scored"
                           /\ Same(wallet', wallet, {"at", "verdict", "reads"})
                           /\ wallet'.verdict = ScoreWallet(SignalsOf(wallet), wallet.denied,
                                                  Lookup(labels.allow, wallet.subject))
<1>1. ASSUME RefreshForWallet
      PROVE  /\ wallet.at = "refresh" /\ wallet'.at = "balance"
             /\ Same(wallet', wallet, {"at", "reads"})
  <2> DEFINE w == [wallet EXCEPT !.at = "balance"]
  <2>1. Same(w, wallet, {"at"}) /\ w.at = "balance"
    BY FieldsAre DEF Same, IsCall
  <2>2. Same(wallet', w, {"reads"})
    BY <1>1, <2>1, Proceeds DEF RefreshForWallet, Same
  <2> QED
    BY <1>1, <2>1, <2>2, FieldsAre DEF RefreshForWallet, Same
<1>2. ASSUME LookUpDeny
      PROVE  /\ wallet.at = "score" /\ wallet'.at = "weigh"
             /\ Same(wallet', wallet, {"at", "denied", "reads"})
             /\ wallet'.denied = Lookup(labels.deny, wallet.subject)
  <2> DEFINE w == [wallet EXCEPT !.at = "weigh", !.denied = Lookup(labels.deny, wallet.subject)]
  <2>1. Same(w, wallet, {"at", "denied"}) /\ w.at = "weigh"
        /\ w.denied = Lookup(labels.deny, wallet.subject)
    BY FieldsAre DEF Same, IsCall
  <2>2. Same(wallet', w, {"reads"})
    BY <1>2, <2>1, Proceeds DEF LookUpDeny, Same
  <2> HIDE DEF w
  <2> QED
    BY <1>2, <2>1, <2>2, FieldsAre DEF LookUpDeny, Same
<1>3. ASSUME WeighWallet
      PROVE  /\ wallet.at = "weigh" /\ wallet'.at = "scored"
             /\ Same(wallet', wallet, {"at", "verdict", "reads"})
             /\ wallet'.verdict = ScoreWallet(SignalsOf(wallet), wallet.denied,
                                    Lookup(labels.allow, wallet.subject))
  <2> DEFINE verdict == ScoreWallet(SignalsOf(wallet), wallet.denied, Lookup(labels.allow, wallet.subject))
             w == [wallet EXCEPT !.at = "scored", !.verdict = verdict]
  <2>0. wallet.at = "weigh" /\ Proceed(w)
    BY <1>3 DEF WeighWallet
  <2> HIDE DEF verdict
  <2>1. Same(w, wallet, {"at", "verdict"}) /\ w.at = "scored" /\ w.verdict = verdict
    BY FieldsAre DEF Same, IsCall
  <2> HIDE DEF w
  <2>2. Same(wallet', w, {"reads"})
    BY <2>0, <2>1, Proceeds DEF Same
  <2>3. wallet.at = "weigh" /\ wallet'.at = "scored" /\ wallet'.verdict = verdict
        /\ Same(wallet', wallet, {"at", "verdict", "reads"})
    BY <2>0, <2>1, <2>2, FieldsAre DEF Same
  <2> QED
    BY <2>3 DEF verdict
<1> QED
  BY <1>1, <1>2, <1>3

\* Every step of the system is one of the call, or ends it, or leaves it alone.
LEMMA WalletCases ==
  ASSUME [Next]_vars
  PROVE  \/ wallet' = wallet \/ wallet' = NoWallet \/ AskWallet \/ WalletRead
         \/ RefreshForWallet \/ LookUpDeny \/ WeighWallet
<1>1. CASE Ask
  BY <1>1 DEF Ask
<1>2. CASE Step
  BY <1>2 DEF Step, WalletStep, AnswerWallet
<1>3. CASE Environment
  BY <1>3 DEF Environment
<1>4. CASE Restart \/ UNCHANGED vars
  BY <1>4 DEF Restart, vars
<1> QED
  BY <1>1, <1>2, <1>3, <1>4 DEF Next

LEMMA Asked ==
  AskWallet => \E s \in Wallets :
    wallet'.at = "refresh" /\ wallet'.subject = s /\ wallet'.pages = 0 /\ wallet'.reads = 0
    /\ Same(wallet', NoWallet, {"at", "subject"})
  BY FieldsAre DEF AskWallet, NoWallet, Same, IsCall

LEMMA NextPages == PageInv /\ [Next]_vars => PageInv'
<1> SUFFICES ASSUME PageInv, [Next]_vars PROVE PageInv'
  OBVIOUS
<1>0. NoWallet.at = "idle" /\ NoWallet.pages = 0 /\ IsCall(wallet)
  BY DEF NoWallet, PageInv
<1>1. CASE wallet' = wallet
  BY <1>1 DEF PageInv
<1>2. CASE wallet' = NoWallet
  BY <1>0, <1>2, NoWalletIsCall, WalletAssumption DEF PageInv
<1>3. CASE AskWallet
  BY <1>3, Asked, WalletAssumption DEF PageInv, Same
<1>4. CASE WalletRead
  <2> PICK ok \in BOOLEAN :
        \/ BalanceRead(ok) \/ AccountsRead(ok) \/ PageRead(ok) \/ GenesisRead(ok)
        \/ HopPageRead(ok) \/ HopGenesisRead(ok) \/ ActivityRead(ok)
    BY <1>4 DEF WalletRead
  <2>1. CASE PageRead(ok)
    BY <2>1, PageReadKeeps
  <2>2. CASE ~PageRead(ok)
    <3>1. /\ Same(wallet', wallet, Fields \ {"subject", "pages", "genesis", "denied", "verdict"})
          /\ wallet'.at \notin {"idle", "refresh", "balance", "weigh", "scored"}
          /\ wallet'.at = "accounts" => wallet.at = "balance"
          /\ wallet'.at = "pages" => wallet.at = "accounts" /\ MaxPages # 0
          /\ wallet.at \in ReadStates
      BY <1>0, <2>2, OtherReads
    <3>2. wallet'.subject = wallet.subject /\ wallet'.pages = wallet.pages /\ IsCall(wallet')
      BY <3>1, FieldsAre DEF Same
    <3>3. wallet.at # "idle"
      BY <3>1 DEF ReadStates
    <3> QED
      BY <3>1, <3>2, <3>3, PagesKept DEF PageInv
  <2> QED
    BY <2>1, <2>2
<1>5. CASE RefreshForWallet \/ LookUpDeny \/ WeighWallet
  <2>1. /\ wallet'.subject = wallet.subject /\ wallet'.pages = wallet.pages /\ IsCall(wallet')
        /\ wallet.at \in {"refresh", "score", "weigh"}
        /\ (wallet'.at = "balance" /\ wallet.at = "refresh") \/ wallet'.at \in {"weigh", "scored"}
    BY <1>0, <1>5, WalletTurns, FieldsAre DEF Same
  <2> QED
    BY <2>1, PagesKept DEF PageInv
<1> QED
  BY <1>1, <1>2, <1>3, <1>4, <1>5, WalletCases

-----------------------------------------------------------------------------
(* Approval needs a full page. *)

AllowInv ==
  wallet.at = "scored" /\ wallet.verdict.recommendation = "ALLOW" => wallet.pages >= 2

LEMMA FullPage ==
  ASSUME PageInv, wallet.at # "idle", wallet.pages >= 2
  PROVE  Len(History[wallet.subject]) >= PageSize /\ Totals(wallet).total >= PageSize
<1> DEFINE n == Len(History[wallet.subject])
           m == Least(n, wallet.pages * PageSize)
<1>1. n \in Nat /\ n >= (wallet.pages - 1) * 100 /\ wallet.pages \in Nat /\ wallet.subject \in Wallets
  BY HistoryIsSequence, WalletAssumption DEF PageInv
<1>2. m \in Nat /\ n >= 100 /\ m >= 100
  BY <1>1 DEF Least, PageSize
<1>3. Cardinality(1 .. m) = m
  BY <1>2, FS_Interval
<1>4. Totals(wallet).total = Cardinality(Seen(wallet.subject, wallet.pages))
  BY <1>1 DEF Totals, Aggregate, PageInv
<1>5. Totals(wallet).total = m
  BY <1>3, <1>4 DEF Seen
<1> QED
  BY <1>2, <1>5 DEF PageSize

LEMMA NextAllow == PageInv /\ AllowInv /\ [Next]_vars => AllowInv'
<1> SUFFICES ASSUME PageInv, AllowInv, [Next]_vars, wallet'.at = "scored",
                    wallet'.verdict.recommendation = "ALLOW"
             PROVE  wallet'.pages >= 2
  BY DEF AllowInv
<1>0. NoWallet.at = "idle" /\ IsCall(wallet)
  BY DEF NoWallet, PageInv
<1>1. CASE wallet' = wallet
  BY <1>1 DEF AllowInv
<1>2. CASE wallet' = NoWallet \/ AskWallet
  BY <1>0, <1>2, Asked
<1>3. CASE WalletRead
  <2> PICK ok \in BOOLEAN :
        \/ BalanceRead(ok) \/ AccountsRead(ok) \/ PageRead(ok) \/ GenesisRead(ok)
        \/ HopPageRead(ok) \/ HopGenesisRead(ok) \/ ActivityRead(ok)
    BY <1>3 DEF WalletRead
  <2> QED
    BY <1>0, PageReadKeeps, OtherReads
<1>4. CASE WeighWallet
  <2> DEFINE s == SignalsOf(wallet)
             allowed == Lookup(labels.allow, wallet.subject)
  <2>1. wallet'.pages = wallet.pages /\ wallet.pages \in Nat
        /\ wallet'.verdict = ScoreWallet(s, wallet.denied, allowed)
    BY <1>0, <1>4, WalletTurns, FieldsAre, WalletAssumption DEF Same, PageInv
  <2>2. RecommendationFrom(Band(WalletScore(s, wallet.denied, allowed)), wallet.denied # {},
                           WalletQuality(s)) = "ALLOW"
    BY <2>1 DEF ScoreWallet
  <2>3. WalletQuality(s) # "low"
    BY <2>2 DEF RecommendationFrom
  <2>4. s.pages = wallet.pages
    BY DEF SignalsOf
  <2> QED
    BY <2>1, <2>3, <2>4 DEF WalletQuality
<1>5. CASE RefreshForWallet \/ LookUpDeny
  BY <1>0, <1>5, WalletTurns
<1> QED
  BY <1>1, <1>2, <1>3, <1>4, <1>5, WalletCases

\* A wallet is only allowed on a full page of its history that was read, whatever labels
\* there are (AllowNeedsHistory).
THEOREM AllowedHaveHistory == Spec => []AllowNeedsHistory
<1>1. Init => AllowInv
  BY DEF Init, AllowInv, NoWallet
<1>2. PageInv /\ AllowInv => AllowNeedsHistory
  BY FullPage DEF AllowInv, AllowNeedsHistory
<1> QED
  BY InitPages, NextPages, NextAllow, <1>1, <1>2, PTL DEF Spec

-----------------------------------------------------------------------------
(* The steps of a tx-risk call. *)

TxFields == DOMAIN NoTx
IsTx(x) == x = [f \in TxFields |-> x[f]]
TxSame(x, y, changed) == IsTx(x) /\ \A f \in TxFields \ changed : x[f] = y[f]
ScoreOf(x) == ScoreTx(TxSignals(x))

LEMMA TxFieldsAre ==
  TxFields = {"at", "tx", "hits", "accounts", "balance", "moved", "slots", "unparsed",
              "fails", "sol", "tokens", "verdict"}
  BY DEF TxFields, NoTx

LEMMA NoTxIs ==
  /\ IsTx(NoTx) /\ NoTx.at = "idle" /\ NoTx.fails = FALSE /\ NoTx.sol = {} /\ NoTx.tokens = {}
  BY DEF IsTx, TxFields, NoTx

\* A verdict is that of the signals of the call.
LEMMA Screens ==
  ASSUME NEW x, IsTx(x), Screen(x)
  PROVE  TxSame(tx', x, {"at", "verdict"}) /\ tx'.at = "screened" /\ tx'.verdict = ScoreOf(tx')
<1> DEFINE v == ScoreOf(x)
<1>0. tx' = [x EXCEPT !.at = "screened", !.verdict = v]
  BY DEF Screen, ScoreOf
<1> HIDE DEF v
<1>1. TxSame(tx', x, {"at", "verdict"}) /\ tx'.at = "screened" /\ tx'.verdict = v
  BY <1>0, TxFieldsAre DEF TxSame, IsTx
<1>2. tx'.tx = x.tx /\ tx'.hits = x.hits /\ tx'.fails = x.fails /\ tx'.sol = x.sol
      /\ tx'.tokens = x.tokens
  BY <1>1, TxFieldsAre DEF TxSame
<1>3. TxSignals(tx') = TxSignals(x)
  BY <1>2 DEF TxSignals
<1> QED
  BY <1>1, <1>3 DEF v, ScoreOf

LEMMA ToldIsNat == \A t \in Txs : \A k : Told(t, k) \in Nat
<1> SUFFICES ASSUME NEW t \in Txs, NEW k PROVE Told(t, k) \in Nat
  OBVIOUS
<1>1. Len(Instructions[t]) \in Nat /\ DOMAIN Instructions[t] = 1 .. Len(Instructions[t])
  BY TxAssumption
<1>2. IsFiniteSet(DOMAIN Instructions[t])
  BY <1>1, FS_Interval
<1> QED
  BY <1>2, FS_Subset, FS_CardinalityType DEF Told

\* A label held on a program of the transaction is a hit.
LEMMA HitsCount ==
  ASSUME LabelInv, NEW t \in Txs
  PROVE  /\ DenyHits(t) \in Nat
         /\ (\E p \in Programs(t) : Listed(labels.deny, p)) => DenyHits(t) > 0
<1> DEFINE D == DOMAIN Instructions[t]
           hits == {hit \in D \X labels.deny : Instructions[t][hit[1]].program = hit[2].address}
<1>1. D = 1 .. Len(Instructions[t]) /\ Len(Instructions[t]) \in Nat
  BY TxAssumption
<1>2. IsFiniteSet(D \X labels.deny)
  <2>1. IsFiniteSet(D) /\ IsFiniteSet(labels.deny)
    BY <1>1, FS_Interval, DenyIsFinite
  <2> HIDE DEF D
  <2> QED
    BY <2>1, FS_Product
<1>3. IsFiniteSet(hits) /\ Cardinality(hits) \in Nat
  BY <1>2, FS_Subset, FS_CardinalityType
<1>4. ASSUME NEW p \in Programs(t), Listed(labels.deny, p)
      PROVE  hits # {}
  <2>1. PICK i \in D : Instructions[t][i].program = p
    BY <1>4 DEF Programs
  <2>2. PICK l \in labels.deny : l.address = p
    BY <1>4 DEF Listed, Lookup
  <2>3. <<i, l>> \in hits
    BY <2>1, <2>2
  <2> QED
    BY <2>3
<1>5. hits # {} => Cardinality(hits) > 0
  BY <1>3, FS_EmptySet
<1> QED
  BY <1>3, <1>4, <1>5 DEF DenyHits

\* Every step of the system is one of the call, or ends it, or leaves it alone.
LEMMA TxCases ==
  ASSUME [Next]_vars
  PROVE  \/ tx' = tx \/ tx' = NoTx \/ AskTx \/ TokenAccountsRead \/ PreBalanceRead
         \/ BalanceMoves \/ SimulateAnswers \/ SimulateFails
<1>1. CASE Ask
  BY <1>1 DEF Ask
<1>2. CASE Step
  BY <1>2 DEF Step, TxStep, AnswerTx
<1>3. CASE Environment
  BY <1>3 DEF Environment
<1>4. CASE Restart \/ UNCHANGED vars
  BY <1>4 DEF Restart, vars
<1> QED
  BY <1>1, <1>2, <1>3, <1>4 DEF Next

TxInv ==
  /\ IsTx(tx)
  /\ tx.at # "idle" =>
       /\ tx.tx \in Txs /\ tx.hits \in Nat /\ tx.fails \in BOOLEAN
       /\ (\E p \in Programs(tx.tx) : Listed(standing, p)) => tx.hits > 0
       /\ tx.sol \subseteq SolChanges(tx) /\ tx.tokens \subseteq TokenChanges(tx)
  /\ tx.at \notin {"idle", "screened"} => tx.sol = {} /\ tx.tokens = {}
  /\ tx.at = "screened" => tx.verdict = ScoreOf(tx)

LEMMA InitTx == Init => TxInv
  BY NoTxIs DEF Init, TxInv

LEMMA TxAsked ==
  ASSUME LabelInv, AskTx
  PROVE  TxInv'
<1>1. PICK t \in Txs :
        \E x : x = [NoTx EXCEPT !.at = "accounts", !.tx = t, !.hits = DenyHits(t)]
              /\ (tx' = x \/ Screen(x))
  BY DEF AskTx
<1> DEFINE x == [NoTx EXCEPT !.at = "accounts", !.tx = t, !.hits = DenyHits(t)]
<1>2. /\ TxSame(x, NoTx, {"at", "tx", "hits"})
      /\ x.at = "accounts" /\ x.tx = t /\ x.hits = DenyHits(t)
  BY NoTxIs, TxFieldsAre DEF TxSame, IsTx
<1>3. tx' = x \/ Screen(x)
  BY <1>1
<1> HIDE DEF x
<1>4. /\ IsTx(tx') /\ tx'.tx = t /\ tx'.hits = DenyHits(t)
      /\ tx'.fails = FALSE /\ tx'.sol = {} /\ tx'.tokens = {}
      /\ tx'.at = "accounts" \/ (tx'.at = "screened" /\ tx'.verdict = ScoreOf(tx'))
  <2>1. CASE tx' = x
    BY <1>2, <2>1, NoTxIs, TxFieldsAre DEF TxSame
  <2>2. CASE Screen(x)
    BY <1>2, <2>2, Screens, NoTxIs, TxFieldsAre DEF TxSame
  <2> QED
    BY <1>3, <2>1, <2>2
<1>5. standing' = labels.deny
  BY DEF AskTx, StartStanding
<1>6. DenyHits(t) \in Nat /\ ((\E p \in Programs(t) : Listed(labels.deny, p)) => DenyHits(t) > 0)
  BY HitsCount
<1> QED
  BY <1>4, <1>5, <1>6 DEF TxInv

\* What a call has counted stays at least what is still standing.
LEMMA StandingKept ==
  ASSUME standing' \subseteq standing, NEW t, \E p \in Programs(t) : Listed(standing', p)
  PROVE  \E p \in Programs(t) : Listed(standing, p)
  BY DEF Listed, Lookup

LEMMA ChangesAreOf ==
  ASSUME NEW x, NEW y, \A f \in {"tx", "accounts", "balance", "moved", "slots", "unparsed"} : x[f] = y[f]
  PROVE  SolChanges(x) = SolChanges(y) /\ TokenChanges(x) = TokenChanges(y)
<1>1. x.tx = y.tx /\ x.accounts = y.accounts /\ x.balance = y.balance /\ x.moved = y.moved
      /\ x.slots = y.slots /\ x.unparsed = y.unparsed
  OBVIOUS
<1> QED
  BY <1>1 DEF SolChanges, TokenChanges, Left

\* Another call begins only when none is under way.
LEMMA TxAlone ==
  ASSUME LabelInv, [Next]_vars, tx.at # "idle", ~AskTx
  PROVE  standing' \subseteq standing \/ tx' = NoTx
<1>1. CASE Ask
  BY <1>1 DEF Ask, Idle
<1>2. CASE Restart
  BY <1>2 DEF Restart
<1>3. CASE ~Ask /\ ~Restart
  BY <1>3, LabelStep
<1> QED
  BY <1>1, <1>2, <1>3

\* A simulation that answers adds what it measured, one that fails adds nothing.
LEMMA Simulated ==
  ASSUME TxInv, SimulateAnswers \/ SimulateFails
  PROVE  \E x : /\ TxSame(x, tx, {"slots", "unparsed", "fails", "sol", "tokens"})
                /\ Screen(x) /\ x.fails \in BOOLEAN
                /\ x.sol \subseteq SolChanges(x) /\ x.tokens \subseteq TokenChanges(x)
<1>1. CASE SimulateFails
  <2>1. Screen(tx) /\ tx.at = "simulate"
    BY <1>1 DEF SimulateFails
  <2>2. TxSame(tx, tx, {"slots", "unparsed", "fails", "sol", "tokens"})
    BY DEF TxInv, TxSame
  <2> QED
    BY <2>1, <2>2 DEF TxInv
<1>2. CASE SimulateAnswers
  <2>1. PICK slots, unparsed :
          LET x == [tx EXCEPT !.slots = slots, !.unparsed = unparsed]
          IN Screen([x EXCEPT !.fails = Effect[tx.tx].fails,
                              !.sol = SolChanges(x), !.tokens = TokenChanges(x)])
    BY <1>2 DEF SimulateAnswers
  <2> DEFINE x == [tx EXCEPT !.slots = slots, !.unparsed = unparsed]
             y == [x EXCEPT !.fails = Effect[tx.tx].fails,
                            !.sol = SolChanges(x), !.tokens = TokenChanges(x)]
  <2>2. TxSame(x, tx, {"slots", "unparsed"})
    BY TxFieldsAre DEF TxInv, IsTx, TxSame
  <2>3. Screen(y)
    BY <2>1
  <2> HIDE DEF x
  <2>4. /\ TxSame(y, x, {"fails", "sol", "tokens"})
        /\ y.fails = Effect[tx.tx].fails /\ y.sol = SolChanges(x) /\ y.tokens = TokenChanges(x)
    <3> DEFINE sol == SolChanges(x)
               tokens == TokenChanges(x)
    <3> HIDE DEF sol, tokens
    <3>1. y = [x EXCEPT !.fails = Effect[tx.tx].fails, !.sol = sol, !.tokens = tokens]
      BY DEF sol, tokens
    <3> HIDE DEF y
    <3>2. /\ TxSame(y, x, {"fails", "sol", "tokens"})
          /\ y.fails = Effect[tx.tx].fails /\ y.sol = sol /\ y.tokens = tokens
      BY <2>2, <3>1, TxFieldsAre DEF IsTx, TxSame
    <3> QED
      BY <3>2 DEF sol, tokens
  <2> HIDE DEF y
  <2>5. SolChanges(y) = SolChanges(x) /\ TokenChanges(y) = TokenChanges(x)
    BY <2>4, ChangesAreOf, TxFieldsAre DEF TxSame
  <2>6. TxSame(y, tx, {"slots", "unparsed", "fails", "sol", "tokens"})
    BY <2>2, <2>4, TxFieldsAre DEF TxSame
  <2>7. tx.tx \in Txs
    BY <1>2 DEF TxInv, SimulateAnswers
  <2>8. y.fails \in BOOLEAN
    BY <2>4, <2>7, TxAssumption
  <2> QED
    BY <2>3, <2>4, <2>5, <2>6, <2>8
<1> QED
  BY <1>1, <1>2

LEMMA NextTx == LabelInv /\ TxInv /\ [Next]_vars => TxInv'
<1> SUFFICES ASSUME LabelInv, TxInv, [Next]_vars PROVE TxInv'
  OBVIOUS
<1>1. CASE AskTx
  BY <1>1, TxAsked
<1>2. CASE tx' = NoTx
  BY <1>2, NoTxIs DEF TxInv
<1>3. ASSUME ~AskTx, tx' # NoTx
      PROVE  tx.at # "idle" => standing' \subseteq standing
  BY <1>3, TxAlone
<1>4. CASE tx' = tx /\ ~AskTx /\ tx' # NoTx
  <2>1. tx.at # "idle" => ((\E p \in Programs(tx.tx) : Listed(standing', p)) => tx.hits > 0)
    BY <1>3, <1>4, StandingKept DEF TxInv
  <2> QED
    BY <1>4, <2>1 DEF TxInv
<1>5. CASE (TokenAccountsRead \/ PreBalanceRead \/ BalanceMoves) /\ ~AskTx /\ tx' # NoTx
  <2>1. /\ TxSame(tx', tx, {"at", "accounts", "balance", "moved"})
        /\ tx.at \notin {"idle", "screened"} /\ tx'.at \notin {"idle", "screened"}
    BY <1>5, TxFieldsAre DEF TokenAccountsRead, PreBalanceRead, BalanceMoves, TxSame, TxInv, IsTx
  <2>2. IsTx(tx') /\ tx'.tx = tx.tx /\ tx'.hits = tx.hits /\ tx'.fails = tx.fails
        /\ tx'.sol = tx.sol /\ tx'.tokens = tx.tokens
    BY <2>1, TxFieldsAre DEF TxSame
  <2>3. (\E p \in Programs(tx.tx) : Listed(standing', p)) => tx.hits > 0
    BY <1>3, <1>5, <2>1, StandingKept DEF TxInv
  <2> QED
    BY <2>1, <2>2, <2>3 DEF TxInv
<1>6. CASE (SimulateAnswers \/ SimulateFails) /\ ~AskTx /\ tx' # NoTx
  <2>1. PICK x : /\ TxSame(x, tx, {"slots", "unparsed", "fails", "sol", "tokens"})
                 /\ Screen(x) /\ x.fails \in BOOLEAN
                 /\ x.sol \subseteq SolChanges(x) /\ x.tokens \subseteq TokenChanges(x)
    BY <1>6, Simulated
  <2>2. TxSame(tx', x, {"at", "verdict"}) /\ tx'.at = "screened" /\ tx'.verdict = ScoreOf(tx')
    BY <2>1, Screens DEF TxSame
  <2>3. SolChanges(tx') = SolChanges(x) /\ TokenChanges(tx') = TokenChanges(x)
    BY <2>2, ChangesAreOf, TxFieldsAre DEF TxSame
  <2>4. IsTx(tx') /\ tx'.tx = tx.tx /\ tx'.hits = tx.hits /\ tx'.fails = x.fails
        /\ tx'.sol = x.sol /\ tx'.tokens = x.tokens
    BY <2>1, <2>2, TxFieldsAre DEF TxSame
  <2>5. tx.at # "idle"
    BY <1>6 DEF SimulateAnswers, SimulateFails
  <2>6. (\E p \in Programs(tx.tx) : Listed(standing', p)) => tx.hits > 0
    BY <1>3, <1>6, <2>5, StandingKept DEF TxInv
  <2> QED
    BY <2>1, <2>2, <2>3, <2>4, <2>5, <2>6 DEF TxInv
<1> QED
  BY <1>1, <1>2, <1>4, <1>5, <1>6, TxCases

\* No outflow a verdict names is made up from missing data (OutflowIsObserved).
THEOREM OutflowObserved == Spec => []OutflowIsObserved
<1>1. TxInv => OutflowIsObserved
  <2> SUFFICES ASSUME TxInv, tx.at = "screened" PROVE OutflowIsObserved
    BY DEF OutflowIsObserved
  <2>1. tx.tx \in Txs /\ Effect[tx.tx].sol \in Int
        /\ tx.sol \subseteq SolChanges(tx) /\ tx.tokens \subseteq TokenChanges(tx)
    BY TxAssumption DEF TxInv
  <2>2. ASSUME NEW n \in tx.sol, 0 \notin tx.moved PROVE n = Effect[tx.tx].sol
    BY <2>1, <2>2 DEF SolChanges
  <2>3. ASSUME NEW n \in tx.tokens
        PROVE  \E i \in Touched(tx.tx) : n = Delta(tx.tx, i) \/ i \in tx.moved \cup tx.unparsed
    <3>1. PICK i \in Touched(tx.tx) :
            n = (IF i \in tx.unparsed THEN 0 ELSE Left(tx, i, Effect[tx.tx].touched[i].post))
                  - Effect[tx.tx].touched[i].pre
      BY <2>1, <2>3 DEF TokenChanges
    <3> QED
      BY <3>1 DEF Left, Delta
  <2> QED
    BY <2>2, <2>3 DEF OutflowIsObserved
<1>2. LabelInv /\ [Next]_vars => LabelInv'
  BY LabelStep
<1> QED
  BY InitLabels, InitTx, NextTx, <1>1, <1>2, PTL DEF Spec

\* s has the signals of p and what a simulation measured besides.
Enriches(s, p) ==
  /\ s.instructions = p.instructions /\ s.denied = p.denied /\ s.handoffs = p.handoffs
  /\ s.delegations = p.delegations /\ s.closes = p.closes
  /\ s.lookups = p.lookups /\ s.unknown = p.unknown
  /\ p.fails = FALSE /\ p.sol = {} /\ p.tokens = {}

LEMMA SignalsOfBoth ==
  ASSUME NEW x
  PROVE  /\ Enriches(TxSignals(x), StaticSignals(x.tx, x.hits))
         /\ TxSignals(x).fails = x.fails
         /\ TxSignals(x).denied = x.hits /\ TxSignals(x).handoffs = Told(x.tx, "set authority")
<1> DEFINE p == StaticSignals(x.tx, x.hits)
           fields == {"instructions", "denied", "handoffs", "delegations", "closes", "lookups",
                      "unknown", "fails", "sol", "tokens"}
<1>1. /\ p.fails = FALSE /\ p.sol = {} /\ p.tokens = {}
      /\ p.denied = x.hits /\ p.handoffs = Told(x.tx, "set authority")
  BY DEF StaticSignals
<1>2. p = [f \in fields |-> p[f]]
  BY DEF StaticSignals
<1>3. TxSignals(x) = [p EXCEPT !.fails = x.fails, !.sol = x.sol, !.tokens = x.tokens]
  BY DEF TxSignals
<1> HIDE DEF p
<1> DEFINE s == TxSignals(x)
<1>4. /\ s.instructions = p.instructions /\ s.denied = p.denied
      /\ s.handoffs = p.handoffs /\ s.delegations = p.delegations /\ s.closes = p.closes
      /\ s.lookups = p.lookups /\ s.unknown = p.unknown /\ s.fails = x.fails
  BY <1>2, <1>3
<1> HIDE DEF s
<1>5. Enriches(s, p) /\ s.fails = x.fails /\ s.denied = x.hits
      /\ s.handoffs = Told(x.tx, "set authority")
  BY <1>1, <1>4 DEF Enriches
<1> QED
  BY <1>5 DEF s, p

\* More points never lower a score, within its limits.
LEMMA MorePoints ==
  ASSUME NEW a \in Nat, NEW b \in Nat PROVE Clamp(a) <= Clamp(a + b)
  BY DEF Clamp

LEMMA MoreSignals ==
  ASSUME NEW s, NEW p, Enriches(s, p), s.fails \in BOOLEAN, s.denied \in Nat, s.handoffs \in Nat
  PROVE  /\ TxVerdict(s) = "BLOCK" <=> TxVerdict(p) = "BLOCK"
         /\ TxVerdict(s) = "SIGN" => TxVerdict(p) = "SIGN"
         /\ TxScore(s) >= TxScore(p)
<1>1. ~p.fails /\ ~SolOutflow(p) /\ ~TokenOutflow(p)
  BY DEF Enriches, SolOutflow, TokenOutflow
<1>2. HasBlock(s) <=> HasBlock(p)
  BY DEF Enriches, HasBlock
<1>3. HasReview(p) => HasReview(s)
  BY <1>1 DEF Enriches, HasReview, StaticReview
<1>4. TxScore(s) >= TxScore(p)
  <2> DEFINE base == 60 * s.denied + 60 * s.handoffs
               + Points(s.delegations > 0, 30) + Points(s.closes > 0, 20)
               + Points(s.lookups, 15) + Points(s.unknown # {}, 15)
             a == Points(s.fails, 10)
             b == Points(SolOutflow(s), 25)
             c == Points(TokenOutflow(s), 25)
  <2>1. base \in Nat
    BY DEF Points
  <2>2. a \in Nat /\ b \in Nat /\ c \in Nat
    BY DEF Points
  <2>3. Points(p.fails, 10) = 0 /\ Points(SolOutflow(p), 25) = 0 /\ Points(TokenOutflow(p), 25) = 0
    BY <1>1 DEF Points
  <2>4. TxScore(s) = Clamp(base + a + b + c)
    BY DEF TxScore
  <2>5. TxScore(p) = Clamp(base + Points(p.fails, 10) + Points(SolOutflow(p), 25)
                             + Points(TokenOutflow(p), 25))
    BY DEF TxScore, Enriches
  <2> HIDE DEF base, a, b, c
  <2>6. TxScore(p) = Clamp(base) /\ TxScore(s) = Clamp(base + (a + b + c))
    BY <2>1, <2>2, <2>3, <2>4, <2>5
  <2>7. Clamp(base) \in Int /\ Clamp(base + (a + b + c)) \in Int
    BY <2>1, <2>2 DEF Clamp
  <2>8. a + b + c \in Nat
    BY <2>2
  <2> QED
    BY <2>1, <2>6, <2>7, <2>8, MorePoints
<1> QED
  BY <1>2, <1>3, <1>4 DEF TxVerdict

\* A simulation never excuses what the static screen found (SimulationOnlyAdds).
THEOREM SimulationAdds == Spec => []SimulationOnlyAdds
<1>1. TxInv => SimulationOnlyAdds
  <2> SUFFICES ASSUME TxInv, tx.at = "screened" PROVE SimulationOnlyAdds
    BY DEF SimulationOnlyAdds
  <2> DEFINE s == TxSignals(tx)
             p == StaticSignals(tx.tx, tx.hits)
  <2>1. tx.verdict = ScoreTx(s) /\ tx.tx \in Txs /\ tx.hits \in Nat /\ tx.fails \in BOOLEAN
    BY DEF TxInv, ScoreOf
  <2>2. Enriches(s, p) /\ s.fails = tx.fails
        /\ s.denied = tx.hits /\ s.handoffs = Told(tx.tx, "set authority")
    BY SignalsOfBoth
  <2>3. s.denied \in Nat /\ s.handoffs \in Nat /\ s.fails \in BOOLEAN
    BY <2>1, <2>2, ToldIsNat
  <2> HIDE DEF s, p
  <2>4. /\ TxVerdict(s) = "BLOCK" <=> TxVerdict(p) = "BLOCK"
        /\ TxVerdict(s) = "SIGN" => TxVerdict(p) = "SIGN"
        /\ TxScore(s) >= TxScore(p)
    BY <2>2, <2>3, MoreSignals
  <2>5. tx.verdict.recommendation = TxVerdict(s) /\ tx.verdict.score = TxScore(s)
        /\ ScoreTx(p).recommendation = TxVerdict(p) /\ ScoreTx(p).score = TxScore(p)
    BY <2>1 DEF ScoreTx
  <2>6. /\ tx.verdict.recommendation = "BLOCK" <=> ScoreTx(p).recommendation = "BLOCK"
        /\ tx.verdict.recommendation = "SIGN" => ScoreTx(p).recommendation = "SIGN"
        /\ tx.verdict.score >= ScoreTx(p).score
    BY <2>4, <2>5
  <2> QED
    BY <2>6 DEF SimulationOnlyAdds, p
<1>2. LabelInv /\ [Next]_vars => LabelInv'
  BY LabelStep
<1> QED
  BY InitLabels, InitTx, NextTx, <1>1, <1>2, PTL DEF Spec

-----------------------------------------------------------------------------
(* Blocking what is denied. *)

DenyInv ==
  /\ wallet.at \in {"weigh", "scored"} => Lookup(standing, wallet.subject) \subseteq wallet.denied
  /\ wallet.at = "scored" /\ wallet.denied # {} => wallet.verdict.recommendation = "BLOCK"

\* Nothing but a call that begins, or a new process, adds to what is standing.
LEMMA StandingShrinks ==
  ASSUME LabelInv, [Next]_vars
  PROVE  Idle \/ wallet' = NoWallet \/ standing' \subseteq standing
<1>1. Ask => Idle
  BY DEF Ask
<1>2. Restart => wallet' = NoWallet
  BY DEF Restart
<1> QED
  BY <1>1, <1>2, LabelStep

LEMMA NextDeny == LabelInv /\ PageInv /\ DenyInv /\ [Next]_vars => DenyInv'
<1> SUFFICES ASSUME LabelInv, PageInv, DenyInv, [Next]_vars, wallet'.at \in {"weigh", "scored"}
             PROVE  DenyInv'
  BY DEF DenyInv
<1>0. NoWallet.at = "idle" /\ IsCall(wallet)
  BY DEF NoWallet, PageInv
<1>1. CASE wallet' = wallet
  <2>1. standing' \subseteq standing
    BY <1>0, <1>1, StandingShrinks DEF Idle
  <2> QED
    BY <1>1, <2>1 DEF DenyInv, Lookup
<1>2. CASE wallet' = NoWallet \/ AskWallet
  BY <1>0, <1>2, Asked
<1>3. CASE WalletRead
  <2> PICK ok \in BOOLEAN :
        \/ BalanceRead(ok) \/ AccountsRead(ok) \/ PageRead(ok) \/ GenesisRead(ok)
        \/ HopPageRead(ok) \/ HopGenesisRead(ok) \/ ActivityRead(ok)
    BY <1>3 DEF WalletRead
  <2> QED
    BY <1>0, PageReadKeeps, OtherReads
<1>4. CASE LookUpDeny
  <2>1. /\ wallet'.at = "weigh" /\ wallet'.denied = Lookup(labels.deny, wallet.subject)
        /\ wallet'.subject = wallet.subject
    BY <1>0, <1>4, WalletTurns, FieldsAre DEF Same
  <2>2. standing' \subseteq labels.deny
    BY <1>4 DEF LookUpDeny, labelVars, LabelInv
  <2> QED
    BY <2>1, <2>2 DEF DenyInv, Lookup
<1>5. CASE WeighWallet
  <2> DEFINE s == SignalsOf(wallet)
             allowed == Lookup(labels.allow, wallet.subject)
  <2>1. /\ wallet.at = "weigh" /\ wallet'.subject = wallet.subject /\ wallet'.denied = wallet.denied
        /\ wallet'.verdict = ScoreWallet(s, wallet.denied, allowed)
    BY <1>0, <1>5, WalletTurns, FieldsAre DEF Same
  <2>2. wallet.denied # {} => wallet'.verdict.recommendation = "BLOCK"
    BY <2>1 DEF ScoreWallet, RecommendationFrom
  <2>3. standing' = standing
    BY <1>5 DEF WeighWallet, labelVars
  <2> QED
    BY <2>1, <2>2, <2>3 DEF DenyInv
<1>6. CASE RefreshForWallet
  BY <1>0, <1>6, WalletTurns
<1> QED
  BY <1>1, <1>2, <1>3, <1>4, <1>5, <1>6, WalletCases

\* What has been on the deny list ever since the call began is blocked, however the
\* labels are refreshed meanwhile (DeniedIsBlocked).
THEOREM DeniedBlocked == Spec => []DeniedIsBlocked
<1>1. Init => DenyInv
  BY DEF Init, DenyInv, NoWallet
<1>2. DenyInv /\ TxInv => DeniedIsBlocked
  <2> SUFFICES ASSUME DenyInv, TxInv PROVE DeniedIsBlocked
    OBVIOUS
  <2>1. wallet.at = "scored" /\ Listed(standing, wallet.subject)
          => wallet.verdict.recommendation = "BLOCK"
    BY DEF DenyInv, Listed
  <2>2. ASSUME tx.at = "screened", \E p \in Programs(tx.tx) : Listed(standing, p)
        PROVE  tx.verdict.recommendation = "BLOCK"
    <3>1. tx.hits > 0 /\ tx.verdict = ScoreOf(tx)
      BY <2>2 DEF TxInv
    <3>2. TxSignals(tx).denied = tx.hits
      BY SignalsOfBoth
    <3> QED
      BY <3>1, <3>2 DEF ScoreOf, ScoreTx, TxVerdict, HasBlock
  <2> QED
    BY <2>1, <2>2 DEF DeniedIsBlocked
<1>3. LabelInv /\ [Next]_vars => LabelInv'
  BY LabelStep
<1> QED
  BY InitLabels, InitPages, NextPages, InitTx, NextTx, NextDeny, <1>1, <1>2, <1>3, PTL DEF Spec

-----------------------------------------------------------------------------
(* Mints. *)

TokenInv ==
  /\ token = [f \in DOMAIN NoToken |-> token[f]]
  /\ token.at # "idle" => token.mint \in Mints
  /\ token.at = "scored" => token.verdict = ScoreToken(TokenSignalsOf(token))

LEMMA TokenReadKeeps == TokenInv /\ TokenRead => TokenInv'
<1> SUFFICES ASSUME TokenInv, TokenRead PROVE TokenInv'
  OBVIOUS
<1>1. /\ token.at \in TokenReads
      /\ \E got : LET t == [token EXCEPT !.got = got, !.at = NextRead[token.at]]
                  IN IF t.at = "scored" THEN token' = [t EXCEPT !.verdict = ScoreToken(TokenSignalsOf(t))]
                     ELSE token' = t
  BY DEF TokenRead
<1> PICK got : LET t == [token EXCEPT !.got = got, !.at = NextRead[token.at]]
               IN IF t.at = "scored" THEN token' = [t EXCEPT !.verdict = ScoreToken(TokenSignalsOf(t))]
                  ELSE token' = t
  BY <1>1
<1> DEFINE t == [token EXCEPT !.got = got, !.at = NextRead[token.at]]
           v == ScoreToken(TokenSignalsOf(t))
<1>2. token.mint \in Mints
  BY <1>1 DEF TokenInv, TokenReads, NextRead
<1>3. /\ t = [f \in DOMAIN NoToken |-> t[f]]
      /\ t.at = NextRead[token.at] /\ t.mint = token.mint /\ t.got = got
  BY DEF TokenInv, NoToken
<1>4. IF t.at = "scored" THEN token' = [t EXCEPT !.verdict = v] ELSE token' = t
  OBVIOUS
<1> HIDE DEF t
<1>5. CASE t.at # "scored"
  BY <1>2, <1>3, <1>4, <1>5 DEF TokenInv
<1>6. CASE t.at = "scored"
  <2> HIDE DEF v
  <2>1. /\ token' = [f \in DOMAIN NoToken |-> token'[f]]
        /\ token'.mint = token.mint /\ token'.got = got /\ token'.verdict = v
    BY <1>3, <1>4, <1>6 DEF NoToken
  <2>2. TokenSignalsOf(token') = TokenSignalsOf(t)
    BY <1>3, <2>1 DEF TokenSignalsOf
  <2> QED
    BY <1>2, <2>1, <2>2 DEF TokenInv, v
<1> QED
  BY <1>5, <1>6

LEMMA NextToken == TokenInv /\ [Next]_vars => TokenInv'
<1> SUFFICES ASSUME TokenInv, [Next]_vars PROVE TokenInv'
  OBVIOUS
<1>1. CASE AskToken
  BY <1>1 DEF AskToken, NoToken, TokenInv
<1>2. CASE TokenRead
  BY <1>2, TokenReadKeeps
<1>3. CASE token' = NoToken
  BY <1>3 DEF NoToken, TokenInv
<1>4. CASE token' = token
  BY <1>4 DEF TokenInv
<1>5. CASE Ask
  BY <1>5, <1>1, <1>4 DEF Ask
<1>6. CASE Step
  BY <1>6, <1>2, <1>3, <1>4 DEF Step, TokenStep, AnswerToken
<1>7. CASE Environment \/ Restart \/ UNCHANGED vars
  BY <1>7, <1>3, <1>4 DEF Environment, Restart, vars
<1> QED
  BY <1>5, <1>6, <1>7 DEF Next

\* A score of thirty or more is in no band that is allowed.
LEMMA ThirtyIsNotAllowed ==
  ASSUME NEW n \in Int, n >= 30, NEW q
  PROVE  RecommendationFrom(Band(Clamp(n)), FALSE, q) # "ALLOW"
<1>1. Clamp(n) \in 30 .. 100
  BY DEF Clamp
<1>2. Band(Clamp(n)) \in {"MEDIUM", "HIGH", "CRITICAL"}
  BY <1>1 DEF Band
<1> QED
  BY <1>2 DEF RecommendationFrom

\* A mint is only allowed on what was read of it (AllowedMintsAreSafe).
THEOREM AllowedMints == Spec => []AllowedMintsAreSafe
<1>1. Init => TokenInv
  BY DEF Init, TokenInv, NoToken
<1>2. TokenInv => AllowedMintsAreSafe
  <2> SUFFICES ASSUME TokenInv, token.at = "scored", token.verdict.recommendation = "ALLOW"
               PROVE  /\ Needed \subseteq token.got
                      /\ Mint[token.mint].revoked /\ ~Over(Mint[token.mint], 80)
                      /\ Mint[token.mint].freezable => token.verdict.score >= 20
    BY DEF AllowedMintsAreSafe
  <2> DEFINE s == TokenSignalsOf(token)
             m == Mint[token.mint]
             n == Points(~s.revoked, 35) + Points(s.freezable, 20) + Points(Over(s, 80), 30)
                  + Points(s.age < 7 /\ Over(s, 50), 15)
  <2>0. token.mint \in Mints /\ token.verdict = ScoreToken(s)
    BY DEF TokenInv
  <2> HIDE DEF s
  <2>1. token.mint \in Mints /\ RecommendationFrom(Band(TokenScore(s)), FALSE, TokenQuality(s)) = "ALLOW"
    <3> DEFINE r == RecommendationFrom(Band(TokenScore(s)), FALSE, TokenQuality(s))
    <3>1. ScoreToken(s).recommendation = r
      BY DEF ScoreToken
    <3> HIDE DEF r
    <3>2. r = "ALLOW"
      BY <2>0, <3>1
    <3> QED
      BY <2>0, <3>2 DEF r
  <2>2. ~s.lowConfidence
    BY <2>1 DEF RecommendationFrom, TokenQuality
  <2>3. Needed \subseteq token.got
    BY <2>2 DEF s, TokenSignalsOf
  <2>4. /\ s.supply = m.supply /\ s.top10 = m.top10 /\ s.revoked = m.revoked
      /\ s.freezable = m.freezable
    BY <2>1, <2>3, MintAssumption DEF s, TokenSignalsOf, Needed
  <2>5. n \in Int /\ (~s.revoked => n >= 30) /\ (Over(s, 80) => n >= 30) /\ (s.freezable => n >= 20)
    BY DEF Points
  <2>6. ~(n >= 30)
    BY <2>1, <2>5, ThirtyIsNotAllowed DEF TokenScore
  <2>7. token.verdict.score = Clamp(n)
    <3> DEFINE k == TokenScore(s)
    <3>1. ScoreToken(s).score = k
      BY DEF ScoreToken
    <3> HIDE DEF k
    <3>2. token.verdict.score = k
      BY <2>0, <3>1
    <3> QED
      BY <3>2 DEF k, TokenScore
  <2>8. s.freezable => Clamp(n) >= 20
    <3>1. \A i \in Int : i >= 20 => Clamp(i) >= 20
      BY DEF Clamp
    <3> HIDE DEF n
    <3> QED
      BY <2>5, <3>1
  <2>9. m.revoked /\ ~Over(m, 80) /\ (m.freezable => token.verdict.score >= 20)
    BY <2>4, <2>5, <2>6, <2>7, <2>8 DEF Over
  <2> QED
    BY <2>3, <2>9
<1> QED
  BY <1>1, <1>2, NextToken, PTL DEF Spec

-----------------------------------------------------------------------------
(* How many reads a call makes. *)

\* What a trace of n hops, and all that comes before it, may have read.
UpToHop(n) == 3 + MaxPages + n * (HopPages + 1)

LEMMA HopsAre == \A n \in Nat : UpToHop(n) \in Nat
<1> SUFFICES ASSUME NEW n \in Nat PROVE UpToHop(n) \in Nat
  OBVIOUS
<1>1. HopPages + 1 \in Nat /\ MaxPages \in Nat
  BY WalletAssumption
<1>2. n * (HopPages + 1) \in Nat
  BY <1>1
<1> QED
  BY <1>1, <1>2 DEF UpToHop

LEMMA HopsAdd ==
  ASSUME NEW n \in Nat \ {0}
  PROVE  UpToHop(n) = UpToHop(n - 1) + HopPages + 1
<1> DEFINE K == HopPages + 1
<1>1. K \in Nat /\ HopPages \in Nat /\ MaxPages \in Nat /\ n - 1 \in Nat
  BY WalletAssumption
<1>2. n * K = (n - 1) * K + K /\ n * K \in Nat /\ (n - 1) * K \in Nat
  BY <1>1
<1>3. UpToHop(n) = 3 + MaxPages + n * K /\ UpToHop(n - 1) = 3 + MaxPages + (n - 1) * K
  BY DEF UpToHop
<1>4. UpToHop(n) = UpToHop(n - 1) + K
  <2> DEFINE x == n * K
             y == (n - 1) * K
  <2>1. x = y + K /\ x \in Nat /\ y \in Nat /\ UpToHop(n) = 3 + MaxPages + x
        /\ UpToHop(n - 1) = 3 + MaxPages + y
    BY <1>2, <1>3
  <2> HIDE DEF x, y, K
  <2> QED
    BY <1>1, <2>1
<1> QED
  BY <1>1, <1>4, HopsAre

LEMMA HopsGrow ==
  ASSUME NEW m \in Nat, NEW n \in Nat, m <= n
  PROVE  UpToHop(m) <= UpToHop(n)
<1> DEFINE K == HopPages + 1
<1>1. K \in Nat /\ MaxPages \in Nat /\ n - m \in Nat
  BY WalletAssumption
<1>2. n * K = m * K + (n - m) * K /\ m * K \in Nat /\ (n - m) * K \in Nat
  BY <1>1
<1>3. m * K <= n * K /\ m * K \in Nat /\ n * K \in Nat
  BY <1>2
<1>4. UpToHop(n) = 3 + MaxPages + n * K /\ UpToHop(m) = 3 + MaxPages + m * K
  BY DEF UpToHop
<1> DEFINE x == n * K
           y == m * K
<1>5. y <= x /\ x \in Nat /\ y \in Nat /\ UpToHop(n) = 3 + MaxPages + x /\ UpToHop(m) = 3 + MaxPages + y
  BY <1>3, <1>4
<1> HIDE DEF x, y
<1> QED
  BY <1>1, <1>5

Top == UpToHop(MaxHops - 1)

LEMMA TopIs ==
  /\ Top \in Nat /\ ReadBound \in Nat /\ ReadBound = Top + MaxParse
  /\ UpToHop(0) = 3 + MaxPages /\ UpToHop(0) <= Top
  /\ MaxPages \in Nat /\ MaxParse \in Nat /\ HopPages \in Nat \ {0} /\ MaxHops \in Nat \ {0}
  /\ MaxHops - 1 \in Nat
<1>1. MaxPages \in Nat /\ MaxParse \in Nat /\ HopPages \in Nat \ {0} /\ MaxHops \in Nat \ {0}
      /\ MaxHops - 1 \in Nat
  BY WalletAssumption
<1>2. Top \in Nat
  BY <1>1, HopsAre DEF Top
<1>3. UpToHop(0) <= Top
  BY <1>1, HopsGrow DEF Top
<1>4. UpToHop(0) = 3 + MaxPages
  BY <1>1 DEF UpToHop
<1>5. ReadBound = Top + MaxParse
  <2> DEFINE x == (MaxHops - 1) * (HopPages + 1)
  <2>1. x \in Nat
    <3>1. HopPages + 1 \in Nat
      BY <1>1
    <3> QED
      BY <1>1, <3>1
  <2>2. ReadBound = 2 + MaxPages + 1 + x + MaxParse /\ Top = 3 + MaxPages + x
    BY DEF ReadBound, Top, UpToHop
  <2> HIDE DEF x
  <2> QED
    BY <1>1, <2>1, <2>2
<1> QED
  BY <1>1, <1>2, <1>3, <1>4, <1>5

\* The most reads that a call can have begun when it waits where it does.
AtMost(w, n) ==
  /\ w.at \in {"idle", "refresh"} => n <= 0
  /\ w.at = "balance" => n <= 1
  /\ w.at = "accounts" => n <= 2
  /\ w.at = "pages" => n <= 3 + w.pages
  /\ w.at = "genesis" => n <= UpToHop(0)
  /\ w.at = "hop" => n <= UpToHop(Len(w.chain) - 1) + w.hopPages + 1
  /\ w.at = "hop_genesis" => n <= UpToHop(Len(w.chain))
  /\ w.at = "activity" => n <= Top + w.tried + 1
  /\ w.at \in {"score", "weigh", "scored"} => n <= ReadBound

IsChain(c) == \E S : c \in Seq(S)

Shape(w) ==
  /\ w.reads \in Nat /\ w.tried \in Nat /\ w.hopPages \in Nat /\ w.pages \in Nat /\ IsChain(w.chain)
  /\ w.at \in {"idle", "refresh", "score", "weigh", "scored"} \cup ReadStates
  /\ w.at \in {"idle", "refresh", "balance", "accounts", "pages", "genesis"} => Len(w.chain) = 0
  /\ w.at \in {"hop", "hop_genesis"} => Len(w.chain) \in 1 .. MaxHops - 1
  /\ w.at = "hop" => w.hopPages < HopPages
  /\ w.at \notin {"activity", "score", "weigh", "scored"} => w.tried = 0
  /\ w.at = "activity" => w.tried < ToParse(w)

\* What holds of a call before it goes on to the read that comes next.
Due(w) == Shape(w) /\ AtMost(w, w.reads + (IF w.at \in ReadStates THEN 1 ELSE 0))
ReadInv == Shape(wallet) /\ AtMost(wallet, wallet.reads)

LEMMA ChainsGrow ==
  ASSUME NEW c, IsChain(c), NEW e
  PROVE  Len(c) \in Nat /\ IsChain(Append(c, e)) /\ Len(Append(c, e)) = Len(c) + 1
<1>1. PICK S : c \in Seq(S)
  BY DEF IsChain
<1> DEFINE T == S \cup {e}
<1>2. c \in Seq(T) /\ e \in T
  BY <1>1
<1> HIDE DEF T
<1>3. Append(c, e) \in Seq(T) /\ Len(Append(c, e)) = Len(c) + 1 /\ Len(c) \in Nat
  BY <1>2
<1> QED
  BY <1>3 DEF IsChain

LEMMA ParsesAreBounded ==
  ASSUME NEW w, w.subject \in Wallets, w.pages \in 0 .. MaxPages
  PROVE  ToParse(w) \in 0 .. MaxParse
<1> DEFINE a == w.subject
           n == Least(Len(History[a]), w.pages * PageSize)
<1>1. w.pages \in Nat /\ MaxPages \in Nat /\ MaxParse \in Nat /\ Len(History[a]) \in Nat
  BY HistoryIsSequence, WalletAssumption
<1>2. n \in Nat
  BY <1>1 DEF Least, PageSize
<1>3. IsFiniteSet(Seen(a, w.pages))
  BY <1>2, FS_Interval DEF Seen
<1>4. Cardinality(Within(a, w.pages, 30)) \in Nat
  BY <1>3, FS_Subset, FS_CardinalityType DEF Within
<1>5. Totals(w).tx30 = Cardinality(Within(a, w.pages, 30))
  BY DEF Totals, Aggregate
<1> QED
  BY <1>1, <1>4, <1>5 DEF ToParse, Least

\* A call that goes on begins one read at most.
LEMMA DueKeeps ==
  ASSUME NEW w, IsCall(w), Due(w), Proceed(w)
  PROVE  ReadInv'
<1> DEFINE m == w.reads + (IF w.at \in ReadStates THEN 1 ELSE 0)
           n == wallet'.reads
<1>1. Same(wallet', w, {"reads"})
      /\ wallet'.reads = IF w.at \in ReadStates THEN Least(w.reads, ReadBound) + 1 ELSE w.reads
  BY Proceeds
<1>2. w.reads \in Nat
  BY DEF Due, Shape
<1>3. n \in Nat /\ m \in Nat /\ n <= m
  BY <1>1, <1>2, TopIs DEF Least
<1>4. /\ wallet'.at = w.at /\ wallet'.tried = w.tried /\ wallet'.hopPages = w.hopPages
      /\ wallet'.chain = w.chain /\ wallet'.subject = w.subject /\ wallet'.pages = w.pages
  BY <1>1, FieldsAre DEF Same
<1>5. ToParse(wallet') = ToParse(w)
  BY <1>4 DEF ToParse, Totals
<1>6. Shape(wallet')
  BY <1>3, <1>4, <1>5 DEF Due, Shape
<1>7. AtMost(w, m) /\ Shape(w)
  BY DEF Due
<1> HIDE DEF m, n
<1>8. AtMost(w, n)
  <2>0. w.at \in {"hop", "hop_genesis"} => Len(w.chain) \in 1 .. MaxHops - 1
    BY <1>7 DEF Shape
  <2>1. w.at = "hop" => UpToHop(Len(w.chain) - 1) \in Nat
    <3>1. w.at = "hop" => Len(w.chain) - 1 \in Nat
      BY <2>0, WalletAssumption
    <3> QED
      BY <3>1, HopsAre
  <2>2. w.at = "hop_genesis" => UpToHop(Len(w.chain)) \in Nat
    <3>1. w.at = "hop_genesis" => Len(w.chain) \in Nat
      BY <2>0, WalletAssumption
    <3> QED
      BY <3>1, HopsAre
  <2> QED
    BY <1>3, <1>7, <2>1, <2>2, TopIs DEF AtMost, Shape
<1>9. AtMost(wallet', n)
  BY <1>4, <1>8 DEF AtMost
<1> QED
  BY <1>6, <1>9 DEF ReadInv, n

\* A call whose trace has not ended.
Tracing(w) ==
  /\ IsCall(w)
  /\ w.reads \in Nat /\ w.hopPages \in Nat /\ w.pages \in Nat /\ w.tried = 0
  /\ IsChain(w.chain)
  /\ ToParse(w) \in 0 .. MaxParse

\* A trace ends with room for the transactions to parse.
LEMMA EndTraceDue ==
  ASSUME NEW w, Tracing(w), w.reads <= Top, NEW s
  PROVE  Due(EndTrace(w, s)) /\ IsCall(EndTrace(w, s))
<1> DEFINE v == EndTrace(w, s)
<1>1. Same(v, w, {"at", "index", "source"}) /\ v.at \in {"score", "activity"}
      /\ (v.at = "activity" => ToParse(w) # 0)
  BY EndTraceMoves DEF Tracing
<1> HIDE DEF v
<1>2. v.reads = w.reads /\ v.tried = 0 /\ v.hopPages = w.hopPages /\ v.chain = w.chain
      /\ v.subject = w.subject /\ v.pages = w.pages
  BY <1>1, FieldsAre DEF Same, Tracing
<1>3. ToParse(v) = ToParse(w)
  BY <1>2 DEF ToParse, Totals
<1>4. Shape(v)
  BY <1>1, <1>2, <1>3, TopIs DEF Tracing, Shape, ReadStates
<1>5. AtMost(v, v.reads + (IF v.at \in ReadStates THEN 1 ELSE 0))
  BY <1>1, <1>2, TopIs DEF Tracing, AtMost, ReadStates
<1> QED
  BY <1>1, <1>4, <1>5 DEF v, Due, Same

LEMMA VisitDue ==
  ASSUME NEW w, Tracing(w), NEW a, Len(w.chain) <= MaxHops - 1, w.reads <= UpToHop(Len(w.chain))
  PROVE  Due(Visit(w, a)) /\ IsCall(Visit(w, a))
<1> DEFINE e == [address |-> a, labelled |-> Listed(labels.deny, a)]
           x == [w EXCEPT !.chain = Append(@, e), !.hopPages = 0]
<1>1. /\ Same(x, w, {"chain", "hopPages"}) /\ x.chain = Append(w.chain, e) /\ x.hopPages = 0
  BY FieldsAre DEF Tracing, IsCall, Same
<1>2. \/ Visit(w, a) \in {EndTrace(x, "labeled_bad"), EndTrace(x, "traced_clean")}
      \/ Visit(w, a) = [x EXCEPT !.at = "hop"] /\ ~(Len(x.chain) >= MaxHops)
  BY DEF Visit
<1> HIDE DEF x, e
<1>3. Len(w.chain) \in Nat /\ IsChain(x.chain) /\ Len(x.chain) = Len(w.chain) + 1
  BY <1>1, ChainsGrow DEF Tracing
<1>4. /\ x.reads = w.reads /\ x.tried = w.tried /\ x.pages = w.pages /\ x.subject = w.subject
  BY <1>1, FieldsAre DEF Same
<1>5. ToParse(x) = ToParse(w)
  BY <1>4 DEF ToParse, Totals
<1>6. Tracing(x)
  BY <1>1, <1>3, <1>4, <1>5 DEF Tracing, Same
<1>7. UpToHop(Len(w.chain)) \in Nat /\ UpToHop(Len(w.chain)) <= Top
  BY <1>3, TopIs, HopsAre, HopsGrow DEF Top
<1>8. CASE Visit(w, a) \in {EndTrace(x, "labeled_bad"), EndTrace(x, "traced_clean")}
  <2>1. x.reads <= Top
    BY <1>4, <1>7, TopIs DEF Tracing
  <2> QED
    BY <1>6, <1>8, <2>1, EndTraceDue
<1>9. CASE Visit(w, a) = [x EXCEPT !.at = "hop"] /\ ~(Len(x.chain) >= MaxHops)
  <2> DEFINE v == [x EXCEPT !.at = "hop"]
  <2>1. v.at = "hop" /\ v.reads = w.reads /\ v.tried = 0 /\ v.hopPages = 0 /\ v.chain = x.chain
        /\ v.pages = w.pages /\ IsCall(v)
    BY <1>1, <1>4, FieldsAre DEF Same, IsCall, Tracing
  <2> HIDE DEF v
  <2>2. Len(v.chain) \in 1 .. MaxHops - 1 /\ Len(v.chain) - 1 = Len(w.chain)
    <3>1. Len(v.chain) = Len(w.chain) + 1 /\ ~(Len(v.chain) >= MaxHops)
      BY <1>3, <1>9, <2>1
    <3>2. Len(w.chain) \in Nat /\ MaxHops \in Nat
      BY <1>3, TopIs
    <3> QED
      BY <3>1, <3>2
  <2>3. HopPages > 0
    BY WalletAssumption
  <2>4. Shape(v)
    BY <1>3, <2>1, <2>2, <2>3 DEF Shape, Tracing, ReadStates
  <2>5. AtMost(v, v.reads + (IF v.at \in ReadStates THEN 1 ELSE 0))
    BY <1>7, <2>1, <2>2 DEF Tracing, AtMost, ReadStates
  <2> QED
    BY <1>9, <2>1, <2>4, <2>5 DEF v, Due
<1> QED
  BY <1>2, <1>8, <1>9

\* A history is read page by page, and then the trace begins.
LEMMA StartTraceDue ==
  ASSUME NEW w, Tracing(w), Len(w.chain) = 0, w.reads < UpToHop(0)
  PROVE  Due(StartTrace(w)) /\ IsCall(StartTrace(w))
<1>0. w.reads <= Top
  BY TopIs DEF Tracing
<1>1. CASE \E s : StartTrace(w) = EndTrace(w, s)
  BY <1>0, <1>1, EndTraceDue
<1>2. CASE StartTrace(w) = [w EXCEPT !.at = "genesis"]
  <2> DEFINE v == [w EXCEPT !.at = "genesis"]
  <2>1. v.at = "genesis" /\ v.reads = w.reads /\ v.tried = 0 /\ v.hopPages = w.hopPages
        /\ v.chain = w.chain /\ v.pages = w.pages /\ IsCall(v)
    BY FieldsAre DEF IsCall, Tracing
  <2> HIDE DEF v
  <2>2. Shape(v)
    BY <2>1 DEF Shape, Tracing, ReadStates
  <2>3. AtMost(v, v.reads + (IF v.at \in ReadStates THEN 1 ELSE 0))
    BY <2>1, TopIs DEF Tracing, AtMost, ReadStates
  <2> QED
    BY <1>2, <2>1, <2>2, <2>3 DEF v, Due
<1> QED
  BY <1>1, <1>2 DEF StartTrace

LEMMA PageReadDue ==
  ASSUME PageInv, ReadInv, NEW ok \in BOOLEAN, PageRead(ok)
  PROVE  ReadInv'
<1> DEFINE page == wallet.pages + 1
           w == IF ok THEN [wallet EXCEPT !.pages = page, !.genesis = IsLast(wallet.subject, page)]
                ELSE wallet
           ends == ~ok \/ w.genesis \/ page = MaxPages
<1>1. wallet.at = "pages" /\ Proceed(IF ends THEN StartTrace(w) ELSE w)
  BY DEF PageRead
<1>2. /\ Same(w, wallet, {"pages", "genesis"})
      /\ w.pages = IF ok THEN page ELSE wallet.pages
  BY FieldsAre DEF PageInv, Same, IsCall
<1>3. /\ wallet.reads \in Nat /\ wallet.tried = 0 /\ wallet.hopPages \in Nat /\ IsChain(wallet.chain)
      /\ Len(wallet.chain) = 0 /\ wallet.reads <= 3 + wallet.pages
      /\ wallet.pages \in Nat /\ wallet.pages < MaxPages /\ wallet.subject \in Wallets
  BY <1>1, TopIs DEF ReadInv, Shape, PageInv, AtMost
<1> HIDE DEF w
<1>4. /\ w.at = "pages" /\ w.reads = wallet.reads /\ w.tried = 0 /\ w.hopPages = wallet.hopPages
      /\ w.chain = wallet.chain /\ w.subject = wallet.subject
  BY <1>1, <1>2, <1>3, FieldsAre DEF Same
<1>5. w.pages \in 0 .. MaxPages
  BY <1>2, <1>3, TopIs
<1>6. Tracing(w)
  BY <1>2, <1>3, <1>4, <1>5, ParsesAreBounded DEF Tracing, Same
<1>7. CASE ends
  <2>1. w.reads < UpToHop(0)
    BY <1>3, <1>4, TopIs
  <2> QED
    BY <1>1, <1>3, <1>4, <1>6, <1>7, <2>1, StartTraceDue, DueKeeps
<1>8. CASE ~ends
  <2>1. w.pages = wallet.pages + 1
    BY <1>2, <1>8
  <2>2. Shape(w)
    BY <1>3, <1>4, <1>5 DEF Shape, ReadStates
  <2>3. AtMost(w, w.reads + (IF w.at \in ReadStates THEN 1 ELSE 0))
    BY <1>3, <1>4, <2>1 DEF AtMost, ReadStates
  <2> QED
    BY <1>1, <1>2, <1>8, <2>2, <2>3, DueKeeps DEF Same, Due
<1> QED
  BY <1>7, <1>8

\* What the other reads find.
LEMMA AtRead ==
  ASSUME PageInv, ReadInv, wallet.at \in ReadStates
  PROVE  /\ IsCall(wallet) /\ wallet.reads \in Nat /\ wallet.pages \in Nat
         /\ wallet.at # "activity" => Tracing(wallet)
         /\ ToParse(wallet) \in 0 .. MaxParse
<1>1. IsCall(wallet) /\ wallet.subject \in Wallets /\ wallet.pages \in 0 .. MaxPages
  BY DEF PageInv, ReadStates
<1>2. ToParse(wallet) \in 0 .. MaxParse
  BY <1>1, ParsesAreBounded
<1> QED
  BY <1>1, <1>2 DEF ReadInv, Shape, Tracing, ReadStates

LEMMA FirstReadsDue ==
  ASSUME PageInv, ReadInv, NEW ok \in BOOLEAN, BalanceRead(ok) \/ AccountsRead(ok)
  PROVE  ReadInv'
<1>0. wallet.at \in {"balance", "accounts"} /\ wallet.at \in ReadStates
  BY DEF BalanceRead, AccountsRead, ReadStates
<1>1. Tracing(wallet) /\ Len(wallet.chain) = 0 /\ wallet.pages = 0
  BY <1>0, AtRead DEF ReadInv, Shape, PageInv
<1>2. CASE BalanceRead(ok)
  <2> DEFINE w == [wallet EXCEPT !.at = "accounts",
                     !.lamports = IF ok THEN Lamports[wallet.subject] ELSE 0]
  <2>1. Same(w, wallet, {"at", "lamports"}) /\ w.at = "accounts" /\ wallet.at = "balance" /\ Proceed(w)
    BY <1>1, <1>2, FieldsAre DEF BalanceRead, Same, IsCall, Tracing
  <2> HIDE DEF w
  <2>2. w.reads = wallet.reads /\ w.tried = wallet.tried /\ w.hopPages = wallet.hopPages
        /\ w.chain = wallet.chain /\ w.pages = wallet.pages
    BY <2>1, FieldsAre DEF Same
  <2>3. Shape(w)
    BY <1>1, <2>1, <2>2 DEF Tracing, Shape, ReadStates
  <2>4. AtMost(w, w.reads + (IF w.at \in ReadStates THEN 1 ELSE 0))
    BY <1>1, <2>1, <2>2 DEF Tracing, ReadInv, AtMost, ReadStates
  <2> QED
    BY <2>1, <2>3, <2>4, DueKeeps DEF Same, Due
<1>3. CASE AccountsRead(ok)
  <2> DEFINE w == [wallet EXCEPT !.at = "pages",
                     !.accounts = IF ok THEN TokenAccounts[wallet.subject] ELSE 0]
  <2>1. Same(w, wallet, {"at", "accounts"}) /\ w.at = "pages" /\ wallet.at = "accounts"
        /\ Proceed(IF MaxPages = 0 THEN StartTrace(w) ELSE w)
    BY <1>1, <1>3, FieldsAre DEF AccountsRead, Same, IsCall, Tracing
  <2> HIDE DEF w
  <2>2. w.reads = wallet.reads /\ w.tried = wallet.tried /\ w.hopPages = wallet.hopPages
        /\ w.chain = wallet.chain /\ w.subject = wallet.subject /\ w.pages = wallet.pages
    BY <2>1, FieldsAre DEF Same
  <2>3. ToParse(w) = ToParse(wallet)
    BY <2>2 DEF ToParse, Totals
  <2>4. wallet.reads <= 2
    BY <2>1 DEF ReadInv, AtMost
  <2>5. CASE MaxPages = 0
    <3>1. Tracing(w)
      BY <1>1, <2>1, <2>2, <2>3 DEF Tracing, Same
    <3>2. w.reads < UpToHop(0)
      BY <1>1, <2>2, <2>4, TopIs DEF Tracing
    <3> QED
      BY <1>1, <2>1, <2>2, <2>5, <3>1, <3>2, StartTraceDue, DueKeeps
  <2>6. CASE MaxPages # 0
    <3>1. Shape(w)
      BY <1>1, <2>1, <2>2 DEF Tracing, Shape, ReadStates
    <3>2. AtMost(w, w.reads + (IF w.at \in ReadStates THEN 1 ELSE 0))
      BY <1>1, <2>1, <2>2, <2>4 DEF Tracing, AtMost, ReadStates
    <3> QED
      BY <2>1, <2>6, <3>1, <3>2, DueKeeps DEF Same, Due
  <2> QED
    BY <2>5, <2>6
<1> QED
  BY <1>2, <1>3

LEMMA TraceReadsDue ==
  ASSUME PageInv, ReadInv, NEW ok \in BOOLEAN, GenesisRead(ok) \/ HopPageRead(ok) \/ HopGenesisRead(ok)
  PROVE  ReadInv'
<1>0. wallet.at \in {"genesis", "hop", "hop_genesis"} /\ wallet.at \in ReadStates
  BY DEF GenesisRead, HopPageRead, HopGenesisRead, ReadStates
<1>1. Tracing(wallet) /\ wallet.reads \in Nat
  BY <1>0, AtRead
<1>2. CASE GenesisRead(ok) \/ HopGenesisRead(ok)
  <2> DEFINE n == Len(wallet.chain)
  <2>1. wallet.at \in {"genesis", "hop_genesis"} /\ \E w : Proceed(w)
          /\ ((\E a : w = Visit(wallet, a)) \/ (\E s : w = EndTrace(wallet, s)))
    BY <1>2 DEF GenesisRead, HopGenesisRead
  <2>2. n \in Nat /\ n <= MaxHops - 1 /\ wallet.reads <= UpToHop(n)
    BY <2>1, TopIs DEF ReadInv, Shape, AtMost
  <2>3. UpToHop(n) <= Top /\ UpToHop(n) \in Nat
    BY <2>2, TopIs, HopsAre, HopsGrow DEF Top
  <2>4. wallet.reads <= Top
    BY <1>1, <2>2, <2>3, TopIs
  <2> QED
    BY <1>1, <2>1, <2>2, <2>4, VisitDue, EndTraceDue, DueKeeps
<1>3. CASE HopPageRead(ok)
  <2> DEFINE page == wallet.hopPages + 1
             n == Len(wallet.chain)
             v == [wallet EXCEPT !.at = "hop_genesis"]
             x == [wallet EXCEPT !.hopPages = page]
  <2>1. wallet.at = "hop" /\ \E w : Proceed(w)
          /\ (w = v \/ (w = x /\ page < HopPages) \/ w = EndTrace(wallet, "traced_clean"))
    BY <1>3 DEF HopPageRead
  <2>2. /\ n \in 1 .. MaxHops - 1 /\ wallet.hopPages \in Nat /\ wallet.hopPages < HopPages
        /\ wallet.reads <= UpToHop(n - 1) + wallet.hopPages + 1
    BY <2>1 DEF ReadInv, Shape, AtMost
  <2>3. n \in Nat \ {0} /\ n - 1 \in Nat /\ n <= MaxHops - 1
    BY <2>2, TopIs
  <2>4. /\ UpToHop(n) = UpToHop(n - 1) + HopPages + 1 /\ UpToHop(n - 1) \in Nat
        /\ UpToHop(n) <= Top /\ UpToHop(n) \in Nat
    BY <2>3, TopIs, HopsAre, HopsAdd, HopsGrow DEF Top
  <2>5. Due(v) /\ IsCall(v)
    <3>1. /\ v.at = "hop_genesis" /\ v.reads = wallet.reads /\ v.tried = wallet.tried
          /\ v.hopPages = wallet.hopPages /\ v.pages = wallet.pages /\ v.chain = wallet.chain /\ IsCall(v)
      BY <1>1, FieldsAre DEF Tracing, IsCall
    <3> HIDE DEF v
    <3>2. Shape(v)
      BY <1>1, <2>2, <3>1 DEF Tracing, Shape, ReadStates
    <3>3. AtMost(v, v.reads + (IF v.at \in ReadStates THEN 1 ELSE 0))
      <4>1. wallet.reads \in Nat /\ HopPages \in Nat
        BY <1>1, TopIs DEF Tracing
      <4>2. wallet.reads + 1 <= UpToHop(n)
        BY <2>2, <2>4, <4>1
      <4>3. v.reads + 1 <= UpToHop(Len(v.chain))
        BY <3>1, <4>2
      <4> QED
        BY <3>1, <4>3 DEF AtMost, ReadStates
    <3> QED
      BY <3>1, <3>2, <3>3 DEF Due
  <2>6. page < HopPages => Due(x) /\ IsCall(x)
    <3>1. /\ x.at = "hop" /\ x.reads = wallet.reads /\ x.tried = wallet.tried
          /\ x.hopPages = page /\ x.pages = wallet.pages /\ x.chain = wallet.chain /\ IsCall(x)
      BY <1>1, <2>1, FieldsAre DEF Tracing, IsCall
    <3> HIDE DEF x
    <3>2. page < HopPages => Shape(x)
      BY <1>1, <2>2, <3>1 DEF Tracing, Shape, ReadStates
    <3>3. AtMost(x, x.reads + (IF x.at \in ReadStates THEN 1 ELSE 0))
      <4>1. x.reads + 1 <= UpToHop(Len(x.chain) - 1) + x.hopPages + 1
        BY <1>1, <2>2, <2>4, <3>1 DEF Tracing
      <4> QED
        BY <3>1, <4>1 DEF AtMost, ReadStates
    <3> QED
      BY <3>1, <3>2, <3>3 DEF Due
  <2>7. wallet.reads <= Top
    BY <1>1, <2>2, <2>4, TopIs
  <2>8. Due(EndTrace(wallet, "traced_clean")) /\ IsCall(EndTrace(wallet, "traced_clean"))
    BY <1>1, <2>7, EndTraceDue
  <2> HIDE DEF v, x, page
  <2> QED
    BY <2>1, <2>5, <2>6, <2>8, DueKeeps
<1> QED
  BY <1>2, <1>3

LEMMA ActivityReadDue ==
  ASSUME PageInv, ReadInv, NEW ok \in BOOLEAN, ActivityRead(ok)
  PROVE  ReadInv'
<1> DEFINE i == wallet.tried + 1
           w == [wallet EXCEPT !.tried = i, !.parsed = IF ok THEN @ + 1 ELSE @,
                   !.parties = IF ok THEN @ \cup Counterparties(Recent[wallet.subject][i], wallet.subject)
                               ELSE @]
           v == [w EXCEPT !.at = "score"]
<1>0. wallet.at = "activity" /\ wallet.at \in ReadStates
  BY DEF ActivityRead, ReadStates
<1>1. IsCall(wallet) /\ wallet.reads \in Nat /\ wallet.pages \in Nat /\ ToParse(wallet) \in 0 .. MaxParse
  BY <1>0, AtRead
<1>2. Proceed(IF i = ToParse(wallet) THEN v ELSE w)
  BY DEF ActivityRead
<1>3. /\ Same(w, wallet, {"tried", "parsed", "parties"}) /\ w.tried = i
      /\ Same(v, w, {"at"}) /\ v.at = "score"
  BY <1>1, FieldsAre DEF Same, IsCall
<1> HIDE DEF v, w
<1>4. /\ w.at = "activity" /\ w.reads = wallet.reads /\ w.hopPages = wallet.hopPages
      /\ w.chain = wallet.chain /\ w.subject = wallet.subject /\ w.pages = wallet.pages
      /\ v.reads = wallet.reads /\ v.hopPages = wallet.hopPages
      /\ v.chain = wallet.chain /\ v.tried = i /\ v.pages = wallet.pages
  BY <1>0, <1>3, FieldsAre DEF Same
<1>5. ToParse(w) = ToParse(wallet)
  BY <1>4 DEF ToParse, Totals
<1>6. /\ wallet.tried \in Nat /\ wallet.tried < ToParse(wallet) /\ wallet.hopPages \in Nat
      /\ IsChain(wallet.chain) /\ wallet.reads <= Top + wallet.tried + 1
  BY <1>0 DEF ReadInv, Shape, AtMost
<1>7. i # ToParse(wallet) => Due(w)
  <2>1. i # ToParse(wallet) => Shape(w)
    BY <1>1, <1>3, <1>4, <1>5, <1>6, TopIs DEF Shape, ReadStates
  <2>2. AtMost(w, w.reads + (IF w.at \in ReadStates THEN 1 ELSE 0))
    BY <1>1, <1>3, <1>4, <1>6, TopIs DEF AtMost, ReadStates
  <2> QED
    BY <2>1, <2>2 DEF Due
<1>8. Due(v)
  <2>1. wallet.reads <= ReadBound
    BY <1>1, <1>6, TopIs
  <2>2. Shape(v)
    BY <1>1, <1>3, <1>4, <1>6 DEF Shape, ReadStates
  <2>3. AtMost(v, v.reads + (IF v.at \in ReadStates THEN 1 ELSE 0))
    BY <1>1, <1>3, <1>4, <2>1 DEF AtMost, ReadStates
  <2> QED
    BY <2>2, <2>3 DEF Due
<1> QED
  BY <1>2, <1>3, <1>7, <1>8, DueKeeps DEF Same

\* The steps that read nothing.
LEMMA TurnsDue ==
  ASSUME PageInv, ReadInv, RefreshForWallet \/ LookUpDeny \/ WeighWallet
  PROVE  ReadInv'
<1>0. IsCall(wallet)
  BY DEF PageInv
<1>1. PICK w : /\ Proceed(w) /\ Same(w, wallet, {"at", "denied", "verdict"})
               /\ \/ wallet.at = "refresh" /\ w.at = "balance"
                  \/ wallet.at \in {"score", "weigh"} /\ w.at \in {"weigh", "scored"}
  <2>1. CASE RefreshForWallet
    <3> DEFINE w == [wallet EXCEPT !.at = "balance"]
    <3>1. Same(w, wallet, {"at", "denied", "verdict"}) /\ w.at = "balance"
      BY <1>0, FieldsAre DEF Same, IsCall
    <3> QED
      BY <2>1, <3>1 DEF RefreshForWallet
  <2>2. CASE LookUpDeny
    <3> DEFINE denied == Lookup(labels.deny, wallet.subject)
               w == [wallet EXCEPT !.at = "weigh", !.denied = denied]
    <3>1. wallet.at = "score" /\ Proceed(w)
      BY <2>2 DEF LookUpDeny
    <3> HIDE DEF denied
    <3>2. Same(w, wallet, {"at", "denied", "verdict"}) /\ w.at = "weigh"
      BY <1>0, FieldsAre DEF Same, IsCall
    <3> HIDE DEF w
    <3> QED
      BY <3>1, <3>2
  <2>3. CASE WeighWallet
    <3> DEFINE verdict == ScoreWallet(SignalsOf(wallet), wallet.denied, Lookup(labels.allow, wallet.subject))
               w == [wallet EXCEPT !.at = "scored", !.verdict = verdict]
    <3>1. wallet.at = "weigh" /\ Proceed(w)
      BY <2>3 DEF WeighWallet
    <3> HIDE DEF verdict
    <3>2. Same(w, wallet, {"at", "denied", "verdict"}) /\ w.at = "scored"
      BY <1>0, FieldsAre DEF Same, IsCall
    <3> HIDE DEF w
    <3> QED
      BY <3>1, <3>2
  <2> QED
    BY <2>1, <2>2, <2>3
<1>2. w.reads = wallet.reads /\ w.tried = wallet.tried /\ w.hopPages = wallet.hopPages
      /\ w.chain = wallet.chain /\ w.pages = wallet.pages
  BY <1>1, FieldsAre DEF Same
<1>3. Shape(w)
  BY <1>1, <1>2 DEF ReadInv, Shape, ReadStates
<1>4. AtMost(w, w.reads + (IF w.at \in ReadStates THEN 1 ELSE 0))
  BY <1>1, <1>2 DEF ReadInv, Shape, AtMost, ReadStates
<1> QED
  BY <1>1, <1>3, <1>4, DueKeeps DEF Same, Due

\* No call, or one that has just been asked for, has read nothing.
LEMMA FreshReads ==
  ASSUME NEW w, Same(w, NoWallet, {"at", "subject"}), w.at \in {"idle", "refresh"}
  PROVE  Shape(w) /\ AtMost(w, w.reads)
<1>1. NoWallet.reads = 0 /\ NoWallet.tried = 0 /\ NoWallet.hopPages = 0 /\ NoWallet.chain = <<>>
      /\ NoWallet.pages = 0
  BY DEF NoWallet
<1>2. w.reads = 0 /\ w.tried = 0 /\ w.hopPages = 0 /\ w.chain = <<>> /\ w.pages = 0
  BY <1>1, FieldsAre DEF Same
<1>3. <<>> \in Seq({}) /\ Len(<<>>) = 0
  OBVIOUS
<1>4. IsChain(<<>>)
  BY <1>3 DEF IsChain
<1> QED
  <2>1. Shape(w)
    BY <1>2, <1>3, <1>4 DEF Shape
  <2>2. AtMost(w, w.reads)
    BY <1>2 DEF AtMost
  <2> QED
    BY <2>1, <2>2

LEMMA NoReads == Shape(NoWallet) /\ AtMost(NoWallet, NoWallet.reads)
<1>1. Same(NoWallet, NoWallet, {"at", "subject"}) /\ NoWallet.at = "idle"
  BY NoWalletIsCall DEF Same, NoWallet
<1> QED
  BY <1>1, FreshReads

LEMMA InitReads == Init => ReadInv
  BY NoReads DEF Init, ReadInv

LEMMA NextReads == PageInv /\ ReadInv /\ [Next]_vars => ReadInv'
<1> SUFFICES ASSUME PageInv, ReadInv, [Next]_vars PROVE ReadInv'
  OBVIOUS
<1>1. CASE wallet' = wallet
  BY <1>1 DEF ReadInv, Shape, AtMost, ToParse, Totals
<1>2. CASE wallet' = NoWallet
  <2>1. Shape(wallet') /\ AtMost(wallet', wallet'.reads)
    BY <1>2, NoReads
  <2> QED
    BY <2>1 DEF ReadInv
<1>3. CASE AskWallet
  <2>1. Shape(wallet') /\ AtMost(wallet', wallet'.reads)
    BY <1>3, Asked, FreshReads
  <2> QED
    BY <2>1 DEF ReadInv
<1>4. CASE WalletRead
  <2> PICK ok \in BOOLEAN :
        \/ BalanceRead(ok) \/ AccountsRead(ok) \/ PageRead(ok) \/ GenesisRead(ok)
        \/ HopPageRead(ok) \/ HopGenesisRead(ok) \/ ActivityRead(ok)
    BY <1>4 DEF WalletRead
  <2> QED
    BY PageReadDue, FirstReadsDue, TraceReadsDue, ActivityReadDue
<1>5. CASE RefreshForWallet \/ LookUpDeny \/ WeighWallet
  BY <1>5, TurnsDue
<1> QED
  BY <1>1, <1>2, <1>3, <1>4, <1>5, WalletCases

\* A call makes no more reads than its page, hop and parse limits add up to, on any
\* ledger, however long, circular or rich its histories are (ReadsAreBounded).
THEOREM ReadsBounded == Spec => []ReadsAreBounded
<1>1. PageInv /\ ReadInv => ReadsAreBounded
  <2> SUFFICES ASSUME PageInv, ReadInv PROVE wallet.reads <= ReadBound
    BY DEF ReadsAreBounded
  <2> DEFINE n == Len(wallet.chain)
  <2>1. CASE wallet.at \in {"hop", "hop_genesis"}
    <3>1. n \in Nat \ {0} /\ n - 1 \in Nat /\ n <= MaxHops - 1
      BY <2>1, TopIs DEF ReadInv, Shape
    <3>2. /\ UpToHop(n) = UpToHop(n - 1) + HopPages + 1 /\ UpToHop(n - 1) \in Nat
          /\ UpToHop(n) <= Top /\ UpToHop(n) \in Nat
      BY <3>1, TopIs, HopsAre, HopsAdd, HopsGrow DEF Top
    <3>3. \/ wallet.reads <= UpToHop(n - 1) + wallet.hopPages + 1 /\ wallet.hopPages < HopPages
          \/ wallet.reads <= UpToHop(n)
      BY <2>1 DEF ReadInv, Shape, AtMost
    <3>4. wallet.reads \in Nat /\ wallet.hopPages \in Nat
      BY DEF ReadInv, Shape
    <3> HIDE DEF n
    <3> QED
      BY <3>1, <3>2, <3>3, <3>4, TopIs
  <2>2. CASE wallet.at = "activity"
    <3>1. ToParse(wallet) \in 0 .. MaxParse
      BY <2>2, AtRead DEF ReadStates
    <3> QED
      BY <2>2, <3>1, TopIs DEF ReadInv, Shape, AtMost
  <2>3. CASE wallet.at \notin {"hop", "hop_genesis", "activity"}
    <3>1. wallet.pages \in 0 .. MaxPages /\ (wallet.at = "pages" => wallet.pages < MaxPages)
      BY DEF PageInv
    <3> QED
      BY <2>3, <3>1, TopIs DEF ReadInv, Shape, AtMost, ReadStates
  <2> QED
    BY <2>1, <2>2, <2>3
<1> QED
  BY InitPages, NextPages, InitReads, NextReads, <1>1, PTL DEF Spec

-----------------------------------------------------------------------------
(* Where the first funds came from. *)

\* The account that extract_funder names did fund the other.
LEMMA FunderFunded ==
  ASSUME NEW a \in Addresses, Funder(Genesis[a], a) # None
  PROVE  Funder(Genesis[a], a) \in Addresses /\ Funded(Funder(Genesis[a], a), a)
<1> DEFINE t == Genesis[a]
           n == Len(t.keys)
           losers == {i \in DOMAIN t.keys : t.keys[i] # a /\ Lost(t, i) > 0}
           most == {i \in losers : \A j \in losers : Lost(t, j) < Lost(t, i)
                                                  \/ (Lost(t, j) = Lost(t, i) /\ i <= j)}
           top == {i \in losers : \A j \in losers : Lost(t, j) <= Lost(t, i)}
<1>1. t.keys \in Seq(Addresses) /\ t.pre \in Seq(Nat) /\ t.post \in Seq(Nat)
  BY TransfersAssumption DEF Transfers
<1>2. /\ InLine(t) /\ losers # {} /\ Funder(t, a) = t.keys[CHOOSE i \in most : TRUE]
      /\ \E i \in DOMAIN t.keys : t.keys[i] = a /\ Lost(t, i) < 0
  BY Zenon DEF Funder
<1> HIDE DEF t
<1>3. n \in Nat /\ DOMAIN t.keys = 1 .. n
  BY <1>1
<1>4. \A i \in 1 .. n : Lost(t, i) \in Int
  <2>1. \A s \in Seq(Nat) : \A i \in 1 .. Len(s) : s[i] \in Nat
    OBVIOUS
  <2>2. Len(t.pre) = n /\ Len(t.post) = n
    BY <1>2 DEF InLine
  <2> SUFFICES ASSUME NEW i \in 1 .. n PROVE Lost(t, i) \in Int
    OBVIOUS
  <2>3. t.pre[i] \in Nat /\ t.post[i] \in Nat
    BY <1>1, <2>1, <2>2
  <2> QED
    BY <2>3 DEF Lost
<1>5. losers \subseteq 1 .. n /\ IsFiniteSet(losers)
  <2>1. losers \subseteq 1 .. n /\ IsFiniteSet(1 .. n)
    BY <1>3, FS_Interval
  <2> QED
    BY <2>1, FS_Subset
<1>6. top # {}
  <2> DEFINE amount == [i \in losers |-> Lost(t, i)]
  <2>1. amount \in [losers -> Int]
    BY <1>4, <1>5
  <2>2. PICK x \in losers : \A y \in losers : amount[y] <= amount[x]
    <3> HIDE DEF amount, losers
    <3> QED
      BY <1>2, <1>5, <2>1, GreatestValue
  <2> QED
    BY <2>2
<1>7. most # {}
  <2> DEFINE negated == [i \in top |-> -i]
  <2>1. negated \in [top -> Int]
    BY <1>5
  <2>2. IsFiniteSet(top)
    BY <1>5, FS_Subset
  <2>3. PICK i \in top : \A j \in top : negated[j] <= negated[i]
    <3> HIDE DEF negated, top
    <3> QED
      BY <1>6, <2>1, <2>2, GreatestValue
  <2>4. \A j \in top : i <= j
    <3> SUFFICES ASSUME NEW j \in top PROVE i <= j
      OBVIOUS
    <3>1. -j <= -i
      BY <2>3
    <3>2. i \in Int /\ j \in Int
      BY <1>5
    <3> QED
      BY <3>1, <3>2
  <2>5. \A j \in losers : Lost(t, j) < Lost(t, i) \/ (Lost(t, j) = Lost(t, i) /\ i <= j)
    <3> SUFFICES ASSUME NEW j \in losers, ~(Lost(t, j) < Lost(t, i))
                 PROVE  Lost(t, j) = Lost(t, i) /\ i <= j
      OBVIOUS
    <3>1. Lost(t, j) \in Int /\ Lost(t, i) \in Int
      BY <1>4, <1>5
    <3>2. Lost(t, j) = Lost(t, i)
      BY <3>1
    <3>3. j \in top
      BY <3>2
    <3> QED
      BY <2>4, <3>2, <3>3
  <2> QED
    BY <2>5
<1> DEFINE i == CHOOSE i \in most : TRUE
<1>8. i \in most
  BY <1>7
<1> HIDE DEF i
<1>9. i \in losers /\ \A j \in losers : Lost(t, j) <= Lost(t, i)
  BY <1>4, <1>5, <1>8
<1>10. Funder(t, a) = t.keys[i] /\ t.keys[i] \in Addresses
  <2>1. Funder(t, a) = t.keys[i]
    BY <1>2 DEF i
  <2>2. i \in DOMAIN t.keys
    BY <1>9
  <2> QED
    BY <1>1, <2>1, <2>2
<1> QED
  BY <1>2, <1>9, <1>10 DEF Funded, t

LEMMA EndTraceSays ==
  ASSUME NEW w, IsCall(w), NEW s
  PROVE  EndTrace(w, s).source = s /\ EndTrace(w, s).index \in {w.index, labels.deny}
<1> DEFINE x == [w EXCEPT !.source = s]
<1>1. Same(x, w, {"source"}) /\ x.source = s
  BY FieldsAre DEF IsCall, Same
<1>2. EndTrace(w, s) \in {[x EXCEPT !.at = "score"], [x EXCEPT !.at = "activity", !.index = labels.deny]}
  BY DEF EndTrace, StartActivity
<1> HIDE DEF x
<1>3. x.index = w.index
  BY <1>1, FieldsAre DEF Same
<1> QED
  BY <1>1, <1>2, <1>3, FieldsAre DEF IsCall, Same

\* The account before the first hop is the wallet itself.
Hop(w, i) == IF i = 0 THEN w.subject ELSE w.chain[i].address

Traced == {"traced_clean", "labeled_bad"}
BeforeTrace == {"idle", "refresh", "balance", "accounts", "pages", "genesis"}
AtHop == {"hop", "hop_genesis"}

\* A trace in the making, and one that has ended: its hops are funders, none but the last
\* of a bad source is labelled, and it begins at the first transaction.
TraceOf(w, held) ==
  /\ w.chain \in Seq(Hops)
  /\ \A i \in 1 .. Len(w.chain) : Funded(Hop(w, i), Hop(w, i - 1))
  /\ \A i \in 1 .. Len(w.chain) :
       w.chain[i].labelled <=> (i = Len(w.chain) /\ w.source = "labeled_bad")
  /\ w.source # "labeled_bad" => \A i \in 1 .. Len(w.chain) : ~Listed(held, Hop(w, i))
  /\ w.at \in BeforeTrace \cup AtHop => w.source = None
  /\ w.genesis => IsLast(w.subject, w.pages)
  /\ w.source \in Traced \/ w.at \in AtHop => w.genesis /\ Len(w.chain) > 0
  /\ w.at = "genesis" => w.genesis

TraceInv == TraceOf(wallet, standing)

\* What of a call the trace depends on.
TraceFields == {"subject", "chain", "source", "genesis", "pages"}

LEMMA TraceKept ==
  ASSUME NEW w, NEW held, TraceOf(w, held), NEW x, NEW kept, kept \subseteq held,
         \A f \in TraceFields : x[f] = w[f],
         x.at \in BeforeTrace \cup AtHop => w.at \in BeforeTrace \cup AtHop,
         x.at \in AtHop => w.at \in AtHop,
         x.at = "genesis" => w.genesis
  PROVE  TraceOf(x, kept)
<1>1. x.subject = w.subject /\ x.chain = w.chain /\ x.source = w.source /\ x.genesis = w.genesis
      /\ x.pages = w.pages
  BY DEF TraceFields
<1>2. \A i : Hop(x, i) = Hop(w, i)
  BY <1>1 DEF Hop
<1>3. \A a : ~Listed(held, a) => ~Listed(kept, a)
  BY DEF Listed, Lookup
<1> QED
  BY <1>1, <1>2, <1>3 DEF TraceOf

LEMMA TraceEnds ==
  ASSUME NEW w, IsCall(w), TraceOf(w, standing), w.source = None,
         NEW s, s # "labeled_bad", s \in Traced => w.genesis /\ Len(w.chain) > 0
  PROVE  TraceOf(EndTrace(w, s), standing)
<1> DEFINE x == EndTrace(w, s)
<1>1. Same(x, w, {"at", "index", "source"}) /\ x.at \in {"score", "activity"} /\ x.source = s
  BY EndTraceMoves, EndTraceSays
<1> HIDE DEF x
<1>2. x.subject = w.subject /\ x.chain = w.chain /\ x.genesis = w.genesis /\ x.pages = w.pages
  BY <1>1, FieldsAre DEF Same
<1>3. \A i : Hop(x, i) = Hop(w, i)
  BY <1>2 DEF Hop
<1>4. w.source # "labeled_bad"
  BY DEF None
<1>5. TraceOf(x, standing)
  BY <1>1, <1>2, <1>3, <1>4 DEF TraceOf, BeforeTrace, AtHop
<1> QED
  BY <1>5 DEF x

LEMMA TraceStarts ==
  ASSUME NEW w, IsCall(w), TraceOf(w, standing), w.source = None
  PROVE  TraceOf(StartTrace(w), standing)
<1>1. CASE \E s \in {"partial_history", "no_history"} : StartTrace(w) = EndTrace(w, s)
  BY <1>1, TraceEnds DEF Traced
<1>2. CASE StartTrace(w) = [w EXCEPT !.at = "genesis"] /\ w.genesis
  <2> DEFINE x == [w EXCEPT !.at = "genesis"]
  <2>1. Same(x, w, {"at"}) /\ x.at = "genesis"
    BY FieldsAre DEF IsCall, Same
  <2> HIDE DEF x
  <2>2. /\ x.subject = w.subject /\ x.chain = w.chain /\ x.source = None /\ x.genesis = w.genesis
        /\ x.pages = w.pages
    BY <2>1, FieldsAre DEF Same
  <2>3. \A i : Hop(x, i) = Hop(w, i)
    BY <2>2 DEF Hop
  <2>4. TraceOf(x, standing)
    BY <1>2, <2>1, <2>2, <2>3 DEF TraceOf, BeforeTrace, AtHop, Traced, None
  <2> QED
    BY <1>2, <2>4 DEF x
<1> QED
  BY <1>1, <1>2 DEF StartTrace

LEMMA VisitSays ==
  ASSUME NEW w, IsCall(w), NEW a
  PROVE  Visit(w, a).source =
           IF Listed(labels.deny, a) THEN "labeled_bad"
           ELSE IF Visit(w, a).at = "hop" THEN w.source ELSE "traced_clean"
<1> DEFINE e == [address |-> a, labelled |-> Listed(labels.deny, a)]
           x == [w EXCEPT !.chain = Append(@, e), !.hopPages = 0]
<1>1. Same(x, w, {"chain", "hopPages"})
  BY FieldsAre DEF IsCall, Same
<1>2. Visit(w, a) = IF Listed(labels.deny, a) THEN EndTrace(x, "labeled_bad")
                    ELSE IF Len(x.chain) >= MaxHops THEN EndTrace(x, "traced_clean")
                    ELSE [x EXCEPT !.at = "hop"]
  BY Zenon DEF Visit
<1> HIDE DEF x, e
<1>3. \A s : EndTrace(x, s).source = s /\ EndTrace(x, s).at # "hop"
  BY <1>1, EndTraceSays, EndTraceMoves DEF Same
<1>4. [x EXCEPT !.at = "hop"].source = w.source /\ [x EXCEPT !.at = "hop"].at = "hop"
  BY <1>1, FieldsAre DEF Same, IsCall
<1> QED
  BY <1>2, <1>3, <1>4

LEMMA VisitLabels ==
  ASSUME NEW w, IsCall(w), NEW a, Visit(w, a).at = "hop"
  PROVE  ~Listed(labels.deny, a)
<1> DEFINE e == [address |-> a, labelled |-> Listed(labels.deny, a)]
           x == [w EXCEPT !.chain = Append(@, e), !.hopPages = 0]
<1>1. Same(x, w, {"chain", "hopPages"})
  BY FieldsAre DEF IsCall, Same
<1>2. Listed(labels.deny, a) => Visit(w, a) = EndTrace(x, "labeled_bad")
  BY DEF Visit
<1> HIDE DEF x, e
<1>3. EndTrace(x, "labeled_bad").at # "hop"
  BY <1>1, EndTraceMoves DEF Same
<1> QED
  BY <1>2, <1>3

\* The chain grows by a funder of its last account, and knows if that one is labelled.
LEMMA VisitTraces ==
  ASSUME LabelInv, NEW w, IsCall(w), TraceOf(w, standing), w.at \in {"genesis", "hop_genesis"},
         NEW a \in Addresses, Funded(a, Hop(w, Len(w.chain)))
  PROVE  TraceOf(Visit(w, a), standing)
<1> DEFINE x == Visit(w, a)
           n == Len(w.chain)
           e == [address |-> a, labelled |-> Listed(labels.deny, a)]
<1>1. /\ Same(x, w, {"at", "index", "source", "chain", "hopPages"})
      /\ x.at \in {"hop", "score", "activity"} /\ x.chain = Append(w.chain, e)
      /\ x.source = IF Listed(labels.deny, a) THEN "labeled_bad"
                    ELSE IF x.at = "hop" THEN w.source ELSE "traced_clean"
  BY VisitMoves, VisitSays
<1> HIDE DEF x
<1>2. x.subject = w.subject /\ x.genesis = w.genesis /\ x.pages = w.pages
  BY <1>1, FieldsAre DEF Same
<1>3. w.source = None /\ w.genesis /\ IsLast(w.subject, w.pages) /\ w.chain \in Seq(Hops)
  BY DEF TraceOf, BeforeTrace, AtHop
<1>4. e \in Hops
  <2>1. Listed(labels.deny, a) \in BOOLEAN
    BY DEF Listed
  <2> QED
    BY <2>1 DEF Hops
<1>5. /\ x.chain \in Seq(Hops) /\ Len(x.chain) = n + 1 /\ n \in Nat /\ x.chain[n + 1] = e
      /\ \A i \in 1 .. n : x.chain[i] = w.chain[i]
  <2> HIDE DEF e
  <2> QED
    BY <1>1, <1>3, <1>4
<1>6. Hop(x, n + 1) = a /\ \A i \in 0 .. n : Hop(x, i) = Hop(w, i)
  BY <1>2, <1>5 DEF Hop
<1>7. \A i \in 1 .. n + 1 : Funded(Hop(x, i), Hop(x, i - 1))
  <2> SUFFICES ASSUME NEW i \in 1 .. n + 1 PROVE Funded(Hop(x, i), Hop(x, i - 1))
    OBVIOUS
  <2>1. CASE i = n + 1
    <3>1. i - 1 = n /\ n \in 0 .. n
      BY <1>5, <2>1
    <3> QED
      BY <1>6, <2>1, <3>1
  <2>2. CASE i # n + 1
    <3>1. i \in 1 .. n /\ i \in 0 .. n /\ i - 1 \in 0 .. n
      BY <1>5, <2>2
    <3>2. Funded(Hop(w, i), Hop(w, i - 1))
      BY <3>1 DEF TraceOf
    <3> QED
      BY <1>6, <3>1, <3>2
  <2> QED
    BY <2>1, <2>2
<1>8. \A i \in 1 .. n : ~w.chain[i].labelled /\ ~Listed(standing, Hop(w, i))
  BY <1>3 DEF TraceOf, None
<1>9. Listed(labels.deny, a) <=> x.source = "labeled_bad"
  BY <1>1, <1>3 DEF None
<1>10. \A i \in 1 .. n + 1 : x.chain[i].labelled <=> (i = n + 1 /\ x.source = "labeled_bad")
  <2> SUFFICES ASSUME NEW i \in 1 .. n + 1
               PROVE  x.chain[i].labelled <=> (i = n + 1 /\ x.source = "labeled_bad")
    OBVIOUS
  <2>1. CASE i = n + 1
    BY <1>5, <1>9, <2>1
  <2>2. CASE i # n + 1
    <3>1. i \in 1 .. n
      BY <1>5, <2>2
    <3> QED
      BY <1>5, <1>8, <2>2, <3>1
  <2> QED
    BY <2>1, <2>2
<1>11. x.source # "labeled_bad" => \A i \in 1 .. n + 1 : ~Listed(standing, Hop(x, i))
  <2> SUFFICES ASSUME x.source # "labeled_bad", NEW i \in 1 .. n + 1
               PROVE  ~Listed(standing, Hop(x, i))
    OBVIOUS
  <2>1. CASE i = n + 1
    <3>1. ~Listed(standing, a)
      BY <1>9 DEF LabelInv, Listed, Lookup
    <3> QED
      BY <1>6, <2>1, <3>1
  <2>2. CASE i # n + 1
    <3>1. i \in 1 .. n /\ i \in 0 .. n
      BY <1>5, <2>2
    <3> QED
      BY <1>6, <1>8, <3>1
  <2> QED
    BY <2>1, <2>2
<1>12. x.at \in BeforeTrace \cup AtHop => x.source = None
  <2>1. x.at = "hop" => ~Listed(labels.deny, a)
    BY VisitLabels DEF x
  <2> QED
    BY <1>1, <1>3, <2>1 DEF BeforeTrace, AtHop
<1>13. x.at # "genesis" /\ Len(x.chain) > 0
  BY <1>1, <1>5
<1> QED
  <2>1. TraceOf(x, standing)
    BY <1>2, <1>3, <1>5, <1>7, <1>10, <1>11, <1>12, <1>13 DEF TraceOf
  <2> QED
    BY <2>1 DEF x

LEMMA TraceProceeds ==
  ASSUME NEW w, IsCall(w), TraceOf(w, standing), Proceed(w), standing' \subseteq standing
  PROVE  TraceInv'
<1>1. Same(wallet', w, {"reads"})
  BY Proceeds
<1>2. wallet'.at = w.at /\ \A f \in TraceFields : wallet'[f] = w[f]
  BY <1>1, FieldsAre DEF Same, TraceFields
<1>3. w.at = "genesis" => w.genesis
  BY DEF TraceOf
<1>4. TraceOf(wallet', standing')
  BY <1>2, <1>3, TraceKept
<1> QED
  BY <1>4 DEF TraceInv

\* A step that the trace does not depend on.
LEMMA TracePasses ==
  ASSUME TraceInv, IsCall(wallet), NEW w, Same(w, wallet, Fields \ TraceFields), Proceed(w),
         w.at \in BeforeTrace \cup AtHop => wallet.at \in BeforeTrace \cup AtHop,
         w.at \in AtHop => wallet.at \in AtHop, w.at # "genesis",
         standing' \subseteq standing
  PROVE  TraceInv'
<1>1. \A f \in TraceFields : w[f] = wallet[f]
  BY FieldsAre DEF Same, TraceFields
<1>2. TraceOf(w, standing)
  BY <1>1, TraceKept DEF TraceInv
<1> QED
  BY <1>2, TraceProceeds DEF Same

LEMMA FirstReadsTrace ==
  ASSUME TraceInv, IsCall(wallet), NEW ok \in BOOLEAN, BalanceRead(ok) \/ AccountsRead(ok),
         standing' \subseteq standing
  PROVE  TraceInv'
<1>1. CASE BalanceRead(ok)
  <2> DEFINE w == [wallet EXCEPT !.at = "accounts",
                     !.lamports = IF ok THEN Lamports[wallet.subject] ELSE 0]
  <2>1. /\ Same(w, wallet, Fields \ TraceFields) /\ w.at = "accounts" /\ wallet.at = "balance"
        /\ Proceed(w)
    BY <1>1, FieldsAre DEF BalanceRead, Same, IsCall, TraceFields
  <2> HIDE DEF w
  <2> QED
    BY <2>1, TracePasses DEF BeforeTrace, AtHop
<1>2. CASE AccountsRead(ok)
  <2> DEFINE w == [wallet EXCEPT !.at = "pages",
                     !.accounts = IF ok THEN TokenAccounts[wallet.subject] ELSE 0]
  <2>1. /\ Same(w, wallet, Fields \ TraceFields) /\ w.at = "pages" /\ wallet.at = "accounts"
        /\ Proceed(IF MaxPages = 0 THEN StartTrace(w) ELSE w)
    BY <1>2, FieldsAre DEF AccountsRead, Same, IsCall, TraceFields
  <2> HIDE DEF w
  <2>2. CASE MaxPages # 0
    BY <2>1, <2>2, TracePasses DEF BeforeTrace, AtHop
  <2>3. CASE MaxPages = 0
    <3>1. \A f \in TraceFields : w[f] = wallet[f]
      BY <2>1, FieldsAre DEF Same, TraceFields
    <3>2. TraceOf(w, standing)
      BY <2>1, <3>1, TraceKept DEF TraceInv, BeforeTrace, AtHop
    <3>3. w.source = None /\ IsCall(w)
      BY <2>1, <3>2 DEF TraceOf, BeforeTrace, Same
    <3>4. TraceOf(StartTrace(w), standing) /\ IsCall(StartTrace(w))
      BY <3>2, <3>3, TraceStarts, StartTraceMoves DEF Same
    <3> QED
      BY <2>1, <2>3, <3>4, TraceProceeds
  <2> QED
    BY <2>2, <2>3
<1> QED
  BY <1>1, <1>2

\* A history that is read to its beginning, and no other, starts a trace.
LEMMA PageReadTraces ==
  ASSUME PageInv, ReadInv, TraceInv, NEW ok \in BOOLEAN, PageRead(ok), standing' \subseteq standing
  PROVE  TraceInv'
<1> DEFINE page == wallet.pages + 1
           w == IF ok THEN [wallet EXCEPT !.pages = page, !.genesis = IsLast(wallet.subject, page)]
                ELSE wallet
           ends == ~ok \/ w.genesis \/ page = MaxPages
<1>1. wallet.at = "pages" /\ Proceed(IF ends THEN StartTrace(w) ELSE w) /\ IsCall(wallet)
  BY DEF PageRead, PageInv
<1>2. /\ Same(w, wallet, {"pages", "genesis"})
      /\ ok => w.genesis = IsLast(wallet.subject, page) /\ w.pages = page
      /\ ~ok => w.genesis = wallet.genesis /\ w.pages = wallet.pages
  BY <1>1, FieldsAre DEF Same, IsCall
<1> HIDE DEF w
<1>3. Len(wallet.chain) = 0 /\ wallet.source = None
  BY <1>1 DEF ReadInv, Shape, TraceInv, TraceOf, BeforeTrace
<1>4. w.at = "pages" /\ w.subject = wallet.subject /\ w.chain = wallet.chain /\ w.source = None
  BY <1>1, <1>2, <1>3, FieldsAre DEF Same
<1>5. w.genesis => IsLast(w.subject, w.pages)
  BY <1>2, <1>4 DEF TraceInv, TraceOf
<1>6. TraceOf(w, standing)
  BY <1>3, <1>4, <1>5 DEF TraceInv, TraceOf, AtHop, Traced, None
<1>7. IsCall(w)
  BY <1>2 DEF Same
<1>8. TraceOf(StartTrace(w), standing) /\ IsCall(StartTrace(w))
  BY <1>4, <1>6, <1>7, TraceStarts, StartTraceMoves DEF Same
<1> HIDE DEF ends
<1> QED
  BY <1>1, <1>6, <1>7, <1>8, TraceProceeds

LEMMA TraceReadsTrace ==
  ASSUME LabelInv, PageInv, ReadInv, TraceInv, NEW ok \in BOOLEAN,
         GenesisRead(ok) \/ HopGenesisRead(ok), standing' \subseteq standing
  PROVE  TraceInv'
<1> DEFINE n == Len(wallet.chain)
           b == Hop(wallet, n)
           a == Funder(Genesis[b], b)
<1>1. IsCall(wallet) /\ wallet.at \in {"genesis", "hop_genesis"} /\ wallet.subject \in Wallets
  BY DEF PageInv, GenesisRead, HopGenesisRead
<1>2. wallet.chain \in Seq(Hops) /\ wallet.source = None /\ wallet.genesis
      /\ (wallet.at = "hop_genesis" => n > 0) /\ (wallet.at = "genesis" => n = 0)
  BY <1>1 DEF TraceInv, TraceOf, ReadInv, Shape, BeforeTrace, AtHop
<1>3. b \in Addresses
  <2>1. CASE n = 0
    BY <1>1, <2>1, WalletAssumption DEF Hop
  <2>2. CASE n # 0
    <3>1. wallet.chain[n] \in Hops
      BY <1>2, <2>2
    <3> QED
      BY <2>2, <3>1 DEF Hop, Hops
  <2> QED
    BY <2>1, <2>2
<1>4. \/ a # None /\ Proceed(Visit(wallet, a))
      \/ Proceed(EndTrace(wallet, "genesis_untraceable"))
      \/ n > 0 /\ Proceed(EndTrace(wallet, "traced_clean"))
  <2>1. CASE GenesisRead(ok)
    <3>1. b = wallet.subject
      BY <1>2, <2>1 DEF Hop, GenesisRead
    <3> QED
      BY <2>1, <3>1 DEF GenesisRead
  <2>2. CASE HopGenesisRead(ok)
    <3>1. b = wallet.chain[n].address /\ n > 0
      BY <1>2, <2>2 DEF Hop, HopGenesisRead
    <3> QED
      BY <2>2, <3>1 DEF HopGenesisRead
  <2> QED
    BY <2>1, <2>2
<1>5. CASE a # None /\ Proceed(Visit(wallet, a))
  <2>1. a \in Addresses /\ Funded(a, b)
    BY <1>3, <1>5, FunderFunded
  <2> HIDE DEF a
  <2>2. TraceOf(Visit(wallet, a), standing) /\ IsCall(Visit(wallet, a))
    BY <1>1, <2>1, VisitTraces, VisitMoves DEF TraceInv, Same
  <2> QED
    BY <1>5, <2>2, TraceProceeds
<1>6. ASSUME NEW s, s # "labeled_bad", s \in Traced => n > 0, Proceed(EndTrace(wallet, s))
      PROVE  TraceInv'
  <2>1. TraceOf(EndTrace(wallet, s), standing) /\ IsCall(EndTrace(wallet, s))
    BY <1>1, <1>2, <1>6, TraceEnds, EndTraceMoves DEF TraceInv, Same
  <2> QED
    BY <1>6, <2>1, TraceProceeds
<1> HIDE DEF a, n
<1> QED
  BY <1>4, <1>5, <1>6 DEF Traced

LEMMA HopPagesTrace ==
  ASSUME TraceInv, IsCall(wallet), NEW ok \in BOOLEAN, HopPageRead(ok), standing' \subseteq standing
  PROVE  TraceInv'
<1> DEFINE page == wallet.hopPages + 1
           v == [wallet EXCEPT !.at = "hop_genesis"]
           x == [wallet EXCEPT !.hopPages = page]
           y == EndTrace(wallet, "traced_clean")
<1>1. wallet.at = "hop" /\ (Proceed(v) \/ Proceed(x) \/ Proceed(y))
  BY DEF HopPageRead
<1>2. /\ Same(v, wallet, Fields \ TraceFields) /\ v.at = "hop_genesis"
      /\ Same(x, wallet, Fields \ TraceFields) /\ x.at = "hop"
  BY <1>1, FieldsAre DEF Same, IsCall, TraceFields
<1>3. TraceOf(y, standing) /\ IsCall(y)
  <2>1. wallet.source = None /\ wallet.genesis /\ Len(wallet.chain) > 0
    BY <1>1 DEF TraceInv, TraceOf, AtHop
  <2> QED
    BY <2>1, TraceEnds, EndTraceMoves DEF TraceInv, Same
<1> HIDE DEF v, x, y, page
<1>4. Proceed(v) => TraceInv'
  BY <1>1, <1>2, TracePasses DEF AtHop
<1>5. Proceed(x) => TraceInv'
  BY <1>1, <1>2, TracePasses DEF AtHop
<1>6. Proceed(y) => TraceInv'
  BY <1>3, TraceProceeds
<1> QED
  BY <1>1, <1>4, <1>5, <1>6

LEMMA ActivityTrace ==
  ASSUME TraceInv, IsCall(wallet), NEW ok \in BOOLEAN, ActivityRead(ok), standing' \subseteq standing
  PROVE  TraceInv'
<1> DEFINE i == wallet.tried + 1
           w == [wallet EXCEPT !.tried = i, !.parsed = IF ok THEN @ + 1 ELSE @,
                   !.parties = IF ok THEN @ \cup Counterparties(Recent[wallet.subject][i], wallet.subject)
                               ELSE @]
           v == [w EXCEPT !.at = "score"]
<1>1. wallet.at = "activity" /\ Proceed(IF i = ToParse(wallet) THEN v ELSE w)
  BY DEF ActivityRead
<1>2. Same(w, wallet, Fields \ TraceFields) /\ w.at = "activity"
  BY <1>1, FieldsAre DEF Same, IsCall, TraceFields
<1>3. Same(v, wallet, Fields \ TraceFields) /\ v.at = "score"
  BY FieldsAre DEF Same, IsCall, TraceFields
<1> HIDE DEF w, v
<1> QED
  BY <1>1, <1>2, <1>3, TracePasses DEF BeforeTrace, AtHop

\* Without hops nothing is said of any label.
LEMMA NoHops ==
  ASSUME NEW w, NEW held, TraceOf(w, held), Len(w.chain) = 0, NEW other
  PROVE  TraceOf(w, other)
  BY DEF TraceOf

LEMMA NoTrace ==
  ASSUME NEW w, NEW held, Same(w, NoWallet, {"at", "subject"}), w.at \in {"idle", "refresh"}
  PROVE  TraceOf(w, held)
<1>1. NoWallet.chain = <<>> /\ NoWallet.source = None /\ ~NoWallet.genesis
  BY DEF NoWallet
<1>2. w.chain = <<>> /\ w.source = None /\ ~w.genesis
  BY <1>1, FieldsAre DEF Same
<1>3. w.chain \in Seq(Hops) /\ Len(w.chain) = 0
  BY <1>2
<1> QED
  BY <1>2, <1>3 DEF TraceOf, AtHop, Traced, None

LEMMA InitTrace == Init => TraceInv
<1>1. Same(NoWallet, NoWallet, {"at", "subject"}) /\ NoWallet.at = "idle"
  BY NoWalletIsCall DEF Same, NoWallet
<1> QED
  BY <1>1, NoTrace DEF Init, TraceInv

LEMMA NextTrace == LabelInv /\ PageInv /\ ReadInv /\ TraceInv /\ [Next]_vars => TraceInv'
<1> SUFFICES ASSUME LabelInv, PageInv, ReadInv, TraceInv, [Next]_vars PROVE TraceInv'
  OBVIOUS
<1>0. IsCall(wallet)
  BY DEF PageInv
<1>1. CASE wallet' = NoWallet
  <2>1. Same(wallet', NoWallet, {"at", "subject"}) /\ wallet'.at = "idle"
    BY <1>1, NoWalletIsCall DEF Same, NoWallet
  <2>2. TraceOf(wallet', standing')
    BY <2>1, NoTrace
  <2> QED
    BY <2>2 DEF TraceInv
<1>2. CASE AskWallet
  <2>1. TraceOf(wallet', standing')
    BY <1>2, Asked, NoTrace
  <2> QED
    BY <2>1 DEF TraceInv
<1>3. CASE wallet' = wallet /\ wallet' # NoWallet
  <2>1. CASE Idle
    <3>1. Len(wallet.chain) = 0
      BY <2>1 DEF Idle, ReadInv, Shape
    <3>2. TraceOf(wallet, standing')
      BY <3>1, NoHops DEF TraceInv
    <3> QED
      BY <1>3, <3>2 DEF TraceInv
  <2>2. CASE standing' \subseteq standing
    <3>1. wallet.at = "genesis" => wallet.genesis
      BY DEF TraceInv, TraceOf
    <3>2. TraceOf(wallet, standing')
      BY <2>2, <3>1, TraceKept DEF TraceInv
    <3> QED
      BY <1>3, <3>2 DEF TraceInv
  <2> QED
    BY <1>3, <2>1, <2>2, StandingShrinks
<1>4. CASE WalletRead
  <2>1. standing' \subseteq standing
    BY <1>4 DEF WalletRead, labelVars
  <2> PICK ok \in BOOLEAN :
        \/ BalanceRead(ok) \/ AccountsRead(ok) \/ PageRead(ok) \/ GenesisRead(ok)
        \/ HopPageRead(ok) \/ HopGenesisRead(ok) \/ ActivityRead(ok)
    BY <1>4 DEF WalletRead
  <2> QED
    BY <1>0, <2>1, FirstReadsTrace, PageReadTraces, TraceReadsTrace, HopPagesTrace, ActivityTrace
<1>5. CASE RefreshForWallet \/ LookUpDeny \/ WeighWallet
  <2>1. standing' \subseteq standing
    BY <1>5, RefreshLabels DEF RefreshForWallet, LookUpDeny, WeighWallet, labelVars
  <2>2. /\ Same(wallet', wallet, Fields \ TraceFields)
        /\ \/ wallet.at = "refresh" /\ wallet'.at = "balance"
           \/ wallet'.at \in {"weigh", "scored"}
    BY <1>0, <1>5, WalletTurns, FieldsAre DEF Same, TraceFields
  <2>3. \A f \in TraceFields : wallet'[f] = wallet[f]
    BY <2>2, FieldsAre DEF Same, TraceFields
  <2>4. TraceOf(wallet', standing')
    BY <2>1, <2>2, <2>3, TraceKept DEF TraceInv, BeforeTrace, AtHop
  <2> QED
    BY <2>4 DEF TraceInv
<1> QED
  BY <1>1, <1>2, <1>3, <1>4, <1>5, WalletCases

\* A history that is read to its beginning is read in whole.
LEMMA WholeHistory ==
  ASSUME PageInv, wallet.at # "idle", IsLast(wallet.subject, wallet.pages)
  PROVE  Totals(wallet).total = Len(History[wallet.subject])
<1> DEFINE n == Len(History[wallet.subject])
<1>1. n \in Nat /\ wallet.pages \in Nat /\ wallet.subject \in Wallets
  BY HistoryIsSequence, WalletAssumption DEF PageInv
<1>2. Seen(wallet.subject, wallet.pages) = 1 .. n
  BY <1>1 DEF Seen, IsLast, Least, PageSize
<1>3. Cardinality(1 .. n) = n
  BY <1>1, FS_Interval
<1>4. Totals(wallet).total = Cardinality(Seen(wallet.subject, wallet.pages))
  BY <1>1 DEF Totals, Aggregate, PageInv
<1> QED
  BY <1>2, <1>3, <1>4

\* Every hop of a trace that is reported did fund the one before, from the first
\* transaction of the wallet on, and the flags of the hops are those the labels gave
\* (TraceIsHonest).
THEOREM TraceHonest == Spec => []TraceIsHonest
<1>1. PageInv /\ TraceInv => TraceIsHonest
  <2> SUFFICES ASSUME PageInv, TraceInv, wallet.at = "scored",
                      wallet.source \in {"traced_clean", "labeled_bad"}
               PROVE  TraceIsHonest
    BY DEF TraceIsHonest
  <2> DEFINE n == Len(wallet.chain)
             hop(i) == IF i = 0 THEN wallet.subject ELSE wallet.chain[i].address
  <2>1. \A i : hop(i) = Hop(wallet, i)
    BY DEF Hop
  <2>2. n > 0 /\ wallet.genesis
    BY DEF TraceInv, TraceOf, Traced
  <2>3. Totals(wallet).total = Len(History[wallet.subject])
    BY <2>2, WholeHistory DEF TraceInv, TraceOf
  <2>4. \A i \in 1 .. n : Funded(hop(i), hop(i - 1))
    BY <2>1 DEF TraceInv, TraceOf
  <2>5. \A i \in 1 .. n : wallet.chain[i].labelled <=> (i = n /\ wallet.source = "labeled_bad")
    BY DEF TraceInv, TraceOf
  <2>6. wallet.source = "traced_clean" => \A i \in 1 .. n : ~Listed(standing, hop(i))
    BY <2>1 DEF TraceInv, TraceOf
  <2> HIDE DEF hop
  <2> QED
    BY <2>2, <2>3, <2>4, <2>5, <2>6 DEF TraceIsHonest, hop
<1>2. LabelInv /\ [Next]_vars => LabelInv'
  BY LabelStep
<1> QED
  BY InitLabels, InitPages, NextPages, NextReads, InitTrace, NextTrace, <1>1, <1>2, InitReads, PTL DEF Spec

-----------------------------------------------------------------------------
(* The sum of the weights of finitely many labels. *)

\* What a fold over sets says of one of the sets, and of all the sets of a family.
Pick(T) == CHOOSE l \in T : TRUE
SumOf(f, T) == IF T = {} THEN 0 ELSE Pick(T).weight + f[T \ {Pick(T)}]
IsSum(f, D) == f = [T \in D |-> SumOf(f, T)]

\* There is a function that adds the weights up: it is built size by size.
LEMMA SumExists ==
  ASSUME NEW S, IsFiniteSet(S)
  PROVE  \E f : IsSum(f, SUBSET S)
<1> DEFINE D(n) == {T \in SUBSET S : Cardinality(T) <= n}
           N == {n \in Nat : \E f : IsSum(f, D(n))}
<1>1. \A T \in SUBSET S : IsFiniteSet(T) /\ Cardinality(T) \in Nat
  BY FS_Subset, FS_CardinalityType
<1>2. 0 \in N
  <2> DEFINE f == [T \in D(0) |-> 0]
  <2>1. \A T \in D(0) : T = {}
    BY <1>1, FS_EmptySet
  <2>2. \A T \in D(0) : SumOf(f, T) = 0
    BY <2>1 DEF SumOf
  <2>3. IsSum(f, D(0))
    BY <2>2 DEF IsSum
  <2> QED
    BY <2>3
<1>3. ASSUME NEW n \in Nat, n \in N PROVE n + 1 \in N
  <2>1. PICK f : IsSum(f, D(n))
    BY <1>3
  <2> DEFINE g == [T \in D(n + 1) |-> SumOf(f, T)]
  <2>2. \A U \in D(n) : f[U] = SumOf(f, U)
    BY <2>1 DEF IsSum
  <2>3. \A U \in D(n) : U \in D(n + 1)
    BY <1>1
  <2>4. \A U \in D(n) : g[U] = f[U]
    BY <2>2, <2>3
  <2>5. ASSUME NEW T \in D(n + 1), T # {} PROVE T \ {Pick(T)} \in D(n)
    <3>1. Pick(T) \in T
      BY <2>5 DEF Pick
    <3>2. Cardinality(T \ {Pick(T)}) = Cardinality(T) - 1
      BY <1>1, <3>1, FS_RemoveElement
    <3> QED
      BY <1>1, <3>2
  <2>6. \A T \in D(n + 1) : SumOf(f, T) = SumOf(g, T)
    <3> HIDE DEF g, D
    <3> QED
      BY <2>4, <2>5 DEF SumOf
  <2>7. IsSum(g, D(n + 1))
    BY <2>6 DEF IsSum
  <2> HIDE DEF D, g
  <2> QED
    BY <2>7
<1> HIDE DEF N
<1>4. Cardinality(S) \in N
  BY <1>1, <1>2, <1>3, Induction
<1>5. D(Cardinality(S)) = SUBSET S
  BY <1>1, FS_Subset
<1> QED
  BY <1>4, <1>5 DEF N

LEMMA SumIsInt ==
  ASSUME NEW S, IsFiniteSet(S), \A l \in S : l.weight \in Int, NEW f, IsSum(f, SUBSET S)
  PROVE  \A T \in SUBSET S : f[T] \in Int
<1> DEFINE N == {n \in Nat : \A T \in SUBSET S : Cardinality(T) = n => f[T] \in Int}
<1>1. \A T \in SUBSET S : IsFiniteSet(T) /\ Cardinality(T) \in Nat /\ f[T] = SumOf(f, T)
  BY FS_Subset, FS_CardinalityType DEF IsSum
<1>2. 0 \in N
  <2>1. \A T \in SUBSET S : Cardinality(T) = 0 => T = {}
    BY <1>1, FS_EmptySet
  <2>2. f[{}] = 0
    BY <1>1 DEF SumOf
  <2>3. \A T \in SUBSET S : Cardinality(T) = 0 => f[T] \in Int
    <3> SUFFICES ASSUME NEW T \in SUBSET S, Cardinality(T) = 0 PROVE f[T] \in Int
      OBVIOUS
    <3>1. T = {}
      BY <2>1
    <3>2. f[T] = 0
      BY <2>2, <3>1, Zenon
    <3> QED
      BY <3>2
  <2> QED
    BY <2>3
<1>3. ASSUME NEW n \in Nat, n \in N PROVE n + 1 \in N
  <2> SUFFICES ASSUME NEW T \in SUBSET S, Cardinality(T) = n + 1 PROVE f[T] \in Int
    OBVIOUS
  <2>1. T # {}
    <3>1. Cardinality(T) # 0
      OBVIOUS
    <3> QED
      BY <1>1, <3>1, FS_EmptySet
  <2>2. Pick(T) \in T
    BY <2>1 DEF Pick
  <2>3. Cardinality(T \ {Pick(T)}) = Cardinality(T) - 1
    BY <1>1, <2>2, FS_RemoveElement
  <2>4. T \ {Pick(T)} \in SUBSET S /\ Cardinality(T \ {Pick(T)}) = n
    BY <2>3
  <2>5. f[T \ {Pick(T)}] \in Int
    BY <1>3, <2>4
  <2>6. Pick(T).weight \in Int
    BY <2>2
  <2> QED
    BY <1>1, <2>1, <2>5, <2>6 DEF SumOf
<1> HIDE DEF N
<1>4. Nat \subseteq N
  BY <1>2, <1>3, Induction
<1> QED
  BY <1>1, <1>4 DEF N

\* What Weight adds up with.
LEMMA WeightIsSum ==
  ASSUME NEW S, IsFiniteSet(S)
  PROVE  \E f : IsSum(f, SUBSET S) /\ Weight(S) = f[S]
<1> DEFINE sum == CHOOSE f : IsSum(f, SUBSET S)
<1>1. Weight(S) = sum[S]
  BY DEF Weight, MapThenSumSet, MapThenFoldSet, IsSum, SumOf, Pick
<1>2. IsSum(sum, SUBSET S)
  BY SumExists
<1> HIDE DEF sum
<1> QED
  BY <1>1, <1>2

\* Finitely many labels weigh a number.
LEMMA WeightIsInt ==
  ASSUME NEW S \in SUBSET Labels, IsFiniteSet(S)
  PROVE  Weight(S) \in Int
<1>1. PICK f : IsSum(f, SUBSET S) /\ Weight(S) = f[S]
  BY WeightIsSum
<1>2. \A l \in S : l.weight \in Int
  BY DEF Labels
<1> QED
  BY <1>1, <1>2, SumIsInt

\* A sum does not depend on the order in which its labels are picked.
LEMMA SumIsOrderless ==
  ASSUME NEW S, IsFiniteSet(S), \A l \in S : l.weight \in Int, NEW f, IsSum(f, SUBSET S)
  PROVE  \A T \in SUBSET S : \A y \in T : f[T] = y.weight + f[T \ {y}]
<1> DEFINE N == {n \in Nat : \A T \in SUBSET S : Cardinality(T) = n =>
                               \A y \in T : f[T] = y.weight + f[T \ {y}]}
<1>1. \A T \in SUBSET S : /\ IsFiniteSet(T) /\ Cardinality(T) \in Nat
                          /\ f[T] = SumOf(f, T) /\ f[T] \in Int
  BY FS_Subset, FS_CardinalityType, SumIsInt DEF IsSum
<1>2. 0 \in N
  <2> SUFFICES ASSUME NEW T \in SUBSET S, Cardinality(T) = 0, NEW y \in T PROVE FALSE
    OBVIOUS
  <2> QED
    BY <1>1, FS_EmptySet
<1>3. ASSUME NEW n \in Nat, n \in N PROVE n + 1 \in N
  <2> SUFFICES ASSUME NEW T \in SUBSET S, Cardinality(T) = n + 1, NEW y \in T
               PROVE  f[T] = y.weight + f[T \ {y}]
    OBVIOUS
  <2> DEFINE x == Pick(T)
             rest == (T \ {x}) \ {y}
  <2>1. x \in T /\ f[T] = x.weight + f[T \ {x}]
    BY <1>1 DEF SumOf, Pick
  <2> HIDE DEF x
  <2>2. CASE y = x
    BY <2>1, <2>2
  <2>3. CASE y # x
    <3>1. ASSUME NEW z \in T, NEW v \in T \ {z}
          PROVE  f[T \ {z}] = v.weight + f[(T \ {z}) \ {v}]
      <4>1. Cardinality(T \ {z}) = Cardinality(T) - 1
        BY <1>1, <3>1, FS_RemoveElement
      <4>2. Cardinality(T \ {z}) = n
        BY <4>1
      <4>3. T \ {z} \in SUBSET S
        OBVIOUS
      <4> QED
        BY <1>3, <3>1, <4>2, <4>3
    <3>2. (T \ {y}) \ {x} = rest
      OBVIOUS
    <3>3. f[T \ {x}] = y.weight + f[rest]
      BY <2>1, <2>3, <3>1
    <3>4. f[T \ {y}] = x.weight + f[rest]
      BY <2>1, <2>3, <3>1, <3>2
    <3>5. f[rest] \in Int /\ x.weight \in Int /\ y.weight \in Int
      BY <1>1, <2>1
    <3> HIDE DEF rest
    <3> QED
      BY <2>1, <3>3, <3>4, <3>5
  <2> QED
    BY <2>2, <2>3
<1> HIDE DEF N
<1>4. Nat \subseteq N
  BY <1>2, <1>3, Induction
<1> QED
  BY <1>1, <1>4 DEF N

\* Two ways to add up agree on the sets they share.
LEMMA SumsAgree ==
  ASSUME NEW S, IsFiniteSet(S), NEW R \in SUBSET S,
         NEW f, IsSum(f, SUBSET S), NEW g, IsSum(g, SUBSET R)
  PROVE  f[R] = g[R]
<1> DEFINE N == {n \in Nat : \A T \in SUBSET R : Cardinality(T) = n => f[T] = g[T]}
<1>1. \A T \in SUBSET R : /\ IsFiniteSet(T) /\ Cardinality(T) \in Nat
                          /\ f[T] = SumOf(f, T) /\ g[T] = SumOf(g, T)
  BY FS_Subset, FS_CardinalityType DEF IsSum
<1>2. 0 \in N
  <2> SUFFICES ASSUME NEW T \in SUBSET R, Cardinality(T) = 0 PROVE f[T] = g[T]
    OBVIOUS
  <2>1. T = {}
    BY <1>1, FS_EmptySet
  <2> QED
    BY <1>1, <2>1 DEF SumOf
<1>3. ASSUME NEW n \in Nat, n \in N PROVE n + 1 \in N
  <2> SUFFICES ASSUME NEW T \in SUBSET R, Cardinality(T) = n + 1 PROVE f[T] = g[T]
    OBVIOUS
  <2> DEFINE rest == T \ {Pick(T)}
  <2>1. T # {}
    <3>1. Cardinality(T) # 0
      OBVIOUS
    <3> QED
      BY <1>1, <3>1, FS_EmptySet
  <2>2. Pick(T) \in T
    BY <2>1 DEF Pick
  <2>3. Cardinality(rest) = n /\ rest \in SUBSET R
    BY <1>1, <2>2, FS_RemoveElement
  <2>4. f[rest] = g[rest]
    BY <1>3, <2>3
  <2> QED
    BY <1>1, <2>4 DEF SumOf
<1> HIDE DEF N
<1>4. Nat \subseteq N
  BY <1>2, <1>3, Induction
<1> QED
  BY <1>1, <1>4 DEF N

\* One label more adds its weight.
LEMMA WeightAdds ==
  ASSUME NEW S \in SUBSET Labels, IsFiniteSet(S), NEW y \in Labels, y \notin S
  PROVE  Weight(S \cup {y}) = Weight(S) + y.weight
<1> DEFINE T == S \cup {y}
<1>1. IsFiniteSet(T) /\ \A l \in T : l.weight \in Int
  BY FS_AddElement DEF Labels
<1>2. PICK f : IsSum(f, SUBSET T) /\ Weight(T) = f[T]
  BY <1>1, WeightIsSum
<1>3. PICK g : IsSum(g, SUBSET S) /\ Weight(S) = g[S]
  BY WeightIsSum
<1>4. T \ {y} = S /\ y \in T /\ S \in SUBSET T
  OBVIOUS
<1>5. Weight(S) \in Int /\ y.weight \in Int
  BY WeightIsInt DEF Labels
<1> SUFFICES Weight(T) = Weight(S) + y.weight
  OBVIOUS
<1> HIDE DEF T
<1>6. f[T] = y.weight + f[S]
  BY <1>1, <1>2, <1>4, SumIsOrderless
<1>7. f[S] = g[S]
  BY <1>1, <1>2, <1>3, <1>4, SumsAgree
<1> QED
  BY <1>2, <1>3, <1>5, <1>6, <1>7

-----------------------------------------------------------------------------
(* What a deny label does to a score. *)

Denials == {l \in Labels : l.weight > 0}

\* More deny labels weigh more.
LEMMA WeightGrows ==
  ASSUME NEW more \in SUBSET Denials, IsFiniteSet(more), NEW denied \in SUBSET more
  PROVE  Weight(denied) <= Weight(more)
<1> DEFINE U == more \ denied
           F == {T \in SUBSET U : Weight(denied) <= Weight(denied \cup T)}
<1>1. \A T \in SUBSET U : /\ denied \cup T \in SUBSET Labels /\ IsFiniteSet(denied \cup T)
                          /\ Weight(denied \cup T) \in Int
  <2> SUFFICES ASSUME NEW T \in SUBSET U
               PROVE  /\ denied \cup T \in SUBSET Labels /\ IsFiniteSet(denied \cup T)
                      /\ Weight(denied \cup T) \in Int
    OBVIOUS
  <2>1. denied \cup T \in SUBSET Labels
    BY DEF Denials
  <2>2. IsFiniteSet(denied \cup T)
    <3>1. denied \cup T \in SUBSET more
      OBVIOUS
    <3> QED
      BY <3>1, FS_Subset
  <2> QED
    BY <2>1, <2>2, WeightIsInt
<1>2. {} \in F
  <2>1. denied \cup {} = denied
    OBVIOUS
  <2>2. Weight(denied) \in Int
    BY <1>1, <2>1
  <2> QED
    BY <2>1, <2>2
<1>3. ASSUME NEW T \in SUBSET U, NEW y \in U \ T, T \in F PROVE T \cup {y} \in F
  <2> DEFINE S == denied \cup T
  <2>1. S \in SUBSET Labels /\ IsFiniteSet(S) /\ Weight(S) \in Int /\ Weight(denied) \in Int
    <3>1. denied \cup {} = denied
      OBVIOUS
    <3> QED
      BY <1>1, <3>1
  <2>2. y \in Labels /\ y \notin S /\ y.weight \in Int /\ y.weight > 0
    BY DEF Denials, Labels
  <2>3. Weight(S \cup {y}) = Weight(S) + y.weight
    BY <2>1, <2>2, WeightAdds
  <2>4. denied \cup (T \cup {y}) = S \cup {y}
    OBVIOUS
  <2>5. Weight(denied) <= Weight(S)
    BY <1>3
  <2> HIDE DEF S
  <2>6. Weight(denied) <= Weight(S \cup {y})
    BY <2>1, <2>2, <2>3, <2>5
  <2> QED
    BY <2>4, <2>6
<1>4. IsFiniteSet(U)
  BY FS_Subset
<1> HIDE DEF F
<1>5. U \in F
  BY <1>2, <1>3, <1>4, SetInduction
<1>6. denied \cup U = more
  OBVIOUS
<1> QED
  BY <1>5, <1>6 DEF F

-----------------------------------------------------------------------------
(* Types. *)

LEMMA ClampIs == \A n \in Int : Clamp(n) \in 0 .. 100
  BY DEF Clamp

\* A score is a number of points, whatever the signals are, and the weight of the labels.
LEMMA ScoreIsPoints ==
  ASSUME NEW s, NEW allowed \in SUBSET Labels, IsFiniteSet(allowed)
  PROVE  \E points \in Int : \A denied \in SUBSET Labels :
           IsFiniteSet(denied) => WalletScore(s, denied, allowed) = Clamp(points + Weight(denied))
<1>1. Weight(allowed) \in Int
  BY WeightIsInt
<1>2. AgeBonus(s.age) \in Int
  <2>1. PICK n \in Int : DOMAIN AgeBounds = 1 .. n
    BY DEF AgeBounds
  <2>2. IsFiniteSet(1 .. n)
    BY FS_Interval
  <2> DEFINE reached == {k \in DOMAIN AgeBounds : s.age >= AgeBounds[k]}
  <2>3. IsFiniteSet(DOMAIN AgeBounds) /\ reached \in SUBSET DOMAIN AgeBounds
    BY <2>1, <2>2
  <2>4. IsFiniteSet(reached)
    BY <2>3, FS_Subset
  <2>5. Cardinality(reached) \in Nat
    BY <2>4, FS_CardinalityType
  <2> QED
    BY <2>5 DEF AgeBonus
<1> DEFINE a == Points(s.fresh, 25)
           b == Points(s.age > 30 /\ s.tx30 < 3, 10)
           c == Points(s.tx30 > 50 /\ s.lamports < 10000000, 15)
           d == Points(s.chain # <<>> /\ s.chain[1].labelled, 40)
           e == ChainPoints(s.chain)
           f == Points(s.source \in {"partial_history", "genesis_untraceable"}, 5)
           g == Points(s.flagged # {}, 30)
           h == Points(~s.estimated /\ s.tx30 >= 10 /\ s.parties >= 5, 10)
           points == a + b + c + d + e + f + g - AgeBonus(s.age) - h + Weight(allowed)
<1>3. a \in Int /\ b \in Int /\ c \in Int /\ d \in Int
  BY DEF Points
<1>4. e \in Int /\ f \in Int /\ g \in Int /\ h \in Int
  BY DEF Points, ChainPoints
<1>5. \A denied : WalletScore(s, denied, allowed) =
        Clamp(a + b + c + d + e + f + g + Weight(denied) - AgeBonus(s.age) - h + Weight(allowed))
  BY DEF WalletScore
<1> HIDE DEF a, b, c, d, e, f, g, h
<1>6. points \in Int
  BY <1>1, <1>2, <1>3, <1>4
<1>7. ASSUME NEW denied \in SUBSET Labels, IsFiniteSet(denied)
      PROVE  WalletScore(s, denied, allowed) = Clamp(points + Weight(denied))
  <2>1. Weight(denied) \in Int
    BY <1>7, WeightIsInt
  <2>2. a + b + c + d + e + f + g + Weight(denied) - AgeBonus(s.age) - h + Weight(allowed)
          = points + Weight(denied)
    BY <1>1, <1>2, <1>3, <1>4, <2>1
  <2> QED
    BY <1>5, <2>2
<1> HIDE DEF points
<1> QED
  BY <1>6, <1>7

LEMMA WalletVerdictTyped ==
  ASSUME NEW s, NEW denied \in SUBSET Labels, NEW allowed \in SUBSET Labels,
         IsFiniteSet(denied), IsFiniteSet(allowed)
  PROVE  ScoreWallet(s, denied, allowed) \in Verdicts
<1>3. WalletScore(s, denied, allowed) \in 0 .. 100
  <2>1. PICK points \in Int : WalletScore(s, denied, allowed) = Clamp(points + Weight(denied))
    BY ScoreIsPoints
  <2>2. points + Weight(denied) \in Int
    BY WeightIsInt
  <2> QED
    BY <2>1, <2>2, ClampIs
<1>4. WalletQuality(s) \in {"low", "medium", "high"}
  BY DEF WalletQuality
<1>5. WalletConfidence(s) \in 0 .. 95
  <2> DEFINE a == IF WalletQuality(s) = "high" THEN 65
                  ELSE IF WalletQuality(s) = "medium" THEN 55 ELSE 45
             b == IF s.total >= 50 THEN 20 ELSE Points(s.total >= 10, 10)
             c == IF s.age >= 90 THEN 15 ELSE Points(s.age >= 7, 5)
             d == Points(s.active48, 5)
             e == Points(s.accounts >= 3, 5)
  <2>1. a \in Nat /\ b \in Nat /\ c \in Nat /\ d \in Nat /\ e \in Nat
    BY DEF Points
  <2>2. WalletConfidence(s) = IF a + b + c + d + e > 95 THEN 95 ELSE a + b + c + d + e
    BY DEF WalletConfidence
  <2> HIDE DEF a, b, c, d, e
  <2> QED
    BY <2>1, <2>2
<1> DEFINE r == RecommendationFrom(Band(WalletScore(s, denied, allowed)), denied # {}, WalletQuality(s))
<1>6. r \in {"ALLOW", "REVIEW", "BLOCK"}
  BY DEF RecommendationFrom
<1>7. ScoreWallet(s, denied, allowed) =
        [score |-> WalletScore(s, denied, allowed), quality |-> WalletQuality(s),
         confidence |-> WalletConfidence(s), recommendation |-> r]
  BY DEF ScoreWallet
<1> HIDE DEF r
<1> QED
  BY <1>3, <1>4, <1>5, <1>6, <1>7 DEF Verdicts

LEMMA TokenVerdictTyped == ASSUME NEW s PROVE ScoreToken(s) \in Verdicts
<1> DEFINE r == RecommendationFrom(Band(TokenScore(s)), FALSE, TokenQuality(s))
<1>1. TokenScore(s) \in 0 .. 100
  <2> DEFINE a == Points(~s.revoked, 35)
             b == Points(s.freezable, 20)
             c == Points(Over(s, 80), 30)
             d == Points(s.age < 7 /\ Over(s, 50), 15)
  <2>1. a \in Int /\ b \in Int /\ c \in Int /\ d \in Int
    BY DEF Points
  <2>2. TokenScore(s) = Clamp(a + b + c + d)
    BY DEF TokenScore
  <2> HIDE DEF a, b, c, d
  <2> QED
    BY <2>1, <2>2, ClampIs
<1>2. TokenQuality(s) \in {"low", "medium"}
  BY DEF TokenQuality
<1>3. TokenConfidence(s) \in 0 .. 95
  <2> DEFINE a == IF s.lowConfidence THEN 45 ELSE 70
             b == Points(s.supply > 0, 10)
             c == Points(s.age > 30, 5)
  <2>1. a \in {45, 70} /\ b \in {0, 10} /\ c \in {0, 5} /\ TokenConfidence(s) = a + b + c
    BY DEF Points, TokenConfidence
  <2> HIDE DEF a, b, c
  <2> QED
    BY <2>1
<1>4. r \in {"ALLOW", "REVIEW", "BLOCK"}
  BY DEF RecommendationFrom
<1>5. ScoreToken(s) = [score |-> TokenScore(s), quality |-> TokenQuality(s),
                       confidence |-> TokenConfidence(s), recommendation |-> r]
  BY DEF ScoreToken
<1> HIDE DEF r
<1> QED
  BY <1>1, <1>2, <1>3, <1>4, <1>5 DEF Verdicts

LEMMA TxVerdictTyped ==
  ASSUME NEW s, s.denied \in Nat, s.handoffs \in Nat
  PROVE  ScoreTx(s) \in Verdicts
<1>1. TxScore(s) \in 0 .. 100
  <2> DEFINE a == 60 * s.denied + 60 * s.handoffs
             b == Points(s.delegations > 0, 30)
             c == Points(s.closes > 0, 20)
             d == Points(s.lookups, 15)
             e == Points(s.unknown # {}, 15)
             f == Points(s.fails, 10)
             g == Points(SolOutflow(s), 25)
             h == Points(TokenOutflow(s), 25)
  <2>1. a \in Int
    OBVIOUS
  <2>2. b \in Int /\ c \in Int /\ d \in Int /\ e \in Int /\ f \in Int /\ g \in Int /\ h \in Int
    BY DEF Points
  <2>3. TxScore(s) = Clamp(a + b + c + d + e + f + g + h)
    BY DEF TxScore
  <2> HIDE DEF a, b, c, d, e, f, g, h
  <2>4. a + b + c + d + e + f + g + h \in Int
    BY <2>1, <2>2
  <2> QED
    BY <2>3, <2>4, ClampIs
<1>2. TxQuality(s) \in {"low", "medium", "high"}
  BY DEF TxQuality
<1>3. TxConfidence(s) \in {40, 60, 85}
  BY <1>2 DEF TxConfidence
<1>4. TxVerdict(s) \in {"SIGN", "REVIEW", "BLOCK"}
  BY DEF TxVerdict
<1> QED
  BY <1>1, <1>2, <1>3, <1>4 DEF ScoreTx, Verdicts

\* The reads.
LEMMA NextRpcType == RpcTypeOK /\ [Next]_vars => RpcTypeOK'
<1> SUFFICES ASSUME RpcTypeOK, [Next]_vars PROVE RpcTypeOK'
  OBVIOUS
<1>1. NoRead \in {NoRead} /\ FirstAttempt \in [attempt : Nat \ {0}, spent : Nat]
  BY DEF FirstAttempt
<1>2. CASE Retry
  <2>1. PICK took \in 0 .. MaxOp :
          \E sleep \in Waits(took) :
            rpc' = [attempt |-> rpc.attempt + 1, spent |-> rpc.spent + took + sleep]
    BY <1>2 DEF Retry
  <2>2. PICK sleep \in Waits(took) :
          rpc' = [attempt |-> rpc.attempt + 1, spent |-> rpc.spent + took + sleep]
    BY <2>1
  <2>3. rpc.attempt \in Nat /\ rpc.spent \in Nat
    BY DEF RpcTypeOK, NoRead
  <2>4. sleep \in Nat /\ took \in Nat
    BY PolicyAssumption DEF Waits
  <2> QED
    BY <2>2, <2>3, <2>4 DEF RpcTypeOK
<1>3. CASE ~Retry
  BY <1>1, <1>3, ReadsStartAfresh DEF RpcTypeOK
<1> QED
  BY <1>2, <1>3

\* The labels.
LEMMA SplitIs ==
  ASSUME LabelInv
  PROVE  /\ labels.deny \subseteq Labels /\ labels.allow \subseteq Labels
         /\ IsFiniteSet(labels.deny) /\ IsFiniteSet(labels.allow)
<1>1. PICK t \in LabelTables \cup {StaticLabels} : labels = Split(t)
  BY DEF LabelInv, LabelsAreOneTable
<1>2. IsFiniteSet(t) /\ t \subseteq Labels
  BY LabelsAssumption
<1>3. labels.deny \subseteq t /\ labels.allow \subseteq t
  BY <1>1 DEF Split
<1> QED
  BY <1>2, <1>3, FS_Subset

Fetches == {"never", "fresh", "stale"}

LEMMA NextFetched == fetched \in Fetches /\ [Next]_vars => fetched' \in Fetches
<1> SUFFICES ASSUME fetched \in Fetches, [Next]_vars PROVE fetched' \in Fetches
  OBVIOUS
<1>1. Refresh => fetched' \in Fetches
  BY DEF Refresh, Fetches
<1>2. CASE Ask
  BY <1>2 DEF Ask, AskWallet, AskTx, labelVars
<1>3. CASE Step
  BY <1>1, <1>3 DEF Step, WalletStep, RefreshForWallet, WalletRead, LookUpDeny, WeighWallet, AnswerWallet,
     TxStep, TokenAccountsRead, PreBalanceRead, SimulateAnswers, SimulateFails, AnswerTx, labelVars
<1>4. CASE Environment
  BY <1>1, <1>4 DEF Environment, EditLabels, LabelsAge, RefreshByOther, BalanceMoves, Fetches, labelVars
<1>5. CASE Restart \/ UNCHANGED vars
  BY <1>5 DEF Restart, ForgetLabels, vars, labelVars, Fetches
<1> QED
  BY <1>2, <1>3, <1>4, <1>5 DEF Next

\* The tx-risk call.
TxTyped(x) ==
  /\ x.at \in {"idle", "accounts", "balance", "simulate", "screened"}
  /\ x.tx \in Txs \cup {"none"}
  /\ x.hits \in Nat /\ x.accounts \in BOOLEAN /\ x.balance \in BOOLEAN
  /\ x.moved \subseteq Nat /\ x.slots \in Nat /\ x.unparsed \subseteq Nat
  /\ x.fails \in BOOLEAN /\ x.sol \subseteq Int /\ x.tokens \subseteq Int
  /\ x.verdict \in Verdicts \cup {NoVerdict}

LEMMA NoTxTyped == TxTyped(NoTx)
  BY DEF TxTyped, NoTx

\* Changes of balance are numbers.
LEMMA ChangesTyped ==
  ASSUME NEW x, x.tx \in Txs
  PROVE  SolChanges(x) \subseteq Int /\ TokenChanges(x) \subseteq Int
<1>1. Effect[x.tx].sol \in Int /\ Taken \in Nat
  BY TxAssumption
<1>2. \A i \in Touched(x.tx) :
        Effect[x.tx].touched[i].pre \in Nat /\ Effect[x.tx].touched[i].post \in Nat
  <2> DEFINE touched == Effect[x.tx].touched
  <2>1. touched \in Seq([pre : Nat, post : Nat])
    BY TxAssumption
  <2> HIDE DEF touched
  <2>2. ASSUME NEW S, NEW t \in Seq(S), NEW i \in DOMAIN t PROVE t[i] \in S
    OBVIOUS
  <2>3. \A i \in DOMAIN touched : touched[i] \in [pre : Nat, post : Nat]
    BY <2>1, <2>2
  <2> QED
    BY <2>3 DEF Touched, touched
<1>3. \A i : \A amount \in Nat : Left(x, i, amount) \in Int
  BY <1>1 DEF Left
<1>4. SolChanges(x) \subseteq Int
  BY <1>1 DEF SolChanges
<1>5. TokenChanges(x) \subseteq Int
  <2> SUFFICES ASSUME NEW n \in TokenChanges(x) PROVE n \in Int
    OBVIOUS
  <2>1. PICK i \in Touched(x.tx) :
          n = (IF i \in x.unparsed THEN 0 ELSE Left(x, i, Effect[x.tx].touched[i].post))
                - Effect[x.tx].touched[i].pre
    BY DEF TokenChanges
  <2>2. Effect[x.tx].touched[i].pre \in Int /\ Left(x, i, Effect[x.tx].touched[i].post) \in Int
    BY <1>2, <1>3
  <2> DEFINE after == IF i \in x.unparsed THEN 0 ELSE Left(x, i, Effect[x.tx].touched[i].post)
  <2>3. after \in Int
    BY <2>2
  <2> HIDE DEF after
  <2>4. after - Effect[x.tx].touched[i].pre \in Int
    BY <2>2, <2>3
  <2> QED
    BY <2>1, <2>4 DEF after
<1> QED
  BY <1>4, <1>5

\* Whatever is screened has a verdict.
LEMMA ScreenTyped ==
  ASSUME NEW x, IsTx(x), Screen(x), x.tx \in Txs, TxTyped([x EXCEPT !.at = "screened"])
  PROVE  TxTyped(tx')
<1> DEFINE y == [x EXCEPT !.at = "screened"]
<1>1. TxSame(tx', x, {"at", "verdict"}) /\ tx'.at = "screened" /\ tx'.verdict = ScoreOf(tx')
  BY Screens
<1>2. TxSame(y, x, {"at"})
  BY TxFieldsAre DEF TxSame, IsTx
<1>3. TxTyped(y)
  OBVIOUS
<1> HIDE DEF y
<1>4. /\ tx'.tx = y.tx /\ tx'.hits = y.hits /\ tx'.accounts = y.accounts /\ tx'.balance = y.balance
      /\ tx'.moved = y.moved /\ tx'.slots = y.slots /\ tx'.unparsed = y.unparsed
      /\ tx'.fails = y.fails /\ tx'.sol = y.sol /\ tx'.tokens = y.tokens /\ tx'.tx = x.tx
  BY <1>1, <1>2, TxFieldsAre DEF TxSame
<1>5. ScoreOf(tx') \in Verdicts
  <2>1. TxSignals(tx').denied = tx'.hits /\ \E k : TxSignals(tx').handoffs = Told(tx'.tx, k)
    BY SignalsOfBoth, Zenon
  <2>2. tx'.hits \in Nat /\ tx'.tx \in Txs
    BY <1>3, <1>4 DEF TxTyped
  <2>3. TxSignals(tx').denied \in Nat /\ TxSignals(tx').handoffs \in Nat
    BY <2>1, <2>2, ToldIsNat
  <2> QED
    BY <2>3, TxVerdictTyped DEF ScoreOf
<1> QED
  BY <1>1, <1>3, <1>4, <1>5 DEF TxTyped

LEMMA NextTxType == LabelInv /\ TxInv /\ TxTyped(tx) /\ [Next]_vars => TxTyped(tx)'
<1> SUFFICES ASSUME LabelInv, TxInv, TxTyped(tx), [Next]_vars PROVE TxTyped(tx')
  BY DEF TxTyped
<1>0. IsTx(tx)
  BY DEF TxInv
<1>1. CASE tx' = tx
  BY <1>1
<1>2. CASE tx' = NoTx
  BY <1>2, NoTxTyped
<1>3. CASE AskTx
  <2>1. PICK t \in Txs :
          \E x : x = [NoTx EXCEPT !.at = "accounts", !.tx = t, !.hits = DenyHits(t)]
                /\ (tx' = x \/ Screen(x))
    BY <1>3 DEF AskTx
  <2> DEFINE x == [NoTx EXCEPT !.at = "accounts", !.tx = t, !.hits = DenyHits(t)]
             y == [x EXCEPT !.at = "screened"]
  <2>2. DenyHits(t) \in Nat
    BY HitsCount
  <2>3. IsTx(x) /\ TxTyped(x) /\ TxTyped(y) /\ x.tx = t
    BY <2>2 DEF TxTyped, NoTx, IsTx, TxFields
  <2>4. tx' = x \/ Screen(x)
    BY <2>1
  <2> HIDE DEF x
  <2> QED
    BY <2>3, <2>4, ScreenTyped
<1>4. CASE TokenAccountsRead \/ PreBalanceRead
  <2>1. PICK ok \in BOOLEAN :
          \/ tx' = [tx EXCEPT !.at = "balance", !.accounts = ok]
          \/ tx' = [tx EXCEPT !.at = "simulate", !.balance = ok]
    BY <1>4 DEF TokenAccountsRead, PreBalanceRead
  <2>2. CASE tx' = [tx EXCEPT !.at = "balance", !.accounts = ok]
    <3>1. TxSame(tx', tx, {"at", "accounts"}) /\ tx'.at = "balance" /\ tx'.accounts = ok
      BY <1>0, <2>2, TxFieldsAre DEF TxSame, IsTx
    <3> QED
      BY <3>1, TxFieldsAre DEF TxSame, TxTyped
  <2>3. CASE tx' = [tx EXCEPT !.at = "simulate", !.balance = ok]
    <3>1. TxSame(tx', tx, {"at", "balance"}) /\ tx'.at = "simulate" /\ tx'.balance = ok
      BY <1>0, <2>3, TxFieldsAre DEF TxSame, IsTx
    <3> QED
      BY <3>1, TxFieldsAre DEF TxSame, TxTyped
  <2> QED
    BY <2>1, <2>2, <2>3
<1>5. CASE BalanceMoves
  <2>1. PICK i \in (IF tx.balance THEN {0} ELSE {}) \cup (IF tx.accounts THEN Touched(tx.tx) ELSE {}) :
          tx' = [tx EXCEPT !.moved = @ \cup {i}]
    BY <1>5 DEF BalanceMoves
  <2>2. tx.tx \in Txs
    BY <1>5 DEF BalanceMoves, TxInv
  <2>3. Touched(tx.tx) \subseteq Nat
    <3>1. Effect[tx.tx].touched \in Seq([pre : Nat, post : Nat])
      BY <2>2, TxAssumption
    <3> QED
      BY <3>1 DEF Touched
  <2>4. TxSame(tx', tx, {"moved"}) /\ tx'.moved = tx.moved \cup {i}
    BY <1>0, <2>1, TxFieldsAre DEF TxSame, IsTx
  <2>5. i \in Nat
    BY <2>3
  <2> QED
    BY <2>4, <2>5, TxFieldsAre DEF TxSame, TxTyped
<1>6. CASE SimulateFails
  <2>1. tx.at = "simulate" /\ Screen(tx) /\ tx.tx \in Txs
    BY <1>6 DEF SimulateFails, TxInv
  <2> DEFINE y == [tx EXCEPT !.at = "screened"]
  <2>2. TxSame(y, tx, {"at"}) /\ y.at = "screened"
    BY <1>0, TxFieldsAre DEF TxSame, IsTx
  <2> HIDE DEF y
  <2>3. TxTyped(y)
    BY <2>2, TxFieldsAre DEF TxSame, TxTyped
  <2> QED
    BY <1>0, <2>1, <2>3, ScreenTyped DEF y
<1>7. CASE SimulateAnswers
  <2> DEFINE asked == 1 + (IF tx.accounts THEN Len(Effect[tx.tx].touched) ELSE 0)
  <2>0. tx.at = "simulate" /\ tx.tx \in Txs
    BY <1>7 DEF SimulateAnswers, TxInv
  <2>1. PICK slots \in 0 .. asked : \E unparsed \in SUBSET (0 .. slots - 1) :
          LET x == [tx EXCEPT !.slots = slots, !.unparsed = unparsed]
          IN Screen([x EXCEPT !.fails = Effect[tx.tx].fails,
                              !.sol = SolChanges(x), !.tokens = TokenChanges(x)])
    BY <1>7 DEF SimulateAnswers
  <2>2. PICK unparsed \in SUBSET (0 .. slots - 1) :
          LET x == [tx EXCEPT !.slots = slots, !.unparsed = unparsed]
          IN Screen([x EXCEPT !.fails = Effect[tx.tx].fails,
                              !.sol = SolChanges(x), !.tokens = TokenChanges(x)])
    BY <2>1
  <2>3. slots \in Nat /\ unparsed \subseteq Nat
    <3>1. asked \in Int
      BY <2>0, TxAssumption
    <3> HIDE DEF asked
    <3> QED
      BY <3>1
  <2> DEFINE x == [tx EXCEPT !.slots = slots, !.unparsed = unparsed]
             sol == SolChanges(x)
             tokens == TokenChanges(x)
             y == [x EXCEPT !.fails = Effect[tx.tx].fails, !.sol = sol, !.tokens = tokens]
             z == [y EXCEPT !.at = "screened"]
  <2>4. Screen(y)
    BY <2>2
  <2>5. TxSame(x, tx, {"slots", "unparsed"}) /\ x.slots = slots /\ x.unparsed = unparsed
    BY <1>0, TxFieldsAre DEF TxSame, IsTx
  <2> HIDE DEF x
  <2>6. x.tx = tx.tx /\ sol \subseteq Int /\ tokens \subseteq Int
    BY <2>0, <2>5, ChangesTyped, TxFieldsAre DEF TxSame
  <2>7. Effect[tx.tx].fails \in BOOLEAN
    BY <2>0, TxAssumption
  <2> HIDE DEF sol, tokens
  <2>8. /\ TxSame(y, x, {"fails", "sol", "tokens"})
        /\ y.fails = Effect[tx.tx].fails /\ y.sol = sol /\ y.tokens = tokens
    BY <2>5, TxFieldsAre DEF TxSame, IsTx
  <2> HIDE DEF y
  <2>9. TxSame(z, y, {"at"}) /\ z.at = "screened"
    BY <2>8, TxFieldsAre DEF TxSame, IsTx
  <2> HIDE DEF z
  <2>10. /\ z.tx = tx.tx /\ z.hits = tx.hits /\ z.accounts = tx.accounts /\ z.balance = tx.balance
         /\ z.moved = tx.moved /\ z.slots = slots /\ z.unparsed = unparsed /\ z.verdict = tx.verdict
         /\ z.fails = y.fails /\ z.sol = sol /\ z.tokens = tokens /\ y.tx = tx.tx
    BY <2>5, <2>8, <2>9, TxFieldsAre DEF TxSame
  <2>11. TxTyped(z)
    BY <2>3, <2>6, <2>7, <2>8, <2>9, <2>10 DEF TxTyped
  <2> QED
    BY <2>0, <2>4, <2>8, <2>10, <2>11, ScreenTyped DEF z, TxSame
<1> QED
  BY <1>1, <1>2, <1>3, <1>4, <1>5, <1>6, <1>7, TxCases

\* The token-risk call.
TokenTyped(t) ==
  /\ t.at \in {"idle", "scored"} \cup TokenReads
  /\ t.mint \in Mints \cup {"none"}
  /\ t.got \subseteq TokenReads
  /\ t.verdict \in Verdicts \cup {NoVerdict}

LEMMA NextTokenType == TokenInv /\ TokenTyped(token) /\ [Next]_vars => TokenTyped(token)'
<1> SUFFICES ASSUME TokenInv, TokenTyped(token), [Next]_vars PROVE TokenTyped(token')
  BY DEF TokenTyped
<1>0. TokenReads = {"supply", "info", "largest", "signature"}
  BY DEF TokenReads, NextRead
<1>1. CASE token' = token
  BY <1>1
<1>2. CASE token' = NoToken
  BY <1>2 DEF TokenTyped, NoToken
<1>3. CASE AskToken
  BY <1>0, <1>3 DEF AskToken, TokenTyped, NoToken
<1>4. CASE TokenRead
  <2>1. /\ token.at \in TokenReads
        /\ \E got \in SUBSET (token.got \cup {token.at}) :
             LET t == [token EXCEPT !.got = got, !.at = NextRead[token.at]]
             IN IF t.at = "scored" THEN token' = [t EXCEPT !.verdict = ScoreToken(TokenSignalsOf(t))]
                ELSE token' = t
    BY <1>4 DEF TokenRead
  <2> PICK got \in SUBSET (token.got \cup {token.at}) :
        LET t == [token EXCEPT !.got = got, !.at = NextRead[token.at]]
        IN IF t.at = "scored" THEN token' = [t EXCEPT !.verdict = ScoreToken(TokenSignalsOf(t))]
           ELSE token' = t
    BY <2>1
  <2> DEFINE t == [token EXCEPT !.got = got, !.at = NextRead[token.at]]
             v == ScoreToken(TokenSignalsOf(t))
  <2>2. /\ t = [f \in DOMAIN NoToken |-> t[f]]
        /\ t.at = NextRead[token.at] /\ t.mint = token.mint /\ t.got = got /\ t.verdict = token.verdict
    BY DEF TokenInv, NoToken
  <2>3. t.at \in {"scored"} \cup TokenReads /\ got \subseteq TokenReads
    BY <1>0, <2>1, <2>2 DEF NextRead, TokenTyped
  <2>4. token' = t \/ token' = [t EXCEPT !.verdict = v]
    OBVIOUS
  <2>5. v \in Verdicts
    BY TokenVerdictTyped
  <2> HIDE DEF t, v
  <2>6. /\ token'.at = t.at /\ token'.mint = token.mint /\ token'.got = got
        /\ token'.verdict \in {token.verdict, v}
    BY <2>2, <2>4 DEF NoToken
  <2> QED
    BY <2>3, <2>5, <2>6 DEF TokenTyped
<1>5. CASE Ask
  BY <1>1, <1>3, <1>5 DEF Ask
<1>6. CASE Step
  BY <1>1, <1>2, <1>4, <1>6 DEF Step, TokenStep, AnswerToken
<1>7. CASE Environment \/ Restart \/ UNCHANGED vars
  BY <1>1, <1>2, <1>7 DEF Environment, Restart, vars
<1> QED
  BY <1>5, <1>6, <1>7 DEF Next

\* The wallet-risk call.
Sources == {None, "partial_history", "no_history", "genesis_untraceable", "labeled_bad", "traced_clean"}

WalletTyped(w) ==
  /\ w.subject \in Wallets \cup {None}
  /\ w.lamports \in Nat /\ w.accounts \in Nat
  /\ w.hopPages \in 0 .. HopPages - 1 /\ w.genesis \in BOOLEAN
  /\ Len(w.chain) <= MaxHops /\ w.source \in Sources
  /\ w.index \subseteq Labels /\ w.denied \subseteq Labels /\ IsFiniteSet(w.denied)
  /\ w.tried \in 0 .. MaxParse /\ w.parsed \in 0 .. w.tried
  /\ w.parties \subseteq Addresses
  /\ w.verdict \in Verdicts \cup {NoVerdict}

LEMMA WalletStays ==
  ASSUME NEW w, WalletTyped(w), NEW x, Same(x, w, {"at", "pages", "reads"})
  PROVE  WalletTyped(x)
<1>1. /\ x.subject = w.subject /\ x.lamports = w.lamports /\ x.accounts = w.accounts
      /\ x.hopPages = w.hopPages /\ x.genesis = w.genesis /\ x.chain = w.chain
      /\ x.source = w.source /\ x.index = w.index /\ x.denied = w.denied /\ x.tried = w.tried
      /\ x.parsed = w.parsed /\ x.parties = w.parties /\ x.verdict = w.verdict
  BY FieldsAre DEF Same
<1> QED
  BY <1>1 DEF WalletTyped

LEMMA TypedProceeds ==
  ASSUME NEW w, IsCall(w), WalletTyped(w), Proceed(w)
  PROVE  WalletTyped(wallet')
<1>1. Same(wallet', w, {"reads"})
  BY Proceeds
<1> QED
  BY <1>1, WalletStays DEF Same

LEMMA TypedEnds ==
  ASSUME LabelInv, NEW w, IsCall(w), WalletTyped(w), NEW s \in Sources
  PROVE  WalletTyped(EndTrace(w, s)) /\ IsCall(EndTrace(w, s))
<1> DEFINE x == EndTrace(w, s)
<1>1. Same(x, w, {"at", "index", "source"}) /\ x.source = s /\ x.index \in {w.index, labels.deny}
  BY EndTraceMoves, EndTraceSays
<1> HIDE DEF x
<1>2. /\ x.subject = w.subject /\ x.lamports = w.lamports /\ x.accounts = w.accounts
      /\ x.hopPages = w.hopPages /\ x.genesis = w.genesis /\ x.chain = w.chain
      /\ x.denied = w.denied /\ x.tried = w.tried
      /\ x.parsed = w.parsed /\ x.parties = w.parties /\ x.verdict = w.verdict
  BY <1>1, FieldsAre DEF Same
<1>3. WalletTyped(x)
  BY <1>1, <1>2, SplitIs DEF WalletTyped
<1> QED
  BY <1>1, <1>3 DEF x, Same

LEMMA TypedStarts ==
  ASSUME LabelInv, NEW w, IsCall(w), WalletTyped(w)
  PROVE  WalletTyped(StartTrace(w)) /\ IsCall(StartTrace(w))
<1>1. CASE \E s \in Sources : StartTrace(w) = EndTrace(w, s)
  BY <1>1, TypedEnds
<1>2. CASE StartTrace(w) = [w EXCEPT !.at = "genesis"]
  <2>1. Same(StartTrace(w), w, {"at", "pages", "reads"})
    BY <1>2, FieldsAre DEF IsCall, Same
  <2> QED
    BY <2>1, WalletStays DEF Same
<1> QED
  BY <1>1, <1>2 DEF StartTrace, Sources

LEMMA TypedVisits ==
  ASSUME LabelInv, NEW w, IsCall(w), WalletTyped(w), IsChain(w.chain), Len(w.chain) < MaxHops, NEW a
  PROVE  WalletTyped(Visit(w, a)) /\ IsCall(Visit(w, a))
<1> DEFINE e == [address |-> a, labelled |-> Listed(labels.deny, a)]
           x == [w EXCEPT !.chain = Append(@, e), !.hopPages = 0]
           y == [x EXCEPT !.at = "hop"]
<1>1. Same(x, w, {"chain", "hopPages"}) /\ x.chain = Append(w.chain, e) /\ x.hopPages = 0
  BY FieldsAre DEF IsCall, Same
<1>2. Visit(w, a) \in {EndTrace(x, "labeled_bad"), EndTrace(x, "traced_clean"), y}
  BY DEF Visit
<1> HIDE DEF x, e
<1>3. /\ x.subject = w.subject /\ x.lamports = w.lamports /\ x.accounts = w.accounts
      /\ x.genesis = w.genesis /\ x.source = w.source /\ x.index = w.index
      /\ x.denied = w.denied /\ x.tried = w.tried
      /\ x.parsed = w.parsed /\ x.parties = w.parties /\ x.verdict = w.verdict
  BY <1>1, FieldsAre DEF Same
<1>4. Len(x.chain) <= MaxHops
  BY <1>1, ChainsGrow, WalletAssumption
<1>5. WalletTyped(x)
  BY <1>1, <1>3, <1>4, WalletAssumption DEF WalletTyped
<1>6. IsCall(x)
  BY <1>1 DEF Same
<1>7. Same(y, x, {"at", "pages", "reads"})
  BY <1>6, FieldsAre DEF IsCall, Same
<1> HIDE DEF y
<1>8. WalletTyped(y) /\ IsCall(y)
  BY <1>5, <1>7, WalletStays DEF Same
<1> QED
  BY <1>2, <1>5, <1>6, <1>8, TypedEnds DEF Sources

\* The transactions to look into are there, and the parties to them are addresses.
LEMMA RecentIs ==
  ASSUME NEW w, w.subject \in Wallets, w.pages \in 0 .. MaxPages
  PROVE  ToParse(w) <= Len(Recent[w.subject])
<1> DEFINE a == w.subject
           n == Least(Len(History[a]), w.pages * PageSize)
           aged == {i \in DOMAIN History[a] : History[a][i] \in 0 .. 30}
           within == Within(a, w.pages, 30)
<1>1. w.pages \in Nat /\ MaxPages \in Nat /\ MaxParse \in Nat /\ Len(History[a]) \in Nat
      /\ a \in Addresses
  BY HistoryIsSequence, WalletAssumption
<1>2. n \in Nat /\ n <= Len(History[a])
  BY <1>1 DEF Least, PageSize
<1>3. DOMAIN History[a] = 1 .. Len(History[a])
  BY <1>1, WalletAssumption
<1>4. IsFiniteSet(1 .. Len(History[a]))
  BY <1>1, FS_Interval
<1>5. aged \in SUBSET (1 .. Len(History[a])) /\ within \in SUBSET aged
  <2>1. within = {i \in 1 .. n : History[a][i] \in 0 .. 30}
    BY DEF Within, Seen
  <2>2. \A i \in 1 .. n : i \in DOMAIN History[a]
    BY <1>1, <1>2, <1>3
  <2>3. aged \in SUBSET DOMAIN History[a]
    OBVIOUS
  <2> HIDE DEF n
  <2> QED
    BY <1>3, <2>1, <2>2, <2>3
<1> HIDE DEF aged, within
<1>6. IsFiniteSet(aged)
  BY <1>4, <1>5, FS_Subset
<1>7. Cardinality(aged) \in Nat /\ Cardinality(within) \in Nat /\ Cardinality(within) <= Cardinality(aged)
  BY <1>5, <1>6, FS_Subset, FS_CardinalityType
<1>8. Totals(w).tx30 = Cardinality(within)
  BY DEF Totals, Aggregate, within
<1>9. Least(MaxParse, Cardinality(aged)) <= Len(Recent[a]) /\ Len(Recent[a]) \in Nat
  <2>1. Least(MaxParse, Cardinality(aged)) <= Len(Recent[a])
    BY WalletAssumption DEF aged
  <2>2. Recent[a] \in Seq(Transfers)
    BY TransfersAssumption
  <2> QED
    BY <2>1, <2>2
<1> QED
  BY <1>1, <1>7, <1>8, <1>9 DEF ToParse, Least

LEMMA PartiesAre ==
  ASSUME NEW a \in Wallets, NEW i \in 1 .. Len(Recent[a])
  PROVE  Counterparties(Recent[a][i], a) \subseteq Addresses
<1>1. Recent[a] \in Seq(Transfers)
  BY TransfersAssumption
<1>2. Recent[a][i] \in Transfers
  BY <1>1
<1>3. Recent[a][i].keys \in Seq(Addresses)
  BY <1>2 DEF Transfers
<1> QED
  BY <1>3 DEF Counterparties

LEMMA NoWalletTyped ==
  ASSUME NEW w, Same(w, NoWallet, {"at", "subject"}), w.subject \in Wallets \cup {None}
  PROVE  WalletTyped(w)
<1>1. /\ NoWallet.lamports = 0 /\ NoWallet.accounts = 0 /\ NoWallet.hopPages = 0
      /\ NoWallet.genesis = FALSE /\ NoWallet.chain = <<>> /\ NoWallet.source = None
      /\ NoWallet.index = {} /\ NoWallet.denied = {} /\ NoWallet.tried = 0 /\ NoWallet.parsed = 0
      /\ NoWallet.parties = {} /\ NoWallet.verdict = NoVerdict
  BY DEF NoWallet
<1>2. /\ w.lamports = 0 /\ w.accounts = 0 /\ w.hopPages = 0
      /\ w.genesis = FALSE /\ w.chain = <<>> /\ w.source = None
      /\ w.index = {} /\ w.denied = {} /\ w.tried = 0 /\ w.parsed = 0
      /\ w.parties = {} /\ w.verdict = NoVerdict
  BY <1>1, FieldsAre DEF Same
<1>3. IsFiniteSet({})
  BY FS_EmptySet
<1>4. Len(w.chain) <= MaxHops
  <2>1. Len(<<>>) = 0 /\ MaxHops \in Nat
    BY WalletAssumption
  <2> QED
    BY <1>2, <2>1
<1>5. 0 \in 0 .. HopPages - 1 /\ 0 \in 0 .. MaxParse
  BY WalletAssumption
<1>6. /\ w.tried \in 0 .. MaxParse /\ w.parsed \in 0 .. w.tried /\ w.hopPages \in 0 .. HopPages - 1
      /\ w.lamports \in Nat /\ w.accounts \in Nat
  BY <1>2, <1>5
<1>7. /\ w.index \subseteq Labels /\ w.denied \subseteq Labels /\ IsFiniteSet(w.denied)
      /\ w.parties \subseteq Addresses
  BY <1>2, <1>3
<1>8. w.source \in Sources /\ w.verdict \in Verdicts \cup {NoVerdict} /\ w.genesis \in BOOLEAN
  BY <1>2 DEF Sources
<1> QED
  BY <1>4, <1>6, <1>7, <1>8 DEF WalletTyped

LEMMA TypedFirstReads ==
  ASSUME LabelInv, PageInv, WalletTyped(wallet), NEW ok \in BOOLEAN,
         BalanceRead(ok) \/ AccountsRead(ok)
  PROVE  WalletTyped(wallet')
<1>0. IsCall(wallet) /\ wallet.subject \in Wallets
  BY DEF PageInv, BalanceRead, AccountsRead
<1>1. Lamports[wallet.subject] \in Nat /\ TokenAccounts[wallet.subject] \in Nat
  BY <1>0, WalletAssumption
<1>2. CASE BalanceRead(ok)
  <2> DEFINE w == [wallet EXCEPT !.at = "accounts",
                     !.lamports = IF ok THEN Lamports[wallet.subject] ELSE 0]
  <2>1. Same(w, wallet, {"at", "lamports"}) /\ w.lamports \in Nat /\ Proceed(w)
    BY <1>0, <1>1, <1>2, FieldsAre DEF BalanceRead, Same, IsCall
  <2> HIDE DEF w
  <2>2. WalletTyped(w) /\ IsCall(w)
    BY <2>1, FieldsAre DEF Same, WalletTyped
  <2> QED
    BY <2>1, <2>2, TypedProceeds
<1>3. CASE AccountsRead(ok)
  <2> DEFINE w == [wallet EXCEPT !.at = "pages",
                     !.accounts = IF ok THEN TokenAccounts[wallet.subject] ELSE 0]
  <2>1. /\ Same(w, wallet, {"at", "accounts"}) /\ w.accounts \in Nat
        /\ Proceed(StartTrace(w)) \/ Proceed(w)
    BY <1>0, <1>1, <1>3, FieldsAre DEF AccountsRead, Same, IsCall
  <2> HIDE DEF w
  <2>2. WalletTyped(w) /\ IsCall(w)
    BY <2>1, FieldsAre DEF Same, WalletTyped
  <2> QED
    BY <2>1, <2>2, TypedStarts, TypedProceeds
<1> QED
  BY <1>2, <1>3

LEMMA TypedPages ==
  ASSUME LabelInv, PageInv, WalletTyped(wallet), NEW ok \in BOOLEAN, PageRead(ok)
  PROVE  WalletTyped(wallet')
<1> DEFINE page == wallet.pages + 1
           last == IsLast(wallet.subject, page)
           x == [wallet EXCEPT !.pages = page, !.genesis = last]
           w == IF ok THEN x ELSE wallet
<1>0. IsCall(wallet)
  BY DEF PageInv
<1>1. Proceed(StartTrace(w)) \/ Proceed(w)
  BY DEF PageRead
<1>2. last \in BOOLEAN
  BY DEF IsLast
<1> HIDE DEF last
<1>3. Same(x, wallet, {"pages", "genesis"}) /\ x.genesis = last
  BY <1>0, FieldsAre DEF Same, IsCall
<1> HIDE DEF x
<1>4. WalletTyped(x) /\ IsCall(x)
  BY <1>2, <1>3, FieldsAre DEF Same, WalletTyped
<1>5. WalletTyped(w) /\ IsCall(w)
  BY <1>0, <1>4
<1> HIDE DEF w
<1> QED
  BY <1>1, <1>5, TypedStarts, TypedProceeds

LEMMA TypedTraceReads ==
  ASSUME LabelInv, PageInv, ReadInv, WalletTyped(wallet), NEW ok \in BOOLEAN,
         GenesisRead(ok) \/ HopPageRead(ok) \/ HopGenesisRead(ok)
  PROVE  WalletTyped(wallet')
<1>0. IsCall(wallet)
  BY DEF PageInv
<1>1. wallet.at \in {"genesis", "hop", "hop_genesis"}
  BY DEF GenesisRead, HopPageRead, HopGenesisRead
<1>2. IsChain(wallet.chain) /\ Len(wallet.chain) < MaxHops
  BY <1>1, WalletAssumption DEF ReadInv, Shape
<1>3. CASE GenesisRead(ok) \/ HopGenesisRead(ok)
  <2>1. PICK w : Proceed(w) /\ ((\E a : w = Visit(wallet, a)) \/ (\E s \in Sources : w = EndTrace(wallet, s)))
    BY <1>3 DEF GenesisRead, HopGenesisRead, Sources
  <2> QED
    BY <1>0, <1>2, <2>1, TypedVisits, TypedEnds, TypedProceeds
<1>4. CASE HopPageRead(ok)
  <2> DEFINE page == wallet.hopPages + 1
             v == [wallet EXCEPT !.at = "hop_genesis"]
             x == [wallet EXCEPT !.hopPages = page]
  <2>1. Proceed(v) \/ (Proceed(x) /\ page < HopPages) \/ Proceed(EndTrace(wallet, "traced_clean"))
    BY <1>4 DEF HopPageRead
  <2>2. Same(v, wallet, {"at", "pages", "reads"}) /\ Same(x, wallet, {"hopPages"}) /\ x.hopPages = page
    BY <1>0, FieldsAre DEF Same, IsCall
  <2> HIDE DEF v, x
  <2>3. WalletTyped(v) /\ IsCall(v)
    BY <2>2, WalletStays DEF Same
  <2>4. page < HopPages => page \in 0 .. HopPages - 1
    BY WalletAssumption DEF WalletTyped
  <2>5. page < HopPages => WalletTyped(x) /\ IsCall(x)
    BY <2>2, <2>4, FieldsAre DEF Same, WalletTyped
  <2>6. WalletTyped(EndTrace(wallet, "traced_clean")) /\ IsCall(EndTrace(wallet, "traced_clean"))
    BY <1>0, TypedEnds DEF Sources
  <2> QED
    BY <2>1, <2>3, <2>5, <2>6, TypedProceeds
<1> QED
  BY <1>3, <1>4

LEMMA TypedActivity ==
  ASSUME PageInv, ReadInv, WalletTyped(wallet), NEW ok \in BOOLEAN, ActivityRead(ok)
  PROVE  WalletTyped(wallet')
<1> DEFINE i == wallet.tried + 1
           found == Counterparties(Recent[wallet.subject][i], wallet.subject)
           w == [wallet EXCEPT !.tried = i, !.parsed = IF ok THEN @ + 1 ELSE @,
                   !.parties = IF ok THEN @ \cup found ELSE @]
           v == [w EXCEPT !.at = "score"]
<1>1. /\ wallet.at = "activity" /\ IsCall(wallet) /\ wallet.subject \in Wallets
      /\ wallet.pages \in 0 .. MaxPages
      /\ Proceed(v) \/ Proceed(w)
  BY DEF ActivityRead, PageInv
<1>2. i \in 1 .. Len(Recent[wallet.subject]) /\ i \in 0 .. MaxParse
  <2>1. wallet.tried \in Nat /\ wallet.tried < ToParse(wallet) /\ ToParse(wallet) \in 0 .. MaxParse
    BY <1>1, ParsesAreBounded DEF ReadInv, Shape
  <2>2. ToParse(wallet) <= Len(Recent[wallet.subject])
    BY <1>1, RecentIs
  <2>3. Recent[wallet.subject] \in Seq(Transfers)
    BY <1>1, TransfersAssumption
  <2>4. Len(Recent[wallet.subject]) \in Nat /\ MaxParse \in Nat
    BY <2>3, WalletAssumption
  <2> QED
    BY <2>1, <2>2, <2>4
<1>3. found \subseteq Addresses
  BY <1>1, <1>2, PartiesAre
<1> HIDE DEF found
<1>4. /\ Same(w, wallet, {"tried", "parsed", "parties"}) /\ w.tried = i
      /\ w.parsed \in {wallet.parsed, wallet.parsed + 1}
      /\ w.parties \in {wallet.parties, wallet.parties \cup found}
  BY <1>1, FieldsAre DEF Same, IsCall
<1> HIDE DEF w
<1>5. w.parsed \in 0 .. w.tried /\ w.tried \in 0 .. MaxParse /\ w.parties \subseteq Addresses
  BY <1>2, <1>3, <1>4 DEF WalletTyped
<1>6. WalletTyped(w) /\ IsCall(w)
  BY <1>4, <1>5, FieldsAre DEF Same, WalletTyped
<1>7. Same(v, w, {"at", "pages", "reads"})
  BY <1>6, FieldsAre DEF Same, IsCall
<1> HIDE DEF v
<1>8. WalletTyped(v) /\ IsCall(v)
  BY <1>6, <1>7, WalletStays DEF Same
<1> QED
  BY <1>1, <1>6, <1>8, TypedProceeds

LEMMA NextWalletType ==
  LabelInv /\ PageInv /\ ReadInv /\ WalletTyped(wallet) /\ [Next]_vars => WalletTyped(wallet)'
<1> SUFFICES ASSUME LabelInv, PageInv, ReadInv, WalletTyped(wallet), [Next]_vars
             PROVE  WalletTyped(wallet')
  BY DEF WalletTyped
<1>0. IsCall(wallet)
  BY DEF PageInv
<1>1. CASE wallet' = wallet
  BY <1>1
<1>2. CASE wallet' = NoWallet
  <2>1. Same(NoWallet, NoWallet, {"at", "subject"}) /\ NoWallet.subject = None
    BY NoWalletIsCall DEF Same, NoWallet
  <2> QED
    BY <1>2, <2>1, NoWalletTyped
<1>3. CASE AskWallet
  BY <1>3, Asked, NoWalletTyped
<1>4. CASE WalletRead
  <2> PICK ok \in BOOLEAN :
        \/ BalanceRead(ok) \/ AccountsRead(ok) \/ PageRead(ok) \/ GenesisRead(ok)
        \/ HopPageRead(ok) \/ HopGenesisRead(ok) \/ ActivityRead(ok)
    BY <1>4 DEF WalletRead
  <2> QED
    BY TypedFirstReads, TypedPages, TypedTraceReads, TypedActivity
<1>5. CASE RefreshForWallet
  BY <1>0, <1>5, WalletTurns, WalletStays, FieldsAre DEF Same
<1>6. CASE LookUpDeny
  <2> DEFINE denied == Lookup(labels.deny, wallet.subject)
  <2>1. denied \in SUBSET labels.deny
    BY DEF Lookup
  <2>2. denied \subseteq Labels /\ IsFiniteSet(denied)
    BY <2>1, SplitIs, FS_Subset
  <2>3. Same(wallet', wallet, {"at", "denied", "reads"}) /\ wallet'.denied = denied
    BY <1>0, <1>6, WalletTurns
  <2> HIDE DEF denied
  <2> QED
    BY <2>2, <2>3, FieldsAre DEF Same, WalletTyped
<1>7. CASE WeighWallet
  <2> DEFINE allowed == Lookup(labels.allow, wallet.subject)
  <2>1. allowed \in SUBSET labels.allow
    BY DEF Lookup
  <2>2. allowed \subseteq Labels /\ IsFiniteSet(allowed)
    BY <2>1, SplitIs, FS_Subset
  <2>3. ScoreWallet(SignalsOf(wallet), wallet.denied, allowed) \in Verdicts
    BY <2>2, WalletVerdictTyped DEF WalletTyped
  <2>4. Same(wallet', wallet, {"at", "verdict", "reads"}) /\ wallet'.verdict \in Verdicts
    BY <1>0, <1>7, <2>3, WalletTurns
  <2> QED
    BY <2>4, FieldsAre DEF Same, WalletTyped
<1> QED
  BY <1>1, <1>2, <1>3, <1>4, <1>5, <1>6, <1>7, WalletCases

\* Types do not depend on each other beyond what the invariants above say.
TypeInv ==
  /\ RpcTypeOK /\ fetched \in Fetches
  /\ WalletTyped(wallet) /\ TokenTyped(token) /\ TxTyped(tx)

\* Every variable keeps its type, and no call traces more hops, reads more pages or
\* parses more transactions than the configuration allows (TypeOK).
THEOREM TypeCorrect == Spec => []TypeOK
<1>1. Init => TypeInv
  <2> SUFFICES ASSUME Init PROVE TypeInv
    OBVIOUS
  <2>1. RpcTypeOK /\ fetched \in Fetches
    BY DEF Init, RpcTypeOK, LabelInit, Fetches
  <2>2. WalletTyped(NoWallet)
    <3>1. Same(NoWallet, NoWallet, {"at", "subject"}) /\ NoWallet.subject = None
      BY NoWalletIsCall DEF Same, NoWallet
    <3> QED
      BY <3>1, NoWalletTyped
  <2>3. TokenTyped(NoToken)
    BY DEF TokenTyped, NoToken
  <2> QED
    BY <2>1, <2>2, <2>3, NoTxTyped DEF Init, TypeInv
<1>2. LabelInv /\ PageInv /\ ReadInv /\ TxInv /\ TokenInv /\ TypeInv /\ [Next]_vars => TypeInv'
  BY NextRpcType, NextFetched, NextWalletType, NextTokenType, NextTxType DEF TypeInv
<1>3. LabelInv /\ PageInv /\ ReadInv /\ TraceInv /\ TypeInv => TypeOK
  <2> SUFFICES ASSUME LabelInv, PageInv, ReadInv, TraceInv, TypeInv PROVE TypeOK
    OBVIOUS
  <2>1. LabelTypeOK
    BY SplitIs DEF TypeInv, LabelInv, LabelTypeOK, Fetches
  <2>2. wallet.at \in {"idle", "refresh", "score", "weigh", "scored"} \cup ReadStates
    BY DEF ReadInv, Shape
  <2>3. wallet.pages \in 0 .. MaxPages /\ wallet.chain \in Seq(Hops)
    BY DEF PageInv, TraceInv, TraceOf
  <2>4. WalletTyped(wallet) /\ RpcTypeOK
    BY DEF TypeInv
  <2>5. TokenTyped(token) /\ TxTyped(tx)
    BY DEF TypeInv
  <2> QED
    BY <2>1, <2>2, <2>3, <2>4, <2>5 DEF TypeOK, WalletTyped, Sources, TokenTyped, TxTyped
<1>4. LabelInv /\ [Next]_vars => LabelInv'
  BY LabelStep
<1>5. Init => TokenInv
  BY DEF Init, TokenInv, NoToken
<1> QED
  BY InitLabels, InitPages, NextPages, InitReads, NextReads, InitTrace, NextTrace, InitTx, NextTx,
     NextToken, <1>1, <1>2, <1>3, <1>4, <1>5, PTL DEF Spec

-----------------------------------------------------------------------------
(* Calls go forward. *)

\* After a read a call goes on to another one, which it counts, or to the score.
LEMMA ReadsGoOn ==
  ASSUME IsCall(wallet), WalletRead
  PROVE  /\ wallet.at \in ReadStates
         /\ \/ wallet'.at \in ReadStates /\ wallet'.reads = Least(wallet.reads, ReadBound) + 1
            \/ wallet'.at = "score"
<1> DEFINE onward(w) == IsCall(w) /\ w.reads = wallet.reads /\ w.at \in ReadStates \cup {"score"}
           done == \/ wallet'.at \in ReadStates /\ wallet'.reads = Least(wallet.reads, ReadBound) + 1
                   \/ wallet'.at = "score"
<1>0. \A w : onward(w) /\ Proceed(w) => done
  <2> SUFFICES ASSUME NEW w, onward(w), Proceed(w) PROVE done
    OBVIOUS
  <2>1. /\ Same(wallet', w, {"reads"})
        /\ wallet'.reads = IF w.at \in ReadStates THEN Least(w.reads, ReadBound) + 1 ELSE w.reads
    BY Proceeds
  <2>2. wallet'.at = w.at
    BY <2>1, FieldsAre DEF Same
  <2> QED
    BY <2>1, <2>2
<1>1. \A v, s : IsCall(v) /\ v.reads = wallet.reads => onward(EndTrace(v, s))
  BY EndTraceMoves, FieldsAre DEF Same, ReadStates
<1>2. \A v : IsCall(v) /\ v.reads = wallet.reads => onward(StartTrace(v))
  BY StartTraceMoves, FieldsAre DEF Same, ReadStates
<1>3. \A a : onward(Visit(wallet, a))
  <2> SUFFICES ASSUME NEW a PROVE onward(Visit(wallet, a))
    OBVIOUS
  <2>1. /\ Same(Visit(wallet, a), wallet, {"at", "index", "source", "chain", "hopPages"})
        /\ Visit(wallet, a).at \in {"hop", "score", "activity"}
    BY VisitMoves
  <2> QED
    BY <2>1, FieldsAre DEF Same, ReadStates
<1>r. PICK ok \in BOOLEAN :
        \/ BalanceRead(ok) \/ AccountsRead(ok) \/ PageRead(ok) \/ GenesisRead(ok)
        \/ HopPageRead(ok) \/ HopGenesisRead(ok) \/ ActivityRead(ok)
  BY DEF WalletRead
<1>4. CASE BalanceRead(ok)
  <2> DEFINE w == [wallet EXCEPT !.at = "accounts",
                     !.lamports = IF ok THEN Lamports[wallet.subject] ELSE 0]
  <2>1. onward(w) /\ wallet.at \in ReadStates
    BY <1>4, FieldsAre DEF BalanceRead, IsCall, ReadStates
  <2>2. Proceed(w)
    BY <1>4 DEF BalanceRead
  <2> HIDE DEF onward, w, done
  <2> QED
    BY <1>0, <2>1, <2>2 DEF done
<1>5. CASE AccountsRead(ok)
  <2> DEFINE w == [wallet EXCEPT !.at = "pages",
                     !.accounts = IF ok THEN TokenAccounts[wallet.subject] ELSE 0]
  <2>1. onward(w)
    BY FieldsAre DEF IsCall, ReadStates
  <2>2. wallet.at \in ReadStates /\ Proceed(IF MaxPages = 0 THEN StartTrace(w) ELSE w)
    BY <1>5 DEF AccountsRead, ReadStates
  <2>3. onward(StartTrace(w))
    BY <1>2, <2>1
  <2> HIDE DEF onward, w, done
  <2> QED
    BY <1>0, <2>1, <2>2, <2>3 DEF done
<1>6. CASE PageRead(ok)
  <2> DEFINE page == wallet.pages + 1
             w == IF ok THEN [wallet EXCEPT !.pages = page, !.genesis = IsLast(wallet.subject, page)]
                        ELSE wallet
  <2>1. wallet.at = "pages" /\ Proceed(IF ~ok \/ w.genesis \/ page = MaxPages THEN StartTrace(w) ELSE w)
    BY <1>6 DEF PageRead
  <2>2. onward(w)
    BY <2>1, FieldsAre DEF IsCall, ReadStates
  <2>3. onward(StartTrace(w))
    BY <1>2, <2>2
  <2> HIDE DEF onward, w, done
  <2> QED
    BY <1>0, <2>1, <2>2, <2>3 DEF done, ReadStates
<1>7. CASE GenesisRead(ok)
  <2>1. wallet.at = "genesis" /\ \E w : Proceed(w) /\ onward(w)
    <3> HIDE DEF onward
    <3> QED
      BY <1>1, <1>3, <1>7 DEF GenesisRead
  <2> HIDE DEF onward, done
  <2> QED
    BY <1>0, <2>1 DEF done, ReadStates
<1>8. CASE HopPageRead(ok)
  <2> DEFINE page == wallet.hopPages + 1
  <2>1. onward([wallet EXCEPT !.at = "hop_genesis"])
    BY FieldsAre DEF IsCall, ReadStates
  <2>2. wallet.at = "hop" => onward([wallet EXCEPT !.hopPages = page])
    BY FieldsAre DEF IsCall, ReadStates
  <2>3. onward(EndTrace(wallet, "traced_clean"))
    BY <1>1
  <2> HIDE DEF onward, done
  <2>4. wallet.at = "hop" /\ \E w : Proceed(w) /\ w \in {[wallet EXCEPT !.at = "hop_genesis"],
          [wallet EXCEPT !.hopPages = page], EndTrace(wallet, "traced_clean")}
    BY <1>8 DEF HopPageRead
  <2> QED
    BY <1>0, <2>1, <2>2, <2>3, <2>4 DEF done, ReadStates
<1>9. CASE HopGenesisRead(ok)
  <2>1. wallet.at = "hop_genesis" /\ \E w : Proceed(w) /\ onward(w)
    <3> HIDE DEF onward
    <3> QED
      BY <1>1, <1>3, <1>9 DEF HopGenesisRead
  <2> HIDE DEF onward, done
  <2> QED
    BY <1>0, <2>1 DEF done, ReadStates
<1>10. CASE ActivityRead(ok)
  <2> DEFINE i == wallet.tried + 1
             w == [wallet EXCEPT !.tried = i, !.parsed = IF ok THEN @ + 1 ELSE @,
                     !.parties = IF ok THEN @ \cup Counterparties(Recent[wallet.subject][i], wallet.subject)
                                 ELSE @]
  <2>1. wallet.at = "activity" /\ Proceed(IF i = ToParse(wallet) THEN [w EXCEPT !.at = "score"] ELSE w)
    BY <1>10 DEF ActivityRead
  <2>2. onward(w) /\ onward([w EXCEPT !.at = "score"])
    BY <2>1, FieldsAre DEF IsCall, ReadStates
  <2> HIDE DEF onward, w, done
  <2> QED
    BY <1>0, <2>1, <2>2 DEF done, ReadStates
<1> QED
  BY <1>r, <1>4, <1>5, <1>6, <1>7, <1>8, <1>9, <1>10

\* What is left is a number.
LEMMA AwaitsAreNat ==
  ASSUME TypeOK, ReadInv, ReadsAreBounded
  PROVE  WalletAwaits \in Nat /\ TokenAwaits \in Nat /\ TxAwaits \in Nat
<1>1. wallet.reads \in Nat /\ ReadBound \in Nat /\ wallet.reads <= ReadBound
  BY TopIs DEF ReadInv, Shape, ReadsAreBounded
<1>2. WalletAwaits \in Nat
  BY <1>1 DEF TypeOK, WalletAwaits, ReadStates
<1>3. token.at \in {"idle", "scored", "supply", "info", "largest", "signature"}
  BY DEF TypeOK, TokenReads, NextRead
<1>4. TokenAwaits \in Nat
  BY <1>3 DEF TokenAwaits
<1>5. TxAwaits \in Nat
  BY DEF TypeOK, TxAwaits
<1> QED
  BY <1>2, <1>4, <1>5

LEMMA WalletGoesOn ==
  ASSUME PageInv, ReadInv, ReadsAreBounded, WalletStep
  PROVE  WalletAwaits' \in Int /\ WalletAwaits' < WalletAwaits
<1>0. IsCall(wallet) /\ wallet.reads \in Nat /\ ReadBound \in Nat /\ wallet.reads <= ReadBound
  BY TopIs DEF PageInv, ReadInv, Shape, ReadsAreBounded
<1>1. CASE RefreshForWallet
  <2> DEFINE w == [wallet EXCEPT !.at = "balance"]
  <2>1. wallet.at = "refresh" /\ IsCall(w) /\ w.at = "balance" /\ Proceed(w)
    BY <1>0, <1>1, FieldsAre DEF RefreshForWallet, IsCall
  <2>2. w.reads = wallet.reads
    BY <1>0, FieldsAre DEF IsCall
  <2>3. wallet'.at = "balance" /\ wallet'.reads = Least(wallet.reads, ReadBound) + 1
    <3> HIDE DEF w
    <3>1. /\ Same(wallet', w, {"reads"})
          /\ wallet'.reads = IF w.at \in ReadStates THEN Least(w.reads, ReadBound) + 1 ELSE w.reads
      BY <2>1, Proceeds
    <3> QED
      BY <2>1, <2>2, <3>1, FieldsAre DEF Same, ReadStates
  <2>4. WalletAwaits = 5 + ReadBound
    BY <2>1 DEF WalletAwaits, ReadStates
  <2>5. WalletAwaits' = 4 + ReadBound - wallet'.reads
    BY <2>3 DEF WalletAwaits, ReadStates, ReadBound
  <2> QED
    BY <1>0, <2>3, <2>4, <2>5 DEF Least
<1>2. CASE WalletRead
  <2>1. /\ wallet.at \in ReadStates
        /\ \/ wallet'.at \in ReadStates /\ wallet'.reads = Least(wallet.reads, ReadBound) + 1
           \/ wallet'.at = "score"
    BY <1>0, <1>2, ReadsGoOn
  <2>2. WalletAwaits = 4 + ReadBound - wallet.reads
    BY <2>1 DEF WalletAwaits, ReadStates
  <2>3. CASE wallet'.at \in ReadStates /\ wallet'.reads = Least(wallet.reads, ReadBound) + 1
    <3>1. WalletAwaits' = 4 + ReadBound - wallet'.reads
      BY <2>3 DEF WalletAwaits, ReadStates, ReadBound
    <3> QED
      BY <1>0, <2>2, <2>3, <3>1 DEF Least
  <2>4. CASE wallet'.at = "score"
    <3>1. WalletAwaits' = 3
      BY <2>4 DEF WalletAwaits, ReadStates
    <3> QED
      BY <1>0, <2>2, <3>1
  <2> QED
    BY <2>1, <2>3, <2>4
<1>3. CASE LookUpDeny \/ WeighWallet
  <2>1. \/ wallet.at = "score" /\ wallet'.at = "weigh"
        \/ wallet.at = "weigh" /\ wallet'.at = "scored"
    BY <1>0, <1>3, WalletTurns
  <2> QED
    BY <2>1 DEF WalletAwaits, ReadStates
<1>4. CASE AnswerWallet
  <2>1. wallet.at = "scored" /\ wallet'.at = "idle"
    BY <1>4 DEF AnswerWallet, NoWallet
  <2> QED
    BY <2>1 DEF WalletAwaits, ReadStates
<1> QED
  BY <1>1, <1>2, <1>3, <1>4 DEF WalletStep

LEMMA TokenGoesOn ==
  ASSUME TokenInv, TokenStep
  PROVE  TokenAwaits' \in Int /\ TokenAwaits' < TokenAwaits
<1>1. CASE TokenRead
  <2>1. token.at \in {"supply", "info", "largest", "signature"}
    BY <1>1 DEF TokenRead, TokenReads, NextRead
  <2>2. token'.at = NextRead[token.at]
    <3>1. PICK ok \in BOOLEAN :
            LET useful == ok /\ (token.at = "info" => Mint[token.mint].initialized)
                t == [token EXCEPT !.got = IF useful THEN @ \cup {token.at} ELSE @,
                                   !.at = NextRead[token.at]]
            IN \/ token' = [t EXCEPT !.verdict = ScoreToken(TokenSignalsOf(t))]
               \/ token' = t
      BY <1>1 DEF TokenRead
    <3> DEFINE useful == ok /\ (token.at = "info" => Mint[token.mint].initialized)
               got == IF useful THEN token.got \cup {token.at} ELSE token.got
               t == [token EXCEPT !.got = got, !.at = NextRead[token.at]]
               verdict == ScoreToken(TokenSignalsOf(t))
    <3>2. token' = [t EXCEPT !.verdict = verdict] \/ token' = t
      BY <3>1
    <3> HIDE DEF useful, verdict
    <3>3. t.at = NextRead[token.at] /\ [t EXCEPT !.verdict = verdict].at = NextRead[token.at]
      BY DEF TokenInv, NoToken
    <3> HIDE DEF t
    <3> QED
      BY <3>2, <3>3
  <2> QED
    BY <2>1, <2>2 DEF NextRead, TokenAwaits
<1>2. CASE AnswerToken
  BY <1>2 DEF AnswerToken, NoToken, TokenAwaits
<1> QED
  BY <1>1, <1>2 DEF TokenStep

LEMMA TxGoesOn ==
  ASSUME TxInv, TxStep
  PROVE  TxAwaits' \in Int /\ TxAwaits' < TxAwaits
<1>0. IsTx(tx)
  BY DEF TxInv
<1>1. CASE TokenAccountsRead \/ PreBalanceRead
  <2>1. \/ tx.at = "accounts" /\ tx'.at = "balance"
        \/ tx.at = "balance" /\ tx'.at = "simulate"
    BY <1>0, <1>1, TxFieldsAre DEF TokenAccountsRead, PreBalanceRead, IsTx
  <2> QED
    BY <2>1 DEF TxAwaits
<1>2. ASSUME NEW x, IsTx(x), Screen(x), tx.at = "simulate"
      PROVE  TxAwaits' \in Int /\ TxAwaits' < TxAwaits
  <2>1. tx'.at = "screened"
    BY <1>2, Screens
  <2> QED
    BY <1>2, <2>1 DEF TxAwaits
<1>3. CASE SimulateAnswers
  <2>1. PICK slots, unparsed :
          LET x == [tx EXCEPT !.slots = slots, !.unparsed = unparsed]
          IN Screen([x EXCEPT !.fails = Effect[tx.tx].fails,
                              !.sol = SolChanges(x), !.tokens = TokenChanges(x)])
    BY <1>3 DEF SimulateAnswers
  <2> DEFINE x == [tx EXCEPT !.slots = slots, !.unparsed = unparsed]
             sol == SolChanges(x)
             tokens == TokenChanges(x)
             y == [x EXCEPT !.fails = Effect[tx.tx].fails, !.sol = sol, !.tokens = tokens]
  <2>2. Screen(y)
    BY <2>1
  <2> HIDE DEF sol, tokens
  <2>3. IsTx(y)
    BY <1>0, TxFieldsAre DEF IsTx
  <2> HIDE DEF y
  <2> QED
    BY <1>2, <1>3, <2>2, <2>3 DEF SimulateAnswers
<1>4. CASE SimulateFails
  BY <1>0, <1>2, <1>4 DEF SimulateFails
<1>5. CASE AnswerTx
  BY <1>5 DEF AnswerTx, NoTx, TxAwaits
<1> QED
  BY <1>1, <1>3, <1>4, <1>5 DEF TxStep

\* Who has fewer awaits left, and shares the others, has fewer in all.
LEMMA FewerInAll ==
  ASSUME NEW n \in Nat, NEW others \in Nat, NEW m \in Int, m < n
  PROVE  m + others < n + others /\ m + others <= n + others
  OBVIOUS

\* Every step of a call, whatever the ledger, the labels and the node do, takes it
\* nearer to its end: what EveryCallEnds needs besides fairness.
THEOREM CallsGoForward == Spec => NoCallTurnsBack
<1> DEFINE Forward == \/ AwaitsLeft' < AwaitsLeft
                      \/ AwaitsLeft' = AwaitsLeft /\ rpc.attempt < rpc'.attempt
           I == /\ TypeOK /\ RetryInv /\ PageInv /\ ReadInv /\ ReadsAreBounded /\ TokenInv /\ TxInv
<1>1. ASSUME I, Step PROVE AwaitsLeft' <= AwaitsLeft /\ Forward
  <2>0. /\ AwaitsLeft = WalletAwaits + TokenAwaits + TxAwaits
        /\ AwaitsLeft' = WalletAwaits' + TokenAwaits' + TxAwaits'
    BY DEF AwaitsLeft
  <2>1. WalletAwaits \in Nat /\ TokenAwaits \in Nat /\ TxAwaits \in Nat
    BY <1>1, AwaitsAreNat
  <2>2. CASE WalletStep /\ UNCHANGED <<token, tx>>
    <3>1. TokenAwaits' = TokenAwaits /\ TxAwaits' = TxAwaits
      BY <2>2 DEF TokenAwaits, TxAwaits
    <3>2. WalletAwaits' \in Int /\ WalletAwaits' < WalletAwaits
      BY <1>1, <2>2, WalletGoesOn
    <3>3. TokenAwaits + TxAwaits \in Nat
      BY <2>1
    <3>4. AwaitsLeft = WalletAwaits + (TokenAwaits + TxAwaits)
      BY <2>0, <2>1
    <3>5. AwaitsLeft' = WalletAwaits' + (TokenAwaits + TxAwaits)
      BY <2>0, <2>1, <3>1, <3>2
    <3> QED
      BY <2>1, <3>2, <3>3, <3>4, <3>5, FewerInAll
  <2>3. CASE TokenStep /\ UNCHANGED <<labelVars, wallet, tx>>
    <3>1. WalletAwaits' = WalletAwaits /\ TxAwaits' = TxAwaits
      BY <2>3 DEF WalletAwaits, TxAwaits, ReadBound
    <3>2. TokenAwaits' \in Int /\ TokenAwaits' < TokenAwaits
      BY <1>1, <2>3, TokenGoesOn
    <3>3. WalletAwaits + TxAwaits \in Nat
      BY <2>1
    <3>4. AwaitsLeft = TokenAwaits + (WalletAwaits + TxAwaits)
      BY <2>0, <2>1
    <3>5. AwaitsLeft' = TokenAwaits' + (WalletAwaits + TxAwaits)
      BY <2>0, <2>1, <3>1, <3>2
    <3> QED
      BY <2>1, <3>2, <3>3, <3>4, <3>5, FewerInAll
  <2>4. CASE TxStep /\ UNCHANGED <<rpc, wallet, token>>
    <3>1. WalletAwaits' = WalletAwaits /\ TokenAwaits' = TokenAwaits
      BY <2>4 DEF WalletAwaits, TokenAwaits, ReadBound
    <3>2. TxAwaits' \in Int /\ TxAwaits' < TxAwaits
      BY <1>1, <2>4, TxGoesOn
    <3>3. WalletAwaits + TokenAwaits \in Nat
      BY <2>1
    <3>4. AwaitsLeft = TxAwaits + (WalletAwaits + TokenAwaits)
      BY <2>0, <2>1
    <3>5. AwaitsLeft' = TxAwaits' + (WalletAwaits + TokenAwaits)
      BY <2>0, <2>1, <3>1, <3>2
    <3> QED
      BY <2>1, <3>2, <3>3, <3>4, <3>5, FewerInAll
  <2>5. CASE Retry /\ UNCHANGED <<labelVars, wallet, token, tx>>
    <3>1. WalletAwaits' = WalletAwaits /\ TokenAwaits' = TokenAwaits /\ TxAwaits' = TxAwaits
      BY <2>5 DEF WalletAwaits, TokenAwaits, TxAwaits, ReadBound
    <3>2. rpc'.attempt = rpc.attempt + 1 /\ rpc.attempt \in Nat
      BY <1>1, <2>5 DEF Retry, RetryInv
    <3>3. AwaitsLeft' = AwaitsLeft /\ AwaitsLeft' <= AwaitsLeft
      BY <2>0, <2>1, <3>1
    <3> QED
      BY <3>2, <3>3
  <2> QED
    BY <1>1, <2>2, <2>3, <2>4, <2>5 DEF Step
<1>2. ASSUME I, Environment \/ Restart PROVE AwaitsLeft' <= AwaitsLeft
  <2>1. WalletAwaits \in Nat /\ TokenAwaits \in Nat /\ TxAwaits \in Nat
    BY <1>2, AwaitsAreNat
  <2>2. CASE Restart
    <3>1. wallet'.at = "idle" /\ token'.at = "idle" /\ tx'.at = "idle"
      BY <2>2 DEF Restart, NoWallet, NoToken, NoTx
    <3>2. WalletAwaits' = 0 /\ TokenAwaits' = 0 /\ TxAwaits' = 0
      BY <3>1 DEF WalletAwaits, TokenAwaits, TxAwaits, ReadStates
    <3> QED
      BY <2>1, <3>2 DEF AwaitsLeft
  <2>3. CASE Environment
    <3>1. wallet' = wallet /\ token' = token
      BY <2>3 DEF Environment
    <3>2. tx'.at = tx.at
      <4>1. IsTx(tx)
        BY <1>2 DEF TxInv
      <4> QED
        BY <2>3, <4>1, TxFieldsAre DEF Environment, BalanceMoves, IsTx
    <3>3. AwaitsLeft' = AwaitsLeft
      BY <3>1, <3>2 DEF AwaitsLeft, WalletAwaits, TokenAwaits, TxAwaits, ReadBound
    <3> QED
      BY <2>1, <3>3 DEF AwaitsLeft
  <2> QED
    BY <1>2, <2>2, <2>3
<1>3. ASSUME I, Next PROVE (Step => Forward) /\ (~Idle => AwaitsLeft' <= AwaitsLeft)
  <2>1. Step => AwaitsLeft' <= AwaitsLeft /\ Forward
    BY <1>1, <1>3
  <2>2. Environment \/ Restart => (~Idle => AwaitsLeft' <= AwaitsLeft)
    BY <1>2, <1>3
  <2>3. Ask => Idle
    BY DEF Ask
  <2> QED
    BY <1>3, <2>1, <2>2, <2>3 DEF Next
<1>4. I /\ [Next]_vars => [(Step => Forward) /\ (~Idle => AwaitsLeft' <= AwaitsLeft)]_vars
  BY <1>3
<1>5. TokenInv /\ [Next]_vars => TokenInv'
  BY NextToken
<1>6. Init => TokenInv
  BY DEF Init, TokenInv, NoToken
<1>7. LabelInv /\ [Next]_vars => LabelInv'
  BY LabelStep
<1> QED
  BY TypeCorrect, ReadsBounded, InitLabels, InitRetry, NextRetry, InitPages, NextPages, InitReads, NextReads,
     InitTx, NextTx, <1>4, <1>5, <1>6, <1>7, PTL DEF Spec, NoCallTurnsBack

-----------------------------------------------------------------------------
(* Deny labels and verdicts. *)

Severity == [ALLOW |-> 0, REVIEW |-> 1, BLOCK |-> 2]

\* A higher score is in no milder band, and asks for no milder verdict.
LEMMA HigherIsHarder ==
  ASSUME NEW m \in 0 .. 100, NEW n \in 0 .. 100, m <= n,
         NEW p \in BOOLEAN, NEW q \in BOOLEAN, p => q, NEW quality
  PROVE  Severity[RecommendationFrom(Band(m), p, quality)]
           <= Severity[RecommendationFrom(Band(n), q, quality)]
<1>1. \A k \in 0 .. 100 :
        /\ Band(k) = "CRITICAL" <=> k >= 75
        /\ Band(k) \in {"HIGH", "MEDIUM"} <=> k \in 25 .. 74
  BY DEF Band
<1> DEFINE a == RecommendationFrom(Band(m), p, quality)
           b == RecommendationFrom(Band(n), q, quality)
<1>2. /\ a \in {"ALLOW", "REVIEW", "BLOCK"} /\ b \in {"ALLOW", "REVIEW", "BLOCK"}
      /\ a = "BLOCK" => b = "BLOCK"
      /\ a = "REVIEW" => b \in {"REVIEW", "BLOCK"}
  BY <1>1 DEF RecommendationFrom
<1> HIDE DEF a, b
<1>3. Severity[a] <= Severity[b]
  BY <1>2 DEF Severity
<1> QED
  BY <1>3 DEF a, b

\* Whatever the chain says of a wallet, and whatever speaks for it, further deny labels
\* (scoring.rs:104-121) never lower its score nor soften what is recommended.
THEOREM DenyLabelsHarden ==
  ASSUME NEW s, NEW allowed \in SUBSET Labels, IsFiniteSet(allowed),
         NEW more \in SUBSET Denials, IsFiniteSet(more), NEW denied \in SUBSET more
  PROVE  /\ ScoreWallet(s, denied, allowed).score <= ScoreWallet(s, more, allowed).score
         /\ Severity[ScoreWallet(s, denied, allowed).recommendation]
              <= Severity[ScoreWallet(s, more, allowed).recommendation]
<1> DEFINE m == WalletScore(s, denied, allowed)
           n == WalletScore(s, more, allowed)
<1>1. /\ IsFiniteSet(denied) /\ denied \in SUBSET Labels /\ more \in SUBSET Labels
      /\ Weight(denied) \in Int /\ Weight(more) \in Int /\ Weight(denied) <= Weight(more)
  <2>1. IsFiniteSet(denied) /\ denied \in SUBSET Labels /\ more \in SUBSET Labels
    BY FS_Subset DEF Denials
  <2> QED
    BY <2>1, WeightIsInt, WeightGrows
<1>2. \E points \in Int : /\ m = Clamp(points + Weight(denied))
                          /\ n = Clamp(points + Weight(more))
  BY <1>1, ScoreIsPoints
<1>3. m \in 0 .. 100 /\ n \in 0 .. 100 /\ m <= n
  BY <1>1, <1>2 DEF Clamp
<1>4. /\ ScoreWallet(s, denied, allowed).score = m /\ ScoreWallet(s, more, allowed).score = n
      /\ ScoreWallet(s, denied, allowed).recommendation
           = RecommendationFrom(Band(m), denied # {}, WalletQuality(s))
      /\ ScoreWallet(s, more, allowed).recommendation
           = RecommendationFrom(Band(n), more # {}, WalletQuality(s))
  BY DEF ScoreWallet
<1> HIDE DEF m, n
<1> QED
  BY <1>3, <1>4, HigherIsHarder
=============================================================================
