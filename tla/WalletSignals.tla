--------------------------- MODULE WalletSignals ---------------------------
(***************************************************************************)
(* wallet-risk after the gate (api/handlers.rs): refresh the labels, read   *)
(* the chain (signals/chain.rs), trace where the first funds came from      *)
(* (signals/funding.rs), look into recent transactions                      *)
(* (signals/activity.rs), and score.  Every read goes through with_retry,   *)
(* and none that fails ends the call.                                       *)
(***************************************************************************)
EXTENDS RpcRetry, LabelCache, Scoring

CONSTANTS
  Wallets,        \* the addresses asked about
  History,        \* of each address: the ages in days of its signatures, newest first
  Genesis,        \* of each address: its first transaction
  Recent,         \* of each wallet: its transactions of the last 30 days, newest first
  Lamports, TokenAccounts,             \* of each wallet
  MaxPages, MaxHops, HopPages, MaxParse  \* SOLRISK_MAX_SIG_PAGES, ..._MAX_FUNDER_HOPS, ...

None == "none"
NoTime == -1      \* a signature without a block time
PageSize == 100

ASSUME WalletAssumption ==
  /\ Wallets \subseteq Addresses /\ None \notin Addresses
  /\ History \in [Addresses -> Seq(Nat \cup {NoTime})]
  /\ \A a \in Wallets : Lamports[a] \in Nat /\ TokenAccounts[a] \in Nat
  /\ MaxPages \in Nat /\ MaxParse \in Nat
  /\ \A a \in Wallets :
       Least(MaxParse, Cardinality({i \in DOMAIN History[a] : History[a][i] \in 0 .. 30}))
         <= Len(Recent[a])
  /\ MaxHops \in Nat \ {0} /\ HopPages \in Nat \ {0}   \* .max(1)

\* A transaction: its accounts, those that are programs, and the balances of all of
\* them before and after it.
Transfers == [keys : Seq(Addresses), programs : SUBSET Addresses, pre : Seq(Nat), post : Seq(Nat)]

ASSUME TransfersAssumption ==
  Genesis \in [Addresses -> Transfers] /\ Recent \in [Wallets -> Seq(Transfers)]

VARIABLE wallet   \* the wallet-risk call

\* The awaits of a call.  All but "refresh" and the last three wait for a read.
ReadStates == {"balance", "accounts", "pages", "genesis", "hop", "hop_genesis", "activity"}
Hops == [address : Addresses, labelled : BOOLEAN]

NoWallet ==
  [at |-> "idle", subject |-> None, lamports |-> 0, accounts |-> 0,
   pages |-> 0, genesis |-> FALSE, chain |-> <<>>, hopPages |-> 0, source |-> None,
   index |-> {}, tried |-> 0, parsed |-> 0, parties |-> {}, denied |-> {},
   reads |-> 0, verdict |-> NoVerdict]

-----------------------------------------------------------------------------
\* extract_funder: the account that lost most in a transaction in which the wallet
\* received.  Lookup tables put balances and keys out of line: no answer then.
Lost(t, i) == t.pre[i] - t.post[i]
InLine(t) == Len(t.pre) = Len(t.keys) /\ Len(t.post) = Len(t.keys)

Funder(t, a) ==
  LET losers == {i \in DOMAIN t.keys : t.keys[i] # a /\ Lost(t, i) > 0}
      most   == {i \in losers : \A j \in losers : Lost(t, j) < Lost(t, i)
                                                  \/ (Lost(t, j) = Lost(t, i) /\ i <= j)}
  IN IF /\ InLine(t)
        /\ \E i \in DOMAIN t.keys : t.keys[i] = a /\ Lost(t, i) < 0
        /\ losers # {}
     THEN t.keys[CHOOSE i \in most : TRUE] ELSE None

\* extract: the accounts, other than the wallet and the programs, whose balance moved.
Counterparties(t, a) ==
  IF InLine(t)
  THEN {t.keys[i] : i \in {j \in DOMAIN t.keys : Lost(t, j) # 0}} \ ({a} \cup t.programs)
  ELSE {}

-----------------------------------------------------------------------------
IsLast(a, page) == Len(History[a]) < page * PageSize

\* What the signatures of so many pages say.  A signature without a time is counted
\* and not aged; age 0 stands for no time at all.
Seen(a, pages) == 1 .. Least(Len(History[a]), pages * PageSize)
Within(a, pages, days) == {i \in Seen(a, pages) : History[a][i] \in 0 .. days}
Ages(a, pages) == {History[a][i] : i \in Seen(a, pages)} \ {NoTime}
Aggregate ==
  [a \in Wallets |-> [pages \in 0 .. MaxPages |->
     [total |-> Cardinality(Seen(a, pages)), age |-> Max(Ages(a, pages) \cup {0}),
      tx30 |-> Cardinality(Within(a, pages, 30)), active48 |-> Within(a, pages, 2) # {}]]]
Totals(w) == Aggregate[w.subject][w.pages]
ToParse(w) == Least(MaxParse, Totals(w).tx30)

SignalsOf(w) ==
  [age |-> Totals(w).age, total |-> Totals(w).total, tx30 |-> Totals(w).tx30,
   active48 |-> Totals(w).active48, fresh |-> Totals(w).age < 1 /\ Totals(w).total < 5,
   lamports |-> w.lamports, accounts |-> w.accounts, pages |-> w.pages,
   source |-> w.source, chain |-> w.chain,
   parties |-> Cardinality(w.parties), estimated |-> w.parsed = 0,
   flagged |-> {p \in w.parties : Listed(w.index, p)}]

-----------------------------------------------------------------------------
\* What a call may read: the balance, the accounts, the pages, the first transaction of
\* the wallet and of every funder but the last with the pages before it, and the recent
\* transactions.  The count goes no further than one past it.
ReadBound == 2 + MaxPages + 1 + (MaxHops - 1) * (HopPages + 1) + MaxParse

\* The call goes on to its next await; one that reads begins a with_retry.
Proceed(w) ==
  IF w.at \in ReadStates
  THEN wallet' = [w EXCEPT !.reads = Least(@, ReadBound) + 1] /\ rpc' = FirstAttempt
  ELSE wallet' = w /\ rpc' = NoRead

\* analyze_recent_activity takes one copy of the deny index for all it parses.
StartActivity(w) ==
  IF ToParse(w) = 0 THEN [w EXCEPT !.at = "score"]
  ELSE [w EXCEPT !.at = "activity", !.index = labels.deny]

EndTrace(w, source) == StartActivity([w EXCEPT !.source = source])

\* Without its first transaction nothing is said of a wallet's funder.
StartTrace(w) ==
  IF ~w.genesis THEN EndTrace(w, "partial_history")
  ELSE IF History[w.subject] = <<>> THEN EndTrace(w, "no_history")
  ELSE [w EXCEPT !.at = "genesis"]

\* Mutant: the hop budget would be checked one hop late.
VisitOneMore(w, a) ==
  LET labelled == Listed(labels.deny, a)
      x == [w EXCEPT !.chain = Append(@, [address |-> a, labelled |-> labelled]), !.hopPages = 0]
  IN IF labelled THEN EndTrace(x, "labeled_bad")
     ELSE IF Len(x.chain) > MaxHops THEN EndTrace(x, "traced_clean")
     ELSE [x EXCEPT !.at = "hop"]

\* One turn of the loop of trace_funder, up to its next await: label the funder, and
\* stop at a bad source or at the hop budget.
Visit(w, a) ==
  LET labelled == Listed(labels.deny, a)
      x == [w EXCEPT !.chain = Append(@, [address |-> a, labelled |-> labelled]), !.hopPages = 0]
  IN IF labelled THEN EndTrace(x, "labeled_bad")
     ELSE IF Len(x.chain) >= MaxHops THEN EndTrace(x, "traced_clean")
     ELSE [x EXCEPT !.at = "hop"]

-----------------------------------------------------------------------------
AskWallet ==
  /\ wallet.at = "idle"
  /\ \E s \in Wallets : wallet' = [NoWallet EXCEPT !.at = "refresh", !.subject = s]
  /\ StartStanding
  /\ UNCHANGED <<rpc, labelTable, labels, fetched>>

RefreshForWallet ==
  /\ wallet.at = "refresh"
  /\ Refresh
  /\ Proceed([wallet EXCEPT !.at = "balance"])
  /\ UNCHANGED labelTable

\* getBalance, then getTokenAccountsByOwner: a failure counts as zero.
BalanceRead(ok) ==
  /\ wallet.at = "balance"
  /\ Proceed([wallet EXCEPT !.at = "accounts",
                            !.lamports = IF ok THEN Lamports[wallet.subject] ELSE 0])

AccountsRead(ok) ==
  /\ wallet.at = "accounts"
  /\ LET w == [wallet EXCEPT !.at = "pages",
                             !.accounts = IF ok THEN TokenAccounts[wallet.subject] ELSE 0]
     IN Proceed(IF MaxPages = 0 THEN StartTrace(w) ELSE w)

\* Mutant: a page that fails would end the history like a short one.
PageReadOrEnd(ok) ==
  /\ wallet.at = "pages"
  /\ LET page == wallet.pages + 1
         w == IF ok THEN [wallet EXCEPT !.pages = page, !.genesis = IsLast(wallet.subject, page)]
                    ELSE [wallet EXCEPT !.genesis = TRUE]
     IN Proceed(IF ~ok \/ w.genesis \/ page = MaxPages THEN StartTrace(w) ELSE w)

\* Only a page of fewer than 100 signatures shows the beginning of the history.  A
\* page that fails ends the reading, not the call.
PageRead(ok) ==
  /\ wallet.at = "pages"
  /\ LET page == wallet.pages + 1
         w == IF ok THEN [wallet EXCEPT !.pages = page, !.genesis = IsLast(wallet.subject, page)]
                    ELSE wallet
     IN Proceed(IF ~ok \/ w.genesis \/ page = MaxPages THEN StartTrace(w) ELSE w)

\* fetch_funder_from_sig for the wallet itself.
GenesisRead(ok) ==
  /\ wallet.at = "genesis"
  /\ LET a == Funder(Genesis[wallet.subject], wallet.subject)
     IN Proceed(IF ok /\ a # None THEN Visit(wallet, a)
                ELSE EndTrace(wallet, "genesis_untraceable"))

\* funder_of: page back to the first transaction of the last funder found.
HopPageRead(ok) ==
  /\ wallet.at = "hop"
  /\ LET current == wallet.chain[Len(wallet.chain)].address
         page == wallet.hopPages + 1
     IN Proceed(IF ok /\ IsLast(current, page) /\ History[current] # <<>>
                THEN [wallet EXCEPT !.at = "hop_genesis"]
                ELSE IF ok /\ ~IsLast(current, page) /\ page < HopPages
                THEN [wallet EXCEPT !.hopPages = page]
                ELSE EndTrace(wallet, "traced_clean"))

HopGenesisRead(ok) ==
  /\ wallet.at = "hop_genesis"
  /\ LET current == wallet.chain[Len(wallet.chain)].address
         a == Funder(Genesis[current], current)
     IN Proceed(IF ok /\ a # None THEN Visit(wallet, a) ELSE EndTrace(wallet, "traced_clean"))

\* A transaction that is read counts as parsed even if it cannot be mapped.
ActivityRead(ok) ==
  /\ wallet.at = "activity"
  /\ LET i == wallet.tried + 1
         w == [wallet EXCEPT !.tried = i, !.parsed = IF ok THEN @ + 1 ELSE @,
                 !.parties = IF ok THEN @ \cup Counterparties(Recent[wallet.subject][i], wallet.subject)
                             ELSE @]
     IN Proceed(IF i = ToParse(wallet) THEN [w EXCEPT !.at = "score"] ELSE w)

\* Mutant: the labels of the activity parse would be used again.
LookUpOld ==
  /\ wallet.at = "score"
  /\ Proceed([wallet EXCEPT !.at = "weigh", !.denied = Lookup(wallet.index, wallet.subject)])
  /\ UNCHANGED labelVars

\* score_wallet takes the deny index, and later the allow index: two locks.
LookUpDeny ==
  /\ wallet.at = "score"
  /\ Proceed([wallet EXCEPT !.at = "weigh", !.denied = Lookup(labels.deny, wallet.subject)])
  /\ UNCHANGED labelVars

WeighWallet ==
  /\ wallet.at = "weigh"
  /\ Proceed([wallet EXCEPT !.at = "scored", !.verdict =
       ScoreWallet(SignalsOf(wallet), wallet.denied, Lookup(labels.allow, wallet.subject))])
  /\ UNCHANGED labelVars

AnswerWallet ==
  /\ wallet.at = "scored"
  /\ wallet' = NoWallet
  /\ UNCHANGED <<rpc, labelVars>>

WalletRead ==
  /\ \E ok \in BOOLEAN :
       /\ Returns(ok)
       /\ \/ BalanceRead(ok) \/ AccountsRead(ok) \/ PageRead(ok) \/ GenesisRead(ok)
          \/ HopPageRead(ok) \/ HopGenesisRead(ok) \/ ActivityRead(ok)
  /\ UNCHANGED labelVars

WalletStep == RefreshForWallet \/ WalletRead \/ LookUpDeny \/ WeighWallet \/ AnswerWallet
=============================================================================
