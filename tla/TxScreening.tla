---------------------------- MODULE TxScreening ----------------------------
(***************************************************************************)
(* tx-risk after the gate: the static analysis of a decoded transaction,    *)
(* the simulation that enriches it (signals/tx.rs), without retries, and    *)
(* the verdict.  Balances are read before the simulation runs, and other    *)
(* transfers may take from them in between.                                 *)
(***************************************************************************)
EXTENDS LabelCache, Scoring

CONSTANTS
  Txs,             \* the transactions asked about
  Instructions,    \* of each: a sequence of programs and what they are told to do
  UsesTables,      \* of each: it names address lookup tables
  Effect,          \* of each: what it would do to its subject
  Taken,           \* what another transfer takes of an account
  TokenPrograms,   \* SPL Token and Token-2022
  KnownSafe        \* is_known_safe; the token programs among them

Beyond == "beyond"   \* a program that only a lookup table names
Kinds == {"set authority", "approve", "close account", "other"}

ASSUME TxAssumption ==
  /\ Taken \in Nat
  /\ Beyond \notin Addresses
  /\ Instructions \in [Txs -> Seq([program : Addresses \cup {Beyond}, kind : Kinds])]
  /\ UsesTables \in [Txs -> BOOLEAN]
  /\ TokenPrograms \subseteq KnownSafe /\ KnownSafe \subseteq Addresses
  /\ \A t \in Txs : /\ Effect[t].fails \in BOOLEAN /\ Effect[t].sol \in Int
                    /\ Effect[t].touched \in Seq([pre : Nat, post : Nat])   \* 0 if closed

VARIABLE tx   \* the tx-risk call

\* hits to balance are what it read; slots, unparsed and moved say what the node did:
\* the accounts it returned, those that do not parse, and those that others took from
\* since they were read.  Slot 0 is the subject, slot i its token account i.
NoTx == [at |-> "idle", tx |-> "none", hits |-> 0, accounts |-> FALSE, balance |-> FALSE,
         moved |-> {}, slots |-> 0, unparsed |-> {},
         fails |-> FALSE, sol |-> {}, tokens |-> {}, verdict |-> NoVerdict]

-----------------------------------------------------------------------------
Told(t, kind) ==
  Cardinality({i \in DOMAIN Instructions[t] : /\ Instructions[t][i].program \in TokenPrograms
                                              /\ Instructions[t][i].kind = kind})
Programs(t) == {Instructions[t][i].program : i \in DOMAIN Instructions[t]}
Touched(t) == DOMAIN Effect[t].touched
Delta(t, i) == Effect[t].touched[i].post - Effect[t].touched[i].pre

\* One hit for each label of each instruction's program.
DenyHits(t) ==
  Cardinality({hit \in (DOMAIN Instructions[t]) \X labels.deny :
                 Instructions[t][hit[1]].program = hit[2].address})

\* analyze: a program that a table names is not assumed safe.
StaticSignals(t, hits) ==
  [instructions |-> Len(Instructions[t]), denied |-> hits,
   handoffs |-> Told(t, "set authority"), delegations |-> Told(t, "approve"),
   closes |-> Told(t, "close account"),
   lookups |-> UsesTables[t] \/ Beyond \in Programs(t),
   unknown |-> Programs(t) \ (KnownSafe \cup {Beyond}),
   fails |-> FALSE, sol |-> {}, tokens |-> {}]

\* The signals handle_tx_risk scores: the static ones and what the simulation added.
TxSignals(x) ==
  [StaticSignals(x.tx, x.hits) EXCEPT !.fails = x.fails, !.sol = x.sol, !.tokens = x.tokens]

\* The simulated balance of a slot.
Left(x, i, amount) ==
  IF i \notin x.moved THEN amount ELSE IF amount < Taken THEN 0 ELSE amount - Taken

SolChanges(x) ==
  IF x.balance /\ x.slots > 0 /\ 0 \notin x.unparsed
  THEN {Effect[x.tx].sol - (IF 0 \in x.moved THEN Taken ELSE 0)} ELSE {}

\* Mutant: an account the node did not return would count as empty.
TokenChangesZeroed(x) ==
  {(IF i >= x.slots \/ i \in x.unparsed THEN 0 ELSE Left(x, i, Effect[x.tx].touched[i].post))
     - Effect[x.tx].touched[i].pre : i \in {j \in Touched(x.tx) : x.accounts}} \ {0}

\* compute_token_deltas: accounts the node did not return are left out; the balance
\* of one that does not parse as a token account is 0.
TokenChanges(x) ==
  {(IF i \in x.unparsed THEN 0 ELSE Left(x, i, Effect[x.tx].touched[i].post))
     - Effect[x.tx].touched[i].pre : i \in {j \in Touched(x.tx) : x.accounts /\ j < x.slots}} \ {0}

Screen(x) == tx' = [x EXCEPT !.at = "screened", !.verdict = ScoreTx(TxSignals(x))]

-----------------------------------------------------------------------------
\* decode_tx and analyze, with the labels there are.  An owner that is no public key
\* leaves nothing to simulate for.
AskTx ==
  /\ tx.at = "idle"
  /\ StartStanding
  /\ \E t \in Txs :
       LET x == [NoTx EXCEPT !.at = "accounts", !.tx = t, !.hits = DenyHits(t)]
       IN tx' = x \/ Screen(x)
  /\ UNCHANGED <<labelTable, labels, fetched>>

TokenAccountsRead ==
  /\ tx.at = "accounts"
  /\ \E ok \in BOOLEAN : tx' = [tx EXCEPT !.at = "balance", !.accounts = ok]
  /\ UNCHANGED labelVars

PreBalanceRead ==
  /\ tx.at = "balance"
  /\ \E ok \in BOOLEAN : tx' = [tx EXCEPT !.at = "simulate", !.balance = ok]
  /\ UNCHANGED labelVars

\* Another transfer takes from an account whose balance has been read.
BalanceMoves ==
  /\ tx.at \in {"balance", "simulate"}
  /\ \E i \in (IF tx.balance THEN {0} ELSE {}) \cup (IF tx.accounts THEN Touched(tx.tx) ELSE {}) :
       tx' = [tx EXCEPT !.moved = @ \cup {i}]
  /\ UNCHANGED labelVars

\* The node returns the accounts asked for in order, the subject first: all of them,
\* some or none, and some that do not parse.
SimulateAnswers ==
  /\ tx.at = "simulate"
  /\ LET asked == 1 + (IF tx.accounts THEN Len(Effect[tx.tx].touched) ELSE 0)
     IN \E slots \in 0 .. asked : \E unparsed \in SUBSET (0 .. slots - 1) :
          LET x == [tx EXCEPT !.slots = slots, !.unparsed = unparsed]
          IN Screen([x EXCEPT !.fails = Effect[tx.tx].fails,
                              !.sol = SolChanges(x), !.tokens = TokenChanges(x)])
  /\ UNCHANGED labelVars

\* SimOutcome::none: the static verdict stands.
SimulateFails ==
  /\ tx.at = "simulate"
  /\ Screen(tx)
  /\ UNCHANGED labelVars

AnswerTx ==
  /\ tx.at = "screened"
  /\ tx' = NoTx
  /\ UNCHANGED labelVars

TxStep == TokenAccountsRead \/ PreBalanceRead \/ SimulateAnswers \/ SimulateFails \/ AnswerTx
=============================================================================
