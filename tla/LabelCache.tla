---------------------------- MODULE LabelCache ----------------------------
(***************************************************************************)
(* The label cache of one instance (signals/labels.rs): compiled-in labels  *)
(* until the table has been read once, then the table's, read again when    *)
(* they are older than the time to live.  Only wallet-risk refreshes them;  *)
(* wallet-risk and tx-risk use them.                                        *)
(***************************************************************************)
EXTENDS Integers, FiniteSets

CONSTANTS
  Addresses,       \* accounts of the ledger: wallets, funders, programs
  StaticLabels,    \* denylist.jsonl and allowlist.jsonl
  LabelTables      \* what the table wallet_labels may hold

\* One label of one address; two labels of an address differ in weight.
Labels == [address : Addresses, weight : Int]

ASSUME LabelsAssumption ==
  /\ StaticLabels \subseteq Labels /\ IsFiniteSet(StaticLabels)
  /\ LabelTables \subseteq SUBSET Labels
  /\ \A t \in LabelTables : IsFiniteSet(t)

VARIABLES
  labelTable,   \* wallet_labels
  labels,       \* LABEL_CACHE: the deny index and the allow index
  fetched,      \* last_fetch: never, within the time to live, or before that
  standing      \* history: what the deny index has held ever since the call began

labelVars == <<labelTable, labels, fetched, standing>>

\* A label of weight 0 counts as an allow label.
Split(rows) == [deny |-> {l \in rows : l.weight > 0}, allow |-> {l \in rows : l.weight <= 0}]
Lookup(index, address) == {l \in index : l.address = address}
Listed(index, address) == Lookup(index, address) # {}

LabelTypeOK ==
  /\ labelTable \in LabelTables
  /\ labels.deny \subseteq Labels /\ labels.allow \subseteq Labels
  /\ fetched \in {"never", "fresh", "stale"}
  /\ standing \subseteq labels.deny

LabelInit ==
  /\ labelTable \in LabelTables
  /\ labels = Split(StaticLabels)
  /\ fetched = "never"
  /\ standing = {}

Hold(index) ==
  /\ labels' = index
  /\ standing' = standing \cap index.deny

-----------------------------------------------------------------------------
\* Someone edits the table.
EditLabels ==
  /\ labelTable' \in LabelTables
  /\ UNCHANGED <<labels, fetched, standing>>

\* The time to live passes.
LabelsAge ==
  /\ fetched = "fresh"
  /\ fetched' = "stale"
  /\ UNCHANGED <<labelTable, labels, standing>>

\* Mutant: an index would be replaced only by one that is not empty.
HoldEach(rows) ==
  Hold([deny  |-> IF Split(rows).deny = {} THEN labels.deny ELSE Split(rows).deny,
        allow |-> IF Split(rows).allow = {} THEN labels.allow ELSE Split(rows).allow])

\* Both indexes are replaced together, under the write lock.
StoreRows(rows) == Hold(Split(rows))

\* refresh_labels_from_db.  An empty table and a failed query leave the labels
\* there were, those of an earlier refresh or the compiled-in ones, and leave
\* last_fetch, so that the next wallet call asks again.
Refresh ==
  \/ /\ fetched = "fresh"
     /\ UNCHANGED <<labels, fetched, standing>>
  \/ /\ fetched # "fresh"
     /\ labelTable # {}
     /\ StoreRows(labelTable)
     /\ fetched' = "fresh"
  \/ /\ fetched # "fresh"
     /\ UNCHANGED <<labels, fetched, standing>>

\* The call of another invocation on this instance.
RefreshByOther ==
  /\ fetched # "fresh"
  /\ Refresh
  /\ UNCHANGED labelTable

\* The process starts afresh.
ForgetLabels ==
  /\ labels' = Split(StaticLabels)
  /\ fetched' = "never"
  /\ standing' = {}
  /\ UNCHANGED labelTable

\* A call begins to use the labels.
StartStanding == standing' = labels.deny

-----------------------------------------------------------------------------
\* Both indexes always come from one reading of the table, or both from the seeds: a
\* table that shrinks, empties, fails or is edited between refreshes never leaves the
\* deny labels of one moment beside the allow labels of another.
LabelsAreOneTable ==
  labels \in {Split(t) : t \in LabelTables \cup {StaticLabels}}
=============================================================================
