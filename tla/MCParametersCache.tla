------------------------- MODULE MCParametersCache -------------------------
(* Small instances of ParametersCache: rows of this service and of another. *)
EXTENDS ParametersCache, TLC

CONSTANTS wallet, tx

Row(own, endpoint, deprecated) ==
  [own |-> own, endpoint |-> endpoint, deprecated |-> deprecated]

MCEndpoints == {wallet, tx}
Mine     == Row(TRUE, wallet, FALSE)
ForAll   == Row(TRUE, Everywhere, FALSE)
OldName  == Row(TRUE, tx, TRUE)
AnOthers == Row(FALSE, wallet, FALSE)

OldForAll == Row(TRUE, Everywhere, TRUE)

MCRows == {Mine, ForAll, OldName, OldForAll, AnOthers}
MCTables ==
  {{}, {AnOthers}, {AnOthers, OldName}, {OldName, OldForAll}, {OldName, ForAll}, MCRows}

\* As in migrations/parameters-seed-mainnet.sql: a row for each endpoint.
MCSeed == {Row(TRUE, e, FALSE) : e \in MCEndpoints}
MCSeedOnly == {MCSeed}
Interchangeable == Permutations(Calls)
=============================================================================
