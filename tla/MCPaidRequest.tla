--------------------------- MODULE MCPaidRequest ---------------------------
(* Small instances of PaidRequest: the model values of its constants. *)
EXTENDS PaidRequest, TLC

Interchangeable == Permutations(Calls) \cup Permutations(Payments)
=============================================================================
