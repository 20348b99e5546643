---------------------------- MODULE MCRateLimit ----------------------------
(* Small instances of RateLimit: the model values of its constants. *)
EXTENDS RateLimit, TLC

Interchangeable == Permutations(Calls)
=============================================================================
