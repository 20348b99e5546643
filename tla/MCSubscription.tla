-------------------------- MODULE MCSubscription --------------------------
(* Small instances of Subscription. *)
EXTENDS Subscription, TLC

Interchangeable == Permutations(Calls) \cup Permutations(Payers)
=============================================================================
