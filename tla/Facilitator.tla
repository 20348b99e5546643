---------------------------- MODULE Facilitator ----------------------------
(***************************************************************************)
(* The parts of an x402 payment that are not in this repository: the pr402  *)
(* facilitator behind X402_FACILITATOR_URL and the Solana ledger on which   *)
(* it settles.  Everything here is EXTERNAL and is modelled from how        *)
(* x402/facilitator.rs uses it: POST /settle hands a signed transaction to  *)
(* the ledger, and answers success, "already been processed", or an error.  *)
(***************************************************************************)
CONSTANTS
  Calls,     \* concurrent invocations of the serverless function
  Payments   \* payment transactions that buyers have signed

VARIABLES
  chain,     \* what the ledger knows of each payment
  post       \* the POST /settle of each call, as the facilitator sees it

facilitatorVars == <<chain, post>>

\* "sent": in flight, may still land.  "expired": its blockhash is too old.
ChainStates == {"signed", "sent", "landed", "expired"}

\* A finished post is "ok", "duplicate" (the ledger had it already) or "fail".
PostStates == {"none", "posted", "confirming", "ok", "duplicate", "fail"}

FacilitatorTypeOK ==
  /\ chain \in [Payments -> ChainStates]
  /\ post \in [Calls -> PostStates]

FacilitatorInit ==
  /\ chain = [p \in Payments |-> "signed"]
  /\ post = [c \in Calls |-> "none"]

-----------------------------------------------------------------------------
\* The facilitator submits the transaction of call c's post, which pays p.
SubmitSettle(c, p) ==
  /\ post[c] = "posted"
  /\ \/ /\ chain[p] \in {"signed", "sent"}
        /\ chain' = [chain EXCEPT ![p] = "sent"]
        /\ post' = [post EXCEPT ![c] = "confirming"]
     \/ /\ chain[p] = "landed"
        /\ post' = [post EXCEPT ![c] = "duplicate"]
        /\ UNCHANGED chain
     \/ /\ chain[p] = "expired"
        /\ post' = [post EXCEPT ![c] = "fail"]
        /\ UNCHANGED chain

\* It learns the fate of a transaction it submitted.
ConfirmSettle(c, p) ==
  /\ post[c] = "confirming"
  /\ chain[p] \in {"landed", "expired"}
  /\ post' = [post EXCEPT ![c] = IF chain[p] = "landed" THEN "ok" ELSE "fail"]
  /\ UNCHANGED chain

\* It stops waiting for a confirmation: an error, although p may still land.
GiveUpSettle(c, p) ==
  /\ post[c] = "confirming"
  /\ chain[p] = "sent"
  /\ post' = [post EXCEPT ![c] = "fail"]
  /\ UNCHANGED chain

\* The buyer is charged.
ChainLand(p) ==
  /\ chain[p] = "sent"
  /\ chain' = [chain EXCEPT ![p] = "landed"]
  /\ UNCHANGED post

ChainExpire(p) ==
  /\ chain[p] \in {"signed", "sent"}
  /\ chain' = [chain EXCEPT ![p] = "expired"]
  /\ UNCHANGED post
=============================================================================
