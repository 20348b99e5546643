---------------------------- MODULE PaidService ----------------------------
(***************************************************************************)
(* What the service promises its buyers, without saying how: an exchange is *)
(* refused, or it is granted against a charged payment (or a subscription,  *)
(* or for free), and once granted its answer, good or bad, carries the      *)
(* receipt of that payment.                                                 *)
(***************************************************************************)
CONSTANTS
  Calls,
  Payments,
  Creds,       \* what a buyer may present, Payments among it
  NoReceipt,
  Free

VARIABLES
  stage,    \* of each exchange
  cred,     \* what its buyer presents
  answer,   \* what its buyer is told
  charged   \* the payments that have been taken

vars == <<stage, cred, answer, charged>>

NoAnswer == [served |-> FALSE, receipt |-> NoReceipt]

Init ==
  /\ stage = [c \in Calls |-> "closed"]
  /\ cred = [c \in Calls |-> NoReceipt]
  /\ answer = [c \in Calls |-> NoAnswer]
  /\ charged = {}

Open(c) ==
  /\ stage[c] = "closed"
  /\ stage' = [stage EXCEPT ![c] = "open"]
  /\ \E x \in Creds : cred' = [cred EXCEPT ![c] = x]
  /\ UNCHANGED <<answer, charged>>

\* The ledger takes a payment, perhaps after its exchange has ended.
Charge(p) ==
  /\ charged' = charged \cup {p}
  /\ UNCHANGED <<stage, cred, answer>>

Refuse(c) ==
  /\ stage[c] = "open"
  /\ stage' = [stage EXCEPT ![c] = "answered"]
  /\ UNCHANGED <<cred, answer, charged>>

Grant(c) ==
  /\ stage[c] = "open"
  /\ Free \/ cred[c] \in charged \cup {"bearer"}
  /\ stage' = [stage EXCEPT ![c] = "granted"]
  /\ UNCHANGED <<cred, answer, charged>>

Receipt(c) == IF cred[c] \in Payments /\ ~Free THEN cred[c] ELSE NoReceipt

Conclude(c, served) ==
  /\ stage[c] = "granted"
  /\ stage' = [stage EXCEPT ![c] = "answered"]
  /\ answer' = [answer EXCEPT ![c] = [served |-> served, receipt |-> Receipt(c)]]
  /\ UNCHANGED <<cred, charged>>

\* The buyer has the answer, or the exchange broke before it had one.
Close(c) ==
  /\ stage[c] # "closed"
  /\ stage' = [stage EXCEPT ![c] = "closed"]
  /\ cred' = [cred EXCEPT ![c] = NoReceipt]
  /\ answer' = [answer EXCEPT ![c] = NoAnswer]
  /\ UNCHANGED charged

Next ==
  \/ \E c \in Calls : \/ Open(c) \/ Refuse(c) \/ Grant(c) \/ Close(c)
                      \/ \E served \in BOOLEAN : Conclude(c, served)
  \/ \E p \in Payments : Charge(p)

Spec == Init /\ [][Next]_vars
=============================================================================
