----------------------------- MODULE RpcRetry -----------------------------
(***************************************************************************)
(* with_retry (rpc_retry.rs): one read of the chain, tried again while the  *)
(* error looks transient, attempts are left and the wall budget is not      *)
(* spent.  A call reads one thing after another, so one variable holds the  *)
(* read it waits for; the modules that EXTEND this one say what it reads.   *)
(***************************************************************************)
EXTENDS Integers

CONSTANTS
  MaxAttempts,   \* SOLRISK_RPC_MAX_ATTEMPTS
  Backoff,       \* SOLRISK_RPC_INITIAL_BACKOFF_MS
  Budget,        \* SOLRISK_RPC_TOTAL_BUDGET_MS
  MaxOp          \* the longest one request takes: the timeout of the HTTP client

\* RetryPolicy::from_env clamps all three to positive values.
ASSUME PolicyAssumption ==
  /\ MaxAttempts \in Nat \ {0} /\ Backoff \in Nat \ {0} /\ Budget \in Nat \ {0}
  /\ MaxOp \in Nat

VARIABLE rpc   \* the running with_retry: its attempt, and the time spent before it

NoRead == [attempt |-> 0, spent |-> 0]
FirstAttempt == [attempt |-> 1, spent |-> 0]
Reading == rpc.attempt > 0

RpcTypeOK ==
  rpc \in {NoRead} \cup [attempt : Nat \ {0}, spent : Nat]

\* retryable_reason.  A request that did not get through, a response cut short, and a
\* response whose words say that the node is busy are tried again; a refused request,
\* any other response and the errors of signing and of transactions are not.
Transient == {"transport", "truncated", "busy response"}
Terminal  == {"invalid params", "preflight failure", "other response", "not a read"}
ErrorKinds == Transient \cup Terminal

Least(a, b) == IF a <= b THEN a ELSE b
BudgetLeft(took) == IF rpc.spent + took >= Budget THEN 0 ELSE Budget - (rpc.spent + took)

WillRetry(kind, took) ==
  /\ kind \in Transient
  /\ rpc.attempt < MaxAttempts
  /\ BudgetLeft(took) > 1

\* Mutant: the wait would not be cut to the budget.
WholeBackoff(took) == 0 .. Backoff * 2^(rpc.attempt - 1)
\* Exponential backoff with full jitter; a wait that uses the budget up is not begun.
Waits(took) ==
  {sleep \in 0 .. Least(Backoff * 2^(rpc.attempt - 1), BudgetLeft(took)) : sleep < BudgetLeft(took)}

\* The request fails, and with_retry waits and makes it again.
Retry ==
  /\ Reading
  /\ \E kind \in ErrorKinds, took \in 0 .. MaxOp :
       /\ WillRetry(kind, took)
       /\ \E sleep \in Waits(took) :
            rpc' = [attempt |-> rpc.attempt + 1, spent |-> rpc.spent + took + sleep]

\* What with_retry returns in the end.  It can always be an error: one that is
\* terminal, the last attempt's, or one whose wait would use the budget up.
Returns(ok) == Reading /\ ok \in BOOLEAN

-----------------------------------------------------------------------------
\* Attempts and budget bound a read together: no request is made beyond the last
\* attempt, nor once the budget is spent, so that a read ends within the budget
\* and one more request, however the failures, their times and the jitter fall.
RetriesAreBounded ==
  rpc.attempt <= MaxAttempts /\ rpc.spent < Budget
=============================================================================
