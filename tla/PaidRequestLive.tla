-------------------------- MODULE PaidRequestLive --------------------------
(***************************************************************************)
(* PaidRequest under the assumptions a retrying buyer needs: the buyer      *)
(* sends the same request with the same payment until it is served,         *)
(* invocations run, and what can go wrong outside the code goes wrong       *)
(* finitely often.                                                          *)
(***************************************************************************)
EXTENDS PaidRequest, Naturals

CONSTANT MaxFaults   \* how often something outside the code fails

ASSUME MaxFaultsAssumption == MaxFaults \in Nat

VARIABLES
  order,    \* what the buyer of each payment asks for
  faults,   \* failures so far
  served    \* payments whose buyer has received a 200

liveVars == <<vars, order, faults, served>>

LiveInit ==
  /\ Init
  /\ order \in [Payments -> {r \in Requests : r.wellFormed /\ r.cred = None}]
  /\ faults = 0
  /\ served = {}

RequestFor(p) == [order[p] EXCEPT !.cred = p]

\* The retry loop of a buyer, who gives up only a payment that cannot land.
Retry(c) ==
  /\ Arrive(c)
  /\ \E p \in Payments \ served : chain[p] # "expired" /\ req'[c] = RequestFor(p)
  /\ UNCHANGED <<order, faults, served>>

\* What fails by itself, and may not fail the next time.
Setback(c) ==
  /\ faults < MaxFaults
  /\ faults' = faults + 1
  /\ \/ GlobalRateLimited(c) \/ RequirementsUnavailable(c) \/ VerifyRejected(c)
     \/ SettleLost(c) \/ FacilitatorGivesUp(c) \/ Abort(c)
  /\ UNCHANGED <<order, served>>

Progress(c) ==
  /\ \/ PassGlobalRateLimit(c) \/ PresentPayment(c) \/ VerifyValid(c)
     \/ FacilitatorStep(c)
     \/ SettleSucceeded(c) \/ SettleDuplicate(c) \/ SettleRefused(c)
     \/ CacheHit(c) \/ CacheMiss(c) \/ CollectFails(c) \/ CollectSucceeds(c)
     \/ WriteCache(c) \/ LogScoring(c)
     \/ SignToken(c) \/ RecordSubscription(c)
     \/ Deliver(c)
  /\ served' = IF pc'[c] = "idle" /\ reply[c].code = 200 THEN served \cup {Pay(c)} ELSE served
  /\ UNCHANGED <<order, faults>>

Surroundings ==
  /\ LedgerStep \/ CacheExpire
  /\ UNCHANGED <<order, faults, served>>

LiveNext ==
  \/ \E c \in Calls : Retry(c) \/ Setback(c) \/ Progress(c)
  \/ Surroundings

\* Tokio polls every call, the facilitator answers, and a transaction in
\* flight lands or expires.  Nothing is assumed of the cache's expiry.
LiveSpec ==
  /\ LiveInit /\ [][LiveNext]_liveVars
  /\ \A c \in Calls : WF_liveVars(Retry(c)) /\ WF_liveVars(Progress(c))
  /\ WF_liveVars(LedgerStep /\ UNCHANGED <<order, faults, served>>)

-----------------------------------------------------------------------------
\* Whether there is an answer to sell: a subscription, or a subject that parses.
CanBeServed(p) == order[p].route \in DataRoutes => order[p].subject \in Parsable

\* A buyer who was charged but got nothing for it, because the answer of /settle was
\* lost or the call was cut off, gets it in the end by sending the same request with
\* the same payment: the duplicate settlement is success.  Where the request cannot be
\* answered, which every retry finds out after the settlement, the buyer is at least
\* told so with the proof of the charge.
ChargedBuyerIsServed ==
  \A p \in Payments :
    chain[p] = "landed" ~> IF CanBeServed(p) THEN p \in served ELSE p \in told
=============================================================================
