---------------------- MODULE PaidRequestRefinement ----------------------
(***************************************************************************)
(* Every exchange of PaidRequest, for any number of calls and payments, is  *)
(* an exchange of PaidService, as long as JWT_SECRET is set or nothing is   *)
(* charged.  The mapping is the instance Service of PaidRequest.            *)
(***************************************************************************)
EXTENDS PaidRequest_proofs

LEMMA StageValues ==
  ASSUME NEW c \in Calls
  PROVE  /\ pc[c] = "idle" => Stage(c) = "closed"
         /\ pc[c] \in GateStates => Stage(c) = "open"
         /\ pc[c] \in WorkStates => Stage(c) = "granted"
         /\ pc[c] = "answered" => Stage(c) = "answered"
  BY DEF Stage, GateStates, WorkStates

LEMMA InitRefines == Init => Service!Init
<1> SUFFICES ASSUME Init PROVE Service!Init
  OBVIOUS
<1>0. \A c \in Calls : pc[c] = "idle" /\ req[c] = NoReq /\ reply[c] = NoReply
  BY DEF Init
<1>1. ASSUME NEW c \in Calls PROVE Stage(c) = "closed" /\ Pay(c) = None
  BY <1>0, StageValues DEF Pay, NoReq, None
<1>2. ASSUME NEW c \in Calls PROVE ~(reply[c].code = 200) /\ reply[c].proof = None
  BY <1>0 DEF NoReply, None
<1>3. {p \in Payments : chain[p] = "landed"} = {}
  BY DEF Init, FacilitatorInit
<1> QED
  BY <1>1, <1>2, <1>3 DEF Service!Init, Service!NoAnswer

\* The call c takes its abstract exchange from one stage to the next, the
\* others stay where they are.
LEMMA MoveStage ==
  ASSUME TypeInv, NEW c \in Calls, NEW state \in {"idle", "answered"} \cup GateStates \cup WorkStates,
         Goto(c, state)
  PROVE  /\ pc'[c] = state
         /\ \A d \in Calls \ {c} : Stage(d)' = Stage(d)
  BY DEF Goto, TypeInv, TypeOK, Stage

LEMMA RefuseRefines ==
  ASSUME TypeInv, NEW c \in Calls, pc[c] \in GateStates, reply[c] = NoReply,
         NEW r \in Replies, r.code # 200, r.proof = None, Answer(c, r), UNCHANGED <<chain, req>>
  PROVE  Service!Refuse(c)
<1>1. pc'[c] = "answered" /\ \A d \in Calls \ {c} : Stage(d)' = Stage(d)
  BY MoveStage DEF Answer
<1>2. Stage(c) = "open" /\ Stage(c)' = "answered"
  BY <1>1, StageValues DEF Stage, GateStates, WorkStates
<1>3. [d \in Calls |-> Stage(d)]' = [[d \in Calls |-> Stage(d)] EXCEPT ![c] = "answered"]
  BY <1>1, <1>2
<1>4. \A d \in Calls : /\ (reply'[d].code = 200) = (reply[d].code = 200)
                       /\ reply'[d].proof = reply[d].proof
                       /\ Pay(d)' = Pay(d)
  BY DEF Answer, NoReply, TypeInv, TypeOK, Pay
<1> QED
  BY <1>2, <1>3, <1>4 DEF Service!Refuse

LEMMA GrantRefines ==
  ASSUME IInv, NEW c \in Calls, pc[c] \in GateStates,
         NEW how \in {"subscription", "free", "settled", "duplicate"},
         how \in Held => Pay(c) \in Payments,
         Admit(c, how), Entitled(c)', UNCHANGED <<chain, req, reply>>
  PROVE  Service!Grant(c)
<1>t. TypeInv
  BY DEF IInv
<1>1. PICK state \in {"sign", "lookup", "collect"} : Goto(c, state)
  BY DEF Admit
<1>2. pc'[c] = state /\ \A d \in Calls \ {c} : Stage(d)' = Stage(d)
  BY <1>t, <1>1, MoveStage DEF WorkStates
<1>3. Stage(c) = "open" /\ Stage(c)' = "granted"
  BY <1>2, StageValues DEF Stage, GateStates, WorkStates
<1>4. [d \in Calls |-> Stage(d)]' = [[d \in Calls |-> Stage(d)] EXCEPT ![c] = "granted"]
  BY <1>2, <1>3
<1>5. auth'[c] = how
  BY <1>t DEF Admit, TypeInv, TypeOK
<1>6. \A d \in Calls : Pay(d)' = Pay(d)
  BY DEF Pay
<1>7. Free \/ Pay(c) \in {p \in Payments : chain[p] = "landed"} \cup {"bearer"}
  BY <1>5, <1>6 DEF Entitled, Held
<1> QED
  BY <1>3, <1>4, <1>6, <1>7 DEF Service!Grant

LEMMA ConcludeRefines ==
  ASSUME IInv, NEW c \in Calls, pc[c] \in WorkStates, NEW r \in Replies, Answer(c, r),
         r.proof = SettlementFromAuth(c), UNCHANGED <<chain, req>>
  PROVE  \E ok \in BOOLEAN : Service!Conclude(c, ok)
<1>t. TypeInv /\ CallInv(c)
  BY DEF IInv
<1>1. pc'[c] = "answered" /\ \A d \in Calls \ {c} : Stage(d)' = Stage(d)
  BY <1>t, MoveStage DEF Answer
<1>2. Stage(c) = "granted" /\ Stage(c)' = "answered"
  BY <1>1, StageValues DEF Stage, GateStates, WorkStates
<1>3. [d \in Calls |-> Stage(d)]' = [[d \in Calls |-> Stage(d)] EXCEPT ![c] = "answered"]
  BY <1>1, <1>2
<1>4. reply' = [reply EXCEPT ![c] = r] /\ reply \in [Calls -> Replies]
  BY <1>t DEF Answer, TypeInv, TypeOK
<1>5. SettlementFromAuth(c) = IF Pay(c) \in Payments /\ ~Free THEN Pay(c) ELSE None
  <2>1. auth[c] \in Held => Pay(c) \in Payments /\ ~Free
    BY <1>t DEF CallInv, StageInv, TypeInv, InHand
  <2>2. auth[c] \notin Held => Free \/ Pay(c) \notin Payments
    BY <1>t, PaymentsAssumption DEF CallInv, StageInv, Entitled, Held, OtherCreds
  <2> QED
    BY <2>1, <2>2 DEF SettlementFromAuth, Held
<1>6. [d \in Calls |-> Pay(d)]' = [d \in Calls |-> Pay(d)]
  BY DEF Pay
<1>7. [d \in Calls |-> [served |-> reply[d].code = 200, receipt |-> reply[d].proof]]' =
        [[d \in Calls |-> [served |-> reply[d].code = 200, receipt |-> reply[d].proof]] EXCEPT ![c] =
           [served |-> r.code = 200, receipt |-> r.proof]]
  BY <1>4
<1>8. Service!Receipt(c) = r.proof
  BY <1>5 DEF Service!Receipt
<1>9. Service!Conclude(c, r.code = 200)
  BY <1>2, <1>3, <1>6, <1>7, <1>8 DEF Service!Conclude
<1>10. (r.code = 200) \in BOOLEAN
  OBVIOUS
<1> QED
  BY <1>9, <1>10

\* A step that moves no exchange to another stage, answers nothing and lands
\* no payment is invisible.
LEMMA StutterRefines ==
  ASSUME \A d \in Calls : Stage(d)' = Stage(d), UNCHANGED <<chain, req, reply>>
  PROVE  UNCHANGED Service!vars
<1>1. \A d \in Calls : Pay(d)' = Pay(d)
  BY DEF Pay
<1> QED
  BY <1>1 DEF Service!vars

LEMMA CloseRefines ==
  ASSUME TypeInv, NEW c \in Calls, pc[c] # "idle", Release(c), UNCHANGED chain
  PROVE  Service!Close(c)
<1>1. pc'[c] = "idle" /\ \A d \in Calls \ {c} : Stage(d)' = Stage(d)
  BY MoveStage DEF Release
<1>2. Stage(c) # "closed" /\ Stage(c)' = "closed"
  BY <1>1, StageValues DEF Stage, GateStates, WorkStates, TypeInv, TypeOK
<1>3. [d \in Calls |-> Stage(d)]' = [[d \in Calls |-> Stage(d)] EXCEPT ![c] = "closed"]
  BY <1>1, <1>2
<1>4. reply' = [reply EXCEPT ![c] = NoReply] /\ req' = [req EXCEPT ![c] = NoReq]
      /\ reply \in [Calls -> Replies] /\ req \in [Calls -> Requests \cup {NoReq}]
  BY DEF Release, TypeInv, TypeOK
<1>5. NoReply.code # 200 /\ NoReply.proof = None /\ NoReq.cred = None
  BY DEF NoReply, NoReq
<1>6. [d \in Calls |-> Pay(d)]' = [[d \in Calls |-> Pay(d)] EXCEPT ![c] = None]
  BY <1>4, <1>5 DEF Pay
<1>7. [d \in Calls |-> [served |-> reply[d].code = 200, receipt |-> reply[d].proof]]' =
        [[d \in Calls |-> [served |-> reply[d].code = 200, receipt |-> reply[d].proof]] EXCEPT ![c] =
           [served |-> FALSE, receipt |-> None]]
  BY <1>4, <1>5
<1> QED
  BY <1>2, <1>3, <1>6, <1>7 DEF Service!Close, Service!NoAnswer

-----------------------------------------------------------------------------
\* One step per action; the settlement itself is invisible until it lands.
LEMMA StepRefines ==
  ASSUME IInv, IInv', [Next]_vars, JwtSecretSet \/ Free
  PROVE  [Service!Next]_Service!vars
<1>t. TypeInv
  BY DEF IInv
<1> DEFINE Stutter == UNCHANGED Service!vars
           codes == {400, 401, 402, 429, 503}
<1>e. ASSUME NEW c \in Calls, pc[c] \in GateStates, NEW code \in codes,
             Answer(c, ErrorResponse(code)), UNCHANGED <<chain, req>>
      PROVE  Service!Next
  <2>1. ErrorResponse(code) \in Replies
    BY <1>t, ResponseTypes
  <2>2. ErrorResponse(code).code # 200 /\ ErrorResponse(code).proof = None
    BY DEF ErrorResponse, NoReply
  <2>3. reply[c] = NoReply
    BY <1>e DEF IInv, CallInv, StageInv, GateStates
  <2> QED
    BY <1>e, <1>t, <2>1, <2>2, <2>3, RefuseRefines DEF Service!Next
<1>n. ASSUME NEW c \in Calls, NEW s1 \in GateStates, NEW s2 \in GateStates, pc[c] = s1, Goto(c, s2),
             UNCHANGED <<chain, req, reply>>
      PROVE  Stutter
  <2>1. pc'[c] = s2 /\ \A d \in Calls \ {c} : Stage(d)' = Stage(d)
    BY <1>n, <1>t, MoveStage
  <2>2. Stage(c) = "open" /\ Stage(c)' = "open"
    BY <1>n, <2>1, StageValues DEF Stage, GateStates, WorkStates
  <2> QED
    BY <1>n, <2>1, <2>2, StutterRefines
<1>w. ASSUME NEW c \in Calls, NEW s1 \in WorkStates, NEW s2 \in WorkStates, pc[c] = s1, Goto(c, s2),
             UNCHANGED <<chain, req, reply>>
      PROVE  Stutter
  <2>1. pc'[c] = s2 /\ \A d \in Calls \ {c} : Stage(d)' = Stage(d)
    BY <1>w, <1>t, MoveStage
  <2>2. Stage(c) = "granted" /\ Stage(c)' = "granted"
    BY <1>w, <2>1, StageValues DEF Stage, GateStates, WorkStates
  <2> QED
    BY <1>w, <2>1, <2>2, StutterRefines
<1>1. ASSUME NEW c \in Calls, Arrive(c) PROVE Service!Next
  <2>1. PICK r \in Requests : req' = [req EXCEPT ![c] = r]
    BY <1>1 DEF Arrive
  <2>2. pc'[c] = "admit" /\ \A d \in Calls \ {c} : Stage(d)' = Stage(d)
    BY <1>1, <1>t, MoveStage DEF Arrive, GateStates
  <2>3. Stage(c) = "closed" /\ Stage(c)' = "open"
    BY <1>1, <2>2, StageValues DEF Arrive, Stage, GateStates, WorkStates
  <2>4. [d \in Calls |-> Stage(d)]' = [[d \in Calls |-> Stage(d)] EXCEPT ![c] = "open"]
    BY <2>2, <2>3
  <2>5. [d \in Calls |-> Pay(d)]' = [[d \in Calls |-> Pay(d)] EXCEPT ![c] = r.cred]
    BY <1>t, <2>1 DEF Pay, TypeInv, TypeOK
  <2>6. r.cred \in Payments \cup OtherCreds
    BY DEF Requests
  <2>7. UNCHANGED <<chain, reply>>
    BY <1>1 DEF Arrive, facilitatorVars
  <2>8. Service!Open(c)
    BY <2>3, <2>4, <2>5, <2>6, <2>7 DEF Service!Open
  <2> QED
    BY <2>8 DEF Service!Next
<1>2. ASSUME NEW c \in Calls, Gate(c) PROVE Service!Next \/ Stutter
  <2> USE DEF facilitatorVars, GateStates
  <2>1. CASE RejectInput(c) \/ GlobalRateLimited(c) \/ RequirementsUnavailable(c) \/ RequirePayment(c)
    BY <2>1, <1>e DEF RejectInput, GlobalRateLimited, RequirementsUnavailable, RequirePayment
  <2>2. CASE RejectBearer(c)
    <3>1. PICK code \in {401, 429} : Answer(c, ErrorResponse(code))
      BY <2>2, BearerAnswers
    <3>2. pc[c] = "bearer" /\ UNCHANGED <<chain, req>>
      BY <2>2 DEF RejectBearer
    <3> QED
      BY <3>1, <3>2, <1>e
  <2>3. CASE PassGlobalRateLimit(c)
    <3>1. PICK state \in {"bearer", "pricing"} : Goto(c, state)
      BY <2>3 DEF PassGlobalRateLimit
    <3> QED
      BY <2>3, <3>1, <1>n DEF PassGlobalRateLimit
  <2>4. CASE PresentPayment(c)
    BY <2>4, <1>n DEF PresentPayment
  <2>5. CASE AcceptBearer(c) \/ SkipPayment(c)
    <3>1. PICK how \in {"subscription", "free"} : Admit(c, how)
      BY <2>5 DEF AcceptBearer, SkipPayment
    <3>2. pc[c] \in GateStates /\ UNCHANGED <<chain, req, reply>>
      BY <2>5 DEF AcceptBearer, SkipPayment
    <3>3. Entitled(c)'
      BY <3>1, <1>t DEF IInv, CallInv, StageInv, Admit, TypeInv, TypeOK, None
    <3> QED
      BY <3>1, <3>2, <3>3, GrantRefines DEF Service!Next, Held
  <2> QED
    BY <1>2, <2>1, <2>2, <2>3, <2>4, <2>5 DEF Gate
<1>3. ASSUME NEW c \in Calls, Settlement(c) PROVE Service!Next \/ Stutter
  <2> USE DEF facilitatorVars, GateStates
  <2>1. CASE VerifyRejected(c) \/ SettleRefused(c) \/ SettleLost(c)
    BY <2>1, <1>e DEF VerifyRejected, SettleRefused, SettleLost
  <2>2. CASE VerifyValid(c)
    BY <2>2, <1>n DEF VerifyValid
  <2>3. CASE SettleSucceeded(c) \/ SettleDuplicate(c)
    <3>1. PICK how \in {"settled", "duplicate"} : Admit(c, how)
      BY <2>3 DEF SettleSucceeded, SettleDuplicate
    <3>2. pc[c] = "settle" /\ Pay(c) \in Payments /\ UNCHANGED <<chain, req, reply>>
      BY <2>3, <1>t DEF SettleSucceeded, SettleDuplicate, TypeInv, InHand
    <3>3. Entitled(c)'
      BY <3>1, <1>t DEF IInv, CallInv, StageInv, Admit, TypeInv, TypeOK, None
    <3> QED
      BY <3>1, <3>2, <3>3, GrantRefines DEF Service!Next
  <2>4. CASE FacilitatorStep(c) \/ FacilitatorGivesUp(c)
    <3>1. UNCHANGED <<pc, req, reply>>
      BY <2>4 DEF FacilitatorStep, FacilitatorGivesUp, handlerVars
    <3>2. {p \in Payments : chain[p] = "landed"}' = {p \in Payments : chain[p] = "landed"}
      BY <2>4, <1>t DEF FacilitatorStep, FacilitatorGivesUp, SubmitSettle, ConfirmSettle, GiveUpSettle,
                        TypeInv, TypeOK, FacilitatorTypeOK
    <3> QED
      BY <3>1, <3>2 DEF Service!vars, Stage, Pay
  <2> QED
    BY <1>3, <2>1, <2>2, <2>3, <2>4 DEF Settlement
<1>4. ASSUME NEW c \in Calls, Work(c) PROVE Service!Next \/ Stutter
  <2> USE DEF facilitatorVars, WorkStates
  <2>c. CallInv(c) /\ FreshBody(c) \in Bodies
    BY DEF IInv, FreshBody, Bodies, MaybePayment
  <2>o. ASSUME pc[c] \in WorkStates, NEW kind \in {"fresh", "cached", "token"}, NEW body \in Bodies,
               Answer(c, OkWithPayment(c, kind, body)), UNCHANGED <<chain, req>>
        PROVE  Service!Next
    <3>1. OkWithPayment(c, kind, body) \in Replies
      BY <1>t, ResponseTypes
    <3>2. OkWithPayment(c, kind, body).proof = SettlementFromAuth(c)
      BY DEF OkWithPayment
    <3> QED
      BY <2>o, <3>1, <3>2, ConcludeRefines DEF Service!Next
  <2>1. CASE CacheHit(c)
    <3>1. cache[Key(c)] \in Bodies
      BY <2>1, <1>t, KeyIsKey DEF CacheHit, TypeInv, TypeOK
    <3> QED
      BY <2>1, <3>1, <2>o DEF CacheHit
  <2>2. CASE CacheMiss(c) \/ WriteCache(c)
    BY <2>2, <1>w DEF CacheMiss, WriteCache
  <2>3. CASE CollectFails(c)
    <3>1. PICK code \in {422, 503} : Answer(c, ErrorWithSettlement(c, code))
      BY <2>3 DEF CollectFails
    <3>2. ErrorWithSettlement(c, code) \in Replies
      BY <1>t, ResponseTypes
    <3>3. ErrorWithSettlement(c, code).proof = SettlementFromAuth(c)
      BY DEF ErrorWithSettlement
    <3> QED
      BY <2>3, <3>1, <3>2, <3>3, ConcludeRefines DEF CollectFails, Service!Next
  <2>4. CASE CollectSucceeds(c)
    <3>1. CASE HasDb /\ req[c].route \in CachedRoutes
      BY <2>4, <3>1, <1>w DEF CollectSucceeds
    <3>2. CASE ~(HasDb /\ req[c].route \in CachedRoutes)
      BY <2>4, <3>2, <2>o, <2>c DEF CollectSucceeds
    <3> QED
      BY <3>1, <3>2
  <2>5. CASE LogScoring(c) \/ RecordSubscription(c)
    BY <2>5, <2>o, <2>c DEF LogScoring, RecordSubscription
  <2>6. CASE SignToken(c)
    <3>1. CASE HasDb
      BY <2>6, <3>1, <1>w DEF SignToken
    <3>2. CASE ~HasDb
      BY <2>6, <3>2, <2>o, <2>c DEF SignToken
    <3> QED
      BY <3>1, <3>2
  <2>7. CASE SignFails(c)
    <3>1. Free /\ auth[c] \notin Held
      BY <2>7, <2>c DEF SignFails, CallInv, StageInv
    <3>2. ErrorResponse(503).proof = SettlementFromAuth(c)
      BY <3>1 DEF ErrorResponse, NoReply, SettlementFromAuth, Held
    <3>3. ErrorResponse(503) \in Replies
      BY <1>t, ResponseTypes
    <3> QED
      BY <2>7, <3>2, <3>3, ConcludeRefines DEF SignFails, Service!Next
  <2> QED
    BY <1>4, <2>1, <2>2, <2>3, <2>4, <2>5, <2>6, <2>7 DEF Work
<1>5. ASSUME NEW c \in Calls, Deliver(c) \/ Abort(c) PROVE Service!Next
  BY <1>5, <1>t, CloseRefines DEF Deliver, Abort, Service!Next
<1>6. CASE LedgerStep
  <2>1. PICK p \in Payments : ChainLand(p) \/ ChainExpire(p)
    BY <1>6 DEF LedgerStep
  <2>2. UNCHANGED <<pc, req, reply>>
    BY <1>6 DEF LedgerStep, handlerVars
  <2>3. CASE ChainLand(p)
    <3>1. {q \in Payments : chain[q] = "landed"}' = {q \in Payments : chain[q] = "landed"} \cup {p}
      BY <2>3, <1>t DEF ChainLand, TypeInv, TypeOK, FacilitatorTypeOK
    <3>2. Service!Charge(p)
      BY <2>2, <3>1 DEF Service!Charge, Stage, Pay
    <3> QED
      BY <3>2 DEF Service!Next
  <2>4. CASE ChainExpire(p)
    <3>1. {q \in Payments : chain[q] = "landed"}' = {q \in Payments : chain[q] = "landed"}
      BY <2>4, <1>t DEF ChainExpire, TypeInv, TypeOK, FacilitatorTypeOK
    <3> QED
      BY <2>2, <3>1 DEF Service!vars, Stage, Pay
  <2> QED
    BY <2>1, <2>3, <2>4
<1>7. CASE CacheExpire \/ UNCHANGED vars
  <2>1. UNCHANGED <<chain, pc, req, reply>>
    BY <1>7 DEF CacheExpire, vars, facilitatorVars, handlerVars
  <2> QED
    BY <2>1, StutterRefines DEF Stage
<1> QED
  BY <1>1, <1>2, <1>3, <1>4, <1>5, <1>6, <1>7 DEF Next

\* The gate, the settlement and the handlers together keep the service's promise.
THEOREM ServicePromiseIsKept == JwtSecretSet \/ Free => (Spec => KeepsServicePromise)
<1> SUFFICES ASSUME JwtSecretSet \/ Free PROVE Spec => Service!Spec
  BY DEF KeepsServicePromise
<1>1. IInv /\ IInv' /\ [Next]_vars => [Service!Next]_Service!vars
  BY StepRefines
<1> QED
  BY <1>1, InitRefines, Invariant, PTL DEF Spec, Service!Spec
=============================================================================
