------------------------ MODULE PaidRequest_proofs ------------------------
(***************************************************************************)
(* Proofs about PaidRequest, for any number of calls and payments.          *)
(***************************************************************************)
EXTENDS PaidRequest, TLAPS

Held == {"settled", "duplicate"}

\* Only a payment is verified, posted and held as a settlement; a busy call has
\* a request, and reaches the score cache only for a route that is cached.
InHand ==
  \A c \in Calls :
    /\ pc[c] \in {"verify", "settle"} \/ auth[c] \in Held => Pay(c) \in Payments
    /\ IF pc[c] = "idle" THEN auth[c] = None ELSE req[c] \in Requests
    /\ pc[c] \in {"lookup", "write", "log"} => req[c].route \in CachedRoutes

TypeInv == TypeOK /\ InHand

(***************************************************************************)
(* Type correctness.                                                        *)
(***************************************************************************)
LEMMA InitTypeInv == Init => TypeInv
  BY DEF Init, TypeInv, TypeOK, InHand, Held, FacilitatorInit, FacilitatorTypeOK,
      ChainStates, PostStates, NoReply, Replies, NoRow, Absent, MaybePayment, NoReq, None

\* Every response a handler builds is a response.
LEMMA ResponseTypes ==
  ASSUME TypeInv, NEW c \in Calls
  PROVE  /\ \A code \in {400, 401, 402, 422, 429, 503} :
              ErrorResponse(code) \in Replies /\ ErrorWithSettlement(c, code) \in Replies
         /\ \A kind \in {"fresh", "cached", "token"} : \A body \in Bodies :
              OkWithPayment(c, kind, body) \in Replies
         /\ SettlementSig(c) \in MaybePayment
<1>1. SettlementFromAuth(c) \in MaybePayment /\ SettlementSig(c) \in MaybePayment
  BY DEF TypeInv, InHand, Held, SettlementFromAuth, SettlementSig, MaybePayment
<1> QED
  BY <1>1 DEF ErrorResponse, ErrorWithSettlement, OkWithPayment, NoReply, Replies, MaybePayment, Bodies

\* A token that is not accepted is answered 401, or 429.
LEMMA BearerAnswers ==
  ASSUME NEW c \in Calls, RejectBearer(c)
  PROVE  \E code \in {401, 429} : Answer(c, ErrorResponse(code))
<1>1. CASE Answer(c, ErrorResponse(401))
  BY <1>1, Zenon
<1>2. CASE Answer(c, ErrorResponse(429))
  BY <1>2, Zenon
<1> QED
  BY <1>1, <1>2 DEF RejectBearer

\* A call at the score cache asks about a subject on a route that is cached.
LEMMA KeyIsKey ==
  ASSUME TypeInv, NEW c \in Calls, pc[c] \in {"lookup", "write", "log"}
  PROVE  Key(c) \in Keys
<1>1. req[c] \in Requests /\ req[c].route \in CachedRoutes
  BY DEF TypeInv, InHand
<1>2. req[c].route \in DataRoutes
  BY <1>1 DEF CachedRoutes, DataRoutes
<1>3. req[c].subject \in Subjects
  BY <1>1, <1>2 DEF Requests
<1> QED
  BY <1>1, <1>3 DEF Key, Keys

\* The frame of the steps that answer or that let a call in.
LEMMA AnswerTypes ==
  ASSUME TypeInv, NEW c \in Calls, NEW r \in Replies, pc[c] # "idle", Answer(c, r),
         UNCHANGED <<facilitatorVars, req, auth, cache, told>>,
         row' \in [Calls -> [logged : BOOLEAN, sig : MaybePayment]],
         mishap' \subseteq Payments
  PROVE  TypeInv'
  BY DEF TypeInv, TypeOK, InHand, Held, Answer, Goto, facilitatorVars, FacilitatorTypeOK, Pay

LEMMA AdmitTypes ==
  ASSUME TypeInv, NEW c \in Calls, NEW how \in {"subscription", "free", "settled", "duplicate"},
         how \in Held => Pay(c) \in Payments,
         pc[c] # "idle", Admit(c, how), UNCHANGED <<facilitatorVars, req, reply, row, cache, told, mishap>>
  PROVE  TypeInv'
  BY DEF TypeInv, TypeOK, InHand, Held, Admit, Goto, facilitatorVars, FacilitatorTypeOK, Pay, WorkStates

\* The frame of the steps to the next await.
LEMMA GotoTypes ==
  ASSUME TypeInv, NEW c \in Calls, NEW state \in GateStates \cup WorkStates, pc[c] # "idle",
         Goto(c, state),
         state \in {"verify", "settle"} => Pay(c) \in Payments,
         state \in {"lookup", "write", "log"} => req[c].route \in CachedRoutes,
         UNCHANGED <<chain, req, auth, reply, row, told, mishap>>,
         post' \in [Calls -> PostStates],
         cache' \in [Keys -> Bodies \cup {Absent}]
  PROVE  TypeInv'
  BY DEF TypeInv, TypeOK, InHand, Held, Goto, FacilitatorTypeOK, Pay, GateStates, WorkStates

LEMMA GateTypes ==
  ASSUME TypeInv, NEW c \in Calls, Gate(c)
  PROVE  TypeInv'
<1> DEFINE codes == {400, 401, 402, 422, 429, 503}
<1>r. \A code \in codes : ErrorResponse(code) \in Replies
  BY ResponseTypes
<1>a. ASSUME NEW code \in codes, pc[c] # "idle", Answer(c, ErrorResponse(code)),
             UNCHANGED <<facilitatorVars, req, auth, row, cache, told, mishap>>
      PROVE  TypeInv'
  BY <1>a, <1>r, AnswerTypes DEF TypeInv, TypeOK
<1>1. CASE RejectInput(c)
  BY <1>1, <1>a DEF RejectInput
<1>t. post \in [Calls -> PostStates] /\ cache \in [Keys -> Bodies \cup {Absent}]
  BY DEF TypeInv, TypeOK, FacilitatorTypeOK
<1>2. CASE PassGlobalRateLimit(c)
  <2>1. PICK state \in {"bearer", "pricing"} : Goto(c, state)
    BY <1>2 DEF PassGlobalRateLimit
  <2> QED
    BY <1>2, <1>t, <2>1, GotoTypes DEF PassGlobalRateLimit, facilitatorVars, GateStates
<1>3. CASE GlobalRateLimited(c)
  BY <1>3, <1>a DEF GlobalRateLimited
<1>4. CASE AcceptBearer(c)
  BY <1>4, AdmitTypes DEF AcceptBearer, Held
<1>5. CASE RejectBearer(c)
  <2>1. PICK code \in {401, 429} : Answer(c, ErrorResponse(code))
    BY <1>5, BearerAnswers
  <2>2. pc[c] # "idle" /\ UNCHANGED <<facilitatorVars, req, auth, row, cache, told, mishap>>
    BY <1>5 DEF RejectBearer
  <2> QED
    BY <2>1, <2>2, <1>a
<1>6. CASE SkipPayment(c)
  BY <1>6, AdmitTypes DEF SkipPayment, Held
<1>7. CASE RequirementsUnavailable(c)
  BY <1>7, <1>a DEF RequirementsUnavailable
<1>8. CASE RequirePayment(c)
  BY <1>8, <1>a DEF RequirePayment
<1>9. CASE PresentPayment(c)
  BY <1>9, <1>t, GotoTypes DEF PresentPayment, facilitatorVars, GateStates
<1> QED
  BY <1>1, <1>2, <1>3, <1>4, <1>5, <1>6, <1>7, <1>8, <1>9, Gate(c) DEF Gate

LEMMA SettlementTypes ==
  ASSUME TypeInv, NEW c \in Calls, Settlement(c)
  PROVE  TypeInv'
<1>r. ErrorResponse(402) \in Replies
  BY ResponseTypes
<1>p. ASSUME pc[c] = "settle" PROVE mishap \cup {Pay(c)} \subseteq Payments
  BY <1>p DEF TypeInv, TypeOK, InHand
<1>1. CASE VerifyRejected(c)
  BY <1>1, <1>r, AnswerTypes DEF VerifyRejected, TypeInv, TypeOK
<1>2. CASE VerifyValid(c)
  BY <1>2, GotoTypes DEF VerifyValid, GateStates, TypeInv, TypeOK, InHand, FacilitatorTypeOK, PostStates
<1>3. CASE SettleSucceeded(c)
  BY <1>3, AdmitTypes DEF SettleSucceeded, TypeInv, InHand
<1>4. CASE SettleDuplicate(c)
  BY <1>4, AdmitTypes DEF SettleDuplicate, TypeInv, InHand
<1>5. CASE SettleRefused(c)
  BY <1>5, <1>r, AnswerTypes DEF SettleRefused, TypeInv, TypeOK
<1>6. CASE SettleLost(c)
  BY <1>6, <1>r, <1>p, AnswerTypes DEF SettleLost, TypeInv, TypeOK
<1>7. CASE FacilitatorStep(c)
  BY <1>7 DEF FacilitatorStep, SubmitSettle, ConfirmSettle, handlerVars, TypeInv, TypeOK,
              InHand, FacilitatorTypeOK, ChainStates, PostStates, Pay
<1>8. CASE FacilitatorGivesUp(c)
  BY <1>8, <1>p DEF FacilitatorGivesUp, GiveUpSettle, TypeInv, TypeOK, InHand,
              FacilitatorTypeOK, PostStates, Pay
<1> QED
  BY <1>1, <1>2, <1>3, <1>4, <1>5, <1>6, <1>7, <1>8, Settlement(c) DEF Settlement

LEMMA WorkTypes ==
  ASSUME TypeInv, NEW c \in Calls, Work(c)
  PROVE  TypeInv'
<1> USE DEF WorkStates
<1>k. ASSUME pc[c] = "lookup" PROVE Key(c) \in Keys
  BY <1>k, KeyIsKey
<1>b. FreshBody(c) \in Bodies
  BY DEF FreshBody, Bodies, MaybePayment
<1>t. cache \in [Keys -> Bodies \cup {Absent}] /\ row \in [Calls -> [logged : BOOLEAN, sig : MaybePayment]]
      /\ mishap \subseteq Payments /\ post \in [Calls -> PostStates]
  BY DEF TypeInv, TypeOK, FacilitatorTypeOK
<1>1. CASE CacheHit(c)
  <2>1. cache[Key(c)] \in Bodies
    BY <1>1, <1>k, <1>t DEF CacheHit
  <2> QED
    BY <1>1, <1>t, <2>1, ResponseTypes, AnswerTypes DEF CacheHit
<1>2. CASE CacheMiss(c)
  BY <1>2, <1>t, GotoTypes DEF CacheMiss, facilitatorVars
<1>3. CASE CollectFails(c)
  BY <1>3, <1>t, ResponseTypes, AnswerTypes DEF CollectFails
<1>4. CASE CollectSucceeds(c)
  BY <1>4, <1>t, <1>b, ResponseTypes, AnswerTypes, GotoTypes DEF facilitatorVars, CollectSucceeds
<1>5. CASE WriteCache(c)
  <2>1. [cache EXCEPT ![Key(c)] = FreshBody(c)] \in [Keys -> Bodies \cup {Absent}]
    BY <1>b, <1>t
  <2>2. req[c].route \in CachedRoutes
    BY <1>5 DEF WriteCache, TypeInv, InHand
  <2> QED
    BY <1>5, <1>t, <2>1, <2>2, GotoTypes DEF WriteCache, facilitatorVars
<1>6. CASE LogScoring(c)
  <2>1. OkWithPayment(c, "fresh", FreshBody(c)) \in Replies
    BY <1>b, ResponseTypes
  <2>2. SettlementSig(c) \in MaybePayment
    BY ResponseTypes
  <2>3. [row EXCEPT ![c] = [logged |-> TRUE, sig |-> SettlementSig(c)]]
          \in [Calls -> [logged : BOOLEAN, sig : MaybePayment]]
    BY <1>t, <2>2
  <2>4. row' \in [Calls -> [logged : BOOLEAN, sig : MaybePayment]]
    BY <1>6, <1>t, <2>3 DEF LogScoring
  <2> QED
    BY <1>6, <1>t, <2>1, <2>4, AnswerTypes DEF LogScoring
<1>7. CASE SignToken(c)
  BY <1>7, <1>t, <1>b, ResponseTypes, AnswerTypes, GotoTypes DEF facilitatorVars, SignToken
<1>8. CASE SignFails(c)
  BY <1>8, <1>t, ResponseTypes, AnswerTypes DEF SignFails
<1>9. CASE RecordSubscription(c)
  BY <1>9, <1>t, <1>b, ResponseTypes, AnswerTypes DEF RecordSubscription
<1> QED
  BY <1>1, <1>2, <1>3, <1>4, <1>5, <1>6, <1>7, <1>8, <1>9, Work(c) DEF Work

LEMMA ReleaseTypes ==
  ASSUME TypeInv, NEW c \in Calls, Release(c), UNCHANGED <<chain, cache>>,
         told' \subseteq Payments, mishap' \subseteq Payments
  PROVE  TypeInv'
  BY DEF TypeInv, TypeOK, InHand, Held, Release, Goto, FacilitatorTypeOK, PostStates, Pay,
         NoReq, NoReply, NoRow, None, Replies, MaybePayment

LEMMA NextTypes ==
  ASSUME TypeInv, [Next]_vars
  PROVE  TypeInv'
<1>1. ASSUME NEW c \in Calls, Arrive(c) PROVE TypeInv'
  <2>1. PICK r \in Requests : req' = [req EXCEPT ![c] = r]
    BY <1>1 DEF Arrive
  <2>2. pc' = [pc EXCEPT ![c] = "admit"] /\ auth[c] \notin Held
    BY <1>1 DEF Arrive, Goto, TypeInv, InHand, Held, None
  <2> QED
    BY <1>1, <2>1, <2>2 DEF Arrive, TypeInv, TypeOK, InHand, facilitatorVars,
                            FacilitatorTypeOK, Pay, GateStates
<1>2. ASSUME NEW c \in Calls, Deliver(c) PROVE TypeInv'
  BY <1>2, ReleaseTypes DEF Deliver, TypeInv, TypeOK, Replies, MaybePayment
<1>3. ASSUME NEW c \in Calls, Abort(c) PROVE TypeInv'
  <2>1. mishap' \subseteq Payments
    BY <1>3 DEF Abort, TypeInv, TypeOK, InHand, Held
  <2> QED
    BY <1>3, <2>1, ReleaseTypes DEF Abort, TypeInv, TypeOK
<1>4. CASE LedgerStep
  BY <1>4 DEF LedgerStep, ChainLand, ChainExpire, handlerVars, TypeInv, TypeOK, InHand,
              FacilitatorTypeOK, ChainStates, Pay
<1>5. CASE CacheExpire
  BY <1>5 DEF CacheExpire, facilitatorVars, TypeInv, TypeOK, InHand, FacilitatorTypeOK, Pay
<1>6. CASE UNCHANGED vars
  BY <1>6 DEF vars, facilitatorVars, handlerVars, TypeInv, TypeOK, InHand, FacilitatorTypeOK, Pay
<1> QED
  BY <1>1, <1>2, <1>3, <1>4, <1>5, <1>6, GateTypes, SettlementTypes, WorkTypes DEF Next

LEMMA TypeInvariant == Spec => []TypeInv
  BY InitTypeInv, NextTypes, PTL DEF Spec

\* Every variable keeps its type, whatever the handlers do with their calls: in
\* particular what a response or an audit row calls a settlement is a payment.
THEOREM TypeCorrect == Spec => []TypeOK
  BY TypeInvariant, PTL DEF TypeInv

(***************************************************************************)
(* The inductive invariant behind the safety properties.                    *)
(***************************************************************************)
\* What a call has, at each stage: nothing before the gate decides, the right
\* to work afterwards, a response and perhaps an audit row once it answers.
StageInv(c) ==
  /\ pc[c] \in {"idle", "admit", "bearer", "pricing", "verify"} => post[c] = "none"
  /\ pc[c] \in GateStates => auth[c] = None
  /\ pc[c] \in WorkStates => auth[c] # None
  /\ pc[c] # "answered" => reply[c] = NoReply /\ row[c] = NoRow
  /\ pc[c] = "bearer" => IsData(c)
  /\ pc[c] \in {"verify", "settle"} => ~Free
  /\ auth[c] # None => Entitled(c)
  /\ auth[c] \in Held => ~Free

\* What the state of a POST /settle says about the ledger.
PostInv(c) ==
  /\ post[c] # "none" => Pay(c) \in Payments
  /\ post[c] = "confirming" => chain[Pay(c)] # "signed"
  /\ post[c] \in {"ok", "duplicate"} => chain[Pay(c)] = "landed"
  /\ post[c] = "fail" => chain[Pay(c)] = "expired" \/ Pay(c) \in mishap

\* What a response says about the call.
ReplyInv(c) ==
  /\ \A p \in {reply[c].proof, reply[c].sig, row[c].sig} \ {None} :
       Pay(c) = p /\ chain[p] = "landed"
  /\ reply[c].code = 200 => auth[c] # None
  /\ reply[c].code \in {400, 401, 429} \/ (reply[c].code = 503 /\ auth[c] = None) =>
       post[c] = "none"
  /\ JwtSecretSet /\ pc[c] = "answered" /\ auth[c] \in Held => reply[c].proof = Pay(c)

CallInv(c) == StageInv(c) /\ PostInv(c) /\ ReplyInv(c)

\* No settlement is ever stored in a cached body.
CacheInv == \A k \in Keys : cache[k] \in {Absent, [sig |-> None]}

\* Strengthens EveryChargeIsAccountedFor to transactions still in flight.
AccountInv == JwtSecretSet \/ Free =>
  \A p \in Payments : chain[p] \in {"sent", "landed"} =>
    \/ p \in told \cup mishap
    \/ \E c \in Calls : Pay(c) = p /\ (pc[c] = "settle" \/ auth[c] \in Held)

IInv == TypeInv /\ (\A c \in Calls : CallInv(c)) /\ CacheInv /\ AccountInv

-----------------------------------------------------------------------------
LEMMA InitIInv == Init => IInv
  BY InitTypeInv DEF Init, IInv, CallInv, StageInv, PostInv, ReplyInv, CacheInv, AccountInv,
     FacilitatorInit, NoReply, NoRow, None, GateStates, WorkStates, Keys, Held

\* What a step of one call leaves alone in another.
Same(d) ==
  /\ pc'[d] = pc[d] /\ req'[d] = req[d] /\ auth'[d] = auth[d]
  /\ reply'[d] = reply[d] /\ row'[d] = row[d] /\ post'[d] = post[d]

\* The ledger forgets nothing, and neither does the history.
Monotone ==
  /\ \A p \in Payments :
       /\ chain[p] = "landed" => chain'[p] = "landed"
       /\ chain[p] = "expired" => chain'[p] = "expired"
       /\ chain[p] # "signed" => chain'[p] # "signed"
  /\ told \subseteq told'
  /\ mishap \subseteq mishap'

LEMMA SameKeepsCallInv ==
  ASSUME TypeInv, NEW d \in Calls, CallInv(d), Same(d), Monotone
  PROVE  CallInv(d)'
<1>1. Pay(d)' = Pay(d) /\ (IsData(d))' = IsData(d)
  BY DEF Same, Pay, IsData
<1>2. (Entitled(d) /\ (auth[d] \in Held => Pay(d) \in Payments)) => Entitled(d)'
  BY <1>1 DEF Same, Monotone, Entitled, Held
<1>3. auth[d] \in Held => Pay(d) \in Payments
  BY DEF TypeInv, InHand
<1>4. StageInv(d)'
  BY <1>1, <1>2, <1>3 DEF CallInv, StageInv, Same
<1>5. PostInv(d)'
  BY <1>1 DEF CallInv, PostInv, Same, Monotone
<1>6. ReplyInv(d)'
  <2>1. \A p \in {reply[d].proof, reply[d].sig, row[d].sig} \ {None} : p \in Payments
    BY DEF TypeInv, TypeOK, Replies, MaybePayment
  <2> QED
    BY <1>1, <2>1 DEF CallInv, ReplyInv, Same, Monotone
<1> QED
  BY <1>4, <1>5, <1>6 DEF CallInv

\* A step of call c keeps the invariant if it keeps the part of c, stores no
\* settlement in the cache, and does not drop a charge c was answerable for.
LEMMA StepKeepsIInv ==
  ASSUME IInv, TypeInv', NEW c \in Calls, \A d \in Calls \ {c} : Same(d), Monotone,
         CallInv(c)',
         \A k \in Keys : cache'[k] \in {cache[k], Absent, [sig |-> None]},
         \A p \in Payments : chain'[p] \in {"sent", "landed"} =>
           chain[p] \in {"sent", "landed"} \/ (Pay(c) = p /\ pc[c] = "settle"),
         (JwtSecretSet \/ Free) /\ (pc[c] = "settle" \/ auth[c] \in Held) =>
           \/ Pay(c) \in told' \cup mishap'
           \/ Pay(c) \in Payments => chain'[Pay(c)] \notin {"sent", "landed"}
           \/ Pay(c)' = Pay(c) /\ (pc'[c] = "settle" \/ auth'[c] \in Held)
  PROVE  IInv'
<1>1. \A d \in Calls : CallInv(d)'
  BY SameKeepsCallInv DEF IInv
<1>2. CacheInv'
  BY DEF IInv, CacheInv
<1>3. AccountInv'
  <2> SUFFICES ASSUME JwtSecretSet \/ Free, NEW p \in Payments, chain'[p] \in {"sent", "landed"},
                      p \notin told' \cup mishap'
               PROVE  \E d \in Calls : Pay(d)' = p /\ (pc'[d] = "settle" \/ auth'[d] \in Held)
    BY DEF AccountInv
  <2>1. PICK d \in Calls : Pay(d) = p /\ (pc[d] = "settle" \/ auth[d] \in Held)
    BY DEF IInv, AccountInv, Monotone
  <2>2. CASE d = c
    BY <2>1, <2>2
  <2>3. CASE d # c
    BY <2>1, <2>3 DEF Same, Pay
  <2> QED
    BY <2>2, <2>3
<1> QED
  BY <1>1, <1>2, <1>3 DEF IInv

\* The step with which a call answers.
LEMMA AnswerKeepsIInv ==
  ASSUME IInv, TypeInv', NEW c \in Calls, pc[c] # "idle", NEW r \in Replies, Answer(c, r),
         UNCHANGED <<facilitatorVars, req, auth, cache, told>>,
         \A d \in Calls \ {c} : row'[d] = row[d],
         mishap \subseteq mishap',
         ReplyInv(c)',
         pc[c] = "settle" => Pay(c) \in mishap' \/ chain[Pay(c)] = "expired"
  PROVE  IInv'
<1>1. pc'[c] = "answered" /\ \A d \in Calls \ {c} : pc'[d] = pc[d] /\ reply'[d] = reply[d]
  BY DEF Answer, Goto, IInv, TypeInv, TypeOK
<1>2. \A d \in Calls \ {c} : Same(d)
  BY <1>1 DEF Same, facilitatorVars
<1>3. Monotone
  BY DEF Monotone, facilitatorVars
<1>4. CallInv(c)'
  <2>1. CallInv(c)
    BY DEF IInv
  <2>2. StageInv(c)'
    BY <2>1, <1>1 DEF CallInv, StageInv, Entitled, Pay, IsData, GateStates, WorkStates, facilitatorVars
  <2>3. PostInv(c)'
    BY <2>1 DEF CallInv, PostInv, Pay, facilitatorVars
  <2> QED
    BY <2>2, <2>3 DEF CallInv
<1> QED
  BY <1>1, <1>2, <1>3, <1>4, StepKeepsIInv DEF facilitatorVars, Pay

\* The step with which the gate lets a call in.
LEMMA AdmitKeepsIInv ==
  ASSUME IInv, TypeInv', NEW c \in Calls, pc[c] \in GateStates,
         NEW how \in {"subscription", "free", "settled", "duplicate"}, Admit(c, how),
         UNCHANGED <<facilitatorVars, req, reply, row, cache, told, mishap>>,
         Entitled(c)', how \in Held <=> pc[c] = "settle"
  PROVE  IInv'
<1>1. /\ pc'[c] \in {"sign", "lookup", "collect"}
      /\ auth'[c] = how
      /\ \A d \in Calls \ {c} : pc'[d] = pc[d] /\ auth'[d] = auth[d]
  BY DEF Admit, Goto, IInv, TypeInv, TypeOK
<1>2. \A d \in Calls \ {c} : Same(d)
  BY <1>1 DEF Same, facilitatorVars
<1>3. Monotone
  BY DEF Monotone, facilitatorVars
<1>4. CallInv(c)'
  <2>1. CallInv(c) /\ how # None
    BY DEF IInv, None
  <2>2. StageInv(c)'
    BY <2>1, <1>1 DEF CallInv, StageInv, GateStates, WorkStates, Held
  <2>3. PostInv(c)'
    BY <2>1 DEF CallInv, PostInv, Pay, facilitatorVars
  <2>4. ReplyInv(c)'
    BY <2>1, <1>1 DEF CallInv, StageInv, ReplyInv, GateStates, NoReply, NoRow
  <2> QED
    BY <2>2, <2>3, <2>4 DEF CallInv
<1>5. auth[c] \notin Held
  BY DEF IInv, CallInv, StageInv, Held, None
<1>6. Pay(c)' = Pay(c) /\ chain' = chain
  BY DEF Pay, facilitatorVars
<1> QED
  BY <1>1, <1>2, <1>3, <1>4, <1>5, <1>6, StepKeepsIInv

\* The step with which a call goes on to its next await.
LEMMA GotoKeepsIInv ==
  ASSUME IInv, TypeInv', NEW c \in Calls, NEW state, Goto(c, state),
         \/ pc[c] \in {"admit", "pricing"} /\ state \in {"bearer", "pricing", "verify"}
         \/ pc[c] \in WorkStates /\ state \in WorkStates,
         state = "bearer" => IsData(c),
         state = "verify" => ~Free,
         UNCHANGED <<facilitatorVars, req, auth, reply, row, told, mishap>>,
         \A k \in Keys : cache'[k] \in {cache[k], Absent, [sig |-> None]}
  PROVE  IInv'
<1>1. pc'[c] = state /\ \A d \in Calls \ {c} : pc'[d] = pc[d]
  BY DEF Goto, IInv, TypeInv, TypeOK
<1>2. \A d \in Calls \ {c} : Same(d)
  BY <1>1 DEF Same, facilitatorVars
<1>3. Monotone
  BY DEF Monotone, facilitatorVars
<1>4. CallInv(c)'
  <2>1. CallInv(c)
    BY DEF IInv
  <2>2. StageInv(c)'
    BY <2>1, <1>1 DEF CallInv, StageInv, Entitled, Pay, IsData, GateStates, WorkStates, facilitatorVars
  <2>3. PostInv(c)'
    BY <2>1 DEF CallInv, PostInv, Pay, facilitatorVars
  <2>4. ReplyInv(c)'
    BY <2>1, <1>1 DEF CallInv, StageInv, ReplyInv, GateStates, WorkStates, NoReply, NoRow, Pay, facilitatorVars
  <2> QED
    BY <2>2, <2>3, <2>4 DEF CallInv
<1>5. pc[c] # "settle" /\ Pay(c)' = Pay(c) /\ auth'[c] = auth[c] /\ chain' = chain
  BY DEF Pay, facilitatorVars, WorkStates
<1> QED
  BY <1>2, <1>3, <1>4, <1>5, StepKeepsIInv

LEMMA GateKeepsIInv ==
  ASSUME IInv, TypeInv', NEW c \in Calls, Gate(c)
  PROVE  IInv'
<1> DEFINE codes == {400, 401, 402, 429, 503}
<1>c. CallInv(c)
  BY DEF IInv
<1>a. ASSUME NEW code \in codes, pc[c] \in GateStates, pc[c] # "settle", pc[c] # "verify",
             Answer(c, ErrorResponse(code)),
             UNCHANGED <<facilitatorVars, req, auth, row, cache, told, mishap>>
      PROVE  IInv'
  <2>1. reply'[c] = [code |-> code, body |-> None, proof |-> None, sig |-> None]
    BY <1>a DEF Answer, ErrorResponse, NoReply, IInv, TypeInv, TypeOK
  <2>2. row'[c].sig = None /\ post'[c] = "none" /\ auth'[c] = None
    BY <1>a, <1>c DEF CallInv, StageInv, GateStates, NoRow, facilitatorVars
  <2>3. ReplyInv(c)'
    BY <2>1, <2>2, <1>a DEF ReplyInv, Held, None
  <2>4. ErrorResponse(code) \in Replies
    BY ResponseTypes DEF IInv
  <2> QED
    BY <1>a, <2>3, <2>4, AnswerKeepsIInv DEF GateStates
<1>1. CASE RejectInput(c)
  BY <1>1, <1>a DEF RejectInput, GateStates
<1>2. CASE PassGlobalRateLimit(c)
  <2>1. PICK state \in {"bearer", "pricing"} : Goto(c, state) /\ (state = "bearer" => IsData(c))
    BY <1>2 DEF PassGlobalRateLimit
  <2> QED
    BY <1>2, <2>1, GotoKeepsIInv DEF PassGlobalRateLimit
<1>3. CASE GlobalRateLimited(c)
  BY <1>3, <1>a DEF GlobalRateLimited, GateStates
<1>4. CASE AcceptBearer(c)
  <2>1. auth'[c] = "subscription" /\ IsData(c) /\ (IsData(c))' = IsData(c) /\ Pay(c)' = Pay(c)
    BY <1>4, <1>c DEF AcceptBearer, Admit, CallInv, StageInv, IsData, Pay, IInv, TypeInv, TypeOK
  <2> QED
    BY <1>4, <2>1, AdmitKeepsIInv DEF AcceptBearer, Entitled, GateStates, Held
<1>5. CASE RejectBearer(c)
  <2>1. PICK code \in {401, 429} : Answer(c, ErrorResponse(code))
    BY <1>5, BearerAnswers
  <2>2. pc[c] = "bearer" /\ UNCHANGED <<facilitatorVars, req, auth, row, cache, told, mishap>>
    BY <1>5 DEF RejectBearer
  <2> QED
    BY <2>1, <2>2, <1>a DEF GateStates
<1>6. CASE SkipPayment(c)
  <2>1. auth'[c] = "free" /\ Free
    BY <1>6 DEF SkipPayment, Admit, IInv, TypeInv, TypeOK
  <2> QED
    BY <1>6, <2>1, AdmitKeepsIInv DEF SkipPayment, Entitled, GateStates, Held
<1>7. CASE RequirementsUnavailable(c)
  BY <1>7, <1>a DEF RequirementsUnavailable, GateStates
<1>8. CASE RequirePayment(c)
  BY <1>8, <1>a DEF RequirePayment, GateStates
<1>9. CASE PresentPayment(c)
  BY <1>9, GotoKeepsIInv DEF PresentPayment
<1> QED
  BY <1>1, <1>2, <1>3, <1>4, <1>5, <1>6, <1>7, <1>8, <1>9, Gate(c) DEF Gate

LEMMA SettlementKeepsIInv ==
  ASSUME IInv, TypeInv', NEW c \in Calls, Settlement(c)
  PROVE  IInv'
<1>c. CallInv(c) /\ TypeInv
  BY DEF IInv
<1>a. ASSUME pc[c] \in {"verify", "settle"}, Answer(c, ErrorResponse(402)),
             UNCHANGED <<facilitatorVars, req, auth, row, cache, told>>, mishap \subseteq mishap',
             pc[c] = "settle" => Pay(c) \in mishap' \/ chain[Pay(c)] = "expired"
      PROVE  IInv'
  <2>1. reply'[c] = [code |-> 402, body |-> None, proof |-> None, sig |-> None]
    BY <1>a DEF Answer, ErrorResponse, NoReply, IInv, TypeInv, TypeOK
  <2>2. row'[c].sig = None /\ auth'[c] = None
    BY <1>a, <1>c DEF CallInv, StageInv, GateStates, NoRow, facilitatorVars
  <2>3. ReplyInv(c)'
    BY <2>1, <2>2, <1>a DEF ReplyInv, Held, None
  <2>4. ErrorResponse(402) \in Replies
    BY ResponseTypes DEF IInv
  <2> QED
    BY <1>a, <2>3, <2>4, AnswerKeepsIInv
<1>1. CASE VerifyRejected(c)
  BY <1>1, <1>a DEF VerifyRejected
<1>3. CASE SettleSucceeded(c)
  <2>1. Entitled(c)'
    BY <1>3, <1>c DEF SettleSucceeded, Admit, CallInv, PostInv, Entitled, Pay, facilitatorVars,
                      TypeInv, TypeOK
  <2> QED
    BY <1>3, <2>1, AdmitKeepsIInv DEF SettleSucceeded, GateStates, Held
<1>4. CASE SettleDuplicate(c)
  <2>1. Entitled(c)'
    BY <1>4, <1>c DEF SettleDuplicate, Admit, CallInv, PostInv, Entitled, Pay, facilitatorVars,
                      TypeInv, TypeOK
  <2> QED
    BY <1>4, <2>1, AdmitKeepsIInv DEF SettleDuplicate, GateStates, Held
<1>5. CASE SettleRefused(c)
  BY <1>5, <1>a, <1>c DEF SettleRefused, CallInv, PostInv
<1>6. CASE SettleLost(c)
  BY <1>6, <1>a DEF SettleLost
\* The four steps that change what the facilitator knows of the call.
<1> DEFINE OnlyPost == /\ \A d \in Calls \ {c} : Same(d)
                       /\ UNCHANGED <<req, auth, reply, row, cache, told>>
<1>f. ASSUME pc[c] = "settle", pc' = pc, OnlyPost, Monotone, PostInv(c)',
             \A p \in Payments \ {Pay(c)} : chain'[p] = chain[p]
      PROVE  IInv'
  <2>1. StageInv(c)'
    BY <1>f, <1>c DEF CallInv, StageInv, GateStates, WorkStates, Held, None
  <2>2. ReplyInv(c)'
    BY <1>f, <1>c DEF CallInv, StageInv, ReplyInv, GateStates, NoReply, NoRow, None, Held
  <2>3. CallInv(c)'
    BY <1>f, <2>1, <2>2 DEF CallInv
  <2>4. Pay(c)' = Pay(c)
    BY <1>f DEF Pay
  <2> QED
    BY <1>f, <2>3, <2>4, StepKeepsIInv
<1>2. CASE VerifyValid(c)
  <2>1. pc' = [pc EXCEPT ![c] = "settle"] /\ post' = [post EXCEPT ![c] = "posted"] /\ Pay(c) \in Payments
    BY <1>2, <1>c DEF VerifyValid, Goto, TypeInv, InHand
  <2>2. \A d \in Calls \ {c} : Same(d)
    BY <1>2, <1>c, <2>1 DEF VerifyValid, Same, TypeInv, TypeOK, FacilitatorTypeOK
  <2>3. Monotone
    BY <1>2 DEF VerifyValid, Monotone
  <2>4. pc'[c] = "settle" /\ post'[c] = "posted" /\ Pay(c)' = Pay(c)
    BY <1>2, <1>c, <2>1 DEF VerifyValid, TypeInv, TypeOK, FacilitatorTypeOK, Pay
  <2>5. StageInv(c)' /\ ReplyInv(c)'
    BY <1>2, <1>c, <2>4 DEF VerifyValid, CallInv, StageInv, ReplyInv, GateStates, WorkStates,
                            Held, NoReply, NoRow, None
  <2>6. PostInv(c)'
    BY <2>1, <2>4 DEF PostInv
  <2> QED
    BY <1>2, <2>2, <2>3, <2>4, <2>5, <2>6, StepKeepsIInv DEF VerifyValid, CallInv
<1>7. CASE FacilitatorStep(c)
  <2>1. pc[c] = "settle" /\ UNCHANGED handlerVars /\ Pay(c) \in Payments /\ Pay(c)' = Pay(c)
    BY <1>7, <1>c DEF FacilitatorStep, handlerVars, TypeInv, InHand, Pay
  <2>2. /\ \A d \in Calls \ {c} : post'[d] = post[d]
        /\ \A p \in Payments \ {Pay(c)} : chain'[p] = chain[p]
    BY <1>7, <1>c DEF FacilitatorStep, SubmitSettle, ConfirmSettle, TypeInv, TypeOK, FacilitatorTypeOK
  <2>3. OnlyPost
    BY <2>1, <2>2 DEF handlerVars, Same
  <2>4. Monotone
    BY <1>7, <1>c, <2>1 DEF FacilitatorStep, SubmitSettle, ConfirmSettle, Monotone, handlerVars,
                            TypeInv, TypeOK, FacilitatorTypeOK
  <2>5. PostInv(c)'
    BY <1>7, <1>c, <2>1 DEF FacilitatorStep, SubmitSettle, ConfirmSettle, CallInv, PostInv,
                            handlerVars, TypeInv, TypeOK, FacilitatorTypeOK
  <2> QED
    BY <1>f, <2>1, <2>2, <2>3, <2>4, <2>5 DEF handlerVars
<1>8. CASE FacilitatorGivesUp(c)
  <2>1. Pay(c) \in Payments /\ Pay(c)' = Pay(c)
    BY <1>8, <1>c DEF FacilitatorGivesUp, TypeInv, InHand, Pay
  <2>2. OnlyPost /\ Monotone
    BY <1>8, <1>c DEF FacilitatorGivesUp, GiveUpSettle, Same, Monotone, TypeInv, TypeOK, FacilitatorTypeOK
  <2>3. PostInv(c)'
    BY <1>8, <1>c, <2>1 DEF FacilitatorGivesUp, GiveUpSettle, PostInv, TypeInv, TypeOK, FacilitatorTypeOK
  <2> QED
    BY <1>8, <1>f, <2>2, <2>3 DEF FacilitatorGivesUp, GiveUpSettle
<1> QED
  BY <1>1, <1>2, <1>3, <1>4, <1>5, <1>6, <1>7, <1>8, Settlement(c) DEF Settlement

\* What the handlers build from a settlement names it and nothing else, also
\* around a cached body.
LEMMA ResponsesNameOwn ==
  ASSUME IInv, NEW c \in Calls, pc[c] \in WorkStates
  PROVE  /\ \A code : LET r == ErrorWithSettlement(c, code)
                     IN  r.code = code /\ {r.proof, r.sig} \subseteq {SettlementFromAuth(c), None}
         /\ \A kind : \A body \in {[sig |-> None]} :
              LET r == OkWithPayment(c, kind, body)
              IN  r.code = 200 /\ r.proof = SettlementFromAuth(c) /\ r.sig \in {r.proof, None}
         /\ SettlementSig(c) \in {SettlementFromAuth(c), None}
         /\ SettlementFromAuth(c) # None => Pay(c) = SettlementFromAuth(c) /\ chain[Pay(c)] = "landed"
         /\ auth[c] \in Held => SettlementFromAuth(c) = Pay(c)
         /\ auth[c] # None /\ row[c] = NoRow
<1>1. CallInv(c)
  BY DEF IInv
<1> QED
  BY <1>1 DEF ErrorWithSettlement, OkWithPayment, SettlementSig, SettlementFromAuth, CallInv, StageInv,
              Entitled, Held, None, WorkStates

LEMMA WorkKeepsIInv ==
  ASSUME IInv, TypeInv', NEW c \in Calls, Work(c)
  PROVE  IInv'
<1>c. CallInv(c) /\ TypeInv
  BY DEF IInv
<1>b. FreshBody(c) = [sig |-> None] /\ FreshBody(c) \in Bodies
  BY DEF FreshBody, Bodies, MaybePayment
\* Any answer of a working call that names its own settlement.
<1>a. ASSUME pc[c] \in WorkStates, NEW r \in Replies, Answer(c, r),
             UNCHANGED <<facilitatorVars, req, auth, cache, told, mishap>>,
             \A d \in Calls \ {c} : row'[d] = row[d],
             {r.proof, r.sig, row'[c].sig} \subseteq {SettlementFromAuth(c), None},
             r.code \in {200, 422, 503},
             JwtSecretSet => r.proof = SettlementFromAuth(c)
      PROVE  IInv'
  <2>1. reply'[c] = r /\ auth'[c] = auth[c] /\ Pay(c)' = Pay(c) /\ chain' = chain
    BY <1>a, <1>c DEF Answer, Pay, facilitatorVars, TypeInv, TypeOK
  <2>2. ReplyInv(c)'
    BY <1>a, <2>1, ResponsesNameOwn DEF ReplyInv
  <2> QED
    BY <1>a, <2>2, AnswerKeepsIInv DEF WorkStates
<1>1. CASE CacheHit(c)
  <2>1. Key(c) \in Keys
    BY <1>1, <1>c, KeyIsKey DEF CacheHit
  <2>2. cache[Key(c)] \in Bodies /\ cache[Key(c)] \in {[sig |-> None]}
    BY <1>1, <2>1, <1>c DEF CacheHit, TypeInv, TypeOK, IInv, CacheInv
  <2>3. OkWithPayment(c, "cached", cache[Key(c)]) \in Replies
    BY <2>2, <1>c, ResponseTypes
  <2>4. pc[c] \in WorkStates /\ row'[c].sig = None /\ UNCHANGED <<facilitatorVars, req, auth, row, cache, told, mishap>>
    BY <1>1, ResponsesNameOwn DEF CacheHit, WorkStates, NoRow
  <2> QED
    BY <1>1, <2>2, <2>3, <2>4, <1>a, ResponsesNameOwn DEF CacheHit
<1>2. CASE CacheMiss(c)
  BY <1>2, GotoKeepsIInv DEF CacheMiss, WorkStates
<1>3. CASE CollectFails(c)
  <2>1. PICK code \in {422, 503} : Answer(c, ErrorWithSettlement(c, code))
    BY <1>3 DEF CollectFails
  <2>2. ErrorWithSettlement(c, code) \in Replies
    BY <1>c, ResponseTypes
  <2>3. pc[c] \in WorkStates /\ row'[c].sig = None /\ UNCHANGED <<facilitatorVars, req, auth, row, cache, told, mishap>>
    BY <1>3, ResponsesNameOwn DEF CollectFails, WorkStates, NoRow
  <2>4. ErrorWithSettlement(c, code).proof = SettlementFromAuth(c)
    BY DEF ErrorWithSettlement
  <2> QED
    BY <2>1, <2>2, <2>3, <2>4, <1>a, ResponsesNameOwn
\* A 200 with a body that names no settlement of its own.
<1>o. ASSUME pc[c] \in WorkStates, NEW kind \in {"fresh", "token"},
             Answer(c, OkWithPayment(c, kind, FreshBody(c))),
             UNCHANGED <<facilitatorVars, req, auth, row, cache, told, mishap>>
      PROVE  IInv'
  <2>1. OkWithPayment(c, kind, FreshBody(c)) \in Replies
    BY <1>b, <1>c, ResponseTypes
  <2>2. row'[c].sig = None
    BY <1>o, ResponsesNameOwn DEF NoRow
  <2> QED
    BY <1>o, <2>1, <2>2, <1>a, <1>b, ResponsesNameOwn
<1>4. CASE CollectSucceeds(c)
  <2>1. CASE HasDb /\ req[c].route \in CachedRoutes
    BY <1>4, <2>1, GotoKeepsIInv DEF CollectSucceeds, WorkStates
  <2>2. CASE ~(HasDb /\ req[c].route \in CachedRoutes)
    BY <1>4, <2>2, <1>o DEF CollectSucceeds, WorkStates
  <2> QED
    BY <2>1, <2>2
<1>5. CASE WriteCache(c)
  <2>1. \A k \in Keys : cache'[k] \in {cache[k], Absent, [sig |-> None]}
    BY <1>5, <1>b, <1>c DEF WriteCache, TypeInv, TypeOK
  <2> QED
    BY <1>5, <2>1, GotoKeepsIInv DEF WriteCache, WorkStates
<1>6. CASE LogScoring(c)
  <2>1. OkWithPayment(c, "fresh", FreshBody(c)) \in Replies
    BY <1>b, <1>c, ResponseTypes
  <2>2. row[c].sig = None /\ pc[c] \in WorkStates
    BY <1>6, ResponsesNameOwn DEF LogScoring, NoRow, WorkStates
  <2>3. row'[c].sig \in {None, SettlementSig(c)} /\ \A d \in Calls \ {c} : row'[d] = row[d]
    BY <1>6, <1>c, <2>2 DEF LogScoring, TypeInv, TypeOK
  <2> QED
    BY <1>6, <2>1, <2>2, <2>3, <1>a, <1>b, ResponsesNameOwn DEF LogScoring
<1>7. CASE SignToken(c)
  <2>1. CASE HasDb
    BY <1>7, <2>1, GotoKeepsIInv DEF SignToken, WorkStates
  <2>2. CASE ~HasDb
    BY <1>7, <2>2, <1>o DEF SignToken, WorkStates
  <2> QED
    BY <2>1, <2>2
<1>8. CASE SignFails(c)
  <2>1. ErrorResponse(503) = [code |-> 503, body |-> None, proof |-> None, sig |-> None]
    BY DEF ErrorResponse, NoReply
  <2>2. ErrorResponse(503) \in Replies
    BY <1>c, ResponseTypes
  <2>3. row'[c].sig = None /\ pc[c] \in WorkStates /\ ~JwtSecretSet
    BY <1>8, ResponsesNameOwn DEF SignFails, NoRow, WorkStates
  <2> QED
    BY <1>8, <2>1, <2>2, <2>3, <1>a DEF SignFails
<1>9. CASE RecordSubscription(c)
  BY <1>9, <1>o DEF RecordSubscription, WorkStates
<1> QED
  BY <1>1, <1>2, <1>3, <1>4, <1>5, <1>6, <1>7, <1>8, <1>9, Work(c) DEF Work

\* A call ends once its buyer has been told, or the history has noted that the
\* buyer has not.
LEMMA ReleaseKeepsIInv ==
  ASSUME IInv, TypeInv', NEW c \in Calls, Release(c), UNCHANGED <<chain, cache>>,
         told \subseteq told', mishap \subseteq mishap',
         (JwtSecretSet \/ Free) /\ (pc[c] = "settle" \/ auth[c] \in Held) =>
           Pay(c) \in told' \cup mishap'
  PROVE  IInv'
<1>1. /\ pc'[c] = "idle" /\ auth'[c] = None /\ reply'[c] = NoReply /\ row'[c] = NoRow
      /\ post'[c] = "none"
  BY DEF Release, Goto, IInv, TypeInv, TypeOK, FacilitatorTypeOK
<1>2. \A d \in Calls \ {c} : Same(d)
  BY DEF Release, Goto, Same, IInv, TypeInv, TypeOK, FacilitatorTypeOK
<1>3. CallInv(c)'
  BY <1>1 DEF CallInv, StageInv, PostInv, ReplyInv, GateStates, WorkStates, NoReply, NoRow, Held, None
<1>4. Monotone
  BY DEF Monotone
<1> QED
  BY <1>2, <1>3, <1>4, StepKeepsIInv

LEMMA NextKeepsIInv ==
  ASSUME IInv, [Next]_vars
  PROVE  IInv'
<1>t. TypeInv /\ TypeInv'
  BY NextTypes DEF IInv
<1>1. ASSUME NEW c \in Calls, Arrive(c) PROVE IInv'
  <2>1. PICK r \in Requests : req' = [req EXCEPT ![c] = r]
    BY <1>1 DEF Arrive
  <2>2. /\ pc'[c] = "admit" /\ auth'[c] = None /\ reply'[c] = NoReply /\ row'[c] = NoRow
        /\ post'[c] = "none" /\ pc[c] = "idle" /\ auth[c] = None
    BY <1>1, <1>t DEF Arrive, Goto, facilitatorVars, IInv, CallInv, StageInv, TypeInv, TypeOK, InHand
  <2>3. \A d \in Calls \ {c} : Same(d)
    BY <1>1, <1>t, <2>1 DEF Arrive, Goto, Same, facilitatorVars, TypeInv, TypeOK
  <2>4. CallInv(c)'
    BY <2>2 DEF CallInv, StageInv, PostInv, ReplyInv, GateStates, WorkStates, NoReply, NoRow, Held, None
  <2>5. Monotone /\ chain' = chain /\ cache' = cache
    BY <1>1 DEF Arrive, Monotone, facilitatorVars
  <2>6. auth[c] \notin Held
    BY <2>2 DEF Held, None
  <2> QED
    BY <1>t, <2>2, <2>3, <2>4, <2>5, <2>6, StepKeepsIInv
<1>2. ASSUME NEW c \in Calls, Deliver(c) PROVE IInv'
  <2>1. (JwtSecretSet \/ Free) /\ auth[c] \in Held => reply[c].proof = Pay(c) /\ Pay(c) \in Payments
    BY <1>2, <1>t DEF Deliver, IInv, CallInv, StageInv, ReplyInv, TypeInv, InHand
  <2>2. (JwtSecretSet \/ Free) /\ auth[c] \in Held => Pay(c) \in told'
    BY <1>2, <2>1, PaymentsAssumption DEF Deliver, OtherCreds
  <2> QED
    BY <1>2, <1>t, <2>2, ReleaseKeepsIInv DEF Deliver
<1>3. ASSUME NEW c \in Calls, Abort(c) PROVE IInv'
  BY <1>3, <1>t, ReleaseKeepsIInv DEF Abort, Held
<1>4. CASE LedgerStep
  <2>1. Monotone /\ UNCHANGED <<post, handlerVars>>
    BY <1>4, <1>t DEF LedgerStep, ChainLand, ChainExpire, Monotone, handlerVars, TypeInv, TypeOK, FacilitatorTypeOK
  <2>2. \A d \in Calls : CallInv(d)'
    BY <1>t, <2>1, SameKeepsCallInv DEF IInv, Same, handlerVars
  <2>3. CacheInv'
    BY <2>1 DEF IInv, CacheInv, handlerVars
  <2>4. \A p \in Payments : chain'[p] \in {"sent", "landed"} => chain[p] \in {"sent", "landed"}
    BY <1>4, <1>t DEF LedgerStep, ChainLand, ChainExpire, TypeInv, TypeOK, FacilitatorTypeOK
  <2>5. AccountInv'
    BY <2>1, <2>4 DEF IInv, AccountInv, handlerVars, Pay
  <2> QED
    BY <1>t, <2>2, <2>3, <2>5 DEF IInv
<1>5. CASE CacheExpire \/ UNCHANGED vars
  <2>1. UNCHANGED <<facilitatorVars, pc, req, auth, reply, row, told, mishap>>
    BY <1>5 DEF CacheExpire, vars, handlerVars
  <2>2. \A d \in Calls : CallInv(d)'
    BY <1>t, <2>1, SameKeepsCallInv DEF IInv, Same, Monotone, facilitatorVars
  <2>3. CacheInv'
    BY <1>5, <1>t DEF CacheExpire, vars, handlerVars, IInv, CacheInv, TypeInv, TypeOK
  <2>4. AccountInv'
    BY <2>1 DEF IInv, AccountInv, facilitatorVars, Pay
  <2> QED
    BY <1>t, <2>2, <2>3, <2>4 DEF IInv
<1> QED
  BY <1>1, <1>2, <1>3, <1>4, <1>5, <1>t, GateKeepsIInv, SettlementKeepsIInv, WorkKeepsIInv DEF Next

-----------------------------------------------------------------------------
(***************************************************************************)
(* The properties.                                                          *)
(***************************************************************************)
LEMMA Invariant == Spec => []IInv
  BY InitIInv, NextKeepsIInv, PTL DEF Spec

\* Chain reads, scores, cached scores and tokens only for those entitled.
THEOREM WorkIsPaidForAlways == Spec => []WorkIsPaidFor
<1>1. IInv => WorkIsPaidFor
  BY DEF IInv, CallInv, StageInv, ReplyInv, WorkIsPaidFor
<1> QED
  BY <1>1, Invariant, PTL

\* A landed payment is acknowledged unless its exchange was cut off.  Without a
\* JWT secret POST /subscribe takes the payment and answers JWT_ERROR with no
\* proof, so the premise is needed.
THEOREM ChargesAreAccountedFor == JwtSecretSet \/ Free => (Spec => []EveryChargeIsAccountedFor)
<1> SUFFICES ASSUME JwtSecretSet \/ Free PROVE Spec => []EveryChargeIsAccountedFor
  OBVIOUS
<1>1. IInv => EveryChargeIsAccountedFor
  <2> SUFFICES ASSUME IInv, NEW p \in Payments, chain[p] = "landed", p \notin told \cup mishap
               PROVE  \E c \in Calls : /\ Pay(c) = p
                                       /\ \/ pc[c] = "settle"
                                          \/ pc[c] \in WorkStates /\ auth[c] \in Held
                                          \/ reply[c].proof = p
    BY DEF EveryChargeIsAccountedFor, Held
  <2>1. PICK c \in Calls : Pay(c) = p /\ (pc[c] = "settle" \/ auth[c] \in Held)
    BY DEF IInv, AccountInv
  <2>2. CallInv(c) /\ TypeInv
    BY DEF IInv
  <2>3. auth[c] \in Held => pc[c] \in WorkStates \cup {"answered"}
    BY <2>2 DEF CallInv, StageInv, TypeInv, TypeOK, InHand, Held, None
  <2>4. auth[c] \in Held /\ pc[c] = "answered" => reply[c].proof = p
    BY <2>1, <2>2 DEF CallInv, StageInv, ReplyInv
  <2> QED
    BY <2>1, <2>3, <2>4
<1> QED
  BY <1>1, Invariant, PTL

\* Responses and audit rows name the settlement of their own call.
THEOREM SettlementsAreOwn == Spec => []EachNamesOwnSettlement
<1>1. IInv => EachNamesOwnSettlement
  BY DEF IInv, CallInv, ReplyInv, EachNamesOwnSettlement
<1> QED
  BY <1>1, Invariant, PTL

\* With a JWT secret every answer given after the settlement, failures included,
\* carries its proof: the missing secret is the only way POST /subscribe breaks it.
THEOREM FailuresCarryProof == JwtSecretSet => (Spec => []FailureAfterSettlementCarriesProof)
<1> SUFFICES ASSUME JwtSecretSet PROVE Spec => []FailureAfterSettlementCarriesProof
  OBVIOUS
<1>1. IInv => FailureAfterSettlementCarriesProof
  BY DEF IInv, CallInv, ReplyInv, FailureAfterSettlementCarriesProof, Held
<1> QED
  BY <1>1, Invariant, PTL

\* Those turned away at the gate have not been asked to pay.
THEOREM RefusalsAreFree == Spec => []RefusedBeforeSettle
<1>1. IInv => RefusedBeforeSettle
  BY DEF IInv, CallInv, ReplyInv, RefusedBeforeSettle
<1> QED
  BY <1>1, Invariant, PTL
=============================================================================
