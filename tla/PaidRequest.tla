---------------------------- MODULE PaidRequest ----------------------------
(***************************************************************************)
(* One paid exchange with the service, from the HTTP request to the answer: *)
(* the handlers of api/handlers.rs and api/subscribe.rs, the dual auth gate *)
(* of auth/dual.rs, the payment gate of x402/payment_handler.rs and the     *)
(* facilitator client of x402/facilitator.rs.  Several calls run at once,   *)
(* may present the same payment, and may be killed at any await.            *)
(***************************************************************************)
EXTENDS Facilitator

CONSTANTS
  Routes,        \* the routes in use, a subset of AllRoutes
  Subjects,      \* wallets, mints and transactions that are asked about
  Parsable,      \* those that are a public key, or decode as a transaction
  Free,          \* X402_PAYMENT_AMOUNT_USDC is 0 and there is no accepts JSON
  HasDb,         \* DATABASE_URL is set
  JwtSecretSet   \* JWT_SECRET is set

DataRoutes   == {"wallet-risk", "token-risk", "tx-risk"}
CachedRoutes == {"wallet-risk", "token-risk"}
AllRoutes    == DataRoutes \cup {"subscribe"}

\* What a request carries besides a payment: nothing, an Authorization header
\* with a token in force or with any other one, or an unparsable payment.
None        == "none"
OtherCreds  == {None, "bearer", "stale bearer", "garbled proof"}

ASSUME PaymentsAssumption == Payments \cap OtherCreds = {}
ASSUME RoutesAssumption   == Routes \subseteq AllRoutes
ASSUME ParsableAssumption == Parsable \subseteq Subjects /\ None \notin Subjects
ASSUME FlagsAssumption    == Free \in BOOLEAN /\ HasDb \in BOOLEAN /\ JwtSecretSet \in BOOLEAN

VARIABLES
  pc,      \* the await at which each call stands
  req,     \* its request
  auth,    \* its DataAuth, once the gate has let it through
  reply,   \* its HTTP response
  row,     \* the solrisk_scoring_log row it inserted
  cache,   \* solrisk_score_cache
  told,    \* history: payments whose PAYMENT-RESPONSE reached the buyer
  mishap   \* history: payments some exchange lost track of after POST /settle

handlerVars == <<pc, req, auth, reply, row, cache, told, mishap>>
vars == <<facilitatorVars, handlerVars>>

\* A sale of a subscription is about no subject.
Requests ==
  {r \in [route : Routes, cred : Payments \cup OtherCreds,
          subject : Subjects \cup {None}, wellFormed : BOOLEAN] :
     r.subject # None <=> r.route \in DataRoutes}
MaybePayment == Payments \cup {None}
Bodies  == [sig : MaybePayment]         \* settlement_sig inside a JSON body
Replies == [code : {0, 200, 400, 401, 402, 422, 429, 503},
            body : {None, "fresh", "cached", "token"},
            proof : MaybePayment,       \* the PAYMENT-RESPONSE header
            sig : MaybePayment]         \* settlement_sig in the JSON body
NoReq   == [route |-> None, cred |-> None, subject |-> None, wellFormed |-> FALSE]
NoReply == [code |-> 0, body |-> None, proof |-> None, sig |-> None]
NoRow   == [logged |-> FALSE, sig |-> None]
Absent  == [sig |-> "absent"]

\* The awaits before the gate has decided, and those after it let the call in.
GateStates == {"admit", "bearer", "pricing", "verify", "settle"}
WorkStates == {"lookup", "collect", "write", "log", "sign", "record"}
Keys == CachedRoutes \X Subjects

TypeOK ==
  /\ FacilitatorTypeOK
  /\ pc \in [Calls -> {"idle", "answered"} \cup GateStates \cup WorkStates]
  /\ req \in [Calls -> Requests \cup {NoReq}]
  /\ auth \in [Calls -> {None, "subscription", "free", "settled", "duplicate"}]
  /\ reply \in [Calls -> Replies]
  /\ row \in [Calls -> [logged : BOOLEAN, sig : MaybePayment]]
  /\ cache \in [Keys -> Bodies \cup {Absent}]
  /\ told \subseteq Payments
  /\ mishap \subseteq Payments

Init ==
  /\ FacilitatorInit
  /\ pc = [c \in Calls |-> "idle"]
  /\ req = [c \in Calls |-> NoReq]
  /\ auth = [c \in Calls |-> None]
  /\ reply = [c \in Calls |-> NoReply]
  /\ row = [c \in Calls |-> NoRow]
  /\ cache = [k \in Keys |-> Absent]
  /\ told = {}
  /\ mishap = {}

-----------------------------------------------------------------------------
Pay(c) == req[c].cred
Key(c) == <<req[c].route, req[c].subject>>
IsData(c) == req[c].route \in DataRoutes

\* Mutant: a subscriber's token or a free call would be quoted as a settlement.
SettlementOfAnyAuth(c) == IF auth[c] # None THEN Pay(c) ELSE None
\* Mutant: the synthesised settlement of a retry would not be passed on.
SettlementOfFirstOnly(c) == IF auth[c] = "settled" THEN Pay(c) ELSE None

SettlementFromAuth(c) == IF auth[c] \in {"settled", "duplicate"} THEN Pay(c) ELSE None
\* A settlement synthesised after a duplicate has an empty "transaction".
SettlementSig(c) == IF auth[c] = "settled" THEN Pay(c) ELSE None

ErrorResponse(code) == [NoReply EXCEPT !.code = code]
ErrorWithSettlement(c, code) ==
  [code |-> code, body |-> None, proof |-> SettlementFromAuth(c), sig |-> SettlementSig(c)]
OkWithPayment(c, kind, body) ==
  [code |-> 200, body |-> kind, proof |-> SettlementFromAuth(c),
   sig |-> IF SettlementSig(c) # None THEN SettlementSig(c) ELSE body.sig]

\* Mutant: the settlement would be serialised with the score, and cached.
BodyWithSettlement(c) == [sig |-> SettlementSig(c)]

\* What the handler serialises before it knows how it will answer.
FreshBody(c) == [sig |-> None]

Goto(c, state) == pc' = [pc EXCEPT ![c] = state]
Answer(c, r) == Goto(c, "answered") /\ reply' = [reply EXCEPT ![c] = r]
Admit(c, how) ==
  /\ auth' = [auth EXCEPT ![c] = how]
  /\ Goto(c, IF ~IsData(c) THEN "sign"
             ELSE IF req[c].route \in CachedRoutes THEN "lookup" ELSE "collect")

-----------------------------------------------------------------------------
\* A request reaches an idle invocation.
Arrive(c) ==
  /\ pc[c] = "idle"
  /\ \E r \in Requests : req' = [req EXCEPT ![c] = r]
  /\ Goto(c, "admit")
  /\ UNCHANGED <<facilitatorVars, auth, reply, row, cache, told, mishap>>

\* 400 for a parameter that is missing, has an impossible length or is not base64,
\* before anything is asked of the buyer.
RejectInput(c) ==
  /\ pc[c] = "admit"
  /\ ~req[c].wellFormed
  /\ Answer(c, ErrorResponse(400))
  /\ UNCHANGED <<facilitatorVars, req, auth, row, cache, told, mishap>>

\* check_global_rate_limit; /subscribe has none.  An error of the database
\* lets the call pass.
PassGlobalRateLimit(c) ==
  /\ pc[c] = "admit"
  /\ req[c].wellFormed
  /\ Goto(c, IF IsData(c) /\ Pay(c) \in {"bearer", "stale bearer"} THEN "bearer" ELSE "pricing")
  /\ UNCHANGED <<facilitatorVars, req, auth, reply, row, cache, told, mishap>>

\* Mutant: the rate limit would be checked after the payment.
RateLimitedAfterGate(c) ==
  /\ pc[c] = "lookup"
  /\ HasDb
  /\ Answer(c, ErrorResponse(429))
  /\ UNCHANGED <<facilitatorVars, req, auth, row, cache, told, mishap>>

GlobalRateLimited(c) ==
  /\ pc[c] = "admit"
  /\ req[c].wellFormed
  /\ IsData(c)
  /\ HasDb
  /\ Answer(c, ErrorResponse(429))
  /\ UNCHANGED <<facilitatorVars, req, auth, row, cache, told, mishap>>

\* Mutant: any Authorization header would do.
AcceptAnyBearer(c) ==
  /\ pc[c] = "bearer"
  /\ Admit(c, "subscription")
  /\ UNCHANGED <<facilitatorVars, req, reply, row, cache, told, mishap>>

\* verify_bearer: a token in force, not known to be revoked, within its limit.
AcceptBearer(c) ==
  /\ pc[c] = "bearer"
  /\ Pay(c) = "bearer"
  /\ JwtSecretSet
  /\ Admit(c, "subscription")
  /\ UNCHANGED <<facilitatorVars, req, reply, row, cache, told, mishap>>

\* 401 also when the revocation lookup fails; never a fall back to payment.
RejectBearer(c) ==
  /\ pc[c] = "bearer"
  /\ \/ /\ Pay(c) = "stale bearer" \/ ~JwtSecretSet \/ HasDb
        /\ Answer(c, ErrorResponse(401))
     \/ /\ Pay(c) = "bearer" /\ JwtSecretSet /\ HasDb
        /\ Answer(c, ErrorResponse(429))
  /\ UNCHANGED <<facilitatorVars, req, auth, row, cache, told, mishap>>

\* payment_skipped.  A data route asks it only when a payment header is there.
SkipPayment(c) ==
  /\ pc[c] = "pricing"
  /\ Free
  /\ IsData(c) => Pay(c) \in Payments \cup {"garbled proof"}
  /\ Admit(c, "free")
  /\ UNCHANGED <<facilitatorVars, req, reply, row, cache, told, mishap>>

\* get_payment_required fails: no payTo, facilitator down, or nothing to charge.
RequirementsUnavailable(c) ==
  /\ pc[c] = "pricing"
  /\ ~Free \/ (IsData(c) /\ Pay(c) = None)
  /\ Answer(c, ErrorResponse(503))
  /\ UNCHANGED <<facilitatorVars, req, auth, row, cache, told, mishap>>

\* 402: no payment header, or one that does not parse.
RequirePayment(c) ==
  /\ pc[c] = "pricing"
  /\ ~Free
  /\ Pay(c) \notin Payments
  /\ Answer(c, ErrorResponse(402))
  /\ UNCHANGED <<facilitatorVars, req, auth, row, cache, told, mishap>>

PresentPayment(c) ==
  /\ pc[c] = "pricing"
  /\ ~Free
  /\ Pay(c) \in Payments
  /\ Goto(c, "verify")
  /\ UNCHANGED <<facilitatorVars, req, auth, reply, row, cache, told, mishap>>

-----------------------------------------------------------------------------
\* FacilitatorClient::verify_and_settle.  No answer from /verify, an error or
\* isValid = false all end in 402, with nothing posted to /settle.
VerifyRejected(c) ==
  /\ pc[c] = "verify"
  /\ Answer(c, ErrorResponse(402))
  /\ UNCHANGED <<facilitatorVars, req, auth, row, cache, told, mishap>>

\* Mutant: the work would start when /verify says yes.
VerifyAdmits(c) ==
  /\ pc[c] = "verify"
  /\ Admit(c, "settled")
  /\ UNCHANGED <<facilitatorVars, req, reply, row, cache, told, mishap>>

VerifyValid(c) ==
  /\ pc[c] = "verify"
  /\ Goto(c, "settle")
  /\ post' = [post EXCEPT ![c] = "posted"]
  /\ UNCHANGED <<chain, req, auth, reply, row, cache, told, mishap>>

\* A 2xx answer, unless it says success = false: without the field it counts as true.
SettleSucceeded(c) ==
  /\ pc[c] = "settle"
  /\ post[c] = "ok"
  /\ Admit(c, "settled")
  /\ UNCHANGED <<facilitatorVars, req, reply, row, cache, told, mishap>>

\* Mutant: a settlement made before would be an error like any other.
DuplicateRefused(c) ==
  /\ pc[c] = "settle"
  /\ post[c] = "duplicate"
  /\ Answer(c, ErrorResponse(402))
  /\ UNCHANGED <<facilitatorVars, req, auth, row, cache, told, mishap>>

\* "already been processed" counts as success, so that a retry is served.
SettleDuplicate(c) ==
  /\ pc[c] = "settle"
  /\ post[c] = "duplicate"
  /\ Admit(c, "duplicate")
  /\ UNCHANGED <<facilitatorVars, req, reply, row, cache, told, mishap>>

SettleRefused(c) ==
  /\ pc[c] = "settle"
  /\ post[c] = "fail"
  /\ Answer(c, ErrorResponse(402))
  /\ UNCHANGED <<facilitatorVars, req, auth, row, cache, told, mishap>>

\* The answer of /settle is lost or is not JSON: 402, whatever the ledger did.
SettleLost(c) ==
  /\ pc[c] = "settle"
  /\ Answer(c, ErrorResponse(402))
  /\ mishap' = mishap \cup {Pay(c)}
  /\ UNCHANGED <<facilitatorVars, req, auth, row, cache, told>>

FacilitatorStep(c) ==
  /\ pc[c] = "settle"
  /\ SubmitSettle(c, Pay(c)) \/ ConfirmSettle(c, Pay(c))
  /\ UNCHANGED handlerVars

FacilitatorGivesUp(c) ==
  /\ pc[c] = "settle"
  /\ GiveUpSettle(c, Pay(c))
  /\ mishap' = mishap \cup {Pay(c)}
  /\ UNCHANGED <<pc, req, auth, reply, row, cache, told>>

LedgerStep ==
  /\ \E p \in Payments : ChainLand(p) \/ ChainExpire(p)
  /\ UNCHANGED handlerVars

-----------------------------------------------------------------------------
\* maybe_cached, after the gate: a hit is answered at once and is not logged.
CacheHit(c) ==
  /\ pc[c] = "lookup"
  /\ HasDb
  /\ cache[Key(c)] # Absent
  /\ Answer(c, OkWithPayment(c, "cached", cache[Key(c)]))
  /\ UNCHANGED <<facilitatorVars, req, auth, row, cache, told, mishap>>

\* No row in force, or the read failed.
CacheMiss(c) ==
  /\ pc[c] = "lookup"
  /\ HasDb \/ cache[Key(c)] = Absent
  /\ Goto(c, "collect")
  /\ UNCHANGED <<facilitatorVars, req, auth, reply, row, cache, told, mishap>>

\* Mutant: the plain error response would be used after the settlement too.
CollectFailsBare(c) ==
  /\ pc[c] = "collect"
  /\ req[c].subject \notin Parsable
  /\ Answer(c, ErrorResponse(503))
  /\ UNCHANGED <<facilitatorVars, req, auth, row, cache, told, mishap>>

\* RPC_ERROR for an address that is no public key, INVALID_TRANSACTION for bytes that
\* do not decode: found out only now, and again by every retry.  It is the one error
\* of the collectors; a read of the chain that fails counts as zero.
CollectFails(c) ==
  /\ pc[c] = "collect"
  /\ req[c].subject \notin Parsable
  /\ Answer(c, ErrorWithSettlement(c, IF req[c].route = "tx-risk" THEN 422 ELSE 503))
  /\ UNCHANGED <<facilitatorVars, req, auth, row, cache, told, mishap>>

\* Collect, score, and, for tx-risk or without a database, answer.
CollectSucceeds(c) ==
  /\ pc[c] = "collect"
  /\ req[c].subject \in Parsable
  /\ IF HasDb /\ req[c].route \in CachedRoutes
     THEN Goto(c, "write") /\ UNCHANGED reply
     ELSE Answer(c, OkWithPayment(c, "fresh", FreshBody(c)))
  /\ UNCHANGED <<facilitatorVars, req, auth, row, cache, told, mishap>>

\* set_cached_score; its error is only logged.
WriteCache(c) ==
  /\ pc[c] = "write"
  /\ cache' \in {cache, [cache EXCEPT ![Key(c)] = FreshBody(c)]}
  /\ Goto(c, "log")
  /\ UNCHANGED <<facilitatorVars, req, auth, reply, row, told, mishap>>

\* log_scoring; its error is only logged too.
LogScoring(c) ==
  /\ pc[c] = "log"
  /\ row' \in {row, [row EXCEPT ![c] = [logged |-> TRUE, sig |-> SettlementSig(c)]]}
  /\ Answer(c, OkWithPayment(c, "fresh", FreshBody(c)))
  /\ UNCHANGED <<facilitatorVars, req, auth, cache, told, mishap>>

-----------------------------------------------------------------------------
\* POST /subscribe after the gate: sign, record (the result is dropped), answer.
SignToken(c) ==
  /\ pc[c] = "sign"
  /\ JwtSecretSet
  /\ IF HasDb THEN Goto(c, "record") /\ UNCHANGED reply
              ELSE Answer(c, OkWithPayment(c, "token", FreshBody(c)))
  /\ UNCHANGED <<facilitatorVars, req, auth, row, cache, told, mishap>>

SignFails(c) ==
  /\ pc[c] = "sign"
  /\ ~JwtSecretSet
  /\ Answer(c, ErrorResponse(503))
  /\ UNCHANGED <<facilitatorVars, req, auth, row, cache, told, mishap>>

RecordSubscription(c) ==
  /\ pc[c] = "record"
  /\ Answer(c, OkWithPayment(c, "token", FreshBody(c)))
  /\ UNCHANGED <<facilitatorVars, req, auth, row, cache, told, mishap>>

-----------------------------------------------------------------------------
\* The invocation is free again.
Release(c) ==
  /\ Goto(c, "idle")
  /\ req' = [req EXCEPT ![c] = NoReq]
  /\ auth' = [auth EXCEPT ![c] = None]
  /\ reply' = [reply EXCEPT ![c] = NoReply]
  /\ row' = [row EXCEPT ![c] = NoRow]
  /\ post' = [post EXCEPT ![c] = "none"]

\* The buyer receives the response.
Deliver(c) ==
  /\ pc[c] = "answered"
  /\ told' = told \cup ({reply[c].proof} \ {None})
  /\ Release(c)
  /\ UNCHANGED <<chain, cache, mishap>>

\* The connection is gone, or the platform kills the invocation at its time
\* limit, with no response delivered.
Abort(c) ==
  /\ pc[c] # "idle"
  /\ mishap' = IF pc[c] = "settle" \/ auth[c] \in {"settled", "duplicate"}
               THEN mishap \cup {Pay(c)} ELSE mishap
  /\ Release(c)
  /\ UNCHANGED <<chain, cache, told>>

\* expires_at passes.
CacheExpire ==
  /\ \E k \in Keys : cache[k] # Absent /\ cache' = [cache EXCEPT ![k] = Absent]
  /\ UNCHANGED <<facilitatorVars, pc, req, auth, reply, row, told, mishap>>

-----------------------------------------------------------------------------
Gate(c) ==
  \/ RejectInput(c) \/ PassGlobalRateLimit(c) \/ GlobalRateLimited(c)
  \/ AcceptBearer(c) \/ RejectBearer(c)
  \/ SkipPayment(c) \/ RequirementsUnavailable(c) \/ RequirePayment(c) \/ PresentPayment(c)

Settlement(c) ==
  \/ VerifyRejected(c) \/ VerifyValid(c)
  \/ SettleSucceeded(c) \/ SettleDuplicate(c) \/ SettleRefused(c) \/ SettleLost(c)
  \/ FacilitatorStep(c) \/ FacilitatorGivesUp(c)

Work(c) ==
  \/ CacheHit(c) \/ CacheMiss(c) \/ CollectFails(c) \/ CollectSucceeds(c)
  \/ WriteCache(c) \/ LogScoring(c)
  \/ SignToken(c) \/ SignFails(c) \/ RecordSubscription(c)

Next ==
  \/ \E c \in Calls : Arrive(c) \/ Gate(c) \/ Settlement(c) \/ Work(c) \/ Deliver(c) \/ Abort(c)
  \/ LedgerStep
  \/ CacheExpire

Spec == Init /\ [][Next]_vars

-----------------------------------------------------------------------------
Entitled(c) ==
  \/ auth[c] \in {"settled", "duplicate"} /\ chain[Pay(c)] = "landed"
  \/ auth[c] = "subscription" /\ Pay(c) = "bearer" /\ IsData(c)
  \/ auth[c] = "free" /\ Free

\* Chain reads, scores, cached scores and tokens are for calls the gate let in,
\* and the gate lets a payment in only once the ledger has charged it: settle
\* comes before work, and the cache lookup comes after the gate.
WorkIsPaidFor ==
  \A c \in Calls : pc[c] \in WorkStates \/ reply[c].code = 200 => Entitled(c)

\* No charge is silent.  A buyer whose payment landed has been given its proof,
\* or an exchange is still going to give it, or that exchange was cut off after
\* POST /settle (the answer of /settle lost or given up, the call aborted).
\* A failure the code handles is never the reason.
EveryChargeIsAccountedFor ==
  \A p \in Payments : chain[p] = "landed" =>
    \/ p \in told \cup mishap
    \/ \E c \in Calls : /\ Pay(c) = p
                        /\ \/ pc[c] = "settle"
                           \/ pc[c] \in WorkStates /\ auth[c] \in {"settled", "duplicate"}
                           \/ reply[c].proof = p

\* The settlement a response or an audit row names is the one of the call it
\* belongs to, and has landed, also when the body was computed for another buyer
\* and comes from the cache, or the settlement was synthesised for a retry.
EachNamesOwnSettlement ==
  \A c \in Calls : \A p \in {reply[c].proof, reply[c].sig, row[c].sig} \ {None} :
    Pay(c) = p /\ chain[p] = "landed"

\* A call that is turned away at the gate (a malformed parameter, a rate limit, a bad
\* token, no price list) never posted to /settle: no one pays for those refusals.
\* An input that only turns out unparsable in the handler is no such refusal.
RefusedBeforeSettle ==
  \A c \in Calls :
    reply[c].code \in {400, 401, 429} \/ (reply[c].code = 503 /\ auth[c] = None) =>
      post[c] = "none"

\* error_response_with_settlement says of itself (api/common.rs:44-47) that it is
\* the response of failures after the settlement, so that the buyer can reconcile
\* "paid, not served".
FailureAfterSettlementCarriesProof ==
  \A c \in Calls :
    pc[c] = "answered" /\ auth[c] \in {"settled", "duplicate"} => reply[c].proof = Pay(c)

\* payment_skipped says (x402/payment_handler.rs:64) that there is a free tier: when
\* nothing is charged, no data call is turned away for want of a payment.
FreeTierIsServed ==
  Free => \A c \in Calls :
    pc[c] = "answered" /\ IsData(c) /\ auth[c] = None => reply[c].code \notin {402, 503}

-----------------------------------------------------------------------------
Stage(c) ==
  CASE pc[c] = "idle"        -> "closed"
    [] pc[c] \in GateStates  -> "open"
    [] pc[c] \in WorkStates  -> "granted"
    [] pc[c] = "answered"    -> "answered"

Service == INSTANCE PaidService WITH
  Creds     <- Payments \cup OtherCreds,
  NoReceipt <- None,
  stage     <- [c \in Calls |-> Stage(c)],
  cred      <- [c \in Calls |-> Pay(c)],
  answer    <- [c \in Calls |-> [served |-> reply[c].code = 200, receipt |-> reply[c].proof]],
  charged   <- {p \in Payments : chain[p] = "landed"}

\* The service keeps the promise of PaidService: work only against a charged
\* payment (or a token, or for free), and then, success or failure, a receipt.
KeepsServicePromise == Service!Spec
=============================================================================
