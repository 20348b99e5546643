# solrisk, specified and checked

solrisk is a pay-per-call risk scoring service for Solana wallets, tokens and
transactions: a Rust serverless function (`src/bin/risk_api.rs`) that sells each
answer over x402 (HTTP 402, a `PAYMENT-SIGNATURE` header, a facilitator that
settles on chain) or against a subscription JWT. This directory holds the TLA+
models of that code, the TLC configurations that check them, and TLAPS proofs
of the properties that matter most. Paths below are relative to the crate's
`src/`, those of `public/` and `migrations/` to the repository.

## 1. Inventory

| Part | State it keeps | Operations | Talks to |
|---|---|---|---|
| Payment gate and facilitator client (`x402/`) | none across calls; reads the parameters cache | `check_payment`, `payment_skipped`, `get_payment_required`, `enrich_payment_required`, `verify_and_settle` (POST `/verify`, POST `/settle`, duplicate detection) | facilitator over HTTP without a timeout, parameters cache |
| Facilitator and ledger (external) | the fate of each payment transaction, the posts in hand | verify, settle, give up; land or expire | the gate |
| Data route authentication (`auth/dual.rs`) | none | global limit, bearer branch, revocation, payer limit, payment | database, gate |
| Data handlers (`api/handlers.rs`) | health cache (two `RwLock`s, 30 s) | `handle_wallet_risk`, `handle_token_risk`, `handle_tx_risk`, health | gate, score cache, RPC, audit log |
| Response builders (`api/common.rs`, `api/response.rs`) | none | error with and without settlement proof, 402, 200 with `PAYMENT-RESPONSE` | handlers |
| Subscription sale (`api/subscribe.rs`) | none | gate, sign, record, answer | gate, `subscription.rs`, database |
| Subscription tokens (`subscription.rs`, `db.rs`) | the JWT (with the buyer), `solrisk_subscriptions` | sign, verify, `record_subscription`, `is_revoked` | sale, authentication |
| Rate limits (`auth/dual.rs`, `db.rs`) | `solrisk_rate_buckets` | one upsert per call and key | authentication |
| Score cache and audit log (`db.rs`) | `solrisk_score_cache`, `solrisk_scoring_log` | get, DELETE + INSERT, log | handlers |
| Database pool (`db.rs`) | five clients, each with a transaction or none | checkout, BEGIN / SET LOCAL / DEALLOCATE / statement / COMMIT, discard | every database call |
| Parameters cache (`parameters.rs`) | map and fetch time behind a `RwLock`, 60 s | `refresh`, lookups that refresh first | gate, database |
| Label cache (`signals/labels.rs`) | a deny and an allow index and their fetch time behind a `RwLock`, 300 s, compiled-in labels until the first refresh | `refresh_labels_from_db` (wallet-risk only), lookups | database, wallet and transaction signals |
| RPC retry (`rpc_retry.rs`) | attempt counter, wall budget | `with_retry`, `classify` | Solana RPC |
| Wallet signals and fund-flow trace (`signals/chain.rs`, `activity.rs`, `funding.rs`) | none across calls | balance, accounts, pages back to the first signature, funder hops, activity counts | RPC retry, labels |
| Token signals (`signals/token.rs`) | none across calls | supply, mint account, largest accounts, newest signature | RPC retry |
| Transaction screening (`signals/tx.rs`) | none across calls | static screen, then simulation and balance deltas, without retries | RPC, labels |
| Scoring (`scoring.rs`, `scoring_token.rs`, `scoring_tx.rs`) | none | weights, clamp, bands, qualities, recommendation | handlers |
| Routing and start-up (`route_handler.rs`, `bin/risk_api.rs`) | `AppState` | dispatch | all |
| Manifest, price catalogue, static pages | none | build documents | none |
| Migrations, seeds, enrolment scripts | the tables | one-off | database |

`PROJECT.json` gives each of these its sources, the modules that model it and
what is left out. Its `hazards` list names, at their lines, the places where
this code is hard to test, with the properties that cover each one (for one of them,
the wait for a connection, with the reason why none does).

### What is hard here, and what correctness means

* **A payment is settled before the work is done.** Between `/settle` and the
  answer stand a cache read, a few dozen RPC calls, two database transactions
  and the time limit of the platform. Correct: no work without a charge; no
  charge that is silent; a retry of a charged payment is served, if its request has
  an answer at all: whether the input parses is only found out after `/settle`.
* **Calls share payments and subjects.** Two calls may present one payment; one
  buyer's score is cached and served to another. Correct: every response and
  audit row names the settlement of its own call only.
* **Order of the gates.** A refusal that stands after the settlement charges for
  nothing. Correct: malformed parameters, limits and tokens are decided before.
* **Two clocks of different resolution.** Tokens count seconds, the table
  microseconds. Correct: the term is honoured to a second, revocation bites.
* **Caches with a time to live that many calls refresh at once**, by a fetch
  outside the lock. Correct: a later read never shows an older configuration;
  one offer is priced from one configuration.
* **Transactions over a small pool with client-side timeouts.** Correct: no
  client goes back with an open transaction; a wait ends.
* **A failed read that turns into a zero**, and none of them ends a call. Correct:
  no wallet is allowed whose history was not read, no mint on defaults, and no trace or
  outflow is made up from what was not read.
* **Labels that change under a call**, which looks into them several times, minutes
  apart. Correct: what stays on the deny list throughout is blocked; both indexes
  are of one moment.
* **Retries inside pages inside hops.** Each read has a budget of its own. Correct:
  their sum is bounded, and a call ends, whatever the ledger looks like.
* **A simulation that follows the reads it is compared with.** Correct: it enriches
  the static verdict and never excuses; no outflow is made up from missing data.

## 2. Modules

| Module | Models | Extends / instantiates |
|---|---|---|
| `Facilitator` | the external facilitator and ledger, from what the client relies on | |
| `PaidRequest` | one exchange from request to answer, for any number of concurrent calls | `Facilitator`, instance of `PaidService` |
| `PaidService` | the abstract promise: refused, or granted against a charge and then answered with a receipt | |
| `PaidRequestLive` | `PaidRequest` with retrying buyers, bounded faults and fairness | `PaidRequest` |
| `Subscription` | tokens: sale, row, expiry, leeway, revocation, verdict | |
| `ScoreCache` | one row of the score cache: concurrent DELETE and INSERT transactions, lookups, the clock of the database | instance of `ScoreRegister` |
| `ScoreRegister` | the abstract cache: a register with an expiry that is replaced in one step | |
| `RateLimit` | the counters of both per-minute limits, shared by all instances | instance of `WindowCounter` |
| `WindowCounter` | the abstract limit: counters that count and decide a check in one step | |
| `ParametersCache` | the price list an instance keeps in memory: refreshes that overlap and fail, lookups, a table that changes | |
| `RpcRetry` | one read of the chain with its attempts, waits and wall budget | |
| `LabelCache` | the labels of an instance: seeds, refresh that fails or finds nothing, a table that is edited | |
| `Scoring` | the scores, bands, qualities and recommendations of wallets, mints and transactions, as functions | |
| `WalletSignals` | wallet-risk after the gate: every read in its order, the funder trace, the activity, the score | `RpcRetry`, `LabelCache`, `Scoring` |
| `TokenSignals` | token-risk after the gate | `RpcRetry`, `Scoring` |
| `TxScreening` | tx-risk after the gate: static screen, simulation, verdict | `LabelCache`, `Scoring` |
| `Screening` | the composition: one instance that answers all three, other calls and operators around it, restarts | `WalletSignals`, `TokenSignals`, `TxScreening` |
| `PaidRequest_proofs` | TLAPS proofs of the invariants | `PaidRequest` |
| `PaidRequestRefinement` | TLAPS proof that `PaidRequest` implements `PaidService` | `PaidRequest_proofs` |
| `ScoreCache_proofs` | TLAPS proofs of the invariants and of the refinement | `ScoreCache` |
| `Subscription_proofs` | TLAPS proofs of the type, the term and the revocation | `Subscription` |
| `RateLimit_proofs` | TLAPS proofs of the type, of the limit, of the refusals and of the refinement | `RateLimit` |
| `ParametersCache_proofs` | TLAPS proofs of the type and of what a lookup finds | `ParametersCache` |
| `Screening_proofs` | TLAPS proofs of the invariants of the composition, of its progress, and about the score | `Screening`, `FiniteInduction` |
| `FiniteInduction` | TLAPS proofs of induction over numbers and finite sets, and of the greatest value of a function | |
| `MCPaidRequest`, `MCSubscription`, `MCScoreCache`, `MCRateLimit`, `MCParametersCache`, `MCScreening` | symmetry sets, rows and a small ledger for TLC | |

### `PaidRequest`: state and code

A call's `pc` names the await at which its future stands; every action is what
the code does between two awaits.

| `pc` | The call is at | Actions that leave it |
|---|---|---|
| `idle` | no request | `Arrive` |
| `admit` | parameter checks of the handler, then `check_global_rate_limit` | `RejectInput`, `PassGlobalRateLimit`, `GlobalRateLimited` |
| `bearer` | `verify_bearer` | `AcceptBearer`, `RejectBearer` |
| `pricing` | `check_payment` or `get_payment_required` up to `/verify` | `SkipPayment`, `RequirementsUnavailable`, `RequirePayment`, `PresentPayment` |
| `verify`, `settle` | `verify_and_settle` | `VerifyRejected`, `VerifyValid`, `SettleSucceeded`, `SettleDuplicate`, `SettleRefused`, `SettleLost` |
| `lookup` | `maybe_cached` | `CacheHit`, `CacheMiss` |
| `collect` | the signal collectors and scoring | `CollectFails`, `CollectSucceeds` |
| `write`, `log` | `write_cache_and_log` | `WriteCache`, `LogScoring` |
| `sign`, `record` | `handle_subscribe` after the gate | `SignToken`, `SignFails`, `RecordSubscription` |
| `answered` | the response is built | `Deliver` |

`Abort` ends a call at any await: the serverless platform stops an invocation at
its time limit, and the process with it. `auth` is the `DataAuth` the gate
returned (`settled` and `duplicate` both being a `SettlementProof`, the second
one synthesised without a transaction signature), `reply` the response, `row`
the audit row the call inserted, `cache` the score cache. `told` and `mishap`
are history variables: payments whose proof a buyer received, and payments of
which some exchange lost track after it posted to `/settle`. They guard nothing.

A request carries one credential: a payment (an opaque value shared by whoever
presents it), a token in force, any other token, a header that does not parse,
or nothing. `Free`, `HasDb` and `JwtSecretSet` are the configuration. A rate
limit, a database error and a refusal of `/verify` may happen at any time.

A request can be malformed (`wellFormed` is false: a parameter is missing, has an
impossible length, is not base64), which the handler refuses first, or well formed and
yet not about a `Parsable` subject: an address that is no public key, bytes that are no
transaction. The collectors find that out after the settlement (`signals/chain.rs:82`,
`signals/token.rs:27`, `api/handlers.rs:485`), and it is the only way they fail: a read
of the chain that fails counts as zero. So `CollectFails` depends on the request alone.

In `PaidRequestLive` the buyer of a payment has one request (`order`) and sends it again
with the payment until it is served; `faults` counts what went wrong outside the code,
`served` the payments whose buyer has received a 200.

### `Subscription`: state and code

Time is counted in ticks, of which a second has `TicksPerSecond` (a million in
the code, at the resolution of `TIMESTAMPTZ`). `signed` and `tokens` are the
tokens made and those whose buyer has them, `table` is `solrisk_subscriptions`,
`call[c]` stands at `record` (the INSERT whose result is dropped), `revocation`
(`is_revoked`), `limit` (`check_payer_rate_limit`) or a verdict. `since` and
`barred` remember when the call arrived and whether an operator had revoked its
token by then; `cut` remembers what was revoked. `InTerm` is the library's check
with its leeway followed by the comparison `verify_bearer` makes itself;
`Matches` is the WHERE clause of `is_revoked`, with `from_timestamp(iat, 0)`.

### `ScoreCache`: state and code

`row` is the committed row of one endpoint and subject, with the times at which
its score was ready, its writer began, and it expires. `write[w]` is where
`set_cached_score` stands: `scored` (waiting for `conn()` and `BEGIN`), `begun`,
`blocked` (its DELETE waits for another transaction), `deleted`, `inserted`;
`owns` says that its DELETE has taken the committed row. `Open`, `Delete`,
`Insert`, `Commit` are the statements of the code in their order; `GiveUp` is any
of its error returns, each of which discards the client, and the end of the
instance. `lookup[r]` is `get_cached_score`, in the same steps as the handler sees
it: `Ask` (its `BEGIN`, whose time is `NOW()`), `Select` or `ReadFails`, `Return`.

### `RateLimit`: state and code

`check[c]` is a call's `check_and_increment_rate`, first for its address
(`Arrive`), then, if that did not refuse it and its token is in order, for its
payer (`CheckPayer`). `Begin` fixes `NOW()` and with it the window, `Upsert` takes
the row and its next count, `Commit` stores it and compares it with the limit.
`Fail` and `CommitUnheard` are the errors that let the call pass, the second of
them after the server has counted it. A refusal by the token, the end of the
invocation and the end of a served call are all `Leave`: what follows does not
touch the counters. `attempts` and `admitted` are history variables and guard
nothing but the bound `MaxCount`.

In `WindowCounter` a request is made, and then counted and decided in one step, by
the count of its key in the window it was made in. `RequestOf` is the mapping: a
check is `made` from `Begin` until it ends, whatever it holds of the row, and `count`
is the committed table, so the whole of a transaction happens at its `Commit`.

### `ParametersCache`: state and code

`cache` is `PARAMETERS` (`map` and `last_fetch`), `table` the rows in force, of this
service and of others, `call[c]` a `resolve_string_for_endpoint`: `asked`, then
`Check` decides under the read lock and reads the clock; `query` and `legacy` are
the two statements of `fetch_service_parameters`, `read` and `failed` their ends,
which `Store` and `StoreFailure` carry into the cache under the write lock; `lookup`
is `lookup_cached`. An image carries, besides the map, what it was read from
(`rows`, `asOf`, `source`) and whether a refresh has failed since (`current`):
history that guards nothing. Nothing happens between two awaits but the steps of
other threads, so no time passes at `lookup`.

A row is of this service or of another, has an endpoint, and has the parameter's name or
the deprecated one with the prefix `SOLRISK_`. `ServiceMap` files a row of the plain
name under its endpoint and one of the deprecated name under `*`, whatever its endpoint,
unless something is there (`parameters.rs:73`). A deprecated row of one endpoint
therefore prices every endpoint that has neither a row of its own nor one of `*`;
`Preferred` says so. `Tables` is what operators may have in the table at one time.

### `Screening`: state and code

The modules below model what a handler does between the gate and the cache. One
call at a time runs in detail; what other invocations of the process and other
programs do to what it sees are steps of their own (`RefreshByOther`, `EditLabels`,
`LabelsAge`, `BalanceMoves`). `Restart` ends the process at any time, with the call
and the labels it holds.

* `rpc` is the running `with_retry`: its attempt and the time spent before it. A call
  awaits one read after another, so there is at most one. `Retry` is a failed request
  that is made again; `Returns` is what `with_retry` gives in the end, a result or an
  error.
* `labelTable` is `wallet_labels`, `labels` and `fetched` are `LABEL_CACHE`. `standing`
  is history: what the deny index has held at every moment since the call began.
* `wallet` is a wallet-risk call. `wallet.at` names its await:

  | `at` | The call awaits | Code |
  |---|---|---|
  | `refresh` | `refresh_labels_from_db` | `api/handlers.rs` |
  | `balance`, `accounts` | `getBalance`, `getTokenAccountsByOwner` | `signals/chain.rs` |
  | `pages` | a page of 100 signatures; only a shorter one shows the beginning | `signals/chain.rs` |
  | `genesis` | the first transaction of the wallet | `signals/funding.rs` |
  | `hop`, `hop_genesis` | a page, then the first transaction, of the last funder found | `signals/funding.rs` |
  | `activity` | one of the recent transactions, on one copy of the deny index (`index`) | `signals/activity.rs` |
  | `score`, `weigh` | the read lock for the deny index, then for the allow index | `scoring.rs` |
  | `scored` | nothing: the verdict is built | |

  `reads` counts its reads and guards nothing; it is capped one past the bound it is
  compared with.
* `token` is a token-risk call: `supply`, `info`, `largest`, `signature`, `scored`, with
  `got` the reads that brought something.
* `tx` is a tx-risk call: `accounts`, `balance`, `simulate`, `screened`. `slots`,
  `unparsed` and `moved` say what the node returned and what others took meanwhile.

The ledger is given by constants (`History`, `Genesis`, `Recent`, `Mint`, `Effect`, ...),
and `Funder`, `Counterparties`, `Aggregate`, `StaticSignals`, `TokenChanges` and the
three scores are functions of it, translated from `extract_funder`, `extract`,
`compute_token_deltas` and their neighbours.

### External behaviour that is assumed

* A second settlement of a landed payment is answered with an error whose text
  contains "already been processed" (`x402/facilitator.rs:226`), and `/verify`
  does not always refuse a payment that has landed: it may answer either way.
* A transaction in flight lands or expires; the facilitator may stop waiting
  while it is in flight. A settle answer counts as success unless it says
  `success: false` (`x402/facilitator.rs:210`, where a missing field is true); the
  assumption is that pr402 gives such an answer only for a landed transaction.
* HS256 signatures cannot be forged and all clocks agree.
* Nothing in the repository writes `revoked`; `Revoke` is the operator's UPDATE
  of all rows of a payer, and `cut` is what it is meant to revoke.
* `Free` does not change during a run. In the code `payment_skipped` also
  depends on the parameters cache, which `ParametersCache` models by itself.
* The order of rows of one name in the legacy query is any order, and `*` is the first
  endpoint in the collation of the database, while the others are in any order.
  Operators may change any row at any time.
* PostgreSQL at READ COMMITTED: a DELETE sees what was committed when it started,
  waits for a transaction that holds the row, takes the row if that one rolls
  back and finds nothing if it committed; an INSERT waits for an uncommitted
  entry of its key, and fails if a row is there; an upsert holds its row until its
  transaction ends; `NOW()` is the time of the `BEGIN`; a closed connection rolls
  back; a COMMIT whose answer is lost may have been carried out.
* Every model lets invocations overlap. The tables and the facilitator are shared
  by all instances, so this needs no concurrency inside one process; that
  invocations of one process share `AppState` through `Arc` and locks
  (`src/state.rs`) matters to `ParametersCache`.
* Two purchases of one payer in the same microsecond are left out.
* A node may fail any read with any kind of error, after any time up to the timeout of
  the client. What a read brings is true and does not change during a call, but
  for the balances that `BalanceMoves` takes from. A simulation may return fewer
  accounts than asked for, and some that do not parse.
* How a transaction's instructions are unpacked is a library's; a transaction is
  the sequence of its programs and of what each is told.

## 3. Runs

| Run | Instance | What it shows |
|---|---|---|
| `shared_payment` | 2 calls, 2 payments, a subject that parses and one that does not, wallet-risk and subscribe | Work only for a landed payment, a token or for free (`WorkIsPaidFor`); a landed payment is acknowledged or its exchange was cut off after `/settle` (`EveryChargeIsAccountedFor`); settlements are those of the call (`EachNamesOwnSettlement`); refusals at the gate cost nothing (`RefusedBeforeSettle`: a malformed parameter, a limit, a token, a missing price list; not the 503 or 422 for input that does not parse, which comes after the settlement); every answer after a settlement carries its proof (`FailureAfterSettlementCarriesProof`); the exchange refines `PaidService` |
| `free_tier` | price 0, no database, no secret, all routes | No one is served unentitled and no receipt is made up where nothing is charged |
| `retried_payment` | 2 calls, 1 payment, 2 faults, a subject that parses and one that does not, 3 routes | A charged buyer who keeps sending the request with the payment is served in the end, or, where the request cannot be answered, told so with the proof of the charge (`ChargedBuyerIsServed`) |
| `subscription_term` | 2 calls, 1 payer, 2 ticks a second, a tier of 1 s, leeway 1 s, 6 ticks, 2 tokens | The term is honoured to a second; a revocation bites whenever the row exists and its instant is a whole second; it hits no token of another second |
| `renewed_score` | 3 writers, 1 reader, 1 tick to live, 1 tick of waiting, clock to 3 | The row is replaced in one step, whatever the writers do to each other (`CacheIsARegister`); what is served is at most the time to live and the wait for a connection old (`HitIsRecent`); of writers that meet, one can go on (`SomeWriterGoesOn`) |
| `shared_limit` | 2 calls, 1 address, 1 payer, limits 1, 2 ticks a minute, clock to 2, 2 checks per window | No more than the limit are admitted by an answer of the database (`AdmittedWithinLimit`); whoever is refused met more checks than the limit in its window (`RefusedOnlyOverLimit`); every check is counted and decided as if it were alone (`CountsAtOnce`) |
| `price_list` | 2 calls, 2 endpoints, 6 tables made of an endpoint's own row, the row of `*`, two deprecated ones and one of another service, 1 tick to live, 1 tick for a fetch, clock to 2 | A lookup after a success is at most the longer of the two times out of date, although an older map may overwrite a newer (`LookupIsRecent`); one after a failure rests on an attempt no older than that, so that neither an old map nor the environment's price lasts (`AttemptIsRecent`); it finds what the table had, and no failure loses that (`LookupIsOfTheTable`) |
| `verdicts` | 13 addresses, 5 wallets, 3 mints, 5 transactions, 3 label tables; 3 attempts in a budget of 3, 2 pages, 3 hops of 2 pages, 2 parsed transactions | For all three calls, whatever the node and the labels do: what stays on the deny list is blocked (`DeniedIsBlocked`); no wallet is allowed without a page of history that was read (`AllowNeedsHistory`), no mint without its supply, authorities and largest accounts (`AllowedMintsAreSafe`); a trace is never guessed (`TraceIsHonest`); the simulation only adds, and makes no outflow up (`SimulationOnlyAdds`, `OutflowIsObserved`); labels are of one table (`LabelsAreOneTable`); a read, and all reads of a call together, are bounded (`RetriesAreBounded`, `ReadsAreBounded`); no call turns back (`NoCallTurnsBack`), and every call ends (`EveryCallEnds`) |
| `no_jwt_secret` | violation | Finding 1 |
| `free_tier_header` | violation | Finding 2 |
| `revoked_token` | violation | Finding 3 |
| `preferred_row` | violation; 1 call, the rows of the mainnet seed for two endpoints | Finding 4 |

**Bounds.** Calls are symmetric and interact only through the ledger, the cache
and the facilitator's posts, so two calls show every pairwise race: one payment
presented twice, a cache row written by one and read by the other, a post
overtaken by another. Every kind of credential occurs. `shared_payment` has a route
that is cached and the sale; tx-risk differs from the first only in skipping the cache
and in the code of one error, and is in `free_tier`, `retried_payment` and the proofs. The
second payment of `shared_payment` is what makes a leaked settlement visible. The proofs
of section 4 remove these bounds for the safety properties. In `subscription_term`
two ticks a second are the least that tell a whole second from a fraction of
one; six ticks let a token of one second be issued at either phase, expire,
outlive the library's leeway and be presented after it; two tokens of one payer
fall in the same or in different seconds. A larger payer set adds only rows that
`is_revoked` never selects. In `renewed_score` three writers are one that holds the
row, one that is blocked by it and one that arrives between them; three ticks let
a score wait, be stored, and expire under a reader that began before. Two ticks
a minute put two calls into one window at different times and into different
windows; the limits of 1 and two checks per window bring the count to the limit and
past it. Keys and windows never meet in one row, so one key of each kind is
enough. In `price_list` two ticks let a map be fetched, grow as old as it may and
be refreshed; two calls are a refresh that is overtaken by another; the rows
are one of each kind that the two queries and the lookup treat differently, and the
tables put each kind where it is preferred and where it gives way.

In `verdicts` the page of 100 is the code's own: the five wallets have histories of
none, 2, 100, 150 and 200 signatures, on both sides of a page boundary, of the page
limit and of a full page, one whose only recent signature has no time. Funders are chained three deep,
to the hop limit, with histories of 0 to 130; one of them, a mixer, is labelled by the
seeds, by one of the tables, or not at all; a genesis transaction may have
balances out of line with its keys. The three tables are empty, share a label with
the seeds at another weight, or hold an allow label only for one of the wallets. The
mints lie on both sides of the concentration limit and of a week of age, one has no
mint account; the transactions fail, move nothing, drain, close accounts, hand an
authority over, or run a program that only a lookup table names. Three attempts
and a budget of 3 let a read end by either bound. What other calls do to each other,
more than one at a time, is in `RefreshByOther` and `BalanceMoves`: calls share nothing
else.

**Deadlock** is checked except in `retried_payment`, where buyers who were served
stop.

**Fairness** (`LiveSpec`): weak fairness of each call's steps, because tokio polls
a future that is ready; of the ledger, because a transaction in flight lands or
its blockhash expires; and of the buyer's retry, which is the buyer's part of
the promise. Failures (limit, missing price list, refusal of `/verify`, lost
answer, abort) are bounded by `MaxFaults`: without a bound nothing can be
promised. An input that does not parse is none of them: it fails whenever it is
collected, and that answer is part of the call's progress. The facilitator's answer is part of a call's progress although the
client in `x402/facilitator.rs:22` sets no timeout: a facilitator that never
answers is an `Abort` at the platform's time limit, and is counted among the
faults. Nothing is assumed of cache expiry. In `verdicts` (`FairSpec`) a call's own
steps are weakly fair: a request to the node ends, because its client has a timeout
(`MaxOp`), a sleep ends, and the executor polls the call again. Nothing is assumed of what a
read returns, nor of the labels.

## 4. Proofs

`PaidRequest_proofs` proves, for any sets of calls, payments and subjects and any
configuration:

| Theorem | Says |
|---|---|
| `TypeCorrect` | `Spec => []TypeOK` |
| `WorkIsPaidForAlways` | `Spec => []WorkIsPaidFor` |
| `SettlementsAreOwn` | `Spec => []EachNamesOwnSettlement` |
| `RefusalsAreFree` | `Spec => []RefusedBeforeSettle` |
| `ChargesAreAccountedFor` | `EveryChargeIsAccountedFor` always, provided `JwtSecretSet \/ Free` |
| `FailuresCarryProof` | every answer after a settlement has its proof, provided `JwtSecretSet` |

and `PaidRequestRefinement` proves `ServicePromiseIsKept`: with `JwtSecretSet` or
nothing to charge, the exchange implements `PaidService`.

`TypeOK` is not inductive: that the proof a reply carries is a payment, and that a
cache write stays within the keys, depends on which call can stand where.
`TypeInv` adds that only a payment is verified, posted and held as a settlement,
that a busy call has a request, and that it reaches the score cache only on a
cached route (`InHand`). The safety properties rest on `IInv`, which is `TypeInv` with

* `CallInv`, for each call what its place implies: which credentials can stand
  there, which `auth` it can have, that a settled or duplicate call has a landed
  payment, what the facilitator's post can be, and what the reply and the row
  may quote;
* `CacheInv`: a cached body quotes no settlement, which is what lets one buyer's
  body be served to another;
* `AccountInv`: a landed payment is in `told` or `mishap`, or some call is still
  going to quote it; it is the part that needs the signing secret.

Each action of `Next` has a step, and under it one for each part it can disturb.
The refinement proof maps each action to one of five lemmas (refuse, grant,
conclude, close, stutter) and the ledger's landing to `Charge`.

`Subscription_proofs` proves, for any calls, payers, tiers, leeway and resolution of the
clock:

| Theorem | Says |
|---|---|
| `TypeCorrect` | `Spec => []TypeOK` |
| `TermHonoured` | `Spec => []TermIsHonoured` |
| `RevocationBites` | `Spec => []WholeSecondRevocationBites` |
| `RevocationHits` | `Spec => []RevocationHitsOnlyItsSecond` |

The code compares whole seconds (`iat`, `exp`, `from_timestamp`) of instants that
have microseconds. Three lemmas say what is lost by that: `EarlierSecond`,
`SameSecond` and `WholeSecond`. `TermHonoured` is `TermInv`, which says in seconds what
the verdict on the expiry compared, and those lemmas. Neither property on
revocation is inductive; they rest on `IInv`, which is `TypeOK` with

* `RowInv`: a payer and an instant of issue name one token, every row is that of a
  token, and a call that is about to record a token is alone with it and its buyer
  does not have it yet;
* `CutInv`: all rows of what was cut are revoked and no others are, and what was cut
  was in its buyer's hands or had a row. Without `RecordIsFirst` this would not
  survive `Record`, which could add an unrevoked row for a token that was already cut;
* `LookupInv`: a token that was cut when its call arrived still is, and a call with such
  a token has passed the lookup only without a row, or with an instant of issue in the
  middle of a second. That a row which is missing at the lookup is not written later,
  while the call is still under way, is again `RecordIsFirst`.

`ScoreCache_proofs` proves, for any sets of writers and readers, any time to live,
wait and clock bound:

| Theorem | Says |
|---|---|
| `TypeCorrect` | `Spec => []TypeOK` |
| `HitsAreRecent` | `Spec => []HitIsRecent` |
| `WritersGoOn` | `Spec => []SomeWriterGoesOn` |
| `CacheRefinesRegister` | `Spec => Register!Spec` |

`HitIsRecent` rests on `TimeInv`: a writer begins within `PoolWait` of its score,
nothing lies in the future, and both the row and a hit keep these relations.
`SomeWriterGoesOn` rests on `OwnInv`: at most one writer is engaged (has taken the
committed row, or has inserted one where there was none), whoever has taken the
row or is blocked on it has a row to wait for, and over an existing row only its
owner inserts. The engaged writer is the one that can go on. For the refinement
`Commit` is `Put`, and every other step of a writer leaves the row alone; that the
times it stores lie in the past is `TimeInv` again.

`RateLimit_proofs` proves, for any calls, keys, limits and length of a window:

| Theorem | Says |
|---|---|
| `TypeCorrect` | `Spec => []TypeOK` |
| `LimitHolds` | `Spec => []AdmittedWithinLimit` |
| `RefusalsAreDue` | `Spec => []RefusedOnlyOverLimit` |
| `ChecksCountAtOnce` | `Spec => Counter!Spec`: the transactions implement `WindowCounter` |

`LimitHolds` rests on three facts: at most one transaction has raised a row and not ended
(`RowHasOneOwner`), the count it is going to store is one more than the committed
one (`OwnerIsCurrent`), and no more calls were admitted than the count says, nor
than the limit (`AdmittedWasCounted`). `RefusalsAreDue` adds `AttemptsCoverCounts`: the
count of a row and the number of checks under way for it (`Pending`, of which there
are finitely many because each began) are together no more than the checks begun. It is
what a refusal compares with the limit, since the check that is refused is the one that
commits. For `ChecksCountAtOnce` the step that counts is the commit: `OwnerIsCurrent` makes
what it stores one more than what is there, so it is `Decide`, or `Lose` where the answer
does not arrive; `Begin` is `Make`, an error is `Miss`, the end of a call is `Forget`, and what a
transaction does between its beginning and its commit is not seen (`UnderWay`). That a
check reads its own count and not one that was raised under it is `RowHasOneOwner`
again.

`ParametersCache_proofs` proves, for any calls, endpoints, rows and times:

| Theorem | Says |
|---|---|
| `TypeCorrect` | `Spec => []TypeOK` |
| `LookupsAreRecent` | `Spec => []LookupIsRecent` |
| `AttemptsAreRecent` | `Spec => []AttemptIsRecent` |
| `LookupsAreOfTheTable` | `Spec => []LookupIsOfTheTable` |

`LookupsAreRecent` rests on `TimeInv`: the map in the cache is no older than its fetch
time says, which needs the clock to be read before the query. `AttemptsAreRecent` adds
`AttemptInv`: a call that goes on to look up has just found the fetch time recent, or
stored one that is as old as its own fetch took, and no time passes until the lookup.
`LookupsAreOfTheTable` rests on `SourceInv`: a map is always one that belongs to the rows
it was read from, and on `FindIsPreferred`: looking up the endpoint and then `*` in
what `ServiceMap` filed finds the endpoint's own row, else that of `*`, else a
deprecated one. The case of the legacy query is what finding 4 is about.

`Screening_proofs` proves, for any ledger, labels, limits and retry policy:

| Theorem | Says |
|---|---|
| `RetriesBounded` | `Spec => []RetriesAreBounded` |
| `LabelsOfOneTable` | `Spec => []LabelsAreOneTable` |
| `AllowedHaveHistory` | `Spec => []AllowNeedsHistory` |
| `OutflowObserved` | `Spec => []OutflowIsObserved` |
| `SimulationAdds` | `Spec => []SimulationOnlyAdds` |
| `DeniedBlocked` | `Spec => []DeniedIsBlocked` |
| `AllowedMints` | `Spec => []AllowedMintsAreSafe` |
| `ReadsBounded` | `Spec => []ReadsAreBounded` |
| `TraceHonest` | `Spec => []TraceIsHonest` |
| `TypeCorrect` | `Spec => []TypeOK` |
| `CallsGoForward` | `Spec => NoCallTurnsBack` |
| `DenyLabelsHarden` | further deny labels never lower a wallet's score nor soften its recommendation |

Each but the last rests on an invariant of its own, and later ones on earlier ones:

* `RetryInv`: what a running read has spent is below the budget, since a wait that
  would use it up is not begun.
* `LabelInv`: the indexes split one table, and `standing` is part of the deny index;
  `LabelStep` says that no step but the start of a call adds to `standing`.
* `PageInv`: pages count up to the limit, and a second page is only read after a full
  first one; with it `AllowInv`: the verdict of a wallet was scored from a state in which
  a second page had been read, since anything less has low quality, which is never
  allowed, and the first page was therefore full (`FullPage`).
* `DenyInv`: what stands on the deny list when a call looks the wallet up is in
  `denied` from then on, and `denied` that is not empty blocks. That there are finitely
  many hits, so that they can be counted, comes from the finite tables.
* `TxInv`: the changes of a screened transaction are those of its slots, and its
  verdict is the score of its signals. `MorePoints` and `MoreSignals` compare two
  sums of points term by term, which is why the simulation can only add.
* `TokenInv`: a scored mint has the score of what was read of it.
* `ReadInv`: the number of reads is at most what the place of the call allows: two at
  the balance and accounts, then one per page, then `UpToHop(n)` at the n-th hop, then one
  per parsed transaction. Each action moves a call to a place that allows one more
  (`Due`), which `Proceed` then spends. There is no need for the trace to be free of
  circles: the chain only grows, up to the hop limit.
* `TraceInv`: each hop of the chain funded the one before (`FunderFunded`, about
  `extract_funder`), it is labelled only where the trace ended on a bad source, and no
  other hop is on the standing deny list; with `PageInv`, the history of the subject
  was read to its last page before the first hop (`WholeHistory`).
* `TypeInv`: `TypeOK` with what the three calls carry between their reads. A verdict's
  score is a fold over the labels it hit, and an integer because they are finitely
  many (`SumIsInt`).

`TraceHonest` and `TypeCorrect` need a fact that is an induction: that finitely many
losses have a greatest, and that every finite set of labels has a sum. The library's
induction theorems take an operator as a parameter, which the provers cannot
instantiate, so `FiniteInduction` states induction with sets: a set with 0 and the
successors of its members has every number (`Induction`, by the pigeonhole principle),
a family of sets with `{}` and closed under adding a member has every finite
set (`SetInduction`), and a function on a finite set has a greatest value
(`GreatestValue`).

`CallsGoForward` is about steps. `AwaitsLeft` bounds, for each of the three calls, the awaits
that may still come: for a wallet those of its reads (`ReadBound`, less what it has read)
and the places after them. Each action of a call lowers it, by the invariants above
(`ReadInv`, `PageInv`, `TypeOK`), or leaves it and begins another attempt; `FewerInAll`
adds the three up. With `RetriesBounded`, which bounds the attempts at a read, the number
of steps a call can take is bounded, so `EveryCallEnds` needs only that steps are taken.

`DenyLabelsHarden` is a theorem about `Scoring` rather than about behaviours. A score is a
fold over the labels in an order the definition does not say; `SumIsOrderless` shows that
it does not matter, by the same induction over finite sets, which makes the weight of a
union the sum of the weights (`WeightAdds`). `WeightGrows` is then that deny labels have
positive points, `ScoreIsPoints` that the clamp keeps the order, and `HigherIsHarder` that
the bands and the recommendation do.

The assumptions on the constants are those the modules name: the lengths of time
are positive or natural numbers, addresses and payers are different keys (the
prefixes `ip:` and `payer:`), `*` is no endpoint, and a transaction of the ledger has a
list of keys and two lists of balances, which need not be of one length
(`TransfersAssumption`: a lookup table makes them differ, and then there is no funder).

**Model-checked only**: the liveness properties `ChargedBuyerIsServed` and
`EveryCallEnds`, since liveness under fairness is beyond the prover. Of the second,
`CallsGoForward` and `RetriesBounded` prove the part that needs no fairness. Every
invariant, every action property and every refinement that a passing run checks is a theorem as
well.

## 5. Findings

1. `no_jwt_secret`. `api/common.rs:44` says that failures after the settlement
   attach its proof; `handle_subscribe` (`api/subscribe.rs:110`) answers the plain
   503 when the secret is missing, after the buyer has been charged.
   `FailuresCarryProof` shows that this is the only such case.
2. `free_tier_header`. `x402/payment_handler.rs:64` announces a free tier; a data
   call reaches it only if it carries a payment header (`auth/dual.rs:159`), and
   is answered 503 otherwise.
3. `revoked_token`. `auth/dual.rs:126` wants revocation to be authoritative and
   `migrations/init.sql:150` keys it by payer and `issued_at`; the row has
   microseconds and the lookup whole seconds, so it finds nothing unless the
   token was signed in the first microsecond of a second.
4. `preferred_row`. `migrations/CUTOVER.md:38` has the row of the service and the
   endpoint preferred. `db.rs:161` answers a failed query by the legacy one, whose
   rows are of all services and endpoints and are all filed under `*`: until the
   next refresh every endpoint has the price, or the payee, of some other.
   `LookupsAreOfTheTable` shows that, but for rows of the deprecated name, only the
   legacy query does this.

Other places where code and documents differ, which no run is about:

* `public/agent-integration.md:80` and `public/openapi.json:28` promise a 503 when chain data
  are unavailable after retries. Every failed read of a wallet or a mint becomes a zero or
  a default (`signals/chain.rs:96`, `:113`, `signals/token.rs:38`), so that it is scored,
  charged and answered 200; the 503 `RPC_ERROR` is only answered for an address that is no
  public key. `AllowNeedsHistory` shows that a wallet whose history cannot be read is at
  least never allowed.
* That is all it shows. If the pages are read but the genesis and the recent transactions
  are not, a labelled funder or counterparty is missed, and a wallet that complete reads
  would have sent to review can be allowed, at medium quality.
* Whether an input parses is found out after the settlement (`api/handlers.rs:293`, `:388`,
  `:485`): the gate only looks at lengths and the alphabet. The buyer is charged, gets the
  proof, and every retry fails again; `ChargedBuyerIsServed` promises such a buyer no more
  than being told.
* `migrations/CUTOVER.md:40` has rows of the name `SOLRISK_*` still read. They are read
  without their endpoint (`parameters.rs:73`): the one of tx-risk prices wallet-risk as
  well, if that has neither a row of its own nor one of `*`.
* A token account that the simulation returns in a form that does not parse counts
  as emptied (`signals/tx.rs`); `OutflowIsObserved` names this exception.
* `public/agent-integration.md:79` and its section on tx-risk call the route reserved, answered 501
  before authentication; `pricing.rs:13` sells it and `api/handlers.rs:446` serves it,
  which is what `PaidRequest` and `TxScreening` model.
* tx-risk looks labels up and never refreshes them: an instance that serves nothing
  else keeps the compiled-in ones. `DeniedIsBlocked` is about the labels an instance
  holds, and `RefreshByOther` about those another call brings.

## 6. Not modelled

* Pricing and enrichment of an offer are reduced to a price list that is there or not.
* The database pool. Queueing for one of five clients is the pool crate's. What this
  code adds, transactions that end and clients that are discarded when a statement
  fails, is in `ScoreCache` (`GiveUp`) and `RateLimit` (`Fail`, `CommitUnheard`), where it
  decides what other calls see.
* The health route and its 30 s cache.
* Flags, reasons and other wording of a verdict, program diversity, which no score
  uses, headers and JSON layout.
* The manifest, the catalogue, static pages and operator scripts, which keep no state.

## 7. Plan

Done: the paid exchange, subscriptions, the score cache, the limits, the parameters
cache, and the screening of wallets, mints and transactions with their labels and
retries. To come:

1. The composition of `Subscription`, `RateLimit` and `ParametersCache` with the gate,
   whose `Free` the last one decides: an offer priced from one configuration
   although a refresh may fall between its lookups.
2. The health cache.
3. Theorems: the action properties of whatever is added.
