----------------------------- MODULE RateLimit -----------------------------
(***************************************************************************)
(* The per-minute limits of auth/dual.rs: one per client address for every  *)
(* data call, one per payer for subscribers.  They are counted in           *)
(* solrisk_rate_buckets by an upsert (db.rs), so that all instances of the  *)
(* service share them, and fail open.  The row lock that PostgreSQL holds   *)
(* from the upsert to the end of the transaction is EXTERNAL.               *)
(***************************************************************************)
EXTENDS Naturals

CONSTANTS
  Calls,         \* concurrent invocations, on any instance
  Ips, Payers,   \* 'ip:<addr>' and 'payer:<wallet>'
  IpLimit,       \* RATE_LIMIT_GLOBAL_PER_MIN
  PayerLimit,    \* RATE_LIMIT_PER_PAYER_PER_MIN
  Minute,        \* length of a window, in ticks
  MaxTime,       \* bound on the clock
  MaxCount       \* bound on the checks that are begun in one window of one key

ASSUME KeysAssumption == Ips \cap Payers = {}
ASSUME LimitsAssumption == IpLimit \in Nat /\ PayerLimit \in Nat
ASSUME ClockAssumption == Minute \in Nat \ {0} /\ MaxTime \in Nat /\ MaxCount \in Nat

VARIABLES
  now,        \* the clock of the database
  count,      \* solrisk_rate_buckets: the committed count of each key and window
  check,      \* check_and_increment_rate of each call
  attempts,   \* history: checks begun in each window
  admitted    \* history: checks in each window that ended in Ok(true)

vars == <<now, count, check, attempts, admitted>>

Keys     == Ips \cup Payers
Limit(k) == IF k \in Ips THEN IpLimit ELSE PayerLimit
Times    == 0 .. MaxTime

\* date_trunc('minute', NOW()), which is the time of the BEGIN.
Window(t) == t \div Minute
Windows   == {Window(t) : t \in Times}
Counters  == [Keys -> [Windows -> Nat]]

\* A check is at "asked" until its BEGIN, at "begun" until its upsert has run, and
\* at "counted" until its COMMIT; the rest are its outcomes.
Stages   == {"asked", "begun", "counted", "within", "exceeded", "failed"}
NoCheck  == [at |-> "idle"]
Checks   == [at : Stages, key : Keys, payer : Payers \cup {"none"}, window : Windows, n : Nat]

TypeOK ==
  /\ now \in Times
  /\ count \in Counters /\ attempts \in Counters /\ admitted \in Counters
  /\ check \in [Calls -> Checks \cup {NoCheck}]

Init ==
  /\ now = 0
  /\ count = [k \in Keys |-> [w \in Windows |-> 0]]
  /\ attempts = count /\ admitted = count
  /\ check = [c \in Calls |-> NoCheck]

Tick ==
  /\ now < MaxTime
  /\ now' = now + 1
  /\ UNCHANGED <<count, check, attempts, admitted>>

-----------------------------------------------------------------------------
Goto(c, stage) == check' = [check EXCEPT ![c].at = stage]
Raised(counter, k, w) == [counter EXCEPT ![k][w] = @ + 1]

\* A data call from some address, with a subscriber's token or without.
Arrive(c) ==
  /\ check[c] = NoCheck
  /\ \E ip \in Ips, payer \in Payers \cup {"none"} :
       check' = [check EXCEPT ![c] = [at |-> "asked", key |-> ip, payer |-> payer,
                                      window |-> Window(0), n |-> 0]]
  /\ UNCHANGED <<now, count, attempts, admitted>>

\* open_transaction: NOW() stays what it is here.
Begin(c) ==
  /\ check[c].at = "asked"
  /\ attempts[check[c].key][Window(now)] < MaxCount
  /\ check' = [check EXCEPT ![c].at = "begun", ![c].window = Window(now)]
  /\ attempts' = Raised(attempts, check[c].key, Window(now))
  /\ UNCHANGED <<now, count, admitted>>

SameRow(c, d) == check[c].key = check[d].key /\ check[c].window = check[d].window
Locked(c) == \E d \in Calls \ {c} : check[d].at = "counted" /\ SameRow(c, d)
NextCount(c) == count[check[c].key][check[c].window] + 1

\* Mutant: a SELECT of the count and an UPDATE with its successor.
CountUnlocked(c) ==
  /\ check[c].at = "begun"
  /\ check' = [check EXCEPT ![c].at = "counted", ![c].n = NextCount(c)]
  /\ UNCHANGED <<now, count, attempts, admitted>>

\* INSERT ... ON CONFLICT DO UPDATE ... RETURNING count waits for the row.
Upsert(c) ==
  /\ check[c].at = "begun"
  /\ ~Locked(c)
  /\ check' = [check EXCEPT ![c].at = "counted", ![c].n = NextCount(c)]
  /\ UNCHANGED <<now, count, attempts, admitted>>

\* Mutant: the call that reaches the limit would be refused.
BelowLimit(c) == check[c].n < Limit(check[c].key)
WithinLimit(c) == check[c].n <= Limit(check[c].key)

Stored(c) == [count EXCEPT ![check[c].key][check[c].window] = check[c].n]

\* A call that is refused has been counted too.
Commit(c) ==
  /\ check[c].at = "counted"
  /\ count' = Stored(c)
  /\ IF WithinLimit(c)
     THEN /\ Goto(c, "within")
          /\ admitted' = Raised(admitted, check[c].key, check[c].window)
     ELSE Goto(c, "exceeded") /\ UNCHANGED admitted
  /\ UNCHANGED <<now, attempts>>

\* The COMMIT is carried out and the client does not hear of it in time.
CommitUnheard(c) ==
  /\ check[c].at = "counted"
  /\ count' = Stored(c)
  /\ Goto(c, "failed")
  /\ UNCHANGED <<now, attempts, admitted>>

\* No connection, or a step that fails or times out; the server rolls back.
Fail(c) ==
  /\ check[c].at \in {"asked", "begun", "counted"}
  /\ Goto(c, "failed")
  /\ UNCHANGED <<now, count, attempts, admitted>>

\* Mutant: a call without a token would be counted for a payer as well.
CheckAnyPayer(c) ==
  /\ check[c].at \in {"within", "failed"}
  /\ check[c].key \in Ips
  /\ check' = [check EXCEPT ![c].at = "asked", ![c].key = check[c].payer,
                           ![c].window = Window(0), ![c].n = 0]
  /\ UNCHANGED <<now, count, attempts, admitted>>

\* Within the limit, or for want of an answer, the call goes on; a subscriber's call
\* to the limit of its payer, once its token is found in order.
CheckPayer(c) ==
  /\ check[c].at \in {"within", "failed"}
  /\ check[c].key \in Ips /\ check[c].payer \in Payers
  /\ check' = [check EXCEPT ![c].at = "asked", ![c].key = check[c].payer,
                           ![c].window = Window(0), ![c].n = 0]
  /\ UNCHANGED <<now, count, attempts, admitted>>

\* The limits have been passed, or the call is refused by one (429), by its token
\* (401), or is cut off, which rolls back what it had begun.
Leave(c) ==
  /\ check[c] # NoCheck
  /\ check' = [check EXCEPT ![c] = NoCheck]
  /\ UNCHANGED <<now, count, attempts, admitted>>

-----------------------------------------------------------------------------
Next ==
  \/ Tick
  \/ \E c \in Calls : \/ Arrive(c) \/ Begin(c) \/ Upsert(c)
                      \/ Commit(c) \/ CommitUnheard(c) \/ Fail(c)
                      \/ CheckPayer(c) \/ Leave(c)

Spec == Init /\ [][Next]_vars

-----------------------------------------------------------------------------
\* Of the calls whose check the database answered, no more than the limit pass in
\* one window, on all instances together and however their transactions overlap.
AdmittedWithinLimit ==
  \A k \in Keys, w \in Windows : admitted[k][w] <= Limit(k)

\* A call is refused only if more checks than the limit were begun in its window:
\* no check is counted twice and none against another key or window.
RefusedOnlyOverLimit ==
  \A c \in Calls : check[c].at = "exceeded" =>
    attempts[check[c].key][check[c].window] > Limit(check[c].key)

\* A transaction under way is a request of the window of its BEGIN; it is counted
\* and decided by its COMMIT.
RequestOf(x) ==
  IF x.at \in {"begun", "counted"} THEN [at |-> "made", key |-> x.key, window |-> x.window]
  ELSE [at |-> IF x.at = "asked" THEN "idle" ELSE x.at]

Counter == INSTANCE WindowCounter
             WITH Limits  <- [k \in Keys |-> Limit(k)],
                  window  <- Window(now),
                  request <- [c \in Calls |-> RequestOf(check[c])]

\* However the transactions of several instances overlap (db.rs:596-616), a check is
\* counted and answered as if it were alone: once, in the window it began in, and by
\* the checks counted there before it; what fails was counted once or not at all.
CountsAtOnce == Counter!Spec
=============================================================================
