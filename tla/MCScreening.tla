---------------------------- MODULE MCScreening ----------------------------
(* A small ledger for TLC: wallets on both sides of a page of 100 signatures,   *)
(* a chain of funders with one that may be labelled, mints and transactions.    *)
EXTENDS Screening

MCAddresses == {"old", "exact", "deep", "new", "empty", "exchange", "miner", "mixer",
                "relay", "token", "system", "app", "drainer"}
MCWallets == {"old", "exact", "deep", "new", "empty"}

Label(a, w) == [address |-> a, weight |-> w]
MCStaticLabels == {Label("mixer", 90)}
\* The table is empty, names what the seeds name and more, or another wallet.
MCLabelTables ==
  {{},
   {Label("mixer", 60), Label("drainer", 80), Label("empty", -40)},
   {Label("old", 10), Label("miner", 50)}}

Times(n, age) == [i \in 1 .. n |-> age]
MCHistory ==
  [a \in MCAddresses |->
     CASE a = "old"      -> <<0, 3>> \o Times(148, 400)
       [] a = "exact"    -> <<NoTime>> \o Times(99, 60)
       [] a = "deep"     -> Times(200, 500)
       [] a = "new"      -> <<0, 0>>
       [] a = "exchange" -> Times(120, 900)
       [] a = "miner"    -> Times(130, 999)
       [] a = "mixer"    -> Times(3, 100)
       [] a = "app"      -> Times(3, 999)
       [] OTHER          -> <<>>]

\* A transaction by its payer, its sender and its receiver.
Pays(payer, from, to) ==
  [keys |-> <<payer, from, to, "system">>, programs |-> {"system"},
   pre |-> <<100, 1000, 0, 1>>, post |-> <<95, 500, 500, 1>>]
\* A transaction whose lookup table brings balances without keys.
OutOfLine(t) == [t EXCEPT !.pre = Append(@, 7), !.post = Append(@, 7)]

MCGenesis ==
  [a \in MCAddresses |->
     CASE a = "old"      -> Pays("relay", "exchange", "old")
       [] a = "exact"    -> Pays("relay", "mixer", "exact")
       [] a = "deep"     -> Pays("relay", "mixer", "deep")
       [] a = "new"      -> OutOfLine(Pays("relay", "mixer", "new"))
       [] a = "exchange" -> Pays("app", "miner", "exchange")
       [] a = "miner"    -> Pays("relay", "app", "miner")
       [] OTHER          -> Pays("relay", "app", a)]
MCRecent ==
  [a \in MCWallets |->
     IF a \in {"old", "new"} THEN <<Pays(a, "relay", "mixer"), OutOfLine(Pays(a, "app", "relay"))>>
     ELSE <<>>]
MCLamports == [a \in MCWallets |-> IF a = "empty" THEN 0 ELSE 20000000]
MCTokenAccounts == [a \in MCWallets |-> IF a = "old" THEN 3 ELSE 0]

MCMint ==
  [m \in {"sound", "held", "young"} |->
     CASE m = "sound" -> [supply |-> 1000, top10 |-> 500, revoked |-> TRUE, freezable |-> TRUE,
                          initialized |-> TRUE, idle |-> 40]
       [] m = "held"  -> [supply |-> 1000, top10 |-> 810, revoked |-> TRUE, freezable |-> FALSE,
                          initialized |-> TRUE, idle |-> 8]
       [] m = "young" -> [supply |-> 0, top10 |-> 0, revoked |-> FALSE, freezable |-> FALSE,
                          initialized |-> FALSE, idle |-> 0]]

MCTxs == {"send", "approve", "drain", "handoff", "hidden"}
Do(program, kind) == [program |-> program, kind |-> kind]
MCInstructions ==
  [t \in MCTxs |->
     CASE t = "send"    -> <<Do("system", "other"), Do("token", "other")>>
       [] t = "approve" -> <<Do("token", "approve"), Do("token", "close account"),
                              Do("app", "other")>>
       [] t = "drain"   -> <<Do("drainer", "other"), Do("app", "other")>>
       [] t = "handoff" -> <<Do("token", "set authority")>>
       [] t = "hidden"  -> <<Do(Beyond, "other")>>]
MCUsesTables == [t \in MCTxs |-> FALSE]
MCEffect ==
  [t \in MCTxs |->
     [fails |-> t = "handoff",
      sol |-> IF t = "drain" THEN -50000000 ELSE -5000,
      touched |-> CASE t = "drain" -> <<[pre |-> 70, post |-> 20], [pre |-> 5, post |-> 5]>>
                    [] t = "approve" -> <<[pre |-> 30, post |-> 0]>>
                    [] t = "send" -> <<[pre |-> 9, post |-> 4]>>
                    [] OTHER -> <<>>]]
=============================================================================
