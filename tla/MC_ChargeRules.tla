---------------------------- MODULE MC_ChargeRules ----------------------------
(* An instance of ChargeCredential for TLC.                                *)
EXTENDS ChargeCredential

CONSTANTS shop, partner, payer, c1, c2, usd, eur, main, test

MCSplit(to, amount, memo) == [to |-> to, amount |-> amount, memo |-> memo]
MCRequest(amount, splits) ==
  [amount |-> amount, currency |-> usd, to |-> shop, splits |-> splits,
   chain |-> main, feePayer |-> FALSE, modes |-> <<>>]

Simple == MCRequest(1, <<>>)
\* Its transfers go to one recipient in equal amounts, and differ in their memo.
Shared == MCRequest(3, <<MCSplit(shop, 1, NoMemo), MCSplit(shop, 1, Text("m"))>>)
Halved == MCRequest(2, <<MCSplit(shop, 1, NoMemo)>>)
\* Its split carries the memo of an earlier challenge.
Named == MCRequest(2, <<MCSplit(shop, 1, Attribution([realm |-> Realm, id |-> c2]))>>)
\* Its split is for the account of the fees.
Taxed == MCRequest(3, <<MCSplit(FeeController, 2, NoMemo)>>)
Fees == MCRequest(3, <<MCSplit(partner, 2, Text("m"))>>)

MCRequests ==
  {Simple, Shared, Halved, Named, Taxed, Fees,
   MCRequest(0, <<>>), [Simple EXCEPT !.chain = NoChain],
   MCRequest(2, <<MCSplit(partner, 2, NoMemo)>>),
   [Halved EXCEPT !.feePayer = TRUE], [Simple EXCEPT !.feePayer = TRUE, !.modes = <<"push">>],
   [Simple EXCEPT !.modes = <<"pull">>], [Fees EXCEPT !.currency = eur]}

NoPolicy == [configured |-> FALSE, limits |-> "none", amount |-> 0, currency |-> usd, chains |-> {}]
UpTo2 == [NoPolicy EXCEPT !.configured = TRUE, !.limits = "some", !.amount = 2]
MCClient(kind, chain, rpc, policy) ==
  [kind |-> kind, chain |-> chain, rpcChain |-> rpc, policy |-> policy]

MCClients ==
  {MCClient("auto", NoChain, main, [UpTo2 EXCEPT !.chains = {main}]),
   MCClient("auto", main, main, [NoPolicy EXCEPT !.configured = TRUE]),
   MCClient("hash", NoChain, main, UpTo2),
   MCClient("transaction", NoChain, test, [NoPolicy EXCEPT !.configured = TRUE]),
   MCClient("auto", NoChain, main, NoPolicy)}

MCTransfers ==
  LET challenges == {[realm |-> Realm, id |-> c1], [realm |-> Realm, id |-> c2],
                     [realm |-> "elsewhere", id |-> c1]}
      memos == {NoMemo, Text("m"), Text("n")} \cup {Attribution(c) : c \in challenges}
  IN  {[to |-> shop, amount |-> 1, memo |-> m] : m \in memos} \cup
      {[to |-> partner, amount |-> 2, memo |-> m] : m \in {NoMemo, Text("m")}} \cup
      {[to |-> FeeController, amount |-> n, memo |-> NoMemo] : n \in {1, 2}}
MCSpellings == UNION {[1 .. n -> MCTransfers] : n \in 0 .. 3}
===============================================================================
