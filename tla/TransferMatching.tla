--------------------------- MODULE TransferMatching ---------------------------
(***************************************************************************)
(* What a charge asks to be transferred, what its payer transfers, and     *)
(* when the server takes the second for the first: pkg/tempo/server        *)
(* /charge.go on calls and on the logs of a receipt, buildTransfers of     *)
(* pkg/tempo/client/method.go, and the attribution memo of pkg/tempo       *)
(* /attribution.go that ties a transfer to one challenge.                  *)
(*                                                                         *)
(* A transfer is [to, amount, memo].  Addresses, amounts and memos are in  *)
(* the canonical form that ParseChargeRequest and the decoders give them.  *)
(* Of a list that the code filters, the indices are kept and the order with*)
(* them: transfers and logs are functions on a set of naturals.            *)
(***************************************************************************)
EXTENDS Integers, Sequences, FiniteSetsExt

CONSTANTS
  FeeController,   \* the account Tempo collects fees on
  Fee              \* what a transaction pays it

-----------------------------------------------------------------------------
(* Memos.                                                                  *)

IsMemo(memo) == memo = [kind |-> memo.kind, realm |-> memo.realm, id |-> memo.id]
NoMemo == [kind |-> "none", realm |-> "", id |-> ""]
Text(m) == [kind |-> "text", realm |-> "", id |-> m]

\* EncodeAttribution: fingerprints of the realm and of the challenge's ID.
Attribution(c) == [kind |-> "attribution", realm |-> c.realm, id |-> c.id]
IsAttributionMemo(memo) == memo.kind = "attribution"

\* VerifyAttributionServer and VerifyAttributionChallenge.
BoundTo(memo, c) ==
  /\ IsAttributionMemo(memo)
  /\ memo.realm = c.realm
  /\ memo.id = c.id

-----------------------------------------------------------------------------
(* What request r asks for.                                                *)

\* Transfers, as they are decoded from calls, and splits.
AreTransfers(s) ==
  /\ s \in Seq(Range(s))
  /\ \A i \in DOMAIN s : s[i].amount \in Nat /\ IsMemo(s[i].memo)

Sums(transfers) ==
  LET sum[n \in 0 .. Len(transfers)] ==
        IF n = 0 THEN 0 ELSE sum[n - 1] + transfers[n].amount
  IN  sum
Total(transfers) == Sums(transfers)[Len(transfers)]

SplitTotal(r) == Total(r.splits)

PrimaryAmountWhole(r) == r.amount   \* mutant: the splits are paid on top
PrimaryAmount(r) == r.amount - SplitTotal(r)

\* validateCanonicalSplits: the primary recipient is left something.
ValidSplits(r) ==
  r.splits # <<>> =>
    /\ \A i \in DOMAIN r.splits : r.splits[i].amount > 0
    /\ SplitTotal(r) < r.amount

\* expectedTransfers: the primary transfer carries the attribution memo, a
\* split its own memo or, without one, any.
expectedTransfers(r) ==
  <<[to |-> r.to, amount |-> PrimaryAmount(r), memo |-> NoMemo, primary |-> TRUE]>> \o
  [i \in DOMAIN r.splits |->
     [to |-> r.splits[i].to, amount |-> r.splits[i].amount,
      memo |-> r.splits[i].memo, primary |-> FALSE]]

\* buildTransfers: what this package's client pays.
buildTransfers(r, c) ==
  <<[to |-> r.to, amount |-> PrimaryAmount(r), memo |-> Attribution(c)]>> \o r.splits

-----------------------------------------------------------------------------
(* matchTransfers.                                                         *)

\* A split without a memo of its own takes any, but no attribution memo that
\* is bound to another challenge.
AcceptsAnyMemo(want, got, c) ==   \* mutant: not even that one is refused
  /\ got.to = want.to /\ got.amount = want.amount
  /\ \/ want.memo # NoMemo /\ got.memo = want.memo
     \/ want.memo = NoMemo /\ (want.primary => BoundTo(got.memo, c))
Accepts(want, got, c) ==
  /\ got.to = want.to /\ got.amount = want.amount
  /\ \/ want.memo # NoMemo /\ got.memo = want.memo
     \/ want.memo = NoMemo /\ want.primary /\ BoundTo(got.memo, c)
     \/ /\ want.memo = NoMemo /\ ~want.primary
        /\ IsAttributionMemo(got.memo) => BoundTo(got.memo, c)

\* sortExpectedTransfers: the particular before the ones that take any memo.
\* (Within a priority its order is arbitrary, and so is this one.)
Particular(want) == want.memo # NoMemo \/ want.primary
Position(expected, k) == IF Particular(expected[k]) THEN k ELSE Len(expected) + k
sortExpectedTransfers(expected) ==
  [p \in {Position(expected, k) : k \in DOMAIN expected} |->
     expected[IF p \in DOMAIN expected THEN p ELSE p - Len(expected)]]

\* What each of the sets of indices takes in its turn: the first of its own
\* that the ones before it left, if there is one.
FirstOf(indices) == {i \in indices : \A j \in indices : i <= j}
Taken(fits) ==
  LET taken[k \in DOMAIN fits] ==
        FirstOf(fits[k] \ UNION {taken[j] : j \in {j \in DOMAIN fits : j < k}})
  IN  taken
AllTaken(fits) == \A k \in DOMAIN fits : Taken(fits)[k] # {}

Fits(actual, wants, c) ==
  [p \in DOMAIN wants |-> {i \in DOMAIN actual : Accepts(wants[p], actual[i], c)}]

matchTransfersReused(actual, expected, c) ==   \* mutant: used transfers are not marked
  /\ Cardinality(DOMAIN actual) = Len(expected)
  /\ \A k \in DOMAIN expected : Fits(actual, expected, c)[k] # {}
matchTransfers(actual, expected, c) ==
  /\ Cardinality(DOMAIN actual) = Len(expected)
  /\ AllTaken(Fits(actual, sortExpectedTransfers(expected), c))

\* transactionMatches, for calls to the request's currency.
transactionMatches(calls, r, c) == matchTransfers(calls, expectedTransfers(r), c)

-----------------------------------------------------------------------------
(* Receipts.                                                               *)

\* The logs of a transaction, in their order: its fee, its calls, of which
\* transferWithMemo leaves a log with the memo after the plain one, and what it
\* gets back of the fee.
CallLogs(Calls, WithMemo) == {2 * i : i \in Calls} \cup {2 * i + 1 : i \in WithMemo}
Logs(payer, calls) ==
  LET n == Len(calls)
      log(from, to, amount, memo) == [from |-> from, to |-> to, amount |-> amount, memo |-> memo]
      WithMemo == {i \in 1 .. n : calls[i].memo # NoMemo}
  IN  [k \in {1, 2 * n + 2} \cup CallLogs(1 .. n, WithMemo) |->
         CASE k = 1 -> log(payer, FeeController, Fee, NoMemo)
           [] k = 2 * n + 2 -> log(FeeController, payer, Fee, NoMemo)
           [] OTHER -> LET t == calls[k \div 2] IN
                       log(payer, t.to, t.amount, IF k % 2 = 0 THEN NoMemo ELSE t.memo)]

isFeeControllerTransfer(log, expected) ==
  /\ FeeController \in {log.from, log.to}
  /\ ~\E i \in DOMAIN expected : expected[i].to = log.to /\ expected[i].amount = log.amount

\* canonicalReceiptTransfers: a memo log stands for its payment, and the plain
\* log of the same payment is dropped.
Plains(logs) ==
  [k \in {k \in DOMAIN logs : logs[k].memo # NoMemo} |->
     {j \in DOMAIN logs : /\ logs[j].memo = NoMemo
                          /\ logs[j].amount = logs[k].amount /\ logs[j].to = logs[k].to}]
Canonical(logs) ==
  LET dropped == UNION Range(Taken(Plains(logs)))
  IN  Restrict(logs, DOMAIN logs \ dropped)

receiptMatches(logs, r, c, payer) ==
  LET expected == expectedTransfers(r)
      paid == Restrict(logs, {k \in DOMAIN logs :
                                /\ logs[k].from = payer
                                /\ ~isFeeControllerTransfer(logs[k], expected)})
  IN  /\ AllTaken(Plains(paid))
      /\ matchTransfers(Canonical(paid), expected, c)

-----------------------------------------------------------------------------
\* The calls that a receipt tells from fees: those not to the account of the fees,
\* and those to it that are expected.
NotFees(calls, expected) ==
  Restrict(calls, {i \in DOMAIN calls :
    calls[i].to = FeeController =>
      \E k \in DOMAIN expected : expected[k].to = calls[i].to /\ expected[k].amount = calls[i].amount})

\* The charge is paid: its transfers are the ones expected, one each.
Satisfies(actual, expected, c) ==
  /\ Cardinality(DOMAIN actual) = Len(expected)
  /\ \E f \in Injection(DOMAIN expected, DOMAIN actual) :
       \A k \in DOMAIN expected : Accepts(expected[k], actual[f[k]], c)
===============================================================================
