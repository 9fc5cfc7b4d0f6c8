------------------------ MODULE ChargeCredentialProofs ------------------------
(***************************************************************************)
(* What ChargeCredential does, for any requests, clients and transactions  *)
(* of strangers, and for any length of a second, of the client's window    *)
(* and of the server's.                                                    *)
(***************************************************************************)
EXTENDS ChargeCredential, TransferMatchingProofs

LEMMA MinOfTwo ==
  ASSUME NEW a \in Int, NEW b \in Int
  PROVE  /\ Min({a, b}) \in {a, b}
         /\ Min({a, b}) <= a /\ Min({a, b}) <= b
  <1>1. \E x \in {a, b} : \A y \in {a, b} : x <= y
    OBVIOUS
  <1>2. /\ Min({a, b}) \in {a, b}
        /\ \A y \in {a, b} : Min({a, b}) <= y
    BY <1>1 DEF Min
  <1> QED
    BY <1>2

-----------------------------------------------------------------------------
(* Whole seconds.                                                          *)

LEMMA Numbers ==
  /\ Sec \in Nat /\ MinValidity \in Nat /\ Window \in Nat /\ MaxWindow \in Nat
  /\ PastExpiry \in Nat /\ MaxClock \in Nat
  /\ 0 < Sec /\ Sec <= MaxClock /\ MinValidity < Window /\ Window <= MaxWindow
  /\ MinValidity < PastExpiry
  BY WindowsAssumption

LEMMA Distribute ==
  ASSUME NEW a \in Int, NEW b \in Int
  PROVE  /\ a * Sec \in Int /\ b * Sec \in Int
         /\ (a + b) * Sec = a * Sec + b * Sec
  BY Numbers

LEMMA ProductOrder ==
  ASSUME NEW a \in Int, NEW b \in Int, a * Sec < b * Sec
  PROVE  a < b
  BY WindowsAssumption

LEMMA FloorBounds ==
  ASSUME NEW t \in Nat
  PROVE  /\ Floor(t) \in Nat
         /\ Floor(t) * Sec <= t /\ t < (Floor(t) + 1) * Sec
         /\ t % Sec = 0 <=> Floor(t) * Sec = t
  BY WindowsAssumption DEF Floor

LEMMA FloorOrder ==
  ASSUME NEW a \in Nat, NEW b \in Nat, a <= b
  PROVE  Floor(a) <= Floor(b)
  <1>1. Floor(a) * Sec < (Floor(b) + 1) * Sec
    <2>1. /\ Floor(a) \in Nat /\ Floor(a) * Sec <= a
          /\ Floor(b) \in Nat /\ b < (Floor(b) + 1) * Sec
      BY FloorBounds
    <2>2. Floor(a) * Sec \in Int /\ (Floor(b) + 1) * Sec \in Int
      BY <2>1, Numbers
    <2> QED
      BY <2>1, <2>2
  <1> QED
    BY <1>1, FloorBounds, ProductOrder

\* Whole seconds are added after rounding as well as before.
LEMMA FloorShift ==
  ASSUME NEW t \in Nat, NEW n \in Nat
  PROVE  t + n * Sec \in Nat /\ Floor(t + n * Sec) = Floor(t) + n
  <1> DEFINE f == Floor(t)
             g == Floor(t + n * Sec)
  <1>1. t + n * Sec \in Nat
    BY WindowsAssumption
  <1>2. /\ f \in Nat /\ f * Sec <= t /\ t < (f + 1) * Sec
        /\ g \in Nat /\ g * Sec <= t + n * Sec /\ t + n * Sec < (g + 1) * Sec
    BY <1>1, FloorBounds
  <1> HIDE DEF f, g
  <1>3. g * Sec < (f + n + 1) * Sec /\ (f + n) * Sec < (g + 1) * Sec
    BY <1>2, WindowsAssumption
  <1>4. g < f + n + 1 /\ f + n < g + 1
    BY <1>2, <1>3, ProductOrder
  <1> QED
    BY <1>1, <1>2, <1>4 DEF f, g

\* The server's minimum, rounded up to a whole second.
LEMMA DeadlineBounds ==
  ASSUME now \in Nat
  PROVE  /\ Deadline \in Nat
         /\ Deadline <= Floor(now) + MinValidity + 1
         /\ \A v \in Int : Remains(v * Sec, MinValidity) => Deadline <= v
  <1> DEFINE f == Floor(now)
  <1>1. /\ f \in Nat /\ f * Sec <= now
        /\ now % Sec = 0 <=> f * Sec = now
    BY FloorBounds
  <1>2. Deadline = IF now % Sec = 0 THEN f + MinValidity ELSE f + MinValidity + 1
    BY FloorShift, WindowsAssumption DEF Deadline
  <1> HIDE DEF f
  <1>4. /\ f * Sec \in Int /\ (f + MinValidity) * Sec = f * Sec + MinValidity * Sec
        /\ MinValidity * Sec \in Int
    BY <1>1, Distribute, Numbers
  <1>3. ASSUME NEW v \in Int, Remains(v * Sec, MinValidity)
        PROVE  Deadline <= v
    <2>1. /\ v * Sec \in Int /\ (v + 1) * Sec = v * Sec + Sec
          /\ now + MinValidity * Sec <= v * Sec
      BY <1>3, <1>4, Distribute, Numbers DEF Remains
    <2>2. CASE now % Sec = 0
      <3>1. (f + MinValidity) * Sec < (v + 1) * Sec
        BY <1>1, <1>4, <2>1, <2>2, Numbers
      <3>2. f + MinValidity < v + 1
        BY <1>1, <3>1, ProductOrder, Numbers
      <3> QED
        BY <1>1, <1>2, <2>2, <3>2, Numbers
    <2>3. CASE now % Sec # 0
      <3>1. (f + MinValidity) * Sec < v * Sec
        BY <1>1, <1>4, <2>1, <2>3, Numbers
      <3>2. f + MinValidity < v
        BY <1>1, <3>1, ProductOrder, Numbers
      <3> QED
        BY <1>1, <1>2, <2>3, <3>2, Numbers
    <2> QED
      BY <2>2, <2>3
  <1> QED
    BY <1>1, <1>2, <1>3, Numbers DEF f

-----------------------------------------------------------------------------
(* The invariant.                                                          *)

TypeInv ==
  /\ now \in 0 .. MaxClock /\ fixedAt \in 0 .. now /\ signedAt \in 0 .. now
  /\ expires \in Lifetimes /\ request \in Requests /\ client \in Clients \cup {Stranger}
  /\ cred.kind \in Kinds \cup {"none"} /\ cred.validBefore \in Int /\ onchain \in BOOLEAN
  /\ verdict \in Refusals \cup {"none", "unissued", "declined", "paid", "unknown"}

\* What the place of a charge says about its credential.
PlaceInv ==
  /\ (pc = "done") = (verdict # "none")
  /\ pc \in {"issuing", "offered", "preparing"} => cred = NoCred
  /\ pc \in {"prepared", "signed", "sent", "validated", "cosigned"} => cred.kind # "none"
  /\ pc \in {"preparing", "prepared", "signed"} => Own
  /\ pc \in {"validated", "cosigned"} =>
       /\ cred.kind = "transaction" /\ transactionMatches(cred.calls, request, challenge)
       /\ server # "relay"
  /\ pc = "signed" \/ (pc # "done" /\ onchain) => cred.kind = "hash"

\* The client pays nothing unless the two chains agree.
Payable == ChainAgreed /\ ValidSplits(request)

\* It pays only what the policy it must have allows.
Authorized == client.policy.configured /\ AllowedByPolicy

\* What this package's client builds.
OwnInv ==
  /\ pc = "preparing" =>
       /\ Payable /\ Authorized /\ request.amount # 0
       /\ Allows(resolveCredentialType) /\ resolveCredentialType # "proof"
  /\ Own /\ cred.kind # "none" =>
       /\ Payable /\ Allows(cred.kind) /\ (cred.kind = "proof") = (request.amount = 0)
       /\ cred.of = ID /\ cred.chain = client.rpcChain
       /\ cred.kind # "proof" => Authorized /\ cred.calls = buildTransfers(request, challenge)
  /\ Own /\ cred.kind \in {"none", "proof"} => cred.calls = <<>>

\* The deadlines it gives a sponsored transaction.
TimeInv ==
  Own /\ cred.kind # "none" /\ Sponsored(cred.kind) =>
    /\ cred.validBefore = Min({Floor(fixedAt + Window * Sec), Cap})
    /\ pc \in {"sent", "validated", "cosigned"} =>
         cred.validBefore * Sec - signedAt >= MinValidity * Sec

StrangerInv == ~Own /\ cred.kind # "none" => cred.calls \in Spellings

IInv == TypeInv /\ PlaceInv /\ OwnInv /\ TimeInv /\ StrangerInv

LEMMA FixedKept == ASSUME [Next]_vars PROVE UNCHANGED fixed
  BY DEF Next, Issuing, Paying, Verifying, Settling, Issue, NotIssued, Decline, SignProof,
     Authorize, Prepare, Sign, TooLate, Push, Pay, Expire, Refuse, NodeFails, Accept, Validate,
     CoSign, NotCoSigned, NotSubmitted, NotClaimed, Submit, Relay, Tick, End, Go, fixed, vars

\* A credential is of one of the three kinds.
LEMMA KindsResolve == ASSUME TypeInv, Own PROVE resolveCredentialType \in Kinds
  BY ClientsAssumption DEF TypeInv, Own, IsClient, resolveCredentialType, Kinds

LEMMA ValidBeforeBounds ==
  ASSUME NEW t \in Nat, expires \in Nat
  PROVE  LET v == Min({Floor(t + Window * Sec), Cap}) IN
         /\ v \in Int /\ v <= Floor(t) + Window /\ v <= Floor(expires) + 1 + MinValidity
         /\ v \in {Floor(t) + Window, Floor(expires) + 1 + MinValidity}
  <1>1. Floor(t + Window * Sec) = Floor(t) + Window /\ Floor(t) \in Nat /\ Floor(expires) \in Nat
    BY FloorShift, FloorBounds, Numbers
  <1> DEFINE a == Floor(t + Window * Sec)
  <1>2. Cap = Floor(expires) + 1 + MinValidity /\ Cap \in Int /\ a \in Int
    BY <1>1, Numbers DEF Cap
  <1> HIDE DEF a
  <1>3. Min({a, Cap}) \in {a, Cap} /\ Min({a, Cap}) <= a /\ Min({a, Cap}) <= Cap
    BY <1>2, MinOfTwo
  <1> QED
    BY <1>1, <1>2, <1>3 DEF a

-----------------------------------------------------------------------------
(* What the server makes of it.                                            *)

\* For any request and any transfers, the greedy matching is exact, and the
\* verdict on a receipt is the one on its transaction, but for fees.
LEMMA MatchingOf ==
  ASSUME NEW r \in Requests, NEW c, NEW calls, AreTransfers(calls)
  PROVE  LET validated == transactionMatches(calls, r, c)
             received == receiptMatches(Logs(Payer, calls), r, c, Payer)
             expected == expectedTransfers(r)
         IN  /\ validated <=> Satisfies(calls, expected, c)
             /\ received <=> Satisfies(NotFees(calls, expected), expected, c)
             /\ validated => received
  <1> DEFINE expected == expectedTransfers(r)
  <1>1. AreTransfers(r.splits)
    BY RequestsAssumption DEF IsRequest
  <1>2. AreExpected(expected)
    BY <1>1, ExpectedAre
  <1>3. AreIndexed(calls)
    BY DEF AreTransfers, AreIndexed
  <1>4. transactionMatches(calls, r, c) <=> Satisfies(calls, expected, c)
    BY <1>2, <1>3, MatchTransfersIsExact DEF transactionMatches
  <1>5. receiptMatches(Logs(Payer, calls), r, c, Payer) <=>
          Satisfies(NotFees(calls, expected), expected, c)
    BY <1>2, FeesAssumption, ReceiptIsExact
  <1> HIDE DEF expected
  <1>6. Satisfies(calls, expected, c) => NotFees(calls, expected) = calls
    BY <1>2, MatchedAreNoFees
  <1> QED
    BY <1>4, <1>5, <1>6 DEF expected

\* The transfers of a transaction: this package's client's, or a stranger's.
LEMMA CallsAre ==
  ASSUME IInv, cred.kind # "none", Own => cred.kind # "proof"
  PROVE  /\ AreTransfers(cred.calls) /\ request \in Requests
         /\ Own => /\ transactionMatches(cred.calls, request, challenge)
                   /\ Total(cred.calls) = request.amount
                   /\ \A i \in DOMAIN cred.calls : cred.calls[i].amount > 0
  <1>1. request \in Requests /\ request.amount \in Nat /\ AreTransfers(request.splits)
    BY RequestsAssumption DEF IInv, TypeInv, IsRequest
  <1>2. CASE ~Own
    BY <1>1, <1>2, SpellingsAssumption DEF IInv, StrangerInv
  <1>3. CASE Own
    <2>1. /\ ValidSplits(request) /\ request.amount # 0
          /\ cred.calls = buildTransfers(request, challenge)
      BY <1>3 DEF IInv, OwnInv, Payable
    <2>2. /\ AreTransfers(cred.calls) /\ Total(cred.calls) = request.amount
          /\ \A i \in DOMAIN cred.calls : cred.calls[i].amount > 0
      BY <1>1, <2>1, BuiltAddsUp
    <2>3. Satisfies(cred.calls, expectedTransfers(request), challenge)
      BY <1>1, <2>1, BuiltIsExpected
    <2> QED
      BY <1>1, <2>2, <2>3, MatchingOf
  <1> QED
    BY <1>2, <1>3

LEMMA ComposedAre ==
  ASSUME IInv, Composed PROVE AreTransfers(cred.calls) /\ request \in Requests
  <1>1. cred.kind # "none" /\ (Own => cred.kind # "proof")
    BY DEF IInv, PlaceInv, OwnInv, Composed
  <1> QED
    BY <1>1, CallsAre

\* A sponsored transaction of this package's client is never valid for too
\* long, and its deadline is refused only when the credential took its time.
LEMMA DeadlineOfOwn ==
  ASSUME IInv, Own, cred.kind # "none", Sponsored(cred.kind),
         pc \in {"sent", "validated", "cosigned"}, ~ChallengeExpired
  PROVE  /\ Latest \in Int /\ cred.validBefore \in Int /\ cred.validBefore <= Latest
         /\ cred.validBefore < Deadline =>
              now > signedAt /\ now > fixedAt + (Window - MinValidity - 1) * Sec
  <1> DEFINE v == cred.validBefore
             n == Window - MinValidity - 1
  <1>1. /\ now \in Nat /\ fixedAt \in Nat /\ signedAt \in Nat /\ expires \in Nat
        /\ fixedAt <= now /\ signedAt <= now /\ now < expires /\ n \in Nat
    BY Numbers, WindowsAssumption DEF IInv, TypeInv, ChallengeExpired
  <1>2. /\ v \in Int /\ v <= Floor(fixedAt) + Window /\ v <= Floor(expires) + 1 + MinValidity
        /\ v \in {Floor(fixedAt) + Window, Floor(expires) + 1 + MinValidity}
    BY <1>1, ValidBeforeBounds DEF IInv, TimeInv
  <1>3. /\ Floor(fixedAt) \in Nat /\ Floor(now) \in Nat /\ Floor(expires) \in Nat
        /\ Floor(fixedAt) <= Floor(now) /\ Floor(now) <= Floor(expires)
    BY <1>1, FloorBounds, FloorOrder
  <1>4. Latest \in Int /\ v <= Latest
    <2>1. /\ Floor(now + MaxWindow * Sec) = Floor(now) + MaxWindow
          /\ Floor(expires + PastExpiry * Sec) = Floor(expires) + PastExpiry
      BY <1>1, FloorShift, Numbers
    <2> DEFINE a == Floor(now + MaxWindow * Sec)
               b == Floor(expires + PastExpiry * Sec)
    <2>3. a \in Int /\ b \in Int
      BY <2>1, <1>3, Numbers
    <2>4. Latest = Min({a, b})
      BY DEF Latest
    <2> HIDE DEF a, b
    <2>5. Min({a, b}) \in {a, b}
      BY <2>3, MinOfTwo
    <2>2. Latest \in {Floor(now) + MaxWindow, Floor(expires) + PastExpiry}
      BY <2>1, <2>4, <2>5 DEF a, b
    <2> QED
      BY <2>2, <1>2, <1>3, Numbers
  <1>8. cred.validBefore \in Int
    BY <1>2
  <1>5. ASSUME v < Deadline PROVE now > signedAt
    <2>1. ~Remains(v * Sec, MinValidity)
      BY <1>1, <1>2, <1>5, DeadlineBounds
    <2>2. v * Sec - signedAt >= MinValidity * Sec
      BY DEF IInv, TimeInv
    <2>3. v * Sec \in Int /\ MinValidity * Sec \in Int
      BY <1>2, Numbers
    <2> QED
      BY <2>1, <2>2, <2>3, <1>1 DEF Remains
  <1>6. ASSUME v < Deadline, now <= fixedAt + n * Sec PROVE FALSE
    <2>1. Floor(now) <= Floor(fixedAt) + n
      BY <1>1, <1>6, FloorShift, FloorOrder
    <2>2. v < Floor(now) + MinValidity + 1
      BY <1>1, <1>2, <1>3, <1>6, DeadlineBounds, Numbers
    <2> QED
      BY <2>1, <2>2, <1>2, <1>3, Numbers
  <1>7. n * Sec \in Int
    BY <1>1, Numbers
  <1> QED
    BY <1>1, <1>4, <1>5, <1>6, <1>7, <1>8

\* The verdicts on a credential of this package's client.
LEMMA RefusalOfOwn ==
  ASSUME IInv, Own, pc = "sent", ~ChallengeExpired
  PROVE  \/ Refusal = "none"
         \/ Refusal = "node" /\ ~onchain
         \/ Refusal = "chain" /\ request.chain = NoChain
         \/ /\ Refusal = "deadline" /\ cred.kind = "transaction" /\ now > signedAt
            /\ now > fixedAt + (Window - MinValidity - 1) * Sec
  <1>1. /\ cred.kind \in Kinds /\ Payable /\ Allows(cred.kind) /\ cred.of = ID
        /\ cred.chain = client.rpcChain /\ (cred.kind = "proof") = (request.amount = 0)
        /\ cred.kind # "proof" => cred.calls = buildTransfers(request, challenge)
        /\ request \in Requests
    BY DEF IInv, TypeInv, PlaceInv, OwnInv
  <1>2. request.chain # NoChain => cred.chain = request.chain /\ Chain = request.chain
    BY <1>1 DEF Payable, ChainAgreed, Authorized, AllowedByPolicy, Chain
  <1>3. cred.kind # "proof" =>
          /\ transactionMatches(cred.calls, request, challenge)
          /\ receiptMatches(Logs(Payer, cred.calls), request, challenge, Payer)
    BY <1>1, CallsAre, MatchingOf DEF Kinds
  <1>4. \/ Sponsorship = "none"
        \/ /\ Sponsorship = "deadline" /\ now > signedAt
           /\ now > fixedAt + (Window - MinValidity - 1) * Sec
    <2>1. CASE ~Sponsored(cred.kind)
      BY <2>1 DEF Sponsorship
    <2>2. CASE Sponsored(cred.kind)
      <3>1. /\ Latest \in Int /\ cred.validBefore \in Int /\ cred.validBefore <= Latest
            /\ cred.validBefore < Deadline =>
                 now > signedAt /\ now > fixedAt + (Window - MinValidity - 1) * Sec
        BY <1>1, <2>2, DeadlineOfOwn DEF Kinds
      <3>2. ~(cred.validBefore > Latest)
        BY <3>1
      <3> QED
        BY <3>1, <3>2 DEF Sponsorship, SponsorRefusal
    <2> QED
      BY <2>1, <2>2
  <1>5. CASE cred.kind = "transaction"
    BY <1>1, <1>2, <1>3, <1>4, <1>5 DEF Refusal, TransactionRefusal, ElsewhereSourced
  <1>6. CASE cred.kind = "hash"
    BY <1>1, <1>2, <1>3, <1>6 DEF Refusal, HashRefusal, ElsewhereSourced
  <1>7. CASE cred.kind = "proof"
    BY <1>1, <1>2, <1>7 DEF Refusal, ProofRefusal, ElsewhereSourced
  <1> QED
    BY <1>1, <1>5, <1>6, <1>7 DEF Kinds

\* A verdict is one of those TypeOK lists.
LEMMA RefusalIsVerdict ==
  ASSUME IInv, pc = "sent" PROVE Refusal \in Refusals \cup {"none"}
  BY DEF IInv, TypeInv, PlaceInv, Kinds, Refusals, Refusal, TransactionRefusal, HashRefusal, ProofRefusal,
     Sponsorship, SponsorRefusal

-----------------------------------------------------------------------------
LEMMA InitIInv == Init => IInv
  <1> SUFFICES ASSUME Init PROVE IInv
    OBVIOUS
  <1> USE DEF Init
  <1>1. TypeInv
    <2>1. now \in 0 .. MaxClock /\ fixedAt \in 0 .. now /\ signedAt \in 0 .. now
      BY Numbers
    <2>2. cred.kind = "none" /\ cred.validBefore = 0
      BY DEF NoCred
    <2>3. onchain \in BOOLEAN /\ verdict = "none"
      OBVIOUS
    <2>4. expires \in Lifetimes /\ request \in Requests /\ client \in Clients \cup {Stranger}
      OBVIOUS
    <2> QED
      BY ONLY <2>1, <2>2, <2>3, <2>4 DEF TypeInv
  <1>2. PlaceInv /\ OwnInv /\ TimeInv /\ StrangerInv
    BY DEF PlaceInv, OwnInv, TimeInv, StrangerInv, NoCred
  <1> QED
    BY <1>1, <1>2 DEF IInv

\* Issuing, and what the client decides before it builds anything.
LEMMA IssuingKeeps == ASSUME IInv, Issue \/ NotIssued \/ Decline PROVE IInv'
  <1> USE DEF Issue, NotIssued, Decline, End, Go, IInv, fixed
  <1>1. TypeInv'
    BY DEF TypeInv, Refusals
  <1>2. PlaceInv'
    BY DEF PlaceInv, NoCred
  <1>3. OwnInv' /\ TimeInv' /\ StrangerInv'
    BY DEF PlaceInv, OwnInv, TimeInv, StrangerInv, NoCred
  <1> QED
    BY <1>1, <1>2, <1>3

LEMMA AuthorizeKeeps == ASSUME IInv, Authorize PROVE IInv'
  <1> USE DEF Authorize, Go, IInv, fixed
  <1>1. TypeInv'
    BY DEF TypeInv
  <1>2. PlaceInv'
    BY DEF PlaceInv, NoCred, Own
  <1>3. Payable /\ Authorized /\ Allows(resolveCredentialType) /\ resolveCredentialType # "proof"
    BY DEF MayPay, Payable, Authorized
  <1>4. /\ Payable' /\ Authorized' /\ Allows(resolveCredentialType)' /\ (resolveCredentialType # "proof")'
        /\ request' = request
    BY <1>3 DEF Payable, ChainAgreed, Authorized, AllowedByPolicy, Allows, resolveCredentialType
  <1>5. OwnInv' /\ TimeInv' /\ StrangerInv'
    BY <1>4 DEF PlaceInv, OwnInv, TimeInv, StrangerInv, NoCred
  <1> QED
    BY <1>1, <1>2, <1>5

\* Proofs are always allowed.
LEMMA SignProofKeeps == ASSUME IInv, SignProof PROVE IInv'
  <1> USE DEF SignProof, Go, IInv, fixed
  <1>1. TypeInv'
    BY DEF TypeInv, NoCred, Kinds
  <1>2. PlaceInv'
    BY DEF PlaceInv, NoCred
  <1>3. Payable
    BY DEF MayPay, Payable
  <1>4. Payable' /\ Allows("proof")' /\ request' = request
    BY <1>3 DEF Payable, ChainAgreed, Authorized, AllowedByPolicy, Allows
  <1>5. OwnInv' /\ TimeInv' /\ StrangerInv'
    BY <1>4 DEF OwnInv, TimeInv, StrangerInv, NoCred, Sponsored, Own, Allows
  <1> QED
    BY <1>1, <1>2, <1>5

LEMMA PrepareKeeps == ASSUME IInv, Prepare PROVE IInv'
  <1> DEFINE kind == resolveCredentialType
  <1>1. Own /\ kind \in Kinds /\ kind # "proof" /\ kind # "none"
    BY KindsResolve DEF Prepare, IInv, TypeInv, PlaceInv, OwnInv, Kinds
  <1>2. /\ cred'.kind = kind /\ cred'.calls = buildTransfers(request, challenge)
        /\ cred'.chain = client.rpcChain /\ cred'.of = ID
        /\ cred'.validBefore = IF Sponsored(kind) THEN ValidBefore ELSE 0
    BY DEF Prepare, NoCred
  <1>3. UNCHANGED <<fixed, now, signedAt, onchain, verdict>> /\ pc' = "prepared"
    BY DEF Prepare
  <1>4. fixedAt' = IF Sponsored(kind) THEN now ELSE 0
    BY DEF Prepare
  <1>5. ValidBefore \in Int
    BY ValidBeforeBounds, WindowsAssumption DEF ValidBefore, IInv, TypeInv
  <1>6. TypeInv'
    BY <1>1, <1>2, <1>3, <1>4, <1>5 DEF IInv, TypeInv, fixed
  <1>7. PlaceInv'
    BY <1>1, <1>2, <1>3 DEF Prepare, IInv, PlaceInv, NoCred, Own, fixed
  <1>8. OwnInv'
    BY <1>1, <1>2, <1>3 DEF Prepare, IInv, OwnInv, Own, fixed, Payable, ChainAgreed, Authorized, AllowedByPolicy, Allows
  <1>9. TimeInv' /\ StrangerInv'
    BY <1>1, <1>2, <1>3, <1>4 DEF TimeInv, StrangerInv, Own, fixed, Sponsored, ValidBefore, Cap
  <1> QED
    BY <1>6, <1>7, <1>8, <1>9 DEF IInv

\* The client signs once the deadlines still leave enough.
LEMMA SignKeeps == ASSUME IInv, Sign PROVE IInv'
  <1>1. /\ UNCHANGED <<fixed, now, cred, fixedAt, onchain, verdict>>
        /\ pc = "prepared" /\ pc' = IF cred.kind = "hash" THEN "signed" ELSE "sent"
        /\ signedAt' = IF Sponsored(cred.kind) THEN now ELSE 0
    BY DEF Sign
  <1>2. TypeInv'
    BY <1>1 DEF IInv, TypeInv, fixed
  <1>3. PlaceInv'
    BY <1>1 DEF IInv, PlaceInv, Own, fixed
  <1>4. OwnInv' /\ StrangerInv'
    BY <1>1 DEF IInv, OwnInv, StrangerInv, Own, fixed, Payable, ChainAgreed, Authorized, AllowedByPolicy, Allows
  <1>5. TimeInv'
    BY <1>1 DEF Sign, Signable, Remains, IInv, TimeInv, Own, Sponsored, Cap, fixed
  <1> QED
    BY <1>2, <1>3, <1>4, <1>5 DEF IInv

\* The transaction a client pushes belongs to a hash credential.
LEMMA PushKeeps == ASSUME IInv, Push PROVE IInv'
  <1>1. /\ UNCHANGED <<fixed, now, cred, fixedAt, signedAt, verdict>>
        /\ pc = "signed" /\ pc' = "sent" /\ onchain' \in BOOLEAN
    BY DEF Push, Go
  <1>2. cred.kind = "hash" /\ Own
    BY <1>1 DEF IInv, PlaceInv
  <1>3. TypeInv'
    BY <1>1 DEF Push, IInv, TypeInv, fixed
  <1>4. PlaceInv'
    BY <1>1, <1>2 DEF IInv, PlaceInv, Own, fixed
  <1>5. OwnInv' /\ StrangerInv'
    BY <1>1 DEF IInv, OwnInv, StrangerInv, Own, fixed, Payable, ChainAgreed, Authorized, AllowedByPolicy, Allows
  <1>6. TimeInv'
    BY <1>1, <1>2 DEF TimeInv, Sponsored
  <1> QED
    BY <1>3, <1>4, <1>5, <1>6 DEF IInv

LEMMA PayKeeps == ASSUME IInv, Pay PROVE IInv'
  <1>1. PICK kind \in Kinds, calls \in Spellings, w \in Windows, i \in Ids,
             chain \in {request.chain, ServerChain} :
          /\ cred' = [kind |-> kind, calls |-> calls, chain |-> chain, of |-> i,
                      validBefore |-> IF Sponsored(kind) THEN Floor(now) + w ELSE 0]
          /\ onchain' \in {FALSE, kind = "hash"}
    BY DEF Pay
  <1>2. UNCHANGED <<fixed, now, fixedAt, signedAt, verdict>> /\ pc = "offered" /\ pc' = "sent" /\ ~Own
    BY DEF Pay, Go
  <1>3. Floor(now) + w \in Int
    BY FloorBounds, WindowsAssumption DEF IInv, TypeInv
  <1>4. TypeInv'
    <2>1. cred'.kind \in Kinds \cup {"none"} /\ cred'.validBefore \in Int
      BY <1>1, <1>3
    <2>2. onchain' \in BOOLEAN
      BY <1>1
    <2> QED
      BY <1>2, <2>1, <2>2 DEF IInv, TypeInv, fixed
  <1>5. PlaceInv'
    BY <1>1, <1>2 DEF IInv, PlaceInv, fixed, Kinds
  <1>6. OwnInv' /\ TimeInv' /\ StrangerInv'
    BY <1>1, <1>2 DEF IInv, OwnInv, TimeInv, StrangerInv, Own, fixed
  <1> QED
    BY <1>4, <1>5, <1>6 DEF IInv

\* The server neither changes a credential nor the time.
LEMMA ServerKeeps ==
  ASSUME IInv, UNCHANGED <<fixed, now, cred, fixedAt, signedAt>>, onchain' \in BOOLEAN,
         \/ pc' = "done" /\ verdict' \in (Refusals \cup {"paid", "unknown", "declined"})
         \/ /\ UNCHANGED <<onchain, verdict>> /\ pc \in {"sent", "validated"}
            /\ pc' \in {"validated", "cosigned"} /\ cred.kind = "transaction" /\ server # "relay"
            /\ transactionMatches(cred.calls, request, challenge)
  PROVE  IInv'
  <1>1. TypeInv'
    BY DEF IInv, TypeInv, fixed
  <1>2. PlaceInv'
    BY DEF IInv, PlaceInv, fixed, Refusals
  <1>3. OwnInv' /\ StrangerInv'
    BY DEF IInv, OwnInv, StrangerInv, Own, fixed, Payable, ChainAgreed, Authorized, AllowedByPolicy, Allows
  <1>4. TimeInv'
    BY DEF IInv, TimeInv, Own, Sponsored, Cap, fixed
  <1> QED
    BY <1>1, <1>2, <1>3, <1>4 DEF IInv

LEMMA VerifyingKeeps == ASSUME IInv, Verifying PROVE IInv'
  <1>1. CASE Expire
    BY <1>1, ServerKeeps DEF Expire, End, Refusals, IInv, TypeInv
  <1>2. CASE Refuse
    <2>1. Refusal \in Refusals
      BY <1>2, RefusalIsVerdict DEF Refuse, Locally, Arrived
    <2> QED
      BY <1>2, <2>1, ServerKeeps DEF Refuse, End, IInv, TypeInv
  <1>3. CASE Accept
    BY <1>3, ServerKeeps DEF Accept, End, IInv, TypeInv
  <1>4. CASE Validate
    <2>1. transactionMatches(cred.calls, request, challenge)
      BY <1>4 DEF Validate, Refusal, TransactionRefusal
    <2> QED
      BY <1>4, <2>1, ServerKeeps DEF Validate, Locally, Arrived, Go, IInv, TypeInv
  <1>5. CASE NodeFails
    BY <1>5, ServerKeeps DEF NodeFails, End, Refusals, IInv, TypeInv
  <1> QED
    BY <1>1, <1>2, <1>3, <1>4, <1>5 DEF Verifying

LEMMA SettlingKeeps == ASSUME IInv, Settling PROVE IInv'
  <1>1. CASE CoSign
    BY <1>1, ServerKeeps DEF CoSign, Go, IInv, TypeInv, PlaceInv
  <1>2. CASE NotCoSigned
    BY <1>2, ServerKeeps DEF NotCoSigned, End, Refusals, IInv, TypeInv
  <1>3. CASE NotSubmitted
    BY <1>3, ServerKeeps DEF NotSubmitted, CheckedAgain, End, Refusals, IInv, TypeInv
  <1>4. CASE Submit
    <2>1. PICK v \in Outcomes(onchain') : End(v)
      BY <1>4 DEF Submit
    <2>2. v \in Refusals \cup {"paid", "unknown", "declined"}
      BY <2>1 DEF Outcomes, Refusals
    <2>3. onchain' \in BOOLEAN
      BY <1>4 DEF Submit
    <2> QED
      BY <2>1, <2>2, <2>3, ServerKeeps DEF End
  <1>5. CASE Relay
    <2>1. \E answer : End(RelayVerdict(answer))
      BY <1>5 DEF Relay
    <2>2. \A answer : RelayVerdict(answer) \in Refusals \cup {"paid", "unknown", "declined"}
      BY DEF RelayVerdict, Refusals
    <2>3. onchain' \in BOOLEAN
      BY <1>5 DEF Relay, IInv, TypeInv
    <2> QED
      BY <2>1, <2>2, <2>3, ServerKeeps DEF End
  <1>6. CASE NotClaimed
    BY <1>6, ServerKeeps DEF NotClaimed, End, Refusals, IInv, TypeInv
  <1> QED
    BY <1>1, <1>2, <1>3, <1>4, <1>5, <1>6 DEF Settling

LEMMA TickKeeps == ASSUME IInv, Tick PROVE IInv'
  <1>1. UNCHANGED <<fixed, pc, cred, fixedAt, signedAt, onchain, verdict>>
    BY DEF Tick
  <1>2. TypeInv'
    BY <1>1, Numbers DEF Tick, IInv, TypeInv, fixed
  <1>3. PlaceInv'
    BY <1>1 DEF IInv, PlaceInv, Own, fixed
  <1>4. OwnInv' /\ StrangerInv'
    BY <1>1 DEF IInv, OwnInv, StrangerInv, Own, fixed, Payable, ChainAgreed, Authorized, AllowedByPolicy, Allows, resolveCredentialType
  <1>5. TimeInv'
    BY <1>1 DEF IInv, TimeInv, Own, Sponsored, Cap, fixed
  <1> QED
    BY <1>2, <1>3, <1>4, <1>5 DEF IInv

LEMMA TooLateKeeps == ASSUME IInv, TooLate PROVE IInv'
  BY ServerKeeps DEF TooLate, End, IInv, TypeInv

LEMMA NextIInv == ASSUME IInv, [Next]_vars PROVE IInv'
  <1>1. CASE UNCHANGED vars
    BY <1>1 DEF vars, fixed, IInv, TypeInv, PlaceInv, OwnInv, TimeInv, StrangerInv, Own, Payable,
       ChainAgreed, Authorized, AllowedByPolicy, Allows, resolveCredentialType, Sponsored, Cap
  <1>2. CASE Next
    BY <1>2, IssuingKeeps, AuthorizeKeeps, SignProofKeeps, PrepareKeeps, SignKeeps, TooLateKeeps,
       PushKeeps, PayKeeps, VerifyingKeeps, SettlingKeeps, TickKeeps DEF Next, Issuing, Paying
  <1> QED
    BY <1>1, <1>2

LEMMA IInvHolds == Spec => []IInv
  BY InitIInv, NextIInv, PTL DEF Spec

-----------------------------------------------------------------------------
(* Theorems.                                                               *)

\* Times are ordered, this package's client makes credentials of the kinds a
\* request allows, and only a verdict ends a charge.
THEOREM TypeCorrect == Spec => []TypeOK
  <1>1. ASSUME IInv PROVE TypeOK
    BY <1>1 DEF IInv, TypeInv, PlaceInv, OwnInv, TypeOK
  <1> QED
    BY <1>1, IInvHolds, PTL

\* Whoever built a transaction, it is validated exactly when some assignment of
\* its transfers to the expected ones exists, its receipt is accepted exactly
\* when, fees apart, one does, and what is validated is accepted.
THEOREM MatchingExact == Spec => []MatchingIsExact
  <1>1. ASSUME IInv PROVE MatchingIsExact
    <2> SUFFICES ASSUME Composed
                 PROVE  LET expected == expectedTransfers(request)
                            validated == transactionMatches(cred.calls, request, challenge)
                            received == receiptMatches(Logs(Payer, cred.calls), request, challenge, Payer)
                        IN  /\ validated <=> Satisfies(cred.calls, expected, challenge)
                            /\ received <=> Satisfies(NotFees(cred.calls, expected), expected, challenge)
                            /\ validated => received
      BY DEF MatchingIsExact
    <2>1. AreTransfers(cred.calls) /\ request \in Requests
      BY <1>1, ComposedAre
    <2> QED
      BY <2>1, MatchingOf
  <1> QED
    BY <1>1, IInvHolds, PTL

\* One transaction pays the charges of two challenges only if each request has
\* a split that carries the memo of the other's challenge.
THEOREM OnePaysOne == Spec => []PaysOneChallenge
  <1>1. ASSUME IInv PROVE PaysOneChallenge
    <2> DEFINE at(id) == [realm |-> Realm, id |-> id]
    <2> SUFFICES ASSUME Composed,
                        NEW r \in Requests, NEW i \in Ids, transactionMatches(cred.calls, r, at(i)),
                        NEW s \in Requests, NEW j \in Ids, transactionMatches(cred.calls, s, at(j)),
                        i # j
                 PROVE  Names(r, j) /\ Names(s, i)
      BY DEF PaysOneChallenge
    <2>1. AreTransfers(cred.calls)
      BY <1>1, ComposedAre
    <2>2. AreTransfers(r.splits) /\ AreTransfers(s.splits)
      BY RequestsAssumption DEF IsRequest
    <2>3. /\ Satisfies(cred.calls, expectedTransfers(r), at(i))
          /\ Satisfies(cred.calls, expectedTransfers(s), at(j))
      BY <2>1, MatchingOf
    <2>4. IsFiniteSet(DOMAIN cred.calls)
      <3>1. Len(cred.calls) \in Nat /\ DOMAIN cred.calls = 1 .. Len(cred.calls)
        BY <2>1 DEF AreTransfers
      <3> QED
        BY <3>1, FS_Interval
    <2>5. at(i).id = i /\ at(j).id = j
      OBVIOUS
    <2>6. \A q, k : (\E l \in DOMAIN q.splits : BoundTo(q.splits[l].memo, at(k))) => Names(q, k)
      BY DEF Names
    <2> HIDE DEF at
    <2>7. PICK m \in DOMAIN cred.calls : BoundTo(cred.calls[m].memo, at(i))
      BY <2>2, <2>3, PrimaryIsBound
    <2>8. PICK n \in DOMAIN cred.calls : BoundTo(cred.calls[n].memo, at(j))
      BY <2>2, <2>3, PrimaryIsBound
    <2>9. \E l \in DOMAIN s.splits : BoundTo(s.splits[l].memo, at(i))
      BY <2>2, <2>3, <2>4, <2>5, <2>7, BoundIsNamed
    <2>10. \E l \in DOMAIN r.splits : BoundTo(r.splits[l].memo, at(j))
      BY <2>2, <2>3, <2>4, <2>5, <2>8, BoundIsNamed
    <2> QED
      BY <2>6, <2>9, <2>10
  <1> QED
    BY <1>1, IInvHolds, PTL

\* Whatever server asks, this package's client transfers the amount its policy
\* allowed, in the currency and on the chain it allowed, and nothing without one.
THEOREM SpendsAllowed == Spec => []SpendsWhatWasAllowed
  <1>1. ASSUME IInv PROVE SpendsWhatWasAllowed
    <2> SUFFICES ASSUME Own, cred.calls # <<>>
                 PROVE  /\ client.policy.configured
                        /\ \A i \in DOMAIN cred.calls : cred.calls[i].amount > 0
                        /\ client.policy.limits = "some" =>
                             /\ Total(cred.calls) <= client.policy.amount
                             /\ request.currency = client.policy.currency
                        /\ client.policy.chains # {} => cred.chain \in client.policy.chains
                        /\ client.chain # NoChain => cred.chain = client.chain
      BY DEF SpendsWhatWasAllowed
    <2>1. cred.kind \notin {"none", "proof"}
      BY <1>1 DEF IInv, OwnInv
    <2>2. Payable /\ Authorized /\ cred.chain = client.rpcChain
      BY <1>1, <2>1 DEF IInv, OwnInv
    <2>3. Total(cred.calls) = request.amount /\ \A i \in DOMAIN cred.calls : cred.calls[i].amount > 0
      BY <1>1, <2>1, CallsAre
    <2> QED
      BY <2>2, <2>3 DEF Payable, ChainAgreed, Authorized, AllowedByPolicy
  <1> QED
    BY <1>1, IInvHolds, PTL

\* A step that leads to a verdict which refuses the credential.
LEMMA RefusingSteps ==
  ASSUME IInv, Next, verdict' \in Refusals
  PROVE  /\ pc' = "done" /\ UNCHANGED <<fixed, now, cred, fixedAt, signedAt>>
         /\ \/ Expire /\ verdict' = "expired"
            \/ Refuse /\ verdict' = Refusal
            \/ NodeFails /\ verdict' = "node"
            \/ NotCoSigned /\ verdict' = "sponsor"
            \/ NotSubmitted /\ verdict' = CheckedAgain
            \/ NotClaimed /\ verdict' = "claim"
            \/ Submit /\ verdict' \in Outcomes(onchain')
            \/ Relay
  <1>1. pc' = "done"
    <2>1. IInv'
      BY NextIInv
    <2> QED
      BY <2>1 DEF IInv, PlaceInv, Refusals
  <1>2. ASSUME Issue \/ SignProof \/ Authorize \/ Prepare \/ Sign \/ Push \/ Pay \/ Validate \/ CoSign \/ Tick
        PROVE  FALSE
    BY <1>1, <1>2 DEF Issue, SignProof, Authorize, Prepare, Sign, Push, Pay, Validate, CoSign, Tick, Go
  <1>3. ASSUME NotIssued \/ Decline \/ TooLate \/ Accept PROVE FALSE
    BY <1>3 DEF NotIssued, Decline, TooLate, Accept, End, Refusals
  <1>4. \/ Expire \/ Refuse \/ NodeFails \/ NotCoSigned
        \/ NotSubmitted \/ NotClaimed \/ Submit \/ Relay
    BY <1>2, <1>3 DEF Next, Issuing, Paying, Verifying, Settling
  <1>5. ASSUME Submit
        PROVE  verdict' \in Outcomes(onchain') /\ UNCHANGED <<fixed, now, cred, fixedAt, signedAt>>
    BY <1>5 DEF Submit, End
  <1> QED
    BY <1>1, <1>4, <1>5 DEF Expire, Refuse, NodeFails, NotCoSigned, NotSubmitted, NotClaimed, Relay, End

\* The receipt of a transaction that was validated is accepted: once it is paid,
\* only the node's answer or the claim of a sponsored transaction refuses it.
LEMMA SubmittedMatches ==
  ASSUME IInv, Submit, verdict' \in Outcomes(onchain'), verdict' \in Refusals
  PROVE  \/ verdict' = "node"
         \/ verdict' = "reverted" /\ ~onchain'
         \/ verdict' = "claim" /\ Sponsored(cred.kind)
  <1>1. cred.kind = "transaction" /\ transactionMatches(cred.calls, request, challenge)
    BY DEF Submit, IInv, PlaceInv
  <1>2. AreTransfers(cred.calls) /\ request \in Requests
    BY <1>1, CallsAre
  <1>3. receiptMatches(Logs(Payer, cred.calls), request, challenge, Payer)
    BY <1>1, <1>2, MatchingOf
  <1> QED
    BY <1>3 DEF Outcomes, Refusals

LEMMA AcceptedStep ==
  ASSUME IInv, Next, verdict' \in Refusals
  PROVE  SignedIsAccepted'
  <1> SUFFICES ASSUME Own', server' \in {"local", "hosted"}
               PROVE  \/ verdict' \in {"node", "reverted", "claim"}
                      \/ verdict' = "expired" /\ ChallengeExpired'
                      \/ verdict' = "chain" /\ request'.chain = NoChain
                      \/ verdict' = "sponsor" /\ server' = "hosted"
                      \/ /\ verdict' = "deadline" /\ now' > signedAt'
                         /\ now' > fixedAt' + (Window - MinValidity - 1) * Sec
    BY DEF SignedIsAccepted
  <1>1. /\ UNCHANGED <<server, client, request, expires, now, fixedAt, signedAt>>
        /\ Own /\ (ChallengeExpired => ChallengeExpired')
    BY RefusingSteps DEF fixed, Own, ChallengeExpired
  <1>2. CASE Expire /\ verdict' = "expired"
    BY <1>1, <1>2 DEF Expire
  <1>3. CASE Refuse /\ verdict' = Refusal
    BY <1>1, <1>3, RefusalOfOwn DEF Refuse, Locally, Arrived
  <1>4. CASE NotCoSigned /\ verdict' = "sponsor"
    BY <1>1, <1>4 DEF NotCoSigned
  <1>5. CASE NotSubmitted /\ verdict' = CheckedAgain
    <2>1. CASE ChallengeExpired
      BY <1>1, <1>5, <2>1 DEF CheckedAgain
    <2>2. CASE ~ChallengeExpired
      <3>1. Sponsored(cred.kind) /\ cred.validBefore < Deadline /\ verdict' = "deadline"
        BY <1>5, <2>2 DEF NotSubmitted, CheckedAgain
      <3>2. cred.kind # "none" /\ pc \in {"validated", "cosigned"}
        BY <1>5 DEF NotSubmitted, IInv, PlaceInv
      <3> QED
        BY <1>1, <2>2, <3>1, <3>2, DeadlineOfOwn
    <2> QED
      BY <2>1, <2>2
  <1>6. CASE Submit /\ verdict' \in Outcomes(onchain')
    BY <1>6, SubmittedMatches
  <1>7. ~Relay
    BY <1>1 DEF Relay
  <1> QED
    BY <1>2, <1>3, <1>4, <1>5, <1>6, <1>7, RefusingSteps

\* Whatever this package's client signs, this package's server accepts, but for
\* its expiry, a chain the challenge did not name, a deadline missed by a
\* credential that took too long, and what others fail at: the node, the chain,
\* the store, or a hosted fee payer that declines.
THEOREM SignedAccepted == Spec => []SignedIsAccepted
  <1>1. Init => SignedIsAccepted
    BY DEF Init, SignedIsAccepted, Refusals
  <1>2. ASSUME IInv, SignedIsAccepted, [Next]_vars PROVE SignedIsAccepted'
    <2>1. CASE UNCHANGED vars
      BY <1>2, <2>1 DEF vars, fixed, SignedIsAccepted, Own, ChallengeExpired
    <2>2. CASE Next /\ verdict' \notin Refusals
      BY <2>2 DEF SignedIsAccepted, Refusals
    <2>3. CASE Next /\ verdict' \in Refusals
      BY <1>2, <2>3, AcceptedStep
    <2> QED
      BY <1>2, <2>1, <2>2, <2>3
  <1> QED
    BY <1>1, <1>2, IInvHolds, PTL DEF Spec

LEMMA NotRefusedStep ==
  ASSUME IInv, Next, verdict' \in Refusals
  PROVE  PaidIsNotRefused'
  <1> SUFFICES ASSUME onchain'
               PROVE  \/ verdict' = "node" /\ server' # "relay"
                      \/ verdict' = "claim" /\ (cred'.kind = "hash" \/ Sponsored(cred.kind))
                      \/ /\ cred'.kind = "hash"
                         /\ Own' /\ server' # "relay" =>
                              verdict' = "expired" \/ (verdict' = "chain" /\ request'.chain = NoChain)
    <2>1. UNCHANGED <<request, cred>>
      BY RefusingSteps DEF fixed
    <2> QED
      BY <2>1 DEF PaidIsNotRefused, Sponsored
  <1>1. UNCHANGED <<server, client, request, cred>> /\ (Own' => Own) /\ pc # "done"
    BY RefusingSteps DEF fixed, Own, Expire, Refuse, NodeFails, NotCoSigned, NotSubmitted, NotClaimed,
       Submit, Relay, Locally, Arrived
  <1>2. onchain => cred.kind = "hash"
    BY <1>1 DEF IInv, PlaceInv
  <1>3. CASE Expire /\ verdict' = "expired"
    BY <1>1, <1>2, <1>3 DEF Expire
  <1>4. CASE Refuse /\ verdict' = Refusal
    <2>1. onchain /\ pc = "sent" /\ ~ChallengeExpired /\ Refusal # "none"
      BY <1>4 DEF Refuse, Locally, Arrived
    <2> QED
      BY <1>1, <1>2, <1>4, <2>1, RefusalOfOwn
  <1>5. ASSUME (NotCoSigned /\ verdict' = "sponsor") \/ (NotSubmitted /\ verdict' = CheckedAgain)
        PROVE  FALSE
    <2>1. onchain /\ pc \in {"validated", "cosigned"}
      BY <1>5 DEF NotCoSigned, NotSubmitted
    <2> QED
      BY <1>2, <2>1 DEF IInv, PlaceInv
  <1>6. CASE Submit /\ verdict' \in Outcomes(onchain')
    <2>1. server # "relay"
      BY <1>6 DEF Submit, IInv, PlaceInv
    <2> QED
      BY <1>1, <1>6, <2>1, SubmittedMatches
  <1>7. CASE Relay
    <2>4. PICK settled \in BOOLEAN :
            /\ onchain' = (onchain \/ (settled /\ cred.kind # "proof"))
            /\ \E answer \in RelayAnswers(settled) : End(RelayVerdict(answer))
      BY <1>7, Zenon DEF Relay
    <2>5. server = "relay" /\ (onchain' => onchain \/ settled)
      BY <1>7, <2>4, Zenon DEF Relay
    <2>1. PICK answer \in RelayAnswers(settled) : verdict' = RelayVerdict(answer)
      BY <2>4, Zenon DEF End
    <2>2. answer \in {"expired", "refused"}
      BY <2>1 DEF RelayVerdict, RelayFailed, Refusals
    <2>3. ~settled
      BY <2>2 DEF RelayAnswers
    <2> QED
      BY <1>1, <1>2, <2>3, <2>5
  <1>8. CASE NodeFails /\ verdict' = "node"
    <2>1. server # "relay"
      BY <1>8 DEF NodeFails, Locally, IInv, PlaceInv
    <2> QED
      BY <1>1, <1>8, <2>1
  <1>9. CASE NotClaimed /\ verdict' = "claim"
    BY <1>1, <1>2, <1>9 DEF NotClaimed
  <1> QED
    BY <1>3, <1>4, <1>5, <1>6, <1>7, <1>8, <1>9, RefusingSteps

\* A submitted payment that is on chain is refused only over an error of the node
\* or a claim that is not taken; a pushed one of this package's client, only over
\* these, its expiry, a chain the challenge did not name, or by a relay.
THEOREM PaidNotRefused == Spec => []PaidIsNotRefused
  <1>1. Init => PaidIsNotRefused
    BY DEF Init, PaidIsNotRefused, Refusals
  <1>2. ASSUME IInv, PaidIsNotRefused, [Next]_vars PROVE PaidIsNotRefused'
    <2>1. CASE UNCHANGED vars
      BY <1>2, <2>1 DEF vars, fixed, PaidIsNotRefused, Own, Sponsored
    <2>2. CASE Next /\ verdict' \notin Refusals
      BY <2>2 DEF PaidIsNotRefused, Refusals
    <2>3. CASE Next /\ verdict' \in Refusals
      BY <1>2, <2>3, NotRefusedStep
    <2> QED
      BY <1>2, <2>1, <2>2, <2>3
  <1> QED
    BY <1>1, <1>2, IInvHolds, PTL DEF Spec
===============================================================================
