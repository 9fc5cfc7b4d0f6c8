----------------------- MODULE PaymentTransportProofs -----------------------
(* What the paying client never does, for any server, any number of        *)
(* challenges and any bounds on retries and redirects.                     *)
EXTENDS PaymentTransport, TLAPS

\* A method runs only for a challenge that has a round left, no credential at
\* hand, and no claim to be the replacement of an expired caller credential.
CreateInv ==
  pc = "create" =>
    /\ retries < MaxRetries
    /\ \A c \in cache : c.key # selected
    /\ ~(callerPaid /\ problem = "expired")

\* callerPaid tells whether the caller's own credential is out.
WireInv ==
  /\ wire \in {caller} \cup Cred
  /\ callerPaid <=> wire = caller /\ caller # NoCred

\* paymentState.unknown is set when there is a doubt, and Do then returns.
DoubtInv ==
  /\ recorded = doubt
  /\ pc # "done" => ~doubt
  /\ DoubtReported

IInv == TypeOK /\ CreateInv /\ WireInv /\ DoubtInv

-----------------------------------------------------------------------------
LEMMA Bounds == MaxRetries \in Nat /\ MaxRedirects \in Nat
  BY BoundsAssumption

\* A refusal is counted once; Boolean flags stay Boolean.
LEMMA CountType ==
  ASSUME TypeOK, NEW p, CountRefusal(p)
  PROVE  refused' \in [Keys -> Nat]
<1>1. CASE p = "invalid-payload" /\ wire \in Cred
  <2>1. refused' = [refused EXCEPT ![wire.key] = refused[wire.key] + 1]
    BY <1>1 DEF CountRefusal
  <2>2. wire.key \in Keys
    BY <1>1 DEF Cred
  <2> QED
    BY <2>1, <2>2 DEF TypeOK
<1>2. CASE ~(p = "invalid-payload" /\ wire \in Cred)
  BY <1>2 DEF CountRefusal, TypeOK
<1> QED
  BY <1>1, <1>2

LEMMA HashBoolean == ASSUME NEW c PROVE IsHash(c) \in BOOLEAN
  BY DEF IsHash

LEMMA KeptSubset == ASSUME NEW p, NEW k PROVE Kept(p, k) \subseteq cache
  BY DEF Kept

\* Do returns with no doubt, or with the doubt recorded.
LEMMA ReturnType ==
  ASSUME NEW a \in {"response", "error"}, Return(a), recorded' = FALSE
  PROVE  pc' = "done" /\ result' \in {"response", "error"}
  BY DEF Return

LEMMA ReturnUnknownType ==
  ASSUME ReturnUnknown
  PROVE  /\ pc' = "done" /\ result' = "unknown"
         /\ recorded' = TRUE /\ doubt' = TRUE
<1>1. recorded' = TRUE /\ doubt' = TRUE /\ Return("unknown")
  BY DEF ReturnUnknown, Record
<1> QED
  BY <1>1 DEF Return

\* The inductive invariant holds.
LEMMA InitIInv == Init => IInv
<1> SUFFICES ASSUME Init PROVE IInv
  OBVIOUS
<1> USE KindsAssumption, Bounds
<1>1. /\ caller \in {NoCred, Opaque} \cup Cred /\ CallerCache \subseteq Cred
      /\ kinds \subseteq Kinds
  BY DEF Init, CallerCache
<1>2. \A c, d \in CallerCache : c = d
  BY DEF CallerCache
<1>3. callerPaid \in BOOLEAN /\ hashOut \in BOOLEAN
  BY HashBoolean DEF Init
<1>4. TypeOK
  <2>1. cache = CallerCache /\ cache \subseteq Cred
    BY <1>1 DEF Init
  <2>2. \A c, d \in cache : c.key = d.key => c = d
    BY <1>2, <2>1
  <2>3. made \in [Keys -> Nat] /\ refused \in [Keys -> Nat]
    BY DEF Init
  <2>4. /\ pc = "flight" /\ retries = 0 /\ hop = 0 /\ wire = caller
        /\ problem = "none" /\ selected \in Keys /\ result = "none"
        /\ recorded = FALSE /\ lateMade = FALSE /\ doubt = FALSE
    BY DEF Init
  <2> QED
    <3>1. /\ caller \in {NoCred, Opaque} \cup Cred
          /\ wire \in {NoCred, Opaque} \cup Cred
      BY <1>1, <2>4
    <3>2. retries \in 0 .. MaxRetries /\ hop \in 0 .. MaxRedirects
      BY <2>4
    <3>3. /\ problem \in Problems /\ selected \in Keys
          /\ result \in {"none", "response", "error", "unknown"}
      BY <2>4 DEF Problems
    <3>4. /\ callerPaid \in BOOLEAN /\ recorded \in BOOLEAN
          /\ hashOut \in BOOLEAN /\ lateMade \in BOOLEAN /\ doubt \in BOOLEAN
      BY <1>3, <2>4
    <3> QED
      BY <1>1, <2>1, <2>2, <2>3, <2>4, <3>1, <3>2, <3>3, <3>4 DEF TypeOK
<1> QED
  BY <1>1, <1>4 DEF Init, IInv, CreateInv, WireInv, DoubtInv, DoubtReported

\* A round of the exchange keeps it.
LEMMA StepIInv == IInv /\ [Next]_vars => IInv'
<1> SUFFICES ASSUME IInv, [Next]_vars PROVE IInv'
  OBVIOUS
<1> USE Bounds, SpecialCreds
        DEF IInv, TypeOK, CreateInv, WireInv, DoubtInv, DoubtReported
<1>1. CASE Lost
  <2>1. UNCHANGED <<caller, kinds, trip, hop, made, refused, hashOut, lateMade>>
        /\ pc = "flight"
    BY <1>1 DEF Lost
  <2>2. CASE ReturnUnknown
    BY <2>1, <2>2, ReturnUnknownType DEF trip
  <2>3. CASE Return("error") /\ UNCHANGED <<recorded, doubt>>
    <3>1. recorded' = FALSE
      BY <2>1, <2>3
    <3> QED
      BY <2>1, <2>3, <3>1, ReturnType DEF trip
  <2> QED
    BY <1>1, <2>2, <2>3 DEF Lost
<1>2. CASE Answered
  BY <1>2 DEF Answered, Return, trip, history
<1>3. CASE Redirected
  <2>1. CASE pc' = "done"
    BY <1>3, <2>1 DEF Redirected, Return, trip
  <2>2. CASE pc' # "done"
    <3>1. /\ retries' = 0 /\ wire' = caller /\ cache' = CallerCache
          /\ callerPaid' = (caller # NoCred)
          /\ hop' = hop + 1 /\ hop < MaxRedirects /\ hashOut' = IsHash(caller)
          /\ made' = [k \in Keys |-> 0] /\ refused' = [k \in Keys |-> 0]
          /\ lateMade' = FALSE
          /\ UNCHANGED <<caller, kinds, pc, recorded, problem, selected, result, doubt>>
      BY <1>3, <2>2 DEF Redirected, Return
    <3>2. pc = "flight"
      BY <1>3 DEF Redirected
    <3>3. CallerCache \subseteq Cred /\ \A c, d \in CallerCache : c = d
      BY DEF CallerCache
    <3>4. hop' \in 0 .. MaxRedirects
      BY <3>1
    <3>5. callerPaid' \in BOOLEAN /\ hashOut' \in BOOLEAN
      BY <3>1, HashBoolean
    <3>6. /\ cache' \subseteq Cred
          /\ \A c, d \in cache' : c.key = d.key => c = d
          /\ made' \in [Keys -> Nat] /\ refused' \in [Keys -> Nat]
      BY <3>1, <3>3
    <3>7. /\ retries' = 0 /\ wire' = caller /\ lateMade' = FALSE
          /\ UNCHANGED <<caller, kinds, pc, recorded, problem, selected, result, doubt>>
      BY <3>1
    <3>8. TypeOK'
      <4>1. /\ caller' \in {NoCred, Opaque} \cup Cred
            /\ wire' \in {NoCred, Opaque} \cup Cred
        BY <3>7
      <4>2. retries' \in 0 .. MaxRetries
        BY <3>7
      <4>3. lateMade' \in BOOLEAN /\ recorded' \in BOOLEAN /\ doubt' \in BOOLEAN
        BY <3>7
      <4> QED
        BY <3>2, <3>4, <3>5, <3>6, <3>7, <4>1, <4>2, <4>3
    <3> QED
      BY <3>1, <3>2, <3>8
  <2> QED
    BY <2>1, <2>2
<1>4. CASE OutcomeUnknown
  <2>1. /\ UNCHANGED <<caller, kinds, retries, cache, wire, callerPaid, selected, hop,
                       made, refused, hashOut, lateMade>>
        /\ pc = "flight" /\ problem' \in Problems
    BY <1>4 DEF OutcomeUnknown, Problems
  <2>2. CASE ReturnUnknown
    BY <2>1, <2>2, ReturnUnknownType
  <2>3. CASE Return("response") /\ UNCHANGED <<recorded, doubt>>
    <3>1. recorded' = FALSE
      BY <2>1, <2>3
    <3> QED
      BY <2>1, <2>3, <3>1, ReturnType
  <2> QED
    BY <1>4, <2>2, <2>3 DEF OutcomeUnknown
<1>5. ASSUME NEW p \in Problems, Final(p) \/ Refused(p) PROVE IInv'
  BY <1>5 DEF Final, Refused, Retryable, Return, history
<1>6. ASSUME NEW p \in Problems, NEW k \in Keys, StopAtHash(p, k) PROVE IInv'
  BY <1>6 DEF StopAtHash, Retryable, Return, history
<1>7. ASSUME NEW p \in Problems, NEW k \in Keys, Choose(p, k) PROVE IInv'
  <2>1. cache' \subseteq cache /\ refused' \in [Keys -> Nat]
    BY <1>7, CountType, KeptSubset DEF Choose
  <2> QED
    BY <1>7, <2>1 DEF Choose, Retryable
<1>8. ASSUME NEW p \in Problems, NEW k \in Keys, Reuse(p, k) PROVE IInv'
  <2>1. retries' \in 0 .. MaxRetries
    BY <1>8 DEF Reuse, Resend, Retryable
  <2>2. cache' \subseteq cache /\ refused' \in [Keys -> Nat]
    BY <1>8, CountType, KeptSubset DEF Reuse
  <2>3. PICK c \in Kept(p, k) : c.key = k /\ Resend(c)
    BY <1>8 DEF Reuse
  <2>4. c \in Cred
    BY <2>3 DEF Kept
  <2>5. hashOut' \in BOOLEAN
    BY <2>3 DEF Resend
  <2>6. \A d, e \in cache' : d.key = e.key => d = e
    BY <2>2
  <2>7. /\ UNCHANGED <<caller, kinds, recorded, hop, result, made, lateMade, doubt>>
        /\ pc = "flight" /\ pc' = "flight" /\ problem' = p /\ selected' = k
        /\ wire' = c /\ (callerPaid' <=> c = caller)
    BY <1>8, <2>3 DEF Reuse, Resend, Retryable, Own
  <2>8. callerPaid' \in BOOLEAN
    BY <2>3 DEF Resend, Own
  <2> QED
    BY <2>1, <2>2, <2>4, <2>5, <2>6, <2>7, <2>8
<1>9. ASSUME NEW kind \in kinds, Created(kind) PROVE IInv'
  <2> DEFINE new == [key |-> selected, kind |-> kind, by |-> "client"]
  <2>1. new \in Cred /\ new.key = selected
    BY DEF Cred
  <2>2. Resend(new) /\ cache' = cache \cup {new} /\ pc = "create"
    BY <1>9 DEF Created
  <2>3. retries' \in 0 .. MaxRetries
    BY <2>2 DEF Resend
  <2>4. \A c, d \in cache' : c.key = d.key => c = d
    BY <2>1, <2>2
  <2>5. made' \in [Keys -> Nat] /\ lateMade' \in BOOLEAN /\ hashOut' \in BOOLEAN
    BY <1>9, <2>2 DEF Created, Obtain, Resend, IsHash
  <2> HIDE DEF new
  <2>6. TypeOK'
    BY <1>9, <2>1, <2>2, <2>3, <2>4, <2>5 DEF Created, Resend, Own
  <2> QED
    BY <1>9, <2>1, <2>2, <2>6 DEF Created, Resend, Own
<1>10. CASE NotCreated
  BY <1>10 DEF NotCreated, Obtain, Return, trip
<1>11. CASE UNCHANGED vars
  BY <1>11 DEF vars, trip, history
<1> QED
  BY <1>1, <1>2, <1>3, <1>4, <1>5, <1>6, <1>7, <1>8, <1>9, <1>10, <1>11
     DEF Next, Round, Done

LEMMA IInvHolds == Spec => []IInv
  BY InitIInv, StepIInv, PTL DEF Spec

\* Every variable keeps its type: the retry bound holds, and no challenge has
\* two cached credentials.
THEOREM TypeCorrect == Spec => []TypeOK
<1>1. IInv => TypeOK
  BY DEF IInv
<1> QED
  BY <1>1, IInvHolds, PTL

\* An expired caller credential is never replaced, on any round.
THEOREM ExpiredCallerKept == Spec => []ExpiredCallerNotReplaced
<1>1. IInv => ExpiredCallerNotReplaced
  BY SpecialCreds DEF IInv, CreateInv, WireInv, ExpiredCallerNotReplaced
<1> QED
  BY <1>1, IInvHolds, PTL

\* The caller is told of an unknown outcome exactly when there is one.
THEOREM DoubtTold == Spec => []DoubtReported
<1>1. IInv => DoubtReported
  BY DEF IInv, DoubtInv
<1> QED
  BY <1>1, IInvHolds, PTL

-----------------------------------------------------------------------------
(* One credential per challenge.  A cached credential is budget in hand:    *)
(* an invalid-payload answer takes it away and counts a refusal.            *)

One(set, k) == IF \E c \in set : c.key = k THEN 1 ELSE 0
Budget(k) == made[k] + One(CallerCache, k) <= refused[k] + One(cache, k)

BudgetInv ==
  /\ OneCredentialPerChallenge
  /\ pc # "done" => \A k \in Keys : Budget(k)

LEMMA OneType == ASSUME NEW set, NEW k PROVE One(set, k) \in {0, 1}
  BY DEF One

\* A refusal pays for the credential it drops.
LEMMA DropBudget ==
  ASSUME TypeOK, NEW p, NEW k, NEW j \in Keys, Budget(j),
         cache' = Kept(p, k), CountRefusal(p), made' = made, caller' = caller
  PROVE  Budget(j)'
<1>1. made[j] \in Nat /\ refused[j] \in Nat /\ refused'[j] \in Nat
  BY CountType DEF TypeOK
<1>2. CallerCache' = CallerCache
  BY DEF CallerCache
<1>3. CASE p = "invalid-payload" /\ wire \in Cred /\ j = wire.key
  <2>1. refused'[j] = refused[j] + 1
    BY <1>3 DEF CountRefusal, TypeOK
  <2> QED
    BY <1>1, <1>2, <2>1, OneType DEF Budget
<1>4. CASE ~(p = "invalid-payload" /\ wire \in Cred /\ j = wire.key)
  <2>1. refused'[j] = refused[j]
    BY <1>4 DEF CountRefusal, TypeOK
  <2>2. (\E c \in cache' : c.key = j) <=> (\E c \in cache : c.key = j)
    BY <1>4 DEF Kept
  <2>3. One(cache', j) = One(cache, j)
    BY <2>2 DEF One
  <2> QED
    BY <1>1, <1>2, <2>1, <2>3 DEF Budget
<1> QED
  BY <1>3, <1>4

\* Where the budget holds, no challenge was paid twice.
LEMMA BudgetBounds ==
  ASSUME TypeOK, \A k \in Keys : Budget(k)
  PROVE  OneCredentialPerChallenge
<1> SUFFICES ASSUME NEW k \in Keys
             PROVE  made[k] + One(CallerCache, k) <= 1 + refused[k]
  BY DEF OneCredentialPerChallenge, One
<1>1. made[k] \in Nat /\ refused[k] \in Nat
  BY DEF TypeOK
<1> QED
  BY <1>1, OneType DEF Budget

\* A challenge is paid once, however the server mixes answers and offers.
THEOREM PaidOnce == Spec => []OneCredentialPerChallenge
<1>1. Init => BudgetInv
  <2> SUFFICES ASSUME Init PROVE BudgetInv
    OBVIOUS
  <2>1. TypeOK
    BY InitIInv DEF IInv
  <2>2. \A k \in Keys : Budget(k)
    BY OneType DEF Init, Budget
  <2> QED
    BY <2>1, <2>2, BudgetBounds DEF BudgetInv
<1>2. IInv /\ BudgetInv /\ [Next]_vars => BudgetInv'
  <2> SUFFICES ASSUME IInv, BudgetInv, [Next]_vars PROVE BudgetInv'
    OBVIOUS
  <2>1. TypeOK /\ TypeOK'
    BY StepIInv DEF IInv
  <2>2. ASSUME pc' = "done", UNCHANGED <<caller, kinds, made, refused>>
        PROVE  BudgetInv'
    BY <2>2 DEF BudgetInv, OneCredentialPerChallenge, CallerCache
  <2>3. ASSUME \A k \in Keys : Budget(k)' PROVE BudgetInv'
    <3>1. ASSUME NEW k \in Keys
          PROVE  made'[k] + One(CallerCache', k) <= 1 + refused'[k]
      <4>1. made'[k] \in Nat /\ refused'[k] \in Nat
        BY <2>1 DEF TypeOK
      <4>2. Budget(k)'
        BY <2>3
      <4> QED
        BY <4>1, <4>2, OneType DEF Budget
    <3>2. OneCredentialPerChallenge'
      BY <3>1 DEF OneCredentialPerChallenge, One
    <3> QED
      BY <2>3, <3>2 DEF BudgetInv
  <2>4. CASE Lost \/ Answered \/ OutcomeUnknown
    BY <2>2, <2>4 DEF Lost, Answered, OutcomeUnknown, ReturnUnknown, Return, history
  <2>5. CASE Redirected
    <3>1. CASE pc' = "done"
      BY <2>2, <2>5, <3>1, <2>1 DEF Redirected, Return, TypeOK
    <3>2. CASE pc' # "done"
      <4>1. /\ cache' = CallerCache' /\ made' = [k \in Keys |-> 0]
            /\ refused' = [k \in Keys |-> 0]
        BY <2>5, <3>2 DEF Redirected, Return, CallerCache
      <4> QED
        BY <2>3, <4>1, OneType DEF Budget
    <3> QED
      BY <3>1, <3>2
  <2>6. ASSUME NEW p \in Problems, Final(p) \/ Refused(p) PROVE BudgetInv'
    BY <2>2, <2>6 DEF Final, Refused, Return, history
  <2>7. ASSUME NEW p \in Problems, NEW k \in Keys, StopAtHash(p, k)
        PROVE  BudgetInv'
    BY <2>2, <2>7 DEF StopAtHash, Return, history
  <2>8. ASSUME NEW p \in Problems, NEW k \in Keys, Choose(p, k) \/ Reuse(p, k)
        PROVE  BudgetInv'
    <3>1. /\ pc # "done" /\ cache' = Kept(p, k) /\ CountRefusal(p)
          /\ made' = made /\ caller' = caller
      BY <2>8 DEF Choose, Reuse, Retryable
    <3>2. \A j \in Keys : Budget(j)
      BY <3>1 DEF BudgetInv
    <3> QED
      BY <2>1, <2>3, <3>1, <3>2, DropBudget
  <2>9. ASSUME NEW kind \in kinds, Created(kind) PROVE BudgetInv'
    <3>1. PICK c : c.key = selected /\ cache' = cache \cup {c}
      BY <2>9 DEF Created
    <3>2. /\ pc = "create" /\ refused' = refused /\ caller' = caller
          /\ made' = [made EXCEPT ![selected] = made[selected] + 1]
      BY <2>9 DEF Created, Obtain
    <3>3. ASSUME NEW k \in Keys PROVE Budget(k)'
      <4>1. Budget(k) /\ made[k] \in Nat /\ refused[k] \in Nat
        BY <2>1, <3>2 DEF BudgetInv, TypeOK
      <4>2. One(CallerCache', k) = One(CallerCache, k)
        BY <3>2 DEF CallerCache
      <4>3. CASE k = selected
        <5>1. One(cache, k) = 0 /\ One(cache', k) = 1
          BY <3>1, <3>2, <4>3 DEF IInv, CreateInv, One
        <5>2. made'[k] = made[k] + 1
          BY <2>1, <3>2, <4>3 DEF TypeOK
        <5> QED
          BY <3>2, <4>1, <4>2, <5>1, <5>2, OneType DEF Budget
      <4>4. CASE k # selected
        <5>1. One(cache', k) = One(cache, k)
          BY <3>1, <4>4 DEF One
        <5>2. made'[k] = made[k]
          BY <2>1, <3>2, <4>4 DEF TypeOK
        <5> QED
          BY <3>2, <4>1, <4>2, <5>1, <5>2, OneType DEF Budget
      <4> QED
        BY <4>3, <4>4
    <3> QED
      BY <2>3, <3>3
  <2>10. CASE NotCreated
    <3>1. pc' = "done" /\ UNCHANGED <<caller, kinds, refused>> /\ pc = "create"
      BY <2>10 DEF NotCreated, Return
    <3>2. CASE made' = made
      BY <2>2, <3>1, <3>2
    <3>3. CASE Obtain
      <4>1. ASSUME NEW k \in Keys
            PROVE  made'[k] + One(CallerCache', k) <= 1 + refused'[k]
        <5>1. Budget(k) /\ made[k] \in Nat /\ refused[k] \in Nat
          BY <2>1, <3>1 DEF BudgetInv, TypeOK
        <5>2. One(CallerCache', k) = One(CallerCache, k)
          BY <3>1 DEF CallerCache
        <5>3. CASE k = selected
          <6>1. One(cache, k) = 0
            BY <3>1, <5>3 DEF IInv, CreateInv, One
          <6>2. made'[k] = made[k] + 1
            BY <2>1, <3>3, <5>3 DEF Obtain, TypeOK
          <6> QED
            BY <3>1, <5>1, <5>2, <6>1, <6>2, OneType DEF Budget
        <5>4. CASE k # selected
          <6>1. made'[k] = made[k]
            BY <2>1, <3>3, <5>4 DEF Obtain, TypeOK
          <6> QED
            BY <3>1, <5>1, <5>2, <6>1, OneType DEF Budget
        <5> QED
          BY <5>3, <5>4
      <4> QED
        BY <3>1, <4>1 DEF BudgetInv, OneCredentialPerChallenge, One
    <3> QED
      BY <2>10, <3>2, <3>3 DEF NotCreated
  <2>11. CASE UNCHANGED vars
    BY <2>11 DEF vars, trip, history, BudgetInv, OneCredentialPerChallenge,
                 Budget, CallerCache
  <2> QED
    BY <2>4, <2>5, <2>6, <2>7, <2>8, <2>9, <2>10, <2>11 DEF Next, Round, Done
<1>3. BudgetInv => OneCredentialPerChallenge
  BY DEF BudgetInv
<1> QED
  BY <1>1, <1>2, <1>3, IInvHolds, PTL DEF Spec

-----------------------------------------------------------------------------
(* Hash credentials.                                                       *)

\* Where every credential is a hash credential, a method never runs after one
\* went out.
HashInv ==
  kinds = {"hash"} =>
    /\ \A c \in cache : IsHash(c)
    /\ caller \in Cred => IsHash(caller)
    /\ hashOut => IsHash(wire)
    /\ pc = "create" => ~hashOut
    /\ ~lateMade

\* A client that pays by hash credentials only never pays a second challenge.
THEOREM HashLast == Spec => []HashPaidLast
<1>1. Init => HashInv
  <2> SUFFICES ASSUME Init, kinds = {"hash"} PROVE HashInv
    BY DEF HashInv
  <2>1. caller \in Cred => IsHash(caller)
    BY SpecialCreds DEF Init, IsHash
  <2>2. \A c \in cache : IsHash(c)
    BY <2>1 DEF Init, CallerCache
  <2> QED
    BY <2>2, <2>1 DEF Init, HashInv
<1>2. IInv /\ HashInv /\ [Next]_vars => HashInv'
  <2> SUFFICES ASSUME IInv, HashInv, [Next]_vars PROVE HashInv'
    OBVIOUS
  <2>21. ASSUME Lost \/ Answered \/ Redirected \/ OutcomeUnknown \/ NotCreated
        PROVE  kinds' = kinds
    BY <2>21 DEF Lost, Answered, Redirected, OutcomeUnknown, NotCreated
  <2>22. ASSUME \E p \in Problems : Final(p) \/ Refused(p)
        PROVE  kinds' = kinds
    BY <2>22 DEF Final, Refused
  <2>23. ASSUME \E p \in Problems, k \in Keys :
               StopAtHash(p, k) \/ Choose(p, k) \/ Reuse(p, k)
        PROVE  kinds' = kinds
    BY <2>23 DEF StopAtHash, Choose, Reuse
  <2>24. ASSUME \E kind \in kinds : Created(kind)
        PROVE  kinds' = kinds
    BY <2>24 DEF Created
  <2>25. ASSUME UNCHANGED vars
        PROVE  kinds' = kinds
    BY <2>25 DEF vars
  <2>20. kinds' = kinds
    BY <2>21, <2>22, <2>23, <2>24, <2>25 DEF Next, Round, Done
  <2> SUFFICES ASSUME kinds = {"hash"} PROVE HashInv'
    BY <2>20 DEF HashInv
  <2> USE DEF HashInv
  <2>1. CASE Lost \/ Answered \/ OutcomeUnknown
    BY <2>1 DEF Lost, Answered, OutcomeUnknown, ReturnUnknown, Return, trip,
                history, IsHash
  <2>2. CASE Redirected
    <3>1. pc' # "create" /\ ~lateMade' /\ caller' = caller
      BY <2>2 DEF Redirected, Return
    <3>2. hashOut' => IsHash(wire)'
      BY <2>2 DEF Redirected, trip, IsHash
    <3>3. \A c \in cache' : IsHash(c)'
      BY <2>2 DEF Redirected, trip, IsHash, CallerCache
    <3> QED
      BY <3>1, <3>2, <3>3 DEF IsHash
  <2>3. ASSUME NEW p \in Problems, Final(p) \/ Refused(p) PROVE HashInv'
    BY <2>3 DEF Final, Refused, Return, history, IsHash
  <2>4. ASSUME NEW p \in Problems, NEW k \in Keys, StopAtHash(p, k)
        PROVE  HashInv'
    BY <2>4 DEF StopAtHash, Return, history, IsHash
  <2>5. ASSUME NEW p \in Problems, NEW k \in Keys, Choose(p, k) PROVE HashInv'
    <3>1. /\ UNCHANGED <<caller, wire, hashOut, lateMade>>
          /\ ~HashStops(p, k)
          /\ cache' = Kept(p, k)
          /\ \A c \in Kept(p, k) : c.key # k
      BY <2>5 DEF Choose
    <3>2. ~IsHash(wire)
      BY <3>1 DEF HashStops, Kept
    <3>3. \A c \in cache' : IsHash(c)'
      BY <3>1, KeptSubset DEF IsHash
    <3> QED
      BY <3>1, <3>2, <3>3 DEF IsHash
  <2>6. ASSUME NEW p \in Problems, NEW k \in Keys, Reuse(p, k) PROVE HashInv'
    <3>1. PICK c \in Kept(p, k) : Resend(c)
      BY <2>6 DEF Reuse
    <3>2. cache' = Kept(p, k) /\ c \in cache
      BY <2>6, <3>1, KeptSubset DEF Reuse
    <3>3. \A d \in cache' : IsHash(d)'
      BY <3>2, KeptSubset DEF IsHash
    <3>4. IsHash(wire)'
      BY <3>1, <3>2 DEF Resend, IsHash
    <3> QED
      BY <2>6, <3>1, <3>3, <3>4 DEF Reuse, Resend, IsHash
  <2>7. ASSUME NEW kind \in kinds, Created(kind) PROVE HashInv'
    <3> DEFINE new == [key |-> selected, kind |-> kind, by |-> "client"]
    <3>1. new \in Cred /\ new.kind = "hash"
      BY DEF IInv, TypeOK, Cred
    <3>2. /\ wire' = new /\ pc' = "flight" /\ pc = "create"
          /\ cache' = cache \cup {new} /\ caller' = caller
          /\ lateMade' = (lateMade \/ hashOut)
      BY <2>7 DEF Created, Resend, Obtain
    <3> HIDE DEF new
    <3>3. IsHash(wire)'
      BY <3>1, <3>2 DEF IsHash
    <3>4. \A c \in cache' : IsHash(c)'
      BY <3>1, <3>2 DEF IsHash
    <3> QED
      BY <3>2, <3>3, <3>4 DEF IsHash
  <2>8. CASE NotCreated
    <3>1. pc = "create" /\ pc' = "done" /\ UNCHANGED <<caller, wire, cache, hashOut>>
      BY <2>8 DEF NotCreated, Return, trip
    <3>2. lateMade' = (lateMade \/ hashOut) \/ lateMade' = lateMade
      BY <2>8 DEF NotCreated, Obtain
    <3>3. ~lateMade'
      BY <3>1, <3>2
    <3> QED
      BY <3>1, <3>3 DEF IsHash
  <2>9. CASE UNCHANGED vars
    BY <2>9 DEF vars, trip, history, IsHash
  <2> QED
    BY <2>1, <2>2, <2>3, <2>4, <2>5, <2>6, <2>7, <2>8, <2>9 DEF Next, Round, Done
<1>3. HashInv => HashPaidLast
  BY DEF HashInv, HashPaidLast, NoPaymentAfterHash
<1> QED
  BY <1>1, <1>2, <1>3, IInvHolds, PTL DEF Spec
=============================================================================
