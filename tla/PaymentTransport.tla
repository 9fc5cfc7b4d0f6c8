-------------------------- MODULE PaymentTransport --------------------------
(***************************************************************************)
(* The paying HTTP client, pkg/client: one Client.Do call, the redirects   *)
(* net/http follows for it, and the rounds Transport.RoundTrip drives for  *)
(* each of them.                                                           *)
(*                                                                         *)
(* The server, the network, the payment methods and the OnChallenge hook   *)
(* are the environment: any answer may come at any time.  A round ends     *)
(* where the code waits for one of them, so a step is what the code does   *)
(* between two of these calls.                                             *)
(***************************************************************************)
EXTENDS Naturals, FiniteSets

CONSTANTS
  Keys,          \* challenges a server may offer (credentialKey)
  Kinds,         \* kinds of credential there are: "hash" is paid on creation
  MaxRetries,    \* WithMaxRetries
  MaxRedirects,  \* redirects net/http follows
  NoCred,        \* the request carries no credential
  Opaque         \* the caller's own credential, which ParseCredential refused

\* by: set on the request by the caller, or obtained by the Transport.
Cred == [key : Keys, kind : Kinds, by : {"caller", "client"}]

ASSUME KindsAssumption == Kinds \subseteq {"hash", "transaction"}
ASSUME BoundsAssumption == {MaxRetries, MaxRedirects} \subseteq Nat
ASSUME SpecialCreds == NoCred \notin Cred /\ Opaque \notin Cred /\ NoCred # Opaque

VARIABLES
  caller,      \* the credential on the caller's request; never changes
  kinds,       \* the kinds the caller and the methods make; never changes
  pc,          \* "flight": a request is out; "create": a method runs; "done"
  retries,     \* rounds paid for
  cache,       \* credentials: at most one per key
  wire,        \* the credential of the request that is out (sent, sentCred)
  callerPaid,  \* that credential is the caller's
  problem,     \* problem type of the last 402
  selected,    \* the challenge chosen from it
  recorded,    \* paymentState.unknown is set
  hop,         \* redirects followed
  result,      \* what Client.Do returns
  made,        \* history: credentials obtained per challenge
  refused,     \* history: invalid-payload answers per challenge
  hashOut,     \* history: a hash credential was sent
  lateMade,    \* history: a credential was obtained after that
  doubt        \* history: nobody told whether the credential sent was settled

trip == <<retries, cache, wire, callerPaid, problem, selected>>
history == <<made, refused, hashOut, lateMade, doubt>>
vars == <<caller, kinds, pc, trip, recorded, hop, result, history>>

Problems == {"none", "outcome-unknown", "expired", "invalid-payload", "other"}

Sent == wire # NoCred
IsHash(c) == c \in Cred /\ c.kind = "hash"
CallerCache == IF caller \in Cred THEN {caller} ELSE {}

-----------------------------------------------------------------------------
\* The caller's request goes out.
Init ==
  /\ kinds \in SUBSET Kinds \ {{}}
  /\ caller \in {NoCred, Opaque} \cup {c \in Cred : c.by = "caller" /\ c.kind \in kinds}
  /\ pc = "flight" /\ retries = 0
  /\ wire = caller /\ cache = CallerCache /\ callerPaid = (caller # NoCred)
  /\ problem = "none" /\ selected \in Keys
  /\ recorded = FALSE /\ hop = 0 /\ result = "none"
  /\ made = [k \in Keys |-> 0] /\ refused = [k \in Keys |-> 0]
  /\ hashOut = IsHash(caller) /\ lateMade = FALSE /\ doubt = FALSE

\* Client.Do returns.  When the http.Client's Timeout has passed, net/http
\* puts its own error in place of RoundTrip's, and Do restores the recorded
\* one.
Return(answer) ==
  /\ pc' = "done"
  /\ \/ result' = answer
     \/ answer # "response" /\ result' = IF recorded' THEN "unknown" ELSE "error"

RecordNothing == UNCHANGED recorded   \* mutant
Record == recorded' = TRUE

\* A credential was sent and its outcome is unknown.
ReturnUnknown ==
  /\ doubt' = TRUE
  /\ Record
  /\ Return("unknown")

-----------------------------------------------------------------------------
(* Answers that end the exchange.                                          *)

\* The inner RoundTrip fails: no connection, no answer, or a timeout.
Lost ==
  /\ pc = "flight"
  /\ \/ Sent /\ ReturnUnknown
     \/ ~Sent /\ UNCHANGED <<recorded, doubt>> /\ Return("error")
  /\ UNCHANGED <<caller, kinds, trip, hop, made, refused, hashOut, lateMade>>

\* Anything but 402 is the answer.
Answered ==
  /\ pc = "flight"
  /\ Return("response")
  /\ UNCHANGED <<caller, kinds, trip, recorded, hop, history>>

\* A redirect on the caller's origin starts over with the caller's headers;
\* net/http refuses the others, and the one beyond its limit.
Redirected ==
  /\ pc = "flight"
  /\ UNCHANGED <<caller, kinds, recorded, doubt>>
  /\ \/ /\ hop < MaxRedirects
        /\ hop' = hop + 1
        /\ retries' = 0 /\ wire' = caller /\ cache' = CallerCache
        /\ callerPaid' = (caller # NoCred)
        /\ made' = [k \in Keys |-> 0] /\ refused' = [k \in Keys |-> 0]
        /\ hashOut' = IsHash(caller) /\ lateMade' = FALSE
        /\ UNCHANGED <<pc, problem, selected, result>>
     \/ Return("error") /\ UNCHANGED <<hop, trip, made, refused, hashOut, lateMade>>

\* The server does not know whether the payment was settled.
OutcomeUnknown ==
  /\ pc = "flight"
  /\ problem' = "outcome-unknown"
  /\ \/ Sent /\ ReturnUnknown
     \/ ~Sent /\ Return("response") /\ UNCHANGED <<recorded, doubt>>
  /\ UNCHANGED <<caller, kinds, retries, cache, wire, callerPaid, selected, hop,
                 made, refused, hashOut, lateMade>>

-----------------------------------------------------------------------------
(* A 402 the Transport may pay.                                            *)

RetryableOnceMore(p) ==   \* mutant: off by one
  /\ pc = "flight"
  /\ p \in Problems \ {"outcome-unknown"}
  /\ ~(callerPaid /\ p = "expired")
  /\ retries <= MaxRetries

\* The 402 carries problem p, which allows another round.
Retryable(p) ==
  /\ pc = "flight"
  /\ p \in Problems \ {"outcome-unknown"}
  /\ ~(callerPaid /\ p = "expired")
  /\ retries < MaxRetries

\* The 402 is the answer: the caller's own credential expired, no round is
\* left, or no challenge of it can be paid after a paid round.
Final(p) ==
  /\ pc = "flight"
  /\ p \in Problems \ {"outcome-unknown"}
  /\ (callerPaid /\ p = "expired") \/ retries >= MaxRetries \/ Sent
  /\ problem' = p
  /\ Return("response")
  /\ UNCHANGED <<caller, kinds, retries, cache, wire, callerPaid, selected, recorded, hop,
                 history>>

\* No challenge can be paid before anything was, the ordering hook fails, the
\* origin is refused, or the request's body cannot be sent again.
Refused(p) ==
  /\ Retryable(p)
  /\ problem' = p
  /\ UNCHANGED <<caller, kinds, retries, cache, wire, callerPaid, selected, recorded, hop,
                 history>>
  /\ Return("error")

\* An invalid-payload problem drops the credential it answers.
DropSelected(p, k) ==   \* mutant: it drops the one about to be used
  IF p = "invalid-payload" THEN {c \in cache : c.key # k} ELSE cache
Kept(p, k) ==
  IF p = "invalid-payload" /\ wire \in Cred
  THEN {c \in cache : c.key # wire.key} ELSE cache

\* A hash credential is paid already: it is sent again, or the 402 returned.
NeverStops(p, k) == FALSE   \* mutant
HashStops(p, k) ==
  /\ IsHash(wire)
  /\ p = "invalid-payload" \/ \A c \in cache : c.key # k

StopAtHash(p, k) ==
  /\ Retryable(p)
  /\ HashStops(p, k)
  /\ problem' = p
  /\ selected' = k
  /\ Return("response")
  /\ UNCHANGED <<caller, kinds, retries, cache, wire, callerPaid, recorded, hop, history>>

CountRefusal(p) ==
  refused' = IF p = "invalid-payload" /\ wire \in Cred
             THEN [refused EXCEPT ![wire.key] = @ + 1] ELSE refused

\* Challenge k is to be paid, and no credential for it is at hand.
Choose(p, k) ==
  /\ Retryable(p)
  /\ ~HashStops(p, k)
  /\ \A c \in Kept(p, k) : c.key # k
  /\ problem' = p
  /\ selected' = k
  /\ cache' = Kept(p, k)
  /\ CountRefusal(p)
  /\ pc' = "create"
  /\ UNCHANGED <<caller, kinds, retries, wire, callerPaid, recorded, hop, result,
                 made, hashOut, lateMade, doubt>>

OwnForgotten(c) == FALSE   \* mutant
Own(c) == c = caller

\* The retry goes out with credential c.
Resend(c) ==
  /\ wire' = c
  /\ callerPaid' = Own(c)
  /\ retries' = retries + 1
  /\ hashOut' = (hashOut \/ IsHash(c))
  /\ pc' = "flight"

\* mutant: only a round that creates a credential counts.
ReuseUncounted(p, k) ==
  /\ Retryable(p)
  /\ ~HashStops(p, k)
  /\ \E c \in Kept(p, k) :
       c.key = k /\ wire' = c /\ callerPaid' = Own(c) /\ hashOut' = (hashOut \/ IsHash(c))
  /\ problem' = p
  /\ selected' = k
  /\ cache' = Kept(p, k)
  /\ CountRefusal(p)
  /\ UNCHANGED <<caller, kinds, pc, retries, recorded, hop, result, made, lateMade, doubt>>

\* Challenge k is to be paid, and its credential is sent again.
Reuse(p, k) ==
  /\ Retryable(p)
  /\ ~HashStops(p, k)
  /\ \E c \in Kept(p, k) : c.key = k /\ Resend(c)
  /\ problem' = p
  /\ selected' = k
  /\ cache' = Kept(p, k)
  /\ CountRefusal(p)
  /\ UNCHANGED <<caller, kinds, recorded, hop, result, made, lateMade, doubt>>

-----------------------------------------------------------------------------
(* createCredential: the method runs, by itself or for the hook.           *)

Obtain ==
  /\ made' = [made EXCEPT ![selected] = @ + 1]
  /\ lateMade' = (lateMade \/ hashOut)

\* The method, or the hook, provides a credential.
Created(kind) ==
  /\ pc = "create"
  /\ Obtain
  /\ LET c == [key |-> selected, kind |-> kind, by |-> "client"] IN
       Resend(c) /\ cache' = cache \cup {c}
  /\ UNCHANGED <<caller, kinds, problem, selected, recorded, hop, result, refused, doubt>>

\* The method fails or the hook declines; the hook fails once the method has
\* paid; or the credential cannot be formatted.
NotCreated ==
  /\ pc = "create"
  /\ Obtain \/ UNCHANGED <<made, lateMade>>
  /\ UNCHANGED <<caller, kinds, trip, recorded, hop, refused, hashOut, doubt>>
  /\ Return("error")

-----------------------------------------------------------------------------
Round ==
  \/ Lost \/ Answered \/ Redirected \/ OutcomeUnknown
  \/ \E p \in Problems : Final(p) \/ Refused(p)
  \/ \E p \in Problems, k \in Keys : StopAtHash(p, k) \/ Choose(p, k) \/ Reuse(p, k)
  \/ \E kind \in kinds : Created(kind)
  \/ NotCreated

\* Do has returned.
Done == pc = "done" /\ UNCHANGED vars

Next == Round \/ Done

Spec == Init /\ [][Next]_vars

\* Every call the code waits for returns: requests, methods and hooks take the
\* request's context, which the caller can bound.
LiveSpec == Spec /\ WF_vars(Round)

-----------------------------------------------------------------------------
\* Every variable has its type, and no challenge has two cached credentials.
TypeOK ==
  /\ caller \in {NoCred, Opaque} \cup Cred /\ kinds \subseteq Kinds
  /\ pc \in {"flight", "create", "done"}
  /\ retries \in 0 .. MaxRetries
  /\ cache \subseteq Cred
  /\ \A c, d \in cache : c.key = d.key => c = d
  /\ wire \in {NoCred, Opaque} \cup Cred
  /\ callerPaid \in BOOLEAN /\ recorded \in BOOLEAN
  /\ problem \in Problems
  /\ selected \in Keys
  /\ hop \in 0 .. MaxRedirects
  /\ result \in {"none", "response", "error", "unknown"}
  /\ made \in [Keys -> Nat] /\ refused \in [Keys -> Nat]
  /\ hashOut \in BOOLEAN /\ lateMade \in BOOLEAN /\ doubt \in BOOLEAN

\* A challenge is paid once, by the caller or the Transport, however the server
\* mixes its answers and offers, unless it called the payload invalid.
OneCredentialPerChallenge ==
  \A k \in Keys :
    made[k] + (IF \E c \in CallerCache : c.key = k THEN 1 ELSE 0) <= 1 + refused[k]

\* "An expired caller credential may already have settled": once the server
\* calls the caller's credential expired, on whichever round it was sent, no
\* other credential is obtained.
ExpiredCallerNotReplaced ==
  pc = "create" /\ problem = "expired" => wire \notin {Opaque, caller} \ {NoCred}

\* The caller always learns that the outcome of a credential is unknown, also
\* when net/http replaces the error, and is told so only then.
DoubtReported == pc = "done" => (result = "unknown" <=> doubt)

\* "Paying a new challenge would pay twice": after a hash credential went out,
\* no other is obtained in the round trip.
NoPaymentAfterHash == ~lateMade

\* A client that makes hash credentials only pays none of them twice.
HashPaidLast == kinds = {"hash"} => NoPaymentAfterHash

\* Do returns, whatever the server answers.
Terminates == <>(pc = "done")
=============================================================================
