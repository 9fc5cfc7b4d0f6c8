------------------------------ MODULE McpPayment ------------------------------
(***************************************************************************)
(* Paying for a tool call over MCP: the client's sending middleware        *)
(* (pkg/mcp/client) against the server's payment errors (pkg/mcp/internal  *)
(* /payment, which pkg/mcp/server and pkg/mcp/jsonrpc wrap).               *)
(*                                                                         *)
(* The call's state is the client's: the middleware waits for each answer, *)
(* so client and server alternate, and what moves meanwhile is the clock   *)
(* and the chain.  The server may also be one that answers anything.       *)
(***************************************************************************)
EXTENDS Naturals, Sequences, FiniteSets, Functions

CONSTANTS
  Offers,        \* what the tool offers, in order: [method, realm, proof]
  Strange,       \* an offer of another server, which this one may relay
  Methods,       \* payment methods
  Configs,       \* configurations of the client
  Sessions,      \* [endpoint, guarded]: guarded by HTTPClient's redirect check
  NoEndpoint,    \* stdio, in-memory and wrapped transports
  NoCred, Garbled,
  Life,          \* lifetime of a challenge
  MaxAttempts,   \* maxPaymentAttempts
  MaxClock       \* bound: the last instant of a behaviour

IsOffer(o) == o.method \in Methods /\ o.proof \in BOOLEAN

\* quality: preference per installed method.  validates: methods that are
\* OriginValidators.  trusted: TrustedProofRealms.
IsConfig(c) ==
  /\ DOMAIN c.quality \subseteq Methods /\ c.validates \subseteq Methods
  /\ \A m \in DOMAIN c.quality : c.quality[m] \in Nat
  /\ {c.orders, c.asks, c.checksSession} \subseteq BOOLEAN
  /\ c.kind \in {"transaction", "hash"}

ASSUME OffersAssumption ==
  /\ Offers \in Seq(Range(Offers)) /\ Offers # <<>>
  /\ IsOffer(Strange) /\ \A i \in DOMAIN Offers : IsOffer(Offers[i])
ASSUME ConfigsAssumption == \A c \in Configs : IsConfig(c)
ASSUME McpBounds == {Life, MaxAttempts, MaxClock} \subseteq Nat

\* A challenge names its offer and its expiry; the offer itself is bound by
\* the challenge's ID.
AllOffers == Range(Offers) \cup {Strange}
Challenges == [offer : AllOffers, expires : Nat]
Credentials == [challenge : Challenges, n : Nat]
ASSUME CredentialsAssumption == {NoCred, Garbled} \cap Credentials = {}

VARIABLES
  honest,     \* the server is this package's; never changes
  config,     \* never changes
  session,    \* never changes
  now,
  pc,         \* "calling", "answered", "asking", "creating", "done"
  attempt,    \* paid retries so far
  wire,       \* the credential of the request that is out
  answer,     \* the server's
  selected,   \* the challenge chosen from it
  cache,      \* credentials created for this call, at most one per challenge
  granted,    \* realms ValidateTempoProofSession let through in this round
  paid,       \* history: credentials whose payment was given to the chain
  amiss,      \* history: a payment's inclusion did not look like the payment
  strayed,    \* history: offers a redirect took a credential for to another origin
  made,       \* history: credentials created
  spoiled     \* history: those refused for their payload

clientVars == <<attempt, wire, selected, cache, granted, made, spoiled>>
fixed == <<honest, config, session>>
vars == <<fixed, now, pc, answer, clientVars, paid, amiss, strayed>>

IsCred(c) == c \notin {NoCred, Garbled}

Challenge(o) == [offer |-> o, expires |-> now + Life]
\* A credential the caller put in the request itself, from an earlier call.
Own == [challenge |-> Challenge(Offers[1]), n |-> 0]
FreshChallenges == [i \in DOMAIN Offers |-> Challenge(Offers[i])]

-----------------------------------------------------------------------------
(* The server: Charge and Compose, and the payment error they answer with. *)

\* MCPErrorCode.
Code(problem) ==
  CASE problem = "none" -> "required"
    [] problem \in {"malformed", "invalid-payload"} -> "params"
    [] problem = "internal" -> "internal"
    [] OTHER -> "failed"

Respond(code, problem, challenges) ==
  /\ pc' = "answered"
  /\ answer' = [code |-> code, problem |-> problem, challenges |-> challenges]
  /\ UNCHANGED <<fixed, now, clientVars, strayed>>

\* rejected: one offer, the one the credential was for, or none when the
\* payment may have settled.
RejectedAnyway(problem, challenge) == <<challenge>>   \* mutant
RejectedWithAll(problem, challenge) ==   \* mutant: every offer again
  IF problem = "outcome-unknown" THEN <<>> ELSE <<challenge>> \o FreshChallenges
Rejected(problem, challenge) ==
  IF problem = "outcome-unknown" THEN <<>> ELSE <<challenge>>

Called == pc = "calling"
Charged == Called /\ honest /\ IsCred(wire)
SettlesHere(c) == c.challenge.offer \in Range(Offers) /\ now < c.challenge.expires
FreshFor(c) ==
  IF c.challenge.offer \in Range(Offers) THEN Challenge(c.challenge.offer)
  ELSE Head(FreshChallenges)

\* No credential: every offer.
Demand ==
  /\ Called /\ honest /\ wire = NoCred
  /\ Respond(Code("none"), "none", FreshChallenges)
  /\ UNCHANGED <<paid, amiss>>

\* Authorization cannot read it: the charge runs without one.
Unreadable ==
  /\ Called /\ honest /\ wire = Garbled
  /\ Respond(Code("malformed"), "malformed", Rejected("malformed", Head(FreshChallenges)))
  /\ UNCHANGED <<paid, amiss>>

\* VerifyOrChallenge refuses it, with a fresh challenge of the offer.
Refuse ==
  /\ Charged /\ ~SettlesHere(wire)
  /\ LET problem == IF wire.challenge.offer \in Range(Offers)
                    THEN "expired" ELSE "invalid-challenge"
     IN  Respond(Code(problem), problem, Rejected(problem, FreshFor(wire)))
  /\ UNCHANGED <<paid, amiss>>

RefusePayload ==
  /\ Charged /\ SettlesHere(wire)
  /\ Respond(Code("invalid-payload"), "invalid-payload",
             Rejected("invalid-payload", FreshFor(wire)))
  /\ UNCHANGED <<paid, amiss>>

\* Refused before the broadcast, or reverted: the echoed challenge is offered again.
NotSettled ==
  /\ Charged /\ SettlesHere(wire)
  /\ Respond(Code("verification-failed"), "verification-failed",
             Rejected("verification-failed", wire.challenge))
  /\ UNCHANGED <<paid, amiss>>

\* Already used, or the claim could not be recorded: no result, no challenge.
NotAnswered ==
  /\ Charged /\ SettlesHere(wire)
  /\ \E problem \in {"used", "internal"} : Respond(Code(problem), problem, <<>>)
  /\ UNCHANGED <<paid, amiss>>

\* It is out, but its hash or receipt is not what was expected: also a failure.
SettlesAmiss ==
  /\ Charged /\ SettlesHere(wire)
  /\ paid' = paid \cup {wire} /\ amiss' = TRUE
  /\ Respond(Code("verification-failed"), "verification-failed",
             Rejected("verification-failed", wire.challenge))

\* The transaction is out and nobody knows whether it was included.
SettlesUnknown ==
  /\ Charged /\ SettlesHere(wire)
  /\ paid' = paid \cup {wire}
  /\ Respond(Code("outcome-unknown"), "outcome-unknown",
             Rejected("outcome-unknown", wire.challenge))
  /\ UNCHANGED amiss

\* WithReceipt: the tool's result, with the receipt.
Settles ==
  /\ Charged /\ SettlesHere(wire)
  /\ paid' = paid \cup {wire}
  /\ Respond("result", "none", <<>>)
  /\ UNCHANGED amiss

\* No challenge could be issued, the tool failed, or the connection did.
Fails ==
  /\ Called
  /\ paid' \in {paid, paid \cup ({wire} \cap made)}
  /\ Respond("error", "none", <<>>)
  /\ UNCHANGED amiss

\* A server that answers anything and relays offers; "meta" asks for payment
\* in the metadata of a tool's result.
Misbehave ==
  /\ Called /\ ~honest
  /\ \E code \in {"params", "meta"}, problem \in {"none", "invalid-payload"},
        o \in AllOffers,
        old \in {c.challenge : c \in made} \cup {Challenge(Strange)} :
       Respond(code, problem, <<old, Challenge(o)>>)
  /\ UNCHANGED <<paid, amiss>>

\* The request is redirected to another origin, unless the session's HTTP
\* client refuses that (then it Fails).
Guarded == session.guarded
Redirect ==
  /\ Called /\ ~honest /\ wire \in made
  /\ session.endpoint # NoEndpoint /\ ~Guarded
  /\ strayed' = strayed \cup {wire.challenge.offer}
  /\ UNCHANGED <<fixed, now, pc, answer, clientVars, paid, amiss>>

-----------------------------------------------------------------------------
(* The client.                                                             *)

\* paymentRequired.
InvalidPayload == answer.code = "params" /\ answer.problem = "invalid-payload"
PaymentRequired ==
  /\ answer.challenges # <<>>
  /\ answer.code \in {"required", "failed", "meta"} \/ InvalidPayload

\* SelectChallengeCandidates: positions in the answer, best first.
Candidates ==
  {i \in DOMAIN answer.challenges :
     LET c == answer.challenges[i] IN
       /\ c.expires >= now
       /\ c.offer.method \in DOMAIN config.quality
       /\ config.quality[c.offer.method] > 0}
Quality(i) == config.quality[answer.challenges[i].offer.method]
IsBest(i, S) == \A j \in S : Quality(i) > Quality(j) \/ (Quality(i) = Quality(j) /\ i <= j)

\* The origin vouched for by the session; Origin owns the realm it is named for.
Origin == IF Guarded THEN session.endpoint ELSE NoEndpoint
Owns(origin, realm) == origin # NoEndpoint /\ origin = realm

\* checkOrigin, with the realms the hook lets through.
CheckOriginUnguarded(o, realms) ==   \* mutant: the hook vouches for any session
  o.proof =>
    /\ config.checksSession => o.realm \in realms
    /\ \/ Owns(Origin, o.realm)
       \/ o.method \in config.validates /\ <<Origin, o.realm>> \in config.trusted
CheckOrigin(o, realms) ==
  o.proof =>
    /\ session.endpoint # NoEndpoint => Guarded
    /\ IF config.checksSession THEN o.realm \in realms
       ELSE session.endpoint # NoEndpoint
    /\ \/ Owns(Origin, o.realm)
       \/ o.method \in config.validates /\ <<Origin, o.realm>> \in config.trusted

\* The realms ValidateTempoProofSession may let through.
Realms == {o.realm : o \in AllOffers}
Granted == IF config.checksSession THEN SUBSET Realms ELSE {{}}
Payable(realms) == {i \in Candidates : CheckOrigin(answer.challenges[i].offer, realms)}

\* OrderChallenges may choose any, or drop all.
Choices(realms) ==
  {i \in Payable(realms) : config.orders \/ IsBest(i, Payable(realms))}

DroppedAll == {}      \* mutant: no credential is kept
Kept == IF InvalidPayload THEN cache \ {wire} ELSE cache

RetriedOnceMore == attempt <= MaxAttempts   \* mutant
Retried == attempt < MaxAttempts

NoAnswer == [code |-> "none", problem |-> "none", challenges |-> <<>>]

Finish ==
  /\ pc = "answered"
  /\ ~PaymentRequired \/ ~Retried
  /\ pc' = "done" /\ answer' = NoAnswer
  /\ UNCHANGED <<fixed, now, clientVars, paid, amiss, strayed>>

Spoil == spoiled' = IF InvalidPayload THEN spoiled \cup ({wire} \cap made) ELSE spoiled

\* pay finds nothing it may pay.
Unpayable ==
  /\ pc = "answered" /\ PaymentRequired /\ Retried
  /\ \E realms \in Granted : config.orders \/ Choices(realms) = {}
  /\ pc' = "done" /\ answer' = NoAnswer
  /\ cache' = Kept /\ Spoil
  /\ UNCHANGED <<fixed, now, attempt, wire, selected, granted, made, paid, amiss, strayed>>

\* A request with credential c goes out.
SendUncounted(c) ==   \* mutant: only a new credential counts
  /\ wire' = c
  /\ attempt' = IF c \in made THEN attempt ELSE attempt + 1
  /\ pc' = "calling"
Send(c) ==
  /\ wire' = c
  /\ attempt' = attempt + 1
  /\ pc' = "calling"

Choose ==
  /\ pc = "answered" /\ PaymentRequired /\ Retried
  /\ cache' = Kept /\ Spoil
  /\ \E realms \in Granted :
       /\ granted' = realms
       /\ \E i \in Choices(realms) :
            /\ selected' = answer.challenges[i]
            /\ LET cached == {c \in cache' : c.challenge = answer.challenges[i]} IN
                 IF cached # {}
                 THEN \E c \in cached : Send(c)
                 ELSE /\ pc' = IF config.asks THEN "asking" ELSE "creating"
                      /\ UNCHANGED <<wire, attempt>>
  /\ answer' = NoAnswer
  /\ UNCHANGED <<fixed, now, made, paid, amiss, strayed>>

Approve ==
  /\ pc = "asking"
  /\ pc' \in {"creating", "done"}
  /\ UNCHANGED <<fixed, now, answer, clientVars, paid, amiss, strayed>>

\* CreateCredential; a hash credential is paid as it is created.
NewCred == [challenge |-> selected, n |-> Cardinality(made) + 1]
Create ==
  /\ pc = "creating"
  /\ Send(NewCred)
  /\ made' = made \cup {NewCred}
  /\ cache' = cache \cup {NewCred}
  /\ paid' = IF config.kind = "hash" THEN paid \cup {NewCred} ELSE paid
  /\ UNCHANGED <<fixed, now, answer, selected, granted, spoiled, amiss, strayed>>

\* The method fails, or its credential has no canonical wire form.
CreateFails ==
  /\ pc = "creating"
  /\ pc' = "done"
  /\ UNCHANGED <<fixed, now, answer, clientVars, paid, amiss, strayed>>

-----------------------------------------------------------------------------
Tick ==
  /\ now < MaxClock /\ pc # "done"
  /\ now' = now + 1
  /\ UNCHANGED <<fixed, pc, answer, clientVars, paid, amiss, strayed>>

Init ==
  /\ honest \in BOOLEAN /\ config \in Configs /\ session \in Sessions
  /\ now = 0 /\ pc = "calling" /\ attempt = 0
  /\ wire \in {NoCred, Garbled, Own}
  /\ answer = NoAnswer
  /\ selected = Challenge(Offers[1])
  /\ cache = {} /\ granted = {} /\ paid = {} /\ strayed = {} /\ amiss = FALSE
  /\ made = {} /\ spoiled = {}

Client == Finish \/ Unpayable \/ Choose \/ Approve \/ Create \/ CreateFails
Server ==
  \/ Demand \/ Unreadable \/ Refuse \/ RefusePayload \/ NotSettled \/ NotAnswered
  \/ SettlesAmiss \/ SettlesUnknown \/ Settles \/ Fails
  \/ Misbehave
Next == Client \/ Server \/ Redirect \/ Tick

Spec == Init /\ [][Next]_vars

\* The client runs; the server answers, or the call's context ends.
FairSpec == Spec /\ WF_vars(Client) /\ WF_vars(Server)

-----------------------------------------------------------------------------
(* Properties.                                                             *)

\* Every credential of the call was made for it, in order, and what the cache
\* holds answers a challenge once.
TypeOK ==
  /\ now \in 0 .. MaxClock /\ attempt \in 0 .. MaxAttempts
  /\ pc \in {"calling", "answered", "asking", "creating", "done"}
  /\ cache \cup spoiled \subseteq made
  /\ wire \in made \cup {NoCred, Garbled} \/ wire.n = 0
  /\ \A c, d \in cache : c.challenge = d.challenge => c = d
  /\ {c \in paid : c.n # 0} \subseteq made

\* A challenge is paid once, however often any server rejects or offers it
\* again, unless the payload of its credential was refused.
OneCredentialPerChallenge ==
  \A c, d \in made : c.challenge = d.challenge /\ c.n < d.n => c \in spoiled

\* Against this package's server, and with credentials the server settles, the
\* payments a tool call makes reach the chain at most once, whatever expires, is
\* rejected, retried or lost: nothing is paid after an unknown outcome.  (Not so
\* for a credential the caller brought, which is replaced, nor when an inclusion
\* did not look like the payment: the credential is then refused, and replaced
\* once its challenge has expired.)
PaidOnce ==
  honest /\ config.kind = "transaction" /\ ~amiss => Cardinality(paid \cap made) <= 1

\* Against this package's server, a call pays for one of the offers: a failure
\* of one is never answered with a payment for another.
OneOfferPaid ==
  honest => \A c, d \in made : c.challenge.offer = d.challenge.offer

\* A proof, new or kept from an earlier round, never reaches another origin
\* than the session's endpoint, and goes out only for a realm that endpoint
\* owns or is trusted for, which the session hook, if there is one, let through
\* in this round; a session without an endpoint needs the hook.
ProofsStayHome ==
  /\ \A o \in strayed : ~o.proof
  /\ pc = "calling" /\ wire \in made /\ wire.challenge.offer.proof =>
       LET realm == wire.challenge.offer.realm IN
       /\ session.endpoint = realm \/ <<session.endpoint, realm>> \in config.trusted
       /\ config.checksSession => realm \in granted
       /\ session.endpoint = NoEndpoint => config.checksSession

\* Every call ends, even against a server that always asks for payment.
Terminates == <>(pc = "done")
===============================================================================
