----------------------------- MODULE ChargeServer -----------------------------
(***************************************************************************)
(* The charge server, pkg/server: a paid route offers challenges, checks   *)
(* the credential of a request against the offer it echoes, settles it     *)
(* through the payment method, and reports what happened to event hooks.   *)
(*                                                                         *)
(* The server keeps no state between requests: what binds a credential to  *)
(* a challenge is the challenge's HMAC.  So requests are handled one after *)
(* the other, and the clock, which moves between them and while a payment  *)
(* settles, is what they share.                                            *)
(***************************************************************************)
EXTENDS Sequences, FiniteSets, ReceiptWriter

CONSTANTS
  Routes,        \* route -> the offers composed on it, in order
  Scope,         \* route -> the route scope of its HTTP requests
  Mpps,          \* payment handlers (Mpp)
  Bodies,        \* request bodies
  NoBody, TooLarge,    \* TooLarge: over MaxRequestBodyBytes
  NoScope, LongScope,  \* LongScope: too long to serialize
  NoCred, Malformed, Unreadable,    \* header values that carry no credential
  Garbage,       \* an echoed request that cannot be decoded
  Elsewhere,     \* challenges issued under the same key, but not here
  Tampered,      \* requests a client may put in a challenge it echoes
  Realm,
  Life,          \* default lifetime of a challenge (5 minutes)
  MinValidity,   \* FeePayerMinRemainingValidity
  MaxClock,      \* bound: the last instant of a behaviour
  MaxRequests    \* bound: requests of a behaviour

\* scope: bound by the handler itself (MppxScope).  auth: WithRequiresAuth.
\* nonce: WithChallengeNonce.  expires: a fixed expiry, or 0.
IsOffer(o) ==
  /\ DOMAIN o = {"mpp", "method", "requests", "scope", "auth", "nonce",
                 "sponsored", "expires"}
  /\ o.mpp \in Mpps /\ {o.auth, o.nonce, o.sponsored} \subseteq BOOLEAN
  /\ o.expires \in Nat /\ o.requests # {} /\ Garbage \notin o.requests

ASSUME RoutesAssumption ==
  /\ \A r \in DOMAIN Routes :
       /\ DOMAIN Routes[r] \subseteq Nat \ {0} /\ DOMAIN Routes[r] # {}
       /\ \A i \in DOMAIN Routes[r] : IsOffer(Routes[r][i])
  /\ DOMAIN Scope = DOMAIN Routes
\* A scope of an offer's own is not the scope of a route, and not too long.
ASSUME ScopesAssumption ==
  /\ \A r \in DOMAIN Routes : \A i \in DOMAIN Routes[r] :
       /\ Routes[r][i].scope # LongScope
       /\ \A q \in DOMAIN Routes : Scope[q] \notin {NoScope, Routes[r][i].scope}
  /\ NoScope # LongScope
\* Nothing that is issued elsewhere passes for a challenge of this server.
ASSUME ElsewhereAssumption ==
  \A c \in Elsewhere : c.realm # Realm \/ c.intent # "charge" \/ c.expires = 0
ASSUME HeaderValuesAssumption == NoCred \notin {Malformed, Unreadable}
ASSUME BodiesAssumption == {NoBody, TooLarge} \subseteq Bodies
ASSUME ServerBounds ==
  {Life, MinValidity, MaxClock, MaxRequests} \subseteq Nat /\ Life > 0

VARIABLES
  now,        \* the clock
  phase,      \* "ready", "reading", "settling", "serving"
  req,        \* the request being answered
  at,         \* the offer its credential is settled for
  since,      \* when that offer took it: what it issues for it dates from then
  resp,       \* its answer
  hooks,      \* the event hooks it called
  count,      \* requests so far
  issued,     \* history: each challenge delivered, with its route and body
  served      \* history: each request served, with its credential

vars == <<now, phase, req, at, since, resp, hooks, count, issued, served, writer>>

Offers == Routes[req.route]
Headers == {"Authorization", "Payment-Authorization"}
HeaderOf(o) == IF o.auth THEN "Payment-Authorization" ELSE "Authorization"

-----------------------------------------------------------------------------
(* Challenges.                                                             *)

\* WithDefaultScope, challengeMeta: the scope a challenge of o is bound to.
MetaUnscoped(o, scope) == o.scope   \* mutant: the route scope is not bound
Meta(o, scope) == IF o.scope # NoScope THEN o.scope ELSE scope

\* A challenge of offer o for request p; its ID binds every field.
Challenge(o, p, scope, body, expiry) ==
  [realm |-> Realm, method |-> o.method, intent |-> "charge", request |-> p,
   meta |-> Meta(o, scope), nonce |-> IF o.nonce THEN count ELSE 0,
   digest |-> body, expires |-> expiry, header |-> HeaderOf(o)]

ExpiryOf(o, t) == IF o.expires = 0 THEN t + Life ELSE o.expires

FreshChallenges(o, scope, body) ==
  {Challenge(o, p, scope, body, ExpiryOf(o, now)) : p \in o.requests}

\* A sponsored challenge with a fixed expiry is not issued just before it.
Issuable(o) == o.sponsored /\ o.expires # 0 => o.expires >= now + MinValidity

Serializable(c) == c.meta # LongScope

\* Challenges this server holds the key of.
Genuine == {i.challenge : i \in issued} \cup Elsewhere

\* What a client may echo: a challenge, or one it has altered.
Echoes ==
  {[echo |-> c, genuine |-> TRUE] : c \in Genuine} \cup
  {[echo |-> [c EXCEPT !.request = p], genuine |-> FALSE] :
     c \in Genuine, p \in Tampered}

-----------------------------------------------------------------------------
(* VerifyOrChallenge: what is wrong with credential c at offer o.          *)

Expired(c) == now >= c.echo.expires

NonceCompared(c, o, scope) ==   \* mutant: the nonce is taken for metadata
  c.echo.meta = Meta(o, scope) /\ c.echo.nonce = 0
MetaMatches(c, o, scope) == c.echo.meta = Meta(o, scope)

IdMatches(c) == c.genuine
BoundTo(c, o) ==
  /\ IdMatches(c)
  /\ c.echo.realm = Realm /\ c.echo.method = o.method /\ c.echo.intent = "charge"
  /\ c.echo.request \in o.requests
  /\ c.echo.expires # 0

Refusal(c, o, scope, body) ==
  CASE c.echo.request = Garbage -> "malformed"
    [] c.echo.request # Garbage /\ ~BoundTo(c, o) -> "invalid-challenge"
    [] BoundTo(c, o) /\ Expired(c) -> "expired"
    [] BoundTo(c, o) /\ ~Expired(c)
         /\ ~(MetaMatches(c, o, scope) /\ c.echo.digest = body) -> "invalid-challenge"
    [] OTHER -> "none"

-----------------------------------------------------------------------------
(* The flow: which offer a credential is for.                              *)

Accepts(source, o) == source = "any" \/ source = HeaderOf(o)

OffersIntent(o, c) == c.echo.method = o.method /\ c.echo.intent = "charge"

First(S) == CHOOSE i \in S : \A j \in S : i <= j

\* findMatchingEntry: an exact match, or else an offer that will refuse c with
\* challenges of its own; 0 when there is none.
Matching(offers, c, source, scope) ==
  LET readers == {i \in DOMAIN offers : Accepts(source, offers[i])}
      similar == {i \in readers : OffersIntent(offers[i], c)}
      exact == {i \in similar : /\ MetaMatches(c, offers[i], scope)
                                /\ c.echo.request \in offers[i].requests}
      named == {i \in readers : c.echo.method = offers[i].method}
  IN  IF exact # {} THEN First(exact)
      ELSE IF similar # {} THEN First(similar)
      ELSE IF named # {} THEN First(named) ELSE 0

\* The header value of field h, if an offer of the route reads it.
Read(h) == IF \E i \in DOMAIN Offers : HeaderOf(Offers[i]) = h
           THEN req.field[h] ELSE NoCred

\* composePaymentCredential: at most one credential, of which one header.
Unreadables ==
  \/ \E h \in Headers : Read(h) = Unreadable
  \/ \A h \in Headers : Read(h) # NoCred
Source ==
  IF req.via = "mcp" THEN "any"
  ELSE IF Read("Payment-Authorization") # NoCred
       THEN "Payment-Authorization" ELSE "Authorization"
Presented ==
  IF req.via = "mcp" THEN req.field["Authorization"] ELSE Read(Source)

RequestScope == IF req.via = "mcp" THEN NoScope ELSE Scope[req.route]
RequestBody == IF req.via = "mcp" THEN NoBody ELSE req.body

-----------------------------------------------------------------------------
(* Answers and event hooks.                                                *)

Status(problem) ==
  CASE problem \in {"unsupported", "bad-request", "unread-body"} -> 400
    [] problem = "used" -> 403
    [] problem = "too-large" -> 413
    [] problem = "too-long" -> 414
    [] problem = "internal" -> 500
    [] OTHER -> 402

\* No challenge goes out with an outcome-unknown problem.
Withheld(problem) == problem = "outcome-unknown"

\* The challenges for the request that a parsed credential echoes.
Own(problem, challenges) ==
  IF problem = "malformed" THEN {}
  ELSE {c \in challenges : c.request = Presented.echo.request}

\* The sets of challenges an answer may carry.  HTTP: all of them.  MCP answers a
\* refused credential with one (rejected): that of its own request, or else the
\* first, which is left open.
Delivered(problem, challenges) ==
  IF Withheld(problem) \/ challenges = {} THEN {{}}
  ELSE IF req.via = "http" \/ problem = "none" THEN {challenges}
  ELSE LET same == Own(problem, challenges)
       IN  {{c} : c \in IF same # {} THEN same ELSE challenges}

\* WritePaymentResponse: when a challenge cannot be serialized, nothing of the
\* answer is written.  MCP needs no header for them.
Answer(problem, delivered) ==
  LET written == req.via = "http" => \A c \in delivered : Serializable(c)
      p == IF written THEN problem ELSE "too-long"
  IN  [status |-> Status(p), problem |-> p,
       challenges |-> IF written THEN delivered ELSE {}]

\* challengesDelivered: what ChallengeCreated is called for.
ReportedEarly(problem, challenges) == challenges   \* mutant: when issued
Reported(problem, challenges) ==
  IF problem = "outcome-unknown" \/ \E c \in challenges : ~Serializable(c)
  THEN {} ELSE challenges

\* paymentFailedOnce: every handler of the route, once.
FailedPerOffer ==   \* mutant: per offer
  [m \in Mpps |-> Cardinality({i \in DOMAIN Offers : Offers[i].mpp = m})]
FailedAll ==
  [m \in Mpps |-> IF \E i \in DOMAIN Offers : Offers[i].mpp = m THEN 1 ELSE 0]
FailedOne(o) == [m \in Mpps |-> IF m = o.mpp THEN 1 ELSE 0]
FailedNone == [m \in Mpps |-> 0]

\* The request is answered; failed counts the calls of PaymentFailed.
Reply(problem, challenges, failed) ==
  /\ phase' = "ready"
  /\ \E delivered \in Delivered(problem, challenges) : resp' = Answer(problem, delivered)
  /\ hooks' = [created |-> Reported(problem, challenges), failed |-> failed,
               succeeded |-> FailedNone]
  /\ issued' = issued \cup
       {[challenge |-> c, route |-> req.route, via |-> req.via, body |-> RequestBody] :
          c \in resp'.challenges}
  /\ UNCHANGED <<now, req, count, served, writer>>

\* Every offer's challenges (collectComposeChallenges), or an internal error.
ReplyAllOffers(problem, failed) ==
  IF \A i \in DOMAIN Offers : Issuable(Offers[i])
  THEN Reply(problem,
             UNION {FreshChallenges(Offers[i], RequestScope, RequestBody) :
                      i \in DOMAIN Offers}, failed)
  ELSE Reply("internal", {}, failed)

\* composeRetryResult: the offers c resembles that can be issued, or all.
ReplyRetry(problem, similar) ==
  LET some == {i \in similar : Issuable(Offers[i])} IN
  IF some # {}
  THEN Reply(problem,
             UNION {FreshChallenges(Offers[i], RequestScope, RequestBody) : i \in some},
             FailedAll)
  ELSE ReplyAllOffers(problem, FailedAll)

-----------------------------------------------------------------------------
(* A request arrives.                                                      *)

Arrive ==
  /\ phase = "ready"
  /\ count < MaxRequests
  /\ count' = count + 1
  /\ phase' = "reading"
  /\ \E r \in DOMAIN Routes, via \in {"http", "mcp"}, b \in Bodies,
        h \in Headers, v \in {NoCred, Malformed, Unreadable} \cup Echoes :
       \* the other header is empty, or carries a second credential
       \E w \in {NoCred, v} :
         req' = [route |-> r, via |-> via, body |-> b,
                 field |-> [g \in Headers |-> IF g = h THEN v ELSE w]]
  /\ resp' = [status |-> 0, problem |-> "none", challenges |-> {}]
  /\ hooks' = [created |-> {}, failed |-> FailedNone, succeeded |-> FailedNone]
  /\ writer' = NoWriter
  /\ UNCHANGED <<now, at, since, issued, served>>

Oversize == req.via = "http" /\ req.body = TooLarge

\* The body is too large, or reading it fails, before anything else is read
\* (RequestBodyError; "unread-body" is a bad request).
BodyRefused ==
  /\ phase = "reading" /\ req.via = "http" /\ req.body # NoBody
  /\ \/ Oversize /\ Reply("too-large", {}, FailedNone)
     \/ Reply("unread-body", {}, FailedNone)
  /\ UNCHANGED <<at, since>>

\* The header cannot be read, or two carry a credential.
Readable == phase = "reading" /\ ~Oversize /\ ~(req.via = "http" /\ Unreadables)

Unread ==
  /\ phase = "reading" /\ ~Oversize
  /\ req.via = "http" /\ Unreadables
  /\ Reply("bad-request", {}, FailedAll)
  /\ UNCHANGED <<at, since>>

Unpaid ==
  /\ Readable /\ Presented = NoCred
  /\ ReplyAllOffers("none", FailedNone)
  /\ UNCHANGED <<at, since>>

NotParsed ==
  /\ Readable /\ Presented \in {Malformed, Unreadable}
  /\ ReplyRetry("malformed", {})
  /\ UNCHANGED <<at, since>>

HasCredential == Readable /\ Presented \notin {NoCred, Malformed, Unreadable}

Match == Matching(Offers, Presented, Source, RequestScope)
Garbled == Presented.echo.request = Garbage

\* No offer is a match for the credential, and none will refuse it.
Unmatched ==
  /\ HasCredential
  /\ \/ /\ Garbled
        /\ ReplyRetry("malformed", {i \in DOMAIN Offers : OffersIntent(Offers[i], Presented)})
     \/ /\ ~Garbled /\ Match = 0
        /\ IF \E i \in DOMAIN Offers : Presented.echo.method = Offers[i].method
           THEN ReplyRetry("invalid-challenge",
                           {i \in DOMAIN Offers : OffersIntent(Offers[i], Presented)})
           ELSE Reply("unsupported", {}, FailedAll)
  /\ UNCHANGED <<at, since>>

\* Charge: the offer refuses the credential, or hands it to the method.
Dispatched ==
  /\ HasCredential /\ ~Garbled /\ Match # 0
  /\ at' = Match
  /\ since' = now
  /\ LET o == Offers[Match]
         problem == Refusal(Presented, o, RequestScope, RequestBody)
     IN  IF problem = "none"
         THEN phase' = "settling" /\ UNCHANGED <<now, req, resp, hooks, count, issued, served, writer>>
         ELSE Reply(problem, FreshChallenges(o, RequestScope, RequestBody), FailedOne(o))

-----------------------------------------------------------------------------
(* The method settles the credential (broadcastCredential).                *)

Problems402 == {"verification-failed", "insufficient", "outcome-unknown"}
Problems == Problems402 \cup {"invalid-payload", "used", "internal"}

\* The retry offers of a failed settlement: the challenge the credential
\* echoes, so that it can be sent again, unless its payload was no good.
RetryFresh(problem, o) ==   \* mutant
  {Challenge(o, p, RequestScope, RequestBody, ExpiryOf(o, since)) : p \in o.requests}
Retry(problem, o) ==
  LET fresh == {Challenge(o, p, RequestScope, RequestBody, ExpiryOf(o, since)) : p \in o.requests}
  IN  CASE problem \in {"used", "internal"} -> {}
        [] problem = "invalid-payload" -> fresh
        [] OTHER -> {c \in fresh : c.request # Presented.echo.request}
                      \cup {Presented.echo}

NotSettled(problem) ==
  /\ phase = "settling"
  /\ Reply(problem, Retry(problem, Offers[at]), FailedOne(Offers[at]))
  /\ UNCHANGED <<at, since>>

\* The handler runs, with a writer that adds the receipt (serveVerified).
Settled ==
  /\ phase = "settling"
  /\ phase' = "serving"
  /\ hooks' = [hooks EXCEPT !.succeeded = FailedOne(Offers[at])]
  /\ served' = served \cup {[challenge |-> Presented.echo, route |-> req.route,
                             via |-> req.via, body |-> RequestBody, at |-> since]}
  /\ \E a \in Adapters, formatted \in BOOLEAN : writer' = NewWriter(a, formatted)
  /\ UNCHANGED <<now, req, at, since, resp, count, issued>>

Serve ==
  /\ phase = "serving"
  /\ HandlerStep
  /\ IF writer'.returned THEN phase' = "ready" ELSE UNCHANGED phase
  /\ UNCHANGED <<now, req, at, since, resp, hooks, count, issued, served>>

Tick ==
  /\ now < MaxClock
  /\ phase \in {"ready", "settling"}
  /\ now' = now + 1
  /\ UNCHANGED <<phase, req, at, since, resp, hooks, count, issued, served, writer>>

-----------------------------------------------------------------------------
Init ==
  /\ now = 0 /\ phase = "ready" /\ count = 0 /\ at = 1 /\ since = 0
  /\ \E r \in DOMAIN Routes :
       req = [route |-> r, via |-> "http", body |-> NoBody,
              field |-> [h \in Headers |-> NoCred]]
  /\ resp = [status |-> 0, problem |-> "none", challenges |-> {}]
  /\ hooks = [created |-> {}, failed |-> FailedNone, succeeded |-> FailedNone]
  /\ issued = {} /\ served = {} /\ writer = NoWriter

Next ==
  \/ Arrive \/ BodyRefused \/ Unread \/ Unpaid \/ NotParsed \/ Unmatched \/ Dispatched
  \/ \E problem \in Problems : NotSettled(problem)
  \/ Settled \/ Serve
  \/ Tick

Spec == Init /\ [][Next]_vars
-----------------------------------------------------------------------------
(* Properties.                                                             *)

TypeOK ==
  /\ now \in 0 .. MaxClock /\ count \in 0 .. MaxRequests
  /\ phase \in {"ready", "reading", "settling", "serving"}
  /\ req.route \in DOMAIN Routes /\ at \in Nat \ {0} /\ since \in 0 .. now
  /\ resp.status \in {0} \cup 400 .. 599
  /\ \A m \in Mpps : hooks.failed[m] \in 0 .. 1 /\ hooks.succeeded[m] \in 0 .. 1

\* A request is served only for a challenge this server handed out, and that
\* had not expired when its offer took the credential, for a request with the
\* same body, at a price its route asks, and in the same HTTP route scope unless
\* the offer binds a scope of its own: a credential cannot be moved to another
\* route, body or price by replaying or altering it.  (Compose binds no
\* scope for MCP.)
ServedAsAsked ==
  \A s \in served :
    \E i \in issued, j \in DOMAIN Routes[s.route] :
      LET o == Routes[s.route][j] IN
      /\ i.challenge = s.challenge /\ i.body = s.body /\ s.at < s.challenge.expires
      /\ s.challenge.method = o.method /\ s.challenge.request \in o.requests
      /\ i.via = s.via \/ o.scope # NoScope
      /\ i.via = "http" /\ o.scope = NoScope => Scope[i.route] = Scope[s.route]

\* No two offers of one method are read from different headers, on any route.
OneHeaderPerMethod ==
  \A r, q \in DOMAIN Routes : \A i \in DOMAIN Routes[r], j \in DOMAIN Routes[q] :
    Routes[r][i].method = Routes[q][j].method => Routes[r][i].auth = Routes[q][j].auth

\* Every challenge of an answer that has not expired can be paid: the
\* credential that echoes it, sent in the header it names with the same
\* request, reaches the payment method.  Issuing and verifying agree on scope,
\* nonce, digest, expiry, header and on the choice among composed offers.
OffersCanBePaid ==
  \A c \in resp.challenges :
    phase = "ready" /\ now < c.expires =>
      LET paid == [echo |-> c, genuine |-> TRUE]
          source == IF req.via = "mcp" THEN "any" ELSE c.header
          i == Matching(Offers, paid, source, RequestScope)
      IN  /\ i # 0
          /\ Refusal(paid, Offers[i], RequestScope, RequestBody) = "none"

\* A credential the payment method has taken on is not answered with a fresh
\* challenge for what it pays, as long as its payload was good: an unknown outcome
\* and a used credential bring no challenge, and any other failure, for the
\* credential's own request, just the challenge it echoes.  (Over HTTP the offer's
\* other requests come along.  A credential sent again after its challenge expired
\* no longer reaches the method, and is answered with a fresh challenge even if its
\* payment went through: verify.go:228.)
SettlingNotRepaid ==
  /\ resp.problem \in {"outcome-unknown", "used", "internal"} => resp.challenges = {}
  /\ resp.problem \in {"verification-failed", "insufficient"} =>
       /\ Presented.echo \in resp.challenges
       /\ \A c \in resp.challenges :
            c # Presented.echo => req.via = "http" /\ c.request # Presented.echo.request

\* The request carries a credential in a header its route reads.
HasCredentialField ==
  IF req.via = "mcp" THEN Presented # NoCred ELSE \E h \in Headers : Read(h) # NoCred

\* Event hooks and answers agree.  ChallengeCreated is called for every challenge
\* of an answer, and for no other but those that MCP, which answers a refused
\* credential with one of them, leaves out (events.go:29 promises that it is
\* never called for these).  PaymentFailed is called once per handler, only when
\* there was a credential, and whenever one was not served, unless the body of
\* its request could not be read; PaymentSucceeded, once when one was served.
HooksAgree ==
  phase = "ready" =>
    /\ resp.challenges \subseteq hooks.created
    /\ resp.challenges = {} => hooks.created = {}
    /\ req.via = "http" \/ resp.problem = "none" => hooks.created = resp.challenges
    /\ \A m \in Mpps : hooks.failed[m] + hooks.succeeded[m] <= 1
    /\ (\E m \in Mpps : hooks.failed[m] = 1) =>
         \E h \in Headers : req.field[h] # NoCred
    /\ HasCredentialField /\ resp.status # 0
         /\ resp.problem \notin {"too-large", "unread-body"} =>
         \E m \in Mpps : hooks.failed[m] = 1
===============================================================================
