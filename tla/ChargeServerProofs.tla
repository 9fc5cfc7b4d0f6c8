-------------------------- MODULE ChargeServerProofs --------------------------
(***************************************************************************)
(* Safety of ChargeServer, with its ReceiptWriter, for any routes, offers, *)
(* handlers, bodies, lifetimes and number of requests.                     *)
(***************************************************************************)
EXTENDS ChargeServer, WellFoundedInduction, TLAPS

\* The scope of the requests to route r.
ScopeOf(r, via) == IF via = "mcp" THEN NoScope ELSE Scope[r]

\* Challenge c was made for an offer of route r, for this scope and body.
OfferedOn(c, r, scope, body) ==
  \E j \in DOMAIN Routes[r] :
    LET o == Routes[r][j] IN
    /\ c.realm = Realm /\ c.method = o.method /\ c.intent = "charge"
    /\ c.request \in o.requests /\ c.meta = Meta(o, scope) /\ c.digest = body
    /\ c.expires \in Nat \ {0}
    /\ OneHeaderPerMethod => c.header = HeaderOf(o)

Typed ==
  /\ now \in 0 .. MaxClock /\ count \in 0 .. MaxRequests
  /\ phase \in {"ready", "reading", "settling", "serving"}
  /\ req.route \in DOMAIN Routes /\ req.via \in {"http", "mcp"}
  /\ at \in Nat \ {0} /\ since \in 0 .. now
  /\ resp.status \in {0} \cup 400 .. 599
  /\ hooks = [created |-> hooks.created, failed |-> hooks.failed,
               succeeded |-> hooks.succeeded]
  /\ hooks.failed \in [Mpps -> 0 .. 1] /\ hooks.succeeded \in [Mpps -> 0 .. 1]

\* What a request carries, a client can have.
FieldInv ==
  phase = "reading" =>
    \A h \in Headers : req.field[h] \in {NoCred, Malformed, Unreadable} \cup Echoes

\* What is settled was accepted for its offer.
SettlingInv ==
  phase = "settling" =>
    /\ at \in DOMAIN Offers
    /\ Presented \in Echoes /\ Presented # NoCred
    /\ BoundTo(Presented, Offers[at]) /\ MetaMatches(Presented, Offers[at], RequestScope)
    /\ Presented.echo.digest = RequestBody /\ since < Presented.echo.expires

IssuedInv ==
  \A i \in issued :
    /\ i.route \in DOMAIN Routes /\ i.via \in {"http", "mcp"}
    /\ OfferedOn(i.challenge, i.route, ScopeOf(i.route, i.via), i.body)

RespInv == \A c \in resp.challenges : OfferedOn(c, req.route, RequestScope, RequestBody)

\* Nothing is answered or reported before the answer, but a success.
HookInv ==
  phase # "ready" =>
    /\ resp.challenges = {} /\ resp.status = 0 /\ resp.problem = "none"
    /\ hooks.created = {} /\ hooks.failed = FailedNone

\* A final status decides the receipt, and a handler that returns has one.
WriterInv ==
  /\ DOMAIN writer = {"adapter", "receipt", "pending", "status", "header", "informed",
                      "sent", "early", "hijacked", "returned"}
  /\ writer.pending # 0 /\ writer.informed = "none"
  /\ writer.early \in BOOLEAN
  /\ writer.early => writer.adapter \in {"gin", "echo"}
  /\ ~writer.early => writer.sent # "handler"
  /\ Success(writer.status) /\ writer.receipt /\ ~writer.early => writer.sent = "ours"
  /\ writer.sent = "ours" => Success(writer.status)
  /\ writer.returned => writer.adapter = "none" \/ writer.hijacked \/ writer.status # 0

IInv ==
  /\ Typed /\ FieldInv /\ SettlingInv /\ IssuedInv /\ RespInv /\ HookInv /\ WriterInv
  /\ HooksAgree /\ SettlingNotRepaid /\ ServedAsAsked

-----------------------------------------------------------------------------
(* The definitions.                                                        *)

LEMMA FirstIsIn ==
  ASSUME NEW S, S \subseteq Nat, S # {}
  PROVE  First(S) \in S
  <1> DEFINE Less == {ss \in Nat \X Nat : ss[1] < ss[2]}
  <1>1. IsWellFoundedOn(Less, Nat)
    BY NatLessThanWellFounded, Zenon DEF OpToRel
  <1>2. PICK x \in S : \A y \in S : <<y, x>> \notin Less
    <2> HIDE DEF Less
    <2> QED
      BY <1>1, WFMin
  <1>3. ASSUME NEW y \in S PROVE x <= y
    <2>1. y \in Nat /\ x \in Nat /\ <<y, x>> \notin Less
      BY <1>2
    <2>2. <<y, x>> \in Nat \X Nat /\ <<y, x>>[1] = y /\ <<y, x>>[2] = x
      BY <2>1
    <2>3. ~(y < x)
      BY <2>1, <2>2, Zenon
    <2> QED
      BY <2>1, <2>3
  <1> QED
    BY <1>3 DEF First

\* A credential that is not refused by every offer is sent to one of them.
LEMMA MatchingIsIn ==
  ASSUME NEW offers, DOMAIN offers \subseteq Nat, NEW c, NEW source, NEW scope,
         Matching(offers, c, source, scope) # 0
  PROVE  Matching(offers, c, source, scope) \in DOMAIN offers
  <1> DEFINE readers == {i \in DOMAIN offers : Accepts(source, offers[i])}
             similar == {i \in readers : OffersIntent(offers[i], c)}
             exact == {i \in similar : /\ MetaMatches(c, offers[i], scope)
                                       /\ c.echo.request \in offers[i].requests}
             named == {i \in readers : c.echo.method = offers[i].method}
  <1>1. Matching(offers, c, source, scope) =
          IF exact # {} THEN First(exact)
          ELSE IF similar # {} THEN First(similar)
          ELSE IF named # {} THEN First(named) ELSE 0
    BY DEF Matching
  <1>2. exact \subseteq Nat /\ similar \subseteq Nat /\ named \subseteq Nat
    OBVIOUS
  <1>3. /\ exact # {} => First(exact) \in exact
        /\ similar # {} => First(similar) \in similar
        /\ named # {} => First(named) \in named
    <2> HIDE DEF exact, similar, named
    <2> QED
      BY <1>2, FirstIsIn
  <1> QED
    BY <1>1, <1>3

\* A credential that matches an offer exactly is sent to one it matches.
LEMMA MatchingIsExactly ==
  ASSUME NEW offers, DOMAIN offers \subseteq Nat, NEW c, NEW source, NEW scope,
         NEW j \in DOMAIN offers, Accepts(source, offers[j]), OffersIntent(offers[j], c),
         MetaMatches(c, offers[j], scope), c.echo.request \in offers[j].requests
  PROVE  LET i == Matching(offers, c, source, scope) IN
         /\ i \in DOMAIN offers /\ OffersIntent(offers[i], c)
         /\ MetaMatches(c, offers[i], scope) /\ c.echo.request \in offers[i].requests
  <1> DEFINE readers == {i \in DOMAIN offers : Accepts(source, offers[i])}
             similar == {i \in readers : OffersIntent(offers[i], c)}
             exact == {i \in similar : /\ MetaMatches(c, offers[i], scope)
                                       /\ c.echo.request \in offers[i].requests}
  <1>1. j \in exact /\ exact \subseteq Nat
    OBVIOUS
  <1>2. Matching(offers, c, source, scope) = First(exact)
    BY <1>1 DEF Matching
  <1>3. First(exact) \in exact
    <2> HIDE DEF exact
    <2> QED
      BY <1>1, FirstIsIn
  <1> QED
    BY <1>2, <1>3

\* What is read of a request depends on nothing else.
LEMMA SameRequest ==
  ASSUME UNCHANGED req
  PROVE  /\ Offers' = Offers /\ Presented' = Presented /\ RequestScope' = RequestScope
         /\ RequestBody' = RequestBody /\ HasCredentialField' = HasCredentialField
         /\ Source' = Source
  BY DEF Offers, Presented, RequestScope, RequestBody, HasCredentialField, Source, Read, HeaderOf

LEMMA RouteOffers ==
  ASSUME Typed
  PROVE  /\ DOMAIN Offers \subseteq Nat \ {0} /\ DOMAIN Offers # {}
         /\ \A j \in DOMAIN Offers : IsOffer(Offers[j])
         /\ RequestScope = ScopeOf(req.route, req.via)
  BY RoutesAssumption DEF Typed, Offers, RequestScope, ScopeOf

\* A credential that is bound to an offer echoes a challenge of this server's.
LEMMA EchoIssued ==
  ASSUME NEW c \in Echoes, NEW o, BoundTo(c, o)
  PROVE  \E i \in issued : i.challenge = c.echo
  BY ElsewhereAssumption DEF Echoes, Genuine, BoundTo, IdMatches

\* An offer's challenges are made for it.
LEMMA FreshOffered ==
  ASSUME Typed, NEW j \in DOMAIN Offers, NEW t \in Nat, NEW p \in Offers[j].requests
  PROVE  OfferedOn(Challenge(Offers[j], p, RequestScope, RequestBody, ExpiryOf(Offers[j], t)),
                   req.route, RequestScope, RequestBody)
  <1>1. ExpiryOf(Offers[j], t) \in Nat \ {0}
    BY RouteOffers, ServerBounds DEF ExpiryOf, IsOffer
  <1> QED
    BY <1>1 DEF OfferedOn, Challenge, Offers

LEMMA AllFreshOffered ==
  ASSUME Typed, NEW j \in DOMAIN Offers
  PROVE  \A c \in FreshChallenges(Offers[j], RequestScope, RequestBody) :
           OfferedOn(c, req.route, RequestScope, RequestBody)
  <1>1. now \in Nat
    BY DEF Typed
  <1> QED
    BY <1>1, FreshOffered DEF FreshChallenges

\* MCP has challenges that HTTP could write too.
LEMMA McpSerializable ==
  ASSUME Typed, req.via = "mcp",
         NEW c, OfferedOn(c, req.route, RequestScope, RequestBody)
  PROVE  Serializable(c)
  <1>1. PICK j \in DOMAIN Routes[req.route] : c.meta = Meta(Routes[req.route][j], NoScope)
    BY DEF OfferedOn, RequestScope
  <1>2. Routes[req.route][j].scope # LongScope /\ NoScope # LongScope
    BY ScopesAssumption DEF Typed
  <1> QED
    BY <1>1, <1>2 DEF Serializable, Meta

\* The retry offers of a credential that was not settled.
OwnIsEcho(challenges) ==
  /\ Presented.echo \in challenges
  /\ \A c \in challenges : c # Presented.echo => c.request # Presented.echo.request

\* What goes out is what is reported: all of an answer's challenges, or none, or
\* over MCP one of them.
Fits(a, problem, challenges) ==
  LET created == Reported(problem, challenges) IN
  /\ a.challenges \subseteq challenges /\ a.challenges \subseteq created
  /\ a.challenges = {} => created = {}
  /\ req.via = "http" \/ a.problem = "none" => created = a.challenges
  /\ a.problem \in {problem, "too-long"} /\ a.status = Status(a.problem)
  /\ a.status \in 400 .. 599
  /\ problem = "outcome-unknown" \/ challenges = {} =>
       a.problem = problem /\ a.challenges = {}
  /\ a.problem = problem /\ problem \in {"verification-failed", "insufficient"}
       /\ OwnIsEcho(challenges) =>
       /\ Presented.echo \in a.challenges
       /\ req.via = "mcp" => a.challenges = {Presented.echo}

LEMMA AnswerFacts ==
  ASSUME req.via \in {"http", "mcp"}, NEW problem, problem # "too-long", NEW challenges,
         req.via = "mcp" => \A c \in challenges : Serializable(c),
         NEW delivered \in Delivered(problem, challenges)
  PROVE  Fits(Answer(problem, delivered), problem, challenges)
  <1> USE DEF Fits
  <1> DEFINE a == Answer(problem, delivered)
             own == Own(problem, challenges)
  <1>1. /\ a.problem \in {problem, "too-long"} /\ a.status = Status(a.problem)
        /\ a.status \in 400 .. 599
    BY DEF Answer, Status
  <1>2. CASE Withheld(problem) \/ challenges = {}
    <2>1. delivered = {}
      BY <1>2 DEF Delivered
    <2>2. a.problem = problem /\ a.challenges = {}
      BY <2>1 DEF Answer
    <2>3. Reported(problem, challenges) = {}
      BY <1>2 DEF Reported, Withheld
    <2> QED
      BY <1>1, <1>2, <2>2, <2>3 DEF Withheld, OwnIsEcho
  <1>3. CASE ~(Withheld(problem) \/ challenges = {}) /\ (req.via = "http" \/ problem = "none")
    <2>1. delivered = challenges
      BY <1>3 DEF Delivered
    <2>2. a.challenges = Reported(problem, challenges) /\ a.challenges \subseteq challenges
      BY <1>3, <2>1 DEF Answer, Reported, Withheld
    <2>3. a.problem = problem => a.challenges = challenges
      BY <2>1 DEF Answer
    <2>4. req.via = "http" \/ problem \notin {"verification-failed", "insufficient"}
      BY <1>3
    <2> QED
      BY <1>1, <1>3, <2>2, <2>3, <2>4 DEF Withheld, OwnIsEcho
  <1>4. CASE ~(Withheld(problem) \/ challenges = {}) /\ req.via = "mcp" /\ problem # "none"
    <2>1. PICK c \in challenges : delivered = {c} /\ (own # {} => c \in own)
      BY <1>4 DEF Delivered, Own
    <2>2. a.problem = problem /\ a.challenges = {c}
      BY <1>4, <2>1 DEF Answer
    <2>3. Reported(problem, challenges) = challenges
      BY <1>4 DEF Reported, Withheld
    <2>4. ASSUME problem \in {"verification-failed", "insufficient"}, OwnIsEcho(challenges)
          PROVE  c = Presented.echo
      BY <2>1, <2>4 DEF Own, OwnIsEcho
    <2> QED
      BY <1>1, <1>4, <2>2, <2>3, <2>4 DEF Withheld
  <1> QED
    BY <1>2, <1>3, <1>4

-----------------------------------------------------------------------------
(* Answers.                                                                *)

\* What every answer of the server is like.
Allowed(problem, challenges, failed) ==
  /\ problem # "too-long"
  /\ \A c \in challenges : OfferedOn(c, req.route, RequestScope, RequestBody)
  /\ problem \in {"used", "internal", "too-large", "unread-body"} => challenges = {}
  /\ problem \in {"verification-failed", "insufficient"} => OwnIsEcho(challenges)
  /\ failed \in [Mpps -> 0 .. 1]
  /\ (\E m \in Mpps : failed[m] = 1) => \E h \in Headers : req.field[h] # NoCred
  /\ HasCredentialField /\ problem \notin {"too-large", "unread-body"} =>
       \E m \in Mpps : failed[m] = 1

Replies ==
  \E problem, challenges, failed :
    Reply(problem, challenges, failed) /\ Allowed(problem, challenges, failed)

LEMMA Failures ==
  ASSUME Typed
  PROVE  /\ FailedNone \in [Mpps -> 0 .. 1] /\ \A m \in Mpps : FailedNone[m] = 0
         /\ FailedAll \in [Mpps -> 0 .. 1] /\ \E m \in Mpps : FailedAll[m] = 1
         /\ \A j \in DOMAIN Offers :
              /\ FailedOne(Offers[j]) \in [Mpps -> 0 .. 1]
              /\ \E m \in Mpps : FailedOne(Offers[j])[m] = 1
              /\ \A m \in Mpps : FailedOne(Offers[j])[m] \in 0 .. 1
  <1>1. FailedNone \in [Mpps -> 0 .. 1] /\ \A m \in Mpps : FailedNone[m] = 0
    BY DEF FailedNone
  <1>2. \A j \in DOMAIN Offers : Offers[j].mpp \in Mpps
    BY RouteOffers DEF IsOffer
  <1>3. FailedAll \in [Mpps -> 0 .. 1] /\ \E m \in Mpps : FailedAll[m] = 1
    BY <1>2, RouteOffers DEF FailedAll
  <1>4. ASSUME NEW j \in DOMAIN Offers
        PROVE  /\ FailedOne(Offers[j]) \in [Mpps -> 0 .. 1]
               /\ FailedOne(Offers[j])[Offers[j].mpp] = 1
               /\ \A m \in Mpps : FailedOne(Offers[j])[m] \in 0 .. 1
    BY <1>2 DEF FailedOne
  <1> QED
    BY <1>1, <1>2, <1>3, <1>4

\* An answer of that kind preserves the invariant.
LEMMA RepliesKeep ==
  ASSUME IInv, Replies, at' \in Nat \ {0}, since' \in 0 .. now
  PROVE  IInv'
  <1> USE DEF IInv
  <1>1. PICK problem, challenges, failed :
          Reply(problem, challenges, failed) /\ Allowed(problem, challenges, failed)
    BY DEF Replies
  <1>2. /\ phase' = "ready"
        /\ hooks' = [created |-> Reported(problem, challenges), failed |-> failed, succeeded |-> FailedNone]
        /\ issued' = issued \cup
             {[challenge |-> c, route |-> req.route, via |-> req.via, body |-> RequestBody] :
                c \in resp'.challenges}
        /\ UNCHANGED <<now, req, count, served, writer>>
    BY <1>1 DEF Reply
  <1>3. PICK a : resp' = a /\ Fits(a, problem, challenges)
    <2>1. PICK delivered \in Delivered(problem, challenges) : resp' = Answer(problem, delivered)
      BY <1>1 DEF Reply
    <2>2. req.via = "mcp" => \A c \in challenges : Serializable(c)
      BY <1>1, McpSerializable DEF Allowed
    <2>3. req.via \in {"http", "mcp"} /\ problem # "too-long"
      BY <1>1 DEF Typed, Allowed
    <2> QED
      BY <2>1, <2>2, <2>3, AnswerFacts
  <1> USE DEF Fits
  <1>4. /\ Offers' = Offers /\ Presented' = Presented /\ RequestScope' = RequestScope
        /\ RequestBody' = RequestBody /\ HasCredentialField' = HasCredentialField
    BY <1>2, SameRequest
  <1>5. Typed'
    BY <1>1, <1>2, <1>3, Failures DEF Typed, Allowed
  <1>6. FieldInv' /\ SettlingInv' /\ HookInv'
    BY <1>2 DEF FieldInv, SettlingInv, HookInv
  <1>7. RespInv'
    BY <1>1, <1>2, <1>3, <1>4 DEF RespInv, Allowed
  <1>8. IssuedInv'
    <2>1. \A c \in resp'.challenges :
            OfferedOn(c, req.route, ScopeOf(req.route, req.via), RequestBody)
      BY <1>1, <1>2, <1>3, RouteOffers DEF Allowed
    <2> QED
      BY <1>2, <2>1 DEF IssuedInv, Typed
  <1>9. WriterInv'
    BY <1>2 DEF WriterInv, Success
  <1>10. HooksAgree'
    <2>1. /\ resp'.challenges \subseteq hooks'.created
          /\ resp'.challenges = {} => hooks'.created = {}
          /\ req'.via = "http" \/ resp'.problem = "none" => hooks'.created = resp'.challenges
      BY <1>2, <1>3
    <2>2. \A m \in Mpps : hooks'.failed[m] + hooks'.succeeded[m] <= 1
      BY <1>1, <1>2, Failures DEF Allowed
    <2>3. (\E m \in Mpps : hooks'.failed[m] = 1) => \E h \in Headers : req'.field[h] # NoCred
      BY <1>1, <1>2 DEF Allowed
    <2>4. ASSUME HasCredentialField', resp'.problem \notin {"too-large", "unread-body"}
          PROVE  \E m \in Mpps : hooks'.failed[m] = 1
      <3>1. problem \notin {"too-large", "unread-body"}
        BY <1>1, <1>3, <2>4 DEF Allowed
      <3> QED
        BY <1>1, <1>2, <1>4, <2>4, <3>1 DEF Allowed
    <2> QED
      BY <2>1, <2>2, <2>3, <2>4 DEF HooksAgree, Headers
  <1>11. SettlingNotRepaid'
    <2>1. resp'.problem \in {"outcome-unknown", "used", "internal"} => resp'.challenges = {}
      BY <1>1, <1>3 DEF Allowed
    <2>2. ASSUME resp'.problem \in {"verification-failed", "insufficient"}
          PROVE  /\ Presented.echo \in resp'.challenges
                 /\ \A c \in resp'.challenges :
                      c # Presented.echo =>
                        req.via = "http" /\ c.request # Presented.echo.request
      <3>1. resp'.problem = problem /\ OwnIsEcho(challenges)
        BY <1>1, <1>3, <2>2 DEF Allowed
      <3>2. req.via \in {"http", "mcp"}
        BY DEF Typed
      <3> QED
        BY <1>3, <2>2, <3>1, <3>2 DEF OwnIsEcho
    <2> QED
      BY <1>2, <1>4, <2>1, <2>2 DEF SettlingNotRepaid
  <1>12. ServedAsAsked'
    BY <1>2 DEF ServedAsAsked
  <1> QED
    BY <1>5, <1>6, <1>7, <1>8, <1>9, <1>10, <1>11, <1>12

\* The header that is read is one the request has.
LEMMA PresentedIsHeld ==
  ASSUME Typed, Presented # NoCred
  PROVE  \E h \in Headers : Presented = req.field[h]
  BY DEF Typed, Presented, Source, Read, Headers

\* No credential is read from a request in which none can be.
LEMMA NothingPresented ==
  ASSUME Typed, Readable, Presented = NoCred
  PROVE  ~HasCredentialField
  <1>1. CASE req.via = "mcp"
    BY <1>1 DEF HasCredentialField
  <1>2. CASE req.via = "http"
    <2>1. \E h \in Headers : Read(h) = NoCred
      BY <1>2 DEF Readable, Unreadables
    <2>2. Read(Source) = NoCred /\ Source \in Headers
      BY <1>2 DEF Presented, Source, Headers
    <2>3. Read("Payment-Authorization") = NoCred /\ Read("Authorization") = NoCred
      BY <1>2, <2>2 DEF Source, Headers
    <2> QED
      BY <1>2, <2>3 DEF HasCredentialField, Headers
  <1> QED
    BY <1>1, <1>2 DEF Typed

LEMMA AllOffersReplies ==
  ASSUME Typed, NEW problem \in {"none", "malformed", "invalid-challenge"}, NEW failed,
         ReplyAllOffers(problem, failed), failed \in [Mpps -> 0 .. 1],
         (\E m \in Mpps : failed[m] = 1) => \E h \in Headers : req.field[h] # NoCred,
         HasCredentialField => \E m \in Mpps : failed[m] = 1
  PROVE  Replies
  <1>1. CASE Reply("internal", {}, failed)
    <2>1. Allowed("internal", {}, failed)
      BY DEF Allowed
    <2> QED
      BY <1>1, <2>1 DEF Replies
  <1>2. CASE Reply(problem, UNION {FreshChallenges(Offers[i], RequestScope, RequestBody) :
                                     i \in DOMAIN Offers}, failed)
    <2>1. PICK all : all = UNION {FreshChallenges(Offers[i], RequestScope, RequestBody) :
                                    i \in DOMAIN Offers}
      OBVIOUS
    <2>2. \A c \in all : OfferedOn(c, req.route, RequestScope, RequestBody)
      BY <2>1, AllFreshOffered
    <2>3. Allowed(problem, all, failed)
      BY <2>2 DEF Allowed
    <2>4. Reply(problem, all, failed)
      BY <1>2, <2>1
    <2> QED
      BY <2>3, <2>4 DEF Replies
  <1> QED
    BY <1>1, <1>2 DEF ReplyAllOffers

LEMMA RetryReplies ==
  ASSUME Typed, NEW problem \in {"malformed", "invalid-challenge"},
         NEW similar, similar \subseteq DOMAIN Offers, ReplyRetry(problem, similar),
         \E h \in Headers : req.field[h] # NoCred
  PROVE  Replies
  <1> DEFINE some == {i \in similar : Issuable(Offers[i])}
  <1>1. PICK failed : failed = FailedAll
    OBVIOUS
  <1>2. failed \in [Mpps -> 0 .. 1] /\ \E m \in Mpps : failed[m] = 1
    BY <1>1, Failures
  <1>3. CASE some = {}
    <2>1. ReplyAllOffers(problem, failed)
      BY <1>1, <1>3 DEF ReplyRetry
    <2> QED
      BY <1>2, <2>1, AllOffersReplies
  <1>4. CASE some # {}
    <2>1. PICK all : all = UNION {FreshChallenges(Offers[i], RequestScope, RequestBody) :
                                    i \in some}
      OBVIOUS
    <2>2. \A c \in all : OfferedOn(c, req.route, RequestScope, RequestBody)
      BY <2>1, AllFreshOffered
    <2>3. Allowed(problem, all, failed)
      BY <1>2, <2>2 DEF Allowed
    <2>4. Reply(problem, all, failed)
      BY <1>1, <1>4, <2>1 DEF ReplyRetry
    <2> QED
      BY <2>3, <2>4 DEF Replies
  <1> QED
    BY <1>3, <1>4

-----------------------------------------------------------------------------
(* The steps that answer.                                                  *)

LEMMA BodyRefusedReplies ==
  ASSUME Typed, BodyRefused
  PROVE  Replies
  <1>1. PICK failed : failed = FailedNone
    OBVIOUS
  <1>2. Allowed("too-large", {}, failed) /\ Allowed("unread-body", {}, failed)
    BY <1>1, Failures DEF Allowed
  <1>3. Reply("too-large", {}, failed) \/ Reply("unread-body", {}, failed)
    BY <1>1 DEF BodyRefused
  <1> QED
    BY <1>2, <1>3 DEF Replies

LEMMA UnreadReplies ==
  ASSUME Typed, Unread
  PROVE  Replies
  <1>1. PICK failed : failed = FailedAll
    OBVIOUS
  <1>2. \E h \in Headers : req.field[h] # NoCred
    BY HeaderValuesAssumption DEF Unread, Unreadables, Read, Headers
  <1>3. Allowed("bad-request", {}, failed)
    BY <1>1, <1>2, Failures DEF Allowed
  <1>4. Reply("bad-request", {}, failed)
    BY <1>1 DEF Unread
  <1> QED
    BY <1>3, <1>4 DEF Replies

LEMMA UnpaidReplies ==
  ASSUME Typed, Unpaid
  PROVE  Replies
  <1>1. PICK failed : failed = FailedNone
    OBVIOUS
  <1>2. ~HasCredentialField
    BY NothingPresented DEF Unpaid
  <1>3. failed \in [Mpps -> 0 .. 1] /\ ~ \E m \in Mpps : failed[m] = 1
    BY <1>1, Failures
  <1>4. ReplyAllOffers("none", failed)
    BY <1>1 DEF Unpaid
  <1> QED
    BY <1>2, <1>3, <1>4, AllOffersReplies

LEMMA NotParsedReplies ==
  ASSUME Typed, NotParsed
  PROVE  Replies
  <1>1. \E h \in Headers : req.field[h] # NoCred
    BY PresentedIsHeld, HeaderValuesAssumption DEF NotParsed
  <1> QED
    BY <1>1, RetryReplies DEF NotParsed

LEMMA UnmatchedReplies ==
  ASSUME Typed, Unmatched
  PROVE  Replies
  <1>1. \E h \in Headers : req.field[h] # NoCred
    BY PresentedIsHeld DEF Unmatched, HasCredential
  <1>2. PICK similar : similar = {i \in DOMAIN Offers : OffersIntent(Offers[i], Presented)}
    OBVIOUS
  <1>3. CASE ReplyRetry("malformed", similar)
    BY <1>1, <1>2, <1>3, RetryReplies
  <1>4. CASE ReplyRetry("invalid-challenge", similar)
    BY <1>1, <1>2, <1>4, RetryReplies
  <1>5. CASE Reply("unsupported", {}, FailedAll)
    <2>1. PICK failed : failed = FailedAll
      OBVIOUS
    <2>2. Allowed("unsupported", {}, failed)
      BY <1>1, <2>1, Failures DEF Allowed
    <2>3. Reply("unsupported", {}, failed)
      BY <1>5, <2>1
    <2> QED
      BY <2>2, <2>3 DEF Replies
  <1> QED
    BY <1>2, <1>3, <1>4, <1>5 DEF Unmatched

\* What an offer accepts was offered, and can be offered again for it.
LEMMA BoundIsOffered ==
  ASSUME Typed, IssuedInv, NEW j \in DOMAIN Offers, NEW c \in Echoes,
         BoundTo(c, Offers[j])
  PROVE  /\ c.echo.expires \in Nat \ {0}
         /\ MetaMatches(c, Offers[j], RequestScope) /\ c.echo.digest = RequestBody =>
              OfferedOn(c.echo, req.route, RequestScope, RequestBody)
  <1>1. PICK i \in issued : i.challenge = c.echo
    BY EchoIssued
  <1>2. /\ i.route \in DOMAIN Routes
        /\ OfferedOn(c.echo, i.route, ScopeOf(i.route, i.via), i.body)
    BY <1>1 DEF IssuedInv
  <1>3. PICK k \in DOMAIN Routes[i.route] :
          /\ c.echo.method = Routes[i.route][k].method /\ c.echo.expires \in Nat \ {0}
          /\ OneHeaderPerMethod => c.echo.header = HeaderOf(Routes[i.route][k])
    BY <1>2 DEF OfferedOn
  <1>4. /\ c.echo.realm = Realm /\ c.echo.method = Offers[j].method
        /\ c.echo.intent = "charge" /\ c.echo.request \in Offers[j].requests
    BY DEF BoundTo
  <1>5. OneHeaderPerMethod => c.echo.header = HeaderOf(Offers[j])
    <2>1. /\ req.route \in DOMAIN Routes /\ j \in DOMAIN Routes[req.route]
          /\ Routes[i.route][k].method = Routes[req.route][j].method
      BY <1>3, <1>4 DEF Offers, Typed
    <2>2. OneHeaderPerMethod => Routes[i.route][k].auth = Routes[req.route][j].auth
      BY <1>2, <2>1, Zenon DEF OneHeaderPerMethod
    <2> QED
      BY <1>3, <2>2 DEF HeaderOf, Offers
  <1>6. ASSUME MetaMatches(c, Offers[j], RequestScope), c.echo.digest = RequestBody
        PROVE  OfferedOn(c.echo, req.route, RequestScope, RequestBody)
    BY <1>3, <1>4, <1>5, <1>6 DEF OfferedOn, MetaMatches, Offers
  <1> QED
    BY <1>3, <1>6

LEMMA RefusalFacts ==
  ASSUME NEW c, NEW o, NEW scope, NEW body, c.echo.request # Garbage
  PROVE  /\ Refusal(c, o, scope, body) \in {"invalid-challenge", "expired", "none"}
         /\ Refusal(c, o, scope, body) = "none" <=>
              BoundTo(c, o) /\ ~Expired(c) /\ MetaMatches(c, o, scope)
                /\ c.echo.digest = body
  <1>1. CASE ~BoundTo(c, o)
    BY <1>1 DEF Refusal
  <1>2. CASE BoundTo(c, o) /\ Expired(c)
    BY <1>2 DEF Refusal
  <1>3. CASE BoundTo(c, o) /\ ~Expired(c) /\ ~(MetaMatches(c, o, scope) /\ c.echo.digest = body)
    BY <1>3 DEF Refusal
  <1>4. CASE BoundTo(c, o) /\ ~Expired(c) /\ MetaMatches(c, o, scope) /\ c.echo.digest = body
    BY <1>4 DEF Refusal
  <1> QED
    BY <1>1, <1>2, <1>3, <1>4

LEMMA DispatchedKeeps ==
  ASSUME IInv, Dispatched
  PROVE  IInv'
  <1> USE DEF IInv
  <1>1. PICK j : j = Match
    OBVIOUS
  <1>2. j \in DOMAIN Offers /\ j \in Nat \ {0}
    BY <1>1, RouteOffers, MatchingIsIn DEF Dispatched, Match
  <1>3. Presented # NoCred /\ Presented \in Echoes /\ Presented.echo.request # Garbage
    BY PresentedIsHeld DEF Dispatched, HasCredential, Readable, FieldInv, Garbled
  <1>4. at' = j /\ since' = now /\ now \in Nat
    BY <1>1 DEF Dispatched, Typed
  <1>5. PICK problem : problem = Refusal(Presented, Offers[j], RequestScope, RequestBody)
    OBVIOUS
  <1>6. problem \in {"invalid-challenge", "expired", "none"}
    BY <1>3, <1>5, RefusalFacts
  <1>7. CASE problem # "none"
    <2>1. PICK all : all = FreshChallenges(Offers[j], RequestScope, RequestBody)
      OBVIOUS
    <2>2. PICK failed : failed = FailedOne(Offers[j])
      OBVIOUS
    <2>3. Allowed(problem, all, failed)
      <3>1. \A c \in all : OfferedOn(c, req.route, RequestScope, RequestBody)
        BY <1>2, <2>1, AllFreshOffered
      <3>2. failed \in [Mpps -> 0 .. 1] /\ \E m \in Mpps : failed[m] = 1
        BY <1>2, <2>2, Failures
      <3>3. \E h \in Headers : req.field[h] # NoCred
        BY <1>3, PresentedIsHeld
      <3> QED
        BY <1>6, <1>7, <3>1, <3>2, <3>3 DEF Allowed
    <2>4. Reply(problem, all, failed)
      BY <1>1, <1>5, <1>7, <2>1, <2>2 DEF Dispatched
    <2>5. since' \in 0 .. now
      BY <1>4
    <2> QED
      BY <1>2, <1>4, <2>3, <2>4, <2>5, RepliesKeep DEF Replies
  <1>8. CASE problem = "none"
    <2>1. /\ phase = "reading" /\ phase' = "settling"
          /\ UNCHANGED <<now, req, resp, hooks, count, issued, served, writer>>
      BY <1>1, <1>5, <1>8 DEF Dispatched, HasCredential, Readable
    <2>2. /\ BoundTo(Presented, Offers[j]) /\ ~Expired(Presented)
          /\ MetaMatches(Presented, Offers[j], RequestScope)
          /\ Presented.echo.digest = RequestBody
      <3>1. Refusal(Presented, Offers[j], RequestScope, RequestBody) = "none"
        BY <1>5, <1>8
      <3> QED
        BY <1>3, <3>1, RefusalFacts, Zenon
    <2>3. now < Presented.echo.expires
      BY <1>2, <1>3, <1>4, <2>2, BoundIsOffered DEF Expired
    <2>4. /\ Offers' = Offers /\ Presented' = Presented /\ RequestScope' = RequestScope
          /\ RequestBody' = RequestBody
      BY <2>1, SameRequest
    <2>5. Typed' /\ FieldInv' /\ HookInv' /\ WriterInv' /\ IssuedInv' /\ ServedAsAsked'
      BY <1>2, <1>4, <2>1
      DEF Typed, FieldInv, HookInv, WriterInv, Success, IssuedInv, ServedAsAsked, FailedNone
    <2>6. RespInv' /\ SettlingNotRepaid' /\ HooksAgree'
      BY <2>1, <2>4 DEF RespInv, SettlingNotRepaid, HooksAgree, HookInv, Problems402
    <2>7. SettlingInv'
      <3>1. Echoes' = Echoes
        BY <2>1 DEF Echoes, Genuine
      <3>2. Offers'[at'] = Offers[j]
        BY <1>4, <2>4
      <3> QED
        BY <1>2, <1>3, <1>4, <2>2, <2>3, <2>4, <3>1, <3>2
        DEF SettlingInv, BoundTo, IdMatches, MetaMatches
    <2> QED
      BY <2>5, <2>6, <2>7
  <1> QED
    BY <1>7, <1>8

LEMMA NotSettledReplies ==
  ASSUME IInv, NEW problem \in Problems, NotSettled(problem)
  PROVE  Replies
  <1> USE DEF IInv
  <1>1. PICK o : o = Offers[at]
    OBVIOUS
  <1>2. /\ at \in DOMAIN Offers /\ Presented \in Echoes /\ Presented # NoCred
        /\ BoundTo(Presented, o) /\ MetaMatches(Presented, o, RequestScope)
        /\ Presented.echo.digest = RequestBody /\ since \in Nat
    BY <1>1 DEF NotSettled, SettlingInv, Typed
  <1>3. PICK all : all = Retry(problem, o)
    OBVIOUS
  <1>4. PICK failed : failed = FailedOne(o)
    OBVIOUS
  <1> DEFINE fresh == {Challenge(o, p, RequestScope, RequestBody, ExpiryOf(o, since)) :
                         p \in o.requests}
  <1>5. \A c \in fresh : OfferedOn(c, req.route, RequestScope, RequestBody)
    BY <1>1, <1>2, FreshOffered
  <1>6. OfferedOn(Presented.echo, req.route, RequestScope, RequestBody)
    BY <1>1, <1>2, BoundIsOffered
  <1>7. /\ \A c \in all : c \in fresh \/ c = Presented.echo
        /\ problem \in {"used", "internal"} => all = {}
        /\ problem \in {"verification-failed", "insufficient"} => OwnIsEcho(all)
    <2>1. CASE problem \in {"used", "internal"}
      BY <1>3, <2>1 DEF Retry
    <2>2. CASE problem = "invalid-payload"
      BY <1>3, <2>2 DEF Retry
    <2>3. CASE problem \notin {"used", "internal", "invalid-payload"}
      <3>1. all = {c \in fresh : c.request # Presented.echo.request} \cup {Presented.echo}
        BY <1>3, <2>3 DEF Retry
      <3> QED
        BY <2>3, <3>1 DEF OwnIsEcho
    <2> QED
      BY <2>1, <2>2, <2>3
  <1>8. failed \in [Mpps -> 0 .. 1] /\ \E m \in Mpps : failed[m] = 1
    BY <1>1, <1>2, <1>4, Failures
  <1>9. \E h \in Headers : req.field[h] # NoCred
    BY <1>2, PresentedIsHeld
  <1>10. Allowed(problem, all, failed)
    <2> HIDE DEF fresh
    <2> QED
      BY <1>5, <1>6, <1>7, <1>8, <1>9 DEF Allowed, Problems, Problems402
  <1>11. Reply(problem, all, failed)
    BY <1>1, <1>3, <1>4 DEF NotSettled
  <1> QED
    BY <1>10, <1>11 DEF Replies

-----------------------------------------------------------------------------
(* The other steps.                                                        *)

LEMMA ArriveKeeps ==
  ASSUME IInv, Arrive
  PROVE  IInv'
  <1> USE DEF IInv
  <1>1. PICK r \in DOMAIN Routes, via \in {"http", "mcp"}, b \in Bodies, h \in Headers,
             v \in {NoCred, Malformed, Unreadable} \cup Echoes :
          \E w \in {NoCred, v} :
            req' = [route |-> r, via |-> via, body |-> b,
                    field |-> [g \in Headers |-> IF g = h THEN v ELSE w]]
    BY DEF Arrive
  <1>2. /\ phase' = "reading" /\ count' = count + 1 /\ count < MaxRequests
        /\ resp' = [status |-> 0, problem |-> "none", challenges |-> {}]
        /\ hooks' = [created |-> {}, failed |-> FailedNone, succeeded |-> FailedNone]
        /\ writer' = NoWriter /\ UNCHANGED <<now, at, since, issued, served>>
    BY DEF Arrive
  <1>3. Typed'
    BY <1>1, <1>2, Failures, ServerBounds DEF Typed
  <1>4. FieldInv'
    <2>1. Echoes' = Echoes
      BY <1>2 DEF Echoes, Genuine
    <2> QED
      BY <1>1, <1>2, <2>1 DEF FieldInv
  <1>5. SettlingInv' /\ HooksAgree' /\ RespInv' /\ HookInv'
    BY <1>2 DEF SettlingInv, HooksAgree, RespInv, HookInv, FailedNone
  <1>6. WriterInv'
    BY <1>2 DEF WriterInv, NoWriter
  <1>7. IssuedInv' /\ ServedAsAsked' /\ SettlingNotRepaid'
    BY <1>2 DEF IssuedInv, ServedAsAsked, SettlingNotRepaid, Problems402
  <1> QED
    BY <1>3, <1>4, <1>5, <1>6, <1>7

\* What is served was offered with the same body, in the same scope.
LEMMA SettledIsAsked ==
  ASSUME Typed, IssuedInv, SettlingInv, phase = "settling"
  PROVE  \E i \in issued, j \in DOMAIN Offers :
           LET o == Offers[j] IN
           /\ i.challenge = Presented.echo /\ i.body = RequestBody
           /\ Presented.echo.method = o.method /\ Presented.echo.request \in o.requests
           /\ i.via = req.via \/ o.scope # NoScope
           /\ i.via = "http" /\ o.scope = NoScope => Scope[i.route] = Scope[req.route]
  <1> DEFINE o == Offers[at]
  <1>1. /\ at \in DOMAIN Offers /\ Presented \in Echoes /\ BoundTo(Presented, o)
        /\ Presented.echo.meta = Meta(o, RequestScope) /\ Presented.echo.digest = RequestBody
    BY DEF SettlingInv, MetaMatches
  <1>2. PICK i \in issued : i.challenge = Presented.echo
    BY <1>1, EchoIssued
  <1>3. /\ i.route \in DOMAIN Routes /\ i.via \in {"http", "mcp"}
        /\ OfferedOn(i.challenge, i.route, ScopeOf(i.route, i.via), i.body)
    BY DEF IssuedInv
  <1>4. PICK k \in DOMAIN Routes[i.route] :
          /\ i.challenge.meta = Meta(Routes[i.route][k], ScopeOf(i.route, i.via))
          /\ i.challenge.digest = i.body
    BY <1>3 DEF OfferedOn
  <1>5. ASSUME o.scope = NoScope
        PROVE  /\ i.via = req.via
               /\ i.via = "http" => Scope[i.route] = Scope[req.route]
    <2>1. Presented.echo.meta = ScopeOf(req.route, req.via)
      BY <1>1, <1>5, RouteOffers DEF Meta
    <2>2. Meta(Routes[i.route][k], ScopeOf(i.route, i.via)) = ScopeOf(req.route, req.via)
      BY <1>2, <1>4, <2>1
    <2>3. /\ Scope[req.route] # NoScope /\ Scope[i.route] # NoScope
          /\ Scope[req.route] # Routes[i.route][k].scope
      BY <1>3, ScopesAssumption DEF Typed
    <2>4. Routes[i.route][k].scope = NoScope
      BY <2>2, <2>3 DEF Meta, ScopeOf
    <2>5. ScopeOf(i.route, i.via) = ScopeOf(req.route, req.via)
      BY <2>2, <2>4 DEF Meta
    <2> QED
      BY <1>3, <2>3, <2>5 DEF ScopeOf, Typed
  <1>6. Presented.echo.method = o.method /\ Presented.echo.request \in o.requests
    BY <1>1 DEF BoundTo
  <1>7. i.body = RequestBody
    BY <1>1, <1>2, <1>4
  <1> HIDE DEF o
  <1>8. /\ i.via = req.via \/ o.scope # NoScope
        /\ i.via = "http" /\ o.scope = NoScope => Scope[i.route] = Scope[req.route]
    BY <1>5
  <1> QED
    BY <1>1, <1>2, <1>6, <1>7, <1>8 DEF o

LEMMA SettledKeeps ==
  ASSUME IInv, Settled
  PROVE  IInv'
  <1> USE DEF IInv
  <1>1. /\ phase = "settling" /\ phase' = "serving"
        /\ hooks' = [hooks EXCEPT !.succeeded = FailedOne(Offers[at])]
        /\ UNCHANGED <<now, req, at, since, resp, count, issued>>
    BY DEF Settled
  <1>2. PICK s : s = [challenge |-> Presented.echo, route |-> req.route,
                      via |-> req.via, body |-> RequestBody, at |-> since]
    OBVIOUS
  <1>3. served' = served \cup {s}
    BY <1>2 DEF Settled
  <1>4. at \in DOMAIN Offers /\ since < Presented.echo.expires
    BY <1>1 DEF SettlingInv
  <1>5. /\ hooks'.created = hooks.created /\ hooks'.failed = hooks.failed
        /\ hooks'.succeeded = FailedOne(Offers[at])
        /\ hooks' = [created |-> hooks'.created, failed |-> hooks'.failed,
                     succeeded |-> hooks'.succeeded]
    BY <1>1 DEF Typed
  <1>6. Typed'
    BY <1>1, <1>4, <1>5, Failures DEF Typed
  <1>7. FieldInv' /\ SettlingInv' /\ HooksAgree' /\ IssuedInv'
    BY <1>1 DEF FieldInv, SettlingInv, HooksAgree, IssuedInv
  <1>8. Presented' = Presented /\ RequestScope' = RequestScope /\ RequestBody' = RequestBody
    BY <1>1, SameRequest
  <1>9. RespInv' /\ SettlingNotRepaid' /\ HookInv'
    BY <1>1, <1>5, <1>8 DEF RespInv, SettlingNotRepaid, HookInv, FailedNone, Problems402
  <1>10. WriterInv'
    <2>1. PICK a \in Adapters, formatted \in BOOLEAN : writer' = NewWriter(a, formatted)
      BY DEF Settled
    <2>2. writer' = [adapter |-> a, receipt |-> formatted, pending |-> 200, status |-> 0,
                     header |-> "none", informed |-> "none", sent |-> "none",
                     early |-> FALSE, hijacked |-> FALSE, returned |-> FALSE]
      BY <2>1 DEF NewWriter, NoWriter
    <2> QED
      BY <2>2 DEF WriterInv, Success
  <1>11. ServedAsAsked'
    <2>1. \E i \in issued, j \in DOMAIN Routes[s.route] :
            LET o == Routes[s.route][j] IN
            /\ i.challenge = s.challenge /\ i.body = s.body /\ s.at < s.challenge.expires
            /\ s.challenge.method = o.method /\ s.challenge.request \in o.requests
            /\ i.via = s.via \/ o.scope # NoScope
            /\ i.via = "http" /\ o.scope = NoScope => Scope[i.route] = Scope[s.route]
      BY <1>1, <1>2, <1>4, SettledIsAsked DEF Offers
    <2> QED
      BY <1>1, <1>3, <2>1 DEF ServedAsAsked
  <1> QED
    BY <1>6, <1>7, <1>9, <1>10, <1>11

LEMMA HandlerKeeps ==
  ASSUME WriterInv, HandlerStep
  PROVE  WriterInv'
  <1> DEFINE fields == {"adapter", "receipt", "pending", "status", "header", "informed",
                        "sent", "early", "hijacked", "returned"}
             \* what stays of WriterInv for a writer w that is not open any more
             Kept(w) ==
               /\ DOMAIN w = fields /\ w.status # 0 /\ w.hijacked = writer.hijacked
               /\ w.pending # 0 /\ w.informed = "none" /\ w.early \in BOOLEAN
               /\ w.early => w.adapter \in {"gin", "echo"}
               /\ ~w.early => w.sent # "handler"
               /\ Success(w.status) /\ w.receipt /\ ~w.early => w.sent = "ours"
               /\ w.sent = "ours" => Success(w.status)
  <1>1. DOMAIN writer = fields
    BY DEF WriterInv
  <1>2. ASSUME NEW s, s # 0
        PROVE  Kept(Committed(s))
    <2>1. /\ DOMAIN Committed(s) = fields
          /\ Committed(s).status = (IF writer.early THEN 200 ELSE s)
          /\ Committed(s).sent = ReceiptFor(s)
          /\ Committed(s).pending = writer.pending
          /\ Committed(s).informed = writer.informed
          /\ Committed(s).early = writer.early /\ Committed(s).adapter = writer.adapter
          /\ Committed(s).receipt = writer.receipt
          /\ Committed(s).hijacked = writer.hijacked
      BY <1>1 DEF Committed
    <2>2. /\ ReceiptFor(s) \in {"none", "ours"}
          /\ Success(s) /\ writer.receipt => ReceiptFor(s) = "ours"
          /\ ReceiptFor(s) = "ours" => Success(s)
      BY DEF ReceiptFor
    <2>3. Success(200)
      BY DEF Success
    <2> QED
      BY <1>2, <2>1, <2>2, <2>3 DEF WriterInv
  <1>3. ASSUME NEW w, DOMAIN w = fields, w.early = TRUE, w.adapter \in {"gin", "echo"},
               w.pending # 0, w.informed = "none", w.hijacked = writer.hijacked
        PROVE  Kept(Implicit(w))
    <2>1. /\ DOMAIN Implicit(w) = fields /\ Implicit(w).status = 200
          /\ Implicit(w).pending = w.pending /\ Implicit(w).informed = w.informed
          /\ Implicit(w).early = w.early /\ Implicit(w).adapter = w.adapter
          /\ Implicit(w).hijacked = w.hijacked
      BY <1>3 DEF Implicit
    <2>3. Implicit(w).early \in BOOLEAN /\ Implicit(w).early
      BY <1>3, <2>1
    <2>2. Success(200)
      BY DEF Success
    <2> QED
      BY <1>3, <2>1, <2>2, <2>3
  <1>4. ASSUME NEW early \in BOOLEAN
        PROVE  LET w == Informed(early) IN
               /\ DOMAIN w = fields /\ w.early = early /\ w.informed = "none"
               /\ w.adapter = writer.adapter /\ w.pending = writer.pending
               /\ w.sent = writer.sent /\ w.status = writer.status
               /\ w.hijacked = writer.hijacked /\ w.returned = writer.returned
               /\ w.receipt = writer.receipt
    BY <1>1 DEF Informed, HeaderDeleted
  <1>5. Early => Kept(EarlyEnd)
    <2>1. CASE writer.early
      <3>1. EarlyEnd = Implicit(writer)
        BY <2>1 DEF EarlyEnd
      <3> QED
        BY <1>1, <1>3, <2>1, <3>1 DEF WriterInv
    <2>2. CASE ~writer.early /\ Early
      <3>1. EarlyEnd = Implicit(Informed(TRUE)) /\ writer.adapter = "gin"
        BY <2>2 DEF EarlyEnd, Early, Gin
      <3> QED
        BY <1>3, <1>4, <3>1 DEF WriterInv
    <2> QED
      BY <2>1, <2>2
  <1>6. ASSUME NEW w, Kept(w), writer' = w \/ writer' = [w EXCEPT !.returned = TRUE]
        PROVE  WriterInv'
    BY <1>6 DEF WriterInv
  <1>7. ASSUME NEW early \in BOOLEAN, early => writer.adapter \in {"gin", "echo"},
               writer.early => early, Open, writer' = Informed(early)
        PROVE  WriterInv'
    BY <1>4, <1>7 DEF WriterInv, Open, Success
  <1> HIDE DEF Kept
  <1>8. CASE SetOwnReceipt
    BY <1>8 DEF SetOwnReceipt, WriterInv, Open, Success
  <1>9. CASE Write
    <2>1. CASE writer' = EarlyEnd /\ Early
      BY <1>5, <1>6, <2>1
    <2>2. ASSUME NEW s, s # 0, writer' = Committed(s)
          PROVE  WriterInv'
      BY <1>2, <1>6, <2>2
    <2> QED
      BY <1>9, <2>1, <2>2 DEF Write, WriterInv
  <1>10. CASE WriteHeaderNow
    <2>1. CASE Early
      BY <1>7, <1>10, <2>1 DEF WriteHeaderNow, Gin
    <2>2. CASE ~Early
      <3>1. writer' = Committed(writer.pending) /\ writer.pending # 0
        BY <1>10, <2>2 DEF WriteHeaderNow, WriterInv
      <3> QED
        BY <1>2, <1>6, <3>1
    <2> QED
      BY <2>1, <2>2
  <1>11. CASE Hijack
    BY <1>11 DEF Hijack, WriterInv, Open, Success
  <1>12. ASSUME NEW s \in Statuses, WriteHeader(s)
         PROVE  WriterInv'
    <2>1. s # 0 /\ Open
      BY <1>12, StatusesAssumption DEF WriteHeader
    <2>2. CASE writer' = Committed(s)
      BY <1>2, <1>6, <2>1, <2>2
    <2>3. ASSUME NEW early \in {writer.early, writer.adapter = "echo"}, Eager,
                 writer' = Informed(early)
          PROVE  WriterInv'
      <3>1. writer.early => writer.adapter = "echo"
        BY <2>3 DEF WriterInv, Eager
      <3>2. early \in BOOLEAN /\ (early => writer.adapter = "echo") /\ (writer.early => early)
        BY <2>3, <3>1 DEF WriterInv
      <3> QED
        BY <1>7, <2>1, <2>3, <3>2
    <2>4. CASE writer' = [writer EXCEPT !.pending = s]
      BY <2>1, <2>4 DEF WriterInv, Open, Success
    <2> QED
      BY <1>12, <2>2, <2>3, <2>4 DEF WriteHeader
  <1>13. ASSUME NEW failed \in BOOLEAN, Return(failed)
         PROVE  WriterInv'
    <2>1. PICK last : /\ last = IF ~Open THEN writer
                                ELSE IF Early /\ (Gin \/ failed) THEN EarlyEnd
                                ELSE CommittedAtReturn(IF failed THEN 500 ELSE writer.pending)
                      /\ writer' = [last EXCEPT !.returned = TRUE]
      BY <1>13 DEF Return
    <2>2. CASE Open /\ Early /\ (Gin \/ failed)
      BY <1>5, <1>6, <2>1, <2>2
    <2>3. CASE Open /\ ~(Early /\ (Gin \/ failed))
      <3>1. PICK s : s # 0 /\ last = Committed(s)
        BY <2>1, <2>3 DEF CommittedAtReturn, WriterInv
      <3> QED
        BY <1>2, <1>6, <2>1, <3>1
    <2>4. CASE ~Open
      BY <1>13, <2>1, <2>4 DEF WriterInv, Open, Success, Return
    <2> QED
      BY <2>2, <2>3, <2>4
  <1> QED
    BY <1>8, <1>9, <1>10, <1>11, <1>12, <1>13 DEF HandlerStep

LEMMA ServeKeeps ==
  ASSUME IInv, Serve
  PROVE  IInv'
  <1> USE DEF IInv
  <1>1. /\ phase = "serving" /\ phase' \in {"serving", "ready"}
        /\ UNCHANGED <<now, req, at, since, resp, hooks, count, issued, served>>
    BY DEF Serve
  <1>2. WriterInv'
    BY HandlerKeeps DEF Serve
  <1>3. Typed' /\ FieldInv' /\ SettlingInv' /\ IssuedInv' /\ ServedAsAsked'
    BY <1>1 DEF Typed, FieldInv, SettlingInv, IssuedInv, ServedAsAsked
  <1>4. Presented' = Presented /\ RequestScope' = RequestScope /\ RequestBody' = RequestBody
    BY <1>1, SameRequest
  <1>5. RespInv' /\ SettlingNotRepaid' /\ HookInv'
    BY <1>1, <1>4 DEF RespInv, SettlingNotRepaid, HookInv, FailedNone, Problems402
  <1>6. HooksAgree'
    <2>1. /\ hooks'.created = {} /\ resp'.challenges = {} /\ resp'.status = 0
          /\ \A m \in Mpps : hooks'.failed[m] = 0 /\ hooks'.succeeded[m] \in 0 .. 1
      BY <1>1, Failures DEF HookInv, Typed
    <2>2. \A m \in Mpps : hooks'.failed[m] + hooks'.succeeded[m] <= 1
      BY <2>1
    <2> QED
      BY <2>1, <2>2 DEF HooksAgree
  <1> QED
    BY <1>2, <1>3, <1>5, <1>6

\* The clock moves, or nothing does.
LEMMA TickKeeps ==
  ASSUME IInv, now' = now \/ (now' = now + 1 /\ now < MaxClock),
         UNCHANGED <<phase, req, at, since, resp, hooks, count, issued, served, writer>>
  PROVE  IInv'
  <1> USE DEF IInv
  <1>1. Typed'
    BY ServerBounds DEF Typed
  <1>2. /\ Offers' = Offers /\ Presented' = Presented /\ RequestScope' = RequestScope
        /\ RequestBody' = RequestBody /\ HasCredentialField' = HasCredentialField
    BY SameRequest
  <1>3. Echoes' = Echoes
    BY DEF Echoes, Genuine
  <1>4. SettlingInv'
    BY <1>2, <1>3 DEF SettlingInv, BoundTo, IdMatches, MetaMatches
  <1>5. FieldInv' /\ IssuedInv' /\ ServedAsAsked' /\ WriterInv' /\ HookInv'
    BY <1>3 DEF FieldInv, IssuedInv, ServedAsAsked, WriterInv, Success, HookInv, FailedNone
  <1>6. RespInv' /\ SettlingNotRepaid' /\ HooksAgree'
    BY <1>2 DEF RespInv, SettlingNotRepaid, Problems402, HooksAgree, Headers
  <1> QED
    BY <1>1, <1>4, <1>5, <1>6

LEMMA InitEstablishes == Init => IInv
  <1> SUFFICES ASSUME Init PROVE IInv
    OBVIOUS
  <1> USE DEF Init
  <1>1. PICK r \in DOMAIN Routes :
          req = [route |-> r, via |-> "http", body |-> NoBody,
                 field |-> [h \in Headers |-> NoCred]]
    OBVIOUS
  <1>2. Typed
    BY <1>1, ServerBounds DEF Typed, FailedNone
  <1>3. /\ FieldInv /\ SettlingInv /\ IssuedInv /\ RespInv /\ HookInv
        /\ SettlingNotRepaid /\ ServedAsAsked
    BY DEF FieldInv, SettlingInv, IssuedInv, RespInv, HookInv, SettlingNotRepaid,
           Problems402, ServedAsAsked
  <1>4. WriterInv
    BY DEF WriterInv, NoWriter
  <1>5. HooksAgree
    BY <1>2, Failures DEF HooksAgree
  <1> QED
    BY <1>2, <1>3, <1>4, <1>5 DEF IInv

LEMMA NextPreserves == IInv /\ [Next]_vars => IInv'
  <1> SUFFICES ASSUME IInv, [Next]_vars PROVE IInv'
    OBVIOUS
  <1>1. Typed
    BY DEF IInv
  <1>2. ASSUME Replies, UNCHANGED <<at, since>>
        PROVE  IInv'
    BY <1>1, <1>2, RepliesKeep DEF Typed
  <1>3. CASE BodyRefused
    BY <1>1, <1>2, <1>3, BodyRefusedReplies DEF BodyRefused
  <1>4. CASE Unread
    BY <1>1, <1>2, <1>4, UnreadReplies DEF Unread
  <1>5. CASE Unpaid
    BY <1>1, <1>2, <1>5, UnpaidReplies DEF Unpaid
  <1>6. CASE NotParsed
    BY <1>1, <1>2, <1>6, NotParsedReplies DEF NotParsed
  <1>7. CASE Unmatched
    BY <1>1, <1>2, <1>7, UnmatchedReplies DEF Unmatched
  <1>8. ASSUME NEW problem \in Problems, NotSettled(problem)
        PROVE  IInv'
    BY <1>2, <1>8, NotSettledReplies DEF NotSettled
  <1>9. CASE Tick \/ UNCHANGED vars
    BY <1>9, TickKeeps DEF Tick, vars
  <1> QED
    BY <1>3, <1>4, <1>5, <1>6, <1>7, <1>8, <1>9, ArriveKeeps, DispatchedKeeps,
       SettledKeeps, ServeKeeps DEF Next

-----------------------------------------------------------------------------
(* The results.                                                            *)

\* The strengthened invariant: what a credential was accepted for, every
\* challenge out and every answer, at every moment of a request.
THEOREM Invariance == Spec => []IInv
  BY InitEstablishes, NextPreserves, PTL DEF Spec

\* The answers of pkg/server/lifecycle.go have the statuses and hook calls of
\* their types, and an offer's clock reading is never ahead of the clock.
THEOREM TypeCorrect == Spec => []TypeOK
  <1>1. IInv => TypeOK
    BY DEF IInv, Typed, TypeOK
  <1> QED
    BY <1>1, Invariance, PTL

\* A Payment-Receipt goes out with a successful response, and with no other, in
\* whichever order the handler calls the wrapped writer (middleware.go); a
\* response that Gin or Echo has taken an informational status for may lack it.
THEOREM ReceiptsAreRight == Spec => []ReceiptWithSuccess
  <1>1. WriterInv => ReceiptWithSuccess
    BY DEF WriterInv, ReceiptWithSuccess, Success
  <1>2. IInv => ReceiptWithSuccess
    BY <1>1 DEF IInv
  <1> QED
    BY <1>2, Invariance, PTL

\* A request is served only for a challenge that was handed out for its body,
\* its price and its scope, and that had not expired (verify.go).
THEOREM ServedRight == Spec => []ServedAsAsked
  <1>1. IInv => ServedAsAsked
    BY DEF IInv
  <1> QED
    BY <1>1, Invariance, PTL

\* A credential that the method took on and did not settle is answered with no
\* fresh challenge for its request (the retry challenges of verify.go).
THEOREM NotRepaid == Spec => []SettlingNotRepaid
  <1>1. IInv => SettlingNotRepaid
    BY DEF IInv
  <1> QED
    BY <1>1, Invariance, PTL

\* Event hooks report every challenge the client is sent, and over HTTP no other;
\* and every refusal of a credential whose request could be read (events.go).
THEOREM HooksTold == Spec => []HooksAgree
  <1>1. IInv => HooksAgree
    BY DEF IInv
  <1> QED
    BY <1>1, Invariance, PTL

\* Every challenge of an answer can be paid until it expires, when the offers
\* of one method are read from one header (compose.go, verify.go).
THEOREM OffersPayable ==
  ASSUME OneHeaderPerMethod
  PROVE  Spec => []OffersCanBePaid
  <1>1. ASSUME IInv, NEW c \in resp.challenges, phase = "ready", now < c.expires
        PROVE  LET paid == [echo |-> c, genuine |-> TRUE]
                   source == IF req.via = "mcp" THEN "any" ELSE c.header
                   i == Matching(Offers, paid, source, RequestScope)
               IN  /\ i # 0
                   /\ Refusal(paid, Offers[i], RequestScope, RequestBody) = "none"
    <2> DEFINE paid == [echo |-> c, genuine |-> TRUE]
               source == IF req.via = "mcp" THEN "any" ELSE c.header
               i == Matching(Offers, paid, source, RequestScope)
    <2>1. Typed /\ OfferedOn(c, req.route, RequestScope, RequestBody)
      BY <1>1 DEF IInv, RespInv
    <2>2. PICK j \in DOMAIN Offers :
            /\ c.realm = Realm /\ c.method = Offers[j].method /\ c.intent = "charge"
            /\ c.request \in Offers[j].requests /\ c.meta = Meta(Offers[j], RequestScope)
            /\ c.digest = RequestBody /\ c.expires \in Nat \ {0}
            /\ c.header = HeaderOf(Offers[j])
      BY <2>1, OneHeaderPerMethod DEF OfferedOn, Offers
    <2>3. paid.echo = c /\ paid.genuine = TRUE
      OBVIOUS
    <2> HIDE DEF paid
    <2>4. /\ Accepts(source, Offers[j]) /\ OffersIntent(Offers[j], paid)
          /\ MetaMatches(paid, Offers[j], RequestScope)
      BY <2>2, <2>3 DEF Accepts, OffersIntent, MetaMatches
    <2>5. DOMAIN Offers \subseteq Nat \ {0}
      BY <2>1, RouteOffers
    <2>6. /\ i \in DOMAIN Offers /\ OffersIntent(Offers[i], paid)
          /\ MetaMatches(paid, Offers[i], RequestScope)
          /\ paid.echo.request \in Offers[i].requests
      BY <2>2, <2>3, <2>4, <2>5, MatchingIsExactly
    <2> HIDE DEF i
    <2>7. paid.echo.request # Garbage
      BY <2>1, <2>6, RouteOffers DEF IsOffer
    <2>8. BoundTo(paid, Offers[i])
      BY <2>2, <2>3, <2>6 DEF BoundTo, IdMatches, OffersIntent
    <2>9. ~Expired(paid)
      BY <1>1, <2>1, <2>2, <2>3 DEF Expired, Typed
    <2>10. Refusal(paid, Offers[i], RequestScope, RequestBody) = "none"
      <3>1. paid.echo.digest = RequestBody /\ MetaMatches(paid, Offers[i], RequestScope)
        BY <2>2, <2>3, <2>6
      <3>2. \A o, s, b :
              BoundTo(paid, o) /\ MetaMatches(paid, o, s) /\ paid.echo.digest = b
                => Refusal(paid, o, s, b) = "none"
        BY <2>7, <2>9, RefusalFacts
      <3> QED
        BY <2>8, <3>1, <3>2
    <2> QED
      BY <2>5, <2>6, <2>10 DEF i, paid
  <1>2. IInv => OffersCanBePaid
    BY <1>1 DEF OffersCanBePaid
  <1> QED
    BY <1>2, Invariance, PTL
===============================================================================
