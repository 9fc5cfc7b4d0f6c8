--------------------------- MODULE MC_ChargeServer ---------------------------
(* An instance of ChargeServer for TLC: four routes of two handlers.       *)
EXTENDS ChargeServer, TLC

CONSTANTS m1, m2, b1, usd, eur, pro, scope1, scope2, bound

MCOffer(mpp, method, requests, auth) ==
  [mpp |-> mpp, method |-> method, requests |-> requests, scope |-> NoScope,
   auth |-> auth, nonce |-> TRUE, sponsored |-> FALSE, expires |-> 0]

Tempo == MCOffer(m1, "tempo", {usd, eur}, FALSE)
Pro == MCOffer(m1, "tempo", {pro}, FALSE)
Other == [MCOffer(m2, "other", {usd}, TRUE) EXCEPT !.nonce = FALSE]
Shared == [Tempo EXCEPT !.scope = bound]
Aging == [Pro EXCEPT !.sponsored = TRUE, !.expires = 3]

\* One offer in two currencies; offers of two handlers, methods and headers;
\* offers of one handler, one with a scope of its own and one that ages; a
\* route whose path makes its challenges too long.
MCRoutes == [single |-> <<Tempo>>, mixed |-> <<Tempo, Pro, Other>>,
             shared |-> <<Aging, Shared>>, long |-> <<Shared, Tempo>>]
MCScope == [single |-> scope1, mixed |-> scope2, shared |-> scope2, long |-> LongScope]

\* Issued under the same key: for another realm and another intent, and by
\* mpp.NewChallenge without an expiry.
MCElsewhere ==
  LET c == [realm |-> Realm, method |-> "tempo", intent |-> "charge", request |-> usd,
            meta |-> scope1, nonce |-> 0, digest |-> NoBody, expires |-> 2,
            header |-> "Authorization"]
  IN  {[c EXCEPT !.realm = "elsewhere"], [c EXCEPT !.intent = "session"],
       [c EXCEPT !.expires = 0]}

ASSUME HeadersAssumption == OneHeaderPerMethod
===============================================================================
