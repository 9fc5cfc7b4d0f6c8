--------------------------- MODULE McpPaymentProofs ---------------------------
(***************************************************************************)
(* Safety of McpPayment, for any offers, clients, sessions and bounds.     *)
(***************************************************************************)
EXTENDS McpPayment, FiniteSetTheorems, TLAPS

Choosing == pc \in {"asking", "creating"}

\* Credentials are numbered as they are made; what is out, chosen, answered or
\* paid is what it should be.
Typed ==
  /\ now \in 0 .. MaxClock /\ attempt \in 0 .. MaxAttempts
  /\ pc \in {"calling", "answered", "asking", "creating", "done"}
  /\ made \subseteq Credentials /\ IsFiniteSet(made)
  /\ \A c \in made : c.n \in 1 .. Cardinality(made)
  /\ cache \subseteq made /\ spoiled \subseteq made
  /\ wire \in {NoCred, Garbled} \cup {c \in Credentials : c \in made \/ c.n = 0}
  /\ selected \in Challenges
  /\ \A i \in DOMAIN answer.challenges : answer.challenges[i] \in Challenges
  /\ pc # "answered" => answer.challenges = <<>>
  /\ \A c \in paid : c.n # 0 => c \in made

\* A credential that is not cached any more is spoiled, and while one is being
\* made the cache has none for its challenge.
CacheInv ==
  /\ made \subseteq cache \cup spoiled
  /\ \A c, d \in cache : c.challenge = d.challenge => c = d
  /\ Choosing => attempt < MaxAttempts /\ \A c \in cache : c.challenge # selected

\* An honest server keeps the call to the offer of its first payment.
OfferInv ==
  honest =>
    /\ made # {} => wire \in made
    /\ wire \in Credentials => wire.challenge.offer \in Range(Offers)
    /\ selected.offer \in Range(Offers)
    /\ \A i \in DOMAIN answer.challenges : answer.challenges[i].offer \in Range(Offers)
    /\ \A c \in made :
         /\ \A d \in made : d.challenge.offer = c.challenge.offer
         /\ \A i \in DOMAIN answer.challenges : answer.challenges[i].offer = c.challenge.offer
         /\ Choosing => selected.offer = c.challenge.offer

\* Once a payment was given to the chain, nothing that can be paid is answered.
PaidInv ==
  honest /\ config.kind = "transaction" /\ ~amiss /\ paid \cap made # {} =>
    /\ pc = "done" \/ (pc = "answered" /\ answer.challenges = <<>>)
    /\ \E c \in made : paid \cap made \subseteq {c}

\* The origin of a credential that goes out was checked in this round.
OriginInv ==
  /\ pc = "calling" /\ wire \in made => CheckOrigin(wire.challenge.offer, granted)
  /\ Choosing => CheckOrigin(selected.offer, granted)
  /\ \A o \in strayed : ~o.proof

IInv == Typed /\ CacheInv /\ OneCredentialPerChallenge /\ OfferInv /\ PaidInv /\ OriginInv

-----------------------------------------------------------------------------
LEMMA FirstOffer == 1 \in DOMAIN Offers /\ Offers[1] \in Range(Offers)
  BY OffersAssumption DEF Range

LEMMA ChallengeType ==
  ASSUME Typed, NEW o \in AllOffers
  PROVE  Challenge(o) \in Challenges /\ Challenge(o).offer = o
  BY McpBounds DEF Typed, Challenge, Challenges

LEMMA CredentialType ==
  ASSUME NEW c \in Credentials
  PROVE  /\ IsCred(c) /\ c.challenge \in Challenges /\ c.n \in Nat
         /\ c.challenge.offer \in AllOffers
  BY CredentialsAssumption DEF Credentials, Challenges, IsCred

THEOREM InitEstablishes == Init => IInv
  <1> SUFFICES ASSUME Init PROVE IInv
    OBVIOUS
  <1>1. Challenge(Offers[1]) \in Challenges /\ Challenge(Offers[1]).offer = Offers[1]
    BY FirstOffer, McpBounds DEF Init, Challenge, Challenges, AllOffers
  <1>2. Own \in Credentials /\ Own.n = 0 /\ Own.challenge.offer = Offers[1]
    BY <1>1 DEF Own, Credentials
  <1>3. Typed
    <2>1. IsFiniteSet({})
      BY FS_EmptySet
    <2> QED
      BY <1>1, <1>2, <2>1, McpBounds DEF Init, Typed, NoAnswer
  <1>4. CacheInv /\ OneCredentialPerChallenge /\ PaidInv /\ OriginInv
    BY DEF Init, CacheInv, OneCredentialPerChallenge, PaidInv, OriginInv, Choosing
  <1>5. OfferInv
    BY <1>1, <1>2, FirstOffer, CredentialsAssumption DEF Init, OfferInv, NoAnswer, Choosing
  <1> QED
    BY <1>3, <1>4, <1>5 DEF IInv

-----------------------------------------------------------------------------
(* The server.                                                             *)

\* What every answer keeps to.
Answers ==
  /\ Called /\ pc' = "answered"
  /\ UNCHANGED <<fixed, now, clientVars, strayed>>
  /\ \A i \in DOMAIN answer'.challenges : answer'.challenges[i] \in Challenges
  /\ honest =>
       \A i \in DOMAIN answer'.challenges :
         /\ answer'.challenges[i].offer \in Range(Offers)
         /\ \A c \in made : answer'.challenges[i].offer = c.challenge.offer
  /\ amiss => amiss'
  /\ \/ paid' = paid
     \/ /\ paid' = paid \cup {wire} /\ IsCred(wire)
        /\ amiss' \/ answer'.challenges = <<>>

LEMMA AnswersKeep == ASSUME IInv, Answers PROVE IInv'
  <1> USE DEF Answers, Called, fixed, clientVars
  <1>1. Typed'
    <2>1. \A c \in paid' : c.n # 0 => c \in made
      <3>1. IsCred(wire) => wire \in made \/ wire.n = 0
        BY DEF IInv, Typed, IsCred
      <3> QED
        BY <3>1 DEF IInv, Typed
    <2> QED
      BY <2>1 DEF IInv, Typed
  <1>2. CacheInv' /\ OneCredentialPerChallenge' /\ OriginInv'
    BY DEF IInv, CacheInv, OneCredentialPerChallenge, OriginInv, Choosing
  <1>3. OfferInv'
    BY DEF IInv, OfferInv, Choosing
  <1>4. PaidInv'
    <2> SUFFICES ASSUME honest, config.kind = "transaction", ~amiss', paid' \cap made # {}
                 PROVE  answer'.challenges = <<>> /\ \E c \in made : paid' \cap made \subseteq {c}
      BY DEF PaidInv
    <2>1. paid \cap made = {}
      BY DEF IInv, PaidInv
    <2> QED
      BY <2>1
  <1> QED
    BY <1>1, <1>2, <1>3, <1>4 DEF IInv

\* What the server does with a credential it was given.
LEMMA GivenCredential ==
  ASSUME IInv, Charged
  PROVE  /\ wire \in Credentials /\ wire.challenge \in Challenges
         /\ wire.challenge.offer \in Range(Offers)
         /\ FreshFor(wire) \in Challenges /\ FreshFor(wire).offer = wire.challenge.offer
         /\ \A c \in made : c.challenge.offer = wire.challenge.offer
  <1>1. wire \in Credentials /\ wire.challenge \in Challenges
    BY CredentialType DEF IInv, Typed, Charged, IsCred
  <1>2. wire.challenge.offer \in Range(Offers)
    BY <1>1 DEF IInv, OfferInv, Charged
  <1>3. \A c \in made : c.challenge.offer = wire.challenge.offer
    BY DEF IInv, OfferInv, Charged
  <1>4. FreshFor(wire) = Challenge(wire.challenge.offer)
    BY <1>2 DEF FreshFor
  <1>5. Challenge(wire.challenge.offer) \in Challenges
        /\ Challenge(wire.challenge.offer).offer = wire.challenge.offer
    BY <1>2, McpBounds DEF IInv, Typed, Challenge, Challenges, AllOffers
  <1> QED
    BY <1>1, <1>2, <1>3, <1>4, <1>5

\* The first answer, to a request without a credential.
LEMMA FirstAnswer ==
  ASSUME IInv, honest, wire \in {NoCred, Garbled}
  PROVE  /\ made = {}
         /\ \A i \in DOMAIN FreshChallenges :
              FreshChallenges[i] \in Challenges /\ FreshChallenges[i].offer \in Range(Offers)
         /\ Head(FreshChallenges) \in Challenges /\ Head(FreshChallenges).offer \in Range(Offers)
  <1>1. made = {}
    BY CredentialsAssumption DEF IInv, Typed, OfferInv
  <1>2. \A i \in DOMAIN Offers :
          /\ FreshChallenges[i] \in Challenges
          /\ FreshChallenges[i].offer \in Range(Offers)
    BY McpBounds DEF IInv, Typed, FreshChallenges, Challenge, Challenges, AllOffers, Range
  <1>3. Head(FreshChallenges) = FreshChallenges[1]
    BY DEF FreshChallenges
  <1> QED
    BY <1>1, <1>2, <1>3, FirstOffer DEF FreshChallenges

LEMMA ServerAnswers == ASSUME IInv, Server PROVE Answers
  <1> USE DEF Respond
  <1>1. CASE Demand
    BY <1>1, FirstAnswer DEF Demand, Answers
  <1>2. CASE Unreadable
    BY <1>2, FirstAnswer DEF Unreadable, Answers, Rejected
  <1>3. CASE Refuse
    BY <1>3, GivenCredential DEF Refuse, Answers, Rejected, Charged
  <1>4. CASE RefusePayload
    BY <1>4, GivenCredential DEF RefusePayload, Answers, Rejected, Charged
  <1>5. CASE NotSettled
    BY <1>5, GivenCredential DEF NotSettled, Answers, Rejected, Charged
  <1>6. CASE NotAnswered
    BY <1>6 DEF NotAnswered, Answers, Charged
  <1>7. CASE SettlesAmiss
    BY <1>7, GivenCredential DEF SettlesAmiss, Answers, Rejected, Charged
  <1>8. CASE SettlesUnknown
    BY <1>8 DEF SettlesUnknown, Answers, Rejected, Charged
  <1>9. CASE Settles
    BY <1>9 DEF Settles, Answers, Charged
  <1>10. CASE Fails
    <2>1. paid' = paid \/ (paid' = paid \cup {wire} /\ IsCred(wire))
      BY <1>10, CredentialType DEF Fails, IInv, Typed
    <2> QED
      BY <1>10, <2>1 DEF Fails, Answers
  <1>11. CASE Misbehave
    <2>1. PICK code \in {"params", "meta"}, problem \in {"none", "invalid-payload"},
               o \in AllOffers, old \in {c.challenge : c \in made} \cup {Challenge(Strange)} :
            Respond(code, problem, <<old, Challenge(o)>>)
      BY <1>11 DEF Misbehave
    <2>2. Challenge(o) \in Challenges /\ old \in Challenges
      <3>1. Challenge(o) \in Challenges /\ Challenge(Strange) \in Challenges
        BY ChallengeType DEF IInv, AllOffers
      <3> QED
        BY <3>1, CredentialType DEF IInv, Typed
    <2> QED
      BY <1>11, <2>1, <2>2 DEF Misbehave, Answers
  <1> QED
    BY <1>1, <1>2, <1>3, <1>4, <1>5, <1>6, <1>7, <1>8, <1>9, <1>10, <1>11 DEF Server

-----------------------------------------------------------------------------
(* The client.                                                             *)

\* What is kept and what is spoiled account for every credential.
LEMMA KeptAccounts ==
  ASSUME IInv, Spoil
  PROVE  /\ Kept \subseteq cache /\ made \subseteq Kept \cup spoiled'
         /\ spoiled \subseteq spoiled' /\ spoiled' \subseteq made
  BY DEF IInv, Typed, CacheInv, Spoil, Kept

LEMMA FinishKeeps == ASSUME IInv, Finish PROVE IInv'
  <1> USE DEF Finish, fixed, clientVars
  <1>1. Typed'
    BY DEF IInv, Typed, NoAnswer
  <1>2. CacheInv' /\ OneCredentialPerChallenge' /\ OriginInv'
    BY DEF IInv, CacheInv, OneCredentialPerChallenge, OriginInv, Choosing
  <1>3. OfferInv' /\ PaidInv'
    BY DEF IInv, OfferInv, PaidInv, Choosing, NoAnswer
  <1> QED
    BY <1>1, <1>2, <1>3 DEF IInv

LEMMA UnpayableKeeps == ASSUME IInv, Unpayable PROVE IInv'
  <1> USE DEF Unpayable, fixed
  <1>1. Typed'
    BY KeptAccounts DEF IInv, Typed, NoAnswer
  <1>2. CacheInv' /\ OneCredentialPerChallenge' /\ OriginInv'
    BY KeptAccounts DEF IInv, CacheInv, OneCredentialPerChallenge, OriginInv, Choosing
  <1>3. OfferInv' /\ PaidInv'
    BY DEF IInv, OfferInv, PaidInv, Choosing, NoAnswer
  <1> QED
    BY <1>1, <1>2, <1>3 DEF IInv

\* Choose, for one of the challenges: its credential is sent again, or one
\* is made.
LEMMA ChooseCases ==
  ASSUME IInv, Choose
  PROVE  \E ch \in Challenges :
           /\ selected' = ch
           /\ CheckOrigin(ch.offer, granted')
           /\ honest => /\ ch.offer \in Range(Offers)
                        /\ \A c \in made : c.challenge.offer = ch.offer
           /\ \/ \E c \in cache' : c.challenge = ch /\ Send(c)
              \/ /\ pc' \in {"asking", "creating"} /\ UNCHANGED <<wire, attempt>>
                 /\ \A c \in cache' : c.challenge # ch
  <1>1. PICK realms \in Granted : \E i \in Choices(realms) :
          /\ granted' = realms
          /\ selected' = answer.challenges[i]
          /\ LET cached == {c \in cache' : c.challenge = answer.challenges[i]} IN
               IF cached # {}
               THEN \E c \in cached : Send(c)
               ELSE /\ pc' = IF config.asks THEN "asking" ELSE "creating"
                    /\ UNCHANGED <<wire, attempt>>
    BY DEF Choose
  <1>2. PICK i \in Choices(realms) :
          /\ granted' = realms
          /\ selected' = answer.challenges[i]
          /\ LET cached == {c \in cache' : c.challenge = answer.challenges[i]} IN
               IF cached # {}
               THEN \E c \in cached : Send(c)
               ELSE /\ pc' = IF config.asks THEN "asking" ELSE "creating"
                    /\ UNCHANGED <<wire, attempt>>
    BY <1>1
  <1>3. i \in DOMAIN answer.challenges /\ CheckOrigin(answer.challenges[i].offer, realms)
    BY <1>2 DEF Choices, Payable, Candidates
  <1>4. answer.challenges[i] \in Challenges
    BY <1>3 DEF IInv, Typed
  <1>5. honest => /\ answer.challenges[i].offer \in Range(Offers)
                  /\ \A c \in made : c.challenge.offer = answer.challenges[i].offer
    BY <1>3 DEF IInv, OfferInv
  <1>6. CheckOrigin(answer.challenges[i].offer, granted')
    BY <1>2, <1>3
  <1>7. \/ \E c \in cache' : c.challenge = answer.challenges[i] /\ Send(c)
        \/ /\ pc' \in {"asking", "creating"} /\ UNCHANGED <<wire, attempt>>
           /\ \A c \in cache' : c.challenge # answer.challenges[i]
    <2>1. CASE {c \in cache' : c.challenge = answer.challenges[i]} # {}
      BY <1>2, <2>1
    <2>2. CASE {c \in cache' : c.challenge = answer.challenges[i]} = {}
      BY <1>2, <2>2
    <2> QED
      BY <2>1, <2>2
  <1> QED
    BY <1>2, <1>4, <1>5, <1>6, <1>7

LEMMA ChooseKeeps == ASSUME IInv, Choose PROVE IInv'
  <1>1. PICK ch \in Challenges :
          /\ selected' = ch
          /\ CheckOrigin(ch.offer, granted')
          /\ honest => /\ ch.offer \in Range(Offers)
                       /\ \A c \in made : c.challenge.offer = ch.offer
          /\ \/ \E c \in cache' : c.challenge = ch /\ Send(c)
             \/ /\ pc' \in {"asking", "creating"} /\ UNCHANGED <<wire, attempt>>
                /\ \A c \in cache' : c.challenge # ch
    BY ChooseCases
  <1>2. /\ pc = "answered" /\ PaymentRequired /\ attempt < MaxAttempts
        /\ cache' = Kept /\ Spoil /\ answer' = NoAnswer
        /\ UNCHANGED <<fixed, now, made, paid, amiss, strayed>>
    BY DEF Choose, Retried
  <1>3. CheckOrigin(ch.offer, granted)' <=> CheckOrigin(ch.offer, granted')
    BY <1>2 DEF CheckOrigin, Origin, Guarded, Owns, fixed
  <1>4. PaidInv'
    <2>1. answer.challenges # <<>>
      BY <1>2 DEF PaymentRequired
    <2> QED
      BY <1>2, <2>1 DEF IInv, PaidInv, fixed
  <1>5. CASE \E c \in cache' : c.challenge = ch /\ Send(c)
    <2>1. PICK c \in cache' : c.challenge = ch /\ Send(c)
      BY <1>5
    <2>2. wire' = c /\ c \in made /\ c \in Credentials /\ pc' = "calling" /\ attempt' = attempt + 1
      BY <1>2, <2>1, KeptAccounts DEF Send, IInv, Typed
    <2>3. Typed'
      BY <1>1, <1>2, <2>2, KeptAccounts, McpBounds DEF IInv, Typed, NoAnswer
    <2>4. CacheInv' /\ OneCredentialPerChallenge'
      BY <1>2, <2>2, KeptAccounts DEF IInv, CacheInv, OneCredentialPerChallenge, Choosing
    <2>5. OfferInv'
      BY <1>1, <1>2, <2>1, <2>2 DEF IInv, OfferInv, Choosing, NoAnswer, fixed
    <2>6. OriginInv'
      BY <1>1, <1>2, <1>3, <2>1, <2>2 DEF IInv, OriginInv, Choosing, CheckOrigin, Origin, Guarded, Owns, fixed
    <2> QED
      BY <1>4, <2>3, <2>4, <2>5, <2>6 DEF IInv
  <1>6. CASE /\ pc' \in {"asking", "creating"} /\ UNCHANGED <<wire, attempt>>
             /\ \A c \in cache' : c.challenge # ch
    <2>1. Typed'
      BY <1>1, <1>2, <1>6, KeptAccounts DEF IInv, Typed, NoAnswer
    <2>2. CacheInv' /\ OneCredentialPerChallenge'
      BY <1>1, <1>2, <1>6, KeptAccounts DEF IInv, CacheInv, OneCredentialPerChallenge, Choosing
    <2>3. OfferInv'
      BY <1>1, <1>2, <1>6 DEF IInv, OfferInv, Choosing, NoAnswer, fixed
    <2>4. OriginInv'
      BY <1>1, <1>2, <1>6 DEF IInv, OriginInv, Choosing, CheckOrigin, Origin, Guarded, Owns, fixed
    <2> QED
      BY <1>4, <2>1, <2>2, <2>3, <2>4 DEF IInv
  <1> QED
    BY <1>1, <1>5, <1>6

LEMMA ApproveKeeps == ASSUME IInv, Approve \/ CreateFails PROVE IInv'
  <1> USE DEF Approve, CreateFails, fixed, clientVars
  <1>1. Typed'
    BY DEF IInv, Typed
  <1>2. CacheInv' /\ OneCredentialPerChallenge' /\ PaidInv'
    BY DEF IInv, CacheInv, OneCredentialPerChallenge, PaidInv, Choosing
  <1>3. OfferInv'
    <2>1. Choosing' => Choosing
      BY DEF Choosing
    <2>2. UNCHANGED <<honest, made, wire, selected, answer>>
      OBVIOUS
    <2> QED
      BY <2>1, <2>2 DEF IInv, OfferInv
  <1>4. OriginInv'
    BY DEF IInv, OriginInv, Choosing, CheckOrigin, Origin, Guarded, Owns
  <1> QED
    BY <1>1, <1>2, <1>3, <1>4 DEF IInv

LEMMA NewIsNew ==
  ASSUME IInv
  PROVE  /\ NewCred \in Credentials /\ NewCred.challenge = selected
         /\ NewCred.n = Cardinality(made) + 1 /\ NewCred \notin made
         /\ IsFiniteSet(made \cup {NewCred})
         /\ Cardinality(made \cup {NewCred}) = Cardinality(made) + 1
         /\ \A c \in made : c.n < NewCred.n
  <1>1. Cardinality(made) \in Nat
    BY FS_CardinalityType DEF IInv, Typed
  <1>2. NewCred \in Credentials /\ NewCred.challenge = selected /\ NewCred.n = Cardinality(made) + 1
    BY <1>1 DEF NewCred, Credentials, IInv, Typed
  <1>3. NewCred \notin made /\ \A c \in made : c.n < NewCred.n
    BY <1>1, <1>2 DEF IInv, Typed
  <1> QED
    BY <1>2, <1>3, FS_AddElement DEF IInv, Typed

LEMMA CreateKeeps == ASSUME IInv, Create PROVE IInv'
  <1>1. PICK new : new = NewCred
    OBVIOUS
  <1>2. /\ new \in Credentials /\ new.challenge = selected /\ new \notin made
        /\ new.n = Cardinality(made) + 1
        /\ IsFiniteSet(made \cup {new}) /\ Cardinality(made \cup {new}) = Cardinality(made) + 1
        /\ \A c \in made : c.n < new.n
    BY <1>1, NewIsNew
  <1>3. /\ pc = "creating" /\ pc' = "calling" /\ wire' = new /\ attempt' = attempt + 1
        /\ made' = made \cup {new} /\ cache' = cache \cup {new}
        /\ paid' = IF config.kind = "hash" THEN paid \cup {new} ELSE paid
        /\ UNCHANGED <<fixed, now, answer, selected, granted, spoiled, amiss, strayed>>
    BY <1>1 DEF Create, Send
  <1>4. Cardinality(made) \in Nat
    BY FS_CardinalityType DEF IInv, Typed
  <1>5. Typed'
    <2>1. \A c \in made' : c.n \in 1 .. Cardinality(made')
      BY <1>2, <1>3, <1>4 DEF IInv, Typed
    <2>2. attempt' \in 0 .. MaxAttempts
      BY <1>3, McpBounds DEF IInv, Typed, CacheInv, Choosing
    <2> QED
      BY <1>2, <1>3, <2>1, <2>2 DEF IInv, Typed
  <1>6. CacheInv'
    BY <1>2, <1>3 DEF IInv, CacheInv, Choosing
  <1>7. OneCredentialPerChallenge'
    <2> SUFFICES ASSUME NEW c \in made', NEW d \in made', c.challenge = d.challenge, c.n < d.n
                 PROVE  c \in spoiled'
      BY DEF OneCredentialPerChallenge
    <2>1. CASE d = new
      <3>1. c \in made /\ c \notin cache
        BY <1>2, <1>3, <1>4, <2>1 DEF IInv, CacheInv, Choosing
      <3> QED
        BY <1>3, <3>1 DEF IInv, CacheInv
    <2>2. CASE c = new
      BY <1>2, <1>3, <1>4, <2>2 DEF IInv, Typed
    <2>3. CASE c \in made /\ d \in made
      BY <1>3, <2>3 DEF IInv, OneCredentialPerChallenge
    <2> QED
      BY <1>3, <2>1, <2>2, <2>3
  <1>8. OfferInv'
    <2> SUFFICES ASSUME honest PROVE OfferInv'
      BY <1>3 DEF OfferInv, fixed
    <2>1. /\ selected.offer \in Range(Offers)
          /\ \A i \in DOMAIN answer.challenges : answer.challenges[i].offer \in Range(Offers)
          /\ \A c \in made : selected.offer = c.challenge.offer
      BY <1>3 DEF IInv, OfferInv, Choosing
    <2>2. \A c \in made' : c.challenge.offer = selected.offer
      BY <1>2, <1>3, <2>1
    <2>3. \A i \in DOMAIN answer.challenges : answer.challenges[i].offer = selected.offer
      BY <1>3 DEF IInv, Typed
    <2> QED
      BY <1>2, <1>3, <2>1, <2>2, <2>3 DEF OfferInv, Choosing
  <1>9. PaidInv'
    <2> SUFFICES ASSUME honest, config.kind = "transaction", ~amiss PROVE paid' \cap made' = {}
      BY <1>3 DEF PaidInv, fixed
    <2>1. paid \cap made = {}
      BY <1>3 DEF IInv, PaidInv
    <2>2. new \notin paid
      BY <1>2, <1>4 DEF IInv, Typed
    <2> QED
      BY <1>3, <2>1, <2>2
  <1>10. OriginInv'
    BY <1>2, <1>3 DEF IInv, OriginInv, Choosing, CheckOrigin, Origin, Guarded, Owns, fixed
  <1> QED
    BY <1>5, <1>6, <1>7, <1>8, <1>9, <1>10 DEF IInv

LEMMA RedirectKeeps == ASSUME IInv, Redirect PROVE IInv'
  <1> USE DEF Redirect, fixed, clientVars, Called
  <1>1. ~wire.challenge.offer.proof
    BY DEF IInv, OriginInv, CheckOrigin
  <1>2. OriginInv'
    BY <1>1 DEF IInv, OriginInv, Choosing, CheckOrigin, Origin, Guarded, Owns
  <1>3. Typed' /\ CacheInv' /\ OneCredentialPerChallenge'
    BY DEF IInv, Typed, CacheInv, OneCredentialPerChallenge, Choosing
  <1>4. OfferInv' /\ PaidInv'
    BY DEF IInv, OfferInv, PaidInv, Choosing
  <1> QED
    BY <1>2, <1>3, <1>4 DEF IInv

LEMMA StutterKeeps == ASSUME IInv, Tick \/ UNCHANGED vars PROVE IInv'
  <1> USE DEF Tick, vars, fixed, clientVars
  <1>1. Typed'
    BY McpBounds DEF IInv, Typed
  <1>2. CacheInv' /\ OneCredentialPerChallenge' /\ PaidInv'
    BY DEF IInv, CacheInv, OneCredentialPerChallenge, PaidInv, Choosing
  <1>3. OfferInv' /\ OriginInv'
    BY DEF IInv, OfferInv, OriginInv, Choosing, CheckOrigin, Origin, Guarded, Owns
  <1> QED
    BY <1>1, <1>2, <1>3 DEF IInv

-----------------------------------------------------------------------------
\* The invariant holds in every state of every tool call.
THEOREM IInvHolds == Spec => []IInv
  <1>1. ASSUME IInv, [Next]_vars PROVE IInv'
    <2>1. CASE Client
      BY <1>1, <2>1, FinishKeeps, UnpayableKeeps, ChooseKeeps, ApproveKeeps, CreateKeeps DEF Client
    <2>2. CASE Server
      BY <1>1, <2>2, ServerAnswers, AnswersKeep
    <2>3. CASE Redirect
      BY <1>1, <2>3, RedirectKeeps
    <2>4. CASE Tick \/ UNCHANGED vars
      BY <1>1, <2>4, StutterKeeps
    <2> QED
      BY <1>1, <2>1, <2>2, <2>3, <2>4 DEF Next
  <1> QED
    BY <1>1, InitEstablishes, PTL DEF Spec

\* For any bounds, the retry limit holds and no challenge has two cached
\* credentials.
THEOREM TypeCorrect == Spec => []TypeOK
  <1>1. IInv => TypeOK
    BY DEF IInv, Typed, CacheInv, TypeOK
  <1> QED
    BY <1>1, IInvHolds, PTL

\* Whatever a server asks for, a call pays a challenge once unless the payload
\* of its credential was refused.
THEOREM PaidOncePerChallenge == Spec => []OneCredentialPerChallenge
  <1>1. IInv => OneCredentialPerChallenge
    BY DEF IInv
  <1> QED
    BY <1>1, IInvHolds, PTL

\* Against this package's server, a call's transactions reach the chain at most
\* once, however many attempts it makes.
THEOREM OnChainOnce == Spec => []PaidOnce
  <1>1. ASSUME IInv PROVE PaidOnce
    <2> SUFFICES ASSUME honest, config.kind = "transaction", ~amiss
                 PROVE  Cardinality(paid \cap made) <= 1
      BY DEF PaidOnce
    <2>1. CASE paid \cap made = {}
      BY <2>1, FS_EmptySet
    <2>2. CASE paid \cap made # {}
      <3>1. PICK c \in made : paid \cap made \subseteq {c}
        BY <1>1, <2>2 DEF IInv, PaidInv
      <3>2. paid \cap made = {c}
        BY <2>2, <3>1
      <3> QED
        BY <3>2, FS_Singleton
    <2> QED
      BY <2>1, <2>2
  <1> QED
    BY <1>1, IInvHolds, PTL

\* Against this package's server, a call pays for one of the tool's offers.
THEOREM OneOffer == Spec => []OneOfferPaid
  <1>1. IInv => OneOfferPaid
    BY DEF IInv, OfferInv, OneOfferPaid
  <1> QED
    BY <1>1, IInvHolds, PTL

\* A proof reaches only the endpoint it was checked for, for any sessions,
\* hooks and trust.
THEOREM ProofsStay == Spec => []ProofsStayHome
  <1>1. IInv => ProofsStayHome
    BY DEF IInv, OriginInv, ProofsStayHome, CheckOrigin, Origin, Guarded, Owns
  <1> QED
    BY <1>1, IInvHolds, PTL
===============================================================================
