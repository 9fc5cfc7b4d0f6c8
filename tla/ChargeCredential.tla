--------------------------- MODULE ChargeCredential ---------------------------
(***************************************************************************)
(* One Tempo charge, from its request to its verdict: the server issues a  *)
(* challenge (pkg/tempo/server/method.go), the client authorizes, prepares *)
(* and signs a credential (pkg/tempo/client/method.go), and the server     *)
(* validates it and settles it itself, with a hosted fee payer, or through *)
(* a relay (pkg/tempo/server).                                             *)
(*                                                                         *)
(* Both sides decide by the same rules - which transfers, which chain,     *)
(* which kind of credential, how much time - each with code of its own and *)
(* by its own clock reading, so time passes between any two steps.  A node *)
(* may fail wherever it is asked, and so may the store; which claims are   *)
(* kept then, and retries, are Settlement's.                               *)
(***************************************************************************)
EXTENDS TransferMatching

CONSTANTS
  Requests,        \* what charges may ask for
  Clients,         \* configurations of this package's client
  Stranger,        \* a client that is not this package's
  Servers,         \* "local", "hosted", "relay"; "foreign": not this package's
  Payer,
  Realm, Ids,      \* realm and IDs of challenges; the charge's is the first of Ids
  NoChain, ServerChain,   \* ServerChain: of the server's RPC, absent a chain ID
  Spellings,       \* transfers a stranger may pay
  Windows,         \* how long a stranger's transaction is valid, in seconds
  Lifetimes,       \* of a challenge, in instants
  Sec,             \* instants in a second
  MinValidity,     \* FeePayerMinRemainingValidity (15 seconds)
  Window,          \* SponsoredValidBeforeWindow (60 seconds)
  MaxWindow,       \* feePayerMaxValidityWindow (15 minutes)
  PastExpiry,      \* what valid_before may exceed the expiry by (a minute)
  MaxClock         \* bound: the last instant of a behaviour

Kinds == {"transaction", "hash", "proof"}
Modes == {"pull", "push"}

\* modes: supportedModes, empty when it is not restricted.
IsRequest(r) ==
  /\ r.amount \in Nat /\ r.feePayer \in BOOLEAN
  /\ AreTransfers(r.splits)
  /\ \A i \in DOMAIN r.modes : r.modes[i] \in Modes

\* kind: Config.CredentialType, or "auto".  policy: MaxAmount and AllowChainIDs
\* under AllPolicies, each of which may be missing; "none" is no policy at all.
IsClient(c) ==
  /\ c.kind \in Kinds \cup {"auto"}
  /\ c.policy.limits \in {"none", "some"} /\ c.policy.amount \in Nat

ASSUME RequestsAssumption == \A r \in Requests : IsRequest(r)
ASSUME SpellingsAssumption == \A calls \in Spellings : AreTransfers(calls)
\* The fee of a transaction is not also what its charge is for.
ASSUME FeesAssumption ==
  /\ Payer # FeeController
  /\ \A r \in Requests : \A k \in DOMAIN expectedTransfers(r) :
       expectedTransfers(r)[k].to = FeeController => expectedTransfers(r)[k].amount # Fee
ASSUME ClientsAssumption == \A c \in Clients : IsClient(c)
\* The client's cap on valid_before is within what the server allows.
ASSUME WindowsAssumption ==
  /\ {Sec, MinValidity, Window, MaxWindow, PastExpiry, MaxClock} \subseteq Nat
  /\ Lifetimes \subseteq Nat /\ Windows \subseteq Nat
  /\ 0 < Sec /\ Sec <= MaxClock /\ MinValidity < Window /\ Window <= MaxWindow
  /\ MinValidity < PastExpiry

VARIABLES
  server, client, request, expires,    \* never change
  now,
  pc,          \* "issuing", "offered", "preparing", "prepared", "signed", "sent",
               \* "validated", "cosigned", "done"
  cred,        \* the credential: its kind, calls, valid_before, chain and source
  fixedAt,     \* history: when a sponsored transaction's valid_before was chosen
  signedAt,    \* history: when it was signed
  onchain,     \* the payment is on chain, or soon is
  verdict      \* "none", "unissued", "declined", "paid", "unknown", or a refusal

fixed == <<server, client, request, expires>>
vars == <<fixed, now, pc, cred, fixedAt, signedAt, onchain, verdict>>

ID == CHOOSE i \in Ids : TRUE
challenge == [realm |-> Realm, id |-> ID]

Floor(t) == t \div Sec                  \* time.Time.Unix
Remains(t, seconds) == t - now >= seconds * Sec
NoCred == [kind |-> "none", calls |-> <<>>, validBefore |-> 0, chain |-> NoChain, of |-> ID]

End(v) ==
  /\ pc' = "done" /\ verdict' = v
  /\ UNCHANGED <<fixed, now, cred, fixedAt, signedAt>>
Go(next) ==
  /\ pc' = next
  /\ UNCHANGED <<fixed, now, fixedAt, signedAt, verdict>>

-----------------------------------------------------------------------------
(* The request.                                                            *)

\* ChargeRequest.Allows.
Allows(kind) ==
  \/ kind = "proof" \/ request.modes = <<>>
  \/ \E i \in DOMAIN request.modes :
       <<request.modes[i], kind>> \in {<<"pull", "transaction">>, <<"push", "hash">>}

Sponsored(kind) == request.feePayer /\ kind = "transaction"

\* BuildChargeRequest: NormalizeChargeRequest, and the floor under the expiry
\* of a challenge that needs a sponsored transaction.
Issuable ==
  /\ ValidSplits(request)
  /\ request.feePayer /\ request.amount # 0 /\ Allows("transaction") =>
       Remains(expires, MinValidity)

Issue ==
  /\ pc = "issuing" /\ (server # "foreign" => Issuable)
  /\ Go("offered") /\ UNCHANGED <<cred, onchain>>
NotIssued ==
  /\ pc = "issuing" /\ server # "foreign" /\ ~Issuable
  /\ End("unissued") /\ UNCHANGED onchain

-----------------------------------------------------------------------------
(* This package's client: createCredential.                                *)

Own == client # Stranger

resolveCredentialType ==
  CASE client.kind # "auto" -> client.kind
    [] client.kind = "auto" /\ Allows("transaction") -> "transaction"
    [] OTHER -> "hash"

\* expectedChainID, and the chain of the client's RPC against it.
ChainAgreed ==
  /\ NoChain \notin {request.chain, client.chain} => request.chain = client.chain
  /\ request.chain # NoChain => client.rpcChain = request.chain
  /\ client.chain # NoChain => client.rpcChain = client.chain

\* The policy sees the whole amount, splits included, and the RPC's chain.
AllowedByPolicy ==
  /\ client.policy.limits = "some" =>
       request.currency = client.policy.currency /\ request.amount <= client.policy.amount
  /\ client.policy.chains # {} => client.rpcChain \in client.policy.chains

\* sponsoredValidBefore.
CapAtExpiry == Floor(expires) + MinValidity   \* mutant: its last fraction is lost
Cap == Floor(expires) + 1 + MinValidity
ValidBefore == Min({Floor(now + Window * Sec), Cap})
ChallengeTooSoon == ~Remains(expires, MinValidity)

MayPayAnyhow ==   \* mutant: supportedModes are not looked at
  /\ ValidSplits(request) /\ ChainAgreed /\ AllowedByPolicy
  /\ request.amount # 0 =>
       /\ Sponsored(resolveCredentialType) => ~ChallengeTooSoon
       /\ client.policy.configured
MayPay ==
  LET kind == resolveCredentialType IN
  /\ ValidSplits(request) /\ ChainAgreed
  /\ IF request.amount = 0 THEN AllowedByPolicy
     ELSE /\ Allows(kind) /\ kind # "proof"
          /\ Sponsored(kind) => ~ChallengeTooSoon
          /\ client.policy.configured /\ AllowedByPolicy

Decline ==
  /\ pc = "offered" /\ Own /\ ~MayPay
  /\ End("declined") /\ UNCHANGED onchain

\* A zero amount is paid by a proof.
SignProof ==
  /\ pc = "offered" /\ Own /\ MayPay /\ request.amount = 0
  /\ cred' = [NoCred EXCEPT !.kind = "proof", !.chain = client.rpcChain]
  /\ Go("sent") /\ UNCHANGED onchain

Authorize ==
  /\ pc = "offered" /\ Own /\ MayPay /\ request.amount # 0
  /\ Go("preparing") /\ UNCHANGED <<cred, onchain>>

\* buildTransfer, after the gas RPC.
Prepare ==
  /\ pc = "preparing"
  /\ LET kind == resolveCredentialType IN
       /\ Sponsored(kind) => ~ChallengeTooSoon
       /\ cred' = [NoCred EXCEPT
            !.kind = kind, !.calls = buildTransfers(request, challenge),
            !.chain = client.rpcChain,
            !.validBefore = IF Sponsored(kind) THEN ValidBefore ELSE 0]
       /\ fixedAt' = IF Sponsored(kind) THEN now ELSE 0
  /\ pc' = "prepared"
  /\ UNCHANGED <<fixed, now, signedAt, onchain, verdict>>

\* checkSponsoredSignable.
Signable ==
  Sponsored(cred.kind) =>
    /\ ~ChallengeTooSoon
    /\ Remains(cred.validBefore * Sec, MinValidity)

Sign ==
  /\ pc = "prepared" /\ Signable
  /\ signedAt' = IF Sponsored(cred.kind) THEN now ELSE 0
  /\ pc' = IF cred.kind = "hash" THEN "signed" ELSE "sent"
  /\ UNCHANGED <<fixed, now, cred, fixedAt, onchain, verdict>>

TooLate ==
  /\ \/ pc = "preparing" /\ Sponsored(resolveCredentialType) /\ ChallengeTooSoon
     \/ pc = "prepared" /\ ~Signable
  /\ End("declined") /\ UNCHANGED onchain

\* A hash credential's transaction is broadcast before the credential is sent;
\* a node that took it may not include it, or revert it.
Push ==
  /\ pc = "signed"
  /\ onchain' \in BOOLEAN
  /\ Go("sent") /\ UNCHANGED cred

\* A client that is not this package's pays what it likes, or proves what it has.
Pay ==
  /\ pc = "offered" /\ ~Own
  /\ \E kind \in Kinds, calls \in Spellings, w \in Windows, i \in Ids,
        chain \in {request.chain, ServerChain} :
       /\ kind = "proof" <=> calls = <<>>
       /\ kind = "proof" \/ i = ID
       /\ cred' = [kind |-> kind, calls |-> calls, chain |-> chain, of |-> i,
                   validBefore |-> IF Sponsored(kind) THEN Floor(now) + w ELSE 0]
       /\ onchain' \in {FALSE, kind = "hash"}
  /\ Go("sent")

-----------------------------------------------------------------------------
(* The server: validateCredential.                                         *)

Arrived == pc = "sent" /\ server # "foreign"
ChallengeExpired == now >= expires

Chain == IF request.chain = NoChain THEN ServerChain ELSE request.chain

\* validateFeePayerTransaction and validateFeePayerDeadline.
Latest == Min({Floor(now + MaxWindow * Sec), Floor(expires + PastExpiry * Sec)})
\* The minimum is rounded up to a whole second.
Deadline ==
  LET earliest == now + MinValidity * Sec
  IN  IF now % Sec = 0 THEN Floor(earliest) ELSE Floor(earliest) + 1

SponsorRefusal ==
  CASE cred.validBefore > Latest -> "window"
    [] cred.validBefore <= Latest /\ cred.validBefore < Deadline -> "deadline"
    [] OTHER -> "none"

\* A local fee payer's deadline is checked when it settles.
Sponsorship ==
  IF ~Sponsored(cred.kind) \/ (SponsorRefusal = "deadline" /\ server = "local")
  THEN "none" ELSE SponsorRefusal

\* The chain is the one of the credential's source, which may be missing.
ElsewhereSourced == cred.chain \notin {NoChain, Chain}

TransactionRefusal ==
  IF ~transactionMatches(cred.calls, request, challenge) THEN "transfers"
  ELSE IF ElsewhereSourced THEN "chain" ELSE Sponsorship

\* fetchReceipt fails unless there is a receipt of success.
HashRefusal ==
  IF cred.chain # Chain THEN "chain"
  ELSE IF ~onchain THEN "node"
  ELSE IF receiptMatches(Logs(Payer, cred.calls), request, challenge, Payer)
       THEN "none" ELSE "receipt"

ProofRefusal ==
  IF request.amount # 0 THEN "kind"
  ELSE IF cred.chain # Chain THEN "chain"
  ELSE IF cred.of # ID THEN "proof" ELSE "none"

Refusal ==
  IF request.chain # NoChain /\ ElsewhereSourced THEN "chain"
  ELSE IF (request.amount = 0 /\ cred.kind # "proof") \/ ~Allows(cred.kind) THEN "kind"
  ELSE CASE cred.kind = "transaction" -> TransactionRefusal
         [] cred.kind = "hash" -> HashRefusal
         [] cred.kind = "proof" -> ProofRefusal

\* VerifyOrChallenge, before any method is asked.
Expire ==
  /\ Arrived /\ ChallengeExpired
  /\ End("expired") /\ UNCHANGED onchain

Locally == Arrived /\ ~ChallengeExpired /\ server # "relay"

Refuse ==
  /\ Locally /\ Refusal # "none"
  /\ End(Refusal) /\ UNCHANGED onchain

\* A proof, or a payment that is on chain, needs no more than its claim.
Accept ==
  /\ Locally /\ Refusal = "none" /\ cred.kind # "transaction"
  /\ End("paid") /\ UNCHANGED onchain

\* These refusals come before the node is asked: for the chain, for fee tokens,
\* for a receipt, an access key or a simulation.
Unasked ==
  \/ Refusal \in {"kind", "transfers"}
  \/ Refusal = "chain" /\ request.chain # NoChain

\* The node fails, or a simulation does.  A hosted fee payer is not asked
\* before the payer's part of the transaction has been simulated.
NodeFails ==
  /\ \/ Locally /\ ~Unasked
     \/ pc = "validated" /\ server = "hosted" /\ Sponsored(cred.kind)
     \/ pc = "cosigned"
  /\ End("node") /\ UNCHANGED onchain

Validate ==
  /\ Locally /\ Refusal = "none" /\ cred.kind = "transaction"
  /\ Go("validated") /\ UNCHANGED <<cred, onchain>>

-----------------------------------------------------------------------------
(* broadcastTransaction.                                                   *)

\* Expiry and deadline are checked before and after the fee payer signs.
CheckedAgain ==
  IF ChallengeExpired THEN "expired"
  ELSE IF Sponsored(cred.kind) /\ cred.validBefore < Deadline THEN "deadline" ELSE "none"

CoSign ==
  /\ pc = "validated" /\ CheckedAgain = "none"
  /\ Go("cosigned") /\ UNCHANGED <<cred, onchain>>

\* A hosted fee payer may decline, or its answer not be acceptable.
NotCoSigned ==
  /\ pc = "validated" /\ server = "hosted" /\ Sponsored(cred.kind)
  /\ End("sponsor") /\ UNCHANGED onchain

NotSubmitted ==
  /\ pc \in {"validated", "cosigned"} /\ CheckedAgain # "none"
  /\ End(CheckedAgain) /\ UNCHANGED onchain

\* The claim fails, or the key is taken already.  What is sponsored is claimed
\* before it is co-signed, any other transaction before it is sent, and a hash
\* once its receipt is accepted.
NotClaimed ==
  /\ \/ Locally /\ Refusal = "none" /\ ~Sponsored(cred.kind)
     \/ pc = "validated" /\ Sponsored(cred.kind)
     \/ pc = "cosigned" /\ ~Sponsored(cred.kind) /\ CheckedAgain = "none"
  /\ End("claim") /\ UNCHANGED onchain

\* Whatever became of it, the node may answer with an error or with another
\* hash ("node"), or leave the wait without a receipt.  Once a receipt is read,
\* what was sponsored is still to be claimed by its hash.
Outcomes(paid) ==
  {"unknown", "node"} \cup
  IF ~paid THEN {"reverted"}
  ELSE IF receiptMatches(Logs(Payer, cred.calls), request, challenge, Payer)
       THEN {"paid"} \cup {v \in {"claim"} : Sponsored(cred.kind)}
       ELSE {"receipt"}

Submit ==
  /\ pc = "cosigned" /\ CheckedAgain = "none"
  /\ onchain' \in BOOLEAN
  /\ \E v \in Outcomes(onchain') : End(v)

-----------------------------------------------------------------------------
(* A relay settles it: relayClient.broadcast.                              *)

\* What a broadcast may bring: a failed exchange, a receipt that is or is not
\* one, and the codes of errors, of which "refused" stands for the ones that
\* tell that the relay settled nothing.
RelayAnswers(settled) ==
  {"no answer", "broadcast_failed", "unknown"} \cup
  IF settled THEN {"receipt", "bad receipt"} ELSE {"expired", "refused"}

RelayFailedAll(answer) ==   \* mutant: confirmation failures count as refusals
  answer \in {"expired", "refused", "broadcast_failed"}
RelayFailed(answer) == answer \in {"expired", "refused"}
RelayVerdict(answer) ==
  CASE answer = "receipt" -> "paid"
    [] RelayFailed(answer) -> IF answer = "expired" THEN "expired" ELSE "refused"
    [] OTHER -> "unknown"

Relay ==
  /\ Arrived /\ ~ChallengeExpired /\ server = "relay"
  /\ \E settled \in BOOLEAN :
       /\ onchain' = (onchain \/ (settled /\ cred.kind # "proof"))
       /\ \E answer \in RelayAnswers(settled) : End(RelayVerdict(answer))

-----------------------------------------------------------------------------
\* A stranger's timing adds nothing.
Tick ==
  /\ now < MaxClock /\ pc # "done" /\ Own
  /\ now' = now + 1
  /\ UNCHANGED <<fixed, pc, cred, fixedAt, signedAt, onchain, verdict>>

Init ==
  /\ server \in Servers /\ request \in Requests /\ expires \in Lifetimes
  /\ client \in Clients \cup {Stranger}
  /\ now \in 0 .. Sec - 1
  /\ client = Stranger => server = "local" /\ now = 0 /\ \A e \in Lifetimes : e <= expires
  /\ pc = "issuing" /\ cred = NoCred
  /\ fixedAt = 0 /\ signedAt = 0 /\ onchain = FALSE /\ verdict = "none"

Issuing == Issue \/ NotIssued
Paying == Decline \/ SignProof \/ Authorize \/ Prepare \/ Sign \/ TooLate \/ Push \/ Pay
Verifying == Expire \/ Refuse \/ NodeFails \/ Accept \/ Validate
Settling == CoSign \/ NotCoSigned \/ NotSubmitted \/ NotClaimed \/ Submit \/ Relay

Next == Issuing \/ Paying \/ Verifying \/ Settling \/ Tick

Spec == Init /\ [][Next]_vars

-----------------------------------------------------------------------------
(* Properties.                                                             *)

Refusals == {"expired", "window", "deadline", "transfers", "chain", "receipt",
             "kind", "proof", "sponsor", "refused", "node", "claim", "reverted"}

\* Times are ordered, a credential is of a kind the request allows when this
\* package's client made it, and only a verdict ends a charge.
TypeOK ==
  /\ now \in 0 .. MaxClock /\ signedAt <= now /\ fixedAt <= now
  /\ (pc = "done") = (verdict # "none")
  /\ verdict \in Refusals \cup {"none", "unissued", "declined", "paid", "unknown"}
  /\ Own /\ cred.kind # "none" => Allows(cred.kind) /\ (cred.kind = "proof") = (request.amount = 0)

Composed == pc = "sent" /\ cred.calls # <<>>

\* Whoever built a transaction, the greedy matching finds a matching of its
\* calls with the expected transfers exactly when there is one, and so it does
\* from the logs of its receipt, but for payments to the account of the fees,
\* which a receipt does not tell from fees: what is validated before the
\* broadcast is accepted after it, and what a client pushes is held to no less.
MatchingIsExact ==
  Composed =>
    LET expected == expectedTransfers(request)
        validated == transactionMatches(cred.calls, request, challenge)
        received == receiptMatches(Logs(Payer, cred.calls), request, challenge, Payer)
    IN  /\ validated <=> Satisfies(cred.calls, expected, challenge)
        /\ received <=> Satisfies(NotFees(cred.calls, expected), expected, challenge)
        /\ validated => received

\* A split of r is to carry the attribution memo of a challenge.
Names(r, id) ==
  \E i \in DOMAIN r.splits : BoundTo(r.splits[i].memo, [realm |-> Realm, id |-> id])

\* No transaction pays two challenges, of one request or of two: it would take
\* requests that name each other's challenge, and an ID is a hash of its request.
PaysOneChallenge ==
  Composed =>
    LET paid == {p \in Requests \X Ids :
                   /\ ValidSplits(p[1])
                   /\ transactionMatches(cred.calls, p[1], [realm |-> Realm, id |-> p[2]])}
    IN  \A p, q \in paid :
          p[2] # q[2] => Names(p[1], q[2]) /\ Names(q[1], p[2])

\* Whatever server asks, the transfers this package's client signs are
\* positive and add up to the amount its policy allowed, in the currency and
\* on the chain it allowed; without a policy it signs only proofs.
SpendsWhatWasAllowed ==
  Own /\ cred.calls # <<>> =>
    LET spent == Total(cred.calls) IN
    /\ client.policy.configured
    /\ \A i \in DOMAIN cred.calls : cred.calls[i].amount > 0
    /\ client.policy.limits = "some" =>
         spent <= client.policy.amount /\ request.currency = client.policy.currency
    /\ client.policy.chains # {} => cred.chain \in client.policy.chains
    /\ client.chain # NoChain => cred.chain = client.chain

\* What this package's client signs, this package's server accepts when it
\* arrives before the challenge expires and, for a sponsored transaction,
\* either at once or no later than Window - MinValidity - 1 seconds after its
\* valid_before was chosen: the two sides agree on the transfers, on the kind of
\* credential and on the rounding of every deadline.  (A challenge that names
\* no chain is on the one of the server's RPC, which the client cannot know.)
\* What remains is a node that fails, a transaction that reverts, a claim that
\* is not taken, and a hosted fee payer that declines.
SignedIsAccepted ==
  Own /\ server \in {"local", "hosted"} /\ verdict \in Refusals =>
    \/ verdict \in {"node", "reverted", "claim"}
    \/ verdict = "expired" /\ ChallengeExpired
    \/ verdict = "chain" /\ request.chain = NoChain
    \/ verdict = "sponsor" /\ server = "hosted"
    \/ verdict = "deadline" /\ now > signedAt
         /\ now > fixedAt + (Window - MinValidity - 1) * Sec

\* No rule of the server refuses a payment that is on chain once it has been
\* submitted: what was validated before is accepted after, a relay's answer is
\* no refusal unless it tells that nothing was settled, and neither a deadline
\* nor an expiry is looked at again.  Such a payment is refused only because the
\* node answered with an error or another hash, or because the claim that
\* follows the receipt of a sponsored transaction is not taken: a transaction
\* that is not sponsored was claimed before.  A transaction this package's client
\* pushed is refused on top of that only after the expiry, for a chain the
\* challenge did not name, or by a relay, which has rules of its own.
PaidIsNotRefused ==
  onchain /\ verdict \in Refusals =>
    \/ verdict = "node" /\ server # "relay"
    \/ verdict = "claim" /\ (cred.kind = "hash" \/ Sponsored(cred.kind))
    \/ /\ cred.kind = "hash"
       /\ Own /\ server # "relay" =>
            verdict = "expired" \/ (verdict = "chain" /\ request.chain = NoChain)
===============================================================================
