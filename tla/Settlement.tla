----------------------------- MODULE Settlement -----------------------------
(***************************************************************************)
(* Settlement of Tempo charge credentials, pkg/tempo/server/charge.go.     *)
(*                                                                         *)
(* Workers are the goroutines that run Intent.Broadcast, in one server     *)
(* replica or in several, for credentials of ONE challenge.  They share    *)
(* the replay store and the chain.  Replay keys and transactions of        *)
(* different challenges never meet (a transaction's primary transfer       *)
(* carries an attribution memo that names its challenge), so one challenge *)
(* at a time is enough.                                                    *)
(*                                                                         *)
(* A worker runs the code between two external calls as one step.  Calls   *)
(* that only read the chain and have no store call between them are one    *)
(* step too: inclusion is permanent, so what the first of them saw still   *)
(* holds at the last.  Every call that takes the request's context may     *)
(* fail at any time: the node or store is unreachable, or the client       *)
(* disconnected.                                                           *)
(***************************************************************************)
EXTENDS Naturals, FiniteSets

CONSTANTS
  Workers,     \* goroutines that settle credentials
  Payments,    \* transactions the payer signed for the challenge
  FeeTokens,   \* tokens a fee payer may pay gas in: one envelope each
  Sender,      \* stands for the envelope the payer completes and pays for
  ProofRef,    \* the challenge itself, which a zero-amount proof refers to
  Charges,     \* the charges a behaviour may be about, see Charge
  ExpireKeys,  \* IntentConfig.ExpireReplayKeys
  Deadline,    \* instant a sponsored transaction has < 15s of validity left
  Expires,     \* instant the challenge expires
  KeyExpiry,   \* instant replay keys expire: Expires + replayClaimExpiryGrace
  MaxClock,    \* bound: the last instant of a behaviour
  MaxFaults    \* bound: lost store replies, failed deletes and crashes

\* zero: a zero-amount charge, paid by a proof.  sponsor: who pays the gas of
\* a transaction credential ("none": the payer does).  paidBy: the payments
\* whose receipt satisfies the charge (receiptMatches).  own: the payments the
\* payer signed to pay gas for itself; it left the others for a fee payer to
\* complete.  legacy: the store holds the challenge's reservation of an
\* earlier version.
Charge == [zero : BOOLEAN, sponsor : {"none", "local", "hosted"},
           paidBy : SUBSET Payments, own : SUBSET Payments, legacy : BOOLEAN]

Tokens == FeeTokens \cup {Sender}

ASSUME SenderIsNoToken == Sender \notin FeeTokens
ASSUME ProofIsNoPayment == ProofRef \notin Payments
ASSUME ChargesAssumption == Charges \subseteq Charge
ASSUME ClockAssumption ==
  /\ ExpireKeys \in BOOLEAN
  /\ {Deadline, Expires, KeyExpiry, MaxClock, MaxFaults} \subseteq Nat
  /\ Expires <= KeyExpiry

VARIABLES
  charge,      \* the charge under settlement; never changes
  now,         \* the clock
  pool,        \* envelopes some node accepted and may still include
  chain,       \* the included envelope of each payment and its status
  store,       \* replay keys in the shared store
  faults,      \* faults so far
  receipts,    \* history: receipts handed out per reference
  pc,          \* where each worker is, or its last answer
  pay,         \* the payment it settles
  token,       \* the envelope it looks up or broadcasts
  seen,        \* status in the receipt it holds (includedReceipt, receiptMap)
  claimed      \* its claimedKeys

world == <<charge, now, pool, chain, faults>>
vars == <<charge, now, pool, chain, store, faults, receipts,
          pc, pay, token, seen, claimed>>

Refs == Payments \cup {ProofRef}
Statuses == {"none", "ok", "reverted"}

\* What Broadcast answers: a receipt, ErrCredentialReplayed (403), another
\* error (402 or 500), or ErrPaymentOutcomeUnknown.
Answers == {"receipt", "used", "failed", "unknown"}
Busy == {"claimHash", "claimProof", "screen", "claimCharge", "claimSponsored",
         "cosign", "send", "await", "recoverDoubtful", "recoverRejected",
         "conclude", "claimFinal", "releaseFailed", "releaseUnknown"}
PCs == {"idle"} \cup Answers \cup Busy

Ready(w) == pc[w] \notin Busy

-----------------------------------------------------------------------------
(* Replay keys and the store.  The contract is tempo.ExpiringStore's:      *)
(* every call is atomic, an entry is never dropped before its expiry, and  *)
(* PutIfAbsentUntil refuses a deadline that has passed.                    *)

ChargeKey(p, t) == <<"charge", p, t>>
SponsoredKey(p) == <<"sponsor", p, Sender>>
RawProofKey == <<"proof", "challenge-id", Sender>>   \* mutant: the bare challenge ID
ProofKey == <<"proof", ProofRef, Sender>>
LegacyKey == <<"legacy", ProofRef, Sender>>
Keys == {"charge", "sponsor", "proof", "legacy"} \X Refs \X Tokens

KeysLive == ExpireKeys => now < KeyExpiry

\* Store.Get finds the key.
Visible(k) == k \in store /\ (KeysLive \/ k = LegacyKey)

PutAnyway(k) == KeysLive   \* mutant: Put instead of PutIfAbsent
Claimable(k) == k \notin store /\ KeysLive

\* claimReplayKey stored the key and said so.
ClaimAccepted(k) ==
  /\ Claimable(k)
  /\ store' = store \cup {k}
  /\ UNCHANGED faults

\* claimReplayKey found the key used, or too late to store.
ClaimRefused(k) ==
  /\ ~Claimable(k)
  /\ UNCHANGED <<store, faults>>

\* claimReplayKey failed: the store never saw the call, or its reply was lost
\* after it stored the key.
ClaimErred(k) ==
  \/ UNCHANGED <<store, faults>>
  \/ /\ Claimable(k)
     /\ faults < MaxFaults
     /\ store' = store \cup {k}
     /\ faults' = faults + 1

-----------------------------------------------------------------------------
Goto(w, where) == pc' = [pc EXCEPT ![w] = where]

\* Broadcast returns without running a release: it never claimed a key, or
\* included is set, or it succeeded.
Return(w, answer) ==
  /\ Goto(w, answer)
  /\ claimed' = [claimed EXCEPT ![w] = {}]

Issue(r) == receipts' = [receipts EXCEPT ![r] = @ + 1]

Included(p, t) == chain[p].status # "none" /\ chain[p].token = t

Unexpired == now < Expires
Signable == now < Deadline

-----------------------------------------------------------------------------
(* Hash credentials: the payer already broadcast the transaction.          *)

\* validateHash: the receipt fetched satisfies the charge; anything else is
\* an error.  Broadcast then checks the challenge's expiry.
ValidateHash(w, p, t) ==
  /\ Ready(w)
  /\ ~charge.zero
  /\ \/ /\ Included(p, t) /\ chain[p].status = "ok" /\ p \in charge.paidBy
        /\ Unexpired
        /\ Goto(w, "claimHash")
        /\ pay' = [pay EXCEPT ![w] = p]
        /\ token' = [token EXCEPT ![w] = t]
     \/ /\ Goto(w, "failed")
        /\ UNCHANGED <<pay, token>>
  /\ UNCHANGED <<world, store, receipts, seen, claimed>>

ClaimHash(w) ==
  /\ pc[w] = "claimHash"
  /\ LET k == ChargeKey(pay[w], token[w]) IN
     \/ ClaimAccepted(k) /\ Return(w, "receipt") /\ Issue(pay[w])
     \/ ClaimRefused(k) /\ Return(w, "used") /\ UNCHANGED receipts
     \/ ClaimErred(k) /\ Return(w, "failed") /\ UNCHANGED receipts
  /\ UNCHANGED <<charge, now, pool, chain, pay, token, seen>>

-----------------------------------------------------------------------------
(* Proof credentials of a zero-amount charge.                              *)

\* validateProof may refuse the signature, or fail to read the chain.
ValidateProof(w) ==
  /\ Ready(w)
  /\ charge.zero
  /\ \/ Unexpired /\ Goto(w, "claimProof")
     \/ Goto(w, "failed")
  /\ UNCHANGED <<world, store, receipts, pay, token, seen, claimed>>

ClaimProof(w) ==
  /\ pc[w] = "claimProof"
  /\ \/ ClaimAccepted(ProofKey) /\ Return(w, "receipt") /\ Issue(ProofRef)
     \/ ClaimRefused(ProofKey) /\ Return(w, "used") /\ UNCHANGED receipts
     \/ ClaimErred(ProofKey) /\ Return(w, "failed") /\ UNCHANGED receipts
  /\ UNCHANGED <<charge, now, pool, chain, pay, token, seen>>

-----------------------------------------------------------------------------
(* Transaction credentials the payer pays gas for.                         *)

\* validateTransaction answers a replay before it simulates anything.
CheckUsed(w, p) ==
  /\ Ready(w)
  /\ ~charge.zero /\ charge.sponsor = "none" /\ p \in charge.own
  /\ \/ Visible(ChargeKey(p, Sender)) /\ Goto(w, "used")
     \/ ~Visible(ChargeKey(p, Sender)) /\ Goto(w, "screen")
     \/ Goto(w, "failed")
  /\ pay' = [pay EXCEPT ![w] = p]
  /\ token' = [token EXCEPT ![w] = Sender]
  /\ seen' = [seen EXCEPT ![w] = "none"]
  /\ UNCHANGED <<world, store, receipts, claimed>>

\* The rest of validateTransaction and broadcastTransaction up to the claim:
\* settle from the receipt of an earlier attempt, or else simulate (twice,
\* with the same effect on what follows).
Screen(w) ==
  /\ pc[w] = "screen"
  /\ \/ /\ Unexpired
        /\ \/ /\ Included(pay[w], token[w])
              /\ seen' = [seen EXCEPT ![w] = chain[pay[w]].status]
           \/ seen' = [seen EXCEPT ![w] = "none"]
        /\ Goto(w, "claimCharge")
     \/ Goto(w, "failed") /\ UNCHANGED seen
  /\ UNCHANGED <<world, store, receipts, pay, token, claimed>>

\* mutant: the key joins claimedKeys before the store's answer is looked at.
ClaimChargeAppendingFirst(w) ==
  /\ pc[w] = "claimCharge"
  /\ claimed' = [claimed EXCEPT ![w] = {ChargeKey(pay[w], token[w])}]
  /\ LET k == ChargeKey(pay[w], token[w]) IN
     \/ /\ ClaimAccepted(k)
        /\ Goto(w, IF seen[w] = "none" THEN "send" ELSE "conclude")
     \/ ClaimRefused(k) /\ Goto(w, "releaseFailed")
     \/ ClaimErred(k) /\ Goto(w, "releaseFailed")
  /\ UNCHANGED <<charge, now, pool, chain, receipts, pay, token, seen>>

ClaimCharge(w) ==
  /\ pc[w] = "claimCharge"
  /\ LET k == ChargeKey(pay[w], token[w]) IN
     \/ /\ ClaimAccepted(k)
        /\ claimed' = [claimed EXCEPT ![w] = @ \cup {k}]
        /\ Goto(w, IF seen[w] = "none" THEN "send" ELSE "conclude")
     \/ ClaimRefused(k) /\ Return(w, "used")
     \/ ClaimErred(k) /\ Return(w, "failed")
  /\ UNCHANGED <<charge, now, pool, chain, receipts, pay, token, seen>>

-----------------------------------------------------------------------------
(* Transaction credentials a fee payer sponsors.                           *)

\* validateTransaction and the replay checks that open broadcastTransaction.
\* A local fee payer picks its fee token by live balance (resolveFeeToken);
\* a remote one picks it later, and has the deadline checked and the sender
\* simulated first.
CheckSponsored(w, p, t) ==
  /\ Ready(w)
  /\ ~charge.zero /\ charge.sponsor # "none" /\ p \notin charge.own
  /\ \/ /\ Unexpired
        /\ charge.sponsor = "hosted" => Signable
        /\ IF Visible(LegacyKey) \/ Visible(SponsoredKey(p))
           THEN Goto(w, "used") ELSE Goto(w, "claimSponsored")
     \/ Goto(w, "failed")
  /\ pay' = [pay EXCEPT ![w] = p]
  /\ token' = [token EXCEPT ![w] = t]
  /\ seen' = [seen EXCEPT ![w] = "none"]
  /\ UNCHANGED <<world, store, receipts, claimed>>

ClaimSponsored(w) ==
  /\ pc[w] = "claimSponsored"
  /\ LET k == SponsoredKey(pay[w]) IN
     \/ /\ ClaimAccepted(k)
        /\ claimed' = [claimed EXCEPT ![w] = @ \cup {k}]
        /\ Goto(w, "cosign")
     \/ ClaimRefused(k) /\ Return(w, "used")
     \/ ClaimErred(k) /\ Return(w, "failed")
  /\ UNCHANGED <<charge, now, pool, chain, receipts, pay, token, seen>>

\* Co-sign, then settle from the receipt of an earlier attempt, if the lookup
\* finds one.  A local fee payer rebuilds the envelope of every fee token
\* (altFeeTokens) and settles past the deadline too; a remote one is asked for
\* one envelope, which may differ from the one of an earlier attempt.
CosignFound(w, t) ==
  /\ pc[w] = "cosign"
  /\ Unexpired
  /\ charge.sponsor = "hosted" => Signable
  /\ Included(pay[w], t)
  /\ token' = [token EXCEPT ![w] = t]
  /\ seen' = [seen EXCEPT ![w] = chain[pay[w]].status]
  /\ Goto(w, "conclude")
  /\ UNCHANGED <<world, store, receipts, pay, claimed>>

\* mutant: only the envelope of the selected fee token is looked up.
CosignSelectedOnly(w) == CosignFound(w, token[w])

CosignIncluded(w) == \E t \in FeeTokens : CosignFound(w, t)

\* No receipt found, or the lookup failed: the simulations pass and the
\* deadline leaves time to broadcast.
CosignReady(w) ==
  /\ pc[w] = "cosign"
  /\ Unexpired /\ Signable
  /\ \E t \in FeeTokens :
       /\ charge.sponsor = "local" => t = token[w]
       /\ token' = [token EXCEPT ![w] = t]
  /\ Goto(w, "send")
  /\ UNCHANGED <<world, store, receipts, pay, seen, claimed>>

\* The deadline passed, the fee payer refused, the policy or a simulation
\* rejected the transaction, or the challenge expired.
CosignAbort(w) ==
  /\ pc[w] = "cosign"
  /\ Goto(w, "releaseFailed")
  /\ UNCHANGED <<world, store, receipts, pay, token, seen, claimed>>

-----------------------------------------------------------------------------
(* Broadcast and receipt, for both kinds of transaction credential.        *)

\* A node may take the envelope of a payment that is not on chain yet.
Submit(p, t) == chain[p].status = "none" /\ pool' = pool \cup {<<p, t>>}

\* eth_sendRawTransaction: accepted (under another hash, if the node errs);
\* no answer, whether the node took it or not; refused as a duplicate; or
\* rejected.
Send(w) ==
  /\ pc[w] = "send"
  /\ \/ /\ Submit(pay[w], token[w])
        /\ \E next \in {"await", "releaseFailed", "recoverDoubtful"} : Goto(w, next)
     \/ Goto(w, "recoverDoubtful") /\ UNCHANGED pool
     \/ Goto(w, "recoverRejected") /\ UNCHANGED pool
  /\ UNCHANGED <<charge, now, chain, faults, store, receipts,
                 pay, token, seen, claimed>>

\* The receipt of the envelope the worker broadcast is there.
ReceiptFound(w) ==
  /\ Included(pay[w], token[w])
  /\ seen' = [seen EXCEPT ![w] = chain[pay[w]].status]
  /\ Goto(w, "conclude")

\* mutant: an inconclusive wait keeps the claims, as earlier releases did.
AwaitKeepingClaims(w) ==
  /\ pc[w] = "await"
  /\ \/ ReceiptFound(w) /\ UNCHANGED claimed
     \/ Return(w, "unknown") /\ UNCHANGED seen
  /\ UNCHANGED <<world, store, receipts, pay, token>>

\* fetchReceipt: polls for a bounded time, and gives up on an RPC error.
Await(w) ==
  /\ pc[w] = "await"
  /\ \/ ReceiptFound(w)
     \/ Goto(w, "releaseUnknown") /\ UNCHANGED seen
  /\ UNCHANGED <<world, store, receipts, pay, token, claimed>>

\* lookupConfirmedReceipt, after the node's answer to a send was an error.
Recover(w) ==
  /\ \/ pc[w] \in {"recoverDoubtful", "recoverRejected"} /\ ReceiptFound(w)
     \/ /\ \/ pc[w] = "recoverDoubtful" /\ Goto(w, "releaseUnknown")
           \/ pc[w] = "recoverRejected" /\ Goto(w, "releaseFailed")
        /\ UNCHANGED seen
  /\ UNCHANGED <<world, store, receipts, pay, token, claimed>>

-----------------------------------------------------------------------------
(* The verdict on an included transaction.                                 *)

\* The receipt succeeded and satisfies the charge.
Pays(w) == seen[w] = "ok" /\ pay[w] \in charge.paidBy

\* mutant: any receipt will do.
ConcludeUnchecked(w) ==
  /\ pc[w] = "conclude"
  /\ Return(w, "receipt") /\ Issue(pay[w])
  /\ UNCHANGED <<world, store, pay, token, seen>>

\* mutant: a transaction that cannot pay has its claims released.
ConcludeReleasing(w) ==
  /\ pc[w] = "conclude"
  /\ \/ Pays(w) /\ charge.sponsor = "none" /\ Return(w, "receipt") /\ Issue(pay[w])
     \/ /\ Pays(w) /\ charge.sponsor # "none"
        /\ Goto(w, "claimFinal")
        /\ UNCHANGED <<receipts, claimed>>
     \/ ~Pays(w) /\ Goto(w, "releaseFailed") /\ UNCHANGED <<receipts, claimed>>
  /\ UNCHANGED <<world, store, pay, token, seen>>

\* A transaction that cannot pay keeps its claims: its credential stays used.
Conclude(w) ==
  /\ pc[w] = "conclude"
  /\ \/ ~Pays(w) /\ Return(w, "failed") /\ UNCHANGED receipts
     \/ Pays(w) /\ charge.sponsor = "none" /\ Return(w, "receipt") /\ Issue(pay[w])
     \/ /\ Pays(w) /\ charge.sponsor # "none"
        /\ Goto(w, "claimFinal")
        /\ UNCHANGED <<receipts, claimed>>
  /\ UNCHANGED <<world, store, pay, token, seen>>

\* mutant: the sponsored claim alone guards the receipt.
ClaimFinalSkipped(w) ==
  /\ pc[w] = "claimFinal"
  /\ Return(w, "receipt") /\ Issue(pay[w])
  /\ UNCHANGED <<world, store, pay, token, seen>>

\* A sponsored payment records the transaction hash last; when the store
\* fails, it releases the sponsored claim for a retry.
ClaimFinal(w) ==
  /\ pc[w] = "claimFinal"
  /\ LET k == ChargeKey(pay[w], token[w]) IN
     \/ ClaimAccepted(k) /\ Return(w, "receipt") /\ Issue(pay[w])
     \/ ClaimRefused(k) /\ Return(w, "used") /\ UNCHANGED receipts
     \/ ClaimErred(k) /\ Goto(w, "releaseFailed") /\ UNCHANGED <<receipts, claimed>>
  /\ UNCHANGED <<charge, now, pool, chain, pay, token, seen>>

\* The deferred release.  A delete that fails, which the answer mentions, may
\* have left the key in the store.
Release(w) ==
  /\ \/ pc[w] = "releaseFailed" /\ Return(w, "failed")
     \/ pc[w] = "releaseUnknown" /\ Return(w, "unknown")
  /\ \/ store' = store \ claimed[w] /\ UNCHANGED faults
     \/ faults < MaxFaults /\ faults' = faults + 1 /\ UNCHANGED store
  /\ UNCHANGED <<charge, now, pool, chain, receipts, pay, token, seen>>

-----------------------------------------------------------------------------
(* The environment.                                                        *)

\* The replica a worker runs in dies; its claims stay in the store.
Crash(w) ==
  /\ ~Ready(w)
  /\ faults < MaxFaults
  /\ faults' = faults + 1
  /\ Return(w, "idle")
  /\ UNCHANGED <<charge, now, pool, chain, store, receipts, pay, token, seen>>

\* The payer broadcasts a payment itself.
Push(p) ==
  /\ p \in charge.own
  /\ Submit(p, Sender)
  /\ UNCHANGED <<charge, now, chain, faults, store, receipts,
                 pc, pay, token, seen, claimed>>

\* The chain includes at most one envelope of a payment.
Include(p, t, status) ==
  /\ <<p, t>> \in pool
  /\ chain[p].status = "none"
  /\ chain' = [chain EXCEPT ![p] = [status |-> status, token |-> t]]
  /\ UNCHANGED <<charge, now, pool, faults, store, receipts,
                 pc, pay, token, seen, claimed>>

Tick ==
  /\ now < MaxClock
  /\ now' = now + 1
  /\ UNCHANGED <<charge, pool, chain, faults, store, receipts,
                 pc, pay, token, seen, claimed>>

-----------------------------------------------------------------------------
Init ==
  /\ charge \in Charges
  /\ now = 0
  /\ pool = {}
  /\ chain = [p \in Payments |-> [status |-> "none", token |-> Sender]]
  /\ store = IF charge.legacy THEN {LegacyKey} ELSE {}
  /\ faults = 0
  /\ receipts = [r \in Refs |-> 0]
  /\ pc = [w \in Workers |-> "idle"]
  /\ pay \in [Workers -> Payments]
  /\ token = [w \in Workers |-> Sender]
  /\ seen = [w \in Workers |-> "none"]
  /\ claimed = [w \in Workers |-> {}]

\* Broadcast is called with a credential.
Start(w) ==
  \/ \E p \in Payments, t \in Tokens : ValidateHash(w, p, t)
  \/ ValidateProof(w)
  \/ \E p \in Payments : CheckUsed(w, p)
  \/ \E p \in Payments, t \in FeeTokens : CheckSponsored(w, p, t)

\* Broadcast goes on.
Step(w) ==
  \/ ClaimHash(w) \/ ClaimProof(w)
  \/ Screen(w) \/ ClaimCharge(w)
  \/ ClaimSponsored(w) \/ CosignIncluded(w) \/ CosignReady(w) \/ CosignAbort(w)
  \/ Send(w) \/ Await(w) \/ Recover(w)
  \/ Conclude(w) \/ ClaimFinal(w) \/ Release(w)

Environment ==
  \/ \E p \in Payments : Push(p)
  \/ \E p \in Payments, t \in Tokens, status \in {"ok", "reverted"} :
       Include(p, t, status)
  \/ Tick

Next ==
  \/ \E w \in Workers : Start(w) \/ Step(w) \/ Crash(w)
  \/ Environment

Spec == Init /\ [][Next]_vars

-----------------------------------------------------------------------------
(* Safety.                                                                 *)

\* Every variable has its type; every key in the store is one the code can
\* look up again (broadcastCredential and broadcastTransaction).
TypeOK ==
  /\ charge \in Charges
  /\ now \in Nat
  /\ pool \subseteq Payments \X Tokens
  /\ chain \in [Payments -> [status : Statuses, token : Tokens]]
  /\ store \subseteq Keys
  /\ faults \in Nat
  /\ receipts \in [Refs -> Nat]
  /\ pc \in [Workers -> PCs]
  /\ pay \in [Workers -> Payments]
  /\ token \in [Workers -> Tokens]
  /\ seen \in [Workers -> Statuses]
  /\ claimed \in [Workers -> SUBSET Keys]

\* No payment, and no proof, ever buys two receipts: not by racing workers,
\* not by a hash and a transaction credential for the same transaction, not
\* after a crash, and not once its replay keys have expired.
OneReceiptPerPayment == \A r \in Refs : receipts[r] <= 1

\* The states of broadcastTransaction between its claim and its return.
Settling == {"cosign", "send", "await", "recoverDoubtful", "recoverRejected",
             "conclude", "claimFinal", "releaseFailed", "releaseUnknown"}

\* Two workers never settle one payment at the same time: a claim is not
\* taken, released or expired under the worker that holds it.
OneSettlerPerPayment ==
  \A v, w \in Workers :
    v # w /\ pc[v] \in Settling /\ pc[w] \in Settling => pay[v] # pay[w]

\* Included, and never able to pay the challenge.
Burnt(p) == chain[p].status # "none" /\
            ~(chain[p].status = "ok" /\ p \in charge.paidBy)

\* As long as no reply is lost and no replica dies, a key in the store has a
\* reason to be there: a worker that will release it, a receipt, or an
\* included transaction that cannot pay.  Otherwise a paid credential is
\* locked out for good.
NoStrandedClaim ==
  faults = 0 =>
    \A k \in store \ {LegacyKey} : Visible(k) =>
      \/ \E w \in Workers : k \in claimed[w]
      \/ receipts[k[2]] > 0
      \/ k[2] \in Payments /\ Burnt(k[2])

\* A key leaves the store only by the hand of the worker that took it, which
\* saw neither a revert nor a receipt that falls short, and a key that
\* records a receipt never leaves.
ConsumedStaysClaimed ==
  [][\A k \in store \ store' :
       /\ \E w \in Workers : /\ k \in claimed[w] /\ k \notin claimed'[w]
                             /\ seen[w] = "none" \/ Pays(w)
       /\ k[1] = "sponsor" \/ receipts[k[2]] = 0]_vars

\* Settlement keeps the promise of PaymentOnce: a receipt goes only to a
\* payment that was included, succeeded and satisfies the charge, once.
Once == INSTANCE PaymentOnce WITH
          due <- IF charge.zero THEN {ProofRef} ELSE charge.paidBy,
          outcome <- [p \in Payments |-> chain[p].status]

ImplementsPaymentOnce == Once!Spec

\* What broadcastTransaction says of itself: "Every replay claim taken below is
\* released when settlement fails, even after the broadcast, unless the
\* transaction was included".  Checked when no other worker is about.
FailureReleasesClaims ==
  \A w \in Workers :
    /\ pc[w] \in {"failed", "unknown"} /\ chain[pay[w]].status = "none"
    /\ \A v \in Workers : Ready(v)
    => \A k \in store : k[2] # pay[w]

-----------------------------------------------------------------------------
(* Liveness.                                                               *)

\* A transaction credential of p passes validation and is under way.
Underway(w, p) == pay[w] = p /\ pc[w] \in {"screen", "claimSponsored"}

\* The payer presents the transaction credential of p again.
Retry(w, p) ==
  \/ CheckUsed(w, p)
  \/ \E t \in FeeTokens : CheckSponsored(w, p, t)

\* The lookup of an included transaction failed, and yet its simulation passed.
Missed(w) == /\ pc[w] = "screen" /\ Included(pay[w], token[w])
             /\ pc'[w] = "claimCharge" /\ seen'[w] = "none"

\* A goroutine that can run does.  The payer retries for as long as it has no
\* receipt, and neither the store nor the lookups fail forever.  Nothing is
\* assumed of the fee token the balance selects, of sends and waits, or of
\* hash credentials.
Fairness ==
  /\ \A w \in Workers : WF_vars(Step(w))
  /\ \A p \in Payments :
       SF_vars(\E w \in Workers : Retry(w, p) /\ Underway(w, p)')
  /\ SF_vars(\E w \in Workers : Screen(w) /\ pc'[w] = "claimCharge")
  /\ SF_vars(\E w \in Workers : ClaimCharge(w) /\ claimed'[w] # {})
  /\ SF_vars(\E w \in Workers : ClaimSponsored(w) /\ claimed'[w] # {})
  /\ SF_vars(\E w \in Workers : CosignIncluded(w))
  /\ SF_vars(\E w \in Workers : ClaimFinal(w) /\ pc'[w] = "receipt")
  /\ <>[][\A w \in Workers : ~Missed(w)]_vars

LiveSpec == Spec /\ Fairness

\* A payment the chain took from its transaction credential ends in a receipt,
\* unless the challenge expires first, after which Broadcast refuses every
\* retry: sends without an answer, waits that gave up, releases and a changed
\* fee token never lock a paid credential out.  A sponsored transaction's own
\* deadline may pass meanwhile.
Recovery ==
  \A p \in Payments :
    (/\ chain[p].status = "ok" /\ p \in charge.paidBy
     /\ charge.sponsor = "none" \/ p \notin charge.own)
      ~> (receipts[p] = 1 \/ ~Unexpired)
=============================================================================
