-------------------------- MODULE SettlementProofs --------------------------
(***************************************************************************)
(* Theorems about Settlement, for every set of workers, payments, fee      *)
(* tokens and charges, and for every clock and number of faults.           *)
(***************************************************************************)
EXTENDS Settlement, TLAPS

USE ChargesAssumption DEF Charge, Statuses, Answers, Busy, PCs, Refs, Tokens

-----------------------------------------------------------------------------
(* Types.                                                                  *)

\* What the helpers of the actions assign has its type.
LEMMA GotoType ==
  ASSUME TypeOK, NEW w \in Workers, NEW place \in PCs, Goto(w, place)
  PROVE  pc' \in [Workers -> PCs]
  BY DEF TypeOK, Goto

LEMMA ReturnType ==
  ASSUME TypeOK, NEW w \in Workers, NEW answer \in PCs, Return(w, answer)
  PROVE  pc' \in [Workers -> PCs] /\ claimed' \in [Workers -> SUBSET Keys]
  BY DEF TypeOK, Return, Goto

LEMMA IssueType ==
  ASSUME TypeOK, NEW r \in Refs, Issue(r)
  PROVE  receipts' \in [Refs -> Nat]
  BY DEF TypeOK, Issue

LEMMA KeyTypes ==
  /\ \A p \in Payments, t \in Tokens : ChargeKey(p, t) \in Keys
  /\ \A p \in Payments : SponsoredKey(p) \in Keys
  /\ ProofKey \in Keys /\ LegacyKey \in Keys
  BY DEF Keys, ChargeKey, SponsoredKey, ProofKey, LegacyKey

LEMMA ClaimType ==
  ASSUME TypeOK, NEW k \in Keys,
         ClaimAccepted(k) \/ ClaimRefused(k) \/ ClaimErred(k)
  PROVE  store' \subseteq Keys /\ faults' \in Nat
  BY DEF TypeOK, ClaimAccepted, ClaimRefused, ClaimErred

\* Every step keeps the types.
LEMMA TypeStep == TypeOK /\ [Next]_vars => TypeOK'
<1> SUFFICES ASSUME TypeOK, [Next]_vars PROVE TypeOK'
  OBVIOUS
<1> USE KeyTypes DEF TypeOK, world
<1>1. ASSUME NEW w \in Workers, NEW p \in Payments, NEW t \in Tokens,
             ValidateHash(w, p, t)
      PROVE TypeOK'
  <2>1. pc' \in [Workers -> PCs]
    BY <1>1, GotoType DEF ValidateHash
  <2>2. pay' \in [Workers -> Payments] /\ token' \in [Workers -> Tokens]
    BY <1>1 DEF ValidateHash
  <2> QED
    BY <1>1, <2>1, <2>2 DEF ValidateHash
<1>2. ASSUME NEW w \in Workers, ClaimHash(w) PROVE TypeOK'
  BY <1>2, GotoType, ReturnType, IssueType, ClaimType DEF ClaimHash
<1>3. ASSUME NEW w \in Workers, ValidateProof(w) PROVE TypeOK'
  BY <1>3, GotoType DEF ValidateProof
<1>4. ASSUME NEW w \in Workers, ClaimProof(w) PROVE TypeOK'
  BY <1>4, GotoType, ReturnType, IssueType, ClaimType DEF ClaimProof
<1>5. ASSUME NEW w \in Workers, NEW p \in Payments, CheckUsed(w, p)
      PROVE TypeOK'
  BY <1>5, GotoType DEF CheckUsed
<1>6. ASSUME NEW w \in Workers, Screen(w) PROVE TypeOK'
  BY <1>6, GotoType DEF Screen
<1>7. ASSUME NEW w \in Workers, ClaimCharge(w) PROVE TypeOK'
  BY <1>7, GotoType, ReturnType, IssueType, ClaimType DEF ClaimCharge
<1>8. ASSUME NEW w \in Workers, NEW p \in Payments, NEW t \in FeeTokens,
             CheckSponsored(w, p, t)
      PROVE TypeOK'
  BY <1>8, GotoType DEF CheckSponsored
<1>9. ASSUME NEW w \in Workers, ClaimSponsored(w) PROVE TypeOK'
  BY <1>9, GotoType, ReturnType, IssueType, ClaimType DEF ClaimSponsored
<1>10. ASSUME NEW w \in Workers, NEW t \in FeeTokens, CosignFound(w, t)
       PROVE TypeOK'
  BY <1>10, GotoType DEF CosignFound
<1>11. ASSUME NEW w \in Workers, CosignReady(w) \/ CosignAbort(w)
       PROVE TypeOK'
  BY <1>11, GotoType DEF CosignReady, CosignAbort
<1>12. ASSUME NEW w \in Workers, Send(w) PROVE TypeOK'
  BY <1>12, GotoType DEF Send, Submit
<1>13. ASSUME NEW w \in Workers, Await(w) \/ Recover(w) PROVE TypeOK'
  BY <1>13, GotoType DEF Await, Recover, ReceiptFound
<1>14. ASSUME NEW w \in Workers, Conclude(w) PROVE TypeOK'
  BY <1>14, GotoType, ReturnType, IssueType, ClaimType DEF Conclude
<1>15. ASSUME NEW w \in Workers, ClaimFinal(w) PROVE TypeOK'
  BY <1>15, GotoType, ReturnType, IssueType, ClaimType DEF ClaimFinal
<1>16. ASSUME NEW w \in Workers, Release(w) PROVE TypeOK'
  BY <1>16, GotoType, ReturnType, IssueType, ClaimType DEF Release
<1>17. ASSUME NEW w \in Workers, Crash(w) PROVE TypeOK'
  BY <1>17, GotoType, ReturnType, IssueType, ClaimType DEF Crash
<1>18. CASE Environment
  <2>1. ASSUME NEW p \in Payments, Push(p) PROVE TypeOK'
    BY <2>1 DEF Push, Submit
  <2>2. ASSUME NEW p \in Payments, NEW t \in Tokens,
               NEW status \in {"ok", "reverted"}, Include(p, t, status)
        PROVE TypeOK'
    BY <2>2 DEF Include
  <2>3. CASE Tick
    BY <2>3 DEF Tick
  <2> HIDE DEF TypeOK, Tokens
  <2> QED
    BY <1>18, <2>1, <2>2, <2>3 DEF Environment
<1>19. CASE UNCHANGED vars
  BY <1>19 DEF vars
<1> QED
  BY <1>1, <1>2, <1>3, <1>4, <1>5, <1>6, <1>7, <1>8, <1>9, <1>10, <1>11,
     <1>12, <1>13, <1>14, <1>15, <1>16, <1>17, <1>18, <1>19
     DEF Next, Start, Step, CosignIncluded

\* TypeOK holds in every reachable state.
THEOREM TypeCorrect == Spec => []TypeOK
<1>1. Init => TypeOK
  BY DEF Init, TypeOK, LegacyKey, Keys
<1> QED
  BY <1>1, TypeStep, PTL DEF Spec

-----------------------------------------------------------------------------
(* The inductive invariant.                                                *)

\* The key a worker claims before it settles its transaction credential.
ClaimOf(w) == IF charge.sponsor = "none"
                THEN ChargeKey(pay[w], Sender) ELSE SponsoredKey(pay[w])

\* A worker holds its claim while it settles, and then only; the store has it,
\* and no two workers hold the same.
ClaimsInv ==
  /\ \A w \in Workers : claimed[w] = IF pc[w] \in Settling THEN {ClaimOf(w)} ELSE {}
  /\ \A w \in Workers : claimed[w] \subseteq store
  /\ \A v, w \in Workers : v # w => claimed[v] \cap claimed[w] = {}

\* Without a fee payer there is one envelope per payment.
EnvelopeInv ==
  charge.sponsor = "none" =>
    /\ pool \subseteq Payments \X {Sender}
    /\ \A p \in Payments : chain[p].token = Sender
    /\ \A w \in Workers :
         pc[w] \in Settling \cup {"screen", "claimCharge"} => token[w] = Sender

\* The receipt worker w holds is its payment's.
HoldsReceipt(w) == seen[w] # "none" /\ chain[pay[w]] = [status |-> seen[w], token |-> token[w]]

\* What a worker knows of its payment at each place.
PlaceInv ==
  \A w \in Workers :
    /\ pc[w] = "claimProof" <=> charge.zero /\ ~Ready(w)
    /\ pc[w] = "claimHash" =>
         chain[pay[w]] = [status |-> "ok", token |-> token[w]] /\ pay[w] \in charge.paidBy
    /\ pc[w] \in {"screen", "claimCharge"} => charge.sponsor = "none"
    /\ pc[w] \in {"claimSponsored", "cosign", "claimFinal"} => charge.sponsor # "none"
    /\ pc[w] \in {"screen", "claimSponsored", "cosign", "send", "await",
                 "recoverDoubtful", "recoverRejected"} => seen[w] = "none"
    /\ pc[w] = "claimCharge" => seen[w] = "none" \/ HoldsReceipt(w)
    /\ pc[w] \in {"conclude", "claimFinal"} => HoldsReceipt(w)
    /\ pc[w] = "claimFinal" => Pays(w)
    /\ pc[w] \in {"releaseFailed", "releaseUnknown"} =>
         seen[w] = "none" \/ (Pays(w) /\ charge.sponsor # "none")

\* A receipt is recorded under the included transaction's key, which nobody
\* will release.
ReceiptInv ==
  /\ \A p \in Payments : receipts[p] # 0 =>
       /\ receipts[p] = 1 /\ ~charge.zero
       /\ chain[p].status = "ok" /\ p \in charge.paidBy
       /\ ChargeKey(p, chain[p].token) \in store
       /\ \A w \in Workers : ChargeKey(p, chain[p].token) \notin claimed[w]
  /\ receipts[ProofRef] # 0 =>
       receipts[ProofRef] = 1 /\ charge.zero /\ ProofKey \in store

IInv == TypeOK /\ ClaimsInv /\ EnvelopeInv /\ PlaceInv /\ ReceiptInv

-----------------------------------------------------------------------------
(* It is inductive.                                                        *)

\* Keys of different kinds, payments or envelopes differ.
LEMMA KeyFacts ==
  /\ \A p, q, t, u : ChargeKey(p, t) = ChargeKey(q, u) <=> p = q /\ t = u
  /\ \A p, q : SponsoredKey(p) = SponsoredKey(q) <=> p = q
  /\ \A p, q, t : ChargeKey(p, t) # SponsoredKey(q)
  /\ \A p, t : ChargeKey(p, t) # ProofKey
  /\ \A p : SponsoredKey(p) # ProofKey
  BY DEF ChargeKey, SponsoredKey, ProofKey

\* Without a fee payer, envelopes stay the payer's.
LEMMA EnvelopeStep == IInv /\ [Next]_vars => EnvelopeInv'
<1> SUFFICES ASSUME IInv, [Next]_vars PROVE EnvelopeInv'
  OBVIOUS
<1> USE SenderIsNoToken DEF IInv, TypeOK, EnvelopeInv, PlaceInv, Settling, world, Goto, Return
<1>1. ASSUME NEW w \in Workers, NEW p \in Payments, NEW t \in Tokens,
             ValidateHash(w, p, t)
      PROVE EnvelopeInv'
  BY <1>1 DEF ValidateHash
<1>2. ASSUME NEW w \in Workers, ClaimHash(w) PROVE EnvelopeInv'
  BY <1>2 DEF ClaimHash
<1>3. ASSUME NEW w \in Workers, ValidateProof(w) PROVE EnvelopeInv'
  BY <1>3 DEF ValidateProof
<1>4. ASSUME NEW w \in Workers, ClaimProof(w) PROVE EnvelopeInv'
  BY <1>4 DEF ClaimProof
<1>5. ASSUME NEW w \in Workers, NEW p \in Payments, CheckUsed(w, p) PROVE EnvelopeInv'
  BY <1>5 DEF CheckUsed
<1>6. ASSUME NEW w \in Workers, Screen(w) PROVE EnvelopeInv'
  BY <1>6 DEF Screen
<1>7. ASSUME NEW w \in Workers, ClaimCharge(w) PROVE EnvelopeInv'
  BY <1>7 DEF ClaimCharge
<1>8. ASSUME NEW w \in Workers, NEW p \in Payments, NEW t \in FeeTokens,
             CheckSponsored(w, p, t)
      PROVE EnvelopeInv'
  BY <1>8 DEF CheckSponsored
<1>9. ASSUME NEW w \in Workers, ClaimSponsored(w) PROVE EnvelopeInv'
  BY <1>9 DEF ClaimSponsored
<1>10. ASSUME NEW w \in Workers, NEW t \in FeeTokens, CosignFound(w, t) PROVE EnvelopeInv'
  BY <1>10 DEF CosignFound
<1>11. ASSUME NEW w \in Workers, CosignReady(w) PROVE EnvelopeInv'
  BY <1>11 DEF CosignReady
<1>12. ASSUME NEW w \in Workers, CosignAbort(w) PROVE EnvelopeInv'
  BY <1>12 DEF CosignAbort
<1>13. ASSUME NEW w \in Workers, Send(w) PROVE EnvelopeInv'
  BY <1>13 DEF Send, Submit
<1>14. ASSUME NEW w \in Workers, Await(w) PROVE EnvelopeInv'
  BY <1>14 DEF Await, ReceiptFound
<1>15. ASSUME NEW w \in Workers, Recover(w) PROVE EnvelopeInv'
  BY <1>15 DEF Recover, ReceiptFound
<1>16. ASSUME NEW w \in Workers, Conclude(w) PROVE EnvelopeInv'
  BY <1>16 DEF Conclude
<1>17. ASSUME NEW w \in Workers, ClaimFinal(w) PROVE EnvelopeInv'
  BY <1>17 DEF ClaimFinal
<1>18. ASSUME NEW w \in Workers, Release(w) PROVE EnvelopeInv'
  BY <1>18 DEF Release
<1>19. ASSUME NEW w \in Workers, Crash(w) PROVE EnvelopeInv'
  BY <1>19 DEF Crash
<1>20. ASSUME NEW p \in Payments, Push(p) PROVE EnvelopeInv'
  BY <1>20 DEF Push, Submit
<1>21. ASSUME NEW p \in Payments, NEW t \in Tokens,
             NEW status \in {"ok", "reverted"}, Include(p, t, status)
      PROVE EnvelopeInv'
  BY <1>21 DEF Include
<1>22. ASSUME Tick PROVE EnvelopeInv'
  BY <1>22 DEF Tick
<1>23. ASSUME UNCHANGED vars PROVE EnvelopeInv'
  BY <1>23 DEF vars
<1> HIDE DEF IInv, TypeOK, EnvelopeInv, PlaceInv, Settling, world, Goto, Return
<1> QED
  BY <1>1, <1>2, <1>3, <1>4, <1>5, <1>6, <1>7, <1>8, <1>9, <1>10, <1>11,
     <1>12, <1>13, <1>14, <1>15, <1>16, <1>17, <1>18, <1>19, <1>20, <1>21,
     <1>22, <1>23
     DEF Next, Start, Step, CosignIncluded, Environment

\* Workers know what they need to where they are.
LEMMA PlaceStep == IInv /\ [Next]_vars => PlaceInv'
<1> SUFFICES ASSUME IInv, [Next]_vars PROVE PlaceInv'
  OBVIOUS
<1> USE SenderIsNoToken DEF IInv, TypeOK, PlaceInv, HoldsReceipt, Pays, Included, Ready, world, Goto, Return
<1>1. ASSUME NEW w \in Workers, NEW p \in Payments, NEW t \in Tokens,
             ValidateHash(w, p, t)
      PROVE PlaceInv'
  BY <1>1 DEF ValidateHash
<1>2. ASSUME NEW w \in Workers, ClaimHash(w) PROVE PlaceInv'
  BY <1>2 DEF ClaimHash
<1>3. ASSUME NEW w \in Workers, ValidateProof(w) PROVE PlaceInv'
  BY <1>3 DEF ValidateProof
<1>4. ASSUME NEW w \in Workers, ClaimProof(w) PROVE PlaceInv'
  BY <1>4 DEF ClaimProof
<1>5. ASSUME NEW w \in Workers, NEW p \in Payments, CheckUsed(w, p) PROVE PlaceInv'
  BY <1>5 DEF CheckUsed
<1>6. ASSUME NEW w \in Workers, Screen(w) PROVE PlaceInv'
  <2>1. \A v \in Workers \ {w} : pc'[v] = pc[v] /\ seen'[v] = seen[v]
    BY <1>6 DEF Screen
  <2>2. \/ pc'[w] = "claimCharge" /\ (seen'[w] = "none" \/ HoldsReceipt(w)')
        \/ pc'[w] = "failed"
    BY <1>6 DEF Screen
  <2> QED
    BY <1>6, <2>1, <2>2 DEF Screen
<1>7. ASSUME NEW w \in Workers, ClaimCharge(w) PROVE PlaceInv'
  BY <1>7 DEF ClaimCharge
<1>8. ASSUME NEW w \in Workers, NEW p \in Payments, NEW t \in FeeTokens,
             CheckSponsored(w, p, t)
      PROVE PlaceInv'
  BY <1>8 DEF CheckSponsored
<1>9. ASSUME NEW w \in Workers, ClaimSponsored(w) PROVE PlaceInv'
  BY <1>9 DEF ClaimSponsored
<1>10. ASSUME NEW w \in Workers, NEW t \in FeeTokens, CosignFound(w, t) PROVE PlaceInv'
  BY <1>10 DEF CosignFound
<1>11. ASSUME NEW w \in Workers, CosignReady(w) PROVE PlaceInv'
  BY <1>11 DEF CosignReady
<1>12. ASSUME NEW w \in Workers, CosignAbort(w) PROVE PlaceInv'
  BY <1>12 DEF CosignAbort
<1>13. ASSUME NEW w \in Workers, Send(w) PROVE PlaceInv'
  BY <1>13 DEF Send, Submit
<1>14. ASSUME NEW w \in Workers, Await(w) PROVE PlaceInv'
  <2>1. CASE ReceiptFound(w)
    <3>1. HoldsReceipt(w)'
      BY <1>14, <2>1 DEF Await, ReceiptFound
    <3> QED
      BY <1>14, <2>1, <3>1 DEF Await, ReceiptFound
  <2>2. CASE ~ReceiptFound(w)
    BY <1>14, <2>2 DEF Await
  <2> QED
    BY <2>1, <2>2
<1>15. ASSUME NEW w \in Workers, Recover(w) PROVE PlaceInv'
  <2>1. CASE ReceiptFound(w)
    <3>1. HoldsReceipt(w)'
      BY <1>15, <2>1 DEF Recover, ReceiptFound
    <3> QED
      BY <1>15, <2>1, <3>1 DEF Recover, ReceiptFound
  <2>2. CASE ~ReceiptFound(w)
    BY <1>15, <2>2 DEF Recover
  <2> QED
    BY <2>1, <2>2
<1>16. ASSUME NEW w \in Workers, Conclude(w) PROVE PlaceInv'
  BY <1>16 DEF Conclude
<1>17. ASSUME NEW w \in Workers, ClaimFinal(w) PROVE PlaceInv'
  BY <1>17 DEF ClaimFinal
<1>18. ASSUME NEW w \in Workers, Release(w) PROVE PlaceInv'
  BY <1>18 DEF Release
<1>19. ASSUME NEW w \in Workers, Crash(w) PROVE PlaceInv'
  BY <1>19 DEF Crash
<1>20. ASSUME NEW p \in Payments, Push(p) PROVE PlaceInv'
  BY <1>20 DEF Push, Submit
<1>21. ASSUME NEW p \in Payments, NEW t \in Tokens,
             NEW status \in {"ok", "reverted"}, Include(p, t, status)
      PROVE PlaceInv'
  BY <1>21 DEF Include
<1>22. ASSUME Tick PROVE PlaceInv'
  BY <1>22 DEF Tick
<1>23. ASSUME UNCHANGED vars PROVE PlaceInv'
  BY <1>23 DEF vars
<1> HIDE DEF IInv, TypeOK, PlaceInv, HoldsReceipt, Pays, Included, Ready, world, Goto, Return
<1> QED
  BY <1>1, <1>2, <1>3, <1>4, <1>5, <1>6, <1>7, <1>8, <1>9, <1>10, <1>11,
     <1>12, <1>13, <1>14, <1>15, <1>16, <1>17, <1>18, <1>19, <1>20, <1>21,
     <1>22, <1>23
     DEF Next, Start, Step, CosignIncluded, Environment

\* A worker that returns drops its claim; nothing of the others' may be deleted.
LEMMA DropClaim ==
  ASSUME IInv, NEW w \in Workers, NEW answer \in {"idle"} \cup Answers,
         Return(w, answer), UNCHANGED <<charge, pay>>,
         \A v \in Workers \ {w} : claimed[v] \subseteq store'
  PROVE  ClaimsInv'
  BY DEF IInv, TypeOK, ClaimsInv, ClaimOf, Settling, Return, Goto

\* A worker takes a claim that was free.
LEMMA TakeClaim ==
  ASSUME IInv, NEW w \in Workers, pc[w] \notin Settling,
         NEW place \in Settling, Goto(w, place), UNCHANGED <<charge, pay>>,
         claimed' = [claimed EXCEPT ![w] = @ \cup {ClaimOf(w)}],
         ClaimOf(w) \notin store, store' = store \cup {ClaimOf(w)}
  PROVE  ClaimsInv'
<1> USE DEF IInv, TypeOK, ClaimsInv
<1>1. \A v \in Workers : ClaimOf(v)' = ClaimOf(v)
  BY DEF ClaimOf
<1>2. claimed'[w] = {ClaimOf(w)} /\ pc'[w] \in Settling
  BY DEF Goto
<1>3. \A v \in Workers \ {w} : claimed'[v] = claimed[v] /\ pc'[v] = pc[v]
  BY DEF Goto
<1>4. \A v \in Workers :
        claimed'[v] = IF pc'[v] \in Settling THEN {ClaimOf(v)'} ELSE {}
  BY <1>1, <1>2, <1>3
<1>5. \A v \in Workers : claimed'[v] \subseteq store'
  BY <1>2, <1>3
<1>6. \A u, v \in Workers : u # v => claimed'[u] \cap claimed'[v] = {}
  BY <1>2, <1>3
<1> QED
  BY <1>4, <1>5, <1>6

\* A worker goes on settling with the claim it has.
LEMMA KeepClaim ==
  ASSUME IInv, NEW w \in Workers, pc[w] \in Settling,
         NEW place \in Settling, Goto(w, place),
         UNCHANGED <<charge, pay, claimed>>, store \subseteq store'
  PROVE  ClaimsInv'
  BY DEF IInv, TypeOK, ClaimsInv, ClaimOf, Settling, Goto

\* Claims stay with the worker that took them.
LEMMA ClaimsStep == IInv /\ [Next]_vars => ClaimsInv'
<1> SUFFICES ASSUME IInv, [Next]_vars PROVE ClaimsInv'
  OBVIOUS
<1> USE KeyFacts DEF IInv, TypeOK, ClaimsInv, ClaimOf, Settling, Ready, world, Goto, Return,
           ClaimAccepted, ClaimRefused, ClaimErred, Claimable
<1>1. ASSUME NEW w \in Workers, NEW p \in Payments, NEW t \in Tokens,
             ValidateHash(w, p, t)
      PROVE ClaimsInv'
  BY <1>1 DEF ValidateHash
<1>2. ASSUME NEW w \in Workers, ClaimHash(w) PROVE ClaimsInv'
  <2> HIDE DEF Return
  <2>1. \E answer \in Answers : Return(w, answer)
    BY <1>2 DEF ClaimHash
  <2>2. store \subseteq store' /\ UNCHANGED <<charge, pay>>
    BY <1>2 DEF ClaimHash
  <2> QED
    BY <2>1, <2>2, DropClaim
<1>3. ASSUME NEW w \in Workers, ValidateProof(w) PROVE ClaimsInv'
  BY <1>3 DEF ValidateProof
<1>4. ASSUME NEW w \in Workers, ClaimProof(w) PROVE ClaimsInv'
  <2> HIDE DEF Return
  <2>1. \E answer \in Answers : Return(w, answer)
    BY <1>4 DEF ClaimProof
  <2>2. store \subseteq store' /\ UNCHANGED <<charge, pay>>
    BY <1>4 DEF ClaimProof
  <2> QED
    BY <2>1, <2>2, DropClaim
<1>5. ASSUME NEW w \in Workers, NEW p \in Payments, CheckUsed(w, p) PROVE ClaimsInv'
  BY <1>5 DEF CheckUsed
<1>6. ASSUME NEW w \in Workers, Screen(w) PROVE ClaimsInv'
  BY <1>6 DEF Screen
<1>7. ASSUME NEW w \in Workers, ClaimCharge(w) PROVE ClaimsInv'
  <2>1. ChargeKey(pay[w], token[w]) = ClaimOf(w) /\ pc[w] \notin Settling
    BY <1>7 DEF ClaimCharge, PlaceInv, EnvelopeInv
  <2>2. store \subseteq store' /\ UNCHANGED <<charge, pay>>
    BY <1>7 DEF ClaimCharge
  <2> HIDE DEF Return, Goto, ClaimOf
  <2>3. ASSUME NEW answer \in Answers, Return(w, answer) PROVE ClaimsInv'
    BY <2>2, <2>3, DropClaim
  <2>4. ASSUME ClaimAccepted(ClaimOf(w)), NEW place \in Settling, Goto(w, place),
               claimed' = [claimed EXCEPT ![w] = @ \cup {ClaimOf(w)}]
        PROVE ClaimsInv'
    <3>1. ClaimOf(w) \notin store /\ store' = store \cup {ClaimOf(w)}
      BY <2>4
    <3> HIDE DEF IInv, ClaimsInv, TypeOK, Settling, ClaimAccepted
    <3> QED
      BY <2>1, <2>2, <2>4, <3>1, TakeClaim
  <2> QED
    BY <1>7, <2>1, <2>3, <2>4 DEF ClaimCharge
<1>8. ASSUME NEW w \in Workers, NEW p \in Payments, NEW t \in FeeTokens,
             CheckSponsored(w, p, t)
      PROVE ClaimsInv'
  BY <1>8 DEF CheckSponsored
<1>9. ASSUME NEW w \in Workers, ClaimSponsored(w) PROVE ClaimsInv'
  <2>1. SponsoredKey(pay[w]) = ClaimOf(w) /\ pc[w] \notin Settling
    BY <1>9 DEF ClaimSponsored, PlaceInv, EnvelopeInv
  <2>2. store \subseteq store' /\ UNCHANGED <<charge, pay>>
    BY <1>9 DEF ClaimSponsored
  <2> HIDE DEF Return, Goto, ClaimOf
  <2>3. ASSUME NEW answer \in Answers, Return(w, answer) PROVE ClaimsInv'
    BY <2>2, <2>3, DropClaim
  <2>4. ASSUME ClaimAccepted(ClaimOf(w)), NEW place \in Settling, Goto(w, place),
               claimed' = [claimed EXCEPT ![w] = @ \cup {ClaimOf(w)}]
        PROVE ClaimsInv'
    <3>1. ClaimOf(w) \notin store /\ store' = store \cup {ClaimOf(w)}
      BY <2>4
    <3> HIDE DEF IInv, ClaimsInv, TypeOK, Settling, ClaimAccepted
    <3> QED
      BY <2>1, <2>2, <2>4, <3>1, TakeClaim
  <2> QED
    BY <1>9, <2>1, <2>3, <2>4 DEF ClaimSponsored
<1>10. ASSUME NEW w \in Workers, NEW t \in FeeTokens, CosignFound(w, t) PROVE ClaimsInv'
  BY <1>10 DEF CosignFound
<1>11. ASSUME NEW w \in Workers, CosignReady(w) PROVE ClaimsInv'
  BY <1>11 DEF CosignReady
<1>12. ASSUME NEW w \in Workers, CosignAbort(w) PROVE ClaimsInv'
  BY <1>12 DEF CosignAbort
<1>13. ASSUME NEW w \in Workers, Send(w) PROVE ClaimsInv'
  BY <1>13 DEF Send, Submit
<1>14. ASSUME NEW w \in Workers, Await(w) PROVE ClaimsInv'
  BY <1>14 DEF Await, ReceiptFound
<1>15. ASSUME NEW w \in Workers, Recover(w) PROVE ClaimsInv'
  BY <1>15 DEF Recover, ReceiptFound
<1>16. ASSUME NEW w \in Workers, Conclude(w) PROVE ClaimsInv'
  <2> HIDE DEF Return, Goto
  <2>1. UNCHANGED <<charge, pay, store>>
    BY <1>16 DEF Conclude
  <2>2. ASSUME NEW answer \in Answers, Return(w, answer) PROVE ClaimsInv'
    BY <2>1, <2>2, DropClaim
  <2>3. ASSUME Goto(w, "claimFinal"), UNCHANGED claimed PROVE ClaimsInv'
    BY <1>16, <2>1, <2>3, KeepClaim DEF Conclude
  <2> QED
    BY <1>16, <2>2, <2>3 DEF Conclude
<1>17. ASSUME NEW w \in Workers, ClaimFinal(w) PROVE ClaimsInv'
  <2>1. store \subseteq store' /\ UNCHANGED <<charge, pay>>
    BY <1>17 DEF ClaimFinal
  <2> HIDE DEF Return, Goto
  <2>2. ASSUME NEW answer \in Answers, Return(w, answer) PROVE ClaimsInv'
    BY <2>1, <2>2, DropClaim
  <2>3. ASSUME Goto(w, "releaseFailed"), UNCHANGED claimed PROVE ClaimsInv'
    BY <1>17, <2>1, <2>3, KeepClaim DEF ClaimFinal
  <2> QED
    BY <1>17, <2>2, <2>3 DEF ClaimFinal
<1>18. ASSUME NEW w \in Workers, Release(w) PROVE ClaimsInv'
  <2>1. \A v \in Workers \ {w} : claimed[v] \subseteq store'
    BY <1>18 DEF Release
  <2> HIDE DEF Return
  <2>2. \E answer \in Answers : Return(w, answer)
    BY <1>18 DEF Release
  <2>3. UNCHANGED <<charge, pay>>
    BY <1>18 DEF Release
  <2> QED
    BY <2>1, <2>2, <2>3, DropClaim
<1>19. ASSUME NEW w \in Workers, Crash(w) PROVE ClaimsInv'
  <2> HIDE DEF Return
  <2>1. Return(w, "idle") /\ UNCHANGED <<charge, pay, store>>
    BY <1>19 DEF Crash
  <2> QED
    BY <2>1, DropClaim
<1>20. ASSUME NEW p \in Payments, Push(p) PROVE ClaimsInv'
  BY <1>20 DEF Push, Submit
<1>21. ASSUME NEW p \in Payments, NEW t \in Tokens,
             NEW status \in {"ok", "reverted"}, Include(p, t, status)
      PROVE ClaimsInv'
  BY <1>21 DEF Include
<1>22. ASSUME Tick PROVE ClaimsInv'
  BY <1>22 DEF Tick
<1>23. ASSUME UNCHANGED vars PROVE ClaimsInv'
  BY <1>23 DEF vars
<1> HIDE DEF IInv, TypeOK, ClaimsInv, ClaimOf, Settling, Ready, world, Goto, Return,
           ClaimAccepted, ClaimRefused, ClaimErred, Claimable
<1> QED
  BY <1>1, <1>2, <1>3, <1>4, <1>5, <1>6, <1>7, <1>8, <1>9, <1>10, <1>11,
     <1>12, <1>13, <1>14, <1>15, <1>16, <1>17, <1>18, <1>19, <1>20, <1>21,
     <1>22, <1>23
     DEF Next, Start, Step, CosignIncluded, Environment

\* A step that issues nothing and whose claims and deletions touch no receipt.
LEMMA NoReceipt ==
  ASSUME IInv, UNCHANGED <<charge, chain, receipts>>, store \subseteq store',
         \A w \in Workers : claimed'[w] \subseteq claimed[w]
  PROVE  ReceiptInv'
  BY ProofIsNoPayment DEF IInv, ReceiptInv

\* A receipt for an included payment is recorded under a key nobody holds.
LEMMA NewReceipt ==
  ASSUME IInv, NEW p \in Payments, Issue(p), receipts[p] = 0,
         ~charge.zero, chain[p].status = "ok", p \in charge.paidBy,
         UNCHANGED <<charge, chain>>, store \subseteq store',
         ChargeKey(p, chain[p].token) \in store',
         \A w \in Workers : /\ claimed'[w] \subseteq claimed[w]
                           /\ ChargeKey(p, chain[p].token) \notin claimed'[w]
  PROVE  ReceiptInv'
  BY ProofIsNoPayment DEF IInv, TypeOK, ReceiptInv, Issue

\* Receipts stay recorded, and a second one is never issued.
LEMMA ReceiptStep == IInv /\ [Next]_vars => ReceiptInv'
<1> SUFFICES ASSUME IInv, [Next]_vars PROVE ReceiptInv'
  OBVIOUS
<1> USE KeyFacts, ProofIsNoPayment DEF IInv, TypeOK, ReceiptInv, world, Goto, Return, Issue,
           ClaimAccepted, ClaimRefused, ClaimErred, Claimable
<1>1. ASSUME NEW w \in Workers, NEW p \in Payments, NEW t \in Tokens,
             ValidateHash(w, p, t)
      PROVE ReceiptInv'
  BY <1>1 DEF ValidateHash
<1>2. ASSUME NEW w \in Workers, ClaimHash(w) PROVE ReceiptInv'
  <2> DEFINE k == ChargeKey(pay[w], token[w])
  <2>1. /\ UNCHANGED <<charge, chain>> /\ store \subseteq store'
        /\ \A v \in Workers : claimed'[v] \subseteq claimed[v]
    <3>1. UNCHANGED <<charge, chain>> /\ store \subseteq store'
      BY <1>2 DEF ClaimHash
    <3>2. claimed' = claimed \/ claimed' = [claimed EXCEPT ![w] = {}]
      BY <1>2 DEF ClaimHash
    <3> QED
      BY <3>1, <3>2
  <2>2. /\ pay[w] \in Payments /\ pay[w] \in charge.paidBy /\ ~charge.zero
        /\ chain[pay[w]].status = "ok" /\ chain[pay[w]].token = token[w]
    <3>1. PlaceInv /\ pc[w] = "claimHash" /\ pay[w] \in Payments
      BY <1>2 DEF ClaimHash
    <3> HIDE DEF IInv, TypeOK, ReceiptInv
    <3>2. ~charge.zero
      BY <3>1 DEF PlaceInv, Ready
    <3>3. /\ pay[w] \in charge.paidBy
          /\ chain[pay[w]] = [status |-> "ok", token |-> token[w]]
      BY <3>1 DEF PlaceInv
    <3> QED
      BY <3>1, <3>2, <3>3
  <2>3. CASE ClaimAccepted(k) /\ Issue(pay[w])
    <3>1. receipts[pay[w]] = 0 /\ k \in store'
      BY <2>2, <2>3
    <3>2. \A v \in Workers : k \notin claimed'[v]
      BY <2>1, <2>3 DEF ClaimsInv
    <3> HIDE DEF IInv, ReceiptInv, Issue
    <3> QED
      BY <2>1, <2>2, <2>3, <3>1, <3>2, NewReceipt
  <2>4. CASE UNCHANGED receipts
    BY <2>1, <2>4, NoReceipt
  <2> HIDE DEF Issue, Return, ReceiptInv, ClaimAccepted
  <2> QED
    BY <1>2, <2>3, <2>4 DEF ClaimHash
<1>3. ASSUME NEW w \in Workers, ValidateProof(w) PROVE ReceiptInv'
  BY <1>3 DEF ValidateProof
<1>4. ASSUME NEW w \in Workers, ClaimProof(w) PROVE ReceiptInv'
  <2>1. /\ UNCHANGED <<charge, chain>> /\ store \subseteq store'
        /\ \A v \in Workers : claimed'[v] \subseteq claimed[v]
    <3>1. UNCHANGED <<charge, chain>> /\ store \subseteq store'
      BY <1>4 DEF ClaimProof
    <3>2. claimed' = claimed \/ claimed' = [claimed EXCEPT ![w] = {}]
      BY <1>4 DEF ClaimProof
    <3> QED
      BY <3>1, <3>2
  <2>2. CASE ClaimAccepted(ProofKey) /\ Issue(ProofRef)
    <3>1. receipts[ProofRef] = 0 /\ charge.zero
      BY <1>4, <2>2 DEF ClaimProof, PlaceInv
    <3>2. receipts' = [receipts EXCEPT ![ProofRef] = 1]
      BY <2>2, <3>1
    <3> QED
      BY <2>1, <2>2, <3>1, <3>2
  <2>3. CASE UNCHANGED receipts
    BY <2>1, <2>3, NoReceipt
  <2> HIDE DEF Issue, Return, ReceiptInv, ClaimAccepted
  <2> QED
    BY <1>4, <2>2, <2>3 DEF ClaimProof
<1>5. ASSUME NEW w \in Workers, NEW p \in Payments, CheckUsed(w, p) PROVE ReceiptInv'
  BY <1>5 DEF CheckUsed
<1>6. ASSUME NEW w \in Workers, Screen(w) PROVE ReceiptInv'
  BY <1>6 DEF Screen
<1>7. ASSUME NEW w \in Workers, ClaimCharge(w) PROVE ReceiptInv'
  BY <1>7 DEF ClaimCharge
<1>8. ASSUME NEW w \in Workers, NEW p \in Payments, NEW t \in FeeTokens,
             CheckSponsored(w, p, t)
      PROVE ReceiptInv'
  BY <1>8 DEF CheckSponsored
<1>9. ASSUME NEW w \in Workers, ClaimSponsored(w) PROVE ReceiptInv'
  BY <1>9 DEF ClaimSponsored
<1>10. ASSUME NEW w \in Workers, NEW t \in FeeTokens, CosignFound(w, t) PROVE ReceiptInv'
  BY <1>10 DEF CosignFound
<1>11. ASSUME NEW w \in Workers, CosignReady(w) PROVE ReceiptInv'
  BY <1>11 DEF CosignReady
<1>12. ASSUME NEW w \in Workers, CosignAbort(w) PROVE ReceiptInv'
  BY <1>12 DEF CosignAbort
<1>13. ASSUME NEW w \in Workers, Send(w) PROVE ReceiptInv'
  BY <1>13 DEF Send, Submit
<1>14. ASSUME NEW w \in Workers, Await(w) PROVE ReceiptInv'
  BY <1>14 DEF Await, ReceiptFound
<1>15. ASSUME NEW w \in Workers, Recover(w) PROVE ReceiptInv'
  BY <1>15 DEF Recover, ReceiptFound
<1>16. ASSUME NEW w \in Workers, Conclude(w) PROVE ReceiptInv'
  <2>1. /\ UNCHANGED <<charge, chain, store>>
        /\ \A v \in Workers : claimed'[v] \subseteq claimed[v]
    <3>1. UNCHANGED <<charge, chain, store>>
      BY <1>16 DEF Conclude
    <3>2. claimed' = claimed \/ claimed' = [claimed EXCEPT ![w] = {}]
      BY <1>16 DEF Conclude
    <3> QED
      BY <3>1, <3>2
  <2>2. CASE /\ Pays(w) /\ charge.sponsor = "none"
             /\ claimed' = [claimed EXCEPT ![w] = {}] /\ Issue(pay[w])
    <3>1. /\ pay[w] \in Payments /\ pay[w] \in charge.paidBy /\ ~charge.zero
          /\ chain[pay[w]].status = "ok" /\ chain[pay[w]].token = Sender
      <4>1. /\ PlaceInv /\ EnvelopeInv /\ pc[w] = "conclude"
            /\ pay[w] \in Payments
        BY <1>16 DEF Conclude
      <4> HIDE DEF IInv, TypeOK, ReceiptInv
      <4>2. ~charge.zero
        BY <4>1 DEF PlaceInv, Ready
      <4>3. /\ pay[w] \in charge.paidBy
            /\ chain[pay[w]] = [status |-> "ok", token |-> token[w]]
        BY <2>2, <4>1 DEF PlaceInv, HoldsReceipt, Pays
      <4>4. chain[pay[w]].token = Sender
        BY <2>2, <4>1 DEF EnvelopeInv
      <4> QED
        BY <4>1, <4>2, <4>3, <4>4
    <3>2. ChargeKey(pay[w], Sender) \in claimed[w]
      BY <1>16, <2>2 DEF Conclude, ClaimsInv, ClaimOf, Settling
    <3>3. receipts[pay[w]] = 0 /\ ChargeKey(pay[w], Sender) \in store'
      BY <2>1, <3>1, <3>2 DEF ClaimsInv
    <3>4. \A v \in Workers : ChargeKey(pay[w], Sender) \notin claimed'[v]
      BY <2>2, <3>2 DEF ClaimsInv
    <3> HIDE DEF IInv, ReceiptInv, Issue
    <3> QED
      BY <2>1, <2>2, <3>1, <3>3, <3>4, NewReceipt
  <2>3. CASE UNCHANGED receipts
    BY <2>1, <2>3, NoReceipt
  <2> HIDE DEF Issue, ReceiptInv, Goto
  <2> QED
    BY <1>16, <2>2, <2>3 DEF Conclude
<1>17. ASSUME NEW w \in Workers, ClaimFinal(w) PROVE ReceiptInv'
  <2> DEFINE k == ChargeKey(pay[w], token[w])
  <2>1. /\ UNCHANGED <<charge, chain>> /\ store \subseteq store'
        /\ \A v \in Workers : claimed'[v] \subseteq claimed[v]
    <3>1. UNCHANGED <<charge, chain>> /\ store \subseteq store'
      BY <1>17 DEF ClaimFinal
    <3>2. claimed' = claimed \/ claimed' = [claimed EXCEPT ![w] = {}]
      BY <1>17 DEF ClaimFinal
    <3> QED
      BY <3>1, <3>2
  <2>2. /\ pay[w] \in Payments /\ pay[w] \in charge.paidBy /\ ~charge.zero
        /\ chain[pay[w]].status = "ok" /\ chain[pay[w]].token = token[w]
    <3>1. PlaceInv /\ pc[w] = "claimFinal" /\ pay[w] \in Payments
      BY <1>17 DEF ClaimFinal
    <3> HIDE DEF IInv, TypeOK, ReceiptInv
    <3>2. ~charge.zero
      BY <3>1 DEF PlaceInv, Ready
    <3>3. /\ pay[w] \in charge.paidBy
          /\ chain[pay[w]] = [status |-> "ok", token |-> token[w]]
      BY <3>1 DEF PlaceInv, HoldsReceipt, Pays
    <3> QED
      BY <3>1, <3>2, <3>3
  <2>3. CASE ClaimAccepted(k) /\ Issue(pay[w])
    <3>1. receipts[pay[w]] = 0 /\ k \in store'
      BY <2>2, <2>3
    <3>2. \A v \in Workers : k \notin claimed'[v]
      BY <2>1, <2>3 DEF ClaimsInv
    <3> HIDE DEF IInv, ReceiptInv, Issue
    <3> QED
      BY <2>1, <2>2, <2>3, <3>1, <3>2, NewReceipt
  <2>4. CASE UNCHANGED receipts
    BY <2>1, <2>4, NoReceipt
  <2> HIDE DEF Issue, Return, ReceiptInv, ClaimAccepted
  <2> QED
    BY <1>17, <2>3, <2>4 DEF ClaimFinal
<1>18. ASSUME NEW w \in Workers, Release(w) PROVE ReceiptInv'
  BY <1>18 DEF Release, PlaceInv, HoldsReceipt, Pays, ClaimsInv, ClaimOf, EnvelopeInv
<1>19. ASSUME NEW w \in Workers, Crash(w) PROVE ReceiptInv'
  BY <1>19 DEF Crash
<1>20. ASSUME NEW p \in Payments, Push(p) PROVE ReceiptInv'
  BY <1>20 DEF Push, Submit
<1>21. ASSUME NEW p \in Payments, NEW t \in Tokens,
             NEW status \in {"ok", "reverted"}, Include(p, t, status)
      PROVE ReceiptInv'
  BY <1>21 DEF Include
<1>22. ASSUME Tick PROVE ReceiptInv'
  BY <1>22 DEF Tick
<1>23. ASSUME UNCHANGED vars PROVE ReceiptInv'
  BY <1>23 DEF vars
<1> HIDE DEF IInv, TypeOK, ReceiptInv, world, Goto, Return, Issue,
           ClaimAccepted, ClaimRefused, ClaimErred, Claimable
<1> QED
  BY <1>1, <1>2, <1>3, <1>4, <1>5, <1>6, <1>7, <1>8, <1>9, <1>10, <1>11,
     <1>12, <1>13, <1>14, <1>15, <1>16, <1>17, <1>18, <1>19, <1>20, <1>21,
     <1>22, <1>23
     DEF Next, Start, Step, CosignIncluded, Environment

LEMMA IInvInit == Init => IInv
<1> SUFFICES ASSUME Init PROVE IInv
  OBVIOUS
<1>1. TypeOK
  BY DEF Init, TypeOK, LegacyKey, Keys
<1>2. ClaimsInv /\ EnvelopeInv
  BY DEF Init, ClaimsInv, EnvelopeInv, Settling
<1>3. PlaceInv /\ ReceiptInv
  BY ProofIsNoPayment DEF Init, PlaceInv, ReceiptInv, Ready
<1> QED
  BY <1>1, <1>2, <1>3 DEF IInv

\* The strengthened invariant holds in every reachable state.
THEOREM IInvHolds == Spec => []IInv
<1>1. IInv /\ [Next]_vars => IInv'
  BY TypeStep, ClaimsStep, EnvelopeStep, PlaceStep, ReceiptStep DEF IInv
<1> QED
  BY <1>1, IInvInit, PTL DEF Spec

-----------------------------------------------------------------------------
(* What follows from it.                                                   *)

\* No payment and no proof buys two receipts (broadcastCredential and
\* broadcastTransaction), whatever the store, the chain and the workers do.
THEOREM OneReceipt == Spec => []OneReceiptPerPayment
<1>1. IInv => OneReceiptPerPayment
  BY DEF IInv, TypeOK, ReceiptInv, OneReceiptPerPayment
<1> QED
  BY <1>1, IInvHolds, PTL

\* Two workers never settle one payment at the same time.
THEOREM OneSettler == Spec => []OneSettlerPerPayment
<1>1. IInv => OneSettlerPerPayment
  <2> SUFFICES ASSUME IInv, NEW v \in Workers, NEW w \in Workers, v # w,
                      pc[v] \in Settling, pc[w] \in Settling, pay[v] = pay[w]
               PROVE  FALSE
    BY DEF OneSettlerPerPayment
  <2>1. ClaimOf(v) = ClaimOf(w)
    BY DEF ClaimOf
  <2>2. claimed[v] = {ClaimOf(v)} /\ claimed[w] = {ClaimOf(w)}
    BY DEF IInv, ClaimsInv
  <2> QED
    BY <2>1, <2>2 DEF IInv, ClaimsInv
<1> QED
  BY <1>1, IInvHolds, PTL

\* Only a release takes keys out of the store: those its worker holds.
LEMMA Deletion ==
  ASSUME TypeOK, [Next]_vars, NEW k \in store, k \notin store'
  PROVE  \E w \in Workers : Release(w) /\ k \in claimed[w] /\ k \notin claimed'[w]
<1> USE DEF world, ClaimAccepted, ClaimRefused, ClaimErred
<1>1. ASSUME NEW w \in Workers, Release(w)
      PROVE  k \in claimed[w] /\ k \notin claimed'[w]
  BY <1>1 DEF Release, Return, TypeOK
<1>2. ASSUME NEW w \in Workers, Start(w) PROVE FALSE
  BY <1>2 DEF Start, ValidateHash, ValidateProof, CheckUsed, CheckSponsored
<1>3. ASSUME NEW w \in Workers, Step(w), ~Release(w) PROVE FALSE
  <2>1. ASSUME ClaimHash(w) \/ ClaimProof(w) \/ ClaimCharge(w)
               \/ ClaimSponsored(w) \/ ClaimFinal(w)
        PROVE FALSE
    BY <2>1 DEF ClaimHash, ClaimProof, ClaimCharge, ClaimSponsored, ClaimFinal
  <2>2. ASSUME Screen(w) \/ CosignIncluded(w) \/ CosignReady(w)
               \/ CosignAbort(w) \/ Send(w) \/ Await(w) \/ Recover(w)
               \/ Conclude(w)
        PROVE FALSE
    BY <2>2 DEF Screen, CosignIncluded, CosignFound, CosignReady, CosignAbort,
                Send, Await, Recover, Conclude
  <2> QED
    BY <1>3, <2>1, <2>2 DEF Step
<1>4. ASSUME NEW w \in Workers, Crash(w) PROVE FALSE
  BY <1>4 DEF Crash
<1>5. ASSUME Environment PROVE FALSE
  BY <1>5 DEF Environment, Push, Include, Tick
<1>6. ASSUME UNCHANGED vars PROVE FALSE
  BY <1>6 DEF vars
<1> QED
  BY <1>1, <1>2, <1>3, <1>4, <1>5, <1>6 DEF Next

\* A claim is released by its own worker, while the payment may still pay, and
\* never once it records a receipt (the deferred release, `included`).
THEOREM ConsumedStays == Spec => ConsumedStaysClaimed
<1>1. ASSUME IInv, [Next]_vars, NEW k \in store \ store'
      PROVE  /\ \E w \in Workers : /\ k \in claimed[w] /\ k \notin claimed'[w]
                                   /\ seen[w] = "none" \/ Pays(w)
             /\ k[1] = "sponsor" \/ receipts[k[2]] = 0
  <2>1. PICK w \in Workers : Release(w) /\ k \in claimed[w] /\ k \notin claimed'[w]
    BY <1>1, Deletion DEF IInv
  <2>2. pc[w] \in {"releaseFailed", "releaseUnknown"}
    BY <2>1 DEF Release
  <2>3. seen[w] = "none" \/ Pays(w)
    BY <1>1, <2>2 DEF IInv, PlaceInv
  <2>4. k = ClaimOf(w)
    BY <1>1, <2>1, <2>2 DEF IInv, ClaimsInv, Settling
  <2>5. CASE charge.sponsor = "none"
    <3>1. k = ChargeKey(pay[w], Sender) /\ pay[w] \in Payments
      BY <1>1, <2>4, <2>5 DEF IInv, TypeOK, ClaimOf
    <3>2. chain[pay[w]].token = Sender
      BY <1>1, <2>5, <3>1 DEF IInv, EnvelopeInv
    <3>3. receipts[pay[w]] = 0
      BY <1>1, <2>1, <3>1, <3>2 DEF IInv, ReceiptInv
    <3> QED
      BY <2>1, <2>3, <3>1, <3>3 DEF ChargeKey
  <2>6. CASE charge.sponsor # "none"
    BY <2>1, <2>3, <2>4, <2>6 DEF ClaimOf, SponsoredKey
  <2> QED
    BY <2>5, <2>6
<1>2. IInv /\ [Next]_vars =>
        \A k \in store \ store' :
          /\ \E w \in Workers : /\ k \in claimed[w] /\ k \notin claimed'[w]
                                /\ seen[w] = "none" \/ Pays(w)
          /\ k[1] = "sponsor" \/ receipts[k[2]] = 0
  BY <1>1
<1> QED
  BY <1>2, IInvHolds, PTL DEF Spec, ConsumedStaysClaimed

-----------------------------------------------------------------------------
(* No claim is stranded.                                                   *)

\* What a key is of.
LEMMA KeyRefs ==
  /\ \A p, t : ChargeKey(p, t)[2] = p
  /\ \A p : SponsoredKey(p)[2] = p
  /\ ProofKey[2] = ProofRef
  BY DEF ChargeKey, SponsoredKey, ProofKey

\* A key has a reason to be in the store.
Justified(k) == \/ \E w \in Workers : k \in claimed[w]
                \/ receipts[k[2]] > 0
                \/ k[2] \in Payments /\ Burnt(k[2])

\* A step by which worker w, with k its claim or k the key it stores, leaves
\* k justified.
LEMMA StepJustifies ==
  ASSUME IInv, IInv', NoStrandedClaim, NEW w \in Workers, Step(w),
         faults' = 0, NEW k \in store', Visible(k)', k # LegacyKey
  PROVE  Justified(k)'
<1> USE KeyRefs, ProofIsNoPayment DEF IInv, TypeOK, world
<1>1. /\ faults = 0 /\ UNCHANGED <<charge, now, chain>>
      /\ k \in store => Visible(k)
      /\ k \in store => Justified(k)
      /\ \A r \in Refs : receipts'[r] >= receipts[r]
  <2>1. UNCHANGED <<charge, now, chain>> /\ (faults' = faults \/ faults' = faults + 1)
    BY DEF Step, ClaimHash, ClaimProof, Screen, ClaimCharge, ClaimSponsored,
           CosignIncluded, CosignFound, CosignReady, CosignAbort, Send, Await,
           Recover, Conclude, ClaimFinal, Release, ClaimAccepted, ClaimRefused,
           ClaimErred
  <2>2. \/ UNCHANGED receipts
        \/ \E r \in Refs : Issue(r)
    BY DEF Step, ClaimHash, ClaimProof, Screen, ClaimCharge, ClaimSponsored,
           CosignIncluded, CosignFound, CosignReady, CosignAbort, Send, Await,
           Recover, Conclude, ClaimFinal, Release
  <2>3. \A r \in Refs : receipts'[r] >= receipts[r]
    BY <2>2 DEF Issue
  <2>4. faults = 0
    BY <2>1
  <2>5. k \in store => Visible(k)
    BY <2>1 DEF Visible, KeysLive
  <2> QED
    BY <2>1, <2>3, <2>4, <2>5 DEF NoStrandedClaim, Justified
<1>2. k \in Keys /\ k[2] \in Refs
  BY DEF Keys
<1>3. ASSUME k \in store, \E v \in Workers : k \in claimed[v] /\ k \in claimed'[v]
      PROVE  Justified(k)'
  BY <1>3 DEF Justified
<1>4. ASSUME k \in store, \A v \in Workers : k \notin claimed[v]
      PROVE  Justified(k)'
  BY <1>1, <1>2, <1>4 DEF Justified, Burnt
<1>5. ASSUME UNCHANGED claimed, store' = store PROVE Justified(k)'
  BY <1>1, <1>3, <1>4, <1>5
<1>6. CASE Screen(w) \/ CosignIncluded(w) \/ CosignReady(w) \/ CosignAbort(w)
           \/ Send(w) \/ Await(w) \/ Recover(w)
  BY <1>5, <1>6 DEF Screen, CosignIncluded, CosignFound, CosignReady,
                    CosignAbort, Send, Await, Recover
<1>7. ASSUME k \in store, \A v \in Workers \ {w} : claimed'[v] = claimed[v],
             k \in claimed[w] => Justified(k)'
      PROVE  Justified(k)'
  BY <1>3, <1>4, <1>7
<1>8. pay[w] \in Payments /\ pay' = pay
  BY DEF Step, ClaimHash, ClaimProof, Screen, ClaimCharge, ClaimSponsored,
         CosignIncluded, CosignFound, CosignReady, CosignAbort, Send, Await,
         Recover, Conclude, ClaimFinal, Release
<1>9. ASSUME NEW r \in Refs, Issue(r), k[2] = r PROVE Justified(k)'
  <2>1. receipts'[r] = receipts[r] + 1
    BY <1>9 DEF Issue
  <2> QED
    BY <1>9, <2>1 DEF Justified
<1>10. CASE ClaimHash(w)
  <2>1. k \in store \/ (k = ChargeKey(pay[w], token[w]) /\ Issue(pay[w]))
    BY <1>1, <1>10 DEF ClaimHash, ClaimAccepted, ClaimRefused, ClaimErred
  <2>2. claimed[w] = {} /\ \A v \in Workers \ {w} : claimed'[v] = claimed[v]
    BY <1>10 DEF ClaimHash, Return, ClaimsInv, Settling
  <2> QED
    BY <1>7, <1>8, <1>9, <2>1, <2>2
<1>11. CASE ClaimProof(w)
  <2>1. k \in store \/ (k = ProofKey /\ Issue(ProofRef))
    BY <1>1, <1>11 DEF ClaimProof, ClaimAccepted, ClaimRefused, ClaimErred
  <2>2. claimed[w] = {} /\ \A v \in Workers \ {w} : claimed'[v] = claimed[v]
    BY <1>11 DEF ClaimProof, Return, ClaimsInv, Settling
  <2> QED
    BY <1>7, <1>9, <2>1, <2>2
<1>12. CASE ClaimCharge(w) \/ ClaimSponsored(w)
  <2>1. k \in store \/ k \in claimed'[w]
    BY <1>1, <1>12 DEF ClaimCharge, ClaimSponsored, ClaimAccepted,
                       ClaimRefused, ClaimErred
  <2>2. claimed[w] = {} /\ \A v \in Workers \ {w} : claimed'[v] = claimed[v]
    BY <1>12 DEF ClaimCharge, ClaimSponsored, Return, ClaimsInv, Settling
  <2>3. k \in claimed'[w] => Justified(k)'
    BY DEF Justified
  <2> QED
    BY <1>7, <2>1, <2>2, <2>3
<1>13. CASE Conclude(w)
  <2>1. k \in store
    BY <1>13 DEF Conclude
  <2>2. \A v \in Workers \ {w} : claimed'[v] = claimed[v]
    BY <1>13 DEF Conclude, Return
  <2>3. ASSUME k \in claimed[w] PROVE k[2] = pay[w]
    BY <2>3, <1>13 DEF Conclude, ClaimsInv, ClaimOf, Settling
  <2>4. ASSUME k \in claimed[w], ~Pays(w) PROVE Justified(k)'
    <3>1. HoldsReceipt(w)
      BY <1>13 DEF Conclude, PlaceInv
    <3>2. chain[pay[w]].status = seen[w] /\ seen[w] # "none"
      BY <3>1 DEF HoldsReceipt
    <3>3. Burnt(pay[w])
      BY <2>4, <3>2 DEF Pays, Burnt
    <3> QED
      BY <1>1, <1>8, <2>3, <2>4, <3>3 DEF Justified, Burnt
  <2>5. CASE UNCHANGED claimed
    BY <1>5, <1>13, <2>5 DEF Conclude
  <2>6. CASE Issue(pay[w])
    BY <1>7, <1>8, <1>9, <2>1, <2>2, <2>3, <2>6
  <2>7. CASE ~Pays(w)
    BY <1>7, <2>1, <2>2, <2>4, <2>7
  <2> QED
    BY <1>13, <2>5, <2>6, <2>7 DEF Conclude
<1>14. CASE ClaimFinal(w)
  <2> DEFINE f == ChargeKey(pay[w], token[w])
  <2>1. k \in store \/ (k = f /\ Issue(pay[w]))
    BY <1>1, <1>14 DEF ClaimFinal, ClaimAccepted, ClaimRefused, ClaimErred
  <2>2. \A v \in Workers \ {w} : claimed'[v] = claimed[v]
    BY <1>14 DEF ClaimFinal, Return
  <2>3. ASSUME k \in claimed[w] PROVE k[2] = pay[w]
    BY <2>3, <1>14 DEF ClaimFinal, ClaimsInv, ClaimOf, Settling
  <2>4. CASE Issue(pay[w])
    BY <1>7, <1>8, <1>9, <2>1, <2>2, <2>3, <2>4
  <2>5. CASE ClaimRefused(f) /\ UNCHANGED receipts
    <3>1. k \in store
      BY <2>5 DEF ClaimRefused
    <3>2. f \in store /\ Visible(f)
      BY <1>1, <2>5 DEF ClaimRefused, Claimable, Visible, KeysLive
    <3>3. Justified(f)
      BY <1>1, <3>2 DEF NoStrandedClaim, Justified, ChargeKey, LegacyKey
    <3>4. \A v \in Workers : f \notin claimed[v]
      <4>1. charge.sponsor # "none"
        BY <1>14 DEF ClaimFinal, PlaceInv
      <4>2. \A v \in Workers : claimed[v] \subseteq {SponsoredKey(pay[v])}
        BY <4>1 DEF ClaimsInv, ClaimOf
      <4> QED
        BY <4>2, KeyFacts
    <3>5. ~Burnt(pay[w])
      <4>1. HoldsReceipt(w) /\ Pays(w)
        BY <1>14 DEF ClaimFinal, PlaceInv
      <4>2. chain[pay[w]].status = seen[w]
        BY <4>1 DEF HoldsReceipt
      <4> QED
        BY <4>1, <4>2 DEF Pays, Burnt
    <3>6. receipts'[pay[w]] > 0
      BY <2>5, <3>3, <3>4, <3>5 DEF Justified
    <3>7. k \in claimed[w] => Justified(k)'
      BY <2>3, <3>6 DEF Justified
    <3> QED
      BY <1>7, <2>2, <3>1, <3>7
  <2>6. CASE UNCHANGED claimed /\ UNCHANGED receipts
    <3>1. k \in store
      BY <2>1, <2>6 DEF Issue
    <3> QED
      BY <1>3, <1>4, <2>6, <3>1
  <2> QED
    BY <1>14, <2>4, <2>5, <2>6 DEF ClaimFinal
<1>15. CASE Release(w)
  <2>1. store' = store \ claimed[w] /\ k \notin claimed[w]
    BY <1>1, <1>15 DEF Release
  <2>2. \A v \in Workers \ {w} : claimed'[v] = claimed[v]
    BY <1>15 DEF Release, Return
  <2> QED
    BY <1>7, <2>1, <2>2
<1> QED
  BY <1>6, <1>10, <1>11, <1>12, <1>13, <1>14, <1>15 DEF Step

\* As long as nothing is lost, the store locks out no payment that could still
\* be settled (the deferred release of broadcastTransaction).
THEOREM NoStranded == Spec => []NoStrandedClaim
<1>1. Init => NoStrandedClaim
  BY DEF Init, NoStrandedClaim
<1>2. ASSUME IInv, IInv', NoStrandedClaim, [Next]_vars PROVE NoStrandedClaim'
  <2> SUFFICES ASSUME faults' = 0, NEW k \in store', k # LegacyKey, Visible(k)'
               PROVE  Justified(k)'
    BY DEF NoStrandedClaim, Justified, LegacyKey
  <2> USE DEF world
  <2>1. CASE \E w \in Workers : Step(w)
    BY <1>2, <2>1, StepJustifies
  <2>2. ASSUME faults = 0, k \in store, Visible(k), UNCHANGED <<charge, claimed, receipts>>,
               \A p \in Payments : Burnt(p) => Burnt(p)'
        PROVE  Justified(k)'
    BY <1>2, <2>2 DEF NoStrandedClaim, Justified
  <2>3. CASE \E w \in Workers : Start(w)
    BY <1>2, <2>2, <2>3 DEF Start, ValidateHash, ValidateProof, CheckUsed,
       CheckSponsored, Visible, KeysLive, Burnt
  <2>4. CASE \E w \in Workers : Crash(w)
    BY <1>2, <2>4 DEF Crash, IInv, TypeOK
  <2>5. CASE Environment
    <3>1. ASSUME NEW p \in Payments, NEW t \in Tokens,
                 NEW status \in {"ok", "reverted"}, Include(p, t, status)
          PROVE  Justified(k)'
      <4>1. \A q \in Payments : Burnt(q) => Burnt(q)'
        BY <1>2, <3>1 DEF Include, Burnt, IInv, TypeOK
      <4> QED
        BY <2>2, <3>1, <4>1 DEF Include, Visible, KeysLive
    <3>2. ASSUME NEW p \in Payments, Push(p) PROVE Justified(k)'
      BY <2>2, <3>2 DEF Push, Visible, KeysLive, Burnt
    <3>3. CASE Tick
      <4>1. KeysLive' => KeysLive
        BY <1>2, <3>3, ClockAssumption DEF Tick, KeysLive, IInv, TypeOK
      <4> QED
        BY <2>2, <3>3, <4>1 DEF Tick, Visible, Burnt
    <3> QED
      BY <2>5, <3>1, <3>2, <3>3 DEF Environment
  <2>6. CASE UNCHANGED vars
    BY <2>2, <2>6 DEF vars, Visible, KeysLive, Burnt
  <2> QED
    BY <1>2, <2>1, <2>3, <2>4, <2>5, <2>6 DEF Next
<1>3. IInv /\ IInv' /\ NoStrandedClaim /\ [Next]_vars => NoStrandedClaim'
  BY <1>2
<1> QED
  BY <1>1, <1>3, IInvHolds, PTL DEF Spec

-----------------------------------------------------------------------------
(* Settlement implements PaymentOnce.                                      *)

\* A step settles nothing and mines nothing, or one of the two.
LEMMA StepKinds ==
  ASSUME TypeOK, [Next]_vars
  PROVE  /\ UNCHANGED charge
         /\ \/ UNCHANGED <<chain, receipts>>
            \/ UNCHANGED chain /\ \E r \in Refs : Issue(r)
            \/ /\ UNCHANGED receipts
               /\ \E p \in Payments, t \in Tokens, status \in {"ok", "reverted"} :
                    Include(p, t, status)
<1> USE DEF world
<1>1. ASSUME NEW w \in Workers, Start(w) PROVE UNCHANGED <<charge, chain, receipts>>
  BY <1>1 DEF Start, ValidateHash, ValidateProof, CheckUsed, CheckSponsored
<1>2. ASSUME NEW w \in Workers, Step(w)
      PROVE  UNCHANGED <<charge, chain>> /\ (UNCHANGED receipts \/ \E r \in Refs : Issue(r))
  BY <1>2 DEF TypeOK, Step, ClaimHash, ClaimProof, Screen, ClaimCharge,
              ClaimSponsored, CosignIncluded, CosignFound, CosignReady,
              CosignAbort, Send, Await, Recover, Conclude, ClaimFinal, Release
<1>3. ASSUME NEW w \in Workers, Crash(w) PROVE UNCHANGED <<charge, chain, receipts>>
  BY <1>3 DEF Crash
<1>4. ASSUME NEW p \in Payments, NEW t \in Tokens,
             NEW status \in {"ok", "reverted"}, Include(p, t, status)
      PROVE  UNCHANGED <<charge, receipts>>
  BY <1>4 DEF Include
<1>5. ASSUME (\E p \in Payments : Push(p)) \/ Tick
      PROVE  UNCHANGED <<charge, chain, receipts>>
  BY <1>5 DEF Push, Tick
<1>6. ASSUME UNCHANGED vars PROVE UNCHANGED <<charge, chain, receipts>>
  BY <1>6 DEF vars
<1> QED
  BY <1>1, <1>2, <1>3, <1>4, <1>5, <1>6 DEF Next, Environment

\* Every behaviour of the settlement code is one PaymentOnce allows.
THEOREM Implementation == Spec => ImplementsPaymentOnce
<1> DEFINE due == IF charge.zero THEN {ProofRef} ELSE charge.paidBy
           outcome == [p \in Payments |-> chain[p].status]
<1>1. Init => Once!Init
  <2> SUFFICES ASSUME Init PROVE Once!Init
    OBVIOUS
  <2>1. due \in SUBSET (Payments \cup {ProofRef})
    BY DEF Init
  <2>2. outcome = [p \in Payments |-> "none"]
    BY DEF Init
  <2>3. receipts = [r \in Payments \cup {ProofRef} |-> 0]
    BY DEF Init
  <2> QED
    BY <2>1, <2>2, <2>3 DEF Once!Init, Once!Refs
<1>2. ASSUME IInv, IInv', [Next]_vars PROVE [Once!Next]_(Once!vars)
  <2>1. TypeOK /\ TypeOK' /\ ReceiptInv' /\ UNCHANGED charge
    BY <1>2, StepKinds DEF IInv
  <2>2. CASE UNCHANGED <<chain, receipts>>
    BY <2>1, <2>2 DEF Once!vars
  <2>3. ASSUME UNCHANGED chain, NEW r \in Refs, Issue(r) PROVE Once!Settle(r)
    <3>1. receipts' = [receipts EXCEPT ![r] = @ + 1] /\ receipts[r] \in Nat
      BY <2>1, <2>3 DEF Issue, TypeOK
    <3>2. receipts'[r] = 1 /\ receipts[r] = 0
      <4>1. receipts'[r] = receipts[r] + 1
        BY <2>1, <3>1 DEF TypeOK
      <4>2. receipts'[r] # 0
        BY <3>1, <4>1
      <4>3. receipts'[r] = 1
        BY <2>1, <4>2 DEF ReceiptInv
      <4> QED
        BY <3>1, <4>1, <4>3
    <3>3. r \in due
      BY <2>1, <2>3, <3>2, ProofIsNoPayment DEF ReceiptInv
    <3>4. r \in Payments => outcome[r] = "ok"
      BY <2>1, <2>3, <3>2 DEF ReceiptInv
    <3> QED
      BY <2>1, <2>3, <3>1, <3>2, <3>3, <3>4 DEF Once!Settle
  <2>4. ASSUME UNCHANGED receipts, NEW p \in Payments, NEW t \in Tokens,
               NEW status \in {"ok", "reverted"}, Include(p, t, status)
        PROVE  Once!Mine(p, status)
    <3>1. outcome[p] = "none"
      BY <2>4 DEF Include
    <3>2. outcome' = [outcome EXCEPT ![p] = status]
      BY <2>1, <2>4 DEF Include, TypeOK
    <3> QED
      BY <2>1, <2>4, <3>1, <3>2 DEF Once!Mine
  <2> QED
    BY <1>2, <2>1, <2>2, <2>3, <2>4, StepKinds DEF Once!Next, Once!Refs
<1>3. IInv /\ IInv' /\ [Next]_vars => [Once!Next]_(Once!vars)
  BY <1>2
<1> QED
  BY <1>1, <1>3, IInvHolds, PTL DEF Spec, ImplementsPaymentOnce, Once!Spec
=============================================================================
