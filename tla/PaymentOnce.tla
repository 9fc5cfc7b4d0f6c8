---------------------------- MODULE PaymentOnce ----------------------------
(***************************************************************************)
(* What charge settlement promises a merchant, without saying how: every   *)
(* payment made for a challenge yields at most one receipt, and only once  *)
(* it was included on chain, succeeded and satisfies the charge.           *)
(*                                                                         *)
(* Settlement.tla, the model of pkg/tempo/server/charge.go, implements     *)
(* this specification.                                                     *)
(***************************************************************************)
EXTENDS Naturals

CONSTANTS
  Payments,   \* transactions the payer signed for the challenge
  ProofRef    \* the challenge itself, which a zero-amount proof refers to

VARIABLES
  due,        \* references that satisfy the charge; never changes
  outcome,    \* what the chain made of each payment
  receipts    \* receipts handed out per reference

vars == <<due, outcome, receipts>>

Refs == Payments \cup {ProofRef}

Init ==
  /\ due \in SUBSET Refs
  /\ outcome = [p \in Payments |-> "none"]
  /\ receipts = [r \in Refs |-> 0]

\* The chain includes a payment, for good: it succeeds or it reverts.
Mine(p, status) ==
  /\ outcome[p] = "none"
  /\ status \in {"ok", "reverted"}
  /\ outcome' = [outcome EXCEPT ![p] = status]
  /\ UNCHANGED <<due, receipts>>

\* A verifier hands out the one receipt of a reference.
Settle(r) ==
  /\ r \in due
  /\ r \in Payments => outcome[r] = "ok"
  /\ receipts[r] = 0
  /\ receipts' = [receipts EXCEPT ![r] = 1]
  /\ UNCHANGED <<due, outcome>>

Next ==
  \/ \E p \in Payments, status \in {"ok", "reverted"} : Mine(p, status)
  \/ \E r \in Refs : Settle(r)

Spec == Init /\ [][Next]_vars
=============================================================================
