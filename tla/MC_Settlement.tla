--------------------------- MODULE MC_Settlement ---------------------------
(* Instances of Settlement for TLC.                                        *)
EXTENDS Settlement, TLC

CONSTANTS w1, w2, w3, p1, p2, t1, t2

\* A charge of each kind for one payment that pays it, or falls short.
OneCharge(zero, sponsor, paidBy, own, legacy) ==
  [zero |-> zero, sponsor |-> sponsor, paidBy |-> paidBy, own |-> own,
   legacy |-> legacy]

MCZero == {OneCharge(TRUE, "none", {}, Payments, FALSE)}
MCPayerGas == {OneCharge(FALSE, "none", d, Payments, FALSE) : d \in {{}, {p1}}}
MCSponsored ==
  {OneCharge(FALSE, s, d, {}, l) :
     s \in {"local", "hosted"}, d \in {{}, {p1}}, l \in BOOLEAN}
MCPushed == {OneCharge(FALSE, "local", {p1}, {p1}, FALSE)}
MCCharges == MCZero \cup MCPayerGas \cup MCSponsored \cup MCPushed

\* Charges whose paid credential can always be recovered, see README.
MCRecoverable ==
  {OneCharge(FALSE, "none", {p1}, {p1}, FALSE),
   OneCharge(FALSE, "local", {p1}, {}, FALSE)}
MCHosted == {OneCharge(FALSE, "hosted", {p1}, {}, FALSE)}

WorkerSymmetry == Permutations(Workers)
=============================================================================
