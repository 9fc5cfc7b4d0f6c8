SPECIFICATION Spec
CONSTANTS
  w1 = w1
  w2 = w2
  w3 = w3
  p1 = p1
  p2 = p2
  t1 = t1
  t2 = t2
  Workers = {w1, w2}
  Payments = {p1}
  FeeTokens = {t1, t2}
  Sender = Sender
  ProofRef = ProofRef
  Charges <- MCCharges
  ExpireKeys = TRUE
  Deadline = 1
  Expires = 2
  KeyExpiry = 3
  MaxClock = 3
  MaxFaults = 1
SYMMETRY WorkerSymmetry
INVARIANTS
  TypeOK
  OneReceiptPerPayment
  OneSettlerPerPayment
  NoStrandedClaim
PROPERTIES
  ConsumedStaysClaimed
  ImplementsPaymentOnce
