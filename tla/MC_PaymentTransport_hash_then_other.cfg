SPECIFICATION Spec
CONSTANTS
  k1 = k1
  k2 = k2
  k3 = k3
  Keys = {k1, k2, k3}
  Kinds = {"hash", "transaction"}
  MaxRetries = 3
  MaxRedirects = 1
  NoCred = NoCred
  Opaque = Opaque
INVARIANTS
  NoPaymentAfterHash
