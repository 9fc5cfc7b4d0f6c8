SPECIFICATION LiveSpec
CONSTANTS
  a = a
  b = b
  c = c
  Calls = {a, b, c}
  Modes = {"push", "pull", "sponsored"}
  NoCall = NoCall
INVARIANTS
  TypeOK
  OneSigning
  HandedOutOnce
  CredentialIsSigned
  LiveCallNotCancelled
PROPERTIES
  EveryCallReturns
