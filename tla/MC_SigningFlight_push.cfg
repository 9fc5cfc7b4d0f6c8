SPECIFICATION Spec
CONSTANTS
  a = a
  b = b
  c = c
  Calls = {a, b, c}
  Modes = {"push"}
  NoCall = NoCall
INVARIANTS
  JoinedCallsPayOnce
