SPECIFICATION Spec
CONSTANTS
  k1 = k1
  k2 = k2
  v1 = v1
  v2 = v2
  Keys = {k1, k2}
  Values = {v1}
  NoValue = NoValue
  Never = Never
  Second = 2
  SweepInterval = 2
  TTL = 1
  MaxClock = 3
  MaxPending = 2
INVARIANTS
  TypeOK
PROPERTIES
  ClaimsExclude
  ImplementsExpiringStore
CHECK_DEADLOCK FALSE
