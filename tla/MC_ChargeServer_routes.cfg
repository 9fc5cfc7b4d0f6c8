SPECIFICATION Spec
CONSTANTS
  m1 = m1
  m2 = m2
  b1 = b1
  usd = usd
  eur = eur
  pro = pro
  scope1 = scope1
  scope2 = scope2
  bound = bound
  NoBody = NoBody
  TooLarge = TooLarge
  NoScope = NoScope
  LongScope = LongScope
  NoCred = NoCred
  Malformed = Malformed
  Unreadable = Unreadable
  Garbage = Garbage
  Mpps = {m1, m2}
  Bodies = {NoBody, b1, TooLarge}
  Routes <- MCRoutes
  Scope <- MCScope
  Elsewhere <- MCElsewhere
  Tampered = {Garbage, eur}
  Realm = "realm"
  Life = 2
  MinValidity = 1
  MaxClock = 3
  MaxRequests = 2
  Adapters = {"http", "gin", "echo", "fiber"}
  Statuses = {103, 200, 404}
INVARIANTS
  TypeOK
  ServedAsAsked
  OffersCanBePaid
  SettlingNotRepaid
  HooksAgree
  ReceiptWithSuccess
CHECK_DEADLOCK FALSE
