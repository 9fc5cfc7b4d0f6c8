SPECIFICATION Spec
CONSTANTS
  shop = shop
  partner = partner
  payer = payer
  c1 = c1
  c2 = c2
  usd = usd
  eur = eur
  main = main
  test = test
  NoChain = NoChain
  Stranger = Stranger
  FeeController = FeeController
  Fee = 1
  Requests <- MCRequests
  Clients <- MCClients
  Servers = {"local", "hosted", "relay", "foreign"}
  Payer = payer
  Realm = "realm"
  Ids = {c1, c2}
  ServerChain = main
  Spellings <- MCSpellings
  Windows = {1, 3, 9}
  Lifetimes = {6, 11, 14, 20}
  Sec = 3
  MinValidity = 2
  Window = 5
  MaxWindow = 7
  PastExpiry = 4
  MaxClock = 21
INVARIANTS
  TypeOK
  MatchingIsExact
  PaysOneChallenge
  SpendsWhatWasAllowed
  SignedIsAccepted
  PaidIsNotRefused
CHECK_DEADLOCK FALSE
