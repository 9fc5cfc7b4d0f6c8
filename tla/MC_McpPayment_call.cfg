SPECIFICATION FairSpec
CONSTANTS
  tempo = tempo
  card = card
  home = home
  away = away
  Methods = {tempo, card}
  Offers <- MC_Offers
  Strange <- MC_Strange
  Configs <- MC_Configs
  Sessions <- MC_Sessions
  NoEndpoint = NoEndpoint
  NoCred = NoCred
  Garbled = Garbled
  Life = 1
  MaxAttempts = 3
  MaxClock = 2
INVARIANTS
  TypeOK
  OneCredentialPerChallenge
  PaidOnce
  OneOfferPaid
  ProofsStayHome
PROPERTIES
  Terminates
CHECK_DEADLOCK FALSE
