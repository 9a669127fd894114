SPECIFICATION MemberSpec
CONSTANTS
  s1 = s1
  f1 = f1
  Seats = {s1}
  Fungible = {}
  Policies = {"", "rank"}
  NoPolicy = ""
  Methods = {}
  Values = {0, 1, 2}
  None = None
  LOG_CAP = 2
  CACHE_ENTRIES = 2
  CACHE_BYTES = 0
  MAX_INCARNATION = 3
  Me = s1
  Tenure = 1
  MyShape <- Plain
  Beats <- Rival
  TTL = 2
  MaxDelay = 1
  MaxVersion = 3
  MaxPublication = 1
  MaxOrphans = 1
  MaxEpoch = 1
  OneShots = TRUE
INVARIANTS ConfirmedWasStored LatestIsShown GoodbyeIsFinal
