SPECIFICATION MemberSpec
CONSTANTS
  s1 = s1
  f1 = f1
  Seats = {s1}
  Fungible = {f1}
  Policies = {"", "rank"}
  NoPolicy = ""
  Methods = {}
  Values = {0, 1, 2}
  None = None
  LOG_CAP = 2
  CACHE_ENTRIES = 2
  CACHE_BYTES = 0
  MAX_INCARNATION = 3
  Me = s1
  Tenure = 1
  MyShape <- Plain
  Beats <- Visits
  TTL = 1
  MaxDelay = 0
  MaxVersion = 3
  MaxPublication = 0
  MaxOrphans = 0
  MaxEpoch = 2
  OneShots = TRUE
INVARIANT UpToDateIsFaithful
