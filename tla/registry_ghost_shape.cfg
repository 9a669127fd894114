SPECIFICATION Spec
CONSTANTS
  s1 = s1
  f1 = f1
  v1 = v1
  v2 = v2
  Seats = {s1}
  Fungible = {f1}
  Policies = {"", "rank", "any"}
  NoPolicy = ""
  Methods = {"m"}
  Values = {v1}
  Beats <- GhostBeats
  None = None
  TTL = 2
  LOG_CAP = 2
  CACHE_ENTRIES = 2
  CACHE_BYTES = 4
  MAX_INCARNATION = 3
  MaxVersion = 6
PROPERTY RefusedBeatIsVersioned
