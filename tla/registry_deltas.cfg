SPECIFICATION Spec
CONSTANTS
  s1 = s1
  f1 = f1
  v1 = v1
  v2 = v2
  Seats = {s1}
  Fungible = {f1}
  Policies = {"", "rank", "any"}
  NoPolicy = ""
  Methods = {"m"}
  Values = {v1, v2}
  Beats <- DeltaBeats
  None = None
  TTL = 1
  LOG_CAP = 2
  CACHE_ENTRIES = 2
  CACHE_BYTES = 6
  MAX_INCARNATION = 3
  MaxVersion = 4
INVARIANTS CacheIsFresh CacheWithinBudget
PROPERTY MemberChangeIsVersioned
