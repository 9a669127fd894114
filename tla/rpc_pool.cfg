SPECIFICATION Spec
CONSTANTS
  a = a
  b = b
  c = c
  k1 = k1
  k2 = k2
  None = None
  Calls = {a, b}
  Conns = {k1, k2}
  Ids = {a, b}
  IdOf <- OwnId
  Blobs = {b}
  Cancellable = {a}
  Invalid = {a}
  Refusable = {b}
  MAX_CONNECTIONS_PER_ENDPOINT = 1
  PREFERRED_INFLIGHT_PER_CONNECTION = 1
  MAX_INFLIGHT_PER_CONNECTION = 2
  MAX_ABANDONED_PER_CONNECTION = 1
  MAX_IDLE_CONNECTIONS = 1
INVARIANTS TypeOK IdleIsCounted ConnectionsBounded
SYMMETRY AlikeConns
