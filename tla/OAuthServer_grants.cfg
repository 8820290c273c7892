SPECIFICATION Spec
CONSTANTS
  Requests = {r1, r2}
  Codes = {k1, k2}
  Grants = {g1, g2}
  Pairs = {p1, p2}
  PENDING_TTL = 1
  CODE_TTL = 1
  ACCESS_TTL = 1
  REFRESH_TTL = 1
  MAX_PENDING = 1
  MaxTime = 4
  None = None
SYMMETRY Symmetry
INVARIANTS TypeOK OneGrantPerApproval OneLivePair ReuseKillsFamily GrantIsTimely PendingBounded
CHECK_DEADLOCK FALSE
