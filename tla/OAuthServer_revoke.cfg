SPECIFICATION Spec
CONSTANTS
  Requests = {r1}
  Codes = {k1}
  Grants = {g1}
  Pairs = {p1, p2}
  PENDING_TTL = 1
  CODE_TTL = 1
  ACCESS_TTL = 1
  REFRESH_TTL = 2
  MAX_PENDING = 1
  MaxTime = 4
  None = None
SYMMETRY Symmetry
INVARIANT RevokeNeedsFreshApproval
CHECK_DEADLOCK FALSE
