SPECIFICATION Spec
CONSTANTS
  Calls = {c1}
  Convs = {v1}
  Codes = {k1}
  Pairs = {p1, p2}
  Senders = {s1, s2}
  Grants = {g1}
  MaxActions = 1
  MaxCrashes = 1
  Srv = Srv
  NoConn = NoConn
  None = None
SYMMETRY Symmetry
INVARIANTS TypeOK SentIsAudited FenceHolds TokensComeFromCode WithinGrant
CHECK_DEADLOCK FALSE
