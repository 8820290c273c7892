SPECIFICATION Spec
CONSTANTS
  Drafts = {d1}
  Nonces = {n1, n2}
  Convs = {c1}
  Bodies = {b1}
  Devices = {v1}
  Attempts = {a1, a2}
  Cands = {}
  Senders = {s1}
  Preparers = {p1}
  TTL = 1
  WINDOW = 1
  MaxTime = 1
  InboundTimes = {1}
  ExpiryArgs = {0}
  Callbacks = {FALSE}
  None = None
INVARIANT ApprovalIsSingleUse
CHECK_DEADLOCK FALSE
