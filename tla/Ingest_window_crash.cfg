SPECIFICATION FairSpec
CONSTANTS
  Msgs = {"m1"}
  Events = {"early", "late"}
  Keys = {"k1"}
  Convs = {v1}
  Consumers = {p1}
  children <- LiveChildren
  shape <- PoisonShape
  sealedTo <- PoisonKey
  family <- Family
  conv <- Conv
  ts <- Stamp
  Refused = {}
  Rebuilt = {}
  StoredKeys = {"k1"}
  MaxLease = 1
  MaxFaults = 1
  None = None
PROPERTY WindowFollowsEvidence
CHECK_DEADLOCK FALSE
