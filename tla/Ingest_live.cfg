SPECIFICATION FairSpec
CONSTANTS
  Msgs = {"m1", "m3", "malformed"}
  Events = {"early", "late", "bad"}
  Keys = {"k1"}
  Convs = {v1}
  Consumers = {p1, p2}
  children <- LiveChildren
  shape <- PoisonShape
  sealedTo <- PoisonKey
  family <- Family
  conv <- Conv
  ts <- Stamp
  Refused = {"bad"}
  Rebuilt = {}
  StoredKeys = {"k1"}
  MaxLease = 2
  MaxFaults = 2
  None = None
PROPERTIES NothingForgotten 
CHECK_DEADLOCK FALSE
