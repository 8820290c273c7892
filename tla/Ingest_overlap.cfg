SPECIFICATION Spec
CONSTANTS
  Msgs = {"m1", "m2", "tampered", "foreign"}
  Events = {"early", "late", "echo"}
  Keys = {"k1", "k2", "k3"}
  Convs = {v1}
  Consumers = {p1, p2}
  children <- OverlapChildren
  shape <- PoisonShape
  sealedTo <- PoisonKey
  family <- Family
  conv <- Conv
  ts <- Stamp
  Refused = {}
  Rebuilt = {v1}
  StoredKeys = {"k1", "k3"}
  MaxLease = 2
  MaxFaults = 1
  None = None
SYMMETRY Symmetry
INVARIANTS TypeOK AckedIsAccounted AppliedAtMostOnce WindowHasEvidence IntactNeverQuarantined RetiredKeyUnused
CHECK_DEADLOCK FALSE
