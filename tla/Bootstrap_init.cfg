SPECIFICATION FairSpec
CONSTANTS
  Operators = {o1}
  Releases = 3
  MaxFaults = 3
  Absent = Absent
  Spoilt = Spoilt
INVARIANTS TypeOK KeyFitsDatabase
PROPERTIES  ForwardOnly OkMeansReady InitConverges
CHECK_DEADLOCK FALSE
