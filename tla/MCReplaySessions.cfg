CONSTANTS
  Records <- MCRecords
  Until = 1
  MaxPreRoll = 5
  Sessions = {s1}
  Clients = {c1, c2}
  SeekTargets = {1}
  Limits = {1, 3}
  MaxStored = 1
  MaxFaults = 2
  Nobody = Nobody
CHECK_DEADLOCK FALSE
SPECIFICATION FairSpec
INVARIANTS
  SpeedInvariant
  ReceivedOnce
  DeletedStayGone
PROPERTIES
  RequestsAnswered
