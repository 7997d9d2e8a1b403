CONSTANTS
  small = small
  large = large
  Records = {small, large}
  Size <- MCSize
  Callers = {"query", "maintenance", "closer"}
  MaxJobs = 2
  BatchRecords = 2
  BatchBytes = 3
  QueueRecords = 3
  QueueBytes = 5
  MaxAccepted = 4
SPECIFICATION RuntimeSpec
INVARIANTS CloseLeavesNoWriter
PROPERTIES ImplementsDurableQueue FlushMeansPersisted WorkSettles
CHECK_DEADLOCK FALSE
