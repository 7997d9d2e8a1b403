CONSTANTS
  LastFrame = 2
  BucketFrames = 2
  Readers = {query}
  MaxFiles = 5
  MaxBackups = 2
  MaxRestores = 1
  MaxRestarts = 1
SPECIFICATION Spec
INVARIANTS SegmentsPresent StoredOnce CheckpointCovered FilesAccountedFor
PROPERTIES OnlyPolicyRemoves
CHECK_DEADLOCK FALSE
