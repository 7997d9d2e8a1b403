CONSTANTS
  NoFile = NoFile
  NoManifest = NoManifest
  NoDigest = NoDigest
  MaxCaptures = 2
  MaxOffered = 4
  MaxFaults = 2
  Sizes = {2, 6, 9}
  Envelope = 1
  QueueCapacity = 2
  QueueByteCapacity = 4
  MaxCaptureBytes = 7
SPECIFICATION FairCaptureSpec
INVARIANTS CapturesAccountForRecords
PROPERTIES CloseSettles
CHECK_DEADLOCK FALSE
