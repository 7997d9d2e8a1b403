CONSTANTS
  Ticks = {1, 2, 3}
  NoPrev = NoPrev
  NoDigest = NoDigest
  LastSeq = 5
  Truth <- MCTruth
  Snapshots <- MCSnapshots
  Updates <- MCUpdates
SPECIFICATION Spec
INVARIANTS TracksExchange HealthyStreamAccepted
PROPERTIES RejectionKeepsBook
