CONSTANTS
  Ticks = {1, 2}
  NoPrev = NoPrev
  NoDigest = NoDigest
  LastSeq = 3
  Truth <- MCTruth
  MaxBufferedDepth = 2
  MaxFaults = 2
  MaxStarts = 2
SPECIFICATION FairSpec
INVARIANTS ListenerTracksExchange Supervised CaptureReplaysTheBook
PROPERTIES ImplementsDepthFeed SynchronizationSettles
CHECK_DEADLOCK FALSE
