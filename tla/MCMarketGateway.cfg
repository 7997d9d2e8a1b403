CONSTANTS
  Ticks = {1}
  NoPrev = NoPrev
  NoDigest = NoDigest
  LastSeq = 3
  Truth <- MCTruth
  DemoTruth <- MCDemoTruth
  MaxPending = 1
  MaxDemoSeq = 2
  MaxFaults = 3
  MaxStarts = 2
SPECIFICATION FairSpec
INVARIANTS ValidBookIsTheSourcesBook ListenersToldOfEverySession PublishedStatusHonest
PROPERTIES MarketRecovers
CHECK_DEADLOCK FALSE
