CONSTANTS
  Symbols = {btc, eth}
  Default = btc
  Remote <- MCRemote
  BuiltIn <- MCBuiltIn
  Speeds <- MCSpeeds
  Kept = 2
  MaxClock = 3
  MaxSent = 2
  MaxUser = 3
  MaxQueue = 2
SPECIFICATION ViewSpec
INVARIANTS PageIsTruthful ReplayKeepsTime
CHECK_DEADLOCK FALSE
