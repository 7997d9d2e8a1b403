CONSTANTS
  Nothing = Nothing
  Marks = {m1}
  PerSecond = 2
  Lateness = 1
  Recency = 3
  Kept = 2
  Confirm = 2
  MaxTime = 4
  MaxTrades = 2
  MaxSessions = 2
  MaxSettings = 1
SPECIFICATION TapeSpec
INVARIANTS TradesCountOnce
PROPERTIES TrendIsConfirmed
CHECK_DEADLOCK FALSE
