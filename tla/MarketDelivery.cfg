SPECIFICATION FairDeliverySpec
CONSTANTS
  Instruments = {"BTC", "ETH"}
  Default = "BTC"
  SoftLimit = 2
  HardLimit = 5
  MaxMarketSessions = 2
  MaxFaults = 1
  MaxSwitches = 1
  MaxDown = 3
INVARIANTS NoFalseGap
PROPERTIES ShowsTheSelectedMarket LiveAgain
CHECK_DEADLOCK FALSE
