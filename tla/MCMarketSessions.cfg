CONSTANTS
  Clients = {c1, c2}
  Symbols = {btc, eth, sol}
  DefaultSymbol = btc
  MaxSessions = 2
  MaxSubscriptionsPerClient = 1
  MaxRefs = 2
  MaxGateways = 3
SPECIFICATION FairSpec
INVARIANTS SubscribersKeepTheirSession IdleSessionsAreOnTheClock
PROPERTIES VanishedPeersAreReleased
CHECK_DEADLOCK FALSE
