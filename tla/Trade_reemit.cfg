\* One trade, one worker, one fault: the run of a redelivered allocation.
SPECIFICATION DeskSpec
CONSTANTS
  Trades = {t1}
  Workers = {w1}
  Pollers = {}
  Reasons = {SL}
  NoEvent = NoEvent
  MaxFaults = 1
  Crew = 2
  Poll = poll
  o1 = o1
  o2 = o2
  Others = {o1, o2}
  Kinds = {"curve", "foreign"}
  Levels = {8, 10}
  Placeholder = 1
  CacheTTL = 1
  StaleMax = 2
  MaxCall = 1
  MaxListed = 1
  Whole = 10
  Tp1 = 2
  Tp2 = 5
  Sl = 2
  Tp1FilledPct = 0
  TrailingStop = 2
  Tiers <- MCTiers
  MaxHold = 2
  PricingFaults = 1
  SolanaOrders = {s1}
  EvmOrders = {v1, v2}
  WalletOf <- MCWalletOf
  MaxSendAttempts = 3
  Validity = 1
  MaxHeight = 3
  MaxForks = 1
INVARIANTS
  FillReachesTheBus
CHECK_DEADLOCK FALSE
