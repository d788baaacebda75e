SPECIFICATION Spec
CONSTANTS
  pa = pa
  za = za
  pb = pb
  pc = pc
  a = a
  b = b
  c = c
  m = m
  Positions = {pa, za, pb}
  Accounts = {a, b}
  Markets = {m}
  AccountOf <- PositionAccount
  MarketOf <- PositionMarket
  Worth <- PositionWorth
  MaxFlight = 2
  MaxFaults = 2
  MaxStops = 1
  NoAccount = NoAccount
  NoClaim = NoClaim
  NoPosition = NoPosition
  Unsettled = Unsettled
INVARIANTS ReplayFaithful PaidOnce OneChannel RedeemedIdsRetired
PROPERTIES  ClosedNotRetraded AllSettled
