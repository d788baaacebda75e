CONSTANTS
  o1 = o1  o2 = o2  k1 = k1  acc = acc  tok = tok  t1 = t1  t2 = t2  t3 = t3
  OrderIds = {o1, o2}
  InternalKeys = {k1}
  Accounts = {acc}
  Tokens = {tok}
  Trades = {t1}
  KeyOf <- OneKey
  AccountOf <- OneAccount
  TokenOf <- OneToken
  SideOf <- AllSell
  SizeOf <- SizeTwo
  TradeOrder <- TradesOfO1
  Refs = {"venue", "none"}
  FillKinds = {"Matched", "Failed"}
  ReportSizes = {1, 2}
  AppliedCap = 1
  PendingCap = 1
  PendingTtl = 0
  MaxTime = 1
  JournalBound = 1
  BookedBound = 2
  NoOrder = NoOrder
SPECIFICATION Spec
INVARIANTS TypeOK LiveIndexExact OneLivePerKey BookedOnce CompletedSellsStamped
PROPERTY NeverResurrected
CHECK_DEADLOCK FALSE
