CONSTANTS
  o1 = o1  o2 = o2  k1 = k1  acc = acc  tok = tok  t1 = t1  t2 = t2  t3 = t3
  OrderIds = {o1, o2}
  InternalKeys = {k1}
  Accounts = {acc}
  Tokens = {tok}
  Trades = {t1, t2, t3}
  KeyOf <- OneKey
  AccountOf <- OneAccount
  TokenOf <- OneToken
  SideOf <- AllSell
  SizeOf <- SizeFour
  TradeOrder <- TradesOfBoth
  Refs = {"core"}
  FillKinds = {"Matched"}
  ReportSizes = {1}
  AppliedCap = 1
  PendingCap = 1
  PendingTtl = 0
  MaxTime = 0
  JournalBound = 1
  BookedBound = 2
  NoOrder = NoOrder
SPECIFICATION Spec
INVARIANT LiveTradeBookedOnce
