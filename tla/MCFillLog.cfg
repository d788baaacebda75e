CONSTANTS
  o1 = o1  o2 = o2  k1 = k1  acc = acc  tok = tok  t1 = t1  t2 = t2
  OrderIds = {o1, o2}
  InternalKeys = {k1}
  Accounts = {acc}
  Tokens = {tok}
  Trades = {t1}
  KeyOf <- OneKey
  AccountOf <- OneAccount
  TokenOf <- OneToken
  SideOf <- AllSell
  SizeOf <- TwoAndOne
  TradeOrder <- TradesOfO1
  Refs = {"venue"}
  FillKinds = {"Matched", "Failed"}
  ReportSizes = {1, 2}
  AppliedCap = 1
  PendingCap = 1
  PendingTtl = 0
  MaxTime = 1
  JournalBound = 2
  BookedBound = 2
  LogBound = 2
  NoOrder = NoOrder
SPECIFICATION LogSpec
INVARIANTS RowsCurrent OneLivePerKeyAcrossRestart TableMatchesBook
