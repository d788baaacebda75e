CONSTANTS
  buy = buy  sell = sell  b1 = b1  s1 = s1  m1 = m1
  NoOrder = NoOrder  None = None
  Orders = {buy, sell}
  BuyOrders = {buy}
  Trades = {b1, s1, m1}
  Price <- MCPrice  Size <- MCSize  TradeOrder <- MCTradeOrder  Px <- MCPx
  Qty <- MCQty  Fee <- MCFee  Stamp <- MCStamp  ManualSide <- MCManualSide
  Moves <- MCMoves
  Deposit = 7
  JournalCap = 2
  MaxEvents = 2
SPECIFICATION Spec
CHECK_DEADLOCK FALSE
INVARIANTS TypeOK ReservationsExact CashIdentity ManualFoldedOnce
PROPERTY DetectorExact
