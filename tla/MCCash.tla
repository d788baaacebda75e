------------------------------- MODULE MCCash -------------------------------
(* One account with a BUY whose trade fills a part below the limit price and
   pays a fee, a SELL for a part of the position, a SELL placed by hand for
   the rest, and a withdrawal.                                             *)
EXTENDS Cash

CONSTANTS buy, sell, b1, s1, m1

MCPrice == (buy :> 2) @@ (sell :> 1)
MCSize == (buy :> 3) @@ (sell :> 1)
MCTradeOrder == (b1 :> buy) @@ (s1 :> sell) @@ (m1 :> NoOrder)
MCPx == (b1 :> 1) @@ (s1 :> 3) @@ (m1 :> 2)
MCQty == (b1 :> 2) @@ (s1 :> 1) @@ (m1 :> 1)
MCFee == (b1 :> 1) @@ (s1 :> 1) @@ (m1 :> 0)
MCStamp == (b1 :> 1) @@ (s1 :> 2) @@ (m1 :> 1)
MCManualSide == (m1 :> "Sell")
MCMoves == {-1}
=============================================================================
