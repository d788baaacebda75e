------------------------------ MODULE MCFillLog ------------------------------
(* Instances of FillLog for TLC. *)
EXTENDS FillLog

CONSTANTS o1, o2, k1, acc, tok, t1, t2

OneKey == [o \in OrderIds |-> k1]
OneAccount == [o \in OrderIds |-> acc]
OneToken == [o \in OrderIds |-> tok]
AllSell == [o \in OrderIds |-> "Sell"]
\* A report of size 2 fits o1, and is cut short when it falls back to o2.
TwoAndOne == [o \in OrderIds |-> IF o = o1 THEN 2 ELSE 1]
AllFour == [o \in OrderIds |-> 4]
TradesOfO1 == [t \in Trades |-> o1]
=============================================================================
