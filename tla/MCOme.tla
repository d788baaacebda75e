-------------------------------- MODULE MCOme --------------------------------
(* Instances of Ome for TLC. *)
EXTENDS Ome

CONSTANTS o1, o2, k1, acc, tok, t1, t2, t3

OneKey == [o \in OrderIds |-> k1]
OneAccount == [o \in OrderIds |-> acc]
OneToken == [o \in OrderIds |-> tok]
AllSell == [o \in OrderIds |-> "Sell"]
SizeTwo == [o \in OrderIds |-> 2]
SizeFour == [o \in OrderIds |-> 4]
TradesOfO1 == [t \in Trades |-> o1]
TradesOfBoth == [t \in Trades |-> IF t = t3 THEN o2 ELSE o1]
=============================================================================
