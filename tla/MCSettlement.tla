---------------------------- MODULE MCSettlement ----------------------------
(* One market. Account a holds a paying and a worthless position, account b   *)
(* (and c, in an instance for ClaimsAttributable) a paying one.             *)
EXTENDS Settlement

CONSTANTS pa, za, pb, pc, a, b, c, m

PositionAccount ==
  [p \in Positions |-> CASE p \in {pa, za} -> a [] p = pb -> b [] p = pc -> c]
PositionMarket == [p \in Positions |-> m]
PositionWorth == [p \in Positions |-> IF p = za THEN 0 ELSE 1]

=============================================================================
