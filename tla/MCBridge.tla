------------------------------ MODULE MCBridge ------------------------------
(* Instances of the live bridge: two orders for the safety run, one order and *)
(* every fault for the liveness run.                                          *)
EXTENDS Bridge, TLC

OrderSymmetry == Permutations(Orders)

=============================================================================
