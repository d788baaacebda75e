------------------------------- MODULE MCPair -------------------------------
(* Instances of Pair for TLC. *)
EXTENDS Pair

Shape(cross, split, cycles) ==
  [cross |-> cross, split |-> split, cycles |-> cycles]
ThreeShapes == {Shape(FALSE, FALSE, 2), Shape(TRUE, FALSE, 1), Shape(TRUE, TRUE, 1)}
OneAccountCross == {Shape(TRUE, FALSE, 1)}
=============================================================================
