------------------------------ MODULE MCGcHeap ------------------------------
EXTENDS GcHeap, TLC

CONSTANTS b1, b2, b3

(* Addresses are only compared for equality. *)
BlockSymmetry == Permutations(Block)
=============================================================================
