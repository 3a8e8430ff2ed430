----------------------------- MODULE MCClasses -----------------------------
(* Classes for TLC: the names of the two global variables do not matter. *)
EXTENDS Classes
CONSTANTS A, B

MCSymmetry == Permutations({A, B})
=============================================================================
