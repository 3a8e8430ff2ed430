-------------------------- MODULE MCInternedStrings --------------------------
EXTENDS InternedStrings, TLC

CONSTANTS b1, b2, b3, c1, c2

StringsSymmetry == Permutations(Block) \cup Permutations(Chars)
=============================================================================
