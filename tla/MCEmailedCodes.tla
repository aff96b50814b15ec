--------------------------- MODULE MCEmailedCodes ---------------------------
EXTENDS EmailedCodes, TLC

RequestSymmetry == Permutations(Requests)
=============================================================================
