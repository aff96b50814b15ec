--------------------------- MODULE MCAuthSession ---------------------------
EXTENDS AuthSession, TLC

RequestSymmetry == Permutations(Requests)
=============================================================================
