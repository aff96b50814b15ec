----------------------------- MODULE MCMfaLogin -----------------------------
EXTENDS MfaLogin, TLC

RequestSymmetry == Permutations(Requests)
=============================================================================
