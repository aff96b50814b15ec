-------------------------- MODULE MCPartsCheckRfq --------------------------
EXTENDS PartsCheckRfq, TLC

HandlerSymmetry == Permutations(Handlers) \cup Permutations(RfqLines)
=============================================================================
