------------------------- MODULE MCOrderFulfilment -------------------------
EXTENDS OrderFulfilment, TLC

CONSTANTS l1, l2, r1, r2

MCInitialPrice == l1 :> 15 @@ l2 :> 30
MCQuantity     == l1 :> 1 @@ l2 :> 2
MCCoreCharge   == l1 :> 0 @@ l2 :> 5

RequestSymmetry == Permutations(Requests)
=============================================================================
