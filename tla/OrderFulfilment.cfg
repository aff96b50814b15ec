\* Two lines of different price and quantity, two overlapping requests, four saves.
CONSTANTS
  l1 = l1
  l2 = l2
  r1 = r1
  r2 = r2
  Lines = {l1, l2}
  Prices = {20}
  NoPrice = NoPrice
  InitialPrice <- MCInitialPrice
  Quantity <- MCQuantity
  CoreCharge <- MCCoreCharge
  Requests = {r1, r2}
  TargetStates = {"PROCESSING", "DELIVERED"}
  MaxVersion = 4
SYMMETRY RequestSymmetry
SPECIFICATION Spec
INVARIANTS ExceptionNeverHidden PickedCountCovers TotalsMatchLines
PROPERTIES PickedMeansAllPicked ExceptionLeftWhenClear SerialDesk
