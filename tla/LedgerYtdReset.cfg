\* One turn of the year.
CONSTANTS
  Requests = {r1, r2}
  Totals = {10, 25}
  Bundle <- MCBundle
  BundleYear = 2026
  MaxYear = 2027
  MaxOrders = 2
SYMMETRY RequestSymmetry
SPECIFICATION Spec
PROPERTY YtdResetEachYear
