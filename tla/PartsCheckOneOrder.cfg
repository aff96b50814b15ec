\* One request at a time, one delivery, no crash: even so a second order is raised.
CONSTANTS
  RfqLines = {line1, line2}
  Prices = {price}
  Unpriced = Unpriced
  NoOrder = NoOrder
  Handlers = {h1}
  MaxDeliveries = 1
  MaxSaves = 4
  MaxCrashes = 0
SYMMETRY HandlerSymmetry
SPECIFICATION Spec
INVARIANT OneOrderPerRfq
CHECK_DEADLOCK FALSE
