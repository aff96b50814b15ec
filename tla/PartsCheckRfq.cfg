\* Two overlapping requests, a redelivered webhook, three saves and one crash.
CONSTANTS
  RfqLines = {line1, line2}
  Prices = {price}
  Unpriced = Unpriced
  NoOrder = NoOrder
  Handlers = {h1, h2}
  MaxDeliveries = 2
  MaxSaves = 3
  MaxCrashes = 1
SYMMETRY HandlerSymmetry
SPECIFICATION Spec
INVARIANTS QuotesJustified AcceptedOrderExists
PROPERTY LinkNeverLost
CHECK_DEADLOCK FALSE
