\* Every screen, opened on two orders in any state, of which one is of this week, with a
\* third that may be submitted, or on two RFQs in any status or yet to come in; two
\* rooftops, pages of one row, two changes while the screen is read.
CONSTANTS
  Orders = {1, 2, 3}
  InitialOrders = 2
  OrderStates = {"SUBMITTED", "PARTIALLY_PICKED", "EXCEPTION", "CANCELLED"}
  Rooftop = {home, away}
  Home = home
  FirstThisWeek = 2
  FirstToday = 3
  Rfqs = {q1, q2}
  RfqStates = {"UNMAPPED_BUYER", "PENDING_REVIEW", "AUTO_QUOTED", "ACCEPTED"}
  Screens = {"group", "store", "partscheck", "inbox", "queue", "history"}
  Limit = 1
  MaxChanges = 2
SPECIFICATION ScreenSpec
INVARIANTS TilesAddUp PagesShowAll
CHECK_DEADLOCK FALSE
