--------------------------- MODULE MCTradeLedger ---------------------------
EXTENDS TradeLedger, TLC

\* Overdue but not on hold, with three orders of the year already invoiced.
MCBundle ==
  [credit_hold |-> FALSE, overdue_flag |-> FALSE, warning |-> "other",
   creditLimitCents |-> 100, currentBalanceCents |-> 120,
   creditAvailableNegative |-> FALSE, aged60OrMoreCents |-> 20,
   ytdSpendCents |-> 50, partsTransactions |-> 3]

RequestSymmetry == Permutations(Requests)
=============================================================================
