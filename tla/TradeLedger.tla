---------------------------- MODULE TradeLedger ----------------------------
(***************************************************************************)
(* One trade account and the orders that are raised on it: its credit hold *)
(* and year-to-date figures are read and written by order submission       *)
(* (orders.service.ts), by staff (accounts.service.ts), by the acceptance  *)
(* of a PartsCheck quote (partscheck.service.ts) and by the import of the  *)
(* Pentana bundle (pentana-ingestion.service.ts).                          *)
(*                                                                         *)
(* Requests interleave at their awaits. The counters are changed with $inc *)
(* and a staff handler saves only the field it changed in its copy. What   *)
(* an order contains is its total; no code deactivates an account.         *)
(***************************************************************************)
EXTENDS Naturals, FiniteSets, Sequences, FiniteSetsExt

CONSTANTS
  Requests,     \* HTTP requests in flight; each may be issued again
  Totals,       \* order totals, in cents
  Bundle,       \* the account's row of the Pentana bundle
  BundleYear,   \* 2026, the year the import writes
  MaxYear,      \* bound: the last calendar year
  MaxOrders     \* bound: how many orders are raised

Warning == {"none", "tillPayment", "useCapricorn", "other"}

BundleRow == [credit_hold : BOOLEAN, overdue_flag : BOOLEAN, warning : Warning,
              creditLimitCents : Nat, currentBalanceCents : Nat,
              creditAvailableNegative : BOOLEAN, aged60OrMoreCents : Nat,
              ytdSpendCents : Nat, partsTransactions : Nat]

ASSUME LedgerAssumption ==
  /\ Totals \subseteq Nat
  /\ Bundle \in BundleRow
  /\ BundleYear \in Nat /\ MaxYear \in Nat /\ BundleYear <= MaxYear
  /\ MaxOrders \in Nat

VARIABLES
  account,  \* the account document
  orders,   \* the orders raised on it, in the order they were created
  year,     \* the calendar year
  req       \* where each request is, and what it holds

vars == <<account, orders, year, req>>

Account == [creditHold : BOOLEAN, isOverdue : BOOLEAN, ytdSpendCents : Nat,
            ytdOrderCount : Nat, ytdYear : BundleYear .. MaxYear]

\* counted records whether submitOrder has added the order to the year-to-date
\* figures since the last import: no code reads it.
Order == [source : {"portal", "partscheck"}, totalCents : Totals, counted : BOOLEAN]

Idle == [pc |-> "idle"]
Becomes(r, state) == req' = [req EXCEPT ![r] = state]

---------------------------------------------------------------------------
(* The import. *)

HoldFromBundle(row) ==
  \/ row.credit_hold
  \/ row.warning \in {"tillPayment", "useCapricorn"}
  \/ /\ row.creditLimitCents > 0
     /\ row.currentBalanceCents > row.creditLimitCents
     /\ row.creditAvailableNegative

OverdueFromBundle(row) == row.overdue_flag \/ row.aged60OrMoreCents > 0

\* The fields of docData the model keeps.
Imported(row) ==
  [creditHold    |-> HoldFromBundle(row),
   isOverdue     |-> OverdueFromBundle(row),
   ytdSpendCents |-> row.ytdSpendCents,
   ytdOrderCount |-> row.partsTransactions,
   ytdYear       |-> BundleYear]

Uncounted == [i \in DOMAIN orders |-> [orders[i] EXCEPT !.counted = FALSE]]

\* syncPentanaDataToDatabase, at a start with fewer than 85 verified accounts
\* or on request: whatever the account says is overwritten, and the loop's
\* updateOne of this account is one atomic step.
SyncPentana ==
  /\ account' = Imported(Bundle)
  /\ orders' = Uncounted
  /\ UNCHANGED <<year, req>>

Init ==
  /\ account = Imported(Bundle)
  /\ orders = << >>
  /\ year = BundleYear
  /\ req = [r \in Requests |-> Idle]

---------------------------------------------------------------------------
(* submitOrder. *)

\* assertNotOnCreditHold looks at the account of the user's own profile, if
\* there is one; staff may order for another account.
CheckOwnAccount(r, ownAccount) ==
  /\ req[r].pc = "idle"
  /\ ownAccount => ~account.creditHold
  /\ Becomes(r, [pc |-> "checked"])
  /\ UNCHANGED <<account, orders, year>>

\* The account is loaded and its hold checked. The rooftop, the parts and the
\* Capricorn membership are looked up after that, over several awaits.
LoadAccount(r) ==
  /\ req[r].pc = "checked"
  /\ ~account.creditHold
  /\ Becomes(r, [pc |-> "pricing"])
  /\ UNCHANGED <<account, orders, year>>

\* orderModel.create; the account is not looked at again.
CreateOrder(r, totalCents) ==
  /\ req[r].pc = "pricing"
  /\ Len(orders) < MaxOrders
  /\ orders' = Append(orders, [source |-> "portal", totalCents |-> totalCents,
                               counted |-> FALSE])
  /\ Becomes(r, [pc |-> "created", order |-> Len(orders')])
  /\ UNCHANGED <<account, year>>

\* updateOne with $inc of both figures; ytdYear is set to the current year.
IncrementYtd(r) ==
  /\ req[r].pc = "created"
  /\ LET i == req[r].order IN
     /\ account' = [account EXCEPT !.ytdSpendCents = @ + orders[i].totalCents,
                                   !.ytdOrderCount = @ + 1,
                                   !.ytdYear = year]
     /\ orders' = [orders EXCEPT ![i].counted = TRUE]
  /\ Becomes(r, Idle)
  /\ UNCHANGED year

---------------------------------------------------------------------------
\* acceptRfq raises an order on the account: no hold is checked and nothing is
\* added to its figures (PartsCheckRfq models what comes before).
AcceptQuote(totalCents) ==
  /\ Len(orders) < MaxOrders
  /\ orders' = Append(orders, [source |-> "partscheck", totalCents |-> totalCents,
                               counted |-> FALSE])
  /\ UNCHANGED <<account, year, req>>

---------------------------------------------------------------------------
(* setCreditHold and setOverdue: load, change one field, save the delta. *)

LoadForStaff(r) ==
  /\ req[r].pc = "idle"
  /\ Becomes(r, [pc |-> "staff", doc |-> account])
  /\ UNCHANGED <<account, orders, year>>

SaveCreditHold(r, creditHold) ==
  /\ req[r].pc = "staff"
  /\ account' = [account EXCEPT !.creditHold = IF creditHold # req[r].doc.creditHold
                                               THEN creditHold ELSE @]
  /\ Becomes(r, Idle)
  /\ UNCHANGED <<orders, year>>

\* Mutant: the whole copy is written back.
SaveOverdueReplaces(r, isOverdue) ==
  /\ req[r].pc = "staff"
  /\ account' = [req[r].doc EXCEPT !.isOverdue = isOverdue]
  /\ Becomes(r, Idle)
  /\ UNCHANGED <<orders, year>>

SaveOverdue(r, isOverdue) ==
  /\ req[r].pc = "staff"
  /\ account' = [account EXCEPT !.isOverdue = IF isOverdue # req[r].doc.isOverdue
                                              THEN isOverdue ELSE @]
  /\ Becomes(r, Idle)
  /\ UNCHANGED <<orders, year>>

---------------------------------------------------------------------------
\* A lookup fails, a request is refused or the server dies between two awaits.
Fail(r) ==
  /\ req[r].pc # "idle"
  /\ Becomes(r, Idle)
  /\ UNCHANGED <<account, orders, year>>

NewYear ==
  /\ year < MaxYear
  /\ year' = year + 1
  /\ UNCHANGED <<account, orders, req>>

\* getSpend: the figures count for the year they are labelled with.
SpendOf(y) == IF account.ytdYear = y THEN account.ytdSpendCents ELSE 0

Next ==
  \/ SyncPentana
  \/ NewYear
  \/ \E t \in Totals : AcceptQuote(t)
  \/ \E r \in Requests :
       \/ \E ownAccount \in BOOLEAN : CheckOwnAccount(r, ownAccount)
       \/ LoadAccount(r)
       \/ \E t \in Totals : CreateOrder(r, t)
       \/ IncrementYtd(r)
       \/ LoadForStaff(r)
       \/ \E b \in BOOLEAN : SaveCreditHold(r, b) \/ SaveOverdue(r, b)
       \/ Fail(r)

Spec == Init /\ [][Next]_vars

---------------------------------------------------------------------------
Counted == {i \in DOMAIN orders : orders[i].counted}

TypeOK ==
  /\ account \in Account
  /\ orders \in Seq(Order) /\ Len(orders) <= MaxOrders
  /\ year \in BundleYear .. MaxYear
  /\ req \in [Requests ->
       {Idle} \cup [pc : {"checked", "pricing"}]
       \cup [pc : {"created"}, order : 1 .. MaxOrders]
       \cup [pc : {"staff"}, doc : Account]]

\* The order count is the imported one plus the orders counted since, and the
\* spend the imported one plus their totals: no increment is lost to a staff save
\* or another order that overlaps with it, and none is counted twice.
LedgerConserved ==
  /\ account.ytdOrderCount = Bundle.partsTransactions + Cardinality(Counted)
  /\ account.ytdSpendCents =
       Bundle.ytdSpendCents + MapThenSumSet(LAMBDA i : orders[i].totalCents, Counted)

\* Only a save of the hold itself or an import changes the credit hold: a save
\* of the overdue flag that overlaps with it does not put the old hold back.
HoldKeptByOthers ==
  [][account'.creditHold # account.creditHold =>
       \/ account' = Imported(Bundle)
       \/ \E r \in Requests : /\ req[r].pc = "staff" /\ req'[r].pc = "idle"
                               /\ req[r].doc.creditHold # account'.creditHold]_vars

\* "calendar year, reset each January" (account.schema.ts:91): the first order
\* counted in a new year starts the figures again.
YtdResetEachYear ==
  [][account'.ytdYear > account.ytdYear => account'.ytdOrderCount = 1]_vars
=============================================================================
