--------------------------- MODULE OrderDocument ---------------------------
(***************************************************************************)
(* One stored order (orders/schemas/order.schema.ts) and what each handler *)
(* of orders/orders.service.ts does to the copy it has loaded: the pure    *)
(* half of every PATCH/POST on an order, before order.save().              *)
(*                                                                         *)
(* Prices, quantities and the totals are kept because they are derived     *)
(* from one another; names, ETAs, bins and notes are left out.             *)
(***************************************************************************)
EXTENDS Naturals, FiniteSets, FiniteSetsExt

CONSTANTS
  Lines,         \* the line items of the order
  Prices,        \* unit prices, in cents, a re-source request may quote
  NoPrice,       \* a re-source request without newUnitPriceCents
  InitialPrice,  \* [Lines -> Nat]: unit price at submission
  Quantity,      \* [Lines -> Nat]: ordered quantity
  CoreCharge     \* [Lines -> Nat]: core charge per unit

ASSUME LinesAssumption == IsFiniteSet(Lines) /\ Lines # {}
ASSUME PricingAssumption ==
  /\ Prices \subseteq Nat
  /\ NoPrice \notin Nat
  /\ InitialPrice \in [Lines -> Nat]
  /\ Quantity \in [Lines -> Nat]
  /\ CoreCharge \in [Lines -> Nat]

OrderState == {"SUBMITTED", "PROCESSING", "PARTIALLY_PICKED", "PICKED",
               "READY_FOR_DELIVERY", "DISPATCHED", "DELIVERED", "EXCEPTION",
               "CANCELLED"}
OrderLineState == {"PENDING", "ALLOCATED", "PICKED", "SOURCING", "EXCEPTION",
                   "CANCELLED"}

\* line.exception: null, or a record whose resolvedAt is null ("open") or set.
ExceptionRecord == {"none", "open", "resolved"}

\* The unit prices a line can have.
UnitPrice == Prices \cup {InitialPrice[l] : l \in Lines}

OrderLine == [state : OrderLineState, exception : ExceptionRecord,
              unitPriceCents : UnitPrice]

\* statusHistory only ever grows at its end: the model keeps its last entry.
StatusHistoryEntry == [fromState : OrderState, toState : OrderState]

totalLines == Cardinality(Lines)

---------------------------------------------------------------------------
\* Math.round(x * 0.1) for x >= 0: a half is rounded up.
Gst(cents) == (cents + 5) \div 10

\* recalculateOrderTotals; submitOrder computes the same sums while it builds
\* the lines. unit is the unit price of each line.
Totals(unit) ==
  LET subtotal == MapThenSumSet(LAMBDA l : unit[l] * Quantity[l], Lines)
      core     == MapThenSumSet(LAMBDA l : CoreCharge[l] * Quantity[l], Lines)
  IN  [subtotalCents |-> subtotal,
       gstCents      |-> Gst(subtotal + core),
       totalCents    |-> subtotal + core + Gst(subtotal + core)]

UnitPrices(lines) == [l \in Lines |-> lines[l].unitPriceCents]

LinesIn(lines, s) == {l \in Lines : lines[l].state = s}

\* The totals that prices of the model can add up to.
OrderTotals == {Totals(unit) : unit \in [Lines -> UnitPrice]}

\* Type of the stored document and of every copy a request holds.
OrderDoc ==
  [state : OrderState, lines : [Lines -> OrderLine],
   totals : OrderTotals,
   pickedLinesCount : 0 .. totalLines, hasExceptions : BOOLEAN,
   lastStatus : StatusHistoryEntry]

---------------------------------------------------------------------------
\* The document submitOrder creates.
SubmittedOrder ==
  [state            |-> "SUBMITTED",
   lines            |-> [l \in Lines |->
                           [state |-> "PENDING", exception |-> "none",
                            unitPriceCents |-> InitialPrice[l]]],
   totals           |-> Totals(InitialPrice),
   pickedLinesCount |-> 0,
   hasExceptions    |-> FALSE,
   lastStatus       |-> [fromState |-> "SUBMITTED", toState |-> "SUBMITTED"]]

\* order.state = to; order.statusHistory.push({fromState, toState, ...})
WithStatus(o, to) ==
  [o EXCEPT !.state = to,
            !.lastStatus = [fromState |-> o.state, toState |-> to]]

\* The exception record of a line that is re-sourced: resolved if there is one.
ResolvedException(e) == IF e = "none" THEN "none" ELSE "resolved"

\* Mutants of the three handlers: the picked count kept by counting requests,
\* the picked count taken before the pick, the flag cleared or the order put
\* back to PROCESSING without looking at the other lines, totals left alone.
PickLineByIncrement(o, l) ==
  LET picked == [o EXCEPT !.lines[l].state = "PICKED", !.pickedLinesCount = @ + 1]
  IN  IF picked.pickedLinesCount = totalLines THEN WithStatus(picked, "PICKED") ELSE picked

PickLineCountedBefore(o, l) ==
  [o EXCEPT !.lines[l].state = "PICKED",
            !.pickedLinesCount = Cardinality(LinesIn(o.lines, "PICKED"))]

ReSourceLineClearsFlag(o, l, newUnitPriceCents) ==
  [o EXCEPT !.lines[l].state = "SOURCING", !.hasExceptions = FALSE]

ReSourceLineEndsException(o, l, newUnitPriceCents) ==
  WithStatus([o EXCEPT !.lines[l].state = "SOURCING"], "PROCESSING")

ReSourceLineKeepsTotals(o, l, newUnitPriceCents) ==
  IF newUnitPriceCents = NoPrice THEN o
  ELSE [o EXCEPT !.lines[l].unitPriceCents = newUnitPriceCents]

\* raiseLineException. A delivered or cancelled order keeps its state.
RaiseLineException(o, l) ==
  LET line   == [o.lines[l] EXCEPT !.state = "EXCEPTION", !.exception = "open"]
      raised == [o EXCEPT !.lines = [o.lines EXCEPT ![l] = line],
                          !.hasExceptions = TRUE]
  IN  IF o.state \in {"DELIVERED", "CANCELLED"}
      THEN raised
      ELSE WithStatus(raised, "EXCEPTION")

\* reSourceLine. The totals are recomputed only when a price is quoted, and
\* pickedLinesCount is not recomputed at all.
ReSourceLine(o, l, newUnitPriceCents) ==
  LET quoted    == newUnitPriceCents # NoPrice
      old       == o.lines[l]
      line      == [state |-> "SOURCING",
                    exception |-> ResolvedException(old.exception),
                    unitPriceCents |-> IF quoted THEN newUnitPriceCents
                                       ELSE old.unitPriceCents]
      lines     == [o.lines EXCEPT ![l] = line]
      remaining == LinesIn(lines, "EXCEPTION") # {}
      sourced   == [o EXCEPT !.lines = lines,
                             !.hasExceptions = remaining,
                             !.totals = IF quoted THEN Totals(UnitPrices(lines))
                                        ELSE o.totals]
  IN  IF ~remaining /\ o.state = "EXCEPTION"
      THEN WithStatus(sourced, "PROCESSING")
      ELSE sourced

\* pickLine. Neither hasExceptions nor the line's exception record is touched.
PickLine(o, l) ==
  LET line   == [o.lines[l] EXCEPT !.state = "PICKED"]
      lines  == [o.lines EXCEPT ![l] = line]
      count  == Cardinality(LinesIn(lines, "PICKED"))
      picked == [o EXCEPT !.lines = lines, !.pickedLinesCount = count]
  IN  CASE count = totalLines /\ o.state # "PICKED" -> WithStatus(picked, "PICKED")
        [] count # totalLines /\ o.state \in {"SUBMITTED", "PROCESSING"} ->
             WithStatus(picked, "PARTIALLY_PICKED")
        [] OTHER -> picked

\* pickLine throws on a cancelled line.
Pickable(o, l) == o.lines[l].state # "CANCELLED"
=============================================================================
