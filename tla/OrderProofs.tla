---------------------------- MODULE OrderProofs ----------------------------
(***************************************************************************)
(* Proofs about the orders: what the line handlers do to one of them       *)
(* (OrderFulfilment), for any finite set of lines, any requests, any       *)
(* prices and any number of saves, and what screens show of many           *)
(* (ReadModels), for any orders, RFQs, page size and number of changes.    *)
(* The two components share no variable.                                   *)
(*                                                                         *)
(* One order: a copy whose version is the stored one IS the stored         *)
(* document (Coherent), so each line handler that gets past mongoose's     *)
(* version filter applies its pure edit to the stored document. What is    *)
(* left is that each edit preserves the properties of one document.        *)
(*                                                                         *)
(* The tiles of a screen: to what the tiles that are compared have         *)
(* answered, add the documents that those not answered yet would count now *)
(* (Waiting). Tiles that are parts of another count no document twice, so  *)
(* an answer moves documents from one side of the sum to the other, and a  *)
(* change of one document moves it by one: parts and whole stay within the *)
(* number of changes of each other (NoMoreThan, NoLessThan), and once the  *)
(* screen is complete nothing is waited for.                               *)
(*                                                                         *)
(* The pages: an order that is still to be shown is passed over when it is *)
(* ahead of the rows that were read, or behind the end that the user was   *)
(* told of. One change of another order moves its place by one at most,    *)
(* and no two orders have the same place, so that each change passes over  *)
(* one order at most (PagesKept).                                          *)
(***************************************************************************)
EXTENDS OrderFulfilment, ReadModels, FoldLemmas, FiniteSetTheorems, SequenceTheorems, TLAPS

\* The state properties of OrderFulfilment, of any document.
DocumentOK(o) ==
  /\ LinesIn(o.lines, "EXCEPTION") # {} => o.hasExceptions
  /\ Cardinality(LinesIn(o.lines, "PICKED")) <= o.pickedLinesCount
  /\ o.totals = Totals(UnitPrices(o.lines))

\* A copy never has a version from the future, and a copy of the current
\* version is the current document.
Coherent ==
  \A r \in Requests :
    req[r].pc = "loaded" =>
      /\ req[r].v <= version
      /\ req[r].v = version => req[r].doc = order

Inductive == TypeOK /\ Coherent /\ DocumentOK(order)

---------------------------------------------------------------------------
\* Counting a set of lines gives a number of lines.
LEMMA LineCount ==
  ASSUME NEW S \in SUBSET Lines
  PROVE  /\ Cardinality(S) \in 0 .. totalLines
         /\ Cardinality(S) = totalLines => S = Lines
         /\ IsFiniteSet(S)
         /\ totalLines \in Nat
BY FS_Subset, FS_CardinalityType, LinesAssumption DEF totalLines

\* Fewer picked lines, smaller count.
LEMMA SmallerCount ==
  ASSUME NEW S \in SUBSET Lines, NEW T \in SUBSET S
  PROVE  Cardinality(T) <= Cardinality(S)
BY FS_Subset, LineCount

\* The totals of any prices of the model are totals of the type.
LEMMA TotalsInType ==
  ASSUME NEW lines \in [Lines -> OrderLine]
  PROVE  Totals(UnitPrices(lines)) \in OrderTotals
<1>1. UnitPrices(lines) \in [Lines -> UnitPrice]
  BY DEF UnitPrices, OrderLine
<1> QED BY <1>1 DEF OrderTotals

\* The document submitOrder creates has every property.
LEMMA SubmittedOK == SubmittedOrder \in OrderDoc /\ DocumentOK(SubmittedOrder)
<1> DEFINE o == SubmittedOrder
<1>1. o.lines \in [Lines -> OrderLine]
  BY DEF SubmittedOrder, OrderLine, OrderLineState, ExceptionRecord, UnitPrice
<1>2. UnitPrices(o.lines) = InitialPrice
  BY PricingAssumption DEF SubmittedOrder, UnitPrices
<1>3. o.totals = Totals(UnitPrices(o.lines))
  BY <1>2 DEF SubmittedOrder
<1>4. LinesIn(o.lines, "EXCEPTION") = {} /\ LinesIn(o.lines, "PICKED") = {}
  BY DEF SubmittedOrder, LinesIn
<1>5. Cardinality({}) = 0
  BY FS_EmptySet
<1>6. o.totals \in OrderTotals
  BY <1>1, <1>3, TotalsInType
<1>7. 0 \in 0 .. totalLines
  BY LineCount
<1>8. o \in OrderDoc
  BY <1>1, <1>6, <1>7 DEF SubmittedOrder, OrderDoc, OrderState, StatusHistoryEntry
<1> QED BY <1>3, <1>4, <1>5, <1>8 DEF DocumentOK, SubmittedOrder

\* A history entry and a new state leave the rest of the document alone.
LEMMA WithStatusOK ==
  ASSUME NEW o \in OrderDoc, NEW to \in OrderState, DocumentOK(o)
  PROVE  /\ WithStatus(o, to) \in OrderDoc
         /\ DocumentOK(WithStatus(o, to))
         /\ WithStatus(o, to).lines = o.lines
         /\ WithStatus(o, to).state = to
<1>1. WithStatus(o, to) \in OrderDoc
  BY DEF WithStatus, OrderDoc, StatusHistoryEntry
<1>2. /\ WithStatus(o, to).lines = o.lines
      /\ WithStatus(o, to).totals = o.totals
      /\ WithStatus(o, to).pickedLinesCount = o.pickedLinesCount
      /\ WithStatus(o, to).hasExceptions = o.hasExceptions
      /\ WithStatus(o, to).state = to
  BY DEF WithStatus, OrderDoc
<1> QED BY <1>1, <1>2 DEF DocumentOK

\* One line replaced: what it does to the picked lines, to the lines in
\* exception and to the prices.
LEMMA LineReplaced ==
  ASSUME NEW lines \in [Lines -> OrderLine], NEW l \in Lines, NEW line \in OrderLine
  PROVE  LET new == [lines EXCEPT ![l] = line] IN
         /\ new \in [Lines -> OrderLine]
         /\ LinesIn(new, "PICKED") \in SUBSET Lines
         /\ line.state # "PICKED" => LinesIn(new, "PICKED") \in SUBSET LinesIn(lines, "PICKED")
         /\ line.state # "EXCEPTION" =>
              LinesIn(new, "EXCEPTION") \in SUBSET LinesIn(lines, "EXCEPTION")
         /\ line.unitPriceCents = lines[l].unitPriceCents =>
              UnitPrices(new) = UnitPrices(lines)
BY DEF LinesIn, UnitPrices

\* A document whose picked lines shrank keeps a covering count.
LEMMA CountStillCovers ==
  ASSUME NEW o \in OrderDoc, DocumentOK(o), NEW S \in SUBSET LinesIn(o.lines, "PICKED")
  PROVE  Cardinality(S) <= o.pickedLinesCount
<1>1. LinesIn(o.lines, "PICKED") \in SUBSET Lines /\ S \in SUBSET Lines
  BY DEF LinesIn
<1>2. Cardinality(S) <= Cardinality(LinesIn(o.lines, "PICKED"))
  BY <1>1, SmallerCount
<1>3. o.pickedLinesCount \in 0 .. totalLines
  BY DEF OrderDoc
<1> QED BY <1>1, <1>2, <1>3, LineCount DEF DocumentOK

\* Raising an exception keeps a document sound.
LEMMA RaiseOK ==
  ASSUME NEW o \in OrderDoc, NEW l \in Lines, DocumentOK(o)
  PROVE  /\ RaiseLineException(o, l) \in OrderDoc
         /\ DocumentOK(RaiseLineException(o, l))
         /\ RaiseLineException(o, l).state = "PICKED" => o.state = "PICKED"
         /\ o.state = "EXCEPTION" => RaiseLineException(o, l).state = "EXCEPTION"
<1> DEFINE line   == [o.lines[l] EXCEPT !.state = "EXCEPTION", !.exception = "open"]
           lines  == [o.lines EXCEPT ![l] = line]
           raised == [o EXCEPT !.lines = lines, !.hasExceptions = TRUE]
<1>1. o.lines \in [Lines -> OrderLine]
  BY DEF OrderDoc
<1>2. /\ line \in OrderLine
      /\ line.state = "EXCEPTION"
      /\ line.unitPriceCents = o.lines[l].unitPriceCents
  BY <1>1 DEF OrderLine, OrderLineState, ExceptionRecord
<1> HIDE DEF line
<1>3. /\ lines \in [Lines -> OrderLine]
      /\ UnitPrices(lines) = UnitPrices(o.lines)
      /\ LinesIn(lines, "PICKED") \in SUBSET LinesIn(o.lines, "PICKED")
  BY <1>1, <1>2, LineReplaced
<1>4. Cardinality(LinesIn(lines, "PICKED")) <= o.pickedLinesCount
  BY <1>3, CountStillCovers
<1> HIDE DEF lines
<1>5. /\ raised \in OrderDoc
      /\ raised.lines = lines
      /\ raised.hasExceptions = TRUE
      /\ raised.totals = o.totals
      /\ raised.pickedLinesCount = o.pickedLinesCount
      /\ raised.state = o.state
  BY <1>3 DEF OrderDoc
<1>6. DocumentOK(raised)
  BY <1>3, <1>4, <1>5 DEF DocumentOK
<1> HIDE DEF raised
<1>7. /\ WithStatus(raised, "EXCEPTION") \in OrderDoc
      /\ DocumentOK(WithStatus(raised, "EXCEPTION"))
      /\ WithStatus(raised, "EXCEPTION").state = "EXCEPTION"
  BY <1>5, <1>6, WithStatusOK DEF OrderState
<1>8. RaiseLineException(o, l) =
        IF o.state \in {"DELIVERED", "CANCELLED"} THEN raised ELSE WithStatus(raised, "EXCEPTION")
  BY DEF RaiseLineException, raised, lines, line
<1> QED BY <1>5, <1>6, <1>7, <1>8

\* Re-sourcing a line keeps a document sound, does not make it PICKED, and
\* takes it out of EXCEPTION only when no line is left in exception.
LEMMA ReSourceOK ==
  ASSUME NEW o \in OrderDoc, NEW l \in Lines, NEW price \in Prices \cup {NoPrice},
         DocumentOK(o)
  PROVE  LET new == ReSourceLine(o, l, price) IN
         /\ new \in OrderDoc
         /\ DocumentOK(new)
         /\ new.state = "PICKED" => o.state = "PICKED"
         /\ o.state = "EXCEPTION" /\ new.state # "EXCEPTION" =>
              LinesIn(new.lines, "EXCEPTION") = {}
<1> DEFINE quoted == price # NoPrice
           old    == o.lines[l]
           line   == [state |-> "SOURCING",
                      exception |-> ResolvedException(old.exception),
                      unitPriceCents |-> IF quoted THEN price ELSE old.unitPriceCents]
           lines  == [o.lines EXCEPT ![l] = line]
           remaining == LinesIn(lines, "EXCEPTION") # {}
           totals == IF quoted THEN Totals(UnitPrices(lines)) ELSE o.totals
           sourced == [o EXCEPT !.lines = lines, !.hasExceptions = remaining,
                                !.totals = totals]
<1>1. o.lines \in [Lines -> OrderLine] /\ old \in OrderLine
  BY DEF OrderDoc
<1>2. /\ line \in OrderLine
      /\ line.state = "SOURCING"
      /\ ~quoted => line.unitPriceCents = old.unitPriceCents
  BY <1>1 DEF OrderLine, OrderLineState, ExceptionRecord, ResolvedException, UnitPrice
<1> HIDE DEF line
<1>3. /\ lines \in [Lines -> OrderLine]
      /\ ~quoted => UnitPrices(lines) = UnitPrices(o.lines)
      /\ LinesIn(lines, "PICKED") \in SUBSET LinesIn(o.lines, "PICKED")
  BY <1>1, <1>2, LineReplaced
<1>4. Cardinality(LinesIn(lines, "PICKED")) <= o.pickedLinesCount
  BY <1>3, CountStillCovers
<1> HIDE DEF lines
<1>5. totals = Totals(UnitPrices(lines)) /\ totals \in OrderTotals
  BY <1>3, TotalsInType DEF DocumentOK
<1> HIDE DEF totals
<1>6. remaining \in BOOLEAN
  OBVIOUS
<1> HIDE DEF remaining
<1>7. /\ sourced \in OrderDoc
      /\ sourced.lines = lines
      /\ sourced.hasExceptions = remaining
      /\ sourced.totals = totals
      /\ sourced.pickedLinesCount = o.pickedLinesCount
      /\ sourced.state = o.state
  BY <1>3, <1>5, <1>6 DEF OrderDoc
<1>8. DocumentOK(sourced)
  BY <1>4, <1>5, <1>7 DEF DocumentOK, remaining
<1> HIDE DEF sourced
<1>9. /\ WithStatus(sourced, "PROCESSING") \in OrderDoc
      /\ DocumentOK(WithStatus(sourced, "PROCESSING"))
      /\ WithStatus(sourced, "PROCESSING").lines = lines
      /\ WithStatus(sourced, "PROCESSING").state = "PROCESSING"
  BY <1>7, <1>8, WithStatusOK DEF OrderState
<1>10. ReSourceLine(o, l, price) =
         IF ~remaining /\ o.state = "EXCEPTION"
         THEN WithStatus(sourced, "PROCESSING") ELSE sourced
  BY DEF ReSourceLine, sourced, remaining, totals, lines, line
<1> QED BY <1>7, <1>8, <1>9, <1>10 DEF remaining

\* Picking a line keeps a document sound; it makes it PICKED, or takes it out of
\* EXCEPTION, only by picking the last line.
LEMMA PickOK ==
  ASSUME NEW o \in OrderDoc, NEW l \in Lines, DocumentOK(o)
  PROVE  LET new == PickLine(o, l) IN
         /\ new \in OrderDoc
         /\ DocumentOK(new)
         /\ o.state # "PICKED" /\ new.state = "PICKED" =>
              LinesIn(new.lines, "PICKED") = Lines
         /\ o.state = "EXCEPTION" /\ new.state # "EXCEPTION" =>
              LinesIn(new.lines, "EXCEPTION") = {}
<1> DEFINE line   == [o.lines[l] EXCEPT !.state = "PICKED"]
           lines  == [o.lines EXCEPT ![l] = line]
           count  == Cardinality(LinesIn(lines, "PICKED"))
           picked == [o EXCEPT !.lines = lines, !.pickedLinesCount = count]
<1>1. o.lines \in [Lines -> OrderLine]
  BY DEF OrderDoc
<1>2. /\ line \in OrderLine
      /\ line.state = "PICKED"
      /\ line.unitPriceCents = o.lines[l].unitPriceCents
  BY <1>1 DEF OrderLine, OrderLineState
<1> HIDE DEF line
<1>3. /\ lines \in [Lines -> OrderLine]
      /\ UnitPrices(lines) = UnitPrices(o.lines)
      /\ LinesIn(lines, "PICKED") \in SUBSET Lines
      /\ LinesIn(lines, "EXCEPTION") \in SUBSET LinesIn(o.lines, "EXCEPTION")
  BY <1>1, <1>2, LineReplaced
<1> HIDE DEF lines
<1>4. /\ count \in 0 .. totalLines
      /\ count = totalLines => LinesIn(lines, "PICKED") = Lines
      /\ totalLines \in Nat
  BY <1>3, LineCount
<1>5. /\ picked \in OrderDoc
      /\ picked.lines = lines
      /\ picked.hasExceptions = o.hasExceptions
      /\ picked.totals = o.totals
      /\ picked.pickedLinesCount = count
      /\ picked.state = o.state
  BY <1>3, <1>4 DEF OrderDoc
<1>6. DocumentOK(picked)
  BY <1>3, <1>4, <1>5 DEF DocumentOK
<1>7. count = totalLines => LinesIn(lines, "EXCEPTION") = {}
  BY <1>4 DEF LinesIn
<1> HIDE DEF picked, count
<1>8. ASSUME NEW s \in {"PICKED", "PARTIALLY_PICKED"}
      PROVE  /\ WithStatus(picked, s) \in OrderDoc
             /\ DocumentOK(WithStatus(picked, s))
             /\ WithStatus(picked, s).lines = lines
             /\ WithStatus(picked, s).state = s
  BY <1>5, <1>6, WithStatusOK DEF OrderState
<1>9. PickLine(o, l) =
        CASE count = totalLines /\ o.state # "PICKED" -> WithStatus(picked, "PICKED")
          [] count # totalLines /\ o.state \in {"SUBMITTED", "PROCESSING"} ->
               WithStatus(picked, "PARTIALLY_PICKED")
          [] OTHER -> picked
  BY DEF PickLine, picked, count, lines, line
<1>10. CASE count = totalLines /\ o.state # "PICKED"
  <2>1. PickLine(o, l) = WithStatus(picked, "PICKED")
    BY <1>9, <1>10
  <2> QED BY <1>4, <1>7, <1>8, <1>10, <2>1
<1>11. CASE count # totalLines /\ o.state \in {"SUBMITTED", "PROCESSING"}
  <2>1. PickLine(o, l) = WithStatus(picked, "PARTIALLY_PICKED")
    BY <1>9, <1>11
  <2> QED BY <1>8, <1>11, <2>1
<1>12. CASE /\ ~(count = totalLines /\ o.state # "PICKED")
            /\ ~(count # totalLines /\ o.state \in {"SUBMITTED", "PROCESSING"})
  <2>1. PickLine(o, l) = picked
    BY <1>9, <1>12
  <2> QED BY <1>5, <1>6, <2>1
<1> QED BY <1>10, <1>11, <1>12

---------------------------------------------------------------------------
\* A request that gets past the version filter edited the stored document.
LEMMA SavedOnCurrent ==
  ASSUME Inductive, NEW r \in Requests, req[r].pc = "loaded", req[r].v = version
  PROVE  req[r].doc = order
BY DEF Inductive, Coherent

\* Any save of a sound document keeps the invariant.
LEMMA SaveKeepsInductive ==
  ASSUME Inductive, NEW r \in Requests,
         order' \in OrderDoc, DocumentOK(order'),
         version < MaxVersion, version' = version + 1,
         req' = [req EXCEPT ![r] = Idle]
  PROVE  Inductive'
<1>1. TypeOK'
  BY RequestsAssumption DEF Inductive, TypeOK, Idle
<1>2. Coherent'
  BY RequestsAssumption DEF Inductive, TypeOK, Coherent, Idle
<1> QED BY <1>1, <1>2 DEF Inductive, DocumentOK

\* The line handlers: what a step of one of them does to the stored document.
LineStep(r, l) == Pick(r, l) \/ RaiseException(r, l) \/ ReSource(r, l)

LEMMA LineStepOK ==
  ASSUME Inductive, NEW r \in Requests, NEW l \in Lines, LineStep(r, l)
  PROVE  /\ Inductive'
         /\ DeskPick(l) \/ DeskRaiseException(l) \/ DeskReSource(l)
         /\ order'.state = "PICKED" /\ order.state # "PICKED" =>
              LinesIn(order'.lines, "PICKED") = Lines
         /\ order.state = "EXCEPTION" /\ order'.state # "EXCEPTION" =>
              LinesIn(order'.lines, "EXCEPTION") = {}
<1>1. order \in OrderDoc /\ DocumentOK(order)
  BY DEF Inductive, TypeOK
<1>2. CASE Pick(r, l)
  <2>1. order' = PickLine(order, l) /\ Pickable(order, l)
    BY <1>2, SavedOnCurrent DEF Pick, SaveLines
  <2>2. order' \in OrderDoc /\ DocumentOK(order')
    BY <1>1, <2>1, PickOK
  <2>3. Inductive'
    BY <1>2, <2>2, SaveKeepsInductive DEF Pick, SaveLines
  <2> QED BY <1>1, <2>1, <2>3, PickOK DEF DeskPick
<1>3. CASE RaiseException(r, l)
  <2>1. order' = RaiseLineException(order, l)
    BY <1>3, SavedOnCurrent DEF RaiseException, SaveLines
  <2>2. order' \in OrderDoc /\ DocumentOK(order')
    BY <1>1, <2>1, RaiseOK
  <2>3. Inductive'
    BY <1>3, <2>2, SaveKeepsInductive DEF RaiseException, SaveLines
  <2> QED BY <1>1, <2>1, <2>3, RaiseOK DEF DeskRaiseException
<1>4. CASE ReSource(r, l)
  <2>1. PICK price \in Prices \cup {NoPrice} : order' = ReSourceLine(order, l, price)
    BY <1>4, SavedOnCurrent DEF ReSource, SaveLines
  <2>2. order' \in OrderDoc /\ DocumentOK(order')
    BY <1>1, <2>1, ReSourceOK
  <2>3. Inductive'
    BY <1>4, <2>2, SaveKeepsInductive DEF ReSource, SaveLines
  <2> QED BY <1>1, <2>1, <2>3, ReSourceOK DEF DeskReSource
<1> QED BY <1>2, <1>3, <1>4 DEF LineStep

\* updateState: only the state and the history move, and the desk allows it.
LEMMA UpdateStateOK ==
  ASSUME Inductive, NEW r \in Requests, NEW to \in TargetStates, UpdateState(r, to)
  PROVE  /\ Inductive'
         /\ DeskChangeState
         /\ order'.lines = order.lines
<1> DEFINE from == req[r].doc.state
<1>1. to \in OrderState /\ from \in OrderState /\ order \in OrderDoc
  BY RequestsAssumption DEF UpdateState, Inductive, TypeOK, OrderDoc, Idle
<1>2. order' = [order EXCEPT
                  !.state = IF to # from THEN to ELSE order.state,
                  !.lastStatus = [fromState |-> from, toState |-> to]]
  BY DEF UpdateState
<1>3. DeskChangeState
  BY <1>1, <1>2 DEF DeskChangeState
<1>4. /\ order' \in OrderDoc
      /\ order'.lines = order.lines
      /\ order'.totals = order.totals
      /\ order'.hasExceptions = order.hasExceptions
      /\ order'.pickedLinesCount = order.pickedLinesCount
  BY <1>1, <1>2 DEF OrderDoc, StatusHistoryEntry
<1>5. DocumentOK(order')
  BY <1>4 DEF Inductive, DocumentOK
<1>6. Inductive'
  BY <1>4, <1>5, SaveKeepsInductive DEF UpdateState
<1> QED BY <1>3, <1>4, <1>6

\* Requests that load, or end without a save, leave the document alone.
LEMMA NoSaveOK ==
  ASSUME Inductive, NEW r \in Requests, Load(r) \/ AnswerOnly(r) \/ VersionError(r)
  PROVE  Inductive' /\ order' = order
<1>1. TypeOK'
  BY DEF Inductive, TypeOK, Load, AnswerOnly, VersionError, Idle, Loaded
<1>2. Coherent'
  BY RequestsAssumption
     DEF Inductive, TypeOK, Coherent, Load, AnswerOnly, VersionError, Idle, Loaded
<1>3. order' = order
  BY DEF Load, AnswerOnly, VersionError
<1> QED BY <1>1, <1>2, <1>3 DEF Inductive, DocumentOK

\* Every step keeps the invariant, is a step of the desk or a stutter of it, and
\* does line work as the action properties demand.
LEMMA StepOK ==
  ASSUME Inductive, [Next]_vars
  PROVE  /\ Inductive'
         /\ [DeskNext]_order
         /\ LineWork /\ order'.state = "PICKED" /\ order.state # "PICKED" =>
              LinesIn(order'.lines, "PICKED") = Lines
         /\ LineWork /\ order.state = "EXCEPTION" /\ order'.state # "EXCEPTION" =>
              LinesIn(order'.lines, "EXCEPTION") = {}
<1>1. CASE UNCHANGED vars
  BY <1>1 DEF vars, Inductive, TypeOK, Coherent, DocumentOK, LineWork
<1>2. ASSUME NEW r \in Requests, Load(r) \/ AnswerOnly(r) \/ VersionError(r)
      PROVE  Inductive' /\ order' = order
  BY <1>2, NoSaveOK
<1>3. ASSUME NEW r \in Requests, NEW l \in Lines, LineStep(r, l)
      PROVE  /\ Inductive' /\ DeskNext
             /\ order'.state = "PICKED" /\ order.state # "PICKED" =>
                  LinesIn(order'.lines, "PICKED") = Lines
             /\ order.state = "EXCEPTION" /\ order'.state # "EXCEPTION" =>
                  LinesIn(order'.lines, "EXCEPTION") = {}
  BY <1>3, LineStepOK DEF DeskNext
<1>4. ASSUME NEW r \in Requests, NEW to \in TargetStates, UpdateState(r, to)
      PROVE  Inductive' /\ DeskNext /\ ~LineWork
  BY <1>4, UpdateStateOK DEF DeskNext, LineWork
<1> QED BY <1>1, <1>2, <1>3, <1>4 DEF Next, LineStep, LineWork

\* The initial state has every property.
LEMMA InitOK == Init => Inductive
BY SubmittedOK, RequestsAssumption DEF Init, DeskInit, Inductive, TypeOK, Coherent, Idle

---------------------------------------------------------------------------
\* The inductive invariant holds in every reachable state.
LEMMA InductiveInvariant == Spec => []Inductive
<1>1. Inductive /\ [Next]_vars => Inductive'
  BY StepOK
<1> QED BY InitOK, <1>1, PTL DEF Spec

\* Stored document, version and copies are always well-formed; in particular
\* pickedLinesCount never exceeds the number of lines.
THEOREM TypeCorrect == Spec => []TypeOK
<1>1. Inductive => TypeOK
  BY DEF Inductive
<1> QED BY <1>1, InductiveInvariant, PTL

\* No interleaving of requests hides a line in EXCEPTION behind a cleared flag.
THEOREM NeverHidden == Spec => []ExceptionNeverHidden
<1>1. Inductive => ExceptionNeverHidden
  BY DEF Inductive, DocumentOK, ExceptionNeverHidden
<1> QED BY <1>1, InductiveInvariant, PTL

\* The picked count never falls below the number of picked lines.
THEOREM CountCovers == Spec => []PickedCountCovers
<1>1. Inductive => PickedCountCovers
  BY DEF Inductive, DocumentOK, PickedCountCovers
<1> QED BY <1>1, InductiveInvariant, PTL

\* The stored totals are always those of the stored line prices.
THEOREM TotalsDerived == Spec => []TotalsMatchLines
<1>1. Inductive => TotalsMatchLines
  BY DEF Inductive, DocumentOK, TotalsMatchLines
<1> QED BY <1>1, InductiveInvariant, PTL

\* Line work makes an order PICKED only when all its lines are picked.
THEOREM PickedIsComplete == Spec => PickedMeansAllPicked
<1>1. Inductive /\ [Next]_vars =>
        [LineWork /\ order'.state = "PICKED" /\ order.state # "PICKED" =>
           LinesIn(order'.lines, "PICKED") = Lines]_vars
  BY StepOK
<1> QED BY <1>1, InductiveInvariant, PTL DEF Spec, PickedMeansAllPicked

\* Line work ends an order's EXCEPTION state only when no line is in exception.
THEOREM ExceptionEndsClear == Spec => ExceptionLeftWhenClear
<1>1. Inductive /\ [Next]_vars =>
        [LineWork /\ order.state = "EXCEPTION" /\ order'.state # "EXCEPTION" =>
           LinesIn(order'.lines, "EXCEPTION") = {}]_vars
  BY StepOK
<1> QED BY <1>1, InductiveInvariant, PTL DEF Spec, ExceptionLeftWhenClear

\* Overlapping requests implement the serial desk: no accepted line work is lost
\* or applied to an order other than the one stored when it is saved.
THEOREM ImplementsDesk == Spec => SerialDesk
<1>1. Init => DeskInit
  BY DEF Init, DeskInit
<1>2. Inductive /\ [Next]_vars => [DeskNext]_order
  BY StepOK
<1> QED BY <1>1, <1>2, InductiveInvariant, PTL DEF Spec, SerialDesk, DeskSpec

---------------------------------------------------------------------------
(* The screens of staff (ReadModels), from here on. *)

Names == {"group", "store", "partscheck", "inbox", "queue", "history"}

\* The groups of queries of each screen.
LEMMA GroupsOf ==
  /\ Groups("group") = <<{"totalOrders"}, GroupTiles>>
  /\ Groups("store") = <<{"totalOrders"}, {"todayOrders", "weekOrders"}, StoreTiles>>
  /\ Groups("partscheck") = <<PartsCheckTiles>>
  /\ Groups("inbox") = <<InboxTiles>>
  /\ Groups("queue") = <<QueueTiles>>
  /\ Groups("history") = <<>>
<1>1. Groups("group") = <<{"totalOrders"}, GroupTiles>>
  BY Zenon DEF Groups
<1>2. Groups("store") = <<{"totalOrders"}, {"todayOrders", "weekOrders"}, StoreTiles>>
  BY Zenon DEF Groups
<1>3. Groups("partscheck") = <<PartsCheckTiles>> /\ Groups("inbox") = <<InboxTiles>>
  BY Zenon DEF Groups
<1>4. Groups("queue") = <<QueueTiles>> /\ Groups("history") = <<>>
  BY Zenon DEF Groups
<1> QED BY <1>1, <1>2, <1>3, <1>4

\* No tile is queried twice, and none is called as the queries of a page are.
LEMMA GroupsApart ==
  ASSUME NEW name \in Names
  PROVE  /\ Len(Groups(name)) \in Nat
         /\ \A g \in 1 .. Len(Groups(name)) :
              /\ Groups(name)[g] # {} /\ "rows" \notin Groups(name)[g]
              /\ name \in Paged => "total" \notin Groups(name)[g]
         /\ \A g, h \in 1 .. Len(Groups(name)) : g # h => Groups(name)[g] \cap Groups(name)[h] = {}
         /\ name \in Paged => Len(Groups(name)) <= 1
<1>1. CASE name = "group"
  <2>1. Len(Groups(name)) = 2 /\ Groups(name)[1] = {"totalOrders"} /\ Groups(name)[2] = GroupTiles
    BY <1>1, GroupsOf
  <2>2. /\ "totalOrders" \notin GroupTiles /\ "DELIVERED" \in GroupTiles
        /\ "rows" \notin GroupTiles /\ name \notin Paged
    BY <1>1 DEF GroupTiles, PipelineStates, Paged
  <2> QED BY <2>1, <2>2
<1>2. CASE name = "store"
  <2>1. /\ Len(Groups(name)) = 3 /\ Groups(name)[1] = {"totalOrders"}
        /\ Groups(name)[2] = {"todayOrders", "weekOrders"} /\ Groups(name)[3] = StoreTiles
    BY <1>2, GroupsOf
  <2>2. /\ StoreTiles \cap {"totalOrders", "todayOrders", "weekOrders", "rows"} = {}
        /\ "activeExceptions" \in StoreTiles /\ name \notin Paged
    BY <1>2 DEF StoreTiles, StoreStates, Paged
  <2> QED BY <2>1, <2>2
<1>3. CASE name = "partscheck"
  <2>1. Len(Groups(name)) = 1 /\ Groups(name)[1] = PartsCheckTiles
    BY <1>3, GroupsOf
  <2>2. "expired" \in PartsCheckTiles /\ "rows" \notin PartsCheckTiles /\ name \notin Paged
    BY <1>3, ReadModelsAssumption DEF PartsCheckTiles, ReadModelsAssumption, ReceivedStatus, Paged
  <2> QED BY <2>1, <2>2
<1>4. CASE name = "inbox"
  <2>1. Len(Groups(name)) = 1 /\ Groups(name)[1] = InboxTiles
    BY <1>4, GroupsOf
  <2>2. "expired" \in InboxTiles /\ "rows" \notin InboxTiles /\ name \notin Paged
    BY <1>4 DEF InboxTiles, ReceivedStatus, Paged
  <2> QED BY <2>1, <2>2
<1>5. CASE name = "queue"
  <2>1. Len(Groups(name)) = 1 /\ Groups(name)[1] = QueueTiles
    BY <1>5, GroupsOf
  <2> QED BY <2>1 DEF QueueTiles
<1>6. CASE name = "history"
  <2>1. Len(Groups(name)) = 0
    BY <1>6, GroupsOf
  <2> QED BY <2>1
<1> QED BY <1>1, <1>2, <1>3, <1>4, <1>5, <1>6 DEF Names

\* The tiles of the first groups.
Upto(name, g) == UNION {Groups(name)[h] : h \in 1 .. g}

LEMMA OneGroupMore ==
  ASSUME NEW name \in Names, NEW g \in Nat, g < Len(Groups(name))
  PROVE  /\ g + 1 \in 1 .. Len(Groups(name))
         /\ Upto(name, g) = Upto(name, g + 1) \ Groups(name)[g + 1]
<1>1. Len(Groups(name)) \in Nat
  BY GroupsApart
<1>2. g + 1 \in 1 .. Len(Groups(name))
  BY <1>1
<1>3. \A h \in 1 .. g : h \in 1 .. Len(Groups(name)) /\ h # g + 1
  BY <1>1
<1>4. \A h \in 1 .. g : Groups(name)[h] \cap Groups(name)[g + 1] = {}
  BY <1>2, <1>3, GroupsApart
<1>5. 1 .. g + 1 = (1 .. g) \cup {g + 1}
  OBVIOUS
<1>6. Upto(name, g + 1) = Upto(name, g) \cup Groups(name)[g + 1]
  BY <1>5 DEF Upto
<1>7. Upto(name, g) \cap Groups(name)[g + 1] = {}
  BY <1>4 DEF Upto
<1> QED BY <1>2, <1>6, <1>7

LEMMA TilesOfGroups ==
  ASSUME NEW name \in Names, NEW g \in 0 .. Len(Groups(name))
  PROVE  /\ "rows" \notin Upto(name, g)
         /\ name \in Paged => "total" \notin Upto(name, g)
         /\ g # 0 => Groups(name)[g] \subseteq Upto(name, g)
<1>1. Len(Groups(name)) \in Nat
  BY GroupsApart
<1>2. \A h \in 1 .. g : h \in 1 .. Len(Groups(name))
  BY <1>1
<1>3. g # 0 => g \in 1 .. g
  BY <1>1
<1> QED BY <1>2, <1>3, GroupsApart DEF Upto

---------------------------------------------------------------------------
(* The shape of a screen, query after query. *)

\* A screen, field by field.
Record(name, group, unread, count, page, rows, listed) ==
  [name |-> name, group |-> group, unread |-> unread, count |-> count,
   page |-> page, rows |-> rows, listed |-> listed]

\* Of the groups queried all but the unread tiles are answered; the pages come last.
Shape(s) ==
  /\ s = Record(s.name, s.group, s.unread, s.count, s.page, s.rows, s.listed)
  /\ s.name \in Names /\ s.group \in 0 .. Len(Groups(s.name))
  /\ s.page \in Nat /\ s.rows \subseteq Orders /\ s.listed \subseteq Orders
  /\ s.count \in [DOMAIN s.count -> Nat] /\ IsFiniteSet(DOMAIN s.count)
  /\ s.page = 0 =>
       /\ DOMAIN s.count = Upto(s.name, s.group) \ s.unread
       /\ s.unread # {} => s.group # 0 /\ s.unread \subseteq Groups(s.name)[s.group]
  /\ s.page # 0 =>
       /\ s.name \in Paged /\ s.group = Len(Groups(s.name)) /\ s.unread \subseteq OnePage
       /\ DOMAIN s.count \ {"total"} = Upto(s.name, s.group)
       /\ "total" \notin s.unread => "total" \in DOMAIN s.count

\* As Proceed leaves it: when nothing is unread, no group is left, and the last page
\* ends at the count that came with it.
ScreenAt(s) ==
  /\ Shape(s)
  /\ s.unread = {} =>
       /\ s.group = Len(Groups(s.name))
       /\ s.name \in Paged => s.page # 0 /\ s.count["total"] <= s.page * Limit

\* What Proceed makes of a screen, case by case.
LEMMA Stays ==
  ASSUME NEW s, s.unread # {}
  PROVE  Proceed(s) = s
BY Zenon DEF Proceed

LEMMA NextGroup ==
  ASSUME NEW s, s.unread = {}, s.group < Len(Groups(s.name)), ~(s.group >= Len(Groups(s.name)))
  PROVE  Proceed(s) = [s EXCEPT !.group = @ + 1, !.unread = Groups(s.name)[s.group + 1]]
BY Zenon DEF Proceed

LEMMA NextPage ==
  ASSUME NEW s, s.unread = {}, s.group >= Len(Groups(s.name)), ~(s.group < Len(Groups(s.name))), s.name \in Paged,
         s.page = 0 \/ s.page * Limit < s.count["total"]
  PROVE  Proceed(s) = [s EXCEPT !.page = @ + 1, !.unread = OnePage]
BY Zenon DEF Proceed

LEMMA Ends ==
  ASSUME NEW s, s.unread = {}, ~(s.group < Len(Groups(s.name))),
         s.name \notin Paged \/ ~(s.page = 0 \/ s.page * Limit < s.count["total"])
  PROVE  Proceed(s) = s
BY Zenon DEF Proceed

\* Two fields of a screen edited at once.
LEMMA EditedCount ==
  ASSUME NEW s, s = Record(s.name, s.group, s.unread, s.count, s.page, s.rows, s.listed),
         NEW u, NEW v
  PROVE  [s EXCEPT !.unread = u, !.count = v] = Record(s.name, s.group, u, v, s.page, s.rows, s.listed)
<1> DEFINE e == Record(s.name, s.group, u, s.count, s.page, s.rows, s.listed)
<1>1. [s EXCEPT !.unread = u, !.count = v] = [[s EXCEPT !.unread = u] EXCEPT !.count = v]
  OBVIOUS
<1>2. [s EXCEPT !.unread = u] = e
  BY DEF Record
<1>3. [e EXCEPT !.count = v] = Record(s.name, s.group, u, v, s.page, s.rows, s.listed)
  BY DEF Record
<1> HIDE DEF e
<1> QED BY <1>1, <1>2, <1>3, Zenon

LEMMA EditedRows ==
  ASSUME NEW s, s = Record(s.name, s.group, s.unread, s.count, s.page, s.rows, s.listed),
         NEW u, NEW v
  PROVE  [s EXCEPT !.unread = u, !.rows = v] = Record(s.name, s.group, u, s.count, s.page, v, s.listed)
<1> DEFINE e == Record(s.name, s.group, u, s.count, s.page, s.rows, s.listed)
<1>1. [s EXCEPT !.unread = u, !.rows = v] = [[s EXCEPT !.unread = u] EXCEPT !.rows = v]
  OBVIOUS
<1>2. [s EXCEPT !.unread = u] = e
  BY DEF Record
<1>3. [e EXCEPT !.rows = v] = Record(s.name, s.group, u, s.count, s.page, v, s.listed)
  BY DEF Record
<1> HIDE DEF e
<1> QED BY <1>1, <1>2, <1>3, Zenon

LEMMA EditedGroup ==
  ASSUME NEW s, s = Record(s.name, s.group, s.unread, s.count, s.page, s.rows, s.listed),
         NEW u, NEW v
  PROVE  [s EXCEPT !.group = v, !.unread = u] = Record(s.name, v, u, s.count, s.page, s.rows, s.listed)
<1> DEFINE e == Record(s.name, s.group, u, s.count, s.page, s.rows, s.listed)
<1>1. [s EXCEPT !.group = v, !.unread = u] = [[s EXCEPT !.unread = u] EXCEPT !.group = v]
  OBVIOUS
<1>2. [s EXCEPT !.unread = u] = e
  BY DEF Record
<1>3. [e EXCEPT !.group = v] = Record(s.name, v, u, s.count, s.page, s.rows, s.listed)
  BY DEF Record
<1> HIDE DEF e
<1> QED BY <1>1, <1>2, <1>3, Zenon

LEMMA EditedPage ==
  ASSUME NEW s, s = Record(s.name, s.group, s.unread, s.count, s.page, s.rows, s.listed),
         NEW u, NEW v
  PROVE  [s EXCEPT !.page = v, !.unread = u] = Record(s.name, s.group, u, s.count, v, s.rows, s.listed)
<1> DEFINE e == Record(s.name, s.group, u, s.count, s.page, s.rows, s.listed)
<1>1. [s EXCEPT !.page = v, !.unread = u] = [[s EXCEPT !.unread = u] EXCEPT !.page = v]
  OBVIOUS
<1>2. [s EXCEPT !.unread = u] = e
  BY DEF Record
<1>3. [e EXCEPT !.page = v] = Record(s.name, s.group, u, s.count, v, s.rows, s.listed)
  BY DEF Record
<1> HIDE DEF e
<1> QED BY <1>1, <1>2, <1>3, Zenon

LEMMA RecordFields ==
  ASSUME NEW n, NEW g, NEW u, NEW c, NEW p, NEW r, NEW l, NEW s, s = Record(n, g, u, c, p, r, l)
  PROVE  /\ s.name = n /\ s.group = g /\ s.unread = u /\ s.count = c
         /\ s.page = p /\ s.rows = r /\ s.listed = l
BY DEF Record

\* It stays, and asks for something or is complete; or the next group is queried, or
\* the page is turned.
LEMMA ProceedCases ==
  ASSUME NEW s, Shape(s), NEW p, p = Proceed(s)
  PROVE  \/ p = s /\ ScreenAt(s)
         \/ /\ s.unread = {} /\ s.group < Len(Groups(s.name))
            /\ p = Record(s.name, s.group + 1, Groups(s.name)[s.group + 1], s.count, s.page,
                          s.rows, s.listed)
         \/ /\ s.unread = {} /\ s.name \in Paged /\ s.group = Len(Groups(s.name))
            /\ p = Record(s.name, s.group, OnePage, s.count, s.page + 1, s.rows, s.listed)
<1>1. s = Record(s.name, s.group, s.unread, s.count, s.page, s.rows, s.listed)
  BY DEF Shape
<1>2. s.group \in Nat /\ Len(Groups(s.name)) \in Nat /\ s.group <= Len(Groups(s.name)) /\ s.name \in Names
  BY GroupsApart DEF Shape
<1>3. CASE s.unread # {}
  BY <1>3, Stays DEF ScreenAt
<1>4. CASE s.unread = {} /\ s.group < Len(Groups(s.name))
  <2>1. ~(s.group >= Len(Groups(s.name)))
    BY <1>2, <1>4
  <2>2. p = [s EXCEPT !.group = s.group + 1, !.unread = Groups(s.name)[s.group + 1]]
    BY <1>4, <2>1, NextGroup
  <2> QED BY <1>1, <1>4, <2>2, EditedGroup
<1>5. CASE s.unread = {} /\ s.group = Len(Groups(s.name))
  <2>1. s.group >= Len(Groups(s.name)) /\ ~(s.group < Len(Groups(s.name)))
    BY <1>2, <1>5
  <2>2. CASE s.name \in Paged /\ (s.page = 0 \/ s.page * Limit < s.count["total"])
    <3>1. p = [s EXCEPT !.page = s.page + 1, !.unread = OnePage]
      BY <1>5, <2>1, <2>2, NextPage
    <3> QED BY <1>1, <1>5, <2>2, <3>1, EditedPage
  <2>3. CASE ~(s.name \in Paged /\ (s.page = 0 \/ s.page * Limit < s.count["total"]))
    <3>1. p = s
      BY <1>5, <2>1, <2>3, Ends
    <3>2. ASSUME s.name \in Paged PROVE s.page # 0 /\ s.count["total"] <= s.page * Limit
      <4>1. s.page # 0 /\ ~(s.page * Limit < s.count["total"])
        BY <2>3, <3>2
      <4>2. s.count["total"] \in Nat /\ s.page * Limit \in Nat
        BY <1>5, <4>1, ReadModelsAssumption DEF Shape, ReadModelsAssumption
      <4>3. \A k, m \in Nat : ~(k < m) => m <= k
        OBVIOUS
      <4> QED BY <4>1, <4>2, <4>3, Zenon
    <3>3. ScreenAt(s)
      BY <1>5, <3>2 DEF ScreenAt
    <3> QED BY <3>1, <3>3
  <2> QED BY <2>2, <2>3
<1> QED BY <1>2, <1>3, <1>4, <1>5

LEMMA ProceedKeepsShape ==
  ASSUME NEW s, Shape(s), NEW p, p = Proceed(s)
  PROVE  /\ ScreenAt(p)
         /\ p.name = s.name /\ p.count = s.count /\ p.rows = s.rows /\ p.listed = s.listed
<1> DEFINE g == s.group + 1
<1>1. CASE p = s /\ ScreenAt(s)
  BY <1>1
<1>2. CASE /\ s.unread = {} /\ s.group < Len(Groups(s.name))
           /\ p = Record(s.name, g, Groups(s.name)[g], s.count, s.page, s.rows, s.listed)
  <2>1. /\ p.name = s.name /\ p.group = g /\ p.unread = Groups(s.name)[g] /\ p.count = s.count
        /\ p.page = s.page /\ p.rows = s.rows /\ p.listed = s.listed
    BY <1>2, RecordFields
  <2>2. p = Record(p.name, p.group, p.unread, p.count, p.page, p.rows, p.listed)
    BY <1>2, <2>1, Zenon
  <2>3. s.group \in Nat /\ Len(Groups(s.name)) \in Nat /\ s.name \in Names
    BY GroupsApart DEF Shape
  <2>4. g \in 1 .. Len(Groups(s.name)) /\ Upto(s.name, s.group) = Upto(s.name, g) \ Groups(s.name)[g]
    BY <1>2, <2>3, OneGroupMore
  <2>5. s.page = 0
    BY <1>2, <2>3 DEF Shape
  <2>6. Groups(s.name)[g] # {}
    BY <2>3, <2>4, GroupsApart
  <2>7. DOMAIN p.count = Upto(p.name, p.group) \ p.unread
    BY <1>2, <2>1, <2>4, <2>5 DEF Shape
  <2>8. p.group # 0 /\ p.group \in 0 .. Len(Groups(p.name)) /\ p.unread = Groups(p.name)[p.group]
    BY <2>1, <2>3, <2>4
  <2>9. Shape(p)
    BY <2>1, <2>2, <2>5, <2>7, <2>8 DEF Shape
  <2> QED BY <2>1, <2>6, <2>9 DEF ScreenAt
<1>3. CASE /\ s.unread = {} /\ s.name \in Paged /\ s.group = Len(Groups(s.name))
           /\ p = Record(s.name, s.group, OnePage, s.count, s.page + 1, s.rows, s.listed)
  <2>1. /\ p.name = s.name /\ p.group = s.group /\ p.unread = OnePage /\ p.count = s.count
        /\ p.page = s.page + 1 /\ p.rows = s.rows /\ p.listed = s.listed
    BY <1>3, RecordFields
  <2>2. p = Record(p.name, p.group, p.unread, p.count, p.page, p.rows, p.listed)
    BY <1>3, <2>1, Zenon
  <2>3. p.page \in Nat /\ p.page # 0
    BY <2>1 DEF Shape
  <2>4. "total" \notin Upto(s.name, s.group)
    BY <1>3, TilesOfGroups DEF Shape
  <2>5. DOMAIN s.count \ {"total"} = Upto(s.name, s.group)
    BY <1>3, <2>4 DEF Shape
  <2>6. Shape(p)
    BY <1>3, <2>1, <2>2, <2>3, <2>5 DEF Shape, OnePage
  <2> QED BY <2>1, <2>6 DEF ScreenAt, OnePage
<1> QED BY <1>1, <1>2, <1>3, ProceedCases

---------------------------------------------------------------------------
\* The rows of a page are asked for once its number is.
LEMMA RowsOfPage ==
  ASSUME NEW s, Shape(s), "rows" \in s.unread
  PROVE  s.page # 0 /\ s.name \in Paged
<1>1. ASSUME s.page = 0 PROVE FALSE
  <2>1. s.group # 0 /\ s.unread \subseteq Groups(s.name)[s.group]
    BY <1>1 DEF Shape
  <2>2. Groups(s.name)[s.group] \subseteq Upto(s.name, s.group) /\ "rows" \notin Upto(s.name, s.group)
    BY <2>1, TilesOfGroups DEF Shape
  <2> QED BY <2>1, <2>2
<1> QED BY <1>1 DEF Shape

\* A screen is opened: its first queries are sent.
LEMMA OpenedIs ==
  ASSUME NEW name \in Names, NEW s, s = Opened(name)
  PROVE  /\ ScreenAt(s) /\ s.name = name /\ s.count = NoAnswer /\ s.rows = {} /\ s.listed = Listed(name)
         /\ s.page = 0 \/ (s.page = 1 /\ s.unread = OnePage)
<1> DEFINE z == Record(name, 0, {}, NoAnswer, 0, {}, Listed(name))
<1>1. s = Proceed(z)
  BY DEF Opened, Record
<1> HIDE DEF z
<1>2. /\ z.name = name /\ z.group = 0 /\ z.unread = {} /\ z.count = NoAnswer /\ z.page = 0
      /\ z.rows = {} /\ z.listed = Listed(name)
  BY RecordFields DEF z
<1>3. z = Record(z.name, z.group, z.unread, z.count, z.page, z.rows, z.listed)
  BY <1>2, Zenon DEF z
<1>4. Listed(name) \subseteq Orders
  BY DEF Listed, AtHome, OrdersIn, Stored
<1>5. DOMAIN NoAnswer = {} /\ NoAnswer \in [DOMAIN NoAnswer -> Nat] /\ IsFiniteSet(DOMAIN NoAnswer)
  BY FS_EmptySet DEF NoAnswer
<1>6. Upto(name, 0) = {}
  BY DEF Upto
<1>7. Len(Groups(name)) \in Nat
  BY GroupsApart
<1>8. Shape(z)
  BY <1>2, <1>3, <1>4, <1>5, <1>6, <1>7 DEF Shape
<1>9. /\ ScreenAt(s) /\ s.name = name /\ s.count = NoAnswer /\ s.rows = {} /\ s.listed = Listed(name)
  BY <1>1, <1>2, <1>8, ProceedKeepsShape
<1>10. s.page = 0 \/ (s.page = 1 /\ s.unread = OnePage)
  <2>1. CASE s = z
    BY <1>2, <2>1
  <2>2. CASE s = Record(z.name, z.group + 1, Groups(z.name)[z.group + 1], z.count, z.page, z.rows, z.listed)
    BY <1>2, <2>2, RecordFields
  <2>3. CASE s = Record(z.name, z.group, OnePage, z.count, z.page + 1, z.rows, z.listed)
    <3>1. s.page = z.page + 1 /\ s.unread = OnePage
      BY <2>3, RecordFields
    <3> QED BY <1>2, <3>1
  <2> QED BY <1>1, <1>8, <2>1, <2>2, <2>3, ProceedCases
<1> QED BY <1>9, <1>10

LEMMA AnswerType ==
  ASSUME ScreenAt(screen), NEW tile, NEW n \in Nat
  PROVE  /\ DOMAIN Answer(tile, n) = DOMAIN screen.count \cup {tile}
         /\ Answer(tile, n) \in [DOMAIN Answer(tile, n) -> Nat]
         /\ IsFiniteSet(DOMAIN Answer(tile, n))
         /\ Answer(tile, n)[tile] = n
         /\ \A t \in DOMAIN screen.count : t # tile => Answer(tile, n)[t] = screen.count[t]
<1>1. DOMAIN Answer(tile, n) = DOMAIN screen.count \cup {tile}
  BY DEF Answer
<1>2. screen.count \in [DOMAIN screen.count -> Nat] /\ IsFiniteSet(DOMAIN screen.count)
  BY DEF ScreenAt, Shape
<1>3. IsFiniteSet(DOMAIN screen.count \cup {tile})
  BY <1>2, FS_AddElement
<1> QED BY <1>1, <1>2, <1>3 DEF Answer

\* The screen with the answer of one query, before Proceed looks for the next.
Answered(tile, n) == [screen EXCEPT !.unread = @ \ {tile}, !.count = Answer(tile, n)]

LEMMA AnsweredFields ==
  ASSUME ScreenAt(screen), NEW tile, NEW n
  PROVE  Answered(tile, n) = Record(screen.name, screen.group, screen.unread \ {tile},
                                    Answer(tile, n), screen.page, screen.rows, screen.listed)
<1>1. Answered(tile, n) = [screen EXCEPT !.unread = screen.unread \ {tile}, !.count = Answer(tile, n)]
  BY DEF Answered
<1> QED BY <1>1, EditedCount DEF ScreenAt, Shape

\* Nothing but a screen changes when a query is answered.
Answers(tile) ==
  /\ tile \in screen.unread
  /\ UNCHANGED <<orders, rfqs, changes, created, changed>>

\* After an answer the other queries of the page are waited for, or the page is turned.
TurnedOrNot(x) ==
  \/ screen'.unread = screen.unread \ {x} /\ screen'.page = screen.page
  \/ screen'.unread = OnePage /\ screen'.page = screen.page + 1 /\ screen.unread \ {x} = {}

\* One query of a screen is answered, and the screen proceeds.
LEMMA QueryAnswered ==
  ASSUME ScreenAt(screen), NEW x \in screen.unread, NEW count, NEW rows \in SUBSET Orders, NEW a,
         a = Record(screen.name, screen.group, screen.unread \ {x}, count,
                    screen.page, rows, screen.listed),
         screen' = Proceed(a),
         \/ x = "rows" /\ count = screen.count
         \/ x # "rows" /\ \E n \in Nat : count = Answer(x, n)
  PROVE  /\ ScreenAt(screen')
         /\ screen'.name = screen.name /\ screen'.count = count /\ screen'.rows = rows
         /\ screen'.listed = screen.listed
         /\ screen.name \in Paged => TurnedOrNot(x)
<1>1. /\ a.name = screen.name /\ a.group = screen.group /\ a.unread = screen.unread \ {x}
      /\ a.count = count /\ a.page = screen.page /\ a.rows = rows
      /\ a.listed = screen.listed
  BY RecordFields
<1>2. a = Record(a.name, a.group, a.unread, a.count, a.page, a.rows, a.listed)
  BY <1>1, Zenon
<1>3. Shape(screen)
  BY DEF ScreenAt
<1>4. /\ count \in [DOMAIN count -> Nat] /\ IsFiniteSet(DOMAIN count)
      /\ DOMAIN count = IF x = "rows" THEN DOMAIN screen.count ELSE DOMAIN screen.count \cup {x}
  <2>1. CASE x = "rows" /\ count = screen.count
    BY <1>3, <2>1 DEF Shape
  <2>2. CASE x # "rows" /\ \E n \in Nat : count = Answer(x, n)
    <3>1. PICK n \in Nat : count = Answer(x, n)
      BY <2>2
    <3> QED BY <2>2, <3>1, AnswerType
  <2> QED BY <2>1, <2>2
<1>5. ASSUME screen.page = 0
      PROVE  /\ DOMAIN a.count = Upto(a.name, a.group) \ a.unread
             /\ a.unread # {} => a.group # 0 /\ a.unread \subseteq Groups(a.name)[a.group]
  <2>1. x # "rows"
    BY <1>3, <1>5, RowsOfPage
  <2>2. /\ DOMAIN screen.count = Upto(screen.name, screen.group) \ screen.unread
        /\ screen.group # 0 /\ screen.unread \subseteq Groups(screen.name)[screen.group]
    BY <1>3, <1>5 DEF Shape
  <2>3. x \in Upto(screen.name, screen.group)
    BY <1>3, <2>2, TilesOfGroups DEF Shape
  <2> QED BY <1>1, <1>4, <2>1, <2>2, <2>3
<1>6. ASSUME screen.page # 0
      PROVE  /\ a.name \in Paged /\ a.group = Len(Groups(a.name)) /\ a.unread \subseteq OnePage
             /\ DOMAIN a.count \ {"total"} = Upto(a.name, a.group)
             /\ "total" \notin a.unread => "total" \in DOMAIN a.count
  <2>1. /\ screen.name \in Paged /\ screen.group = Len(Groups(screen.name)) /\ screen.unread \subseteq OnePage
        /\ DOMAIN screen.count \ {"total"} = Upto(screen.name, screen.group)
        /\ "total" \notin screen.unread => "total" \in DOMAIN screen.count
    BY <1>3, <1>6 DEF Shape
  <2>2. x = "rows" \/ x = "total"
    BY <2>1 DEF OnePage
  <2> QED BY <1>1, <1>4, <2>1, <2>2
<1>7. Shape(a)
  BY <1>1, <1>2, <1>3, <1>4, <1>5, <1>6 DEF Shape
<1>8. /\ ScreenAt(screen') /\ screen'.name = screen.name /\ screen'.count = count
      /\ screen'.rows = rows /\ screen'.listed = screen.listed
  BY <1>1, <1>7, ProceedKeepsShape
<1>9. ASSUME screen.name \in Paged PROVE TurnedOrNot(x)
  <2>1. ~(a.unread = {} /\ a.group < Len(Groups(a.name)))
    <3>1. screen.group \in Nat /\ Len(Groups(screen.name)) \in Nat /\ Len(Groups(screen.name)) <= 1
      BY <1>3, <1>9, GroupsApart DEF Shape
    <3>2. CASE screen.page = 0
      <4>1. screen.group # 0
        BY <1>3, <3>2 DEF Shape
      <4> QED BY <1>1, <3>1, <4>1
    <3>3. CASE screen.page # 0
      BY <1>1, <1>3, <3>1, <3>3 DEF Shape
    <3> QED BY <3>2, <3>3
  <2>2. CASE screen' = a
    BY <1>1, <2>2 DEF TurnedOrNot
  <2>3. CASE a.unread = {} /\ screen' = Record(a.name, a.group, OnePage, a.count, a.page + 1, a.rows, a.listed)
    <3>1. screen'.unread = OnePage /\ screen'.page = a.page + 1
      BY <2>3, RecordFields
    <3> QED BY <1>1, <2>3, <3>1 DEF TurnedOrNot
  <2> QED BY <1>7, <2>1, <2>2, <2>3, ProceedCases
<1> QED BY <1>8, <1>9

---------------------------------------------------------------------------
(* What the queries count. *)

LEMMA CountedBy ==
  /\ \A t : Counted("group", t) = GroupTile(t)
  /\ \A t : Counted("store", t) = StoreTile(t)
  /\ \A t : Counted("partscheck", t) = RfqTile(t) /\ Counted("inbox", t) = RfqTile(t)
  /\ \A t : Counted("queue", t) = QueueTile(t)
  /\ \A t : Counted("history", t) = AtHome(Stored)
<1>1. \A t : Counted("group", t) = GroupTile(t) /\ Counted("store", t) = StoreTile(t)
  BY Zenon DEF Counted
<1>2. \A t : Counted("partscheck", t) = RfqTile(t)
  BY Zenon DEF Counted
<1>3. \A t : Counted("inbox", t) = RfqTile(t)
  BY Zenon DEF Counted
<1>4. \A t : Counted("queue", t) = QueueTile(t)
  BY Zenon DEF Counted
<1>5. \A t : Counted("history", t) = AtHome(Stored)
  BY Zenon DEF Counted
<1> QED BY <1>1, <1>2, <1>3, <1>4, <1>5

LEMMA GroupTileIs ==
  /\ GroupTile("totalOrders") = NotCancelled
  /\ GroupTile("activeExceptions") = Exceptional
  /\ \A t : t \notin {"totalOrders", "activeExceptions"} => GroupTile(t) = OrdersIn({t})
<1>1. GroupTile("totalOrders") = NotCancelled /\ GroupTile("activeExceptions") = Exceptional
  BY Zenon DEF GroupTile
<1>2. \A t : ~(t = "totalOrders") /\ ~(t = "activeExceptions") => GroupTile(t) = OrdersIn({t})
  BY Zenon DEF GroupTile
<1> QED BY <1>1, <1>2

\* Orders that are not cancelled, from one on.
Since(first) == {o \in NotCancelled : o >= first}
StoreTotals == {"totalOrders", "weekOrders", "todayOrders", "activeExceptions"}

LEMMA StoreTileIs ==
  /\ StoreTile("totalOrders") = AtHome(NotCancelled)
  /\ StoreTile("weekOrders") = AtHome(Since(FirstThisWeek))
  /\ StoreTile("todayOrders") = AtHome(Since(FirstToday))
  /\ StoreTile("activeExceptions") = AtHome(Exceptional)
  /\ \A t : t \notin StoreTotals => StoreTile(t) = AtHome(OrdersIn(StoreStates[t]))
<1>1. StoreTile("totalOrders") = AtHome(NotCancelled) /\ StoreTile("activeExceptions") = AtHome(Exceptional)
  BY Zenon DEF StoreTile
<1>2. StoreTile("weekOrders") = AtHome(Since(FirstThisWeek))
  BY Zenon DEF StoreTile, Since
<1>3. StoreTile("todayOrders") = AtHome(Since(FirstToday))
  BY Zenon DEF StoreTile, Since
<1>4. \A t : ~(t = "totalOrders") /\ ~(t = "weekOrders") /\ ~(t = "todayOrders") /\ ~(t = "activeExceptions")
        => StoreTile(t) = AtHome(OrdersIn(StoreStates[t]))
  BY Zenon DEF StoreTile
<1> QED BY <1>1, <1>2, <1>3, <1>4 DEF StoreTotals

LEMMA RfqTileIs ==
  /\ RfqTile("totalRfqs") = StoredRfqs /\ RfqTile("total") = StoredRfqs
  /\ RfqTile("totalOpen") = RfqsIn(OpenStatus)
  /\ RfqTile("expired") = Expired
  /\ \A t : t \notin {"totalRfqs", "total", "totalOpen", "expired"} => RfqTile(t) = RfqsIn({t})
<1>1. \A t : t \in {"totalRfqs", "total"} => RfqTile(t) = StoredRfqs
  BY Zenon DEF RfqTile
<1>2. "totalOpen" \notin {"totalRfqs", "total"} /\ "expired" \notin {"totalRfqs", "total"}
  OBVIOUS
<1>3. RfqTile("totalOpen") = RfqsIn(OpenStatus)
  BY <1>2, Zenon DEF RfqTile
<1>4. RfqTile("expired") = Expired
  BY <1>2, Zenon DEF RfqTile
<1>5. \A t : ~(t \in {"totalRfqs", "total"}) /\ ~(t = "totalOpen") /\ ~(t = "expired")
        => RfqTile(t) = RfqsIn({t})
  BY Zenon DEF RfqTile
<1>6. \A t : t \notin {"totalRfqs", "total", "totalOpen", "expired"} =>
        ~(t \in {"totalRfqs", "total"}) /\ ~(t = "totalOpen") /\ ~(t = "expired")
  OBVIOUS
<1> QED BY <1>1, <1>3, <1>4, <1>5, <1>6

LEMMA QueueTileIs ==
  /\ \A t \in {"totalQueued", "total"} : QueueTile(t) = AtHome(OrdersIn(QueueStates))
  /\ QueueTile("exceptionsCount") = AtHome(Flagged)
  /\ \A t : t \notin {"totalQueued", "total", "exceptionsCount"} =>
       QueueTile(t) = AtHome(OrdersIn(StoreStates[t]))
<1>1. \A t : t \in {"totalQueued", "total"} => QueueTile(t) = AtHome(OrdersIn(QueueStates))
  BY Zenon DEF QueueTile
<1>2. "exceptionsCount" \notin {"totalQueued", "total"}
  OBVIOUS
<1>3. QueueTile("exceptionsCount") = AtHome(Flagged)
  BY <1>2, Zenon DEF QueueTile
<1>4. \A t : ~(t \in {"totalQueued", "total"}) /\ ~(t = "exceptionsCount")
        => QueueTile(t) = AtHome(OrdersIn(StoreStates[t]))
  BY Zenon DEF QueueTile
<1> QED BY <1>1, <1>3, <1>4

\* A query counts documents, finitely many of them.
LEMMA CountedFinite ==
  ASSUME NEW name \in Names, NEW tile
  PROVE  /\ Counted(name, tile) \subseteq Orders \cup Rfqs
         /\ IsFiniteSet(Counted(name, tile))
         /\ Cardinality(Counted(name, tile)) \in Nat
<1>1. \A states : OrdersIn(states) \subseteq Orders
  BY DEF OrdersIn
<1>2. Stored \subseteq Orders /\ Exceptional \subseteq Orders /\ NotCancelled \subseteq Orders /\ Flagged \subseteq Orders
  BY <1>1 DEF Stored, Exceptional, NotCancelled, Flagged
<1>3. \A statuses : RfqsIn(statuses) \subseteq Rfqs
  BY DEF RfqsIn
<1>4. Expired \subseteq Rfqs /\ StoredRfqs \subseteq Rfqs
  BY DEF Expired, StoredRfqs
<1>5. \A set : AtHome(set) \subseteq set
  BY DEF AtHome
<1>6. Counted(name, tile) \subseteq Orders \cup Rfqs
  <2>1. GroupTile(tile) \subseteq Orders
    BY <1>1, <1>2, GroupTileIs
  <2>2. StoreTile(tile) \subseteq Orders
    <3>1. \A n : Since(n) \subseteq Orders
      BY <1>2 DEF Since
    <3>2. CASE tile \in StoreTotals
      BY <1>2, <1>5, <3>1, <3>2, StoreTileIs DEF StoreTotals
    <3>3. CASE tile \notin StoreTotals
      BY <1>1, <1>5, <3>3, StoreTileIs
    <3> QED BY <3>2, <3>3
  <2>3. RfqTile(tile) \subseteq Rfqs
    BY <1>3, <1>4, RfqTileIs
  <2>4. QueueTile(tile) \subseteq Orders
    BY <1>1, <1>2, <1>5, QueueTileIs
  <2>5. AtHome(Stored) \subseteq Orders
    BY <1>2, <1>5
  <2> QED BY <2>1, <2>2, <2>3, <2>4, <2>5, CountedBy DEF Names
<1>7. IsFiniteSet(Orders \cup Rfqs)
  BY ReadModelsAssumption, FS_Union DEF ReadModelsAssumption
<1>8. IsFiniteSet(Counted(name, tile))
  BY <1>6, <1>7, FS_Subset
<1> QED BY <1>6, <1>8, FS_CardinalityType

\* Of the documents that no request changes a query counts the same.
LEMMA OthersCounted ==
  ASSUME NEW x, \A o \in Orders : o # x => orders'[o] = orders[o],
         \A q \in Rfqs : q # x => rfqs'[q] = rfqs[q],
         NEW name \in Names, NEW tile, NEW o, o # x
  PROVE  o \in Counted(name, tile)' <=> o \in Counted(name, tile)
<1>1. \A states : o \in OrdersIn(states)' <=> o \in OrdersIn(states)
  BY DEF OrdersIn
<1>2. \A statuses : o \in RfqsIn(statuses)' <=> o \in RfqsIn(statuses)
  BY DEF RfqsIn
<1>3. /\ o \in Stored' <=> o \in Stored
      /\ o \in Flagged' <=> o \in Flagged
      /\ o \in StoredRfqs' <=> o \in StoredRfqs
  BY DEF Stored, Flagged, StoredRfqs
<1>4. /\ o \in Exceptional' <=> o \in Exceptional
      /\ o \in NotCancelled' <=> o \in NotCancelled
  BY <1>1, <1>3 DEF Exceptional, NotCancelled
<1>5. o \in Expired' <=> o \in Expired
  BY <1>2, <1>3 DEF Expired, StoredRfqs
<1>6. ASSUME NEW S, NEW T, o \in S <=> o \in T, S \subseteq Orders
      PROVE  o \in {p \in S : orders'[p].rooftop = Home} <=> o \in {p \in T : orders[p].rooftop = Home}
  BY <1>6
<1>7. /\ \A states : OrdersIn(states)' \subseteq Orders
      /\ Stored' \subseteq Orders /\ Exceptional' \subseteq Orders /\ NotCancelled' \subseteq Orders
      /\ Flagged' \subseteq Orders
  BY DEF OrdersIn, Stored, Exceptional, NotCancelled, Flagged
<1>8. /\ \A states : o \in AtHome(OrdersIn(states))' <=> o \in AtHome(OrdersIn(states))
      /\ o \in AtHome(Stored)' <=> o \in AtHome(Stored)
      /\ o \in AtHome(Exceptional)' <=> o \in AtHome(Exceptional)
      /\ o \in AtHome(NotCancelled)' <=> o \in AtHome(NotCancelled)
      /\ o \in AtHome(Flagged)' <=> o \in AtHome(Flagged)
  BY <1>1, <1>3, <1>4, <1>6, <1>7 DEF AtHome
<1>9. \A n : (o \in Since(n)' <=> o \in Since(n)) /\ Since(n)' \subseteq Orders
  BY <1>4, <1>7 DEF Since
<1>10. \A n : o \in AtHome(Since(n))' <=> o \in AtHome(Since(n))
  BY <1>6, <1>9 DEF AtHome
<1>11. CASE name = "group"
  <2>1. (\A t : Counted("group", t) = GroupTile(t))'
    BY CountedBy, PTL
  <2>2. /\ (\A t : t \notin {"totalOrders", "activeExceptions"} => GroupTile(t) = OrdersIn({t}))'
        /\ (GroupTile("totalOrders") = NotCancelled /\ GroupTile("activeExceptions") = Exceptional)'
    BY GroupTileIs, PTL
  <2>3. o \in GroupTile(tile)' <=> o \in GroupTile(tile)
    <3>1. CASE tile \notin {"totalOrders", "activeExceptions"}
      <4>1. GroupTile(tile)' = OrdersIn({tile})' /\ GroupTile(tile) = OrdersIn({tile})
        BY <2>2, <3>1, GroupTileIs
      <4> QED BY <1>1, <4>1
    <3>2. CASE tile \in {"totalOrders", "activeExceptions"}
      BY <1>4, <2>2, <3>2, GroupTileIs
    <3> QED BY <3>1, <3>2
  <2>4. Counted(name, tile)' = GroupTile(tile)' /\ Counted(name, tile) = GroupTile(tile)
    BY <1>11, <2>1, CountedBy
  <2> QED BY <2>3, <2>4
<1>12. CASE name = "store"
  <2>1. (\A t : Counted("store", t) = StoreTile(t))'
    BY CountedBy, PTL
  <2>2. /\ (\A t : t \notin StoreTotals => StoreTile(t) = AtHome(OrdersIn(StoreStates[t])))'
        /\ (StoreTile("totalOrders") = AtHome(NotCancelled))'
        /\ (StoreTile("weekOrders") = AtHome(Since(FirstThisWeek)))'
        /\ (StoreTile("todayOrders") = AtHome(Since(FirstToday)))'
        /\ (StoreTile("activeExceptions") = AtHome(Exceptional))'
    BY StoreTileIs, PTL
  <2>3. o \in StoreTile(tile)' <=> o \in StoreTile(tile)
    <3>1. CASE tile \notin StoreTotals
      <4>1. /\ StoreTile(tile)' = AtHome(OrdersIn(StoreStates[tile]))'
            /\ StoreTile(tile) = AtHome(OrdersIn(StoreStates[tile]))
        BY <2>2, <3>1, StoreTileIs
      <4> QED BY <1>8, <4>1
    <3>2. CASE tile = "totalOrders" \/ tile = "activeExceptions"
      BY <1>8, <2>2, <3>2, StoreTileIs
    <3>3. CASE tile = "weekOrders"
      <4>1. /\ StoreTile(tile)' = AtHome(Since(FirstThisWeek))'
            /\ StoreTile(tile) = AtHome(Since(FirstThisWeek))
        BY <2>2, <3>3, StoreTileIs
      <4> QED BY <1>10, <4>1
    <3>4. CASE tile = "todayOrders"
      <4>1. /\ StoreTile(tile)' = AtHome(Since(FirstToday))'
            /\ StoreTile(tile) = AtHome(Since(FirstToday))
        BY <2>2, <3>4, StoreTileIs
      <4> QED BY <1>10, <4>1
    <3> QED BY <3>1, <3>2, <3>3, <3>4 DEF StoreTotals
  <2>4. Counted(name, tile)' = StoreTile(tile)' /\ Counted(name, tile) = StoreTile(tile)
    BY <1>12, <2>1, CountedBy
  <2> QED BY <2>3, <2>4
<1>13. CASE name \in {"partscheck", "inbox"}
  <2>1. (\A t : Counted("partscheck", t) = RfqTile(t) /\ Counted("inbox", t) = RfqTile(t))'
    BY CountedBy, PTL
  <2>2. /\ (\A t : t \notin {"totalRfqs", "total", "totalOpen", "expired"} => RfqTile(t) = RfqsIn({t}))'
        /\ (RfqTile("totalRfqs") = StoredRfqs /\ RfqTile("total") = StoredRfqs)'
        /\ (RfqTile("totalOpen") = RfqsIn(OpenStatus))'
        /\ (RfqTile("expired") = Expired)'
    BY RfqTileIs, PTL
  <2>3. o \in RfqTile(tile)' <=> o \in RfqTile(tile)
    <3>1. CASE tile \in {"totalRfqs", "total"}
      BY <1>3, <2>2, <3>1, RfqTileIs
    <3>2. CASE tile = "totalOpen"
      <4>1. RfqTile(tile)' = RfqsIn(OpenStatus)' /\ RfqTile(tile) = RfqsIn(OpenStatus)
        BY <2>2, <3>2, RfqTileIs
      <4> QED BY <1>2, <4>1
    <3>3. CASE tile = "expired"
      BY <1>5, <2>2, <3>3, RfqTileIs
    <3>4. CASE tile \notin {"totalRfqs", "total", "totalOpen", "expired"}
      <4>1. RfqTile(tile)' = RfqsIn({tile})' /\ RfqTile(tile) = RfqsIn({tile})
        BY <2>2, <3>4, RfqTileIs
      <4> QED BY <1>2, <4>1
    <3> QED BY <3>1, <3>2, <3>3, <3>4
  <2>4. Counted(name, tile)' = RfqTile(tile)' /\ Counted(name, tile) = RfqTile(tile)
    BY <1>13, <2>1, CountedBy
  <2> QED BY <2>3, <2>4
<1>14. CASE name = "queue"
  <2>1. (\A t : Counted("queue", t) = QueueTile(t))'
    BY CountedBy, PTL
  <2>2. /\ (\A t \in {"totalQueued", "total"} : QueueTile(t) = AtHome(OrdersIn(QueueStates)))'
        /\ (QueueTile("exceptionsCount") = AtHome(Flagged))'
        /\ (\A t : t \notin {"totalQueued", "total", "exceptionsCount"} =>
              QueueTile(t) = AtHome(OrdersIn(StoreStates[t])))'
    BY QueueTileIs, PTL
  <2>3. o \in QueueTile(tile)' <=> o \in QueueTile(tile)
    <3>1. CASE tile \in {"totalQueued", "total"}
      BY <1>8, <2>2, <3>1, QueueTileIs
    <3>2. CASE tile = "exceptionsCount"
      BY <1>8, <2>2, <3>2, QueueTileIs
    <3>3. CASE tile \notin {"totalQueued", "total", "exceptionsCount"}
      <4>1. /\ QueueTile(tile)' = AtHome(OrdersIn(StoreStates[tile]))'
            /\ QueueTile(tile) = AtHome(OrdersIn(StoreStates[tile]))
        BY <2>2, <3>3, QueueTileIs
      <4> QED BY <1>8, <4>1
    <3> QED BY <3>1, <3>2, <3>3
  <2>4. Counted(name, tile)' = QueueTile(tile)' /\ Counted(name, tile) = QueueTile(tile)
    BY <1>14, <2>1, CountedBy
  <2> QED BY <2>3, <2>4
<1>15. CASE name = "history"
  <2>1. (\A t : Counted("history", t) = AtHome(Stored))'
    BY CountedBy, PTL
  <2> QED BY <1>8, <1>15, <2>1, CountedBy
<1> QED BY <1>11, <1>12, <1>13, <1>14, <1>15 DEF Names

---------------------------------------------------------------------------
\* As long as no document changes every query counts the same.
LEMMA CountedSame ==
  ASSUME ScreenAt(screen), UNCHANGED <<orders, rfqs>>, screen'.name = screen.name
  PROVE  \A t : Counted(screen.name, t)' = Counted(screen.name, t)
<1> SUFFICES ASSUME NEW t PROVE Counted(screen.name, t)' = Counted(screen.name, t)
  OBVIOUS
<1>1. \A x, o : o # x => (o \in Counted(screen.name, t)' <=> o \in Counted(screen.name, t))
  BY OthersCounted DEF ScreenAt, Shape
<1>2. \A o : o \in Counted(screen.name, t)' <=> o \in Counted(screen.name, t)
  <2> SUFFICES ASSUME NEW o PROVE o \in Counted(screen.name, t)' <=> o \in Counted(screen.name, t)
    OBVIOUS
  <2>1. o # 0 \/ o # 1
    OBVIOUS
  <2> QED BY <1>1, <2>1
<1> QED BY <1>2

LEMMA TileAnswered ==
  ASSUME ScreenAt(screen), NEW tile \in screen.unread, ReadTile(tile)
  PROVE  /\ ScreenAt(screen') /\ Answers(tile) /\ tile # "rows"
         /\ screen'.name = screen.name /\ screen'.rows = screen.rows /\ screen'.listed = screen.listed
         /\ screen'.count = Answer(tile, Cardinality(Counted(screen.name, tile)))
         /\ Cardinality(Counted(screen.name, tile)) \in Nat
         /\ screen.name \in Paged => TurnedOrNot(tile)
<1> DEFINE n == Cardinality(Counted(screen.name, tile))
<1>1. n \in Nat
  BY CountedFinite DEF ScreenAt, Shape
<1>2. screen' = Proceed(Answered(tile, n)) /\ Answers(tile) /\ tile # "rows"
  BY DEF ReadTile, Answered, Answers
<1> HIDE DEF n
<1>3. screen.rows \in SUBSET Orders
  BY DEF ScreenAt, Shape
<1> DEFINE a == Record(screen.name, screen.group, screen.unread \ {tile}, Answer(tile, n),
                       screen.page, screen.rows, screen.listed)
<1>4. screen' = Proceed(a)
  BY <1>2, AnsweredFields
<1>5. \E k \in Nat : Answer(tile, n) = Answer(tile, k)
  BY <1>1
<1>6. /\ ScreenAt(screen')
      /\ screen'.name = screen.name /\ screen'.count = Answer(tile, n) /\ screen'.rows = screen.rows
      /\ screen'.listed = screen.listed
      /\ screen.name \in Paged => TurnedOrNot(tile)
  <2> HIDE DEF a
  <2>1. a = Record(screen.name, screen.group, screen.unread \ {tile}, Answer(tile, n),
                   screen.page, screen.rows, screen.listed)
    BY DEF a
  <2> QED BY <1>2, <1>3, <1>4, <1>5, <2>1, QueryAnswered
<1> QED BY <1>1, <1>2, <1>6 DEF n

LEMMA RowsAnswered ==
  ASSUME ScreenAt(screen), ReadRows
  PROVE  /\ ScreenAt(screen') /\ screen.name \in Paged /\ screen.page # 0 /\ "rows" \in screen.unread
         /\ screen'.name = screen.name /\ screen'.listed = screen.listed
         /\ screen'.count = screen.count /\ screen'.rows = screen.rows \cup PageOf(screen.page)
         /\ UNCHANGED <<orders, rfqs, changes, created, changed>>
         /\ TurnedOrNot("rows")
<1> DEFINE rows == screen.rows \cup PageOf(screen.page)
           a == Record(screen.name, screen.group, screen.unread \ {"rows"}, screen.count,
                       screen.page, rows, screen.listed)
<1>1. "rows" \in screen.unread /\ UNCHANGED <<orders, rfqs, changes, created, changed>>
  BY DEF ReadRows
<1>2. screen.name \in Paged /\ screen.page # 0
  BY <1>1, RowsOfPage DEF ScreenAt
<1>3. [screen EXCEPT !.unread = screen.unread \ {"rows"}, !.rows = rows] = a
  BY EditedRows DEF ScreenAt, Shape
<1>4. screen' = Proceed([screen EXCEPT !.unread = screen.unread \ {"rows"}, !.rows = rows])
  BY DEF ReadRows
<1>5. rows \in SUBSET Orders
  BY DEF ScreenAt, Shape, PageOf, Listed, AtHome, OrdersIn, Stored
<1>6. screen' = Proceed(a)
  BY <1>3, <1>4
<1>7. /\ ScreenAt(screen') /\ screen'.name = screen.name /\ screen'.listed = screen.listed
      /\ screen'.count = screen.count /\ screen'.rows = rows
      /\ TurnedOrNot("rows")
  <2> HIDE DEF a, rows
  <2>1. a = Record(screen.name, screen.group, screen.unread \ {"rows"}, screen.count,
                   screen.page, rows, screen.listed)
    BY DEF a
  <2> QED BY <1>1, <1>2, <1>5, <1>6, <2>1, QueryAnswered
<1> QED BY <1>1, <1>2, <1>7

---------------------------------------------------------------------------
\* Two sets that differ in one element.
LEMMA OneMoved ==
  ASSUME NEW S, NEW T, NEW x, IsFiniteSet(S), S \ {x} = T \ {x}
  PROVE  /\ IsFiniteSet(T) /\ Cardinality(S) \in Nat /\ Cardinality(T) \in Nat
         /\ Cardinality(T) <= Cardinality(S) + 1
         /\ Cardinality(S) <= Cardinality(T) + 1
<1> DEFINE rest == S \ {x}
<1>1. IsFiniteSet(rest) /\ Cardinality(rest) \in Nat
  BY FS_RemoveElement, FS_CardinalityType
<1>2. S = rest \/ S = rest \cup {x}
  OBVIOUS
<1>3. T = rest \/ T = rest \cup {x}
  OBVIOUS
<1>4. x \notin rest
  OBVIOUS
<1> HIDE DEF rest
<1>5. IsFiniteSet(rest \cup {x}) /\ Cardinality(rest \cup {x}) = Cardinality(rest) + 1
  BY <1>1, <1>4, FS_AddElement
<1> DEFINE n == Cardinality(rest)
<1>6. IsFiniteSet(S) /\ Cardinality(S) \in {n, n + 1}
  BY <1>1, <1>2, <1>5
<1>7. IsFiniteSet(T) /\ Cardinality(T) \in {n, n + 1}
  BY <1>1, <1>3, <1>5
<1> QED BY <1>1, <1>6, <1>7

LEMMA InTwoParts ==
  ASSUME NEW S, NEW T, IsFiniteSet(S), IsFiniteSet(T), S \cap T = {}
  PROVE  /\ IsFiniteSet(S \cup T)
         /\ Cardinality(S) \in Nat /\ Cardinality(T) \in Nat
         /\ Cardinality(S \cup T) = Cardinality(S) + Cardinality(T)
<1>1. Cardinality(S \cup T) = Cardinality(S) + Cardinality(T) - Cardinality(S \cap T)
  BY FS_Union
<1>2. Cardinality(S \cap T) = 0
  BY FS_EmptySet
<1> QED BY <1>1, <1>2, FS_Union, FS_CardinalityType

LEMMA NoMoreThanBoth ==
  ASSUME NEW S, NEW T, IsFiniteSet(S), IsFiniteSet(T)
  PROVE  /\ IsFiniteSet(S \cup T)
         /\ Cardinality(S) \in Nat /\ Cardinality(T) \in Nat /\ Cardinality(S \cup T) \in Nat
         /\ Cardinality(S \cup T) <= Cardinality(S) + Cardinality(T)
<1>1. Cardinality(S \cup T) = Cardinality(S) + Cardinality(T) - Cardinality(S \cap T)
  BY FS_Union
<1>2. IsFiniteSet(S \cap T) /\ Cardinality(S \cap T) \in Nat
  BY FS_Intersection, FS_CardinalityType
<1>3. IsFiniteSet(S \cup T)
  BY FS_Union
<1> QED BY <1>1, <1>2, <1>3, FS_CardinalityType

---------------------------------------------------------------------------
\* What the tiles of T have answered, added up.
\* What the tiles of T have answered, added up.
SeenIn(count, T) == SumOf(count, T \cap DOMAIN count)

LEMMA SeenType ==
  ASSUME NEW count, count \in [DOMAIN count -> Nat], IsFiniteSet(DOMAIN count), NEW T
  PROVE  SeenIn(count, T) \in Nat /\ Summable(count, T \cap DOMAIN count)
<1>1. IsFiniteSet(T \cap DOMAIN count)
  BY FS_Intersection
<1>2. Summable(count, T \cap DOMAIN count)
  BY <1>1 DEF Summable
<1> QED BY <1>2, SumKept DEF SeenIn

\* One tile more adds what it counted.
LEMMA SeenAnswer ==
  ASSUME ScreenAt(screen), NEW tile, NEW n \in Nat, NEW T
  PROVE  /\ SeenIn(screen.count, T) \in Nat /\ SeenIn(Answer(tile, n), T) \in Nat
         /\ tile \notin T => SeenIn(Answer(tile, n), T) = SeenIn(screen.count, T)
         /\ tile \in T /\ tile \notin DOMAIN screen.count =>
              SeenIn(Answer(tile, n), T) = SeenIn(screen.count, T) + n
<1> DEFINE old == screen.count
           new == Answer(tile, n)
<1>1. old \in [DOMAIN old -> Nat] /\ IsFiniteSet(DOMAIN old)
  BY DEF ScreenAt, Shape
<1>2. /\ DOMAIN new = DOMAIN old \cup {tile} /\ new \in [DOMAIN new -> Nat]
      /\ IsFiniteSet(DOMAIN new) /\ new[tile] = n
      /\ \A t \in DOMAIN old : t # tile => new[t] = old[t]
  <2>1. DOMAIN new = DOMAIN old \cup {tile} /\ new \in [DOMAIN new -> Nat]
    BY AnswerType
  <2>2. IsFiniteSet(DOMAIN new) /\ new[tile] = n
    BY AnswerType
  <2>3. \A t \in DOMAIN old : t # tile => new[t] = old[t]
    BY DEF Answer
  <2> QED BY <2>1, <2>2, <2>3
<1> HIDE DEF old, new
<1>3. SeenIn(old, T) \in Nat /\ Summable(old, T \cap DOMAIN old)
  BY <1>1, SeenType
<1>4. SeenIn(new, T) \in Nat /\ Summable(new, T \cap DOMAIN new)
  BY <1>2, SeenType
<1>5. ASSUME tile \notin T PROVE SeenIn(new, T) = SeenIn(old, T)
  <2>1. T \cap DOMAIN new = T \cap DOMAIN old
    BY <1>2, <1>5
  <2>2. \A t \in T \cap DOMAIN old : old[t] = new[t]
    BY <1>2, <1>5
  <2> QED BY <1>3, <1>4, <2>1, <2>2, SumKept DEF SeenIn
<1>6. ASSUME tile \in T, tile \notin DOMAIN old PROVE SeenIn(new, T) = SeenIn(old, T) + n
  <2>1. T \cap DOMAIN new = (T \cap DOMAIN old) \cup {tile} /\ tile \notin T \cap DOMAIN old
    BY <1>2, <1>6
  <2>2. \A t \in T \cap DOMAIN old : old[t] = new[t]
    BY <1>2, <1>6
  <2>3. SumOf(new, T \cap DOMAIN new) = SumOf(old, T \cap DOMAIN old) + new[tile]
    BY <1>3, <1>4, <2>1, <2>2, SumOneElement
  <2> QED BY <1>2, <2>3 DEF SeenIn
<1> QED BY <1>3, <1>4, <1>5, <1>6 DEF old, new

---------------------------------------------------------------------------
(* What they still wait for. *)
LEMMA ShownIsSeen ==
  ASSUME NEW T
  PROVE  Shown(T) = SeenIn(screen.count, T)
BY DEF Shown, SeenIn, SumOf

\* A sum and one more tile that is answered.
LEMMA SeenOneMore ==
  ASSUME ScreenAt(screen), NEW T, NEW tile \in DOMAIN screen.count, tile \notin T
  PROVE  /\ SeenIn(screen.count, T) \in Nat
         /\ SeenIn(screen.count, T \cup {tile}) = SeenIn(screen.count, T) + screen.count[tile]
<1>1. screen.count \in [DOMAIN screen.count -> Nat] /\ IsFiniteSet(DOMAIN screen.count)
  BY DEF ScreenAt, Shape
<1> DEFINE S == T \cap DOMAIN screen.count
           S2 == (T \cup {tile}) \cap DOMAIN screen.count
<1>2. S2 = S \cup {tile} /\ tile \notin S
  OBVIOUS
<1>3. Summable(screen.count, S) /\ Summable(screen.count, S2)
  BY <1>1, SeenType
<1>4. SumOf(screen.count, S2) = SumOf(screen.count, S) + screen.count[tile]
  <2> HIDE DEF S, S2
  <2> QED BY <1>2, <1>3, SumOneElement
<1> QED BY <1>1, <1>4, SeenType DEF SeenIn

---------------------------------------------------------------------------
(* Tiles compared: what some of a screen have answered, and what the      *)
(* others of them would answer now.                                       *)

\* The documents that the tiles of T not answered yet would count now.
Waiting(T) == UNION {Counted(screen.name, t) : t \in T \ DOMAIN screen.count}

Seen(T) == SeenIn(screen.count, T)

\* A whole that is answered is no less than its parts add up to; one that is not will
\* count what the parts have answered besides what they wait for.
NoMoreThan(S, u) ==
  /\ u \in DOMAIN screen.count =>
       Seen(S) + Cardinality(Waiting(S)) <= screen.count[u] + Skew
  /\ u \notin DOMAIN screen.count =>
       Seen(S) <= Cardinality(Counted(screen.name, u) \ Waiting(S)) + Skew

\* And no more than the tiles that together count all it does.
NoLessThan(s, U) ==
  /\ s \in DOMAIN screen.count =>
       screen.count[s] <= Seen(U) + Cardinality(Waiting(U)) + Skew
  /\ s \notin DOMAIN screen.count =>
       Cardinality(Counted(screen.name, s) \ Waiting(U)) <= Seen(U) + Skew

\* No document is in two of the parts, all of them are in the whole.
PartOf(S, u) ==
  /\ u \notin S
  /\ \A t \in S : Counted(screen.name, t) \subseteq Counted(screen.name, u)
  /\ \A t, v \in S : t # v => Counted(screen.name, t) \cap Counted(screen.name, v) = {}

CoveredBy(s, U) ==
  /\ s \notin U
  /\ Counted(screen.name, s) \subseteq UNION {Counted(screen.name, t) : t \in U}

LEMMA WaitingFinite ==
  ASSUME ScreenAt(screen), NEW T
  PROVE  IsFiniteSet(Waiting(T)) /\ Cardinality(Waiting(T)) \in Nat
<1>1. IsFiniteSet(Orders \cup Rfqs)
  BY ReadModelsAssumption, FS_Union DEF ReadModelsAssumption
<1>2. \A t : Counted(screen.name, t) \subseteq Orders \cup Rfqs
  BY CountedFinite DEF ScreenAt, Shape
<1>3. Waiting(T) \subseteq Orders \cup Rfqs
  BY <1>2 DEF Waiting
<1> QED BY <1>1, <1>3, FS_Subset, FS_CardinalityType

LEMMA SkewType ==
  ASSUME changes \in Nat, created \in Nat
  PROVE  Skew \in Nat
BY DEF Skew

\* A tile is answered: what is waited for is less by what it counts.
LEMMA WaitingAnswered ==
  ASSUME ScreenAt(screen), NEW tile, tile \notin DOMAIN screen.count, NEW n \in Nat,
         screen'.name = screen.name, screen'.count = Answer(tile, n), UNCHANGED <<orders, rfqs>>,
         NEW T
  PROVE  /\ \A t : Counted(screen.name, t)' = Counted(screen.name, t)
         /\ tile \in T => Waiting(T) = Counted(screen.name, tile) \cup Waiting(T)'
         /\ tile \notin T => Waiting(T)' = Waiting(T)
<1>1. \A t : Counted(screen.name, t)' = Counted(screen.name, t)
  BY CountedSame
<1>2. DOMAIN screen'.count = DOMAIN screen.count \cup {tile}
  BY AnswerType
<1>3. tile \in T => T \ DOMAIN screen.count = (T \ DOMAIN screen'.count) \cup {tile}
  BY <1>2
<1>4. tile \notin T => T \ DOMAIN screen.count = T \ DOMAIN screen'.count
  BY <1>2
<1> QED BY <1>1, <1>3, <1>4 DEF Waiting

---------------------------------------------------------------------------
\* The steps after which a comparison has to hold again: a tile is answered, ...
TileStep(tile) ==
  /\ tile \notin DOMAIN screen.count
  /\ screen'.name = screen.name /\ UNCHANGED <<orders, rfqs, changes, created>>
  /\ screen'.count = Answer(tile, Cardinality(Counted(screen.name, tile)))

LEMMA PartsAnswered ==
  ASSUME ScreenAt(screen), changes \in Nat, created \in Nat, NEW tile, TileStep(tile),
         NEW S, NEW u, PartOf(S, u), NoMoreThan(S, u)
  PROVE  NoMoreThan(S, u)'
<1> DEFINE n == Cardinality(Counted(screen.name, tile))
           c == Counted(screen.name, tile)
           all == Counted(screen.name, u)
           w == Waiting(S)
           w2 == Waiting(S)'
<1>1. /\ n \in Nat /\ IsFiniteSet(c) /\ IsFiniteSet(all) /\ Cardinality(all) \in Nat
  BY CountedFinite DEF ScreenAt, Shape
<1>2. IsFiniteSet(w) /\ Cardinality(w) \in Nat /\ Skew \in Nat /\ Skew' = Skew
  BY WaitingFinite, SkewType DEF TileStep, Skew
<1>3. /\ Counted(screen.name, u)' = all
      /\ tile \in S => w = c \cup w2
      /\ tile \notin S => w2 = w
  BY <1>1, WaitingAnswered DEF TileStep
<1>4. /\ Seen(S) \in Nat /\ Seen(S)' \in Nat
      /\ tile \notin S => Seen(S)' = Seen(S)
      /\ tile \in S => Seen(S)' = Seen(S) + n
  BY <1>1, SeenAnswer DEF Seen, TileStep
<1>5. /\ DOMAIN screen'.count = DOMAIN screen.count \cup {tile}
      /\ screen'.count[tile] = n
      /\ \A t \in DOMAIN screen.count : screen'.count[t] = screen.count[t]
      /\ \A t \in DOMAIN screen.count : screen.count[t] \in Nat
  <2>1. screen'.count = Answer(tile, n) /\ tile \notin DOMAIN screen.count
    BY DEF TileStep
  <2>2. screen.count \in [DOMAIN screen.count -> Nat]
    BY DEF ScreenAt, Shape
  <2> HIDE DEF n
  <2>3. DOMAIN Answer(tile, n) = DOMAIN screen.count \cup {tile} /\ Answer(tile, n)[tile] = n
    BY DEF Answer
  <2>4. \A t \in DOMAIN screen.count : t # tile => Answer(tile, n)[t] = screen.count[t]
    BY DEF Answer
  <2> QED BY <2>1, <2>2, <2>3, <2>4
<1>6. w \subseteq all
  BY DEF PartOf, Waiting
<1>7. CASE tile \in S
  <2>1. tile # u
    BY <1>7 DEF PartOf
  <2>2. c \cap w2 = {}
    <3>1. \A t \in S \ DOMAIN screen'.count : c \cap Counted(screen.name, t) = {}
      BY <1>5, <1>7 DEF PartOf
    <3>2. \A t : Counted(screen.name, t)' = Counted(screen.name, t)
      BY <1>1, WaitingAnswered DEF TileStep
    <3>3. w2 = UNION {Counted(screen.name, t) : t \in S \ DOMAIN screen'.count}
      BY <3>2 DEF Waiting
    <3> QED BY <3>1, <3>3
  <2>3. IsFiniteSet(w2) /\ Cardinality(w2) \in Nat /\ Cardinality(w) = n + Cardinality(w2)
    <3>1. IsFiniteSet(w2)
      BY <1>2, <1>3, <1>7, FS_Subset
    <3>2. w = c \cup w2
      BY <1>3, <1>7
    <3> HIDE DEF c, w, w2
    <3>3. Cardinality(w) = Cardinality(c) + Cardinality(w2) /\ Cardinality(w2) \in Nat
      BY <1>1, <2>2, <3>1, <3>2, InTwoParts
    <3> QED BY <3>1, <3>3 DEF c
  <2>4. CASE u \in DOMAIN screen.count
    <3>1. Seen(S) + Cardinality(w) <= screen.count[u] + Skew
      BY <2>4 DEF NoMoreThan
    <3>2. u \in DOMAIN screen'.count /\ screen'.count[u] = screen.count[u] /\ screen.count[u] \in Nat
      BY <1>5, <2>4
    <3> DEFINE a == Seen(S)
               a2 == Seen(S)'
               k == Cardinality(w)
               k2 == Cardinality(w2)
               m == screen.count[u]
    <3>3. a2 + k2 <= m + Skew
      <4>1. a + k <= m + Skew /\ a2 = a + n /\ k = n + k2
        BY <1>4, <1>7, <2>3, <3>1
      <4>2. a \in Nat /\ a2 \in Nat /\ k2 \in Nat
        BY <1>4, <2>3
      <4> HIDE DEF a, a2, k, k2, m, n
      <4> QED BY <1>1, <1>2, <4>1, <4>2
    <3> QED BY <1>2, <3>2, <3>3 DEF NoMoreThan
  <2>5. CASE u \notin DOMAIN screen.count
    <3>1. Seen(S) <= Cardinality(all \ w) + Skew
      BY <2>5 DEF NoMoreThan
    <3>2. u \notin DOMAIN screen'.count
      BY <1>5, <2>1, <2>5
    <3>3. all \ w2 = c \cup (all \ w) /\ c \cap (all \ w) = {}
      BY <1>3, <1>6, <1>7, <2>2
    <3>4. IsFiniteSet(all \ w)
      BY <1>1, FS_Difference
    <3>5. Cardinality(all \ w2) = n + Cardinality(all \ w) /\ Cardinality(all \ w) \in Nat
      <4> DEFINE d == all \ w
      <4> HIDE DEF d, c
      <4> QED BY <1>1, <3>3, <3>4, InTwoParts DEF d, c
    <3>6. Seen(S)' <= Cardinality(all \ w2) + Skew
      <4> DEFINE a == Seen(S)
                 a2 == Seen(S)'
                 k == Cardinality(all \ w)
                 k2 == Cardinality(all \ w2)
      <4>1. a <= k + Skew /\ a2 = a + n /\ k2 = n + k /\ k \in Nat /\ a \in Nat
        BY <1>4, <1>7, <3>1, <3>5
      <4>2. a2 <= k2 + Skew
        <5> HIDE DEF a, a2, k, k2, n
        <5> QED BY <1>1, <1>2, <4>1
      <4> QED BY <4>2
    <3> QED BY <1>2, <1>3, <3>2, <3>6 DEF NoMoreThan
  <2> QED BY <2>4, <2>5
<1>8. CASE tile \notin S /\ tile = u
  <2>1. u \notin DOMAIN screen.count /\ u \in DOMAIN screen'.count /\ screen'.count[u] = n /\ n = Cardinality(all)
    BY <1>5, <1>8 DEF TileStep
  <2>2. Seen(S) <= Cardinality(all \ w) + Skew
    BY <2>1 DEF NoMoreThan
  <2>3. Cardinality(all) = Cardinality(all \ w) + Cardinality(w) /\ Cardinality(all \ w) \in Nat
    <3>1. IsFiniteSet(all \ w) /\ (all \ w) \cap w = {} /\ all = (all \ w) \cup w
      BY <1>1, <1>6, FS_Difference
    <3> DEFINE d == all \ w
    <3> HIDE DEF d, w, all
    <3> QED BY <1>2, <3>1, InTwoParts DEF d
  <2>4. Seen(S)' + Cardinality(w2) <= screen'.count[u] + Skew
    <3> DEFINE a == Seen(S)
               k == Cardinality(all \ w)
               m == Cardinality(w)
    <3>1. a <= k + Skew /\ n = k + m /\ a \in Nat /\ k \in Nat /\ m \in Nat
      BY <1>2, <1>4, <2>1, <2>2, <2>3
    <3>2. a + m <= n + Skew
      <4> HIDE DEF a, k, m, n
      <4> QED BY <1>2, <3>1
    <3> QED BY <1>3, <1>4, <1>8, <2>1, <3>2
  <2> QED BY <1>2, <2>1, <2>4 DEF NoMoreThan
<1>9. CASE tile \notin S /\ tile # u
  <2>1. Seen(S)' = Seen(S) /\ w2 = w
    BY <1>3, <1>4, <1>9
  <2>2. u \in DOMAIN screen'.count <=> u \in DOMAIN screen.count
    BY <1>5, <1>9
  <2> QED BY <1>2, <1>3, <1>5, <2>1, <2>2 DEF NoMoreThan
<1> QED BY <1>7, <1>8, <1>9

LEMMA CoverAnswered ==
  ASSUME ScreenAt(screen), changes \in Nat, created \in Nat, NEW tile, TileStep(tile),
         NEW s, NEW U, CoveredBy(s, U), NoLessThan(s, U)
  PROVE  NoLessThan(s, U)'
<1> DEFINE n == Cardinality(Counted(screen.name, tile))
           c == Counted(screen.name, tile)
           all == Counted(screen.name, s)
           w == Waiting(U)
           w2 == Waiting(U)'
<1>1. /\ n \in Nat /\ IsFiniteSet(c) /\ IsFiniteSet(all) /\ Cardinality(all) \in Nat
  BY CountedFinite DEF ScreenAt, Shape
<1>2. IsFiniteSet(w) /\ Cardinality(w) \in Nat /\ Skew \in Nat /\ Skew' = Skew
  BY WaitingFinite, SkewType DEF TileStep, Skew
<1>3. /\ Counted(screen.name, s)' = all
      /\ tile \in U => w = c \cup w2
      /\ tile \notin U => w2 = w
  BY <1>1, WaitingAnswered DEF TileStep
<1>4. /\ Seen(U) \in Nat /\ Seen(U)' \in Nat
      /\ tile \notin U => Seen(U)' = Seen(U)
      /\ tile \in U => Seen(U)' = Seen(U) + n
  BY <1>1, SeenAnswer DEF Seen, TileStep
<1>5. /\ DOMAIN screen'.count = DOMAIN screen.count \cup {tile}
      /\ screen'.count[tile] = n
      /\ \A t \in DOMAIN screen.count : screen'.count[t] = screen.count[t]
      /\ \A t \in DOMAIN screen.count : screen.count[t] \in Nat
  <2>1. screen'.count = Answer(tile, n) /\ tile \notin DOMAIN screen.count
    BY DEF TileStep
  <2>2. screen.count \in [DOMAIN screen.count -> Nat]
    BY DEF ScreenAt, Shape
  <2> HIDE DEF n
  <2>3. DOMAIN Answer(tile, n) = DOMAIN screen.count \cup {tile} /\ Answer(tile, n)[tile] = n
    BY DEF Answer
  <2>4. \A t \in DOMAIN screen.count : t # tile => Answer(tile, n)[t] = screen.count[t]
    BY DEF Answer
  <2> QED BY <2>1, <2>2, <2>3, <2>4
<1>6. CASE tile \in U
  <2>1. tile # s
    BY <1>6 DEF CoveredBy
  <2>2. w = c \cup w2 /\ IsFiniteSet(w2)
    BY <1>2, <1>3, <1>6, FS_Subset
  <2>3. CASE s \in DOMAIN screen.count
    <3>1. screen.count[s] <= Seen(U) + Cardinality(w) + Skew
      BY <2>3 DEF NoLessThan
    <3>2. s \in DOMAIN screen'.count /\ screen'.count[s] = screen.count[s] /\ screen.count[s] \in Nat
      BY <1>5, <2>3
    <3>3. Cardinality(w) <= n + Cardinality(w2) /\ Cardinality(w2) \in Nat
      <4> HIDE DEF c, w, w2
      <4> QED BY <1>1, <2>2, NoMoreThanBoth DEF c
    <3> DEFINE a == Seen(U)
               a2 == Seen(U)'
               k == Cardinality(w)
               k2 == Cardinality(w2)
               m == screen.count[s]
    <3>4. m <= a2 + k2 + Skew
      <4>1. m <= a + k + Skew /\ a2 = a + n /\ k <= n + k2
        BY <1>4, <1>6, <3>1, <3>3
      <4>2. a \in Nat /\ k \in Nat /\ k2 \in Nat /\ m \in Nat
        BY <1>2, <1>4, <3>2, <3>3
      <4> HIDE DEF a, a2, k, k2, m, n
      <4> QED BY <1>1, <1>2, <4>1, <4>2
    <3> QED BY <1>2, <3>2, <3>4 DEF NoLessThan
  <2>4. CASE s \notin DOMAIN screen.count
    <3>1. Cardinality(all \ w) <= Seen(U) + Skew
      BY <2>4 DEF NoLessThan
    <3>2. s \notin DOMAIN screen'.count
      BY <1>5, <2>1, <2>4
    <3>3. all \ w2 \subseteq c \cup (all \ w) /\ IsFiniteSet(all \ w)
      BY <1>1, <2>2, FS_Difference
    <3>4. /\ IsFiniteSet(c \cup (all \ w)) /\ Cardinality(c \cup (all \ w)) \in Nat
          /\ Cardinality(all \ w) \in Nat
          /\ Cardinality(c \cup (all \ w)) <= n + Cardinality(all \ w)
      <4> DEFINE d == all \ w
      <4> HIDE DEF d, c
      <4> QED BY <1>1, <3>3, NoMoreThanBoth DEF d, c
    <3>5. Cardinality(all \ w2) \in Nat /\ Cardinality(all \ w2) <= Cardinality(c \cup (all \ w))
      <4> DEFINE d == c \cup (all \ w)
                 e == all \ w2
      <4>1. e \subseteq d /\ IsFiniteSet(d)
        BY <3>3, <3>4
      <4> HIDE DEF d, e
      <4>2. IsFiniteSet(e) /\ Cardinality(e) <= Cardinality(d)
        BY <4>1, FS_Subset
      <4>3. Cardinality(e) \in Nat
        BY <4>2, FS_CardinalityType
      <4> QED BY <4>2, <4>3 DEF d, e
    <3>6. Cardinality(all \ w2) <= Seen(U)' + Skew
      <4> DEFINE a == Seen(U)
                 a2 == Seen(U)'
                 k == Cardinality(all \ w)
                 k2 == Cardinality(all \ w2)
                 b == Cardinality(c \cup (all \ w))
      <4>1. k <= a + Skew /\ a2 = a + n /\ b <= n + k /\ k2 <= b
        BY <1>4, <1>6, <3>1, <3>4, <3>5
      <4>2. k \in Nat /\ k2 \in Nat /\ a \in Nat /\ b \in Nat
        BY <1>4, <3>4, <3>5
      <4>3. k2 <= a2 + Skew
        <5> HIDE DEF a, a2, k, k2, n, b
        <5> QED BY <1>1, <1>2, <4>1, <4>2
      <4> QED BY <4>3
    <3> QED BY <1>2, <1>3, <3>2, <3>6 DEF NoLessThan
  <2> QED BY <2>3, <2>4
<1>7. CASE tile \notin U /\ tile = s
  <2>1. s \notin DOMAIN screen.count /\ s \in DOMAIN screen'.count /\ screen'.count[s] = n /\ n = Cardinality(all)
    BY <1>5, <1>7 DEF TileStep
  <2>2. Cardinality(all \ w) <= Seen(U) + Skew
    BY <2>1 DEF NoLessThan
  <2>3. Cardinality(all) <= Cardinality(all \ w) + Cardinality(w) /\ Cardinality(all \ w) \in Nat
    <3>1. IsFiniteSet(all \ w) /\ all \subseteq (all \ w) \cup w
      BY <1>1, FS_Difference
    <3> DEFINE d == all \ w
    <3> HIDE DEF d, w, all
    <3>2. /\ Cardinality(d) \in Nat /\ IsFiniteSet(d \cup w) /\ Cardinality(d \cup w) \in Nat
          /\ Cardinality(d \cup w) <= Cardinality(d) + Cardinality(w)
      BY <1>2, <3>1, NoMoreThanBoth DEF d
    <3>3. Cardinality(all) <= Cardinality(d \cup w)
      BY <3>1, <3>2, FS_Subset DEF d
    <3> QED BY <1>1, <1>2, <3>2, <3>3 DEF d
  <2>4. screen'.count[s] <= Seen(U)' + Cardinality(w2) + Skew
    <3> DEFINE a == Seen(U)
               k == Cardinality(all \ w)
               m == Cardinality(w)
    <3>1. k <= a + Skew /\ n <= k + m /\ a \in Nat /\ k \in Nat /\ m \in Nat
      BY <1>2, <1>4, <2>1, <2>2, <2>3
    <3>2. n <= a + m + Skew
      <4> HIDE DEF a, k, m, n
      <4> QED BY <1>1, <1>2, <3>1
    <3> QED BY <1>3, <1>4, <1>7, <2>1, <3>2
  <2> QED BY <1>2, <2>1, <2>4 DEF NoLessThan
<1>8. CASE tile \notin U /\ tile # s
  <2>1. Seen(U)' = Seen(U) /\ w2 = w
    BY <1>3, <1>4, <1>8
  <2>2. s \in DOMAIN screen'.count <=> s \in DOMAIN screen.count
    BY <1>5, <1>8
  <2> QED BY <1>2, <1>3, <1>5, <2>1, <2>2 DEF NoLessThan
<1> QED BY <1>6, <1>7, <1>8

---------------------------------------------------------------------------
\* ... one document changes, or a new one comes in, ...
DocumentStep(x) ==
  /\ \A o \in Orders : o # x => orders'[o] = orders[o]
  /\ \A q \in Rfqs : q # x => rfqs'[q] = rfqs[q]
  /\ Skew' = Skew + 1
  /\ screen'.name = screen.name /\ screen'.count = screen.count

\* ... or nothing that is counted changes.
IdleStep ==
  /\ UNCHANGED <<orders, rfqs, changes, created>>
  /\ screen'.name = screen.name /\ screen'.count = screen.count

LEMMA IdleKeeps ==
  ASSUME ScreenAt(screen), IdleStep
  PROVE  /\ \A S, u : NoMoreThan(S, u) => NoMoreThan(S, u)'
         /\ \A s, U : NoLessThan(s, U) => NoLessThan(s, U)'
<1>1. \A t : Counted(screen.name, t)' = Counted(screen.name, t)
  BY CountedSame DEF IdleStep
<1>2. Skew' = Skew /\ screen'.count = screen.count
  BY DEF IdleStep, Skew
<1>3. \A T : Waiting(T)' = Waiting(T)
  BY <1>1, <1>2 DEF Waiting
<1>4. \A T : Seen(T)' = Seen(T)
  BY <1>2 DEF Seen, SeenIn
<1> QED BY <1>1, <1>2, <1>3, <1>4 DEF NoMoreThan, NoLessThan

LEMMA DocumentKeeps ==
  ASSUME ScreenAt(screen), changes \in Nat, created \in Nat, NEW x, DocumentStep(x)
  PROVE  /\ \A S, u : NoMoreThan(S, u) => NoMoreThan(S, u)'
         /\ \A s, U : NoLessThan(s, U) => NoLessThan(s, U)'
<1>1. \A t, o : o # x => (o \in Counted(screen.name, t)' <=> o \in Counted(screen.name, t))
  <2>1. /\ \A o \in Orders : o # x => orders'[o] = orders[o]
        /\ \A q \in Rfqs : q # x => rfqs'[q] = rfqs[q]
        /\ screen'.name = screen.name
    BY DEF DocumentStep
  <2>2. screen.name \in Names
    BY DEF ScreenAt, Shape
  <2>3. ASSUME NEW t, NEW o, o # x PROVE o \in Counted(screen.name, t)' <=> o \in Counted(screen.name, t)
    BY <2>1, <2>2, <2>3, OthersCounted
  <2> QED BY <2>3
<1>2. Skew' = Skew + 1 /\ screen'.count = screen.count /\ Skew \in Nat
  BY SkewType DEF DocumentStep
<1>3. \A T, o : o # x => (o \in Waiting(T)' <=> o \in Waiting(T))
  BY <1>1, <1>2 DEF Waiting
<1>4. \A T : Seen(T)' = Seen(T) /\ Seen(T) \in Nat
  BY <1>2, SeenType DEF Seen, SeenIn, ScreenAt, Shape
<1>5. \A t \in DOMAIN screen.count : screen.count[t] \in Nat
  BY DEF ScreenAt, Shape
<1>6. ASSUME NEW T
      PROVE  /\ Cardinality(Waiting(T)) \in Nat /\ Cardinality(Waiting(T)') \in Nat
             /\ Cardinality(Waiting(T)') <= Cardinality(Waiting(T)) + 1
             /\ Cardinality(Waiting(T)) <= Cardinality(Waiting(T)') + 1
  <2>1. Waiting(T) \ {x} = Waiting(T)' \ {x}
    BY <1>3
  <2>2. IsFiniteSet(Waiting(T))
    BY WaitingFinite
  <2> QED BY <2>1, <2>2, OneMoved
<1>7. ASSUME NEW t, NEW T
      PROVE  LET rest == Counted(screen.name, t) \ Waiting(T) IN
             /\ Cardinality(rest) \in Nat /\ Cardinality(rest') \in Nat
             /\ Cardinality(rest') <= Cardinality(rest) + 1
             /\ Cardinality(rest) <= Cardinality(rest') + 1
  <2> DEFINE rest == Counted(screen.name, t) \ Waiting(T)
  <2>1. rest \ {x} = rest' \ {x}
    BY <1>1, <1>3
  <2>2. IsFiniteSet(rest)
    BY CountedFinite, FS_Difference DEF ScreenAt, Shape
  <2> HIDE DEF rest
  <2>3. /\ Cardinality(rest) \in Nat /\ Cardinality(rest') \in Nat
        /\ Cardinality(rest') <= Cardinality(rest) + 1
        /\ Cardinality(rest) <= Cardinality(rest') + 1
    BY <2>1, <2>2, OneMoved
  <2> QED BY <2>3 DEF rest
<1>8. ASSUME NEW S, NEW u, NoMoreThan(S, u) PROVE NoMoreThan(S, u)'
  <2> DEFINE a == Seen(S)
             w == Cardinality(Waiting(S))
             w2 == Cardinality(Waiting(S)')
             r == Cardinality(Counted(screen.name, u) \ Waiting(S))
             r2 == Cardinality((Counted(screen.name, u) \ Waiting(S))')
             k == screen.count[u]
  <2>1. a \in Nat /\ w \in Nat /\ w2 \in Nat /\ r \in Nat /\ r2 \in Nat /\ w2 <= w + 1 /\ r <= r2 + 1
    BY <1>4, <1>6, <1>7
  <2>2. u \in DOMAIN screen.count => a + w2 <= k + (Skew + 1)
    <3> SUFFICES ASSUME u \in DOMAIN screen.count PROVE a + w2 <= k + (Skew + 1)
      OBVIOUS
    <3>1. a + w <= k + Skew /\ k \in Nat
      BY <1>5, <1>8 DEF NoMoreThan
    <3> HIDE DEF a, w, w2, r, r2, k
    <3> QED BY <1>2, <2>1, <3>1
  <2>3. u \notin DOMAIN screen.count => a <= r2 + (Skew + 1)
    <3> SUFFICES ASSUME u \notin DOMAIN screen.count PROVE a <= r2 + (Skew + 1)
      OBVIOUS
    <3>1. a <= r + Skew
      BY <1>8 DEF NoMoreThan
    <3> HIDE DEF a, w, w2, r, r2, k
    <3> QED BY <1>2, <2>1, <3>1
  <2> QED BY <1>2, <1>4, <2>2, <2>3 DEF NoMoreThan
<1>9. ASSUME NEW s, NEW U, NoLessThan(s, U) PROVE NoLessThan(s, U)'
  <2> DEFINE a == Seen(U)
             w == Cardinality(Waiting(U))
             w2 == Cardinality(Waiting(U)')
             r == Cardinality(Counted(screen.name, s) \ Waiting(U))
             r2 == Cardinality((Counted(screen.name, s) \ Waiting(U))')
             k == screen.count[s]
  <2>1. a \in Nat /\ w \in Nat /\ w2 \in Nat /\ r \in Nat /\ r2 \in Nat /\ w <= w2 + 1 /\ r2 <= r + 1
    BY <1>4, <1>6, <1>7
  <2>2. s \in DOMAIN screen.count => k <= a + w2 + (Skew + 1)
    <3> SUFFICES ASSUME s \in DOMAIN screen.count PROVE k <= a + w2 + (Skew + 1)
      OBVIOUS
    <3>1. k <= a + w + Skew /\ k \in Nat
      BY <1>5, <1>9 DEF NoLessThan
    <3> HIDE DEF a, w, w2, r, r2, k
    <3> QED BY <1>2, <2>1, <3>1
  <2>3. s \notin DOMAIN screen.count => r2 <= a + (Skew + 1)
    <3> SUFFICES ASSUME s \notin DOMAIN screen.count PROVE r2 <= a + (Skew + 1)
      OBVIOUS
    <3>1. r <= a + Skew
      BY <1>9 DEF NoLessThan
    <3> HIDE DEF a, w, w2, r, r2, k
    <3> QED BY <1>2, <2>1, <3>1
  <2> QED BY <1>2, <1>4, <2>2, <2>3 DEF NoLessThan
<1> QED BY <1>8, <1>9

\* A screen is opened: nothing is answered yet.
LEMMA ComparedAtFirst ==
  ASSUME ScreenAt(screen), screen.count = NoAnswer, changes \in Nat, created \in Nat
  PROVE  /\ \A S, u : NoMoreThan(S, u)
         /\ \A s, U : CoveredBy(s, U) => NoLessThan(s, U)
<1>1. DOMAIN screen.count = {}
  BY DEF NoAnswer
<1>2. Skew \in Nat
  BY SkewType
<1>3. \A T : Seen(T) = 0
  <2> SUFFICES ASSUME NEW T PROVE Seen(T) = 0
    OBVIOUS
  <2>1. T \cap DOMAIN screen.count = {}
    BY <1>1
  <2> QED BY <2>1, SumOfNone DEF Seen, SeenIn
<1>4. ASSUME NEW S, NEW u PROVE NoMoreThan(S, u)
  <2>1. Cardinality(Counted(screen.name, u) \ Waiting(S)) \in Nat
    BY CountedFinite, FS_Difference, FS_CardinalityType DEF ScreenAt, Shape
  <2> DEFINE r == Cardinality(Counted(screen.name, u) \ Waiting(S))
  <2>2. 0 <= r + Skew
    <3> HIDE DEF r
    <3> QED BY <1>2, <2>1 DEF r
  <2> QED BY <1>1, <1>3, <2>2 DEF NoMoreThan
<1>5. ASSUME NEW s, NEW U, CoveredBy(s, U) PROVE NoLessThan(s, U)
  <2>1. Counted(screen.name, s) \ Waiting(U) = {}
    BY <1>1, <1>5 DEF CoveredBy, Waiting
  <2>2. Cardinality(Counted(screen.name, s) \ Waiting(U)) = 0
    BY <2>1, FS_EmptySet
  <2>3. 0 <= 0 + Skew
    BY <1>2
  <2> QED BY <1>1, <1>3, <2>2, <2>3 DEF NoLessThan
<1> QED BY <1>4, <1>5

---------------------------------------------------------------------------
(* Which tiles are compared, screen by screen.                            *)

PickingTiles == {"pendingPicking", "partiallyPicked"}

\* The tiles of S count parts of what u counts.
Parts(name, S, u) ==
  \/ name = "group" /\ S = PipelineStates \cup {"DELIVERED"} /\ u = "totalOrders"
  \/ name = "store" /\ S = DOMAIN StoreStates /\ u = "totalOrders"
  \/ name = "store" /\ S = {"todayOrders"} /\ u = "weekOrders"
  \/ name = "store" /\ S = {"weekOrders"} /\ u = "totalOrders"
  \/ name = "partscheck" /\ S = Quoted \cup Unquoted /\ u = "totalRfqs"
  \/ name = "inbox" /\ S = {"totalOpen", "AUTO_QUOTED"} /\ u = "total"
  \/ name = "inbox" /\ S = Unquoted /\ u = "totalOpen"
  \/ name = "inbox" /\ S = {"expired"} /\ u = "totalOpen"
  \/ name = "queue" /\ S = PickingTiles /\ u = "totalQueued"

\* The tiles of U count all that s counts.
Covers(name, s, U) ==
  \/ name = "group" /\ s = "totalOrders" /\ U = PipelineStates \cup {"DELIVERED", "activeExceptions"}
  \/ name = "store" /\ s = "totalOrders" /\ U = DOMAIN StoreStates \cup {"activeExceptions"}
  \/ name = "partscheck" /\ s = "totalRfqs" /\ U = Quoted \cup Unquoted
  \/ name = "partscheck" /\ s = "expired" /\ U = Unquoted
  \/ name = "inbox" /\ s = "totalOpen" /\ U = Unquoted

TilesKept ==
  /\ \A S, u : Parts(screen.name, S, u) => NoMoreThan(S, u)
  /\ \A s, U : Covers(screen.name, s, U) => NoLessThan(s, U)

\* Orders are numbered by age.
ByAge == \E n \in Nat : n <= Cardinality(Orders) /\ Stored = 1 .. n

\* The stored documents, and the count of what requests did to them.
Documents ==
  /\ orders \in [Orders -> Order \cup {NoOrder}]
  /\ rfqs \in [Rfqs -> Rfq \cup {NoRfq}]
  /\ changes \in Nat /\ created \in Nat /\ changes + created <= MaxChanges
  /\ ByAge

\* What states a stored document is in.
LEMMA StatesAre ==
  ASSUME Documents
  PROVE  /\ \A o \in Stored : orders[o].state \in PipelineStates \cup {"DELIVERED", "EXCEPTION", "CANCELLED"}
         /\ \A o \in Orders : o \notin Stored => orders[o].state = "none"
         /\ \A q \in StoredRfqs : rfqs[q].status \in Quoted \cup Unquoted
         /\ \A q \in Rfqs : q \notin StoredRfqs => rfqs[q].status = "none"
<1>1. \A o \in Stored : orders[o] \in Order
  BY DEF Documents, Stored
<1>2. \A q \in StoredRfqs : rfqs[q] \in Rfq
  BY DEF Documents, StoredRfqs
<1>3. \A o \in Stored : orders[o].state \in OrderStates
  BY <1>1 DEF Order
<1>4. \A q \in StoredRfqs : rfqs[q].status \in RfqStates
  BY <1>2 DEF Rfq
<1>5. RfqStates \subseteq Quoted \cup Unquoted
  BY ReadModelsAssumption DEF ReadModelsAssumption, ReceivedStatus, Quoted, Unquoted
<1>6. OrderStates \subseteq PipelineStates \cup {"DELIVERED", "EXCEPTION", "CANCELLED"}
  BY ReadModelsAssumption DEF ReadModelsAssumption
<1>7. \A o \in Orders : o \notin Stored => orders[o].state = "none"
  BY DEF Stored, NoOrder
<1>8. \A q \in Rfqs : q \notin StoredRfqs => rfqs[q].status = "none"
  BY DEF StoredRfqs, NoRfq
<1> QED BY <1>3, <1>4, <1>5, <1>6, <1>7, <1>8

\* Orders by their states.
LEMMA OrdersByState ==
  ASSUME Documents
  PROVE  /\ \A states : states \subseteq PipelineStates \cup {"DELIVERED"} => OrdersIn(states) \subseteq NotCancelled
         /\ \A s1, s2 : s1 \cap s2 = {} => OrdersIn(s1) \cap OrdersIn(s2) = {}
         /\ \A o \in NotCancelled : orders[o].state \in PipelineStates \cup {"DELIVERED"} \/ o \in Exceptional
<1>1. \A o \in Orders : o \notin Stored => orders[o].state = "none"
  BY StatesAre
<1>2. Stored \subseteq Orders
  BY DEF Stored
<1>3. \A states : states \subseteq PipelineStates \cup {"DELIVERED"} =>
         "none" \notin states /\ "CANCELLED" \notin states
  BY DEF PipelineStates
<1>4. \A states : states \subseteq PipelineStates \cup {"DELIVERED"} => OrdersIn(states) \subseteq NotCancelled
  BY <1>1, <1>3 DEF OrdersIn, NotCancelled
<1>5. \A o \in NotCancelled : orders[o].state \in PipelineStates \cup {"DELIVERED"} \/ o \in Exceptional
  BY <1>2, StatesAre DEF NotCancelled, OrdersIn, Exceptional
<1> QED BY <1>4, <1>5 DEF OrdersIn

\* The tiles of the screens are parts of others as TilesAddUp says.
LEMMA PartsFit ==
  ASSUME Documents, NEW S, NEW u, Parts(screen.name, S, u)
  PROVE  PartOf(S, u)
<1>1. CASE screen.name = "group" /\ S = PipelineStates \cup {"DELIVERED"} /\ u = "totalOrders"
  <2>1. "totalOrders" \notin S /\ "activeExceptions" \notin S
    BY <1>1 DEF PipelineStates
  <2>2. \A t \in S : Counted(screen.name, t) = OrdersIn({t})
    BY <1>1, <2>1, CountedBy, GroupTileIs
  <2>3. Counted(screen.name, u) = NotCancelled
    BY <1>1, CountedBy, GroupTileIs
  <2>4. \A t \in S : OrdersIn({t}) \subseteq NotCancelled
    BY <1>1, OrdersByState
  <2>5. \A t, v \in S : t # v => OrdersIn({t}) \cap OrdersIn({v}) = {}
    BY DEF OrdersIn
  <2> QED BY <1>1, <2>1, <2>2, <2>3, <2>4, <2>5 DEF PartOf
<1>2. CASE screen.name = "store" /\ S = DOMAIN StoreStates /\ u = "totalOrders"
  <2>1. u \notin S /\ \A t \in S : t \notin StoreTotals
    BY <1>2 DEF StoreStates, StoreTotals
  <2>2. \A t \in S : Counted(screen.name, t) = AtHome(OrdersIn(StoreStates[t]))
    BY <1>2, <2>1, CountedBy, StoreTileIs
  <2>3. Counted(screen.name, u) = AtHome(NotCancelled)
    BY <1>2, CountedBy, StoreTileIs
  <2>4. \A t \in S : StoreStates[t] \subseteq PipelineStates \cup {"DELIVERED"}
    BY <1>2 DEF StoreStates, PipelineStates
  <2>5. \A t, v \in S : t # v => StoreStates[t] \cap StoreStates[v] = {}
    BY <1>2 DEF StoreStates
  <2>6. \A t \in S : AtHome(OrdersIn(StoreStates[t])) \subseteq AtHome(NotCancelled)
    BY <2>4, OrdersByState DEF AtHome
  <2>7. \A t, v \in S : t # v => OrdersIn(StoreStates[t]) \cap OrdersIn(StoreStates[v]) = {}
    BY <2>5, OrdersByState
  <2>8. \A t, v \in S : t # v => AtHome(OrdersIn(StoreStates[t])) \cap AtHome(OrdersIn(StoreStates[v])) = {}
    BY <2>7 DEF AtHome
  <2> QED BY <2>1, <2>2, <2>3, <2>6, <2>8 DEF PartOf
<1>3. CASE screen.name = "store" /\ S = {"todayOrders"} /\ u = "weekOrders"
  <2>1. \A o \in Orders : o \in Nat
    BY ReadModelsAssumption, FS_CardinalityType DEF ReadModelsAssumption
  <2>2. FirstThisWeek \in Nat /\ FirstToday \in Nat /\ FirstThisWeek <= FirstToday
    BY ReadModelsAssumption, FS_CardinalityType DEF ReadModelsAssumption
  <2>3. NotCancelled \subseteq Orders
    BY DEF NotCancelled, Stored
  <2>4. Since(FirstToday) \subseteq Since(FirstThisWeek)
    BY <2>1, <2>2, <2>3 DEF Since
  <2>5. AtHome(Since(FirstToday)) \subseteq AtHome(Since(FirstThisWeek))
    BY <2>4 DEF AtHome
  <2> QED BY <1>3, <2>5, CountedBy, StoreTileIs DEF PartOf
<1>4. CASE screen.name = "store" /\ S = {"weekOrders"} /\ u = "totalOrders"
  <2>1. AtHome(Since(FirstThisWeek)) \subseteq AtHome(NotCancelled)
    BY DEF AtHome, Since
  <2> QED BY <1>4, <2>1, CountedBy, StoreTileIs DEF PartOf
<1>5. CASE screen.name = "partscheck" /\ S = Quoted \cup Unquoted /\ u = "totalRfqs"
  <2>1. \A t \in S : t \notin {"totalRfqs", "total", "totalOpen", "expired", "none"}
    BY <1>5 DEF Quoted, Unquoted
  <2>2. \A t \in S : Counted(screen.name, t) = RfqsIn({t})
    BY <1>5, <2>1, CountedBy, RfqTileIs
  <2>3. Counted(screen.name, u) = StoredRfqs
    BY <1>5, CountedBy, RfqTileIs
  <2>4. \A t \in S : RfqsIn({t}) \subseteq StoredRfqs
    BY <2>1, StatesAre DEF RfqsIn
  <2> QED BY <1>5, <2>1, <2>2, <2>3, <2>4 DEF PartOf, RfqsIn
<1>6. CASE screen.name = "inbox" /\ S = {"totalOpen", "AUTO_QUOTED"} /\ u = "total"
  <2>1. /\ Counted(screen.name, "totalOpen") = RfqsIn(OpenStatus)
        /\ Counted(screen.name, "AUTO_QUOTED") = RfqsIn({"AUTO_QUOTED"})
        /\ Counted(screen.name, u) = StoredRfqs
    BY <1>6, CountedBy, RfqTileIs
  <2>2. RfqsIn(OpenStatus) \subseteq StoredRfqs /\ RfqsIn({"AUTO_QUOTED"}) \subseteq StoredRfqs
    BY StatesAre DEF RfqsIn, OpenStatus
  <2>3. RfqsIn(OpenStatus) \cap RfqsIn({"AUTO_QUOTED"}) = {}
    BY DEF RfqsIn, OpenStatus
  <2> QED BY <1>6, <2>1, <2>2, <2>3 DEF PartOf
<1>7. CASE screen.name = "inbox" /\ S = Unquoted /\ u = "totalOpen"
  <2>1. \A t \in S : t \notin {"totalRfqs", "total", "totalOpen", "expired"} /\ t \in OpenStatus
    BY <1>7 DEF Unquoted, OpenStatus
  <2>2. \A t \in S : Counted(screen.name, t) = RfqsIn({t})
    BY <1>7, <2>1, CountedBy, RfqTileIs
  <2>3. Counted(screen.name, u) = RfqsIn(OpenStatus)
    BY <1>7, CountedBy, RfqTileIs
  <2> QED BY <1>7, <2>1, <2>2, <2>3 DEF PartOf, RfqsIn
<1>8. CASE screen.name = "inbox" /\ S = {"expired"} /\ u = "totalOpen"
  <2>1. Counted(screen.name, "expired") = Expired /\ Counted(screen.name, u) = RfqsIn(OpenStatus)
    BY <1>8, CountedBy, RfqTileIs
  <2>2. Expired \subseteq RfqsIn(OpenStatus)
    BY StatesAre DEF Expired, RfqsIn, OpenStatus, Quoted, Unquoted, StoredRfqs
  <2> QED BY <1>8, <2>1, <2>2 DEF PartOf
<1>9. CASE screen.name = "queue" /\ S = PickingTiles /\ u = "totalQueued"
  <2>1. \A t \in S : t \notin {"totalQueued", "total", "exceptionsCount"} /\ t \in DOMAIN StoreStates
    BY <1>9 DEF PickingTiles, StoreStates
  <2>2. \A t \in S : Counted(screen.name, t) = AtHome(OrdersIn(StoreStates[t]))
    BY <1>9, <2>1, CountedBy, QueueTileIs
  <2>3. Counted(screen.name, u) = AtHome(OrdersIn(QueueStates))
    BY <1>9, CountedBy, QueueTileIs
  <2>4. \A t \in S : StoreStates[t] \subseteq QueueStates
    BY <1>9 DEF PickingTiles, StoreStates, QueueStates
  <2>5. \A t, v \in S : t # v => StoreStates[t] \cap StoreStates[v] = {}
    BY <1>9 DEF PickingTiles, StoreStates
  <2>6. \A t \in S : AtHome(OrdersIn(StoreStates[t])) \subseteq AtHome(OrdersIn(QueueStates))
    BY <2>4 DEF AtHome, OrdersIn
  <2>7. \A t, v \in S : t # v => OrdersIn(StoreStates[t]) \cap OrdersIn(StoreStates[v]) = {}
    BY <2>5, OrdersByState
  <2>8. \A t, v \in S : t # v => AtHome(OrdersIn(StoreStates[t])) \cap AtHome(OrdersIn(StoreStates[v])) = {}
    BY <2>7 DEF AtHome
  <2> QED BY <1>9, <2>1, <2>2, <2>3, <2>6, <2>8 DEF PartOf
<1> QED BY <1>1, <1>2, <1>3, <1>4, <1>5, <1>6, <1>7, <1>8, <1>9 DEF Parts

LEMMA CoversFit ==
  ASSUME Documents, NEW s, NEW U, Covers(screen.name, s, U)
  PROVE  CoveredBy(s, U)
<1>1. CASE screen.name = "group" /\ s = "totalOrders" /\ U = PipelineStates \cup {"DELIVERED", "activeExceptions"}
  <2>1. "totalOrders" \notin U
    BY <1>1 DEF PipelineStates
  <2>2. Counted(screen.name, s) = NotCancelled /\ Counted(screen.name, "activeExceptions") = Exceptional
    BY <1>1, CountedBy, GroupTileIs
  <2>3. \A t \in PipelineStates \cup {"DELIVERED"} : Counted(screen.name, t) = OrdersIn({t})
    <3>1. "totalOrders" \notin PipelineStates /\ "activeExceptions" \notin PipelineStates
      BY DEF PipelineStates
    <3> QED BY <1>1, <3>1, CountedBy, GroupTileIs
  <2>4. ASSUME NEW o \in NotCancelled PROVE \E t \in U : o \in Counted(screen.name, t)
    <3>1. CASE o \in Exceptional
      BY <1>1, <2>2, <3>1
    <3>2. CASE orders[o].state \in PipelineStates \cup {"DELIVERED"}
      <4>1. o \in OrdersIn({orders[o].state})
        BY DEF OrdersIn, NotCancelled, Stored
      <4> QED BY <1>1, <2>3, <3>2, <4>1
    <3> QED BY <3>1, <3>2, OrdersByState
  <2> QED BY <1>1, <2>1, <2>2, <2>4 DEF CoveredBy
<1>2. CASE screen.name = "store" /\ s = "totalOrders" /\ U = DOMAIN StoreStates \cup {"activeExceptions"}
  <2>1. s \notin U /\ \A t \in DOMAIN StoreStates : t \notin StoreTotals
    BY <1>2 DEF StoreStates, StoreTotals
  <2>2. /\ Counted(screen.name, s) = AtHome(NotCancelled)
        /\ Counted(screen.name, "activeExceptions") = AtHome(Exceptional)
    BY <1>2, CountedBy, StoreTileIs
  <2>3. \A t \in DOMAIN StoreStates : Counted(screen.name, t) = AtHome(OrdersIn(StoreStates[t]))
    BY <1>2, <2>1, CountedBy, StoreTileIs
  <2>4. ASSUME NEW o \in AtHome(NotCancelled) PROVE \E t \in U : o \in Counted(screen.name, t)
    <3>1. o \in NotCancelled /\ orders[o].rooftop = Home
      BY DEF AtHome
    <3>2. CASE o \in Exceptional
      BY <1>2, <2>2, <3>1, <3>2 DEF AtHome
    <3>3. CASE orders[o].state \in PipelineStates \cup {"DELIVERED"}
      <4>1. PICK t \in DOMAIN StoreStates : orders[o].state \in StoreStates[t]
        BY <3>3 DEF StoreStates, PipelineStates
      <4>2. o \in OrdersIn(StoreStates[t])
        BY <3>1, <4>1 DEF OrdersIn, NotCancelled, Stored
      <4>3. o \in Counted(screen.name, t)
        BY <2>3, <3>1, <4>2 DEF AtHome
      <4> QED BY <1>2, <4>3
    <3> QED BY <3>1, <3>2, <3>3, OrdersByState
  <2> QED BY <2>1, <2>2, <2>4 DEF CoveredBy
<1>3. CASE screen.name = "partscheck" /\ s = "totalRfqs" /\ U = Quoted \cup Unquoted
  <2>1. \A t \in U : t \notin {"totalRfqs", "total", "totalOpen", "expired"}
    BY <1>3 DEF Quoted, Unquoted
  <2>2. \A t \in U : Counted(screen.name, t) = RfqsIn({t})
    BY <1>3, <2>1, CountedBy, RfqTileIs
  <2>3. Counted(screen.name, s) = StoredRfqs
    BY <1>3, CountedBy, RfqTileIs
  <2>4. ASSUME NEW q \in StoredRfqs PROVE q \in RfqsIn({rfqs[q].status}) /\ rfqs[q].status \in U
    BY <1>3, StatesAre DEF RfqsIn, StoredRfqs
  <2>5. ASSUME NEW q \in Counted(screen.name, s) PROVE \E t \in U : q \in Counted(screen.name, t)
    BY <2>2, <2>3, <2>4
  <2>6. s \notin U
    BY <1>3, <2>1
  <2> QED BY <2>5, <2>6 DEF CoveredBy
<1>4. CASE /\ \/ screen.name = "partscheck" /\ s = "expired"
              \/ screen.name = "inbox" /\ s = "totalOpen"
           /\ U = Unquoted
  <2>1. \A t \in U : t \notin {"totalRfqs", "total", "totalOpen", "expired"}
    BY <1>4 DEF Unquoted
  <2>2. \A t \in U : Counted(screen.name, t) = RfqsIn({t})
    BY <1>4, <2>1, CountedBy, RfqTileIs
  <2>3. Counted(screen.name, s) = Expired \/ Counted(screen.name, s) = RfqsIn(OpenStatus)
    BY <1>4, CountedBy, RfqTileIs
  <2>4. \A q \in Expired : q \in Rfqs /\ rfqs[q].status \in Unquoted
    BY StatesAre DEF Expired, RfqsIn, Quoted, StoredRfqs
  <2>5. \A q \in RfqsIn(OpenStatus) : q \in Rfqs /\ rfqs[q].status \in Unquoted
    BY StatesAre DEF RfqsIn, Quoted, Unquoted, OpenStatus
  <2>6. ASSUME NEW q \in Rfqs, rfqs[q].status \in Unquoted
        PROVE  \E t \in U : q \in Counted(screen.name, t)
    <3>1. q \in RfqsIn({rfqs[q].status})
      BY DEF RfqsIn
    <3> QED BY <1>4, <2>2, <2>6, <3>1
  <2> QED BY <1>4, <2>1, <2>3, <2>4, <2>5, <2>6 DEF CoveredBy
<1> QED BY <1>1, <1>2, <1>3, <1>4 DEF Covers

---------------------------------------------------------------------------
LEMMA NumberedByAge ==
  ASSUME ByAge
  PROVE  /\ Stored = 1 .. Cardinality(Stored)
         /\ Cardinality(Stored) \in Nat /\ Cardinality(Stored) <= Cardinality(Orders)
<1>1. PICK n \in Nat : n <= Cardinality(Orders) /\ Stored = 1 .. n
  BY DEF ByAge
<1>2. Cardinality(1 .. n) = n
  <2>1. CASE n = 0
    <3>1. 1 .. n = {}
      BY <2>1
    <3> QED BY <2>1, <3>1, FS_EmptySet
  <2>2. CASE n # 0
    <3>1. n >= 1
      BY <2>2
    <3> QED BY <3>1, FS_Interval
  <2> QED BY <2>1, <2>2
<1> QED BY <1>1, <1>2

LEMMA SubmitKeeps ==
  ASSUME Documents, NEW o \in Orders, NEW rooftop \in Rooftop, Submit(o, rooftop)
  PROVE  /\ Documents' /\ Skew' = Skew + 1 /\ screen' = screen
         /\ \A b \in Orders : b # o => orders'[b] = orders[b]
         /\ \A q \in Rfqs : rfqs'[q] = rfqs[q]
         /\ Stored' = Stored \cup {o} /\ o \notin Stored
         /\ orders'[o] = NewOrder(rooftop)
<1>1. NewOrder(rooftop) \in Order /\ NewOrder(rooftop) # NoOrder
  BY ReadModelsAssumption DEF ReadModelsAssumption, NewOrder, Order, NoOrder
<1>2. orders' = [orders EXCEPT ![o] = NewOrder(rooftop)] /\ orders \in [Orders -> Order \cup {NoOrder}]
  BY DEF Submit, Documents
<1>3. orders' \in [Orders -> Order \cup {NoOrder}]
  BY <1>1, <1>2
<1>4. (\A b \in Orders : b # o => orders'[b] = orders[b]) /\ orders'[o] = NewOrder(rooftop)
  BY <1>2
<1>5. Stored' = Stored \cup {o}
  BY <1>1, <1>4 DEF Stored
<1>6. o = Cardinality(Stored) + 1
  BY DEF Submit
<1>7. Stored = 1 .. Cardinality(Stored) /\ Cardinality(Stored) \in Nat
  BY NumberedByAge DEF Documents
<1>8. Stored' = 1 .. o /\ o \in Nat /\ o \notin Stored
  BY <1>5, <1>6, <1>7
<1>9. o <= Cardinality(Orders)
  BY ReadModelsAssumption, FS_CardinalityType DEF ReadModelsAssumption
<1>10. ByAge'
  BY <1>8, <1>9 DEF ByAge
<1>11. changes' = changes /\ created' = created + 1 /\ changes + created < MaxChanges
  BY DEF Submit
<1>12. Skew' = Skew + 1 /\ changes' \in Nat /\ created' \in Nat /\ changes' + created' <= MaxChanges
  BY <1>11, ReadModelsAssumption DEF Skew, Documents, ReadModelsAssumption
<1>13. rfqs' = rfqs /\ screen' = screen
  BY DEF Submit
<1> QED BY <1>3, <1>4, <1>5, <1>8, <1>10, <1>12, <1>13 DEF Documents

LEMMA DisturbKeeps ==
  ASSUME Documents, NEW document, Disturb(document)
  PROVE  /\ changes' \in Nat /\ created' \in Nat /\ changes' + created' <= MaxChanges
         /\ Skew' = Skew + 1 /\ screen' = screen
         /\ changes' = changes + 1 /\ created' = created /\ changed' = changed \cup {document}
BY ReadModelsAssumption DEF Disturb, Documents, Skew, ReadModelsAssumption

LEMMA ChangeOrderKeeps ==
  ASSUME Documents, NEW o \in Orders, NEW state \in OrderStates, NEW flag \in BOOLEAN,
         ChangeOrder(o, state, flag)
  PROVE  /\ Documents' /\ Skew' = Skew + 1 /\ screen' = screen
         /\ \A b \in Orders : b # o => orders'[b] = orders[b]
         /\ \A q \in Rfqs : rfqs'[q] = rfqs[q]
         /\ Stored' = Stored
         /\ orders'[o].rooftop = orders[o].rooftop
         /\ changes' = changes + 1 /\ created' = created /\ changed' = changed \cup {o}
<1>1. orders \in [Orders -> Order \cup {NoOrder}] /\ orders[o] # NoOrder /\ Disturb(o) /\ rfqs' = rfqs
  BY DEF ChangeOrder, Documents
<1>2. orders[o] \in Order
  BY <1>1
<1>3. orders' = [orders EXCEPT ![o] = [orders[o] EXCEPT !.state = state, !.hasExceptions = flag]]
  BY <1>1 DEF ChangeOrder
<1> DEFINE new == [orders[o] EXCEPT !.state = state, !.hasExceptions = flag]
<1>4. new \in Order /\ new.rooftop = orders[o].rooftop /\ new.state = state
  BY <1>2 DEF Order
<1>5. new # NoOrder
  BY <1>4, ReadModelsAssumption DEF NoOrder, ReadModelsAssumption, PipelineStates
<1> HIDE DEF new
<1>6. orders' = [orders EXCEPT ![o] = new]
  BY <1>3 DEF new
<1>7. orders' \in [Orders -> Order \cup {NoOrder}] /\ orders'[o] = new
  BY <1>1, <1>4, <1>6
<1>8. \A b \in Orders : b # o => orders'[b] = orders[b]
  BY <1>1, <1>6
<1>9. Stored' = Stored
  BY <1>1, <1>5, <1>7, <1>8 DEF Stored
<1>10. ByAge'
  BY <1>9 DEF ByAge, Documents
<1> QED BY <1>1, <1>4, <1>7, <1>8, <1>9, <1>10, DisturbKeeps DEF Documents

LEMMA ChangeRfqKeeps ==
  ASSUME Documents, NEW q \in Rfqs, NEW new \in Rfq, ReceiveRfq(q, new) \/ ChangeRfq(q, new)
  PROVE  /\ Documents' /\ Skew' = Skew + 1 /\ screen' = screen /\ orders' = orders
         /\ \A r \in Rfqs : r # q => rfqs'[r] = rfqs[r]
         /\ screen.name \in OfRfqs
<1>1. rfqs' = [rfqs EXCEPT ![q] = new] /\ orders' = orders /\ screen.name \in OfRfqs
  BY DEF ReceiveRfq, ChangeRfq, RfqsRead
<1>2. rfqs' \in [Rfqs -> Rfq \cup {NoRfq}] /\ \A r \in Rfqs : r # q => rfqs'[r] = rfqs[r]
  BY <1>1 DEF Documents
<1>3. ByAge'
  BY <1>1 DEF ByAge, Documents, Stored
<1>4. /\ changes' \in Nat /\ created' \in Nat /\ changes' + created' <= MaxChanges
      /\ Skew' = Skew + 1 /\ screen' = screen
  <2>1. CASE ReceiveRfq(q, new)
    BY <2>1, ReadModelsAssumption DEF ReceiveRfq, Documents, Skew, ReadModelsAssumption
  <2>2. CASE ChangeRfq(q, new)
    BY <2>2, DisturbKeeps DEF ChangeRfq
  <2> QED BY <2>1, <2>2
<1> QED BY <1>1, <1>2, <1>3, <1>4 DEF Documents

LEMMA ReadKeepsDocuments ==
  ASSUME Documents, UNCHANGED <<orders, rfqs, changes, created, changed>>
  PROVE  Documents'
BY DEF Documents, ByAge, Stored

---------------------------------------------------------------------------
\* The inductive invariant of the screens.
ScreenInductive == Documents /\ ScreenAt(screen) /\ TilesKept

LEMMA ScreenOpened ==
  ASSUME ScreenInit
  PROVE  ScreenInductive
<1>1. PICK name \in Names : screen = Opened(name)
  BY ReadModelsAssumption DEF ScreenInit, ReadModelsAssumption, Names
<1>2. ScreenAt(screen) /\ screen.count = NoAnswer
  BY <1>1, OpenedIs
<1>3. changes = 0 /\ created = 0
  BY DEF ScreenInit
<1>4. /\ orders \in [Orders -> Order \cup {NoOrder}] /\ rfqs \in [Rfqs -> Rfq \cup {NoRfq}]
      /\ Stored = {} \/ Stored = {o \in Orders : o <= InitialOrders}
  <2>1. PICK some \in Screens :
          IF some \in OfRfqs
          THEN rfqs \in [Rfqs -> Rfq \cup {NoRfq}] /\ orders = [o \in Orders |-> NoOrder]
          ELSE /\ rfqs = [q \in Rfqs |-> NoRfq]
               /\ orders \in {docs \in [Orders -> Order \cup {NoOrder}] :
                    \A o \in Orders : docs[o] = NoOrder <=> o > InitialOrders}
    BY DEF ScreenInit
  <2>2. CASE rfqs \in [Rfqs -> Rfq \cup {NoRfq}] /\ orders = [o \in Orders |-> NoOrder]
    BY <2>2 DEF Stored
  <2>3. CASE /\ rfqs = [q \in Rfqs |-> NoRfq]
             /\ orders \in {docs \in [Orders -> Order \cup {NoOrder}] :
                  \A o \in Orders : docs[o] = NoOrder <=> o > InitialOrders}
    <3>1. \A o \in Orders : o \in Nat
      BY ReadModelsAssumption, FS_CardinalityType DEF ReadModelsAssumption
    <3>2. InitialOrders \in Nat
      BY ReadModelsAssumption, FS_CardinalityType DEF ReadModelsAssumption
    <3>3. \A o \in Orders : orders[o] = NoOrder <=> o > InitialOrders
      BY <2>3
    <3>4. Stored = {o \in Orders : o <= InitialOrders}
      BY <3>1, <3>2, <3>3 DEF Stored
    <3> QED BY <2>3, <3>4
  <2> QED BY <2>1, <2>2, <2>3
<1>5. ByAge
  <2>1. /\ Cardinality(Orders) \in Nat /\ Orders = 1 .. Cardinality(Orders)
        /\ InitialOrders \in 0 .. Cardinality(Orders)
    BY ReadModelsAssumption, FS_CardinalityType DEF ReadModelsAssumption
  <2>2. {o \in Orders : o <= InitialOrders} = 1 .. InitialOrders
    BY <2>1
  <2> DEFINE size == Cardinality(Orders)
  <2>3. 0 \in Nat /\ 0 <= size /\ InitialOrders \in Nat /\ InitialOrders <= size
    BY <2>1
  <2>4. Stored = 1 .. 0 \/ Stored = 1 .. InitialOrders
    <3>1. 1 .. 0 = {}
      OBVIOUS
    <3> QED BY <1>4, <2>2, <3>1, Zenon
  <2> QED BY <2>3, <2>4, Zenon DEF ByAge
<1>6. Documents
  BY <1>3, <1>4, <1>5, ReadModelsAssumption DEF Documents, ReadModelsAssumption
<1>7. TilesKept
  BY <1>2, <1>6, ComparedAtFirst, CoversFit DEF TilesKept, Documents
<1> QED BY <1>2, <1>6, <1>7 DEF ScreenInductive

\* A tile that is compared is answered once; only a page's count is asked for again.
LEMMA AnsweredOnce ==
  ASSUME ScreenAt(screen), NEW tile \in screen.unread, tile # "rows"
  PROVE  tile \notin DOMAIN screen.count \/ (tile = "total" /\ screen.name \in Paged)
<1>1. Shape(screen)
  BY DEF ScreenAt
<1>2. CASE screen.page = 0
  BY <1>1, <1>2 DEF Shape
<1>3. CASE screen.page # 0
  BY <1>1, <1>3 DEF Shape, OnePage
<1> QED BY <1>2, <1>3

\* The count of a page is answered: no tile of the summary is.
LEMMA PageCountKeeps ==
  ASSUME ScreenAt(screen), screen.name \in Paged, NEW n \in Nat,
         screen'.name = screen.name, screen'.count = Answer("total", n),
         UNCHANGED <<orders, rfqs, changes, created>>, TilesKept
  PROVE  TilesKept'
<1>1. \A t : Counted(screen.name, t)' = Counted(screen.name, t)
  BY CountedSame
<1>2. /\ DOMAIN screen'.count = DOMAIN screen.count \cup {"total"}
      /\ \A t \in DOMAIN screen.count : t # "total" => screen'.count[t] = screen.count[t]
  BY DEF Answer
<1>3. ASSUME NEW S, NEW u, Parts(screen.name, S, u) PROVE NoMoreThan(S, u)'
  <2>1. "total" \notin S /\ u # "total"
    BY <1>3 DEF Parts, Paged, PickingTiles
  <2>2. Seen(S)' = Seen(S)
    BY <2>1, SeenAnswer DEF Seen
  <2>3. Waiting(S)' = Waiting(S)
    <3>1. S \ DOMAIN screen'.count = S \ DOMAIN screen.count
      BY <1>2, <2>1
    <3> QED BY <1>1, <3>1 DEF Waiting
  <2>4. Skew' = Skew
    BY DEF Skew
  <2>5. NoMoreThan(S, u)
    BY <1>3 DEF TilesKept
  <2> QED BY <1>1, <1>2, <2>1, <2>2, <2>3, <2>4, <2>5 DEF NoMoreThan
<1>4. ASSUME NEW s, NEW U, Covers(screen.name, s, U) PROVE FALSE
  BY <1>4 DEF Covers, Paged
<1>5. \A S, u : Parts(screen.name, S, u)' <=> Parts(screen.name, S, u)
  BY DEF Parts
<1>6. \A s, U : Covers(screen.name, s, U)' <=> Covers(screen.name, s, U)
  BY DEF Covers
<1> QED BY <1>3, <1>4, <1>5, <1>6 DEF TilesKept

\* Every step keeps the inductive invariant.
LEMMA StepKeepsTiles ==
  ASSUME ScreenInductive, [ScreenNext]_screenVars
  PROVE  ScreenInductive'
<1> USE DEF ScreenInductive
<1>1. ASSUME ScreenAt(screen'), Documents', IdleStep PROVE ScreenInductive'
  BY <1>1, IdleKeeps DEF TilesKept, IdleStep, Parts, Covers
<1>2. ASSUME NEW x, Documents', screen' = screen, DocumentStep(x) PROVE ScreenInductive'
  BY <1>2, DocumentKeeps DEF TilesKept, Documents
<1>3. ASSUME ReadRows PROVE ScreenInductive'
  <2>1. /\ ScreenAt(screen') /\ screen'.name = screen.name /\ screen'.count = screen.count
        /\ UNCHANGED <<orders, rfqs, changes, created, changed>>
    BY <1>3, RowsAnswered
  <2> QED BY <1>1, <2>1, ReadKeepsDocuments DEF IdleStep
<1>4. ASSUME NEW tile \in screen.unread, ReadTile(tile) PROVE ScreenInductive'
  <2>1. /\ ScreenAt(screen') /\ tile # "rows" /\ screen'.name = screen.name
        /\ screen'.count = Answer(tile, Cardinality(Counted(screen.name, tile)))
        /\ Cardinality(Counted(screen.name, tile)) \in Nat
        /\ UNCHANGED <<orders, rfqs, changes, created, changed>>
    BY <1>4, TileAnswered DEF Answers
  <2>2. Documents'
    BY <2>1, ReadKeepsDocuments
  <2>3. CASE tile \notin DOMAIN screen.count
    <3>1. TileStep(tile)
      BY <2>1, <2>3 DEF TileStep
    <3>2. ASSUME NEW S, NEW u, Parts(screen.name, S, u) PROVE NoMoreThan(S, u)'
      BY <3>1, <3>2, PartsFit, PartsAnswered DEF TilesKept, Documents
    <3>3. ASSUME NEW s, NEW U, Covers(screen.name, s, U) PROVE NoLessThan(s, U)'
      BY <3>1, <3>3, CoversFit, CoverAnswered DEF TilesKept, Documents
    <3>4. /\ \A S, u : Parts(screen.name, S, u)' <=> Parts(screen.name, S, u)
          /\ \A s, U : Covers(screen.name, s, U)' <=> Covers(screen.name, s, U)
      BY <2>1 DEF Parts, Covers
    <3>5. TilesKept'
      BY <3>2, <3>3, <3>4 DEF TilesKept
    <3> QED BY <2>1, <2>2, <3>5
  <2>4. CASE tile = "total" /\ screen.name \in Paged
    BY <2>1, <2>2, <2>4, PageCountKeeps
  <2> QED BY <2>1, <2>3, <2>4, AnsweredOnce
<1>5. ASSUME NEW o \in Orders, NEW rooftop \in Rooftop, Submit(o, rooftop) PROVE ScreenInductive'
  <2>1. /\ Documents' /\ Skew' = Skew + 1 /\ screen' = screen
        /\ \A b \in Orders : b # o => orders'[b] = orders[b]
        /\ \A q \in Rfqs : rfqs'[q] = rfqs[q]
    BY <1>5, SubmitKeeps
  <2> QED BY <1>2, <2>1 DEF DocumentStep
<1>6. ASSUME NEW o \in Orders, NEW state \in OrderStates, NEW flag \in BOOLEAN,
             ChangeOrder(o, state, flag)
      PROVE  ScreenInductive'
  <2>1. /\ Documents' /\ Skew' = Skew + 1 /\ screen' = screen
        /\ \A b \in Orders : b # o => orders'[b] = orders[b]
        /\ \A q \in Rfqs : rfqs'[q] = rfqs[q]
    BY <1>6, ChangeOrderKeeps
  <2> QED BY <1>2, <2>1 DEF DocumentStep
<1>7. ASSUME NEW q \in Rfqs, NEW new \in Rfq, ReceiveRfq(q, new) \/ ChangeRfq(q, new)
      PROVE  ScreenInductive'
  <2>1. /\ Documents' /\ Skew' = Skew + 1 /\ screen' = screen /\ orders' = orders
        /\ \A r \in Rfqs : r # q => rfqs'[r] = rfqs[r]
    BY <1>7, ChangeRfqKeeps
  <2> QED BY <1>2, <2>1 DEF DocumentStep
<1>8. ASSUME UNCHANGED screenVars PROVE ScreenInductive'
  <2>1. /\ screen' = screen /\ orders' = orders /\ rfqs' = rfqs
        /\ changes' = changes /\ created' = created /\ changed' = changed
    BY <1>8 DEF screenVars
  <2> QED BY <1>1, <2>1, ReadKeepsDocuments DEF IdleStep
<1> QED BY <1>3, <1>4, <1>5, <1>6, <1>7, <1>8 DEF ScreenNext

LEMMA ScreenInductiveHolds == ScreenSpec => []ScreenInductive
<1>1. ScreenInit => ScreenInductive
  BY ScreenOpened
<1>2. ScreenInductive /\ [ScreenNext]_screenVars => ScreenInductive'
  BY StepKeepsTiles
<1> QED BY <1>1, <1>2, PTL DEF ScreenSpec

\* Whatever the screens' queries and the requests of orders.service.ts and
\* partscheck.service.ts do, orders and RFQs stay documents of their types.
THEOREM ScreenTypeCorrect == ScreenSpec => []ScreenTypeOK
<1>1. ScreenInductive => ScreenTypeOK
  BY ReadModelsAssumption DEF ScreenInductive, Documents, ScreenTypeOK, ReadModelsAssumption
<1> QED BY <1>1, ScreenInductiveHolds, PTL

---------------------------------------------------------------------------
\* The tiles that a screen has when it is complete.
LEMMA TilesOfScreen ==
  ASSUME ScreenAt(screen), screen.unread = {}
  PROVE  /\ screen.name = "group" => {"totalOrders"} \cup GroupTiles \subseteq DOMAIN screen.count
         /\ screen.name = "store" =>
              {"totalOrders", "weekOrders", "todayOrders"} \cup StoreTiles \subseteq DOMAIN screen.count
         /\ screen.name = "partscheck" => PartsCheckTiles \subseteq DOMAIN screen.count
         /\ screen.name = "inbox" => InboxTiles \subseteq DOMAIN screen.count
         /\ screen.name = "queue" => QueueTiles \subseteq DOMAIN screen.count
<1>1. Upto(screen.name, Len(Groups(screen.name))) \subseteq DOMAIN screen.count
  <2>1. Shape(screen) /\ screen.group = Len(Groups(screen.name))
    BY DEF ScreenAt
  <2>2. CASE screen.page = 0
    BY <2>1, <2>2 DEF Shape
  <2>3. CASE screen.page # 0
    BY <2>1, <2>3 DEF Shape
  <2> QED BY <2>2, <2>3
<1>2. ASSUME NEW g, g \in 1 .. Len(Groups(screen.name))
      PROVE  Groups(screen.name)[g] \subseteq DOMAIN screen.count
  BY <1>1, <1>2 DEF Upto
<1>3. CASE screen.name = "group"
  <2>1. Len(Groups(screen.name)) = 2 /\ Groups(screen.name)[1] = {"totalOrders"} /\ Groups(screen.name)[2] = GroupTiles
    BY <1>3, GroupsOf
  <2>2. 1 \in 1 .. 2 /\ 2 \in 1 .. 2
    OBVIOUS
  <2> QED BY <1>2, <1>3, <2>1, <2>2
<1>4. CASE screen.name = "store"
  <2>1. /\ Len(Groups(screen.name)) = 3 /\ Groups(screen.name)[1] = {"totalOrders"}
        /\ Groups(screen.name)[2] = {"todayOrders", "weekOrders"} /\ Groups(screen.name)[3] = StoreTiles
    BY <1>4, GroupsOf
  <2>2. 1 \in 1 .. 3 /\ 2 \in 1 .. 3 /\ 3 \in 1 .. 3
    OBVIOUS
  <2> QED BY <1>2, <1>4, <2>1, <2>2
<1>5. CASE screen.name \in {"partscheck", "inbox", "queue"}
  <2>1. /\ Len(Groups(screen.name)) = 1
        /\ screen.name = "partscheck" => Groups(screen.name)[1] = PartsCheckTiles
        /\ screen.name = "inbox" => Groups(screen.name)[1] = InboxTiles
        /\ screen.name = "queue" => Groups(screen.name)[1] = QueueTiles
    BY <1>5, GroupsOf
  <2>2. 1 \in 1 .. 1
    OBVIOUS
  <2> QED BY <1>2, <1>5, <2>1, <2>2
<1> QED BY <1>3, <1>4, <1>5

\* Nothing is waited for then: the tiles it lacks are of states that do not occur.
LEMMA NoneWaiting ==
  ASSUME Documents, ScreenAt(screen), screen.unread = {}
  PROVE  /\ \A S, u : Parts(screen.name, S, u) => u \in DOMAIN screen.count /\ Waiting(S) = {}
         /\ \A s, U : Covers(screen.name, s, U) => s \in DOMAIN screen.count /\ Waiting(U) = {}
<1>1. \A states : states \cap OrderStates = {} /\ "none" \notin states => OrdersIn(states) = {}
  <2>1. \A o \in Orders : orders[o].state \in OrderStates \cup {"none"}
    <3>1. \A o \in Orders : orders[o] \in Order \/ orders[o] = NoOrder
      BY DEF Documents
    <3> QED BY <3>1 DEF Order, NoOrder
  <2> QED BY <2>1 DEF OrdersIn
<1>2. \A t : t \notin RfqStates \cup {"none"} => RfqsIn({t}) = {}
  <2>1. \A q \in Rfqs : rfqs[q].status \in RfqStates \cup {"none"}
    <3>1. \A q \in Rfqs : rfqs[q] \in Rfq \/ rfqs[q] = NoRfq
      BY DEF Documents
    <3> QED BY <3>1 DEF Rfq, NoRfq
  <2> QED BY <2>1 DEF RfqsIn
<1>3. CASE screen.name = "group"
  <2>1. {"totalOrders"} \cup GroupTiles \subseteq DOMAIN screen.count
    BY <1>3, TilesOfScreen
  <2>2. ASSUME NEW t \in PipelineStates \cup {"DELIVERED", "activeExceptions"}, t \notin DOMAIN screen.count
        PROVE  Counted(screen.name, t) = {}
    <3>1. t \in PipelineStates /\ t \notin OrderStates
      BY <2>1, <2>2 DEF GroupTiles
    <3>2. t \notin {"totalOrders", "activeExceptions", "none"}
      BY <3>1 DEF PipelineStates
    <3>3. Counted(screen.name, t) = OrdersIn({t})
      BY <1>3, <3>2, CountedBy, GroupTileIs
    <3> QED BY <1>1, <3>1, <3>2, <3>3
  <2> QED BY <1>3, <2>1, <2>2 DEF Parts, Covers, Waiting
<1>4. CASE screen.name = "store"
  <2>1. {"totalOrders", "weekOrders", "todayOrders"} \cup StoreTiles \subseteq DOMAIN screen.count
    BY <1>4, TilesOfScreen
  <2>2. ASSUME NEW t \in DOMAIN StoreStates \cup {"activeExceptions"}, t \notin DOMAIN screen.count
        PROVE  Counted(screen.name, t) = {}
    <3>1. t \in DOMAIN StoreStates /\ StoreStates[t] \cap OrderStates = {}
      BY <2>1, <2>2 DEF StoreTiles
    <3>2. t \notin StoreTotals /\ "none" \notin StoreStates[t]
      BY <3>1 DEF StoreStates, StoreTotals
    <3>3. Counted(screen.name, t) = AtHome(OrdersIn(StoreStates[t]))
      BY <1>4, <3>2, CountedBy, StoreTileIs
    <3> QED BY <1>1, <3>1, <3>2, <3>3 DEF AtHome
  <2> QED BY <1>4, <2>1, <2>2 DEF Parts, Covers, Waiting
<1>5. CASE screen.name \in {"partscheck", "inbox"}
  <2>1. /\ screen.name = "partscheck" => PartsCheckTiles \subseteq DOMAIN screen.count
        /\ screen.name = "inbox" => InboxTiles \subseteq DOMAIN screen.count
    BY TilesOfScreen
  <2>2. ASSUME NEW t, t \notin DOMAIN screen.count,
               \/ t \in Unquoted \cup {"AUTO_QUOTED"}
               \/ t \in Quoted /\ screen.name = "partscheck"
        PROVE  Counted(screen.name, t) = {}
    <3>1. t \notin RfqStates
      BY <1>5, <2>1, <2>2 DEF PartsCheckTiles, InboxTiles, ReceivedStatus, Unquoted
    <3>2. t \notin {"totalRfqs", "total", "totalOpen", "expired", "none"}
      BY <2>2 DEF Quoted, Unquoted
    <3>3. Counted(screen.name, t) = RfqsIn({t})
      BY <1>5, <3>2, CountedBy, RfqTileIs
    <3> QED BY <1>2, <3>1, <3>2, <3>3
  <2>3. /\ screen.name = "partscheck" => "totalRfqs" \in DOMAIN screen.count /\ "expired" \in DOMAIN screen.count
        /\ screen.name = "inbox" => {"total", "totalOpen", "expired"} \subseteq DOMAIN screen.count
    BY <2>1 DEF PartsCheckTiles, InboxTiles
  <2>4. \A S, u : Parts(screen.name, S, u) => u \in DOMAIN screen.count /\ Waiting(S) = {}
    BY <1>5, <2>2, <2>3 DEF Parts, Waiting
  <2>5. \A s, U : Covers(screen.name, s, U) => s \in DOMAIN screen.count /\ Waiting(U) = {}
    BY <1>5, <2>2, <2>3 DEF Covers, Waiting
  <2> QED BY <2>4, <2>5
<1>6. CASE screen.name \in Paged
  <2>1. screen.name = "queue" => QueueTiles \subseteq DOMAIN screen.count
    BY TilesOfScreen
  <2> QED BY <1>6, <2>1 DEF Parts, Covers, Waiting, PickingTiles, QueueTiles, Paged
<1> QED BY <1>3, <1>4, <1>5, <1>6 DEF ScreenAt, Shape, Names, Paged

\* Once a screen is complete its tiles add up.
LEMMA AllTilesAddUp == ScreenInductive => TilesAddUp
<1> SUFFICES ASSUME ScreenInductive, screen.unread = {} PROVE TilesAddUp
  BY DEF TilesAddUp, Complete
<1> USE DEF ScreenInductive
<1> DEFINE count == screen.count
<1>1. Cardinality({}) = 0
  BY FS_EmptySet
<1>2. Skew \in Nat /\ \A t \in DOMAIN count : count[t] \in Nat
  BY SkewType DEF Documents, ScreenAt, Shape
<1>3. \A T : Shown(T) = Seen(T) /\ Shown(T) \in Nat
  BY ShownIsSeen, SeenType DEF Seen, ScreenAt, Shape
<1>4. ASSUME NEW S, NEW u, Parts(screen.name, S, u)
      PROVE  u \in DOMAIN count /\ Shown(S) <= count[u] + Skew
  <2>1. u \in DOMAIN count /\ Waiting(S) = {}
    BY <1>4, NoneWaiting
  <2>2. Seen(S) + 0 <= count[u] + Skew
    BY <1>1, <1>4, <2>1 DEF TilesKept, NoMoreThan
  <2> QED BY <1>3, <2>1, <2>2
<1>5. ASSUME NEW s, NEW U, Covers(screen.name, s, U)
      PROVE  s \in DOMAIN count /\ count[s] <= Shown(U) + Skew
  <2>1. s \in DOMAIN count /\ Waiting(U) = {}
    BY <1>5, NoneWaiting
  <2>2. count[s] <= Seen(U) + 0 + Skew
    BY <1>1, <1>5, <2>1 DEF TilesKept, NoLessThan
  <2> QED BY <1>3, <2>1, <2>2
<1>6. ASSUME NEW T, NEW t \in DOMAIN count, t \notin T PROVE Shown(T \cup {t}) = Shown(T) + count[t]
  BY <1>6, SeenOneMore, ShownIsSeen
<1>7. ASSUME NEW t \in DOMAIN count PROVE Shown({t}) = count[t]
  <2>1. Shown({}) = 0
    <3>1. {} \cap DOMAIN screen.count = {}
      OBVIOUS
    <3> QED BY <3>1, ShownIsSeen, SumOfNone DEF SeenIn
  <2>2. Shown({} \cup {t}) = Shown({}) + count[t] /\ {} \cup {t} = {t}
    BY <1>6
  <2> QED BY <1>2, <2>1, <2>2
<1>8. CASE screen.name = "group" \/ screen.name = "store"
  <2> DEFINE live == IF screen.name = "group" THEN PipelineStates \cup {"DELIVERED"} ELSE DOMAIN StoreStates
  <2>1. "activeExceptions" \in DOMAIN count /\ "activeExceptions" \notin live
    BY <1>8, TilesOfScreen DEF GroupTiles, StoreTiles, PipelineStates, StoreStates
  <2>2. Shown(live) <= count["totalOrders"] + Skew
    BY <1>4, <1>8 DEF Parts
  <2>3. count["totalOrders"] <= Shown(live \cup {"activeExceptions"}) + Skew
    <3>1. live \cup {"activeExceptions"} =
            IF screen.name = "group" THEN PipelineStates \cup {"DELIVERED", "activeExceptions"}
            ELSE DOMAIN StoreStates \cup {"activeExceptions"}
      OBVIOUS
    <3>2. Covers(screen.name, "totalOrders", live \cup {"activeExceptions"})
      BY <1>8, <3>1 DEF Covers
    <3> QED BY <1>5, <3>2
  <2>4. Shown(live \cup {"activeExceptions"}) = Shown(live) + count["activeExceptions"]
    BY <1>6, <2>1
  <2>5. DashboardAddsUp(live)
    BY <2>2, <2>3, <2>4 DEF DashboardAddsUp
  <2>6. screen.name = "store" =>
          /\ count["todayOrders"] <= count["weekOrders"] + Skew
          /\ count["weekOrders"] <= count["totalOrders"] + Skew
    <3> SUFFICES ASSUME screen.name = "store"
                 PROVE  /\ count["todayOrders"] <= count["weekOrders"] + Skew
                        /\ count["weekOrders"] <= count["totalOrders"] + Skew
      OBVIOUS
    <3>1. /\ Shown({"todayOrders"}) <= count["weekOrders"] + Skew
          /\ Shown({"weekOrders"}) <= count["totalOrders"] + Skew
      BY <1>4 DEF Parts
    <3>2. "todayOrders" \in DOMAIN count /\ "weekOrders" \in DOMAIN count
      BY TilesOfScreen
    <3> QED BY <1>7, <3>1, <3>2
  <2> QED BY <1>8, <2>5, <2>6 DEF TilesAddUp, Complete
<1>9. CASE screen.name = "partscheck"
  <2>1. /\ Shown(Quoted \cup Unquoted) <= count["totalRfqs"] + Skew
        /\ count["totalRfqs"] <= Shown(Quoted \cup Unquoted) + Skew
        /\ count["expired"] <= Shown(Unquoted) + Skew
    BY <1>4, <1>5, <1>9 DEF Parts, Covers
  <2> QED BY <1>9, <2>1 DEF TilesAddUp, Complete
<1>10. CASE screen.name = "inbox"
  <2>1. /\ Shown({"totalOpen", "AUTO_QUOTED"}) <= count["total"] + Skew
        /\ Shown(Unquoted) <= count["totalOpen"] + Skew
        /\ count["totalOpen"] <= Shown(Unquoted) + Skew
        /\ Shown({"expired"}) <= count["totalOpen"] + Skew
    BY <1>4, <1>5, <1>10 DEF Parts, Covers
  <2>2. "expired" \in DOMAIN count
    BY <1>10, TilesOfScreen DEF InboxTiles
  <2> QED BY <1>7, <1>10, <2>1, <2>2 DEF TilesAddUp, Complete
<1>11. CASE screen.name = "queue"
  <2>1. Shown({"pendingPicking", "partiallyPicked"}) <= count["totalQueued"] + Skew
    BY <1>4, <1>11 DEF Parts, PickingTiles
  <2> QED BY <1>11, <2>1 DEF TilesAddUp, Complete
<1>12. CASE screen.name = "history"
  BY <1>12 DEF TilesAddUp, Complete
<1> QED BY <1>8, <1>9, <1>10, <1>11, <1>12 DEF ScreenAt, Shape, Names

\* However the queries of getGroupView, getStoreView and their PartsCheck views
\* (dashboard.service.ts), of getInbox (partscheck.service.ts) and getQueue
\* (orders.service.ts) interleave with changes of orders and RFQs, the tiles of a
\* complete screen that count parts of one total add up to it but for one per change,
\* and no tile counts more than those that cover it.
THEOREM TilesAlwaysAddUp == ScreenSpec => []TilesAddUp
BY AllTilesAddUp, ScreenInductiveHolds, PTL

---------------------------------------------------------------------------
(* The pages. An order that stays is passed over only when the orders ahead *)
(* of it move across the edge of a page, or across the end of the last one. *)

\* The orders that the query finds ahead of one of them.
InFront(o) == {b \in Listed(screen.name) : Ahead(b, o)}

\* Which of two orders comes first.
AheadRule ==
  /\ \A a, b : screen.name = "history" => (Ahead(a, b) <=> a > b)
  /\ \A a, b : screen.name = "queue" /\ orders[a].hasExceptions = orders[b].hasExceptions
       => (Ahead(a, b) <=> a < b)
  /\ \A a, b : screen.name = "queue" /\ ~(orders[a].hasExceptions = orders[b].hasExceptions)
       => (Ahead(a, b) <=> orders[a].hasExceptions)

LEMMA AheadIs == AheadRule
<1>1. "history" # "queue"
  OBVIOUS
<1>2. \A a, b : screen.name = "history" => (Ahead(a, b) <=> a > b)
  BY <1>1, Zenon DEF Ahead
<1>3. \A a, b : screen.name = "queue" /\ orders[a].hasExceptions = orders[b].hasExceptions
       => (Ahead(a, b) <=> a < b)
  BY <1>1, Zenon DEF Ahead
<1>4. \A a, b : screen.name = "queue" /\ ~(orders[a].hasExceptions = orders[b].hasExceptions)
       => (Ahead(a, b) <=> orders[a].hasExceptions)
  BY <1>1, Zenon DEF Ahead
<1> QED BY <1>2, <1>3, <1>4 DEF AheadRule

LEMMA OrderNumbers ==
  /\ \A o \in Orders : o \in Nat
  /\ IsFiniteSet(Orders)
BY ReadModelsAssumption, FS_CardinalityType DEF ReadModelsAssumption

LEMMA FlagIsBoolean ==
  ASSUME Documents
  PROVE  \A o \in Orders : orders[o].hasExceptions \in BOOLEAN
<1> SUFFICES ASSUME NEW o \in Orders PROVE orders[o].hasExceptions \in BOOLEAN
  OBVIOUS
<1>1. orders[o] \in Order \/ orders[o] = NoOrder
  BY DEF Documents
<1>2. CASE orders[o] \in Order
  BY <1>2 DEF Order
<1>3. CASE orders[o] = NoOrder
  BY <1>3 DEF NoOrder
<1> QED BY <1>1, <1>2, <1>3

\* Pages are cut from a line: of two orders one is ahead.
InLine ==
  /\ \A a, b \in Orders : a # b => Ahead(a, b) \/ Ahead(b, a)
  /\ \A a, b \in Orders : Ahead(a, b) => ~Ahead(b, a)
  /\ \A a, b, c \in Orders : Ahead(a, b) /\ Ahead(b, c) => Ahead(a, c)

LEMMA AllInLine == Documents /\ screen.name \in Paged => InLine
<1> SUFFICES ASSUME Documents, screen.name \in Paged PROVE InLine
  OBVIOUS
<1>1. \A o \in Orders : o \in Nat
  BY OrderNumbers
<1>2. CASE screen.name = "history"
  <2>1. \A a, b \in Orders : Ahead(a, b) <=> a > b
    BY <1>2, AheadIs DEF AheadRule
  <2> QED BY <1>1, <2>1 DEF InLine
<1>3. CASE screen.name = "queue"
  <2> DEFINE flag(o) == orders[o].hasExceptions
  <2>1. \A o \in Orders : flag(o) \in BOOLEAN
    BY FlagIsBoolean
  <2>2. \A a, b \in Orders : flag(a) = flag(b) => (Ahead(a, b) <=> a < b)
    BY <1>3, AheadIs DEF AheadRule
  <2>3. \A a, b \in Orders : ~(flag(a) = flag(b)) => (Ahead(a, b) <=> flag(a))
    BY <1>3, AheadIs DEF AheadRule
  <2> HIDE DEF flag
  <2>4. \A a, b \in Orders : Ahead(a, b) <=> (flag(a) /\ ~flag(b)) \/ ((flag(a) <=> flag(b)) /\ a < b)
    BY <2>1, <2>2, <2>3
  <2>5. \A a, b \in Orders : a # b => Ahead(a, b) \/ Ahead(b, a)
    BY <1>1, <2>1, <2>4
  <2>6. \A a, b \in Orders : Ahead(a, b) => ~Ahead(b, a)
    BY <1>1, <2>1, <2>4
  <2>7. ASSUME NEW a \in Orders, NEW b \in Orders, NEW c \in Orders, Ahead(a, b), Ahead(b, c)
        PROVE  Ahead(a, c)
    BY <1>1, <2>1, <2>4, <2>7
  <2> QED BY <2>5, <2>6, <2>7 DEF InLine
<1> QED BY <1>2, <1>3 DEF Paged

\* What the pages of a screen list are stored orders, finitely many.
LEMMA ListedOrders ==
  ASSUME NEW name
  PROVE  Listed(name) \subseteq Orders /\ IsFiniteSet(Listed(name)) /\ Cardinality(Listed(name)) \in Nat
<1>1. Listed(name) \subseteq Orders
  BY DEF Listed, AtHome, OrdersIn, Stored
<1> QED BY <1>1, OrderNumbers, FS_Subset, FS_CardinalityType

LEMMA PositionType ==
  ASSUME NEW o
  PROVE  /\ InFront(o) \subseteq Orders /\ IsFiniteSet(InFront(o))
         /\ Position(o) = Cardinality(InFront(o)) /\ Position(o) \in Nat
<1>1. InFront(o) \subseteq Listed(screen.name) /\ Position(o) = Cardinality(InFront(o))
  BY DEF InFront, Position
<1> QED BY <1>1, ListedOrders, FS_Subset, FS_CardinalityType

LEMMA PositionInLine ==
  ASSUME Documents, screen.name \in Paged, NEW o \in Listed(screen.name)
  PROVE  Position(o) < Cardinality(Listed(screen.name))
<1>1. ~Ahead(o, o)
  BY AllInLine, ListedOrders DEF InLine
<1>2. InFront(o) \subseteq Listed(screen.name) /\ o \notin InFront(o)
  BY <1>1 DEF InFront
<1>3. InFront(o) # Listed(screen.name)
  BY <1>2
<1> QED BY <1>2, <1>3, ListedOrders, PositionType, FS_Subset

LEMMA PositionsDiffer ==
  ASSUME Documents, screen.name \in Paged, NEW a \in Listed(screen.name), NEW b \in Listed(screen.name),
         Position(a) = Position(b)
  PROVE  a = b
<1>1. InLine /\ Listed(screen.name) \subseteq Orders
  BY AllInLine, ListedOrders
<1>2. ASSUME NEW c \in Listed(screen.name), NEW d \in Listed(screen.name), Ahead(c, d)
      PROVE  Position(c) < Position(d)
  <2>1. InFront(c) \subseteq InFront(d) /\ c \in InFront(d) /\ c \notin InFront(c)
    BY <1>1, <1>2 DEF InFront, InLine
  <2>2. InFront(c) # InFront(d)
    BY <2>1
  <2> QED BY <2>1, <2>2, PositionType, FS_Subset
<1>3. ASSUME a # b PROVE FALSE
  <2>1. Ahead(a, b) \/ Ahead(b, a)
    BY <1>1, <1>3 DEF InLine
  <2>2. Position(a) < Position(b) \/ Position(b) < Position(a)
    BY <1>2, <2>1
  <2> QED BY <2>2, PositionType
<1> QED BY <1>3

\* One order changes: of another, only that one may come ahead or fall behind.
LEMMA PositionMoved ==
  ASSUME Documents, screen' = screen, screen.name \in Paged,
         NEW x, \A b \in Orders : b # x => orders'[b] = orders[b],
         NEW o \in Orders, o # x
  PROVE  /\ o \in Listed(screen.name)' <=> o \in Listed(screen.name)
         /\ \A b \in Orders : b # x => (Ahead(b, o)' <=> Ahead(b, o))
         /\ InFront(o)' \ {x} = InFront(o) \ {x}
         /\ Position(o) \in Nat /\ Position(o)' \in Nat
         /\ x \in InFront(o)' /\ x \notin InFront(o) => Position(o)' = Position(o) + 1
         /\ x \in InFront(o) /\ x \notin InFront(o)' => Position(o)' = Position(o) - 1
         /\ (x \in InFront(o) <=> x \in InFront(o)') => Position(o)' = Position(o)
<1>1. \A b \in Orders : b # x => (b \in Listed(screen.name)' <=> b \in Listed(screen.name))
  BY DEF Listed, AtHome, OrdersIn, Stored
<1>2. \A b \in Orders : b # x => (Ahead(b, o)' <=> Ahead(b, o))
  <2> SUFFICES ASSUME NEW d \in Orders, d # x PROVE Ahead(d, o)' <=> Ahead(d, o)
    OBVIOUS
  <2>1. orders'[d] = orders[d] /\ orders'[o] = orders[o]
    OBVIOUS
  <2>2. AheadRule /\ AheadRule'
    BY AheadIs, PTL
  <2>3. CASE screen.name = "history"
    BY <2>2, <2>3 DEF AheadRule
  <2>4. CASE screen.name = "queue" /\ orders[d].hasExceptions = orders[o].hasExceptions
    BY <2>1, <2>2, <2>4 DEF AheadRule
  <2>5. CASE screen.name = "queue" /\ ~(orders[d].hasExceptions = orders[o].hasExceptions)
    BY <2>1, <2>2, <2>5 DEF AheadRule
  <2> QED BY <2>3, <2>4, <2>5 DEF Paged
<1>3. InFront(o) \subseteq Orders /\ InFront(o)' \subseteq Orders
  BY ListedOrders DEF InFront, Listed, AtHome, OrdersIn, Stored
<1>4. InFront(o)' \ {x} = InFront(o) \ {x}
  BY <1>1, <1>2, <1>3 DEF InFront
<1> DEFINE rest == InFront(o) \ {x}
<1>5. IsFiniteSet(InFront(o)) /\ Position(o) = Cardinality(InFront(o)) /\ Position(o) \in Nat
  BY PositionType
<1>6. (Position(o) = Cardinality(InFront(o)))'
  BY PositionType, PTL
<1>7. Position(o)' = Cardinality(InFront(o)')
  BY <1>6
<1>8. IsFiniteSet(rest) /\ Cardinality(rest) \in Nat /\ x \notin rest
  BY <1>5, FS_RemoveElement, FS_CardinalityType
<1>9. InFront(o) = (IF x \in InFront(o) THEN rest \cup {x} ELSE rest)
  OBVIOUS
<1>10. InFront(o)' = (IF x \in InFront(o)' THEN rest \cup {x} ELSE rest)
  BY <1>4
<1> HIDE DEF rest
<1>11. Cardinality(rest \cup {x}) = Cardinality(rest) + 1
  BY <1>8, FS_AddElement
<1>12. /\ x \in InFront(o) => Position(o) = Cardinality(rest) + 1
       /\ x \notin InFront(o) => Position(o) = Cardinality(rest)
  BY <1>5, <1>9, <1>11
<1>13. /\ x \in InFront(o)' => Position(o)' = Cardinality(rest) + 1
       /\ x \notin InFront(o)' => Position(o)' = Cardinality(rest)
  BY <1>7, <1>10, <1>11
<1> QED
  <2> DEFINE p == Position(o)
             p2 == Position(o)'
             n == Cardinality(rest)
             was == x \in InFront(o)
             is == x \in InFront(o)'
  <2>1. o \in Listed(screen.name)' <=> o \in Listed(screen.name)
    BY <1>1
  <2>2. /\ (was => p = n + 1) /\ (~was => p = n)
        /\ (is => p2 = n + 1) /\ (~is => p2 = n) /\ n \in Nat
    BY <1>8, <1>12, <1>13
  <2> HIDE DEF p, p2, n, was, is
  <2>3. /\ p \in Nat /\ p2 \in Nat
        /\ is /\ ~was => p2 = p + 1
        /\ was /\ ~is => p2 = p - 1
        /\ (was <=> is) => p2 = p
    BY <2>2
  <2> QED BY <1>2, <1>4, <2>1, <2>3 DEF p, p2, n, was, is

---------------------------------------------------------------------------
\* The orders to be shown that the pages have not shown yet.
Missing ==
  IF screen.name = "queue" THEN (screen.listed \ changed) \ screen.rows ELSE screen.listed \ screen.rows

\* The pages whose rows are answered, the orders on them, and whether the user was
\* told where the last page ends.
Turned == IF "rows" \in screen.unread THEN screen.page - 1 ELSE screen.page
Edge == Turned * Limit
Ended == screen.page # 0 /\ "total" \notin screen.unread

\* Those that no page will show any more: they are ahead of the pages that were
\* read, or behind the end that the user was told of.
PassedOver ==
  {o \in Missing : \/ Position(o) < Edge
                   \/ Ended /\ Position(o) >= screen.count["total"]}

\* Each order passed over cost a change: of any order in the queue, a new one in
\* the history.
PagesKept ==
  screen.name \in Paged =>
    /\ Missing \subseteq Listed(screen.name)
    /\ Cardinality(PassedOver) <= IF screen.name = "queue" THEN changes ELSE created

LEMMA EdgeType ==
  ASSUME ScreenAt(screen), screen.name \in Paged
  PROVE  /\ Turned \in Nat /\ Edge \in Nat
         /\ Ended => screen.count["total"] \in Nat
<1>1. "rows" \in screen.unread => screen.page # 0
  BY RowsOfPage DEF ScreenAt, Shape
<1>2. Turned \in Nat
  BY <1>1 DEF Turned, ScreenAt, Shape
<1>3. Edge \in Nat
  BY <1>2, ReadModelsAssumption DEF Edge, ReadModelsAssumption
<1>4. Ended => screen.count["total"] \in Nat
  BY DEF Ended, ScreenAt, Shape
<1> QED BY <1>2, <1>3, <1>4

LEMMA PassedOverFinite ==
  ASSUME ScreenAt(screen)
  PROVE  /\ Missing \subseteq Orders /\ PassedOver \subseteq Missing
         /\ IsFiniteSet(PassedOver) /\ Cardinality(PassedOver) \in Nat
<1>1. Missing \subseteq Orders
  BY DEF Missing, ScreenAt, Shape
<1>2. PassedOver \subseteq Missing
  BY DEF PassedOver
<1> QED BY <1>1, <1>2, OrderNumbers, FS_Subset, FS_CardinalityType

\* One order moves: it hides one other at most, the one at the edge.
LEMMA OneHidden ==
  ASSUME Documents, Documents', ScreenAt(screen), screen' = screen, screen.name \in Paged,
         NEW x \in Orders, \A b \in Orders : b # x => orders'[b] = orders[b],
         Missing \subseteq Listed(screen.name), Missing' \subseteq Missing, x \notin Missing'
  PROVE  \E y : PassedOver' \subseteq PassedOver \cup {y}
<1> DEFINE k == Edge
           c == screen.count["total"]
           New == PassedOver' \ PassedOver
<1>1. k \in Nat /\ (Ended => c \in Nat) /\ k' = k /\ c' = c /\ (Ended' <=> Ended)
  BY EdgeType DEF Edge, Turned, Ended
<1>2. Missing' \subseteq Orders /\ Missing \subseteq Orders
  BY PassedOverFinite
<1>3. \A o \in Missing' :
        /\ Position(o) \in Nat /\ Position(o)' \in Nat
        /\ x \in InFront(o)' /\ x \notin InFront(o) => Position(o)' = Position(o) + 1
        /\ x \in InFront(o) /\ x \notin InFront(o)' => Position(o)' = Position(o) - 1
        /\ (x \in InFront(o) <=> x \in InFront(o)') => Position(o)' = Position(o)
  BY <1>2, PositionMoved
<1>4. PassedOver' = {o \in Missing' : \/ Position(o)' < k
                                      \/ Ended /\ Position(o)' >= c}
  BY <1>1 DEF PassedOver
<1>5. ASSUME NEW o \in New
      PROVE  /\ o \in Missing' /\ o \in Missing /\ o \in Orders /\ o # x
             /\ \/ Position(o) = k /\ x \in InFront(o) /\ x \notin InFront(o)'
                \/ Ended /\ Position(o) = c - 1 /\ x \in InFront(o)' /\ x \notin InFront(o)
  <2>1. o \in Missing' /\ o \in Missing /\ o \in Orders /\ o # x
    BY <1>2, <1>4
  <2>2. \/ Position(o)' < k
        \/ Ended /\ Position(o)' >= c
    BY <1>4
  <2>3. ~(Position(o) < k) /\ ~(Ended /\ Position(o) >= c)
    BY <2>1 DEF PassedOver
  <2> DEFINE p == Position(o)
             p2 == Position(o)'
             was == x \in InFront(o)
             is == x \in InFront(o)'
  <2>4. /\ p \in Nat /\ p2 \in Nat
        /\ is /\ ~was => p2 = p + 1
        /\ was /\ ~is => p2 = p - 1
        /\ (was <=> is) => p2 = p
    BY <1>3, <2>1
  <2>5. /\ p2 < k \/ (Ended /\ p2 >= c)
        /\ ~(p < k) /\ ~(Ended /\ p >= c)
    BY <2>2, <2>3
  <2> HIDE DEF p, p2, was, is, k, c
  <2>6. \/ p = k /\ was /\ ~is
        \/ Ended /\ p = c - 1 /\ is /\ ~was
    BY <1>1, <2>4, <2>5
  <2> QED BY <2>1, <2>6 DEF p, was, is
<1>6. ASSUME NEW a \in New, NEW b \in New,
             x \in InFront(a), x \notin InFront(a)', x \in InFront(b)', x \notin InFront(b)
      PROVE  FALSE
  <2>1. /\ a \in Orders /\ b \in Orders /\ a # x /\ b # x
    BY <1>5
  <2>2. InLine /\ InLine'
    <3>1. (Documents /\ screen.name \in Paged => InLine)'
      BY AllInLine, PTL
    <3> QED BY <3>1, AllInLine
  <2>3. x \in Listed(screen.name) /\ Ahead(x, a) /\ x \in Listed(screen.name)' /\ Ahead(x, b)'
    BY <1>6 DEF InFront
  <2>4. ~Ahead(x, b) /\ ~Ahead(x, a)'
    BY <1>6, <2>3 DEF InFront
  <2>5. Ahead(b, x) /\ Ahead(a, x)'
    BY <2>1, <2>2, <2>4 DEF InLine
  <2>6. Ahead(b, a) /\ Ahead(a, b)'
    BY <2>1, <2>2, <2>3, <2>5 DEF InLine
  <2>7. Ahead(a, b)' <=> Ahead(a, b)
    BY <2>1, PositionMoved
  <2> QED BY <2>1, <2>2, <2>6, <2>7 DEF InLine
<1>7. ASSUME NEW a \in New, NEW b \in New PROVE a = b
  <2>1. a \in Listed(screen.name) /\ b \in Listed(screen.name)
    BY <1>5
  <2>2. (Position(a) = k /\ Position(b) = k) \/ (Position(a) = c - 1 /\ Position(b) = c - 1)
    BY <1>5, <1>6
  <2>3. Position(a) = Position(b)
    BY <2>2
  <2> QED BY <2>1, <2>3, PositionsDiffer
<1> HIDE DEF New
<1>8. \E y : New \subseteq {y}
  <2>1. CASE New = {}
    BY <2>1
  <2>2. CASE New # {}
    <3>1. PICK y : y \in New
      BY <2>2
    <3>2. New \subseteq {y}
      BY <1>7, <3>1
    <3> QED BY <3>2
  <2> QED BY <2>1, <2>2
<1> QED BY <1>8 DEF New

\* How many orders may be passed over.
Bound == IF screen.name = "queue" THEN changes ELSE created

\* No more is hidden than before.
LEMMA NoneHidden ==
  ASSUME ScreenAt(screen), screen'.name = screen.name, Documents, Documents', PagesKept,
         changes' >= changes, created' >= created,
         screen.name \in Paged =>
           Missing' \subseteq Listed(screen.name)' /\ PassedOver' \subseteq PassedOver
  PROVE  PagesKept'
<1> SUFFICES ASSUME screen.name \in Paged
             PROVE  Missing' \subseteq Listed(screen.name)' /\ Cardinality(PassedOver') <= Bound'
  BY DEF PagesKept, Bound
<1>1. IsFiniteSet(PassedOver) /\ Cardinality(PassedOver) \in Nat
  BY PassedOverFinite
<1>2. Cardinality(PassedOver') \in Nat /\ Cardinality(PassedOver') <= Cardinality(PassedOver)
  BY <1>1, FS_Subset, FS_CardinalityType
<1>3. Cardinality(PassedOver) <= Bound
  BY DEF PagesKept, Bound
<1>4. Bound \in Nat /\ Bound' \in Nat /\ Bound <= Bound'
  BY DEF Bound, Documents
<1>5. Cardinality(PassedOver') <= Bound'
  BY <1>1, <1>2, <1>3, <1>4
<1> QED BY <1>5

\* One more is hidden, by one more change.
LEMMA OneMoreHidden ==
  ASSUME ScreenAt(screen), screen'.name = screen.name, Documents, PagesKept,
         screen.name \in Paged, Bound' = Bound + 1,
         Missing' \subseteq Listed(screen.name)', \E y : PassedOver' \subseteq PassedOver \cup {y}
  PROVE  PagesKept'
<1>1. PICK y : PassedOver' \subseteq PassedOver \cup {y}
  OBVIOUS
<1>2. IsFiniteSet(PassedOver) /\ Cardinality(PassedOver) \in Nat
  BY PassedOverFinite
<1>3. /\ IsFiniteSet(PassedOver \cup {y}) /\ Cardinality(PassedOver \cup {y}) \in Nat
      /\ Cardinality(PassedOver \cup {y}) <= Cardinality(PassedOver) + 1
  <2>1. CASE y \in PassedOver
    <3>1. PassedOver \cup {y} = PassedOver
      BY <2>1
    <3> QED BY <1>2, <3>1
  <2>2. CASE y \notin PassedOver
    BY <1>2, <2>2, FS_AddElement
  <2> QED BY <2>1, <2>2
<1>4. Cardinality(PassedOver') \in Nat /\ Cardinality(PassedOver') <= Cardinality(PassedOver \cup {y})
  BY <1>1, <1>3, FS_Subset, FS_CardinalityType
<1>5. Cardinality(PassedOver) <= Bound /\ Bound \in Nat
  BY DEF PagesKept, Bound, Documents
<1>6. Cardinality(PassedOver') <= Bound'
  BY <1>2, <1>3, <1>4, <1>5
<1> QED BY <1>6 DEF PagesKept, Bound

\* An order of a screen's page that another request does not touch stays on it.
LEMMA OthersListed ==
  ASSUME NEW x, \A b \in Orders : b # x => orders'[b] = orders[b], NEW name
  PROVE  \A b \in Orders : b # x => (b \in Listed(name)' <=> b \in Listed(name))
BY DEF Listed, AtHome, OrdersIn, Stored

LEMMA ListedStored ==
  ASSUME Documents, NEW name
  PROVE  Listed(name) \subseteq Stored
BY ReadModelsAssumption
   DEF Listed, AtHome, OrdersIn, Stored, QueueStates, NoOrder

\* An order of the queue changes.
LEMMA QueueChange ==
  ASSUME ScreenAt(screen), Documents, PagesKept, screen.name = "queue",
         NEW o \in Orders, NEW state \in OrderStates, NEW flag \in BOOLEAN, ChangeOrder(o, state, flag)
  PROVE  PagesKept'
<1>1. /\ Documents' /\ screen' = screen
      /\ \A b \in Orders : b # o => orders'[b] = orders[b]
      /\ changes' = changes + 1 /\ created' = created /\ changed' = changed \cup {o}
  BY ChangeOrderKeeps
<1>2. screen.name \in Paged
  BY DEF Paged
<1>3. Missing \subseteq Listed(screen.name)
  BY <1>2 DEF PagesKept
<1>4. Missing' \subseteq Missing /\ o \notin Missing'
  BY <1>1 DEF Missing
<1>5. Missing' \subseteq Listed(screen.name)'
  BY <1>1, <1>3, <1>4, OthersListed, ListedOrders
<1>6. \E y : PassedOver' \subseteq PassedOver \cup {y}
  BY <1>1, <1>2, <1>3, <1>4, OneHidden
<1>7. Bound' = Bound + 1
  BY <1>1 DEF Bound
<1> QED BY <1>1, <1>2, <1>5, <1>6, <1>7, OneMoreHidden

\* A new order comes at the end of the queue.
LEMMA QueueSubmit ==
  ASSUME ScreenAt(screen), Documents, PagesKept, screen.name = "queue",
         NEW o \in Orders, NEW rooftop \in Rooftop, Submit(o, rooftop)
  PROVE  PagesKept'
<1>1. /\ Documents' /\ screen' = screen
      /\ \A b \in Orders : b # o => orders'[b] = orders[b]
      /\ Stored' = Stored \cup {o} /\ o \notin Stored
      /\ orders'[o] = NewOrder(rooftop)
  BY SubmitKeeps
<1>2. changes' = changes /\ created' = created + 1 /\ changed' = changed \cup {o}
  BY DEF Submit
<1>3. screen.name \in Paged
  BY DEF Paged
<1>4. Missing \subseteq Listed(screen.name) /\ Listed(screen.name) \subseteq Stored
  BY <1>3, ListedStored DEF PagesKept
<1>5. Missing' = Missing
  BY <1>1, <1>2, <1>4 DEF Missing
<1>6. Missing' \subseteq Listed(screen.name)'
  BY <1>1, <1>4, <1>5, OthersListed, ListedOrders
<1>7. ASSUME NEW b \in Missing PROVE Position(b)' = Position(b)
  <2>1. b \in Orders /\ b # o /\ b \in Stored
    BY <1>1, <1>4, ListedOrders
  <2>2. b < o
    <3>1. Stored = 1 .. Cardinality(Stored) /\ Cardinality(Stored) \in Nat
      BY NumberedByAge DEF Documents
    <3>2. o = Cardinality(Stored) + 1
      BY DEF Submit
    <3> QED BY <2>1, <3>1, <3>2
  <2>3. b \in Nat /\ o \in Nat
    BY <2>1, OrderNumbers
  <2>4. orders'[o].hasExceptions = FALSE /\ orders'[b] = orders[b]
    BY <1>1, <2>1 DEF NewOrder
  <2>5. ~Ahead(o, b)'
    <3>1. AheadRule'
      BY AheadIs, PTL
    <3>2. CASE orders'[o].hasExceptions = orders'[b].hasExceptions
      BY <1>1, <2>2, <2>3, <3>1, <3>2 DEF AheadRule
    <3>3. CASE ~(orders'[o].hasExceptions = orders'[b].hasExceptions)
      BY <1>1, <2>4, <3>1, <3>3 DEF AheadRule
    <3> QED BY <3>2, <3>3
  <2>6. o \notin InFront(b)'
    BY <2>5 DEF InFront
  <2>7. o \notin InFront(b)
    BY <1>1, <1>4 DEF InFront
  <2> QED BY <1>1, <1>3, <2>1, <2>6, <2>7, PositionMoved
<1>8. PassedOver' = PassedOver
  BY <1>1, <1>5, <1>7 DEF PassedOver, Edge, Turned, Ended
<1>9. changes' >= changes /\ created' >= created
  BY <1>2 DEF Documents
<1> QED BY <1>1, <1>6, <1>8, <1>9, NoneHidden

\* In the history an order keeps its place, whatever is done to it.
LEMMA HistoryChange ==
  ASSUME ScreenAt(screen), Documents, PagesKept, screen.name = "history",
         NEW o \in Orders, NEW state \in OrderStates, NEW flag \in BOOLEAN, ChangeOrder(o, state, flag)
  PROVE  PagesKept'
<1>1. /\ Documents' /\ screen' = screen
      /\ \A b \in Orders : b # o => orders'[b] = orders[b]
      /\ Stored' = Stored /\ orders'[o].rooftop = orders[o].rooftop
      /\ changes' = changes + 1 /\ created' = created
  BY ChangeOrderKeeps
<1>2. screen.name \in Paged
  BY DEF Paged
<1>3. Listed(screen.name)' = Listed(screen.name)
  <2>1. \A b \in Stored : orders'[b].rooftop = orders[b].rooftop
    BY <1>1 DEF Stored
  <2>2. Listed(screen.name) = {b \in Stored : orders[b].rooftop = Home}
    BY DEF Listed, AtHome
  <2>3. Listed(screen.name)' = {b \in Stored' : orders'[b].rooftop = Home}
    BY <1>1 DEF Listed, AtHome
  <2> QED BY <1>1, <2>1, <2>2, <2>3
<1>4. Missing' = Missing /\ Missing \subseteq Listed(screen.name)
  BY <1>1, <1>2 DEF Missing, PagesKept
<1>5. \A b \in Missing : Position(b)' = Position(b)
  <2>1. AheadRule /\ AheadRule'
    BY AheadIs, PTL
  <2>2. \A a, b : Ahead(a, b)' <=> Ahead(a, b)
    BY <1>1, <2>1 DEF AheadRule
  <2> QED BY <1>3, <2>2 DEF Position
<1>6. PassedOver' = PassedOver
  BY <1>1, <1>4, <1>5 DEF PassedOver, Edge, Turned, Ended
<1>7. changes' >= changes /\ created' >= created
  BY <1>1 DEF Documents
<1> QED BY <1>1, <1>3, <1>4, <1>6, <1>7, NoneHidden

\* A new order comes first in the history, and moves the others back.
LEMMA HistorySubmit ==
  ASSUME ScreenAt(screen), Documents, PagesKept, screen.name = "history",
         NEW o \in Orders, NEW rooftop \in Rooftop, Submit(o, rooftop)
  PROVE  PagesKept'
<1>1. /\ Documents' /\ screen' = screen
      /\ \A b \in Orders : b # o => orders'[b] = orders[b]
      /\ Stored' = Stored \cup {o} /\ o \notin Stored
  BY SubmitKeeps
<1>2. created' = created + 1
  BY DEF Submit
<1>3. screen.name \in Paged
  BY DEF Paged
<1>4. Missing \subseteq Listed(screen.name) /\ Listed(screen.name) \subseteq Stored
  BY <1>3, ListedStored DEF PagesKept
<1>5. Missing' = Missing /\ o \notin Missing'
  BY <1>1, <1>4 DEF Missing
<1>6. Missing' \subseteq Listed(screen.name)'
  BY <1>1, <1>4, <1>5, OthersListed, ListedOrders
<1>7. \E y : PassedOver' \subseteq PassedOver \cup {y}
  BY <1>1, <1>3, <1>4, <1>5, OneHidden
<1>8. Bound' = Bound + 1
  BY <1>1, <1>2 DEF Bound
<1> QED BY <1>1, <1>3, <1>6, <1>7, <1>8, OneMoreHidden

\* The count of a page, or a tile of the summary, is answered: the count is of all
\* the orders listed, so that none of them is behind it.
LEMMA CountHidesNone ==
  ASSUME ScreenAt(screen), Documents, PagesKept, NEW tile \in screen.unread, ReadTile(tile)
  PROVE  PagesKept'
<1>1. /\ ScreenAt(screen') /\ tile # "rows" /\ Answers(tile)
      /\ screen'.name = screen.name /\ screen'.rows = screen.rows /\ screen'.listed = screen.listed
      /\ screen'.count = Answer(tile, Cardinality(Counted(screen.name, tile)))
      /\ screen.name \in Paged => TurnedOrNot(tile)
  BY TileAnswered
<1>2. UNCHANGED <<orders, rfqs, changes, created, changed>>
  BY <1>1 DEF Answers
<1>3. Documents'
  BY <1>2, ReadKeepsDocuments
<1>4. changes' >= changes /\ created' >= created
  BY <1>2 DEF Documents
<1>5. ASSUME screen.name \in Paged
      PROVE  Missing' \subseteq Listed(screen.name)' /\ PassedOver' \subseteq PassedOver
  <2>1. Listed(screen.name)' = Listed(screen.name)
    BY <1>1, <1>2 DEF Listed, AtHome, OrdersIn, Stored
  <2>2. Missing' = Missing /\ Missing \subseteq Listed(screen.name)
    BY <1>1, <1>2, <1>5 DEF Missing, PagesKept
  <2>3. \A b : Position(b)' = Position(b)
    <3>1. AheadRule /\ AheadRule'
      BY AheadIs, PTL
    <3>2. \A a, b : Ahead(a, b)' <=> Ahead(a, b)
      BY <1>1, <1>2, <1>5, <3>1 DEF AheadRule, Paged
    <3> QED BY <2>1, <3>2 DEF Position
  <2>4. screen.page \in Nat /\ screen'.page \in Nat
    BY <1>1 DEF ScreenAt, Shape
  <2>5. Turned' = Turned
    <3>1. CASE screen'.unread = screen.unread \ {tile} /\ screen'.page = screen.page
      BY <1>1, <3>1 DEF Turned
    <3>2. CASE screen'.unread = OnePage /\ screen'.page = screen.page + 1 /\ screen.unread \ {tile} = {}
      <4>1. "rows" \notin screen.unread /\ "rows" \in screen'.unread
        BY <1>1, <3>2 DEF OnePage
      <4>2. Turned' = screen'.page - 1 /\ Turned = screen.page
        BY <4>1 DEF Turned
      <4> QED BY <2>4, <3>2, <4>2
    <3> QED BY <1>1, <1>5, <3>1, <3>2 DEF TurnedOrNot
  <2>6. Edge' = Edge
    BY <2>5 DEF Edge
  <2>7. ASSUME Ended', NEW b \in Missing, Position(b) >= screen'.count["total"]
        PROVE  Ended /\ Position(b) >= screen.count["total"]
    <3>1. screen'.unread # OnePage
      BY <2>7 DEF Ended, OnePage
    <3>2. screen'.unread = screen.unread \ {tile} /\ screen'.page = screen.page
      BY <1>1, <1>5, <3>1 DEF TurnedOrNot
    <3>3. screen.page # 0
      BY <2>7, <3>2 DEF Ended
    <3>4. CASE tile = "total"
      <4>1. Counted(screen.name, "total") = Listed(screen.name)
        <5>1. CASE screen.name = "queue"
          BY <5>1, CountedBy, QueueTileIs DEF Listed
        <5>2. CASE screen.name = "history"
          BY <5>2, CountedBy DEF Listed
        <5> QED BY <1>5, <5>1, <5>2 DEF Paged
      <4>2. screen'.count["total"] = Cardinality(Listed(screen.name))
        BY <1>1, <3>4, <4>1 DEF Answer
      <4>3. Position(b) < Cardinality(Listed(screen.name))
        BY <1>5, <2>2, PositionInLine
      <4> QED BY <2>7, <4>2, <4>3, PositionType, ListedOrders
    <3>5. CASE tile # "total"
      <4>1. "total" \notin screen.unread
        BY <2>7, <3>2, <3>5 DEF Ended
      <4>2. "total" \in DOMAIN screen.count
        BY <1>5, <3>3, <4>1 DEF ScreenAt, Shape
      <4>3. screen'.count["total"] = screen.count["total"]
        BY <1>1, <3>5, <4>2 DEF Answer
      <4> QED BY <2>7, <3>3, <4>1, <4>3 DEF Ended
    <3> QED BY <3>4, <3>5
  <2>8. PassedOver' \subseteq PassedOver
    BY <2>2, <2>3, <2>6, <2>7 DEF PassedOver
  <2> QED BY <2>1, <2>2, <2>8
<1> QED BY <1>1, <1>3, <1>4, <1>5, NoneHidden

\* The rows of a page are answered: those are the orders up to its edge.
LEMMA RowsHideNone ==
  ASSUME ScreenAt(screen), Documents, PagesKept, ReadRows
  PROVE  PagesKept'
<1>1. /\ ScreenAt(screen') /\ screen.name \in Paged /\ screen.page # 0 /\ "rows" \in screen.unread
      /\ screen'.name = screen.name /\ screen'.listed = screen.listed
      /\ screen'.count = screen.count /\ screen'.rows = screen.rows \cup PageOf(screen.page)
      /\ UNCHANGED <<orders, rfqs, changes, created, changed>>
      /\ TurnedOrNot("rows")
  BY RowsAnswered
<1>2. Documents'
  BY <1>1, ReadKeepsDocuments
<1>3. changes' >= changes /\ created' >= created
  BY <1>1 DEF Documents
<1>4. Listed(screen.name)' = Listed(screen.name)
  BY <1>1 DEF Listed, AtHome, OrdersIn, Stored
<1>5. Missing' = Missing \ PageOf(screen.page) /\ Missing \subseteq Listed(screen.name)
  BY <1>1 DEF Missing, PagesKept
<1>6. \A b : Position(b)' = Position(b)
  <2>1. AheadRule /\ AheadRule'
    BY AheadIs, PTL
  <2>2. \A a, b : Ahead(a, b)' <=> Ahead(a, b)
    BY <1>1, <2>1 DEF AheadRule, Paged
  <2> QED BY <1>4, <2>2 DEF Position
<1>7. screen.page \in Nat /\ screen'.page \in Nat
  BY <1>1 DEF ScreenAt, Shape
<1>8. Turned = screen.page - 1 /\ Turned' = screen.page
  <2>1. Turned = screen.page - 1
    BY <1>1 DEF Turned
  <2>2. CASE screen'.unread = screen.unread \ {"rows"} /\ screen'.page = screen.page
    BY <2>1, <2>2 DEF Turned
  <2>3. CASE screen'.unread = OnePage /\ screen'.page = screen.page + 1
    <3>1. Turned' = screen'.page - 1
      BY <2>3 DEF Turned, OnePage
    <3> QED BY <1>7, <2>1, <2>3, <3>1
  <2> QED BY <1>1, <2>2, <2>3 DEF TurnedOrNot
<1>9. Edge = (screen.page - 1) * Limit /\ Edge' = screen.page * Limit
  BY <1>8 DEF Edge
<1>10. Edge \in Nat /\ Edge' \in Nat
  <2>1. Edge \in Nat /\ Limit \in Nat
    BY <1>1, EdgeType, ReadModelsAssumption DEF ReadModelsAssumption
  <2> QED BY <1>7, <1>9, <2>1
<1>11. ASSUME NEW b \in Missing', Position(b) < Edge' PROVE Position(b) < Edge
  <2>1. b \in Listed(screen.name) /\ b \notin PageOf(screen.page)
    BY <1>5
  <2>2. Position(b) \notin Edge .. Edge' - 1
    BY <1>9, <2>1 DEF PageOf
  <2>3. Position(b) \in Nat
    BY PositionType
  <2> DEFINE p == Position(b)
             e == Edge
             e2 == Edge'
  <2>4. p \notin e .. e2 - 1 /\ p < e2 /\ p \in Nat /\ e \in Nat /\ e2 \in Nat
    BY <1>10, <1>11, <2>2, <2>3
  <2> HIDE DEF p, e, e2
  <2>5. p < e
    BY <2>4
  <2> QED BY <2>5 DEF p, e
<1>12. Ended' => Ended /\ screen'.count["total"] = screen.count["total"]
  <2> SUFFICES ASSUME Ended' PROVE Ended /\ screen'.count["total"] = screen.count["total"]
    OBVIOUS
  <2>1. screen'.unread # OnePage
    BY DEF Ended, OnePage
  <2>2. screen'.unread = screen.unread \ {"rows"}
    BY <1>1, <2>1 DEF TurnedOrNot
  <2> QED BY <1>1, <2>2 DEF Ended
<1>13. PassedOver' \subseteq PassedOver
  BY <1>5, <1>6, <1>11, <1>12 DEF PassedOver
<1>14. Missing' \subseteq Listed(screen.name)'
  BY <1>4, <1>5
<1> QED BY <1>1, <1>2, <1>3, <1>13, <1>14, NoneHidden

LEMMA PagesOpened ==
  ASSUME ScreenInit
  PROVE  PagesKept
<1>1. PICK name \in Names : screen = Opened(name)
  BY ReadModelsAssumption DEF ScreenInit, ReadModelsAssumption, Names
<1>2. /\ ScreenAt(screen) /\ screen.name = name /\ screen.rows = {} /\ screen.listed = Listed(name)
      /\ screen.page = 0 \/ (screen.page = 1 /\ screen.unread = OnePage)
  BY <1>1, OpenedIs
<1>3. changed = {} /\ changes = 0 /\ created = 0
  BY DEF ScreenInit
<1> SUFFICES ASSUME screen.name \in Paged
             PROVE  Missing \subseteq Listed(screen.name) /\ Cardinality(PassedOver) <= Bound
  BY DEF PagesKept, Bound
<1>4. Missing \subseteq Listed(screen.name)
  BY <1>2, <1>3 DEF Missing
<1>5. Turned = 0 /\ ~Ended
  <2>1. CASE screen.page = 0
    <3>1. "rows" \notin screen.unread
      BY <1>2, <2>1, RowsOfPage DEF ScreenAt, Shape
    <3> QED BY <2>1, <3>1 DEF Turned, Ended
  <2>2. CASE screen.page = 1 /\ screen.unread = OnePage
    BY <2>2 DEF Turned, Ended, OnePage
  <2> QED BY <1>2, <2>1, <2>2
<1>6. Edge = 0
  BY <1>5, ReadModelsAssumption DEF Edge, ReadModelsAssumption
<1>7. \A o : ~(Position(o) < 0)
  BY PositionType
<1>8. PassedOver = {}
  BY <1>5, <1>6, <1>7 DEF PassedOver
<1> QED BY <1>3, <1>4, <1>8, FS_EmptySet DEF Bound

\* Every step keeps the bound on what is passed over.
LEMMA StepKeepsPages ==
  ASSUME ScreenInductive, PagesKept, [ScreenNext]_screenVars
  PROVE  PagesKept'
<1> USE DEF ScreenInductive
<1>1. ASSUME ReadRows PROVE PagesKept'
  BY <1>1, RowsHideNone
<1>2. ASSUME NEW tile \in screen.unread, ReadTile(tile) PROVE PagesKept'
  BY <1>2, CountHidesNone
<1>3. ASSUME NEW o \in Orders, NEW rooftop \in Rooftop, Submit(o, rooftop) PROVE PagesKept'
  <2>1. screen' = screen
    BY <1>3 DEF Submit
  <2>2. CASE screen.name \notin Paged
    BY <2>1, <2>2 DEF PagesKept
  <2> QED BY <1>3, <2>2, QueueSubmit, HistorySubmit DEF Paged
<1>4. ASSUME NEW o \in Orders, NEW state \in OrderStates, NEW flag \in BOOLEAN,
             ChangeOrder(o, state, flag)
      PROVE  PagesKept'
  <2>1. screen' = screen
    BY <1>4 DEF ChangeOrder, Disturb
  <2>2. CASE screen.name \notin Paged
    BY <2>1, <2>2 DEF PagesKept
  <2> QED BY <1>4, <2>2, QueueChange, HistoryChange DEF Paged
<1>5. ASSUME NEW q \in Rfqs, NEW new \in Rfq, ReceiveRfq(q, new) \/ ChangeRfq(q, new)
      PROVE  PagesKept'
  <2>1. screen' = screen /\ screen.name \in OfRfqs
    BY <1>5, ChangeRfqKeeps
  <2> QED BY <2>1 DEF PagesKept, Paged, OfRfqs
<1>6. ASSUME UNCHANGED screenVars PROVE PagesKept'
  <2>1. /\ screen' = screen /\ orders' = orders
        /\ changes' = changes /\ created' = created /\ changed' = changed
    BY <1>6 DEF screenVars
  <2>2. Listed(screen.name)' = Listed(screen.name)
    BY <2>1 DEF Listed, AtHome, OrdersIn, Stored
  <2>3. \A b : Position(b)' = Position(b)
    BY <2>1 DEF Position, Listed, AtHome, OrdersIn, Stored, Ahead
  <2>4. Missing' = Missing /\ PassedOver' = PassedOver
    BY <2>1, <2>3 DEF Missing, PassedOver, Edge, Turned, Ended
  <2> QED BY <2>1, <2>2, <2>4 DEF PagesKept
<1> QED BY <1>1, <1>2, <1>3, <1>4, <1>5, <1>6 DEF ScreenNext

\* A screen is complete when its last page is at the end it was told of.
LEMMA AllShown == ScreenInductive /\ PagesKept => PagesShowAll
<1> SUFFICES ASSUME ScreenInductive, PagesKept, screen.name \in Paged, screen.unread = {}
             PROVE  Cardinality(Missing) <= Bound
  BY DEF PagesShowAll, Complete, Paged, Missing, Bound
<1>1. ScreenAt(screen)
  BY DEF ScreenInductive
<1>2. screen.page # 0 /\ screen.count["total"] <= screen.page * Limit /\ screen.page \in Nat
  BY <1>1 DEF ScreenAt, Shape
<1>3. Edge = screen.page * Limit /\ Ended
  BY <1>2 DEF Edge, Turned, Ended
<1>4. Edge \in Nat /\ screen.count["total"] \in Nat
  BY <1>1, <1>3, EdgeType
<1>5. \A o : Position(o) \in Nat
  BY PositionType
<1>6. \A o : Position(o) < Edge \/ Position(o) >= screen.count["total"]
  <2> DEFINE c == screen.count["total"]
  <2>1. c <= Edge
    BY <1>2, <1>3
  <2> HIDE DEF c
  <2>2. c \in Nat
    BY <1>4 DEF c
  <2>3. \A p \in Nat : p < Edge \/ p >= c
    BY <1>4, <2>1, <2>2
  <2> QED BY <1>5, <2>3 DEF c
<1>7. PassedOver = Missing
  BY <1>3, <1>6 DEF PassedOver
<1> QED BY <1>7 DEF PagesKept, Bound

\* Whoever turns the pages of getQueue sees every order that stays and is not itself
\* changed, but for one per change; of findAll (orders.service.ts), but for one per
\* new order.
THEOREM PagesAlwaysShowAll == ScreenSpec => []PagesShowAll
<1>1. ScreenInit => PagesKept
  BY PagesOpened
<1>2. ScreenInductive /\ PagesKept /\ [ScreenNext]_screenVars => PagesKept'
  BY StepKeepsPages
<1>3. ScreenSpec => []PagesKept
  BY <1>1, <1>2, ScreenInductiveHolds, PTL DEF ScreenSpec
<1> QED BY <1>3, AllShown, ScreenInductiveHolds, PTL
=============================================================================
