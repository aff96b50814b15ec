-------------------------- MODULE OrderFulfilment --------------------------
(***************************************************************************)
(* Concurrent requests on one stored order: orders/orders.service.ts.      *)
(*                                                                         *)
(* Every handler loads the order (resolveOrder), edits the loaded copy     *)
(* without awaiting anything, and calls order.save(): other requests run   *)
(* between the load and the save. What save() writes is the mongoose       *)
(* delta of the copy:                                                      *)
(*  - the line handlers mark `lines` modified, so the whole array is set;  *)
(*    mongoose then adds the loaded __v to the filter and increments it,   *)
(*    and save() rejects with a VersionError when another save came first; *)
(*  - updateState sets `state` (only if it differs from the loaded one)    *)
(*    and pushes a history entry: a push increments __v without testing it.*)
(***************************************************************************)
EXTENDS OrderDesk

CONSTANTS
  Requests,      \* concurrent HTTP requests; each may be issued again
  TargetStates,  \* the states updateState requests ask for
  MaxVersion     \* bound on __v: how many saves a behaviour has

ASSUME RequestsAssumption ==
  /\ TargetStates \subseteq OrderState
  /\ MaxVersion \in Nat

VARIABLES
  version,  \* __v of the stored order
  req       \* each request: "idle", or "loaded" with its copy of the document

vars == <<order, version, req>>

Idle == [pc |-> "idle"]
Loaded(o, v) == [pc |-> "loaded", doc |-> o, v |-> v]

Init ==
  /\ DeskInit
  /\ version = 0
  /\ req = [r \in Requests |-> Idle]

\* resolveOrder: findOne by _id or order number.
Load(r) ==
  /\ req[r].pc = "idle"
  /\ req' = [req EXCEPT ![r] = Loaded(order, version)]
  /\ UNCHANGED <<order, version>>

\* Mutant: `lines` saved without the version filter.
SaveLinesUnversioned(r, edited) ==
  /\ req[r].pc = "loaded"
  /\ version < MaxVersion
  /\ order' = edited
  /\ version' = version + 1
  /\ req' = [req EXCEPT ![r] = Idle]

\* save() of a handler that marked `lines` modified.
SaveLines(r, edited) ==
  /\ req[r].pc = "loaded"
  /\ version < MaxVersion
  /\ req[r].v = version
  /\ order' = edited
  /\ version' = version + 1
  /\ req' = [req EXCEPT ![r] = Idle]

Pick(r, l) ==
  /\ req[r].pc = "loaded"
  /\ Pickable(req[r].doc, l)
  /\ SaveLines(r, PickLine(req[r].doc, l))

RaiseException(r, l) ==
  /\ req[r].pc = "loaded"
  /\ SaveLines(r, RaiseLineException(req[r].doc, l))

ReSource(r, l) ==
  /\ req[r].pc = "loaded"
  /\ \E price \in Prices \cup {NoPrice} :
       SaveLines(r, ReSourceLine(req[r].doc, l, price))

\* The request ends without a save: findOne, or a handler that throws because
\* the line does not exist or is cancelled.
AnswerOnly(r) ==
  /\ req[r].pc = "loaded"
  /\ req' = [req EXCEPT ![r] = Idle]
  /\ UNCHANGED <<order, version>>

\* save() of a line handler whose copy is out of date: VersionError, nothing
\* is written and the request fails.
VersionError(r) ==
  /\ req[r].pc = "loaded"
  /\ req[r].v # version
  /\ req' = [req EXCEPT ![r] = Idle]
  /\ UNCHANGED <<order, version>>

\* updateState. The copy may be out of date: an equal state is not written.
UpdateState(r, to) ==
  /\ req[r].pc = "loaded"
  /\ version < MaxVersion
  /\ LET from == req[r].doc.state IN
     order' = [order EXCEPT
                 !.state = IF to # from THEN to ELSE order.state,
                 !.lastStatus = [fromState |-> from, toState |-> to]]
  /\ version' = version + 1
  /\ req' = [req EXCEPT ![r] = Idle]

Next ==
  \E r \in Requests :
    \/ Load(r)
    \/ AnswerOnly(r)
    \/ VersionError(r)
    \/ \E l \in Lines : Pick(r, l) \/ RaiseException(r, l) \/ ReSource(r, l)
    \/ \E to \in TargetStates : UpdateState(r, to)

Spec == Init /\ [][Next]_vars

---------------------------------------------------------------------------
TypeOK ==
  /\ order \in OrderDoc
  /\ version \in 0 .. MaxVersion
  /\ req \in [Requests ->
               {Idle} \cup [pc : {"loaded"}, doc : OrderDoc, v : 0 .. MaxVersion]]

\* The queue filters and sorts on hasExceptions (getOrderQueue): whatever
\* requests overlap, no line in EXCEPTION is hidden behind a cleared flag.
ExceptionNeverHidden ==
  LinesIn(order.lines, "EXCEPTION") # {} => order.hasExceptions

\* pickedLinesCount is recomputed by pickLine only; re-sourcing or excepting a
\* picked line leaves it too high, but it never counts fewer lines than are
\* picked, so a fully picked order is never taken for a partial one.
PickedCountCovers ==
  Cardinality(LinesIn(order.lines, "PICKED")) <= order.pickedLinesCount

\* The stored subtotal, GST and total are those of the stored line prices:
\* two re-source requests that each recompute the totals of their own copy
\* cannot leave the sum of one with the prices of the other.
TotalsMatchLines == order.totals = Totals(UnitPrices(order.lines))

\* Line work makes the order PICKED only when every stored line is picked
\* (the handler counts on a copy that was loaded before the save).
LineWork == order'.lines # order.lines

PickedMeansAllPicked ==
  [][LineWork /\ order'.state = "PICKED" /\ order.state # "PICKED" =>
       LinesIn(order'.lines, "PICKED") = Lines]_vars

\* Line work takes an order out of EXCEPTION only when no stored line is left
\* in EXCEPTION.
ExceptionLeftWhenClear ==
  [][LineWork /\ order.state = "EXCEPTION" /\ order'.state # "EXCEPTION" =>
       LinesIn(order'.lines, "EXCEPTION") = {}]_vars

\* Concurrent requests on the order implement the serial desk of OrderDesk.
SerialDesk == DeskSpec
=============================================================================
