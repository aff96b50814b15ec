----------------------------- MODULE OrderDesk -----------------------------
(***************************************************************************)
(* What the warehouse desk is promised: the work on the lines of one order *)
(* (pick, raise an exception, re-source) behaves as if requests ran one    *)
(* after the other, each on the order the previous one left. Changing the  *)
(* order's overall state is promised less: it never touches a line, a      *)
(* count, a flag or a total, but what the history says it came from may    *)
(* not be the state it replaced.                                           *)
(***************************************************************************)
EXTENDS OrderDocument

VARIABLE order  \* the stored document

DeskInit == order = SubmittedOrder

DeskPick(l) == Pickable(order, l) /\ order' = PickLine(order, l)

DeskRaiseException(l) == order' = RaiseLineException(order, l)

DeskReSource(l) ==
  \E price \in Prices \cup {NoPrice} : order' = ReSourceLine(order, l, price)

DeskChangeState ==
  \E from \in OrderState, to \in OrderState, written \in BOOLEAN :
    order' = [order EXCEPT
                !.state = IF written THEN to ELSE order.state,
                !.lastStatus = [fromState |-> from, toState |-> to]]

DeskNext ==
  \/ \E l \in Lines : DeskPick(l) \/ DeskRaiseException(l) \/ DeskReSource(l)
  \/ DeskChangeState

DeskSpec == DeskInit /\ [][DeskNext]_order
=============================================================================
