------------------------- MODULE TradeAccountProofs -------------------------
(***************************************************************************)
(* Proofs about what hangs on a trade account: its figures (TradeLedger),  *)
(* for any bundle, totals, requests and number of orders and years, and    *)
(* the prices it is shown (PartSourcing), for any rooftops, requests and   *)
(* bounds on time. The two components share no variable.                   *)
(*                                                                         *)
(* The figures: the order a request still has to count is its own and not  *)
(* counted, so each $inc counts one order more and adds its total. The sum *)
(* is a fold over a set; what it comes to for one element more is proved   *)
(* by induction on the size of the set.                                    *)
(*                                                                         *)
(* The prices: a row was resolved, and what a request holds was read, no   *)
(* later than MaxProbe after its discount was replaced; and what requests  *)
(* hold together with what is stored names all the sources there are.      *)
(***************************************************************************)
EXTENDS TradeLedger, PartSourcing, FoldLemmas, FiniteSetTheorems, SequenceTheorems, TLAPS

\* No order is counted by two requests, or again.
Pending ==
  \A r \in Requests :
    req[r].pc = "created" =>
      /\ req[r].order \in DOMAIN orders
      /\ ~orders[req[r].order].counted
      /\ \A s \in Requests \ {r} : req[s].pc = "created" => req[s].order # req[r].order

\* The count of LedgerConserved.
OrderCountConserved ==
  account.ytdOrderCount = Bundle.partsTransactions + Cardinality(Counted)

CountInductive == TypeOK /\ Pending /\ OrderCountConserved

---------------------------------------------------------------------------
LEMMA ImportedType == Imported(Bundle) \in Account
BY LedgerAssumption DEF Imported, Account, BundleRow, HoldFromBundle, OverdueFromBundle

\* Forgetting what was counted keeps every order and its total.
LEMMA UncountedType ==
  ASSUME orders \in Seq(Order)
  PROVE  /\ Uncounted \in Seq(Order)
         /\ Len(Uncounted) = Len(orders)
         /\ \A i \in DOMAIN Uncounted : ~Uncounted[i].counted
         /\ DOMAIN Uncounted = DOMAIN orders
<1>1. orders \in [1 .. Len(orders) -> Order] /\ Len(orders) \in Nat
      /\ DOMAIN orders = 1 .. Len(orders)
  BY LenProperties, SeqDef
<1>2. Uncounted \in [1 .. Len(orders) -> Order]
  BY <1>1 DEF Uncounted, Order
<1>3. Uncounted \in Seq(Order) /\ Len(Uncounted) = Len(orders)
  BY <1>1, <1>2, IsASeq, LenProperties
<1> QED BY <1>1, <1>2, <1>3 DEF Uncounted, Order

\* An order appended.
LEMMA AppendedType ==
  ASSUME orders \in Seq(Order), NEW o \in Order
  PROVE  /\ Append(orders, o) \in Seq(Order)
         /\ Len(Append(orders, o)) = Len(orders) + 1
         /\ Len(orders) \in Nat
         /\ DOMAIN orders = 1 .. Len(orders)
         /\ DOMAIN Append(orders, o) = 1 .. Len(orders) + 1
         /\ \A i \in 1 .. Len(orders) : Append(orders, o)[i] = orders[i]
         /\ Append(orders, o)[Len(orders) + 1] = o
BY AppendProperties, LenProperties

\* The request records of TypeOK, by their program counter.
Waiting == [pc : {"checked", "pricing"}]
Created == [pc : {"created"}, order : 1 .. MaxOrders]
Staff == [pc : {"staff"}, doc : Account]
RequestState == {Idle} \cup Waiting \cup Created \cup Staff

LEMMA RequestType ==
  ASSUME TypeOK, NEW r \in Requests
  PROVE  /\ req \in [Requests -> RequestState]
         /\ req[r].pc = "created" => req[r].order \in 1 .. MaxOrders
         /\ req[r].pc = "staff" => req[r].doc \in Account
BY DEF TypeOK, RequestState, Waiting, Created, Staff, Idle

\* The invariant holds of a fresh account.
LEMMA InitTyped == Init => TypeOK
BY ImportedType, EmptySeq, LedgerAssumption DEF Init, TypeOK

LEMMA StepTyped == TypeOK /\ Pending /\ [Next]_vars => TypeOK'
<1> SUFFICES ASSUME TypeOK, Pending, [Next]_vars PROVE TypeOK'
  OBVIOUS
<1> USE DEF RequestState
<1>1. CASE SyncPentana
  BY <1>1, ImportedType, UncountedType DEF SyncPentana, TypeOK
<1>2. CASE NewYear
  <2>1. year' \in BundleYear .. MaxYear
    BY <1>2, LedgerAssumption DEF NewYear, TypeOK
  <2> QED BY <1>2, <2>1 DEF NewYear, TypeOK
<1>3. ASSUME NEW t \in Totals, AcceptQuote(t) PROVE TypeOK'
  <2>1. [source |-> "partscheck", totalCents |-> t, counted |-> FALSE] \in Order
    BY DEF Order
  <2>2. orders' \in Seq(Order) /\ Len(orders') <= MaxOrders
    BY <1>3, <2>1, AppendedType, LedgerAssumption DEF AcceptQuote, TypeOK
  <2> QED BY <1>3, <2>2 DEF AcceptQuote, TypeOK
<1>4. ASSUME NEW r \in Requests, NEW b \in BOOLEAN, CheckOwnAccount(r, b) PROVE TypeOK'
  BY <1>4 DEF CheckOwnAccount, TypeOK, Becomes
<1>5. ASSUME NEW r \in Requests, LoadAccount(r) PROVE TypeOK'
  BY <1>5 DEF LoadAccount, TypeOK, Becomes
<1>6. ASSUME NEW r \in Requests, NEW t \in Totals, CreateOrder(r, t) PROVE TypeOK'
  <2>1. [source |-> "portal", totalCents |-> t, counted |-> FALSE] \in Order
    BY DEF Order
  <2>2. orders' \in Seq(Order) /\ Len(orders') \in 1 .. MaxOrders
    BY <1>6, <2>1, AppendedType, LedgerAssumption DEF CreateOrder, TypeOK
  <2>3. [pc |-> "created", order |-> Len(orders')] \in Created
    BY <2>2 DEF Created
  <2>4. req' \in [Requests -> RequestState]
    BY <1>6, <2>3, RequestType DEF CreateOrder, Becomes
  <2> QED BY <1>6, <2>2, <2>4 DEF CreateOrder, TypeOK, Waiting, Created, Staff
<1>7. ASSUME NEW r \in Requests, IncrementYtd(r) PROVE TypeOK'
  <2> DEFINE i == req[r].order
  <2>1. i \in DOMAIN orders /\ orders[i] \in Order /\ DOMAIN orders = 1 .. Len(orders)
    BY <1>7, LenProperties, ElementOfSeq DEF IncrementYtd, Pending, TypeOK
  <2>2. account' \in Account
    <3>1. orders[i].totalCents \in Nat
      BY <2>1, LedgerAssumption DEF Order
    <3>2. account.ytdSpendCents \in Nat /\ account.ytdOrderCount \in Nat
      BY DEF TypeOK, Account
    <3>3. account.ytdSpendCents + orders[i].totalCents \in Nat /\ account.ytdOrderCount + 1 \in Nat
      BY <3>1, <3>2
    <3> QED BY <1>7, <3>3 DEF IncrementYtd, TypeOK, Account
  <2>3. [orders[i] EXCEPT !.counted = TRUE] \in Order
    BY <2>1 DEF Order
  <2>4. orders' \in Seq(Order) /\ Len(orders') = Len(orders)
    BY <1>7, <2>1, <2>3, ExceptSeq DEF IncrementYtd, TypeOK
  <2> QED BY <1>7, <2>2, <2>4 DEF IncrementYtd, TypeOK, Becomes
<1>8. ASSUME NEW r \in Requests, LoadForStaff(r) PROVE TypeOK'
  BY <1>8 DEF LoadForStaff, TypeOK, Becomes
<1>9. ASSUME NEW r \in Requests, NEW b \in BOOLEAN, SaveCreditHold(r, b) PROVE TypeOK'
  <2>1. account' \in Account
    BY <1>9 DEF SaveCreditHold, TypeOK, Account
  <2> QED BY <1>9, <2>1 DEF SaveCreditHold, TypeOK, Becomes
<1>10. ASSUME NEW r \in Requests, NEW b \in BOOLEAN, SaveOverdue(r, b) PROVE TypeOK'
  <2>1. account' \in Account
    BY <1>10 DEF SaveOverdue, TypeOK, Account
  <2> QED BY <1>10, <2>1 DEF SaveOverdue, TypeOK, Becomes
<1>11. ASSUME NEW r \in Requests, Fail(r) PROVE TypeOK'
  BY <1>11 DEF Fail, TypeOK, Becomes
<1>12. CASE UNCHANGED vars
  BY <1>12 DEF vars, TypeOK
<1> QED BY <1>1, <1>2, <1>3, <1>4, <1>5, <1>6, <1>7, <1>8, <1>9, <1>10, <1>11, <1>12 DEF Next

---------------------------------------------------------------------------
\* The counted orders are finitely many.
LEMMA CountedFinite ==
  ASSUME TypeOK
  PROVE  IsFiniteSet(Counted) /\ Cardinality(Counted) \in Nat
<1>1. Counted \in SUBSET (1 .. Len(orders)) /\ Len(orders) \in Nat
  BY LenProperties DEF TypeOK, Counted
<1>2. IsFiniteSet(1 .. Len(orders))
  BY <1>1, FS_Interval
<1>3. IsFiniteSet(Counted)
  BY <1>1, <1>2, FS_Subset
<1> QED BY <1>3, FS_CardinalityType

\* Steps that count nothing and take no order leave the count alone.
LEMMA CountUnchanged ==
  ASSUME CountInductive, UNCHANGED orders, account'.ytdOrderCount = account.ytdOrderCount,
         \A r \in Requests : req'[r] = req[r] \/ req'[r].pc # "created"
  PROVE  Pending' /\ OrderCountConserved'
<1>1. Pending'
  BY DEF CountInductive, Pending
<1> QED BY <1>1 DEF CountInductive, OrderCountConserved, Counted

\* An order appended is not counted, whoever has it.
LEMMA CountAppended ==
  ASSUME CountInductive, NEW o \in Order, ~o.counted, orders' = Append(orders, o),
         UNCHANGED account
  PROVE  /\ OrderCountConserved'
         /\ \A r \in Requests : req[r].pc = "created" =>
              /\ req[r].order \in DOMAIN orders' /\ ~orders'[req[r].order].counted
              /\ req[r].order # Len(orders')
<1>1. /\ Len(orders') = Len(orders) + 1 /\ Len(orders) \in Nat
      /\ DOMAIN orders = 1 .. Len(orders) /\ DOMAIN orders' = 1 .. Len(orders) + 1
      /\ \A i \in 1 .. Len(orders) : orders'[i] = orders[i]
      /\ orders'[Len(orders) + 1] = o
  BY AppendedType DEF CountInductive, TypeOK
<1>2. Counted' = Counted
  BY <1>1 DEF Counted
<1>3. OrderCountConserved'
  BY <1>2 DEF CountInductive, OrderCountConserved
<1>4. \A r \in Requests : req[r].pc = "created" =>
        req[r].order \in 1 .. Len(orders) /\ ~orders[req[r].order].counted
  BY <1>1 DEF CountInductive, Pending
<1> QED BY <1>1, <1>3, <1>4

\* The increment counts the request's order, which was not counted.
LEMMA CountIncremented ==
  ASSUME CountInductive, NEW r \in Requests, IncrementYtd(r)
  PROVE  Pending' /\ OrderCountConserved'
<1> DEFINE i == req[r].order
<1>1. /\ i \in DOMAIN orders /\ ~orders[i].counted /\ orders[i] \in Order
      /\ DOMAIN orders = 1 .. Len(orders) /\ Len(orders) \in Nat
  BY LenProperties, ElementOfSeq DEF IncrementYtd, CountInductive, Pending, TypeOK
<1>2. /\ orders' = [orders EXCEPT ![i].counted = TRUE]
      /\ account'.ytdOrderCount = account.ytdOrderCount + 1
      /\ req' = [req EXCEPT ![r] = Idle]
  BY DEF IncrementYtd, Becomes, CountInductive, TypeOK, Account
<1>3. /\ DOMAIN orders' = DOMAIN orders
      /\ orders'[i].counted
      /\ \A j \in DOMAIN orders : j # i => orders'[j] = orders[j]
  BY <1>1, <1>2 DEF Order
<1>4. Counted' = Counted \cup {i} /\ i \notin Counted
  BY <1>1, <1>3 DEF Counted
<1>5. Cardinality(Counted') = Cardinality(Counted) + 1
  BY <1>4, CountedFinite, FS_AddElement DEF CountInductive
<1>6. OrderCountConserved'
  <2>1. /\ account.ytdOrderCount = Bundle.partsTransactions + Cardinality(Counted)
        /\ Cardinality(Counted) \in Nat /\ Bundle.partsTransactions \in Nat
    BY CountedFinite, LedgerAssumption DEF CountInductive, OrderCountConserved, BundleRow
  <2> QED BY <1>2, <1>5, <2>1 DEF OrderCountConserved
<1>7. Pending'
  <2> SUFFICES ASSUME NEW s \in Requests, req'[s].pc = "created"
               PROVE  /\ req'[s].order \in DOMAIN orders'
                      /\ ~orders'[req'[s].order].counted
                      /\ \A t \in Requests \ {s} :
                           req'[t].pc = "created" => req'[t].order # req'[s].order
    BY DEF Pending
  <2>1. s # r /\ req'[s] = req[s] /\ \A t \in Requests \ {r} : req'[t] = req[t]
    BY <1>2 DEF CountInductive, TypeOK, Idle
  <2>2. req'[r].pc = "idle"
    BY <1>2 DEF CountInductive, TypeOK, Idle
  <2>3. req[s].order # i /\ req[s].order \in DOMAIN orders /\ ~orders[req[s].order].counted
    BY <2>1 DEF IncrementYtd, CountInductive, Pending
  <2> QED BY <1>3, <2>1, <2>2, <2>3 DEF CountInductive, Pending
<1> QED BY <1>6, <1>7

LEMMA InitCount == Init => Pending /\ OrderCountConserved
<1> SUFFICES ASSUME Init PROVE Pending /\ OrderCountConserved
  OBVIOUS
<1>1. Pending
  BY DEF Init, Pending, Idle
<1>2. Counted = {}
  BY DEF Init, Counted
<1>3. account.ytdOrderCount = Bundle.partsTransactions /\ Bundle.partsTransactions \in Nat
  BY LedgerAssumption DEF Init, Imported, BundleRow
<1> QED BY <1>1, <1>2, <1>3, FS_EmptySet DEF OrderCountConserved

LEMMA StepCount == CountInductive /\ [Next]_vars => Pending' /\ OrderCountConserved'
<1> SUFFICES ASSUME CountInductive, [Next]_vars PROVE Pending' /\ OrderCountConserved'
  OBVIOUS
<1>1. CASE SyncPentana
  <2>1. Counted' = {}
    BY <1>1, UncountedType DEF SyncPentana, Counted, CountInductive, TypeOK
  <2>2. account'.ytdOrderCount = Bundle.partsTransactions /\ Bundle.partsTransactions \in Nat
    BY <1>1, LedgerAssumption DEF SyncPentana, Imported, BundleRow
  <2>3. OrderCountConserved'
    BY <2>1, <2>2, FS_EmptySet DEF OrderCountConserved
  <2>4. Pending'
    BY <1>1, UncountedType DEF SyncPentana, Pending, CountInductive, TypeOK
  <2> QED BY <2>3, <2>4
<1>2. CASE NewYear \/ UNCHANGED vars
  BY <1>2, CountUnchanged DEF NewYear, vars
<1>3. ASSUME NEW t \in Totals, AcceptQuote(t) PROVE Pending' /\ OrderCountConserved'
  <2> DEFINE o == [source |-> "partscheck", totalCents |-> t, counted |-> FALSE]
  <2>1. o \in Order /\ ~o.counted
    BY DEF Order
  <2>2. orders' = Append(orders, o) /\ UNCHANGED <<account, req>>
    BY <1>3 DEF AcceptQuote
  <2> HIDE DEF o
  <2>3. /\ OrderCountConserved'
        /\ \A r \in Requests : req[r].pc = "created" =>
             req[r].order \in DOMAIN orders' /\ ~orders'[req[r].order].counted
    BY <2>1, <2>2, CountAppended
  <2> QED BY <2>2, <2>3 DEF Pending, CountInductive
<1>4. ASSUME NEW r \in Requests, NEW t \in Totals, CreateOrder(r, t)
      PROVE  Pending' /\ OrderCountConserved'
  <2> DEFINE o == [source |-> "portal", totalCents |-> t, counted |-> FALSE]
             state == [pc |-> "created", order |-> Len(orders')]
  <2>1. o \in Order /\ ~o.counted
    BY DEF Order
  <2>2. orders' = Append(orders, o) /\ UNCHANGED account /\ req' = [req EXCEPT ![r] = state]
    BY <1>4 DEF CreateOrder, Becomes
  <2> HIDE DEF o
  <2>3. /\ OrderCountConserved'
        /\ \A s \in Requests : req[s].pc = "created" =>
             /\ req[s].order \in DOMAIN orders' /\ ~orders'[req[s].order].counted
             /\ req[s].order # Len(orders')
    BY <2>1, <2>2, CountAppended
  <2>4. Len(orders') \in DOMAIN orders' /\ ~orders'[Len(orders')].counted
    BY <2>1, <2>2, AppendedType DEF CountInductive, TypeOK
  <2>5. req'[r] = state /\ \A s \in Requests \ {r} : req'[s] = req[s]
    BY <2>2 DEF CountInductive, TypeOK
  <2>6. Pending'
    BY <2>3, <2>4, <2>5 DEF Pending, CountInductive
  <2> QED BY <2>3, <2>6
<1>5. ASSUME NEW r \in Requests, IncrementYtd(r) PROVE Pending' /\ OrderCountConserved'
  BY <1>5, CountIncremented
<1>6. ASSUME NEW r \in Requests,
             \/ \E b \in BOOLEAN : CheckOwnAccount(r, b) \/ SaveCreditHold(r, b) \/ SaveOverdue(r, b)
             \/ LoadAccount(r) \/ LoadForStaff(r) \/ Fail(r)
      PROVE  Pending' /\ OrderCountConserved'
  <2>1. UNCHANGED orders
    BY <1>6 DEF CheckOwnAccount, LoadAccount, SaveCreditHold, SaveOverdue, LoadForStaff, Fail
  <2>2. account'.ytdOrderCount = account.ytdOrderCount
    BY <1>6 DEF CheckOwnAccount, LoadAccount, SaveCreditHold, SaveOverdue, LoadForStaff, Fail,
                CountInductive, TypeOK, Account
  <2>3. \A s \in Requests : req'[s] = req[s] \/ req'[s].pc # "created"
    BY <1>6 DEF CheckOwnAccount, LoadAccount, SaveCreditHold, SaveOverdue, LoadForStaff, Fail,
                CountInductive, TypeOK, Becomes, Idle
  <2> QED BY <2>1, <2>2, <2>3, CountUnchanged
<1> QED BY <1>1, <1>2, <1>3, <1>4, <1>5, <1>6 DEF Next

LEMMA AlwaysCount == Spec => []CountInductive
<1>1. Init => CountInductive
  BY InitTyped, InitCount DEF CountInductive
<1>2. CountInductive /\ [Next]_vars => CountInductive'
  BY StepTyped, StepCount DEF CountInductive
<1> QED BY <1>1, <1>2, PTL DEF Spec

---------------------------------------------------------------------------
(* The sum of the totals. MapThenSumSet adds them up in the order in which  *)
(* CHOOSE takes the elements of the set, by a function on its subsets.      *)

\* The totals of the orders of S, as LedgerConserved adds them up.
TotalOf(ords, S) == MapThenSumSet(LAMBDA i : ords[i].totalCents, S)

\* The same as values of the elements of S.
TotalCents(ords, S) == [i \in S |-> ords[i].totalCents]

\* The orders of S and what they come to.
Priced(ords, S) == IsFiniteSet(S) /\ \A i \in S : ords[i].totalCents \in Nat

LEMMA TotalIsSum ==
  ASSUME NEW S, NEW ords, Priced(ords, S)
  PROVE  /\ Summable(TotalCents(ords, S), S)
         /\ TotalOf(ords, S) = SumOf(TotalCents(ords, S), S)
<1> DEFINE val == TotalCents(ords, S)
           Adding(sum, s) ==
             IF s = {} THEN 0 ELSE ords[Picked(s)].totalCents + sum[s \ {Picked(s)}]
           chosen == CHOOSE sum : sum = [s \in SUBSET S |-> Adding(sum, s)]
<1>1. Summable(val, S)
  BY DEF Priced, Summable, TotalCents
<1>2. TotalOf(ords, S) = chosen[S]
  BY DEF TotalOf, MapThenSumSet, MapThenFoldSet, Picked
<1>3. PICK sum : SumsUp(sum, val, S) /\ SumOf(val, S) = sum[S]
  BY <1>1, SumIsSum
<1>4. \A f : \A s \in SUBSET S : Adding(f, s) = Added(f, val, s)
  <2> SUFFICES ASSUME NEW f, NEW s \in SUBSET S PROVE Adding(f, s) = Added(f, val, s)
    OBVIOUS
  <2>1. s # {} => Picked(s) \in S
    BY PickedAway DEF Priced
  <2> QED BY <2>1 DEF Added, TotalCents
<1>5. sum = [s \in SUBSET S |-> Adding(sum, s)]
  BY <1>3, <1>4 DEF SumsUp, Unfolds
<1>6. chosen = [s \in SUBSET S |-> Adding(chosen, s)]
  BY <1>5
<1> HIDE DEF chosen
<1>7. Unfolds(chosen, val, S)
  BY <1>4, <1>6 DEF Unfolds
<1>8. \A s \in SUBSET (S \cap S) : chosen[s] = sum[s]
  BY <1>1, <1>3, <1>7, SumUnique DEF SumsUp
<1> QED BY <1>1, <1>2, <1>3, <1>8

LEMMA TotalOfNone ==
  ASSUME NEW ords
  PROVE  TotalOf(ords, {}) = 0
BY TotalIsSum, SumOfNone, FS_EmptySet DEF Priced

\* Only the totals of the orders of the set matter.
LEMMA TotalKept ==
  ASSUME NEW S, NEW ords, NEW ords2, Priced(ords, S), Priced(ords2, S),
         \A i \in S : ords[i].totalCents = ords2[i].totalCents
  PROVE  TotalOf(ords, S) = TotalOf(ords2, S) /\ TotalOf(ords, S) \in Nat
<1>1. TotalCents(ords, S) = TotalCents(ords2, S)
  BY DEF TotalCents
<1> QED BY <1>1, TotalIsSum, SumKept

\* One order more adds its total.
LEMMA TotalOneMore ==
  ASSUME NEW S, NEW i, i \notin S, NEW S2, S2 = S \cup {i},
         NEW ords, NEW ords2, Priced(ords, S), Priced(ords2, S2),
         \A j \in S : ords[j].totalCents = ords2[j].totalCents
  PROVE  TotalOf(ords2, S2) = TotalOf(ords, S) + ords2[i].totalCents
<1> DEFINE val == TotalCents(ords, S)
           val2 == TotalCents(ords2, S2)
<1>1. (\A j \in S : val[j] = val2[j]) /\ val2[i] = ords2[i].totalCents
  BY DEF TotalCents
<1>2. Summable(val, S) /\ Summable(val2, S2)
  BY TotalIsSum
<1> HIDE DEF val, val2
<1>3. SumOf(val2, S2) = SumOf(val, S) + val2[i]
  BY <1>1, <1>2, SumOneElement
<1>4. TotalOf(ords, S) = SumOf(val, S) /\ TotalOf(ords2, S2) = SumOf(val2, S2)
  BY TotalIsSum DEF val, val2
<1> QED BY <1>1, <1>3, <1>4

---------------------------------------------------------------------------
\* The spend of LedgerConserved.
SpendConserved == account.ytdSpendCents = Bundle.ytdSpendCents + TotalOf(orders, Counted)

LEMMA CountedPriced ==
  ASSUME TypeOK
  PROVE  Priced(orders, Counted) /\ TotalOf(orders, Counted) \in Nat
<1>1. \A i \in Counted : orders[i] \in Order
  BY ElementOfSeq, LenProperties DEF TypeOK, Counted
<1>2. Priced(orders, Counted)
  BY <1>1, CountedFinite, LedgerAssumption DEF Priced, Order
<1> QED BY <1>2, TotalKept

\* Steps that count nothing and change no order already counted leave the spend alone.
LEMMA SpendUnchanged ==
  ASSUME TypeOK, TypeOK', SpendConserved, Counted' = Counted,
         \A i \in Counted : orders'[i] = orders[i],
         account'.ytdSpendCents = account.ytdSpendCents
  PROVE  SpendConserved'
<1>1. Priced(orders, Counted) /\ Priced(orders', Counted)
  BY CountedPriced DEF Priced
<1>2. TotalOf(orders', Counted) = TotalOf(orders, Counted)
  BY <1>1, TotalKept
<1> QED BY <1>2 DEF SpendConserved

LEMMA SpendAppended ==
  ASSUME TypeOK, TypeOK', SpendConserved, NEW o \in Order, ~o.counted,
         orders' = Append(orders, o), UNCHANGED account
  PROVE  SpendConserved'
<1>1. /\ DOMAIN orders = 1 .. Len(orders) /\ DOMAIN orders' = 1 .. Len(orders) + 1
      /\ Len(orders) \in Nat
      /\ \A i \in 1 .. Len(orders) : orders'[i] = orders[i]
      /\ orders'[Len(orders) + 1] = o
  BY AppendedType DEF TypeOK
<1>2. Counted' = Counted /\ \A i \in Counted : orders'[i] = orders[i]
  BY <1>1 DEF Counted
<1> QED BY <1>2, SpendUnchanged

\* The increment adds the total of the order that it counts.
LEMMA SpendIncremented ==
  ASSUME CountInductive, TypeOK', SpendConserved, NEW r \in Requests, IncrementYtd(r)
  PROVE  SpendConserved'
<1> DEFINE i == req[r].order
<1>1. /\ i \in DOMAIN orders /\ ~orders[i].counted /\ orders[i] \in Order
  BY LenProperties, ElementOfSeq DEF IncrementYtd, CountInductive, Pending, TypeOK
<1>2. /\ orders' = [orders EXCEPT ![i].counted = TRUE]
      /\ account'.ytdSpendCents = account.ytdSpendCents + orders[i].totalCents
  BY DEF IncrementYtd, CountInductive, TypeOK, Account
<1>3. /\ DOMAIN orders' = DOMAIN orders
      /\ orders'[i].counted /\ orders'[i].totalCents = orders[i].totalCents
      /\ \A j \in DOMAIN orders : j # i => orders'[j] = orders[j]
  BY <1>1, <1>2 DEF Order
<1>4. Counted' = Counted \cup {i} /\ i \notin Counted /\ \A j \in Counted : orders'[j] = orders[j]
  BY <1>1, <1>3 DEF Counted
<1>5. Priced(orders, Counted) /\ Priced(orders', Counted') /\ TotalOf(orders, Counted) \in Nat
  <2>1. Priced(orders, Counted) /\ TotalOf(orders, Counted) \in Nat
    BY CountedPriced DEF CountInductive
  <2>2. IsFiniteSet(Counted \cup {i})
    BY <2>1, FS_AddElement DEF Priced
  <2>3. \A j \in Counted \cup {i} : orders'[j].totalCents \in Nat
    BY <1>1, <1>3, <1>4, <2>1, LedgerAssumption DEF Priced, Order
  <2> QED BY <1>4, <2>1, <2>2, <2>3 DEF Priced
<1> HIDE DEF i
<1>6. TotalOf(orders', Counted') = TotalOf(orders, Counted) + orders'[i].totalCents
  <2>1. \A j \in Counted : orders[j].totalCents = orders'[j].totalCents
    BY <1>4
  <2> QED BY <1>4, <1>5, <2>1, TotalOneMore, Z3
<1>7. orders[i].totalCents \in Nat /\ Bundle.ytdSpendCents \in Nat
  BY <1>1, LedgerAssumption DEF Order, BundleRow
<1>8. TotalOf(orders, Counted)' = TotalOf(orders, Counted) + orders[i].totalCents
  BY <1>3, <1>4, <1>6
<1> QED BY <1>2, <1>5, <1>7, <1>8 DEF SpendConserved

LEMMA InitSpend == Init => SpendConserved
<1> SUFFICES ASSUME Init PROVE SpendConserved
  OBVIOUS
<1>1. Counted = {}
  BY DEF Init, Counted
<1>2. account.ytdSpendCents = Bundle.ytdSpendCents /\ Bundle.ytdSpendCents \in Nat
  BY LedgerAssumption DEF Init, Imported, BundleRow
<1> QED BY <1>1, <1>2, TotalOfNone DEF SpendConserved

LEMMA StepSpend ==
  CountInductive /\ TypeOK' /\ SpendConserved /\ [Next]_vars => SpendConserved'
<1> SUFFICES ASSUME CountInductive, TypeOK', SpendConserved, [Next]_vars PROVE SpendConserved'
  OBVIOUS
<1>0. TypeOK
  BY DEF CountInductive
<1>1. CASE SyncPentana
  <2>1. Counted' = {}
    BY <1>0, <1>1, UncountedType DEF SyncPentana, Counted, TypeOK
  <2>2. account'.ytdSpendCents = Bundle.ytdSpendCents /\ Bundle.ytdSpendCents \in Nat
    BY <1>1, LedgerAssumption DEF SyncPentana, Imported, BundleRow
  <2> QED BY <2>1, <2>2, TotalOfNone DEF SpendConserved
<1>2. ASSUME NEW t \in Totals,
             \/ AcceptQuote(t)
             \/ \E r \in Requests : CreateOrder(r, t)
      PROVE  SpendConserved'
  <2>1. \A source \in {"portal", "partscheck"} :
          [source |-> source, totalCents |-> t, counted |-> FALSE] \in Order
    BY DEF Order
  <2>2. PICK o \in Order : ~o.counted /\ orders' = Append(orders, o)
    BY <1>2, <2>1 DEF AcceptQuote, CreateOrder
  <2>3. UNCHANGED account
    BY <1>2 DEF AcceptQuote, CreateOrder
  <2> QED BY <1>0, <2>2, <2>3, SpendAppended
<1>3. ASSUME NEW r \in Requests, IncrementYtd(r) PROVE SpendConserved'
  BY <1>3, SpendIncremented
<1>4. ASSUME \/ NewYear \/ UNCHANGED vars
             \/ \E r \in Requests :
                  \/ \E b \in BOOLEAN : CheckOwnAccount(r, b) \/ SaveCreditHold(r, b) \/ SaveOverdue(r, b)
                  \/ LoadAccount(r) \/ LoadForStaff(r) \/ Fail(r)
      PROVE  SpendConserved'
  <2>1. UNCHANGED orders
    BY <1>4 DEF NewYear, vars, CheckOwnAccount, LoadAccount, SaveCreditHold, SaveOverdue,
                LoadForStaff, Fail
  <2>2. account'.ytdSpendCents = account.ytdSpendCents
    BY <1>0, <1>4 DEF NewYear, vars, CheckOwnAccount, LoadAccount, SaveCreditHold, SaveOverdue,
                      LoadForStaff, Fail, TypeOK, Account
  <2>3. Counted' = Counted
    BY <2>1 DEF Counted
  <2> QED BY <1>0, <2>1, <2>2, <2>3, SpendUnchanged
<1> QED BY <1>1, <1>2, <1>3, <1>4 DEF Next

LEMMA AlwaysSpend == Spec => []SpendConserved
<1>1. CountInductive /\ [Next]_vars => TypeOK'
  BY StepTyped DEF CountInductive
<1> QED BY InitSpend, StepSpend, <1>1, AlwaysCount, PTL DEF Spec

---------------------------------------------------------------------------
\* Every variable keeps its type.
THEOREM TypeCorrect == Spec => []TypeOK
<1>1. CountInductive => TypeOK
  BY DEF CountInductive
<1> QED BY AlwaysCount, <1>1, PTL

\* The order count and the spend are the imported ones plus the orders counted since
\* and their totals: submitOrder's $inc loses nothing to a staff save, another order
\* or an import that overlaps with it, and counts nothing twice.
THEOREM LedgerAlwaysConserved == Spec => []LedgerConserved
<1>1. CountInductive /\ SpendConserved => LedgerConserved
  BY DEF CountInductive, OrderCountConserved, SpendConserved, LedgerConserved, TotalOf
<1> QED BY <1>1, AlwaysCount, AlwaysSpend, PTL

\* A save of the overdue flag, or an order counted, never touches the hold.
THEOREM HoldKept == Spec => HoldKeptByOthers
<1>1. TypeOK /\ [Next]_vars =>
        [account'.creditHold # account.creditHold =>
           \/ account' = Imported(Bundle)
           \/ \E r \in Requests : /\ req[r].pc = "staff" /\ req'[r].pc = "idle"
                                   /\ req[r].doc.creditHold # account'.creditHold]_vars
  <2> SUFFICES ASSUME TypeOK, Next, account'.creditHold # account.creditHold
               PROVE  \/ account' = Imported(Bundle)
                      \/ \E r \in Requests : /\ req[r].pc = "staff" /\ req'[r].pc = "idle"
                                             /\ req[r].doc.creditHold # account'.creditHold
    OBVIOUS
  <2>1. ASSUME NEW r \in Requests, NEW b \in BOOLEAN, SaveCreditHold(r, b)
        PROVE  /\ req[r].pc = "staff" /\ req'[r].pc = "idle"
               /\ req[r].doc.creditHold # account'.creditHold
    <3>1. req[r].pc = "staff" /\ req'[r] = Idle
      BY <2>1 DEF SaveCreditHold, TypeOK, Becomes
    <3>2. b # req[r].doc.creditHold /\ account'.creditHold = b
      BY <2>1 DEF SaveCreditHold, TypeOK, Account
    <3> QED BY <3>1, <3>2 DEF Idle
  <2>2. ASSUME NEW r \in Requests, NEW b \in BOOLEAN, SaveOverdue(r, b) PROVE FALSE
    BY <2>2 DEF SaveOverdue, TypeOK, Account
  <2>3. ASSUME NEW r \in Requests, IncrementYtd(r) PROVE FALSE
    BY <2>3 DEF IncrementYtd, TypeOK, Account
  <2> QED BY <2>1, <2>2, <2>3
          DEF Next, SyncPentana, NewYear, AcceptQuote, CheckOwnAccount, LoadAccount, CreateOrder,
              LoadForStaff, Fail
<1>2. Spec => []TypeOK
  BY TypeCorrect
<1> QED BY <1>1, <1>2, PTL DEF Spec, HoldKeptByOthers

---------------------------------------------------------------------------
(* The prices of PartSourcing. *)

\* What a request holds, by its program counter.
AskingAccount == [pc : {"account"}, startedAt : 0 .. MaxTime]
AskingRooftops == [pc : {"rooftops"}, startedAt : 0 .. MaxTime, discount : 0 .. MaxChanges,
                   own : SUBSET (Rooftop \cup {NoRooftop}), active : SUBSET SUBSET Rooftop]
WritingRows == [pc : {"writing"}, startedAt : 0 .. MaxTime, pending : SUBSET Row]
Held == {Ready} \cup AskingAccount \cup AskingRooftops \cup WritingRows

SourcingTyped ==
  /\ SourcingTypeOK
  /\ replaced \in Seq(0 .. MaxTime) /\ writes \in Nat /\ Changes <= MaxChanges
  /\ resolver \in [Resolvers -> Held]

LEMMA HeldByCounter ==
  ASSUME NEW held \in Held
  PROVE  /\ held.pc = "account" => held \in AskingAccount
         /\ held.pc = "rooftops" => held \in AskingRooftops
         /\ held.pc = "writing" => held \in WritingRows
         /\ held # Ready <=> held.pc \in {"account", "rooftops", "writing"}
BY DEF Held, AskingAccount, AskingRooftops, WritingRows, Ready

\* What the queries for rooftops answer.
LEMMA RooftopsFound ==
  ASSUME rooftops \in [RooftopId -> Rooftop \cup {NoRooftop}]
  PROVE  RooftopOf(Home) \in Rooftop \cup {NoRooftop} /\ ActiveRooftops \in SUBSET Rooftop
<1>1. Stored \subseteq RooftopId /\ \A d \in Stored : rooftops[d] \in Rooftop
  BY DEF Stored
<1>2. RooftopOf(Home) \in Rooftop \cup {NoRooftop}
  BY <1>1 DEF RooftopOf
<1> QED BY <1>1, <1>2 DEF ActiveRooftops

LEMMA RowsTyped ==
  ASSUME NEW probe \in [discount : 0 .. MaxChanges, resolvedAt : 0 .. MaxTime],
         NEW own \in Rooftop \cup {NoRooftop}, NEW active \in SUBSET Rooftop
  PROVE  SourceRows(probe, own, active) \in SUBSET Row
<1>1. \A kind \in SourceKind, name \in SourceName, slug \in Slug \cup {"null"} :
        SourceRow(probe, kind, name, slug) \in Row
  BY DEF SourceRow, Row
<1>2. \A s \in Rooftop : s.name \in SourceName /\ s.rooftopId \in Slug
  BY DEF Rooftop, SourceName
<1>3. BranchRow(probe, own) \in Row
  BY <1>1, <1>2 DEF BranchRow, SourceKind, SourceName
<1>4. \A s \in active : SourceRow(probe, "SISTER", s.name, s.rooftopId) \in Row
  BY <1>1, <1>2 DEF SourceKind
<1>5. \A kind \in Portals : SourceRow(probe, kind, "Portal", "null") \in Row
  BY <1>1 DEF SourceKind, SourceName
<1> QED BY <1>3, <1>4, <1>5 DEF SourceRows, SisterRows

\* The rows of one resolution have the discount and the moment in common.
LEMMA StampedAlike ==
  ASSUME NEW probe, NEW own, NEW active
  PROVE  \A row \in SourceRows(probe, own, active) :
           row.discount = probe.discount /\ row.resolvedAt = probe.resolvedAt
<1>1. \A kind, name, slug :
        /\ SourceRow(probe, kind, name, slug).discount = probe.discount
        /\ SourceRow(probe, kind, name, slug).resolvedAt = probe.resolvedAt
  BY DEF SourceRow
<1>2. \A row \in SourceRows(probe, own, active) :
        \E kind, name, slug : row = SourceRow(probe, kind, name, slug)
  BY DEF SourceRows, BranchRow, SisterRows
<1> QED BY <1>1, <1>2

LEMMA SourcingInitTyped == SourcingInit => SourcingTyped
<1> SUFFICES ASSUME SourcingInit PROVE SourcingTyped
  OBVIOUS
<1>1. rooftops \in [RooftopId -> Rooftop \cup {NoRooftop}]
  <2>1. \A d \in DOMAIN Seeded : Seeded[d] \in Rooftop
    BY RooftopsAssumption, ElementOfSeq, LenProperties
  <2> QED BY <2>1 DEF SourcingInit, RooftopsInit
<1>2. replaced \in Seq(0 .. MaxTime) /\ Len(replaced) = 0
  BY EmptySeq DEF SourcingInit
<1>3. writes = 0 /\ Changes <= MaxChanges
  BY <1>2, PartSourcingAssumption DEF SourcingInit, RooftopsInit, Changes
<1>4. SourcingTypeOK
  <2>1. cache = {} /\ disturbed = FALSE /\ now \in 0 .. MaxTime
    BY PartSourcingAssumption DEF SourcingInit
  <2> QED BY <1>1, <2>1 DEF SourcingTypeOK
<1>5. resolver \in [Resolvers -> Held]
  BY DEF SourcingInit, Held
<1> QED BY <1>2, <1>3, <1>4, <1>5 DEF SourcingTyped

\* A step of one request that touches no row.
LEMMA MovedTyped ==
  ASSUME SourcingTyped, NEW r \in Resolvers, NEW held \in Held, Goes(r, held),
         UNCHANGED <<rooftopVars, replaced, cache, now>>, disturbed' \in BOOLEAN
  PROVE  SourcingTyped'
<1>1. resolver' \in [Resolvers -> Held]
  BY DEF Goes, SourcingTyped
<1> QED BY <1>1 DEF SourcingTyped, SourcingTypeOK, rooftopVars, Changes

LEMMA UpsertedTyped ==
  ASSUME SourcingTyped, NEW row \in Row
  PROVE  /\ Upserted(cache, row) \in SUBSET Row
         /\ \A k, l \in Upserted(cache, row) : Key(k) = Key(l) => k = l
BY DEF SourcingTyped, SourcingTypeOK, Upserted

\* What is left to write is a set of rows.
LEMMA WroteTyped ==
  ASSUME SourcingTyped, NEW r \in Resolvers, resolver[r].pc = "writing",
         NEW row \in resolver[r].pending, Wrote(r, row)
  PROVE  /\ row \in Row
         /\ \E held \in Held :
              /\ Goes(r, held)
              /\ \/ held = Ready /\ resolver[r].pending = {row}
                 \/ /\ held.pc = "writing" /\ held.startedAt = resolver[r].startedAt
                    /\ held.pending = resolver[r].pending \ {row}
<1>1. resolver[r] \in WritingRows
  BY HeldByCounter DEF SourcingTyped
<1>2. row \in Row
  BY <1>1 DEF WritingRows
<1> DEFINE rest == [resolver[r] EXCEPT !.pending = @ \ {row}]
<1>3. /\ rest \in WritingRows /\ rest.pc = "writing"
      /\ rest.startedAt = resolver[r].startedAt /\ rest.pending = resolver[r].pending \ {row}
  BY <1>1 DEF WritingRows
<1>4. (Goes(r, Ready) /\ resolver[r].pending = {row}) \/ Goes(r, rest)
  BY DEF Wrote
<1> HIDE DEF rest
<1>5. Ready \in Held /\ rest \in Held
  BY <1>3 DEF Held
<1> QED BY <1>2, <1>3, <1>4, <1>5

LEMMA SourcingStepTyped == SourcingTyped /\ [SourcingNext]_sourcingVars => SourcingTyped'
<1> SUFFICES ASSUME SourcingTyped, [SourcingNext]_sourcingVars PROVE SourcingTyped'
  OBVIOUS
<1>0. /\ now \in 0 .. MaxTime /\ MaxTime \in Nat /\ MaxChanges \in Nat
      /\ replaced \in Seq(0 .. MaxTime) /\ writes \in Nat /\ Len(replaced) \in Nat
      /\ disturbed \in BOOLEAN
  BY PartSourcingAssumption, LenProperties DEF SourcingTyped, SourcingTypeOK
<1>1. ASSUME NEW r \in Resolvers, Resolve(r) PROVE SourcingTyped'
  <2>1. [pc |-> "account", startedAt |-> now] \in Held
    BY <1>0 DEF Held, AskingAccount
  <2> QED BY <1>0, <1>1, <2>1, MovedTyped DEF Resolve
<1>2. ASSUME NEW r \in Resolvers, ReadDiscount(r) PROVE SourcingTyped'
  <2> DEFINE held == [pc |-> "rooftops", startedAt |-> resolver[r].startedAt, discount |-> Discount,
                      own |-> {}, active |-> {}]
  <2>1. resolver[r].startedAt \in 0 .. MaxTime
    BY <1>2, HeldByCounter DEF ReadDiscount, SourcingTyped, AskingAccount
  <2>2. Discount \in 0 .. MaxChanges
    BY <1>0 DEF Discount, Changes, SourcingTyped
  <2>3. held \in Held
    BY <2>1, <2>2 DEF Held, AskingRooftops
  <2> QED BY <1>0, <1>2, <2>3, MovedTyped DEF ReadDiscount
<1>3. ASSUME NEW r \in Resolvers, ReadOwnRooftop(r) PROVE SourcingTyped'
  <2>1. resolver[r] \in AskingRooftops
    BY <1>3, HeldByCounter DEF ReadOwnRooftop, SourcingTyped
  <2>2. [resolver[r] EXCEPT !.own = {RooftopOf(Home)}] \in AskingRooftops
    BY <2>1, RooftopsFound DEF AskingRooftops, SourcingTyped, SourcingTypeOK
  <2> QED BY <1>0, <1>3, <2>2, MovedTyped DEF ReadOwnRooftop, Held
<1>4. ASSUME NEW r \in Resolvers, ReadActiveRooftops(r) PROVE SourcingTyped'
  <2>1. resolver[r] \in AskingRooftops
    BY <1>4, HeldByCounter DEF ReadActiveRooftops, SourcingTyped
  <2>2. [resolver[r] EXCEPT !.active = {ActiveRooftops}] \in AskingRooftops
    BY <2>1, RooftopsFound DEF AskingRooftops, SourcingTyped, SourcingTypeOK
  <2> QED BY <1>0, <1>4, <2>2, MovedTyped DEF ReadActiveRooftops, Held
<1>5. ASSUME NEW r \in Resolvers, BuildRows(r) PROVE SourcingTyped'
  <2> DEFINE probe == [discount |-> resolver[r].discount, resolvedAt |-> now]
             held(rows) == [pc |-> "writing", startedAt |-> resolver[r].startedAt, pending |-> rows]
  <2>1. resolver[r] \in AskingRooftops
    BY <1>5, HeldByCounter DEF BuildRows, SourcingTyped
  <2>2. PICK own \in resolver[r].own, active \in resolver[r].active :
          Goes(r, held(SourceRows(probe, own, active)))
    BY <1>5 DEF BuildRows
  <2>3. SourceRows(probe, own, active) \in SUBSET Row
    BY <1>0, <2>1, <2>2, RowsTyped DEF AskingRooftops
  <2>4. held(SourceRows(probe, own, active)) \in Held
    BY <2>1, <2>3 DEF Held, AskingRooftops, WritingRows
  <2> HIDE DEF held, probe
  <2> QED BY <1>0, <1>5, <2>2, <2>4, MovedTyped DEF BuildRows
<1>6. ASSUME NEW r \in Resolvers, UpsertRow(r) PROVE SourcingTyped'
  <2>1. PICK row \in resolver[r].pending : cache' = Upserted(cache, row) /\ Wrote(r, row)
    BY <1>6 DEF UpsertRow
  <2>2. row \in Row /\ \E held \in Held : Goes(r, held)
    BY <1>6, <2>1, WroteTyped DEF UpsertRow
  <2>3. resolver' \in [Resolvers -> Held]
    BY <2>2 DEF Goes, SourcingTyped
  <2>4. cache' \in SUBSET Row /\ \A k, l \in cache' : Key(k) = Key(l) => k = l
    BY <2>1, <2>2, UpsertedTyped
  <2>5. disturbed' \in BOOLEAN /\ UNCHANGED <<rooftops, writes, replaced, now>>
    BY <1>6 DEF UpsertRow, Disturbs, rooftopVars
  <2> QED BY <2>3, <2>4, <2>5 DEF SourcingTyped, SourcingTypeOK, Key, Changes
<1>7. ASSUME NEW r \in Resolvers, UpsertFails(r) PROVE SourcingTyped'
  <2>1. \E held \in Held : Goes(r, held)
    BY <1>7, WroteTyped DEF UpsertFails
  <2> QED BY <1>7, <2>1, MovedTyped DEF UpsertFails, Disturbs
<1>8. ASSUME NEW r \in Resolvers, Crash(r) PROVE SourcingTyped'
  <2>1. Ready \in Held
    BY DEF Held
  <2> QED BY <1>8, <2>1, MovedTyped DEF Crash, Disturbs
<1>9. CASE ChangeDiscount
  <2>1. replaced' \in Seq(0 .. MaxTime) /\ Len(replaced') = Len(replaced) + 1
    BY <1>0, <1>9, AppendProperties DEF ChangeDiscount
  <2>2. Changes' <= MaxChanges
    BY <1>0, <1>9, <2>1 DEF ChangeDiscount, Changes, rooftopVars
  <2> QED BY <1>9, <2>1, <2>2 DEF ChangeDiscount, SourcingTyped, SourcingTypeOK, rooftopVars, Key
<1>10. CASE ExpireRow
  <2>1. cache' \subseteq cache /\ disturbed' \in BOOLEAN
        /\ UNCHANGED <<rooftops, writes, replaced, resolver, now>>
    BY <1>10 DEF ExpireRow, Disturbs, rooftopVars
  <2> QED BY <2>1 DEF SourcingTyped, SourcingTypeOK, Changes, Key
<1>11. CASE Tick
  <2>1. now' \in 0 .. MaxTime
    BY <1>0, <1>11 DEF Tick
  <2> QED BY <1>11, <2>1 DEF Tick, SourcingTyped, SourcingTypeOK, rooftopVars, Changes, Key
<1>12. CASE ChangeRooftops
  <2>1. rooftops' \in [RooftopId -> Rooftop \cup {NoRooftop}] /\ writes' \in Nat
    <3> USE DEF SourcingTyped, SourcingTypeOK
    <3>1. ASSUME NEW d \in RooftopId, NEW rooftop \in Rooftop, SaveRooftop(d, rooftop)
          PROVE  rooftops' \in [RooftopId -> Rooftop \cup {NoRooftop}] /\ writes' \in Nat
      BY <1>0, <3>1 DEF SaveRooftop
    <3>2. ASSUME NEW rooftop \in Offered, CreateRooftop(rooftop)
          PROVE  rooftops' \in [RooftopId -> Rooftop \cup {NoRooftop}] /\ writes' \in Nat
      BY <3>1, <3>2, RooftopsAssumption DEF CreateRooftop
    <3>3. ASSUME NEW slug \in Slug, NEW patch \in Patches, UpdateRooftop(slug, patch)
          PROVE  rooftops' \in [RooftopId -> Rooftop \cup {NoRooftop}] /\ writes' \in Nat
      <4>1. PICK d \in Stored : SaveRooftop(d, [rooftops[d] EXCEPT ![patch.field] = patch.value])
        BY <3>3 DEF UpdateRooftop
      <4>2. d \in RooftopId /\ rooftops[d] \in Rooftop
        BY DEF Stored
      <4>3. [rooftops[d] EXCEPT ![patch.field] = patch.value] \in Rooftop
        BY <4>2, RooftopsAssumption DEF Patch, Rooftop
      <4> QED BY <3>1, <4>1, <4>2, <4>3
    <3> QED BY <1>12, <3>2, <3>3 DEF ChangeRooftops, RooftopsNext
  <2> QED BY <1>12, <2>1 DEF ChangeRooftops, SourcingTyped, SourcingTypeOK, Disturbs, Key
<1>13. CASE UNCHANGED sourcingVars
  BY <1>13 DEF sourcingVars, SourcingTyped, SourcingTypeOK, Changes, Key
<1> QED BY <1>1, <1>2, <1>3, <1>4, <1>5, <1>6, <1>7, <1>8, <1>9, <1>10, <1>11, <1>12, <1>13
        DEF SourcingNext

---------------------------------------------------------------------------
\* A discount the account had at `time` or later.
HadSince(discount, time) ==
  discount <= Discount /\ (discount < Discount => time <= replaced[discount + 1])

\* A request is not too long under way, and the prices it holds were current after
\* it started.
Timely(held) ==
  /\ held # Ready => held.startedAt <= now /\ now <= held.startedAt + MaxProbe
  /\ held.pc = "rooftops" => HadSince(held.discount, held.startedAt)
  /\ held.pc = "writing" =>
       \A row \in held.pending : HadSince(row.discount, held.startedAt) /\ row.resolvedAt <= now

\* A stored row was resolved at most MaxProbe after its discount was replaced, and is
\* gone Ttl later.
Lasting(row) ==
  /\ row.resolvedAt <= now /\ row.discount <= Discount
  /\ row.discount < Discount =>
       /\ row.resolvedAt <= replaced[row.discount + 1] + MaxProbe
       /\ now <= replaced[row.discount + 1] + Ttl + MaxProbe

RecentInductive ==
  /\ SourcingTyped
  /\ \A i \in DOMAIN replaced : replaced[i] <= now
  /\ \A r \in Resolvers : Timely(resolver[r])
  /\ \A row \in cache : Lasting(row)

LEMMA SourcingInitRecent == SourcingInit => RecentInductive
<1> SUFFICES ASSUME SourcingInit PROVE RecentInductive
  OBVIOUS
<1>1. SourcingTyped
  BY SourcingInitTyped
<1>2. DOMAIN replaced = {} /\ cache = {}
  BY DEF SourcingInit
<1>3. \A r \in Resolvers : Timely(resolver[r])
  BY DEF SourcingInit, Timely, Ready
<1> QED BY <1>1, <1>2, <1>3 DEF RecentInductive

\* A step of one request: what it holds then is timely, and so are the rows.
LEMMA MovedRecent ==
  ASSUME RecentInductive, SourcingTyped', NEW r \in Resolvers, NEW held, Goes(r, held), Timely(held),
         UNCHANGED <<replaced, now>>, \A row \in cache' : Lasting(row)
  PROVE  RecentInductive'
<1>1. \A s \in Resolvers : resolver'[s] \in {held, resolver[s]}
  BY DEF Goes, RecentInductive, SourcingTyped
<1>2. \A s \in Resolvers : Timely(resolver'[s])
  BY <1>1 DEF RecentInductive
<1>3. \A s \in Resolvers : Timely(resolver[s])'
  BY <1>2 DEF Timely, HadSince, Discount
<1>4. \A row \in cache' : Lasting(row)'
  BY DEF Lasting, Discount
<1> QED BY <1>3, <1>4 DEF RecentInductive

\* The row a request writes is stored no later than MaxProbe after its start.
LEMMA PendingLasting ==
  ASSUME RecentInductive, NEW r \in Resolvers, resolver[r].pc = "writing",
         NEW row \in resolver[r].pending
  PROVE  Lasting(row)
<1>1. resolver[r] \in WritingRows
  BY HeldByCounter DEF RecentInductive, SourcingTyped
<1>2. row \in Row /\ resolver[r].startedAt \in Nat
  BY <1>1 DEF WritingRows
<1>3. /\ resolver[r].startedAt <= now /\ now <= resolver[r].startedAt + MaxProbe
      /\ HadSince(row.discount, resolver[r].startedAt) /\ row.resolvedAt <= now
  BY HeldByCounter DEF RecentInductive, SourcingTyped, Timely
<1>4. row.discount \in Nat /\ row.resolvedAt \in Nat /\ now \in Nat /\ MaxProbe \in Nat /\ Ttl \in Nat
  BY <1>2, PartSourcingAssumption DEF Row, RecentInductive, SourcingTyped, SourcingTypeOK
<1>5. /\ Len(replaced) \in Nat /\ \A i \in 1 .. Len(replaced) : replaced[i] \in Nat
  BY PartSourcingAssumption, LenProperties, ElementOfSeq DEF RecentInductive, SourcingTyped
<1>6. row.discount < Discount =>
        replaced[row.discount + 1] \in Nat /\ resolver[r].startedAt <= replaced[row.discount + 1]
  BY <1>3, <1>4, <1>5 DEF Discount, HadSince
<1>7. row.discount <= Discount
  BY <1>3 DEF HadSince
<1> QED BY <1>2, <1>3, <1>4, <1>6, <1>7 DEF Lasting

LEMMA SourcingStepRecent == RecentInductive /\ [SourcingNext]_sourcingVars => RecentInductive'
<1> SUFFICES ASSUME RecentInductive, [SourcingNext]_sourcingVars PROVE RecentInductive'
  OBVIOUS
<1>0. /\ SourcingTyped' /\ now \in Nat /\ Len(replaced) \in Nat
      /\ MaxProbe \in Nat /\ Ttl \in Nat /\ \A row \in cache : Lasting(row)
      /\ \A i \in 1 .. Len(replaced) : replaced[i] \in Nat
      /\ replaced \in Seq(0 .. MaxTime) /\ DOMAIN replaced = 1 .. Len(replaced)
  BY SourcingStepTyped, PartSourcingAssumption, LenProperties, ElementOfSeq
     DEF RecentInductive, SourcingTyped, SourcingTypeOK
<1>1. ASSUME NEW r \in Resolvers, Resolve(r) PROVE RecentInductive'
  <2>1. Timely([pc |-> "account", startedAt |-> now])
    BY <1>0 DEF Timely
  <2> QED BY <1>0, <1>1, <2>1, MovedRecent DEF Resolve
<1>2. ASSUME NEW r \in Resolvers, ReadDiscount(r) PROVE RecentInductive'
  <2>1. resolver[r] # Ready /\ Timely(resolver[r])
    BY <1>2 DEF ReadDiscount, Ready, RecentInductive
  <2>2. Timely([pc |-> "rooftops", startedAt |-> resolver[r].startedAt, discount |-> Discount,
                own |-> {}, active |-> {}])
    BY <1>0, <2>1 DEF Timely, HadSince, Discount
  <2> QED BY <1>0, <1>2, <2>2, MovedRecent DEF ReadDiscount
<1>3. ASSUME NEW r \in Resolvers, ReadOwnRooftop(r) \/ ReadActiveRooftops(r) PROVE RecentInductive'
  <2>1. resolver[r] \in AskingRooftops /\ Timely(resolver[r]) /\ resolver[r] # Ready
    BY <1>3, HeldByCounter DEF ReadOwnRooftop, ReadActiveRooftops, RecentInductive, SourcingTyped, Ready
  <2>2. PICK held : /\ Goes(r, held) /\ held.pc = "rooftops"
                    /\ held.startedAt = resolver[r].startedAt /\ held.discount = resolver[r].discount
    BY <1>3, <2>1 DEF ReadOwnRooftop, ReadActiveRooftops, AskingRooftops
  <2>3. Timely(held)
    BY <2>1, <2>2 DEF Timely, AskingRooftops
  <2> QED BY <1>0, <1>3, <2>2, <2>3, MovedRecent DEF ReadOwnRooftop, ReadActiveRooftops
<1>4. ASSUME NEW r \in Resolvers, BuildRows(r) PROVE RecentInductive'
  <2>1. resolver[r] \in AskingRooftops /\ Timely(resolver[r]) /\ resolver[r] # Ready
    BY <1>4, HeldByCounter DEF BuildRows, RecentInductive, SourcingTyped, Ready
  <2> DEFINE probe == [discount |-> resolver[r].discount, resolvedAt |-> now]
  <2>2. PICK own, active :
          Goes(r, [pc |-> "writing", startedAt |-> resolver[r].startedAt,
                   pending |-> SourceRows(probe, own, active)])
    BY <1>4 DEF BuildRows
  <2>3. \A row \in SourceRows(probe, own, active) :
          row.discount = resolver[r].discount /\ row.resolvedAt = now
    BY StampedAlike
  <2>4. Timely([pc |-> "writing", startedAt |-> resolver[r].startedAt,
                pending |-> SourceRows(probe, own, active)])
    BY <1>0, <2>1, <2>3 DEF Timely, AskingRooftops
  <2> QED BY <1>0, <1>4, <2>2, <2>4, MovedRecent DEF BuildRows
<1>5. ASSUME NEW r \in Resolvers, UpsertRow(r) \/ UpsertFails(r) PROVE RecentInductive'
  <2>1. PICK row \in resolver[r].pending : cache' \subseteq cache \cup {row} /\ Wrote(r, row)
    BY <1>5 DEF UpsertRow, UpsertFails, Upserted
  <2>2. resolver[r].pc = "writing" /\ Timely(resolver[r])
    BY <1>5 DEF UpsertRow, UpsertFails, RecentInductive
  <2>3. PICK held : /\ Goes(r, held)
                    /\ held = Ready \/ /\ held.pc = "writing" /\ held.startedAt = resolver[r].startedAt
                                       /\ held.pending = resolver[r].pending \ {row}
    BY <2>1, <2>2, WroteTyped DEF RecentInductive
  <2>4. Timely(held)
    BY <2>2, <2>3 DEF Timely, Ready
  <2>5. \A other \in cache' : Lasting(other)
    BY <1>0, <2>1, <2>2, PendingLasting
  <2> QED BY <1>0, <1>5, <2>3, <2>4, <2>5, MovedRecent DEF UpsertRow, UpsertFails
<1>6. ASSUME NEW r \in Resolvers, Crash(r) PROVE RecentInductive'
  <2>1. Timely(Ready)
    BY DEF Timely, Ready
  <2> QED BY <1>0, <1>6, <2>1, MovedRecent DEF Crash
<1>7. CASE ChangeDiscount
  <2>1. /\ replaced' = Append(replaced, now) /\ UNCHANGED <<cache, resolver, now>>
        /\ Discount' = Discount + 1 /\ Discount \in Nat /\ now \in 0 .. MaxTime
        /\ \A i \in 1 .. Discount : replaced'[i] = replaced[i]
        /\ replaced'[Discount + 1] = now
        /\ DOMAIN replaced' = 1 .. Discount + 1
    BY <1>0, <1>7, AppendProperties DEF ChangeDiscount, Discount, RecentInductive, SourcingTyped, SourcingTypeOK
  <2>2. \A i \in DOMAIN replaced' : replaced'[i] <= now'
    BY <1>0, <2>1 DEF RecentInductive, Discount
  <2>3. ASSUME NEW d \in Nat, NEW time \in Nat, time <= now, HadSince(d, time) PROVE HadSince(d, time)'
    BY <2>1, <2>3 DEF HadSince
  <2>4. ASSUME NEW r \in Resolvers PROVE Timely(resolver[r])'
    <3>1. /\ resolver[r] \in Held /\ Timely(resolver[r])
      BY DEF RecentInductive, SourcingTyped
    <3>2. CASE resolver[r].pc = "rooftops"
      <4>1. resolver[r] \in AskingRooftops /\ resolver[r] # Ready
        BY <3>1, <3>2, HeldByCounter
      <4>2. resolver[r].discount \in Nat /\ resolver[r].startedAt \in Nat
        BY <4>1 DEF AskingRooftops
      <4> QED BY <2>1, <2>3, <3>1, <3>2, <4>1, <4>2 DEF Timely
    <3>3. CASE resolver[r].pc = "writing"
      <4>1. resolver[r] \in WritingRows /\ resolver[r] # Ready
        BY <3>1, <3>3, HeldByCounter
      <4>2. resolver[r].startedAt \in Nat /\ \A row \in resolver[r].pending : row.discount \in Nat
        BY <4>1 DEF WritingRows, Row
      <4> QED BY <2>1, <2>3, <3>1, <3>3, <4>1, <4>2 DEF Timely
    <3>4. CASE resolver[r].pc \notin {"rooftops", "writing"}
      BY <2>1, <3>1, <3>4 DEF Timely
    <3> QED BY <3>2, <3>3, <3>4
  <2>5. ASSUME NEW row \in cache PROVE Lasting(row)'
    <3>1. row.discount \in Nat /\ row.resolvedAt \in Nat
      BY DEF RecentInductive, SourcingTyped, SourcingTypeOK, Row
    <3>2. Lasting(row)
      BY <1>0
    <3>3. CASE row.discount = Discount
      BY <1>0, <2>1, <3>1, <3>2, <3>3 DEF Lasting
    <3>4. CASE row.discount < Discount
      <4>1. replaced'[row.discount + 1] = replaced[row.discount + 1]
        BY <2>1, <3>1, <3>4
      <4> QED BY <1>0, <2>1, <3>1, <3>2, <3>4, <4>1 DEF Lasting
    <3> QED BY <2>1, <3>1, <3>2, <3>3, <3>4 DEF Lasting
  <2> QED BY <1>0, <2>1, <2>2, <2>4, <2>5 DEF RecentInductive
<1>8. CASE ExpireRow
  <2>1. cache' \subseteq cache /\ UNCHANGED <<replaced, resolver, now>>
    BY <1>8 DEF ExpireRow
  <2> QED BY <1>0, <2>1 DEF RecentInductive, Timely, HadSince, Lasting, Discount
<1>9. CASE Tick
  <2>1. /\ now' = now + 1 /\ UNCHANGED <<replaced, cache, resolver>>
        /\ \A row \in cache : now < row.resolvedAt + Ttl
        /\ \A r \in Resolvers : Resolving(r) => now < resolver[r].startedAt + MaxProbe
    BY <1>9 DEF Tick
  <2>2. ASSUME NEW r \in Resolvers PROVE Timely(resolver[r])'
    <3>1. resolver[r] \in Held /\ Timely(resolver[r])
      BY DEF RecentInductive, SourcingTyped
    <3>2. resolver[r] # Ready => resolver[r].startedAt \in Nat
      BY <3>1, HeldByCounter DEF Held, AskingAccount, AskingRooftops, WritingRows
    <3>3. resolver[r].pc = "writing" => \A row \in resolver[r].pending : row.resolvedAt \in Nat
      BY <3>1, HeldByCounter DEF WritingRows, Row
    <3> QED BY <1>0, <2>1, <3>1, <3>2, <3>3 DEF Timely, HadSince, Discount, Resolving
  <2>3. ASSUME NEW row \in cache PROVE Lasting(row)'
    <3>1. row.discount \in Nat /\ row.resolvedAt \in Nat
      BY DEF RecentInductive, SourcingTyped, SourcingTypeOK, Row
    <3>2. ASSUME NEW time \in Nat, row.resolvedAt <= time + MaxProbe
          PROVE  now' <= time + Ttl + MaxProbe
      BY <1>0, <2>1, <3>1, <3>2
    <3>3. ASSUME row.discount < Discount
          PROVE  /\ row.resolvedAt <= replaced[row.discount + 1] + MaxProbe
                 /\ now' <= replaced[row.discount + 1] + Ttl + MaxProbe
      <4>1. replaced[row.discount + 1] \in Nat
        BY <1>0, <3>1, <3>3 DEF Discount
      <4>2. row.resolvedAt <= replaced[row.discount + 1] + MaxProbe
        BY <1>0, <3>3 DEF Lasting
      <4> QED BY <3>2, <4>1, <4>2
    <3>4. row.resolvedAt <= now' /\ row.discount <= Discount
      BY <1>0, <2>1, <3>1 DEF Lasting
    <3>5. Discount' = Discount /\ replaced' = replaced
      BY <2>1 DEF Discount
    <3> QED BY <3>3, <3>4, <3>5 DEF Lasting
  <2>4. \A i \in DOMAIN replaced' : replaced'[i] <= now'
    BY <1>0, <2>1 DEF RecentInductive
  <2> QED BY <1>0, <2>1, <2>2, <2>3, <2>4 DEF RecentInductive
<1>10. CASE ChangeRooftops \/ UNCHANGED sourcingVars
  BY <1>0, <1>10 DEF ChangeRooftops, sourcingVars, RecentInductive, Timely, HadSince, Lasting, Discount
<1> QED BY <1>1, <1>2, <1>3, <1>4, <1>5, <1>6, <1>7, <1>8, <1>9, <1>10 DEF SourcingNext

---------------------------------------------------------------------------
(* The sources that CacheWhole is about: a row without its price and time. *)

Labels(own, active) ==
  {IF own = NoRooftop THEN <<"BRANCH", "Own Branch", "null">>
   ELSE <<"BRANCH", own.name, own.rooftopId>>}
    \cup {<<"SISTER", s.name, s.rooftopId>> : s \in {t \in active : t.rooftopId # Home}}
    \cup {<<kind, "Portal", "null">> : kind \in Portals}

LabelsNow == Labels(RooftopOf(Home), ActiveRooftops)

Labelled(row, label) ==
  row.sourceKind = label[1] /\ row.sourceName = label[2] /\ row.sourceRooftopId = label[3]

OfSource(row) == \E label \in LabelsNow : Labelled(row, label)
Covered(rows) == \A label \in LabelsNow : \E row \in rows : Key(row) = <<label[1], label[2]>>

LEMMA RowsOfLabels ==
  ASSUME NEW probe, NEW own, NEW active
  PROVE  /\ \A row \in SourceRows(probe, own, active) :
              \E label \in Labels(own, active) : Labelled(row, label)
         /\ \A label \in Labels(own, active) :
              \E row \in SourceRows(probe, own, active) : Labelled(row, label)
<1>1. \A kind, name, slug : Labelled(SourceRow(probe, kind, name, slug), <<kind, name, slug>>)
  BY DEF SourceRow, Labelled
<1>2. ASSUME NEW row \in SourceRows(probe, own, active)
      PROVE  \E label \in Labels(own, active) : Labelled(row, label)
  <2>1. CASE row = BranchRow(probe, own)
    BY <1>1, <2>1 DEF BranchRow, Labels
  <2>2. CASE row \in SisterRows(probe, active)
    BY <1>1, <2>2 DEF SisterRows, Labels
  <2>3. CASE row \in {SourceRow(probe, kind, "Portal", "null") : kind \in Portals}
    BY <1>1, <2>3 DEF Labels
  <2> QED BY <2>1, <2>2, <2>3 DEF SourceRows
<1>3. ASSUME NEW label \in Labels(own, active)
      PROVE  \E row \in SourceRows(probe, own, active) : Labelled(row, label)
  <2>1. CASE label = IF own = NoRooftop THEN <<"BRANCH", "Own Branch", "null">>
                     ELSE <<"BRANCH", own.name, own.rooftopId>>
    BY <1>1, <2>1 DEF BranchRow, SourceRows
  <2>2. CASE label \in {<<"SISTER", s.name, s.rooftopId>> : s \in {t \in active : t.rooftopId # Home}}
    BY <1>1, <2>2 DEF SisterRows, SourceRows
  <2>3. CASE label \in {<<kind, "Portal", "null">> : kind \in Portals}
    BY <1>1, <2>3 DEF SourceRows
  <2> QED BY <2>1, <2>2, <2>3 DEF Labels
<1> QED BY <1>2, <1>3

\* What has been read of the rooftops is still so; what is built and stored names
\* sources there are, and together leaves none out.
StillTrue(held) ==
  /\ held.pc = "rooftops" => held.own \subseteq {RooftopOf(Home)} /\ held.active \subseteq {ActiveRooftops}
  /\ held.pc = "writing" =>
       (\A row \in held.pending : OfSource(row)) /\ Covered(cache \cup held.pending)

Writing(r) == resolver[r].pc = "writing"

WholeInductive ==
  ~disturbed =>
    /\ \A r \in Resolvers : StillTrue(resolver[r])
    /\ \A row \in cache : OfSource(row)
    /\ cache # {} /\ (\A r \in Resolvers : ~Writing(r)) => Covered(cache)

\* An upsert takes no source away.
LEMMA UpsertCovers ==
  ASSUME NEW rows, NEW row, Covered(cache \cup rows)
  PROVE  Covered(Upserted(cache, row) \cup (rows \ {row}))
BY DEF Covered, Upserted

\* With nothing stored and nobody at work there is nothing to be true to.
LEMMA ClearedWhole ==
  ASSUME cache' = {}, \A r \in Resolvers : ~Resolving(r)'
  PROVE  WholeInductive'
BY DEF WholeInductive, StillTrue, Resolving, Ready

\* A step of a request that writes nothing, before or after.
LEMMA MovedWhole ==
  ASSUME SourcingTyped, WholeInductive, ~disturbed, NEW r \in Resolvers, ~Writing(r),
         NEW held, Goes(r, held), StillTrue(held), UNCHANGED <<rooftops, cache>>
  PROVE  WholeInductive'
<1>1. resolver'[r] = held /\ \A s \in Resolvers : s # r => resolver'[s] = resolver[s]
  BY DEF Goes, SourcingTyped
<1>2. LabelsNow' = LabelsNow /\ RooftopOf(Home)' = RooftopOf(Home) /\ ActiveRooftops' = ActiveRooftops
  BY DEF LabelsNow, RooftopOf, ActiveRooftops, Stored
<1>3. \A s \in Resolvers : StillTrue(resolver'[s])
  BY <1>1 DEF WholeInductive
<1>4. \A s \in Resolvers : StillTrue(resolver[s])'
  BY <1>2, <1>3 DEF StillTrue, OfSource, Covered
<1>5. (\A s \in Resolvers : ~Writing(s)') => \A s \in Resolvers : ~Writing(s)
  BY <1>1 DEF Writing
<1> QED BY <1>2, <1>4, <1>5 DEF WholeInductive, OfSource, Covered

\* A step that leaves rooftops, rows and requests alone.
LEMMA UnmovedWhole ==
  ASSUME WholeInductive, ~disturbed, UNCHANGED <<rooftops, cache, resolver>>
  PROVE  WholeInductive'
<1>1. LabelsNow' = LabelsNow /\ RooftopOf(Home)' = RooftopOf(Home) /\ ActiveRooftops' = ActiveRooftops
  BY DEF LabelsNow, RooftopOf, ActiveRooftops, Stored
<1>2. \A r \in Resolvers : StillTrue(resolver[r])'
  BY <1>1 DEF WholeInductive, StillTrue, OfSource, Covered
<1>3. (\A r \in Resolvers : ~Writing(r)') => \A r \in Resolvers : ~Writing(r)
  BY DEF Writing
<1> QED BY <1>1, <1>2, <1>3 DEF WholeInductive, OfSource, Covered

LEMMA SourcingStepWhole ==
  SourcingTyped /\ WholeInductive /\ [SourcingNext]_sourcingVars => WholeInductive'
<1> SUFFICES ASSUME SourcingTyped, WholeInductive, [SourcingNext]_sourcingVars, ~disturbed'
             PROVE  WholeInductive'
  BY DEF WholeInductive
<1>1. ASSUME NEW r \in Resolvers,
             Resolve(r) \/ ReadDiscount(r) \/ ReadOwnRooftop(r) \/ ReadActiveRooftops(r)
      PROVE  WholeInductive'
  <2>1. ~disturbed /\ ~Writing(r) /\ UNCHANGED <<rooftops, cache>>
    BY <1>1 DEF Resolve, ReadDiscount, ReadOwnRooftop, ReadActiveRooftops, Writing, Ready, rooftopVars
  <2>2. StillTrue(resolver[r])
    BY <2>1 DEF WholeInductive
  <2>3. \E held : Goes(r, held) /\ StillTrue(held)
    <3>1. CASE Resolve(r)
      BY <3>1 DEF Resolve, StillTrue
    <3>2. CASE ReadDiscount(r)
      BY <3>2 DEF ReadDiscount, StillTrue
    <3>3. CASE ReadOwnRooftop(r) \/ ReadActiveRooftops(r)
      <4>1. resolver[r] \in AskingRooftops
        BY <3>3, HeldByCounter DEF ReadOwnRooftop, ReadActiveRooftops, SourcingTyped
      <4>2. StillTrue([resolver[r] EXCEPT !.own = {RooftopOf(Home)}])
        BY <2>2, <4>1 DEF StillTrue, AskingRooftops
      <4>3. StillTrue([resolver[r] EXCEPT !.active = {ActiveRooftops}])
        BY <2>2, <4>1 DEF StillTrue, AskingRooftops
      <4> QED BY <3>3, <4>2, <4>3 DEF ReadOwnRooftop, ReadActiveRooftops
    <3> QED BY <1>1, <3>1, <3>2, <3>3
  <2> QED BY <2>1, <2>3, MovedWhole
<1>2. ASSUME NEW r \in Resolvers, BuildRows(r) PROVE WholeInductive'
  <2>1. ~disturbed /\ ~Writing(r) /\ UNCHANGED <<rooftops, cache>> /\ resolver[r].pc = "rooftops"
    BY <1>2 DEF BuildRows, Writing, rooftopVars
  <2> DEFINE probe == [discount |-> resolver[r].discount, resolvedAt |-> now]
             rows == SourceRows(probe, RooftopOf(Home), ActiveRooftops)
             held == [pc |-> "writing", startedAt |-> resolver[r].startedAt, pending |-> rows]
  <2>2. resolver[r].own \subseteq {RooftopOf(Home)} /\ resolver[r].active \subseteq {ActiveRooftops}
    BY <2>1 DEF WholeInductive, StillTrue
  <2>3. Goes(r, held)
    BY <1>2, <2>2 DEF BuildRows
  <2>4. (\A row \in rows : OfSource(row)) /\ \A label \in LabelsNow : \E row \in rows : Labelled(row, label)
    BY RowsOfLabels DEF OfSource, LabelsNow
  <2>5. Covered(cache \cup rows)
    BY <2>4 DEF Covered, Labelled, Key
  <2>6. StillTrue(held)
    BY <2>4, <2>5 DEF StillTrue
  <2> HIDE DEF held
  <2> QED BY <2>1, <2>3, <2>6, MovedWhole
<1>3. ASSUME NEW r \in Resolvers, UpsertRow(r) PROVE WholeInductive'
  <2>1. PICK row \in resolver[r].pending : cache' = Upserted(cache, row) /\ Wrote(r, row)
    BY <1>3 DEF UpsertRow
  <2>2. row \in cache' /\ UNCHANGED rooftops /\ Writing(r)
    BY <1>3, <2>1 DEF UpsertRow, Upserted, rooftopVars, Writing
  <2>3. ~disturbed
    BY <1>3, <2>2 DEF UpsertRow, Disturbs
  <2>4. PICK held : /\ Goes(r, held)
                    /\ \/ held = Ready /\ resolver[r].pending = {row}
                       \/ held.pc = "writing" /\ held.pending = resolver[r].pending \ {row}
    BY <2>1, <2>2, WroteTyped DEF Writing
  <2>5. resolver'[r] = held /\ \A s \in Resolvers : s # r => resolver'[s] = resolver[s]
    BY <2>4 DEF Goes, SourcingTyped
  <2>6. LabelsNow' = LabelsNow /\ RooftopOf(Home)' = RooftopOf(Home) /\ ActiveRooftops' = ActiveRooftops
    BY <2>2 DEF LabelsNow, RooftopOf, ActiveRooftops, Stored
  <2>7. /\ \A s \in Resolvers : StillTrue(resolver[s])
        /\ \A other \in cache : OfSource(other)
    BY <2>3 DEF WholeInductive
  <2>8. OfSource(row) /\ Covered(cache \cup resolver[r].pending)
    BY <2>2, <2>7 DEF StillTrue, Writing
  <2>9. \A other \in cache' : OfSource(other)'
    BY <2>1, <2>6, <2>7, <2>8 DEF OfSource, Upserted
  <2>10. \A rows : Covered(cache \cup rows) =>
            \A label \in LabelsNow' : \E other \in cache' \cup (rows \ {row}) :
              Key(other) = <<label[1], label[2]>>
    <3>1. ASSUME NEW rows, Covered(cache \cup rows) PROVE Covered(cache' \cup (rows \ {row}))
      BY <2>1, <3>1, UpsertCovers
    <3> QED BY <2>6, <3>1 DEF Covered
  <2>11. ASSUME NEW s \in Resolvers PROVE StillTrue(resolver[s])'
    <3>1. CASE s = r
      <4>1. CASE held = Ready
        BY <2>5, <3>1, <4>1 DEF StillTrue, Ready
      <4>2. CASE held.pc = "writing" /\ held.pending = resolver[r].pending \ {row}
        <5>1. resolver[s]' = held /\ \A other \in held.pending : OfSource(other)
          BY <2>2, <2>5, <2>7, <3>1, <4>2 DEF StillTrue, Writing
        <5>2. \A label \in LabelsNow' : \E other \in cache' \cup held.pending :
                Key(other) = <<label[1], label[2]>>
          BY <2>8, <2>10, <4>2
        <5> QED BY <2>6, <4>2, <5>1, <5>2 DEF StillTrue, OfSource, Covered
      <4> QED BY <2>4, <4>1, <4>2
    <3>2. CASE s # r
      <4>1. StillTrue(resolver[s]) /\ resolver'[s] = resolver[s]
        BY <2>5, <2>7, <3>2
      <4>2. resolver[s].pc = "writing" =>
              \A label \in LabelsNow' : \E other \in cache' \cup (resolver[s].pending \ {row}) :
                Key(other) = <<label[1], label[2]>>
        BY <2>10, <4>1 DEF StillTrue
      <4> QED BY <2>6, <4>1, <4>2 DEF StillTrue, OfSource, Covered
    <3> QED BY <3>1, <3>2
  <2>12. (\A s \in Resolvers : ~Writing(s)') => Covered(cache)'
    <3>1. SUFFICES ASSUME ~Writing(r)' PROVE Covered(cache)'
      OBVIOUS
    <3>2. resolver[r].pending = {row}
      BY <2>4, <2>5, <3>1 DEF Writing
    <3>3. \A label \in LabelsNow' : \E other \in cache' : Key(other) = <<label[1], label[2]>>
      BY <2>8, <2>10, <3>2
    <3> QED BY <3>3 DEF Covered
  <2> QED BY <2>9, <2>11, <2>12 DEF WholeInductive
<1>4. ASSUME NEW r \in Resolvers, UpsertFails(r) PROVE WholeInductive'
  BY <1>4, ClearedWhole DEF UpsertFails, Disturbs
<1>5. ASSUME NEW r \in Resolvers, Crash(r) PROVE WholeInductive'
  <2>1. CASE disturbed \/ Writing(r)
    <3>1. cache' = {} /\ \A s \in Resolvers : ~Resolving(s)'
      BY <1>5, <2>1 DEF Crash, Disturbs, Writing
    <3> QED BY <3>1, ClearedWhole
  <2>2. CASE ~disturbed /\ ~Writing(r)
    <3>1. StillTrue(Ready)
      BY DEF StillTrue, Ready
    <3> QED BY <1>5, <2>2, <3>1, MovedWhole DEF Crash, rooftopVars
  <2> QED BY <2>1, <2>2
<1>6. CASE ExpireRow
  <2>1. cache' = {} /\ \A s \in Resolvers : ~Resolving(s)'
    BY <1>6 DEF ExpireRow, Disturbs
  <2> QED BY <2>1, ClearedWhole
<1>7. CASE ChangeRooftops
  <2>1. CASE disturbed \/ rooftops' # rooftops
    BY <1>7, <2>1, ClearedWhole DEF ChangeRooftops, Disturbs
  <2>2. CASE ~disturbed /\ rooftops' = rooftops
    BY <1>7, <2>2, UnmovedWhole DEF ChangeRooftops
  <2> QED BY <2>1, <2>2
<1>8. CASE ChangeDiscount \/ Tick \/ UNCHANGED sourcingVars
  BY <1>8, UnmovedWhole DEF ChangeDiscount, Tick, sourcingVars, rooftopVars
<1> QED BY <1>1, <1>2, <1>3, <1>4, <1>5, <1>6, <1>7, <1>8 DEF SourcingNext

LEMMA AlwaysSourcing == SourcingSpec => [](RecentInductive /\ WholeInductive)
<1>1. SourcingInit => RecentInductive /\ WholeInductive
  <2>1. SourcingInit => WholeInductive
    BY DEF SourcingInit, WholeInductive, StillTrue, Ready
  <2> QED BY <2>1, SourcingInitRecent
<1>2. RecentInductive => SourcingTyped
  BY DEF RecentInductive
<1> QED BY <1>1, <1>2, SourcingStepRecent, SourcingStepWhole, PTL DEF SourcingSpec

\* Every variable of PartSourcing keeps its type, whatever rooftops are created or
\* updated and however resolutions overlap: a row names a rooftop by typed fields, and
\* no two rows have one key.
THEOREM SourcingTypeCorrect == SourcingSpec => []SourcingTypeOK
<1>1. RecentInductive => SourcingTypeOK
  BY DEF RecentInductive, SourcingTyped
<1> QED BY <1>1, AlwaysSourcing, PTL

\* No price outlives its discount by more than a probe and the TTL, for any number of
\* overlapping resolutions, imports and crashes.
THEOREM PricesRecent == SourcingSpec => []PriceRecent
<1>1. RecentInductive => PriceRecent
  <2> SUFFICES ASSUME RecentInductive, NEW row \in cache, row.discount < Discount
               PROVE  now <= replaced[row.discount + 1] + Ttl + MaxProbe
    BY DEF PriceRecent
  <2> QED BY DEF RecentInductive, Lasting
<1> QED BY <1>1, AlwaysSourcing, PTL

\* Rows at rest are the sources there are, unless a write failed, a rooftop changed or
\* a row expired since the cache was last empty.
THEOREM CacheAlwaysWhole == SourcingSpec => []CacheWhole
<1>1. WholeInductive => CacheWhole
  <2> SUFFICES ASSUME WholeInductive, cache # {}, ~disturbed, \A r \in Resolvers : ~Resolving(r),
                      NEW probe, NEW fresh, fresh = SourceRows(probe, RooftopOf(Home), ActiveRooftops)
               PROVE  /\ {Key(row) : row \in cache} = {Key(row) : row \in fresh}
                      /\ \A row \in cache : \E f \in fresh :
                           Key(row) = Key(f) /\ row.sourceRooftopId = f.sourceRooftopId
    BY DEF CacheWhole
  <2>1. (\A row \in cache : OfSource(row)) /\ Covered(cache)
    BY DEF WholeInductive, Writing, Resolving, Ready
  <2>2. /\ \A row \in fresh : \E label \in LabelsNow : Labelled(row, label)
        /\ \A label \in LabelsNow : \E row \in fresh : Labelled(row, label)
    BY RowsOfLabels DEF LabelsNow
  <2>3. \A row \in cache : \E f \in fresh :
          Key(row) = Key(f) /\ row.sourceRooftopId = f.sourceRooftopId
    BY <2>1, <2>2 DEF OfSource, Labelled, Key
  <2>4. \A f \in fresh : \E row \in cache : Key(row) = Key(f)
    BY <2>1, <2>2 DEF Covered, Labelled, Key
  <2> QED BY <2>3, <2>4
<1> QED BY <1>1, AlwaysSourcing, PTL
=============================================================================
