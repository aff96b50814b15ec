------------------------- MODULE PartsCheckRfqProofs -------------------------
(***************************************************************************)
(* Proofs about PartsCheckRfq for any set of lines and prices, any number  *)
(* of handlers, deliveries, saves and crashes.                             *)
(*                                                                         *)
(* The argument: what a handler carries across an await is already fit to  *)
(* be sent or stored, whatever has happened to the stored document since.  *)
(* Only a webhook carries the status AUTO_QUOTED, together with the        *)
(* mapping that justifies it; only triggerQuote carries prices to be sent, *)
(* and it tested those very prices; acceptRfq carries the id of an order   *)
(* that is stored already, and orders are never deleted.                   *)
(***************************************************************************)
EXTENDS PartsCheckRfq, SequenceTheorems, TLAPS

\* What a handler may hold.
Upserting == [pc : {"upsert"}, status : RfqStatus, mapped : BOOLEAN, price : LinePrices]
Holding == [pc : {"loaded", "dispatch"}, doc : Rfq, v : 0 .. MaxSaves]
Accepting == [pc : {"accept"}, doc : Rfq, id : 1 .. MaxSaves]

Bounded ==
  /\ saves \in 0 .. MaxSaves
  /\ version <= saves
  /\ Len(orders) <= saves

Typed ==
  /\ rfq \in Rfq
  /\ exists \in BOOLEAN
  /\ version \in Nat
  /\ orders \in Seq(LinePrices)
  /\ quotes \subseteq Quote
  /\ handler \in [Handlers -> {Idle} \cup Upserting \cup Holding \cup Accepting]

\* What is carried is fit to be stored or sent.
Carried(state) ==
  /\ state.pc = "upsert" =>
       /\ state.status \in {"AUTO_QUOTED", "UNMAPPED_BUYER", "PENDING_REVIEW"}
       /\ state.status = "AUTO_QUOTED" => state.mapped
  /\ state.pc = "dispatch" => AllPriced(state.doc.price)
  /\ state.pc = "accept" => state.id <= Len(orders)

Inductive ==
  /\ Bounded
  /\ Typed
  /\ \A h \in Handlers : Carried(handler[h])
  /\ QuotesFullyPriced
  /\ UnmappedNeverAutoQuoted
  /\ rfq.status = "ACCEPTED" => rfq.acceptedOrderId # NoOrder
  /\ rfq.acceptedOrderId # NoOrder => rfq.acceptedOrderId \in 1 .. Len(orders)

---------------------------------------------------------------------------
LEMMA InitInductive == Init => Inductive
<1> SUFFICES ASSUME Init PROVE Inductive
  OBVIOUS
<1>1. rfq \in Rfq /\ rfq.status = "RECEIVED" /\ rfq.acceptedOrderId = NoOrder
  BY DEF Init, Rfq, RfqStatus, LinePrices
<1>2. orders \in Seq(LinePrices) /\ Len(orders) = 0
  BY EmptySeq DEF Init
<1>3. Bounded
  BY <1>2, PartsCheckAssumption DEF Init, Bounded
<1>4. Typed
  BY <1>1, <1>2 DEF Init, Typed
<1>5. \A h \in Handlers : Carried(handler[h])
  BY DEF Init, Carried, Idle
<1> QED BY <1>1, <1>3, <1>4, <1>5 DEF Init, Inductive, QuotesFullyPriced, UnmappedNeverAutoQuoted

\* The status a webhook computes: an automatic quote has a mapped buyer and a
\* price for every line.
LEMMA WebhookStatusOK ==
  ASSUME NEW mapped \in BOOLEAN, NEW onHold \in BOOLEAN, NEW price \in LinePrices
  PROVE  LET status == WebhookStatus(mapped, onHold, price) IN
         /\ status \in {"AUTO_QUOTED", "UNMAPPED_BUYER", "PENDING_REVIEW"}
         /\ status = "AUTO_QUOTED" => mapped /\ AllPriced(price)
BY DEF WebhookStatus

\* A quote that is sent with good lines leaves the quotes received good.
LEMMA DispatchOK ==
  ASSUME quotes \subseteq Quote, QuotesFullyPriced,
         \A quote \in quotes : quote.kind = "AUTO_QUOTED" => quote.isBuyerMapped,
         NEW quote \in Quote, AllPriced(quote.price),
         quote.kind = "AUTO_QUOTED" => quote.isBuyerMapped,
         Dispatch(quote)
  PROVE  /\ quotes' \subseteq Quote
         /\ QuotesFullyPriced'
         /\ \A q \in quotes' : q.kind = "AUTO_QUOTED" => q.isBuyerMapped
BY DEF Dispatch, QuotesFullyPriced, AllPriced

\* A webhook resolved.
LEMMA ResolveInductive ==
  ASSUME Inductive, NEW h \in Handlers, NEW mapped \in BOOLEAN, NEW onHold \in BOOLEAN,
         NEW price \in LinePrices, ResolveInbound(h, mapped, onHold, price)
  PROVE  Inductive'
<1> DEFINE status == WebhookStatus(mapped, onHold, price)
           quote  == [kind |-> status, isBuyerMapped |-> mapped, price |-> price]
           state  == [pc |-> "upsert", status |-> status, mapped |-> mapped, price |-> price]
<1>1. /\ status \in {"AUTO_QUOTED", "UNMAPPED_BUYER", "PENDING_REVIEW"}
      /\ status = "AUTO_QUOTED" => mapped /\ AllPriced(price)
  BY WebhookStatusOK
<1>2. UNCHANGED <<rfq, exists, version, orders, saves, crashes>>
  BY DEF ResolveInbound
<1>3. /\ handler' = [handler EXCEPT ![h] = state]
      /\ IF status = "AUTO_QUOTED" THEN Dispatch(quote) ELSE quotes' = quotes
  BY DEF ResolveInbound, Becomes
<1> HIDE DEF status
<1>4. state \in Upserting
  BY <1>1 DEF Upserting, RfqStatus
<1>5. /\ quotes' \subseteq Quote
      /\ QuotesFullyPriced'
      /\ \A q \in quotes' : q.kind = "AUTO_QUOTED" => q.isBuyerMapped
  <2>1. CASE status = "AUTO_QUOTED"
    <3>1. /\ quote \in Quote
          /\ AllPriced(quote.price)
          /\ quote.kind = "AUTO_QUOTED" => quote.isBuyerMapped
      BY <1>1, <2>1 DEF Quote
    <3>2. Dispatch(quote)
      BY <1>3, <2>1
    <3> QED BY <3>1, <3>2, DispatchOK DEF Inductive, Typed, UnmappedNeverAutoQuoted
  <2>2. CASE status # "AUTO_QUOTED"
    BY <1>3, <2>2 DEF Inductive, Typed, UnmappedNeverAutoQuoted, QuotesFullyPriced
  <2> QED BY <2>1, <2>2
<1>6. Typed' /\ Bounded'
  BY <1>2, <1>3, <1>4, <1>5 DEF Inductive, Typed, Bounded
<1>7. Carried(state)
  BY <1>1 DEF Carried
<1>8. \A k \in Handlers : Carried(handler[k])'
  BY <1>2, <1>3, <1>7 DEF Inductive, Typed, Carried
<1> QED BY <1>2, <1>5, <1>6, <1>8 DEF Inductive, UnmappedNeverAutoQuoted

\* The upsert of what a webhook resolved.
LEMMA UpsertInductive ==
  ASSUME Inductive, NEW h \in Handlers, UpsertRfq(h)
  PROVE  Inductive'
<1>1. handler[h] \in Upserting
  BY DEF Inductive, Typed, UpsertRfq, Upserting, Holding, Accepting, Idle
<1>2. /\ handler[h].status \in {"AUTO_QUOTED", "UNMAPPED_BUYER", "PENDING_REVIEW"}
      /\ handler[h].status = "AUTO_QUOTED" => handler[h].mapped
  BY DEF Inductive, UpsertRfq, Carried
<1>3. /\ rfq' = [rfq EXCEPT !.status = handler[h].status, !.isBuyerMapped = handler[h].mapped,
                            !.price = handler[h].price]
      /\ exists' = TRUE
      /\ handler' = [handler EXCEPT ![h] = Idle]
      /\ UNCHANGED <<version, orders, quotes, saves>>
  BY DEF UpsertRfq, Becomes, bounds
<1>4. /\ rfq' \in Rfq
      /\ rfq'.status = handler[h].status
      /\ rfq'.isBuyerMapped = handler[h].mapped
      /\ rfq'.acceptedOrderId = rfq.acceptedOrderId
  BY <1>1, <1>3 DEF Inductive, Typed, Rfq, Upserting
<1>5. Typed' /\ Bounded'
  BY <1>3, <1>4 DEF Inductive, Typed, Bounded
<1>6. \A k \in Handlers : Carried(handler[k])'
  BY <1>3 DEF Inductive, Typed, Carried, Idle
<1> QED BY <1>2, <1>3, <1>4, <1>5, <1>6
        DEF Inductive, UnmappedNeverAutoQuoted, QuotesFullyPriced

\* A handler that holds a copy: what it holds.
LEMMA LoadedHolds ==
  ASSUME Inductive, NEW h \in Handlers, handler[h].pc \in {"loaded", "dispatch"}
  PROVE  handler[h] \in Holding
BY DEF Inductive, Typed, Upserting, Holding, Accepting, Idle

\* Loading a copy, and answering without a change.
LEMMA LoadInductive ==
  ASSUME Inductive, NEW h \in Handlers, LoadRfq(h) \/ AnswerOnly(h)
  PROVE  Inductive'
<1> DEFINE state == [pc |-> "loaded", doc |-> rfq, v |-> version]
<1>1. /\ handler' = [handler EXCEPT ![h] = state] \/ handler' = [handler EXCEPT ![h] = Idle]
      /\ UNCHANGED <<rfq, exists, version, orders, quotes, saves>>
  BY DEF LoadRfq, AnswerOnly, Becomes, bounds
<1>2. state \in Holding
  BY PartsCheckAssumption DEF Inductive, Typed, Bounded, Holding
<1>3. Typed' /\ Bounded'
  BY <1>1, <1>2 DEF Inductive, Typed, Bounded
<1>4. \A k \in Handlers : Carried(handler[k])'
  BY <1>1 DEF Inductive, Typed, Carried, Idle
<1> QED BY <1>1, <1>3, <1>4 DEF Inductive, UnmappedNeverAutoQuoted, QuotesFullyPriced

\* triggerQuote saves the status, and then sends the prices it tested.
LEMMA SaveManualQuoteInductive ==
  ASSUME Inductive, NEW h \in Handlers, SaveManualQuote(h)
  PROVE  Inductive'
<1> DEFINE state == [handler[h] EXCEPT !.pc = "dispatch"]
<1>1. handler[h] \in Holding
  BY LoadedHolds DEF SaveManualQuote
<1>2. state \in Holding /\ state.pc = "dispatch" /\ state.doc = handler[h].doc
  BY <1>1 DEF Holding
<1>3. Carried(state)
  BY <1>2 DEF SaveManualQuote, Carried
<1>4. /\ rfq' = rfq \/ rfq' = [rfq EXCEPT !.status = "MANUALLY_QUOTED"]
      /\ handler' = [handler EXCEPT ![h] = state]
      /\ saves' = saves + 1 /\ saves < MaxSaves
      /\ UNCHANGED <<exists, version, orders, quotes>>
  BY DEF SaveManualQuote, Becomes
<1>5. /\ rfq' \in Rfq
      /\ rfq'.status \in {rfq.status, "MANUALLY_QUOTED"}
      /\ rfq'.isBuyerMapped = rfq.isBuyerMapped
      /\ rfq'.acceptedOrderId = rfq.acceptedOrderId
  BY <1>4 DEF Inductive, Typed, Rfq, RfqStatus
<1>6. Bounded'
  <2>1. /\ saves \in 0 .. MaxSaves /\ version <= saves /\ Len(orders) <= saves
        /\ version \in Nat /\ Len(orders) \in Nat
    BY LenProperties DEF Inductive, Bounded, Typed
  <2> QED BY <1>4, <2>1, PartsCheckAssumption DEF Bounded
<1> HIDE DEF state
<1>7. Typed'
  BY <1>2, <1>4, <1>5 DEF Inductive, Typed
<1>8. \A k \in Handlers : Carried(handler[k])'
  BY <1>3, <1>4 DEF Inductive, Typed, Carried
<1> QED BY <1>4, <1>5, <1>6, <1>7, <1>8
        DEF Inductive, UnmappedNeverAutoQuoted, QuotesFullyPriced

\* triggerQuote sends the prices it tested.
LEMMA DispatchInductive ==
  ASSUME Inductive, NEW h \in Handlers, DispatchManualQuote(h)
  PROVE  Inductive'
<1> DEFINE quote == [kind |-> "MANUALLY_QUOTED", price |-> handler[h].doc.price,
                     isBuyerMapped |-> handler[h].doc.isBuyerMapped]
<1>1. handler[h] \in Holding /\ AllPriced(handler[h].doc.price)
  BY LoadedHolds DEF DispatchManualQuote, Inductive, Carried
<1>2. /\ quote \in Quote
      /\ AllPriced(quote.price)
      /\ quote.kind = "AUTO_QUOTED" => quote.isBuyerMapped
  BY <1>1 DEF Quote, Holding, Rfq
<1>3. /\ Dispatch(quote)
      /\ handler' = [handler EXCEPT ![h] = Idle]
      /\ UNCHANGED <<rfq, exists, version, orders, saves>>
  BY DEF DispatchManualQuote, Becomes, bounds
<1>4. /\ quotes' \subseteq Quote
      /\ QuotesFullyPriced'
      /\ \A q \in quotes' : q.kind = "AUTO_QUOTED" => q.isBuyerMapped
  BY <1>2, <1>3, DispatchOK DEF Inductive, Typed, UnmappedNeverAutoQuoted
<1>5. Typed' /\ Bounded'
  BY <1>3, <1>4 DEF Inductive, Typed, Bounded
<1>6. \A k \in Handlers : Carried(handler[k])'
  BY <1>3 DEF Inductive, Typed, Carried, Idle
<1> QED BY <1>3, <1>4, <1>5, <1>6 DEF Inductive, UnmappedNeverAutoQuoted

\* A line priced by hand.
LEMMA OverrideInductive ==
  ASSUME Inductive, NEW h \in Handlers, NEW l \in RfqLines, NEW p \in Prices,
         OverrideLine(h, l, p)
  PROVE  Inductive'
<1> DEFINE price == [handler[h].doc.price EXCEPT ![l] = p]
<1>1. handler[h] \in Holding
  BY LoadedHolds DEF OverrideLine
<1>2. price \in LinePrices
  BY <1>1 DEF Holding, Rfq, LinePrices
<1> HIDE DEF price
<1>3. /\ \E status \in {"PENDING_REVIEW", rfq.status} :
           rfq' = [rfq EXCEPT !.price = price, !.status = status]
      /\ version' = version + 1
      /\ handler' = [handler EXCEPT ![h] = Idle]
      /\ saves' = saves + 1 /\ saves < MaxSaves
      /\ UNCHANGED <<exists, orders, quotes>>
  BY DEF OverrideLine, Becomes, price
<1>4. /\ rfq' \in Rfq
      /\ rfq'.status \in {"PENDING_REVIEW", rfq.status}
      /\ rfq'.isBuyerMapped = rfq.isBuyerMapped
      /\ rfq'.acceptedOrderId = rfq.acceptedOrderId
  BY <1>2, <1>3 DEF Inductive, Typed, Rfq, RfqStatus
<1>5. Bounded'
  <2>1. /\ saves \in 0 .. MaxSaves /\ version <= saves /\ Len(orders) <= saves
        /\ version \in Nat /\ Len(orders) \in Nat
    BY LenProperties DEF Inductive, Bounded, Typed
  <2> QED BY <1>3, <2>1, PartsCheckAssumption DEF Bounded
<1>6. Typed'
  BY <1>3, <1>4 DEF Inductive, Typed
<1>7. \A k \in Handlers : Carried(handler[k])'
  BY <1>3 DEF Inductive, Typed, Carried, Idle
<1> QED BY <1>3, <1>4, <1>5, <1>6, <1>7
        DEF Inductive, UnmappedNeverAutoQuoted, QuotesFullyPriced

\* acceptRfq raises its order: only then is there an id to link.
LEMMA RaiseInductive ==
  ASSUME Inductive, NEW h \in Handlers, RaiseOrder(h)
  PROVE  Inductive'
<1> DEFINE state == [pc |-> "accept", doc |-> handler[h].doc, id |-> Len(orders')]
<1>1. handler[h] \in Holding
  BY LoadedHolds DEF RaiseOrder
<1>2. /\ orders' = Append(orders, handler[h].doc.price)
      /\ handler' = [handler EXCEPT ![h] = state]
      /\ saves' = saves + 1 /\ saves < MaxSaves
      /\ UNCHANGED <<rfq, exists, version, quotes>>
  BY DEF RaiseOrder, Becomes
<1>3. handler[h].doc.price \in LinePrices /\ handler[h].doc \in Rfq
  BY <1>1 DEF Holding, Rfq
<1>4. /\ orders' \in Seq(LinePrices)
      /\ Len(orders') = Len(orders) + 1
      /\ Len(orders) \in Nat
  BY <1>2, <1>3, AppendProperties, LenProperties DEF Inductive, Typed
<1>5. Bounded'
  <2>1. saves \in 0 .. MaxSaves /\ version <= saves /\ Len(orders) <= saves /\ version \in Nat
    BY DEF Inductive, Bounded, Typed
  <2> QED BY <1>2, <1>4, <2>1, PartsCheckAssumption DEF Bounded
<1>6. state \in Accepting
  <2>1. Len(orders') \in 1 .. MaxSaves
    BY <1>2, <1>4, PartsCheckAssumption DEF Inductive, Bounded
  <2> QED BY <1>3, <2>1 DEF Accepting
<1>7. Typed'
  BY <1>2, <1>4, <1>6 DEF Inductive, Typed
<1>8. \A k \in Handlers : Carried(handler[k])'
  <2> SUFFICES ASSUME NEW k \in Handlers PROVE Carried(handler[k])'
    OBVIOUS
  <2>1. CASE k = h
    BY <1>2, <1>4, <2>1 DEF Inductive, Typed, Carried
  <2>2. CASE k # h
    <3>1. handler'[k] = handler[k] /\ Carried(handler[k])
      BY <1>2, <2>2 DEF Inductive, Typed
    <3>2. handler[k].pc = "accept" => handler[k].id \in Nat
      BY DEF Inductive, Typed, Upserting, Holding, Accepting, Idle
    <3> QED BY <1>4, <3>1, <3>2 DEF Carried
  <2> QED BY <2>1, <2>2
<1>9. rfq.acceptedOrderId # NoOrder => rfq.acceptedOrderId \in 1 .. Len(orders')
  BY <1>4 DEF Inductive
<1> QED BY <1>2, <1>5, <1>7, <1>8, <1>9
        DEF Inductive, UnmappedNeverAutoQuoted, QuotesFullyPriced

\* And the acceptance is saved with the order's id.
LEMMA SaveAcceptanceInductive ==
  ASSUME Inductive, NEW h \in Handlers, SaveAcceptance(h)
  PROVE  Inductive' /\ rfq'.acceptedOrderId # NoOrder
<1>1. handler[h] \in Accepting /\ handler[h].id <= Len(orders)
  BY DEF SaveAcceptance, Inductive, Typed, Carried, Upserting, Holding, Accepting, Idle
<1>2. handler[h].id \in 1 .. Len(orders) /\ handler[h].id # NoOrder
  BY <1>1, PartsCheckAssumption, LenProperties DEF Accepting, Inductive, Typed
<1>3. /\ \E status \in {rfq.status, "ACCEPTED"} :
           rfq' = [rfq EXCEPT !.status = status, !.acceptedOrderId = handler[h].id]
      /\ handler' = [handler EXCEPT ![h] = Idle]
      /\ UNCHANGED <<exists, version, orders, quotes, saves>>
  BY DEF SaveAcceptance, Becomes, bounds
<1>4. /\ rfq' \in Rfq
      /\ rfq'.status \in {rfq.status, "ACCEPTED"}
      /\ rfq'.isBuyerMapped = rfq.isBuyerMapped
      /\ rfq'.acceptedOrderId = handler[h].id
  <2>1. handler[h].id \in Nat /\ "ACCEPTED" \in RfqStatus /\ rfq \in Rfq /\ rfq.status \in RfqStatus
    BY <1>1 DEF Accepting, RfqStatus, Inductive, Typed, Rfq
  <2> QED BY <1>3, <2>1 DEF Rfq
<1>5. Typed' /\ Bounded'
  BY <1>3, <1>4 DEF Inductive, Typed, Bounded
<1>6. \A k \in Handlers : Carried(handler[k])'
  BY <1>3 DEF Inductive, Typed, Carried, Idle
<1> QED BY <1>2, <1>3, <1>4, <1>5, <1>6
        DEF Inductive, UnmappedNeverAutoQuoted, QuotesFullyPriced

\* A crash, and a step that changes nothing.
LEMMA CrashInductive ==
  ASSUME Inductive, Crash \/ UNCHANGED vars
  PROVE  Inductive'
<1>1. /\ handler' = [k \in Handlers |-> Idle] \/ handler' = handler
      /\ UNCHANGED <<rfq, exists, version, orders, quotes, saves>>
  BY DEF Crash, vars
<1>2. Typed' /\ Bounded'
  BY <1>1 DEF Inductive, Typed, Bounded
<1>3. \A k \in Handlers : Carried(handler[k])'
  BY <1>1 DEF Inductive, Carried, Idle
<1> QED BY <1>1, <1>2, <1>3 DEF Inductive, UnmappedNeverAutoQuoted, QuotesFullyPriced

LEMMA StepInductive == Inductive /\ [Next]_vars => Inductive'
<1> SUFFICES ASSUME Inductive, [Next]_vars PROVE Inductive'
  OBVIOUS
<1>1. CASE \E h \in Handlers, mapped \in BOOLEAN, onHold \in BOOLEAN, price \in LinePrices :
             ResolveInbound(h, mapped, onHold, price)
  BY <1>1, ResolveInductive
<1>2. CASE \E h \in Handlers : UpsertRfq(h)
  BY <1>2, UpsertInductive
<1>3. CASE \E h \in Handlers : LoadRfq(h) \/ AnswerOnly(h)
  BY <1>3, LoadInductive
<1>4. CASE \E h \in Handlers : SaveManualQuote(h)
  BY <1>4, SaveManualQuoteInductive
<1>5. CASE \E h \in Handlers : DispatchManualQuote(h)
  BY <1>5, DispatchInductive
<1>6. CASE \E h \in Handlers, l \in RfqLines, p \in Prices : OverrideLine(h, l, p)
  BY <1>6, OverrideInductive
<1>7. CASE \E h \in Handlers : RaiseOrder(h)
  BY <1>7, RaiseInductive
<1>8. CASE \E h \in Handlers : SaveAcceptance(h)
  BY <1>8, SaveAcceptanceInductive
<1>9. CASE Crash \/ UNCHANGED vars
  BY <1>9, CrashInductive
<1> QED BY <1>1, <1>2, <1>3, <1>4, <1>5, <1>6, <1>7, <1>8, <1>9 DEF Next

LEMMA AlwaysInductive == Spec => []Inductive
BY InitInductive, StepInductive, PTL DEF Spec

---------------------------------------------------------------------------
\* Every variable keeps its type, and no counter passes its bound.
THEOREM TypeCorrect == Spec => []TypeOK
<1>1. Inductive => TypeOK
  <2> SUFFICES ASSUME Inductive PROVE TypeOK
    OBVIOUS
  <2>1. version \in 0 .. MaxSaves /\ Len(orders) \in 0 .. MaxSaves
    BY PartsCheckAssumption, LenProperties DEF Inductive, Bounded, Typed
  <2>2. \A id \in DOMAIN orders : orders[id] \in LinePrices
    BY ElementOfSeq, LenProperties DEF Inductive, Typed
  <2>3. \A h \in Handlers : handler[h] \in {Idle} \cup Upserting \cup Holding \cup Accepting
    BY DEF Inductive, Typed
  <2> QED BY <2>1, <2>2, <2>3 DEF Inductive, Typed, TypeOK, Upserting, Holding, Accepting
<1> QED BY AlwaysInductive, <1>1, PTL

\* Every quote is justified: triggerQuote sends the very prices it tested,
\* whatever overwrote the stored lines meanwhile, and a webhook writes the status
\* and the mapping it was computed from together.
THEOREM QuotesAlwaysJustified == Spec => []QuotesJustified
<1>1. Inductive => QuotesJustified
  BY DEF Inductive, QuotesJustified
<1> QED BY AlwaysInductive, <1>1, PTL

\* An accepted RFQ is linked to an order that is stored, at whatever await
\* acceptRfq dies.
THEOREM LinkedOrderStored == Spec => []AcceptedOrderExists
<1>1. Inductive => AcceptedOrderExists
  BY LenProperties DEF Inductive, Typed, AcceptedOrderExists
<1> QED BY AlwaysInductive, <1>1, PTL

\* Redeliveries, overrides and quotes leave the link to the order alone, and a
\* second acceptance replaces it by another.
THEOREM LinkKept == Spec => LinkNeverLost
<1>1. Inductive /\ [Next]_vars =>
        [rfq.acceptedOrderId # NoOrder => rfq'.acceptedOrderId # NoOrder]_vars
  <2> SUFFICES ASSUME Inductive, Next
               PROVE  rfq.acceptedOrderId # NoOrder => rfq'.acceptedOrderId # NoOrder
    OBVIOUS
  <2>1. ASSUME NEW h \in Handlers, SaveAcceptance(h)
        PROVE  rfq'.acceptedOrderId # NoOrder
    BY <2>1, SaveAcceptanceInductive
  <2>2. ASSUME NEW h \in Handlers, UpsertRfq(h)
        PROVE  rfq'.acceptedOrderId = rfq.acceptedOrderId
    BY <2>2 DEF UpsertRfq, Inductive, Typed, Rfq
  <2>3. ASSUME NEW h \in Handlers, SaveManualQuote(h)
        PROVE  rfq'.acceptedOrderId = rfq.acceptedOrderId
    BY <2>3 DEF SaveManualQuote, Inductive, Typed, Rfq
  <2>4. ASSUME NEW h \in Handlers, NEW l \in RfqLines, NEW p \in Prices, OverrideLine(h, l, p)
        PROVE  rfq'.acceptedOrderId = rfq.acceptedOrderId
    BY <2>4 DEF OverrideLine, Inductive, Typed, Rfq
  <2> QED BY <2>1, <2>2, <2>3, <2>4
          DEF Next, Crash, ResolveInbound, LoadRfq, AnswerOnly, DispatchManualQuote, RaiseOrder
<1> QED BY AlwaysInductive, <1>1, PTL DEF Spec, LinkNeverLost
=============================================================================
