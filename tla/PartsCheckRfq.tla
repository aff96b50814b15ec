--------------------------- MODULE PartsCheckRfq ---------------------------
(***************************************************************************)
(* One PartsCheck request for quotation, from its webhook to the order it  *)
(* becomes: partscheck/partscheck.service.ts.                              *)
(*                                                                         *)
(* Handlers interleave at their awaits. The webhook writes the document    *)
(* with findOneAndUpdate, which neither tests nor increments __v; the      *)
(* others load it, edit the copy and save the fields they changed. Only    *)
(* overrideLine marks the `lines` array modified, so only its save tests   *)
(* and increments __v. The prices of the lines are kept; customers, ETAs,  *)
(* totals, stock and audit events are left out.                            *)
(***************************************************************************)
EXTENDS Naturals, FiniteSets, Sequences

CONSTANTS
  RfqLines,       \* the lines the repairer asks for
  Prices,         \* trade prices a line can get
  Unpriced,       \* unitTradePriceCents = null
  NoOrder,        \* acceptedOrderId = null
  Handlers,       \* HTTP requests in flight; each may serve again
  MaxDeliveries,  \* bound: how often PartsCheck delivers the webhook
  MaxSaves,       \* bound: how often controllers and repairers save
  MaxCrashes      \* bound: how often the server dies

ASSUME PartsCheckAssumption ==
  /\ IsFiniteSet(RfqLines) /\ RfqLines # {}
  /\ Unpriced \notin Prices
  /\ NoOrder \notin Nat
  /\ {MaxDeliveries, MaxSaves, MaxCrashes} \subseteq Nat

RfqStatus == {"RECEIVED", "RESOLVING", "AUTO_QUOTED", "MANUALLY_QUOTED",
              "UNMAPPED_BUYER", "PENDING_REVIEW", "ACCEPTED", "REJECTED", "EXPIRED"}
LinePrices == [RfqLines -> Prices \cup {Unpriced}]

VARIABLES
  rfq,         \* the stored document
  exists,      \* whether it is stored yet
  version,     \* its __v
  orders,      \* orders raised from it: order id -> the line prices it was raised at
  quotes,      \* quotes PartsCheck has received
  handler,     \* what each request is doing
  deliveries, saves, crashes

vars == <<rfq, exists, version, orders, quotes, handler, deliveries, saves, crashes>>
bounds == <<deliveries, saves, crashes>>

Idle == [pc |-> "idle"]

Rfq == [status : RfqStatus, isBuyerMapped : BOOLEAN, price : LinePrices,
        acceptedOrderId : Nat \cup {NoOrder}]

Quote == [kind : {"AUTO_QUOTED", "MANUALLY_QUOTED"}, isBuyerMapped : BOOLEAN,
          price : LinePrices]

AllPriced(price) == \A l \in RfqLines : price[l] # Unpriced

Becomes(h, state) == handler' = [handler EXCEPT ![h] = state]

Init ==
  /\ rfq = [status |-> "RECEIVED", isBuyerMapped |-> FALSE,
            price |-> [l \in RfqLines |-> Unpriced], acceptedOrderId |-> NoOrder]
  /\ exists = FALSE
  /\ version = 0
  /\ orders = << >>
  /\ quotes = {}
  /\ handler = [h \in Handlers |-> Idle]
  /\ deliveries = 0 /\ saves = 0 /\ crashes = 0

\* dispatchQuoteResponse swallows every failure: a quote may not arrive.
Dispatch(quote) == quotes' \in {quotes, quotes \cup {quote}}

---------------------------------------------------------------------------
(* POST /partscheck/rfq. Whether the buyer is mapped, the account on hold   *)
(* and a part in the catalogue (and its price) are read from collections    *)
(* other parts of the system write: any combination can be read.            *)

WebhookStatus(mapped, onHold, price) ==
  CASE ~mapped -> "UNMAPPED_BUYER"
    [] mapped /\ onHold -> "PENDING_REVIEW"
    [] mapped /\ ~onHold /\ AllPriced(price) -> "AUTO_QUOTED"
    [] OTHER -> "PENDING_REVIEW"

\* Steps 1 to 4: resolve the lines; an automatic quote is sent before anything
\* is stored. Lines get a price only for a mapped buyer that is not on hold.
ResolveInbound(h, mapped, onHold, price) ==
  LET status == WebhookStatus(mapped, onHold, price) IN
  /\ handler[h].pc = "idle"
  /\ deliveries < MaxDeliveries
  /\ (~mapped \/ onHold) => price = [l \in RfqLines |-> Unpriced]
  /\ deliveries' = deliveries + 1
  /\ IF status = "AUTO_QUOTED"
     THEN Dispatch([kind |-> status, isBuyerMapped |-> mapped, price |-> price])
     ELSE quotes' = quotes
  /\ Becomes(h, [pc |-> "upsert", status |-> status, mapped |-> mapped,
                 price |-> price])
  /\ UNCHANGED <<rfq, exists, version, orders, saves, crashes>>

\* Mutants: a quoted RFQ keeps its status; the upsert clears the order link.
UpsertKeepsQuoted(h) ==
  /\ handler[h].pc = "upsert"
  /\ rfq' = [rfq EXCEPT !.status = IF @ = "AUTO_QUOTED" THEN @ ELSE handler[h].status,
                        !.isBuyerMapped = handler[h].mapped,
                        !.price = handler[h].price]
  /\ exists' = TRUE
  /\ Becomes(h, Idle)
  /\ UNCHANGED <<version, orders, quotes, bounds>>

UpsertResetsLink(h) ==
  /\ handler[h].pc = "upsert"
  /\ rfq' = [status |-> handler[h].status, isBuyerMapped |-> handler[h].mapped,
             price |-> handler[h].price, acceptedOrderId |-> NoOrder]
  /\ exists' = TRUE
  /\ Becomes(h, Idle)
  /\ UNCHANGED <<version, orders, quotes, bounds>>

\* Step 5: the upsert overwrites status and lines, and leaves acceptedOrderId
\* and __v as they are.
UpsertRfq(h) ==
  /\ handler[h].pc = "upsert"
  /\ rfq' = [rfq EXCEPT !.status = handler[h].status,
                        !.isBuyerMapped = handler[h].mapped,
                        !.price = handler[h].price]
  /\ exists' = TRUE
  /\ Becomes(h, Idle)
  /\ UNCHANGED <<version, orders, quotes, bounds>>

---------------------------------------------------------------------------
\* resolveRfq: what every other handler starts with.
LoadRfq(h) ==
  /\ handler[h].pc = "idle"
  /\ exists
  /\ Becomes(h, [pc |-> "loaded", doc |-> rfq, v |-> version])
  /\ UNCHANGED <<rfq, exists, version, orders, quotes, bounds>>

\* findOne, and every answer that changes nothing: a line that is not priced
\* (triggerQuote), a line that does not exist (overrideLine), a VersionError.
AnswerOnly(h) ==
  /\ handler[h].pc = "loaded"
  /\ Becomes(h, Idle)
  /\ UNCHANGED <<rfq, exists, version, orders, quotes, bounds>>

\* Mutant: a quote without the pricing check.
SaveManualQuoteUnchecked(h) ==
  /\ handler[h].pc = "loaded"
  /\ saves < MaxSaves
  /\ rfq' = [rfq EXCEPT !.status = "MANUALLY_QUOTED"]
  /\ saves' = saves + 1
  /\ Becomes(h, [handler[h] EXCEPT !.pc = "dispatch"])
  /\ UNCHANGED <<exists, version, orders, quotes, deliveries, crashes>>

\* triggerQuote up to rfq.save(), from any status; lines are not modified.
SaveManualQuote(h) ==
  /\ handler[h].pc = "loaded"
  /\ saves < MaxSaves
  /\ AllPriced(handler[h].doc.price)
  /\ rfq' = IF handler[h].doc.status = "MANUALLY_QUOTED" THEN rfq
            ELSE [rfq EXCEPT !.status = "MANUALLY_QUOTED"]
  /\ saves' = saves + 1
  /\ Becomes(h, [handler[h] EXCEPT !.pc = "dispatch"])
  /\ UNCHANGED <<exists, version, orders, quotes, deliveries, crashes>>

\* triggerQuote: the loaded lines are sent to PartsCheck.
DispatchManualQuote(h) ==
  /\ handler[h].pc = "dispatch"
  /\ Dispatch([kind |-> "MANUALLY_QUOTED", price |-> handler[h].doc.price,
               isBuyerMapped |-> handler[h].doc.isBuyerMapped])
  /\ Becomes(h, Idle)
  /\ UNCHANGED <<rfq, exists, version, orders, bounds>>

\* overrideLine: the array is written from the copy, the status only if the
\* copy was UNMAPPED_BUYER and is now fully priced.
OverrideLine(h, l, p) ==
  LET doc   == handler[h].doc
      price == [doc.price EXCEPT ![l] = p]
  IN
  /\ handler[h].pc = "loaded"
  /\ saves < MaxSaves
  /\ handler[h].v = version
  /\ rfq' = [rfq EXCEPT
               !.price = price,
               !.status = IF AllPriced(price) /\ doc.status = "UNMAPPED_BUYER"
                          THEN "PENDING_REVIEW" ELSE rfq.status]
  /\ version' = version + 1
  /\ saves' = saves + 1
  /\ Becomes(h, Idle)
  /\ UNCHANGED <<exists, orders, quotes, deliveries, crashes>>

---------------------------------------------------------------------------
\* acceptRfq answers with the order an earlier acceptance raised. (Otherwise it
\* needs a trade account, which the copy has exactly when its buyer is mapped.)
AlreadyAccepted(doc) ==
  /\ doc.status = "ACCEPTED"
  /\ doc.acceptedOrderId # NoOrder
  /\ doc.acceptedOrderId \in DOMAIN orders

RaiseOrderLinksFirst(h) ==
  /\ handler[h].pc = "loaded"
  /\ saves < MaxSaves
  /\ ~AlreadyAccepted(handler[h].doc)
  /\ handler[h].doc.isBuyerMapped
  /\ rfq' = [rfq EXCEPT !.status = "ACCEPTED", !.acceptedOrderId = Len(orders) + 1]
  /\ saves' = saves + 1
  /\ Becomes(h, [pc |-> "accept", doc |-> handler[h].doc, id |-> Len(orders) + 1])
  /\ UNCHANGED <<orders, exists, version, quotes, deliveries, crashes>>

\* acceptRfq up to orderModel.create: unpriced lines go in at 0 cents.
RaiseOrder(h) ==
  /\ handler[h].pc = "loaded"
  /\ saves < MaxSaves
  /\ ~AlreadyAccepted(handler[h].doc)
  /\ handler[h].doc.isBuyerMapped
  /\ orders' = Append(orders, handler[h].doc.price)
  /\ saves' = saves + 1
  /\ Becomes(h, [pc |-> "accept", doc |-> handler[h].doc, id |-> Len(orders')])
  /\ UNCHANGED <<rfq, exists, version, quotes, deliveries, crashes>>

\* acceptRfq: rfq.save() of status and acceptedOrderId, on whatever is stored.
SaveAcceptance(h) ==
  /\ handler[h].pc = "accept"
  /\ rfq' = [rfq EXCEPT
               !.status = IF handler[h].doc.status = "ACCEPTED" THEN rfq.status
                          ELSE "ACCEPTED",
               !.acceptedOrderId = handler[h].id]
  /\ Becomes(h, Idle)
  /\ UNCHANGED <<exists, version, orders, quotes, bounds>>

\* The process dies; what was stored or sent stays.
Crash ==
  /\ crashes < MaxCrashes
  /\ \E h \in Handlers : handler[h].pc # "idle"
  /\ crashes' = crashes + 1
  /\ handler' = [h \in Handlers |-> Idle]
  /\ UNCHANGED <<rfq, exists, version, orders, quotes, deliveries, saves>>

Next ==
  \/ Crash
  \/ \E h \in Handlers :
       \/ \E mapped \in BOOLEAN, onHold \in BOOLEAN, price \in LinePrices :
            ResolveInbound(h, mapped, onHold, price)
       \/ UpsertRfq(h)
       \/ LoadRfq(h)
       \/ AnswerOnly(h)
       \/ SaveManualQuote(h)
       \/ DispatchManualQuote(h)
       \/ \E l \in RfqLines, p \in Prices : OverrideLine(h, l, p)
       \/ RaiseOrder(h)
       \/ SaveAcceptance(h)

Spec == Init /\ [][Next]_vars

---------------------------------------------------------------------------
TypeOK ==
  /\ rfq \in Rfq
  /\ exists \in BOOLEAN
  /\ version \in 0 .. MaxSaves
  /\ Len(orders) \in 0 .. MaxSaves
  /\ \A id \in DOMAIN orders : orders[id] \in LinePrices
  /\ quotes \subseteq Quote
  /\ \A h \in Handlers :
       \/ handler[h] = Idle
       \/ handler[h] \in [pc : {"upsert"}, status : RfqStatus, mapped : BOOLEAN,
                          price : LinePrices]
       \/ handler[h] \in [pc : {"loaded", "dispatch"}, doc : Rfq, v : 0 .. MaxSaves]
       \/ handler[h] \in [pc : {"accept"}, doc : Rfq, id : 1 .. MaxSaves]

\* The price every line of a quote needs, and the buyer an automatic one needs:
\* "Unmapped buyers are flagged UNMAPPED_BUYER and never auto-quoted" (a stored
\* AUTO_QUOTED says that the quote was sent).
QuotesFullyPriced == \A quote \in quotes : AllPriced(quote.price)

UnmappedNeverAutoQuoted ==
  /\ rfq.status = "AUTO_QUOTED" => rfq.isBuyerMapped
  /\ \A quote \in quotes : quote.kind = "AUTO_QUOTED" => quote.isBuyerMapped

\* Whatever overrides and redeliveries overlap with the handler that sends it, no
\* quote with an unpriced line reaches PartsCheck, and neither an automatic quote
\* nor the stored status AUTO_QUOTED is of an unmapped buyer, also when a later
\* delivery withdraws the mapping.
QuotesJustified == QuotesFullyPriced /\ UnmappedNeverAutoQuoted

\* An ACCEPTED RFQ is linked to an order, and the link is never to an order
\* that a crash kept from being stored.
AcceptedOrderExists ==
  /\ rfq.status = "ACCEPTED" => rfq.acceptedOrderId # NoOrder
  /\ rfq.acceptedOrderId # NoOrder => rfq.acceptedOrderId \in DOMAIN orders

\* No later delivery, override or quote loses the link to the order.
LinkNeverLost ==
  [][rfq.acceptedOrderId # NoOrder => rfq'.acceptedOrderId # NoOrder]_vars

\* Accepting an RFQ again answers with the order raised before (the first
\* check of acceptRfq): an RFQ becomes at most one order. A quote triggered
\* after the acceptance, a redelivered webhook, a concurrent acceptance and a
\* crash before the acceptance is saved each lead to a second one.
OneOrderPerRfq == Len(orders) <= 1
=============================================================================
