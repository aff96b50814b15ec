----------------------------- MODULE ReadModels -----------------------------
(***************************************************************************)
(* The screens of staff: the group and store dashboards and their          *)
(* PartsCheck views (dashboard/dashboard.service.ts), the controller's     *)
(* inbox (partscheck.service.ts, getInbox), the warehouse queue and the    *)
(* order history (orders.service.ts, getQueue and findAll). Each is        *)
(* assembled from several queries, started together or one group after the *)
(* other, and orders and RFQs change between them.                         *)
(*                                                                         *)
(* The writers are OrderFulfilment and PartsCheckRfq; here an order or RFQ *)
(* takes any state at any time, which includes all they do. Money, audit   *)
(* lists, accounts, the figures of each precinct, the RFQ counts of the    *)
(* order dashboards and the rows of the inbox are left out.                *)
(***************************************************************************)
EXTENDS Naturals, Sequences, FiniteSets, FiniteSetsExt

CONSTANTS
  Orders,         \* order numbers, by age: 1 is the oldest
  InitialOrders,  \* how many of them there are when a screen is opened
  OrderStates,    \* order states that occur
  Rooftop, Home,  \* precincts that are active; the store looked at
  FirstThisWeek, FirstToday,  \* the first orders of the week and of the day
  Rfqs, RfqStates,  \* RFQs that may come in; the statuses that occur
  Screens,        \* the screens that are opened
  Limit,          \* rows of a page
  MaxChanges      \* bound: changes while a screen is read

PipelineStates ==
  {"SUBMITTED", "PROCESSING", "PARTIALLY_PICKED", "PICKED", "READY_FOR_DELIVERY", "DISPATCHED"}

\* What the webhook stores for an RFQ, also when it is delivered again.
ReceivedStatus == {"UNMAPPED_BUYER", "PENDING_REVIEW", "AUTO_QUOTED"}

\* The states of orders, and the statuses that partscheck.service.ts stores: it
\* stores no RFQ as RESOLVING, REJECTED or EXPIRED, and only the demonstration data
\* holds one that is RECEIVED. What is submitted while a screen is read is today's.
ASSUME ReadModelsAssumption ==
  /\ IsFiniteSet(Orders) /\ Orders = 1 .. Cardinality(Orders)
  /\ InitialOrders \in 0 .. Cardinality(Orders)
  /\ "SUBMITTED" \in OrderStates
  /\ OrderStates \subseteq PipelineStates \cup {"DELIVERED", "EXCEPTION", "CANCELLED"}
  /\ IsFiniteSet(Rfqs)
  /\ RfqStates \subseteq ReceivedStatus \cup {"MANUALLY_QUOTED", "ACCEPTED"}
  /\ FirstThisWeek \in Nat /\ FirstToday \in FirstThisWeek .. InitialOrders + 1
  /\ Screens \subseteq {"group", "store", "partscheck", "inbox", "queue", "history"}
  /\ Home \in Rooftop
  /\ Limit \in Nat \ {0} /\ MaxChanges \in Nat

VARIABLES
  orders,    \* [state, hasExceptions, rooftop], or NoOrder
  rfqs,      \* [status, late], or NoRfq; late: the deadline was over when the
             \* screen was opened, the moment its queries compare with
  screen,    \* the screen being read and what its queries have answered
  changes,   \* history: changes since it was opened, new documents apart
  created,   \* history: orders submitted and RFQs received since
  changed    \* history: the orders and RFQs that changed since

screenVars == <<orders, rfqs, screen, changes, created, changed>>

NoOrder == [state |-> "none", hasExceptions |-> FALSE, rooftop |-> Home]

OrdersIn(states) == {o \in Orders : orders[o].state \in states}
Stored == {o \in Orders : orders[o] # NoOrder}
AtHome(set) == {o \in set : orders[o].rooftop = Home}
NotCancelled == Stored \ OrdersIn({"CANCELLED"})

\* The flag is no part of the state: updateState() sets one and leaves the other.
Flagged == {o \in Stored : orders[o].hasExceptions}
Exceptional == OrdersIn({"EXCEPTION"}) \cup Flagged

NoRfq == [status |-> "none", late |-> FALSE]
RfqsIn(statuses) == {q \in Rfqs : rfqs[q].status \in statuses}
StoredRfqs == {q \in Rfqs : rfqs[q] # NoRfq}

\* Neither quoted nor accepted when the deadline was over: the SLA is breached.
Expired ==
  {q \in StoredRfqs : rfqs[q].late} \ RfqsIn({"AUTO_QUOTED", "MANUALLY_QUOTED", "ACCEPTED"})
OpenStatus == {"RECEIVED", "RESOLVING", "UNMAPPED_BUYER", "PENDING_REVIEW"}

QueueStates ==
  {"SUBMITTED", "PROCESSING", "PARTIALLY_PICKED", "PICKED", "READY_FOR_DELIVERY",
   "DISPATCHED", "EXCEPTION"}

\* Mutant: cancelled orders are in the total.
GroupTileOfAll(tile) ==
  CASE tile = "totalOrders" -> Stored
    [] tile = "activeExceptions" -> Exceptional
    [] OTHER -> OrdersIn({tile})

\* getGroupView: what each query counts.
GroupTile(tile) ==
  CASE tile = "totalOrders" -> NotCancelled
    [] tile = "activeExceptions" -> Exceptional
    [] OTHER -> OrdersIn({tile})

\* Its nine counts; those of states no order of this instance takes are always 0.
GroupTiles ==
  (PipelineStates \cap OrderStates) \cup {"DELIVERED", "CANCELLED", "activeExceptions"}

\* getStoreView: the same for one rooftop, with several states to a tile.
StoreStates ==
  [pendingPicking |-> {"SUBMITTED", "PROCESSING"}, partiallyPicked |-> {"PARTIALLY_PICKED"},
   pickedReady |-> {"PICKED", "READY_FOR_DELIVERY"}, dispatched |-> {"DISPATCHED"},
   delivered |-> {"DELIVERED"}]

StoreTile(tile) ==
  AtHome(CASE tile = "totalOrders" -> NotCancelled
           [] tile = "weekOrders" -> {o \in NotCancelled : o >= FirstThisWeek}
           [] tile = "todayOrders" -> {o \in NotCancelled : o >= FirstToday}
           [] tile = "activeExceptions" -> Exceptional
           [] OTHER -> OrdersIn(StoreStates[tile]))

StoreTiles ==
  {tile \in DOMAIN StoreStates : StoreStates[tile] \cap OrderStates # {}} \cup {"activeExceptions"}

\* getGroupPartsCheckView, getStorePartsCheckView and getInbox, asked for all that
\* they show.
RfqTile(tile) ==
  CASE tile \in {"totalRfqs", "total"} -> StoredRfqs
    [] tile = "totalOpen" -> RfqsIn(OpenStatus)
    [] tile = "expired" -> Expired
    [] OTHER -> RfqsIn({tile})

\* The eight counts of the PartsCheck views and the six of the inbox; those of
\* statuses no RFQ of this instance takes are always 0.
PartsCheckTiles == RfqStates \cup {"totalRfqs", "expired"}
InboxTiles == (RfqStates \cap ReceivedStatus) \cup {"totalOpen", "expired", "total"}

\* getQueue's summary, and the count behind its pages. The exceptions are those of
\* every state: an order delivered or cancelled with its flag is one of them.
QueueTile(tile) ==
  AtHome(CASE tile \in {"totalQueued", "total"} -> OrdersIn(QueueStates)
           [] tile = "exceptionsCount" -> Flagged
           [] OTHER -> OrdersIn(StoreStates[tile]))

QueueTiles == {"totalQueued", "pendingPicking", "partiallyPicked", "exceptionsCount"}

Counted(name, tile) ==
  CASE name = "group" -> GroupTile(tile)
    [] name = "store" -> StoreTile(tile)
    [] name \in {"partscheck", "inbox"} -> RfqTile(tile)
    [] name = "queue" -> QueueTile(tile)
    [] name = "history" -> AtHome(Stored)

\* The groups of queries of a screen: those of a group run concurrently.
Groups(name) ==
  CASE name = "group" -> <<{"totalOrders"}, GroupTiles>>
    [] name = "store" -> <<{"totalOrders"}, {"todayOrders", "weekOrders"}, StoreTiles>>
    [] name = "partscheck" -> <<PartsCheckTiles>>
    [] name = "inbox" -> <<InboxTiles>>
    [] name = "queue" -> <<QueueTiles>>
    [] name = "history" -> <<>>

Paged == {"queue", "history"}
OnePage == {"total", "rows"}

---------------------------------------------------------------------------
Order == [state : OrderStates, hasExceptions : BOOLEAN, rooftop : Rooftop]
Rfq == [status : RfqStates, late : BOOLEAN]

NoAnswer == [tile \in {} |-> 0]

\* The orders that the pages of a screen show, one after the other.
Listed(name) == AtHome(IF name = "queue" THEN OrdersIn(QueueStates) ELSE Stored)

\* Once a group is answered the next one is queried; the user turns the pages (a
\* page's count and its rows are queried together) until the last.
Proceed(s) ==
  CASE s.unread # {} -> s
    [] s.unread = {} /\ s.group < Len(Groups(s.name)) ->
         [s EXCEPT !.group = @ + 1, !.unread = Groups(s.name)[s.group + 1]]
    [] s.unread = {} /\ s.group >= Len(Groups(s.name)) /\ s.name \in Paged
         /\ (s.page = 0 \/ s.page * Limit < s.count["total"]) ->
         [s EXCEPT !.page = @ + 1, !.unread = OnePage]
    [] OTHER -> s

\* listed: the orders to be shown at the time, rows: those its pages have shown.
Opened(name) ==
  Proceed([name |-> name, group |-> 0, unread |-> {}, count |-> NoAnswer,
           page |-> 0, rows |-> {}, listed |-> Listed(name)])

NewOrder(rooftop) == [state |-> "SUBMITTED", hasExceptions |-> FALSE, rooftop |-> rooftop]
OfRfqs == {"partscheck", "inbox"}

\* One screen per behaviour: screens only read, and do not disturb one another.
\* It is opened on orders or RFQs in any state.
ScreenInit ==
  /\ \E name \in Screens :
       /\ IF name \in OfRfqs
          THEN rfqs \in [Rfqs -> Rfq \cup {NoRfq}] /\ orders = [o \in Orders |-> NoOrder]
          ELSE /\ rfqs = [q \in Rfqs |-> NoRfq]
               /\ orders \in {docs \in [Orders -> Order \cup {NoOrder}] :
                    \A o \in Orders : docs[o] = NoOrder <=> o > InitialOrders}
       /\ screen = Opened(name)
  /\ changes = 0 /\ created = 0
  /\ changed = {}

Answer(tile, n) ==
  [t \in DOMAIN screen.count \cup {tile} |-> IF t = tile THEN n ELSE screen.count[t]]

\* countDocuments answers one query of the group.
ReadTile(tile) ==
  /\ tile \in screen.unread \ {"rows"}
  /\ screen' = Proceed([screen EXCEPT
       !.unread = @ \ {tile},
       !.count = Answer(tile, Cardinality(Counted(screen.name, tile)))])
  /\ UNCHANGED <<orders, rfqs, changes, created, changed>>

\* The queue is sorted by exception and age, the history from the newest.
Ahead(a, b) ==
  CASE screen.name = "history" -> a > b
    [] screen.name = "queue" /\ orders[a].hasExceptions = orders[b].hasExceptions -> a < b
    [] OTHER -> orders[a].hasExceptions

\* How many orders the query finds ahead of one of them.
Position(o) == Cardinality({b \in Listed(screen.name) : Ahead(b, o)})

\* Mutant: pages counted from 0.
PageSkippingFirst(page) ==
  {o \in Listed(screen.name) : Position(o) \in page * Limit .. (page + 1) * Limit - 1}

\* find: sort, skip (page - 1) * limit, limit.
PageOf(page) ==
  {o \in Listed(screen.name) : Position(o) \in (page - 1) * Limit .. page * Limit - 1}

ReadRows ==
  /\ "rows" \in screen.unread
  /\ screen' = Proceed([screen EXCEPT !.unread = @ \ {"rows"}, !.rows = @ \cup PageOf(screen.page)])
  /\ UNCHANGED <<orders, rfqs, changes, created, changed>>

Reading == screen.unread # {}
OrdersRead == Reading /\ screen.name \notin OfRfqs
RfqsRead == Reading /\ screen.name \in OfRfqs

Submit(o, rooftop) ==
  /\ OrdersRead /\ changes + created < MaxChanges
  /\ o = Cardinality(Stored) + 1
  /\ orders' = [orders EXCEPT ![o] = NewOrder(rooftop)]
  /\ created' = created + 1
  /\ changed' = changed \cup {o}
  /\ UNCHANGED <<rfqs, screen, changes>>

Disturb(document) ==
  /\ changes + created < MaxChanges
  /\ changes' = changes + 1
  /\ changed' = changed \cup {document}
  /\ UNCHANGED <<screen, created>>

\* Whatever a request does to an order, its precinct stays.
ChangeOrder(o, state, flag) ==
  /\ OrdersRead /\ orders[o] # NoOrder
  /\ orders' = [orders EXCEPT ![o].state = state, ![o].hasExceptions = flag]
  /\ Disturb(o)
  /\ UNCHANGED rfqs

\* The webhook stores a new RFQ, with any deadline.
ReceiveRfq(q, new) ==
  /\ RfqsRead /\ changes + created < MaxChanges
  /\ rfqs[q] = NoRfq
  /\ new.status \in ReceivedStatus
  /\ rfqs' = [rfqs EXCEPT ![q] = new]
  /\ created' = created + 1
  /\ changed' = changed \cup {q}
  /\ UNCHANGED <<orders, screen, changes>>

\* An RFQ is quoted, overridden, accepted, or delivered again with another deadline.
ChangeRfq(q, new) ==
  /\ RfqsRead /\ rfqs[q] # NoRfq
  /\ rfqs' = [rfqs EXCEPT ![q] = new]
  /\ Disturb(q)
  /\ UNCHANGED orders

ScreenNext ==
  \/ ReadRows
  \/ \E tile \in screen.unread : ReadTile(tile)
  \/ \E o \in Orders :
       \/ \E rooftop \in Rooftop : Submit(o, rooftop)
       \/ \E state \in OrderStates, flag \in BOOLEAN : ChangeOrder(o, state, flag)
  \/ \E q \in Rfqs, new \in Rfq : ReceiveRfq(q, new) \/ ChangeRfq(q, new)

ScreenSpec == ScreenInit /\ [][ScreenNext]_screenVars

---------------------------------------------------------------------------
ScreenTypeOK ==
  /\ orders \in [Orders -> Order \cup {NoOrder}]
  /\ rfqs \in [Rfqs -> Rfq \cup {NoRfq}]
  /\ changes + created \in 0 .. MaxChanges

Complete(name) == screen.name = name /\ screen.unread = {}
Shown(tiles) == MapThenSumSet(LAMBDA tile : screen.count[tile], tiles \cap DOMAIN screen.count)
Skew == changes + created

DashboardAddsUp(live) ==
  /\ Shown(live) <= screen.count["totalOrders"] + Skew
  /\ screen.count["totalOrders"] <= Shown(live) + screen.count["activeExceptions"] + Skew

Quoted == {"AUTO_QUOTED", "MANUALLY_QUOTED", "ACCEPTED"}
Unquoted == {"UNMAPPED_BUYER", "PENDING_REVIEW"}

\* However the queries of a screen interleave with the work, its tiles agree but for
\* one per change made meanwhile. No order or RFQ is counted twice; of the orders none
\* but those with an exception, of the RFQs none, is in no tile of its own; today's
\* orders are among the week's, and the expired RFQs among those without a quote.
TilesAddUp ==
  /\ Complete("group") => DashboardAddsUp(PipelineStates \cup {"DELIVERED"})
  /\ Complete("store") =>
       /\ DashboardAddsUp(DOMAIN StoreStates)
       /\ screen.count["todayOrders"] <= screen.count["weekOrders"] + Skew
       /\ screen.count["weekOrders"] <= screen.count["totalOrders"] + Skew
  /\ Complete("partscheck") =>
       /\ Shown(Quoted \cup Unquoted) <= screen.count["totalRfqs"] + Skew
       /\ screen.count["totalRfqs"] <= Shown(Quoted \cup Unquoted) + Skew
       /\ screen.count["expired"] <= Shown(Unquoted) + Skew
  /\ Complete("inbox") =>
       /\ Shown({"totalOpen", "AUTO_QUOTED"}) <= screen.count["total"] + Skew
       /\ Shown(Unquoted) <= screen.count["totalOpen"] + Skew
       /\ screen.count["totalOpen"] <= Shown(Unquoted) + Skew
       /\ screen.count["expired"] <= screen.count["totalOpen"] + Skew
  /\ Complete("queue") =>
       Shown({"pendingPicking", "partiallyPicked"}) <= screen.count["totalQueued"] + Skew

\* Turning the pages of the queue misses at most one order for each order that
\* another request moved meanwhile, and new orders hide none; in the history
\* only a new order, which shifts the others, can hide one.
PagesShowAll ==
  /\ Complete("queue") =>
       Cardinality((screen.listed \ changed) \ screen.rows) <= changes
  /\ Complete("history") => Cardinality(screen.listed \ screen.rows) <= created
=============================================================================
