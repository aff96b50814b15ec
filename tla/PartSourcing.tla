---------------------------- MODULE PartSourcing ----------------------------
(***************************************************************************)
(* GET /parts/:partNumber/resolve (parts/parts.service.ts) for one part,   *)
(* one account and one requesting rooftop, Home. Cached rows are the answer *)
(* as long as there are any; otherwise a row per source is built (own      *)
(* branch, sister branches, OEM, aftermarket), each is upserted by itself, *)
(* and a TTL index deletes it Ttl after `resolvedAt`.                      *)
(*                                                                         *)
(* A trade price stands for the discount it was computed with: list price, *)
(* stock and ETA are left out (the probes answer in any case). Every query *)
(* names part, rooftop and account: other resolutions touch other rows.    *)
(***************************************************************************)
EXTENDS Rooftops, Sequences

CONSTANTS
  Home,          \* the rooftop the requests are made for
  Portals,       \* sources outside the group: OEM and AFTERMARKET, built alike
  Resolvers,     \* concurrent requests
  MaxChanges,    \* bound: changes of the discount and of rooftops together
  Ttl,           \* age at which the TTL index deletes a row
  MaxProbe,      \* longest time from a request's start to its last write
  MaxTime        \* bound: clock

ASSUME PartSourcingAssumption ==
  /\ Home \in Slug
  /\ MaxChanges \in Nat /\ Ttl \in Nat /\ MaxProbe \in Nat /\ MaxTime \in Nat

VARIABLES
  replaced,   \* when each earlier discount of the account was replaced
  cache,      \* the stored rows
  resolver,   \* what each request holds
  disturbed,  \* history: the rows may be short of a source
  now

sourcingVars == <<rooftops, writes, replaced, cache, resolver, disturbed, now>>

\* The discount is its version: the imports that have changed it.
Discount == Len(replaced)

SourceKind == {"BRANCH", "SISTER"} \cup Portals
SourceName == BranchName \cup {"Own Branch", "Portal"}
Row == [sourceKind : SourceKind, sourceName : SourceName,
        sourceRooftopId : Slug \cup {"null"},
        discount : 0 .. MaxChanges, resolvedAt : 0 .. MaxTime]

\* The unique key of a row.
Key(row) == <<row.sourceKind, row.sourceName>>

Ready == [pc |-> "ready"]

SourcingInit ==
  /\ RooftopsInit
  /\ replaced = << >>
  /\ cache = {}
  /\ resolver = [r \in Resolvers |-> Ready]
  /\ disturbed = FALSE
  /\ now = 0

---------------------------------------------------------------------------
(* The tiers. `probe`: what the rows of one resolution have in common.     *)

SourceRow(probe, kind, name, slug) ==
  [sourceKind |-> kind, sourceName |-> name, sourceRooftopId |-> slug,
   discount |-> probe.discount, resolvedAt |-> probe.resolvedAt]

BranchRow(probe, own) ==
  IF own = NoRooftop
  THEN SourceRow(probe, "BRANCH", "Own Branch", "null")
  ELSE SourceRow(probe, "BRANCH", own.name, own.rooftopId)

SisterRows(probe, active) ==
  {SourceRow(probe, "SISTER", s.name, s.rooftopId) :
     s \in {t \in active : t.rooftopId # Home}}

SourceRows(probe, own, active) ==
  {BranchRow(probe, own)} \cup SisterRows(probe, active)
    \cup {SourceRow(probe, kind, "Portal", "null") : kind \in Portals}

---------------------------------------------------------------------------
Goes(r, holding) == resolver' = [resolver EXCEPT ![r] = holding]

Resolving(r) == resolver[r] # Ready

\* `disturbed` ends with the last row, and the last request that could write one.
Disturbs(event) ==
  disturbed' = /\ disturbed \/ event
               /\ cache' # {} \/ \E r \in Resolvers : Resolving(r)'

\* Mutant: an answer from the cache makes its rows young again.
ResolveTouchesRows(r) ==
  /\ resolver[r] = Ready
  /\ IF cache = {} THEN Goes(r, [pc |-> "account", startedAt |-> now])
     ELSE UNCHANGED resolver
  /\ cache' = {[row EXCEPT !.resolvedAt = now] : row \in cache}
  /\ UNCHANGED <<rooftopVars, replaced, disturbed, now>>

\* Any cached row at all makes the cached rows the answer: nothing is written.
\* Without one, the sources are resolved.
Resolve(r) ==
  /\ resolver[r] = Ready
  /\ cache = {}
  /\ Goes(r, [pc |-> "account", startedAt |-> now])
  /\ UNCHANGED <<rooftopVars, replaced, cache, disturbed, now>>

ReadDiscount(r) ==
  /\ resolver[r].pc = "account"
  /\ Goes(r, [pc |-> "rooftops", startedAt |-> resolver[r].startedAt, discount |-> Discount,
              own |-> {}, active |-> {}])
  /\ UNCHANGED <<rooftopVars, replaced, cache, disturbed, now>>

\* The own rooftop and the active ones are read by two concurrent queries; each
\* answer is kept as the one element of a set.
ReadOwnRooftop(r) ==
  /\ resolver[r].pc = "rooftops" /\ resolver[r].own = {}
  /\ Goes(r, [resolver[r] EXCEPT !.own = {RooftopOf(Home)}])
  /\ UNCHANGED <<rooftopVars, replaced, cache, disturbed, now>>

ReadActiveRooftops(r) ==
  /\ resolver[r].pc = "rooftops" /\ resolver[r].active = {}
  /\ Goes(r, [resolver[r] EXCEPT !.active = {ActiveRooftops}])
  /\ UNCHANGED <<rooftopVars, replaced, cache, disturbed, now>>

\* Then the moment is stamped, the sources are probed and their rows built.
BuildRows(r) ==
  /\ resolver[r].pc = "rooftops"
  /\ \E own \in resolver[r].own, active \in resolver[r].active :
       LET probe == [discount |-> resolver[r].discount, resolvedAt |-> now] IN
       Goes(r, [pc |-> "writing", startedAt |-> resolver[r].startedAt,
                pending |-> SourceRows(probe, own, active)])
  /\ UNCHANGED <<rooftopVars, replaced, cache, disturbed, now>>

\* Mutant: the upsert's filter leaves the name out, so that there is one row of
\* a kind.
UpsertedByKind(rows, row) ==
  {old \in rows : old.sourceKind # row.sourceKind} \cup {row}

Upserted(rows, row) == {old \in rows : Key(old) # Key(row)} \cup {row}

\* What is left to write; the request ends with its last upsert.
Wrote(r, row) ==
  Goes(r, IF resolver[r].pending = {row} THEN Ready
          ELSE [resolver[r] EXCEPT !.pending = @ \ {row}])

\* The upserts run concurrently: in any order, each by itself.
UpsertRow(r) ==
  /\ resolver[r].pc = "writing"
  /\ \E row \in resolver[r].pending : cache' = Upserted(cache, row) /\ Wrote(r, row)
  /\ Disturbs(FALSE)
  /\ UNCHANGED <<rooftopVars, replaced, now>>

\* One upsert fails: the answer is an error, while the other upserts go on.
UpsertFails(r) ==
  /\ resolver[r].pc = "writing"
  /\ \E row \in resolver[r].pending : Wrote(r, row)
  /\ UNCHANGED cache /\ Disturbs(TRUE)
  /\ UNCHANGED <<rooftopVars, replaced, now>>

\* The process dies; what was not written is lost.
Crash(r) ==
  /\ Resolving(r)
  /\ Goes(r, Ready)
  /\ UNCHANGED cache /\ Disturbs(resolver[r].pc = "writing")
  /\ UNCHANGED <<rooftopVars, replaced, now>>

---------------------------------------------------------------------------
Changes == writes + Len(replaced)

\* The Pentana import gives the account another discount.
ChangeDiscount ==
  /\ Changes < MaxChanges
  /\ replaced' = Append(replaced, now)
  /\ UNCHANGED <<rooftopVars, cache, resolver, disturbed, now>>

\* The TTL index deletes one row that is old enough.
ExpireRow ==
  /\ \E row \in cache : row.resolvedAt + Ttl <= now /\ cache' = cache \ {row}
  /\ UNCHANGED resolver /\ Disturbs(TRUE)
  /\ UNCHANGED <<rooftopVars, replaced, now>>

\* Time: a row is deleted before it is a tick too old, and no request is longer
\* under way than MaxProbe.
Tick ==
  /\ now < MaxTime
  /\ \A row \in cache : now < row.resolvedAt + Ttl
  /\ \A r \in Resolvers : Resolving(r) => now < resolver[r].startedAt + MaxProbe
  /\ now' = now + 1
  /\ UNCHANGED <<rooftopVars, replaced, cache, resolver, disturbed>>

\* A write of a rooftop: rows built before no longer show the rooftops there are.
ChangeRooftops ==
  /\ RooftopsNext
  /\ UNCHANGED <<replaced, cache, resolver, now>>
  /\ Changes' <= MaxChanges
  /\ Disturbs(rooftops' # rooftops)

SourcingNext ==
  \/ \E r \in Resolvers :
       \/ Resolve(r) \/ ReadDiscount(r) \/ ReadOwnRooftop(r) \/ ReadActiveRooftops(r)
       \/ BuildRows(r)
       \/ UpsertRow(r) \/ UpsertFails(r) \/ Crash(r)
  \/ ChangeDiscount \/ ExpireRow \/ Tick \/ ChangeRooftops

SourcingSpec == SourcingInit /\ [][SourcingNext]_sourcingVars

---------------------------------------------------------------------------
SourcingTypeOK ==
  /\ rooftops \in [RooftopId -> Rooftop \cup {NoRooftop}]
  /\ cache \subseteq Row
  /\ \A k, l \in cache : Key(k) = Key(l) => k = l
  /\ disturbed \in BOOLEAN /\ now \in 0 .. MaxTime

\* A cached price comes from a discount the account had at most Ttl + MaxProbe
\* before, however resolutions overlap and overwrite one another's rows: "cache
\* entries expire after 15 minutes to force a fresh probe".
PriceRecent ==
  \A row \in cache :
    row.discount < Discount => now <= replaced[row.discount + 1] + Ttl + MaxProbe

\* "Returns all available rows", with what the code allows for: rows at rest are
\* exactly the sources a new resolution would find, by kind and name, and name
\* the rooftops that supply them; unless a write failed, a rooftop changed or the
\* first row has expired since the cache was last empty.
CacheWhole ==
  (cache # {} /\ ~disturbed /\ \A r \in Resolvers : ~Resolving(r)) =>
    LET probe == [discount |-> Discount, resolvedAt |-> now]
        fresh == SourceRows(probe, RooftopOf(Home), ActiveRooftops) IN
    /\ {Key(row) : row \in cache} = {Key(row) : row \in fresh}
    /\ \A row \in cache : \E f \in fresh :
         Key(row) = Key(f) /\ row.sourceRooftopId = f.sourceRooftopId
=============================================================================
