---------------------------- MODULE PentanaImport ----------------------------
(***************************************************************************)
(* integrations/pentana-ingestion.service.ts and its command-line copy     *)
(* database/seed-pentana.ts: the two extraction bundles are merged in      *)
(* memory and upserted one document at a time, accounts first, then        *)
(* entities, then observed parts. Any number of imports may run at once:   *)
(* one per starting application, one per POST /accounts/pentana/sync, and  *)
(* `npm run seed:pentana`.                                                 *)
(*                                                                         *)
(* A document keeps what the merge decides: the bundle its figures come    *)
(* from, the capture status, the link between entity and account. What the *)
(* figures become in an account is in TradeLedger.                         *)
(***************************************************************************)
EXTENDS Naturals, Sequences, SequencesExt

CONSTANTS
  BaseAccounts, BaseEntities, Observed,        \* base bundle, in file order
  MoreAccounts, Searched, Contacts,            \* expansion bundle
  Expanded,      \* whether the expansion bundle is deployed
  Importers,
  Threshold      \* verified accounts that count as loaded (85 of 90)

\* The base bundle is found by its file of accounts, and 85 is not zero.
ASSUME PentanaAssumption ==
  /\ \A file \in {BaseAccounts, BaseEntities, Observed, MoreAccounts, Searched, Contacts} :
       file \in Seq(ToSet(file))
  /\ BaseAccounts # << >>
  /\ Expanded \in BOOLEAN /\ Threshold \in Nat \ {0}

VARIABLES
  accounts, entities, parts,   \* the three collections, by document id
  import,                      \* what each importer is doing
  cut                          \* history: some import was killed or failed

importVars == <<accounts, entities, parts, import, cut>>

\* resolveExpansionDataDirectory: without the directory its files read as empty.
Expansion(file) == IF Expanded THEN file ELSE <<>>

\* The keys of a Map filled in this order: a key set again keeps its place.
KeysOf(ids) ==
  FoldLeft(LAMBDA keys, id : IF Contains(keys, id) THEN keys ELSE Append(keys, id), <<>>, ids)

AccountIds == KeysOf(BaseAccounts \o Expansion(MoreAccounts))
EntityIds == KeysOf(BaseEntities \o Expansion(Searched) \o Expansion(Contacts))

\* The bundle that set the account last.
Account(id) == IF Contains(Expansion(MoreAccounts), id) THEN "expansion" ELSE "base"

\* Mutant: what the search found replaces the entity captured in the base bundle.
MergedSearchLast(id) ==
  IF Contains(Expansion(Searched), id) THEN "SEARCH_DISCOVERED" ELSE "CAPTURED"

\* Steps A to C: the search adds entities only, contact details override.
Merged(id) ==
  IF Contains(BaseEntities \o Expansion(Contacts), id) THEN "CAPTURED"
  ELSE "SEARCH_DISCOVERED"

Entity(id) == [status |-> Merged(id), linkedAccount |-> Contains(AccountIds, id)]

\* The part of the catalogue, with its two sources.
Part(id) == "observed"

\* The upserts of one import, in order.
Upserts ==
  [i \in DOMAIN AccountIds |-> [to |-> "accounts", id |-> AccountIds[i]]]
    \o [i \in DOMAIN EntityIds |-> [to |-> "entities", id |-> EntityIds[i]]]
    \o [i \in DOMAIN Observed |-> [to |-> "parts", id |-> Observed[i]]]

---------------------------------------------------------------------------
Idle == [pc |-> "idle"]
Over == [pc |-> "over"]      \* returned, skipped or aborted: this importer is done
Finding(i) == [pc |-> "find", at |-> i]
Inserting(i) == [pc |-> "insert", at |-> i]
Importing(m) == import[m].pc \in {"find", "insert"}

NoEntity == [status |-> "none", linkedAccount |-> FALSE]

ImportInit ==
  /\ accounts = [id \in ToSet(BaseAccounts \o MoreAccounts) |-> "none"]
  /\ entities = [id \in ToSet(BaseEntities \o Searched \o Contacts) |-> NoEntity]
  /\ parts = [id \in ToSet(Observed) |-> "none"]
  /\ import = [m \in Importers |-> Idle]
  /\ cut = FALSE

Continue(m, state) == import' = [import EXCEPT ![m] = state]

\* A sync request and the command line import at once.
StartImport(m) ==
  /\ ~Importing(m)
  /\ Continue(m, Finding(1))
  /\ UNCHANGED <<accounts, entities, parts, cut>>

Verified == {id \in DOMAIN accounts : accounts[id] # "none"}

\* onApplicationBootstrap, first half: enough verified accounts are taken for the
\* whole dataset.
CheckDataset(m) ==
  /\ IF Cardinality(Verified) < Threshold THEN Continue(m, Finding(1)) ELSE Continue(m, Over)
  /\ UNCHANGED <<accounts, entities, parts, cut>>

Stored(w) ==
  CASE w.to = "accounts" -> accounts[w.id] # "none"
    [] w.to = "entities" -> entities[w.id] # NoEntity
    [] w.to = "parts"    -> parts[w.id] # "none"

\* The document is written whole: every field of it is $set.
WriteAccount(id) ==
  accounts' = [accounts EXCEPT ![id] = Account(id)] /\ UNCHANGED <<entities, parts>>
WriteEntity(id) ==
  entities' = [entities EXCEPT ![id] = Entity(id)] /\ UNCHANGED <<accounts, parts>>
WritePart(id) ==
  parts' = [parts EXCEPT ![id] = Part(id)] /\ UNCHANGED <<accounts, entities>>

\* And the import goes on to the next.
Write(m, w) ==
  /\ CASE w.to = "accounts" -> WriteAccount(w.id)
       [] w.to = "entities" -> WriteEntity(w.id)
       [] w.to = "parts"    -> WritePart(w.id)
  /\ Continue(m, IF import[m].at = Len(Upserts) THEN Over ELSE Finding(import[m].at + 1))
  /\ UNCHANGED cut

\* An upsert updates the document it finds and otherwise sets out to insert it.
UpsertDocument(m) ==
  /\ import[m].pc = "find"
  /\ LET w == Upserts[import[m].at] IN
       IF Stored(w) THEN Write(m, w)
       ELSE Continue(m, Inserting(import[m].at)) /\ UNCHANGED <<accounts, entities, parts, cut>>

\* The insertion, unless another import was first. The duplicate key is retried by
\* the server (Write) or ends the loser's import.
InsertDocument(m) ==
  /\ import[m].pc = "insert"
  /\ LET w == Upserts[import[m].at] IN
       \/ Write(m, w)
       \/ Stored(w) /\ Continue(m, Over) /\ UNCHANGED <<accounts, entities, parts, cut>>

\* The database fails, or the process is killed: what is written stays. At start-up
\* the error is swallowed, a sync request and the command line report it.
ImportFails(m) ==
  /\ Importing(m)
  /\ Continue(m, Over)
  /\ cut' = TRUE
  /\ UNCHANGED <<accounts, entities, parts>>

ImportStep(m) == UpsertDocument(m) \/ InsertDocument(m) \/ ImportFails(m)

---------------------------------------------------------------------------
(* What the bundles say, without the order of merging and writing.         *)
Whole ==
  /\ Verified = ToSet(BaseAccounts) \cup ToSet(Expansion(MoreAccounts))
  /\ \A id \in DOMAIN entities :
       /\ id \in ToSet(BaseEntities) \cup ToSet(Expansion(Contacts)) =>
            entities[id].status = "CAPTURED"
       /\ entities[id] # NoEntity => (entities[id].linkedAccount <=> id \in Verified)
  /\ \A id \in ToSet(Expansion(Searched)) : entities[id] # NoEntity
  /\ \A id \in DOMAIN parts : parts[id] # "none"

\* Once an import was started and none is running.
ImportsOver == (\E m \in Importers : import[m] = Over) /\ \A m \in Importers : ~Importing(m)

\* Imports that race for the same documents end one another, but never all of
\* them: once they are over, the dataset is whole, unless one was killed or failed.
\* (Then a later start may find enough accounts and never complete it.) And an
\* entity is never linked to an account that is not stored, whichever import was
\* cut wherever.
DatasetKept ==
  /\ ImportsOver /\ ~cut => Whole
  /\ \A id \in DOMAIN entities : entities[id].linkedAccount => id \in Verified
=============================================================================
