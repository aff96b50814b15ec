# Trade client backend: a TLA+ verification project

TLA+ models of the concurrent core of this repository (a NestJS/mongoose backend for
trade parts ordering), TLC configurations that model-check them, and TLAPS proofs of
their safety properties. Paths below are relative to the repository root.

Run, in this directory:

    tlc -workers 2 -config OrderFulfilment.cfg MCOrderFulfilment
    tlapm TradeAccountProofs.tla

Every run is listed in `PROJECT.json` with its module, its configuration, its
properties and, for each property, a mutant: an edit of the model a plausible bug
would make, under which TLC finds the property violated.

## 1. Inventory

| Component | State | Operations | Interacts with |
|---|---|---|---|
| **Orders** `src/orders` | `orders` documents: lines, state, counts, flags, totals, history | submitOrder, updateState, raiseLineException, reSourceLine, pickLine; queue and list reads | reads the account, rooftop, parts; adds to the account's figures |
| **PartsCheck** `src/partscheck`, `src/integrations/partscheck-client.service.ts` | RFQ documents: status, buyer mapping, priced lines, accepted order | webhook (upsert + automatic quote), triggerQuote, overrideLine, acceptRfq, inbox | sends quotes to PartsCheck, creates orders |
| **Accounts / ledger** `src/accounts` | trade accounts: credit hold, overdue, year-to-date figures | setCreditHold, setOverdue, getSpend, lookups, the sync request | read and incremented by orders, overwritten by the import |
| **Pentana ingestion** `src/integrations/pentana-ingestion.service.ts`, `src/database/seed-pentana.ts` | accounts, entities and parts of two bundles of files | merge in memory, upsert one by one; at start-up, on request, from the command line | accounts, parts, the serverless start |
| **Auth sessions** `src/auth/auth.service.ts`, `strategies/` | `auth_sessions`: token hashes, versions, revocation | login, refresh with rotation and replay detection, logout, resetPassword, user administration | user document, second factor |
| **Emailed codes** `src/auth/auth-email-otp.service.ts`, `auth-recovery-otp.service.ts` | fields of the user document: one verification code, one recovery code, one reset grant | issue, resend, verify; request, verify; resetPassword | mail server, sessions |
| **Second factor** `src/auth/auth-mfa.service.ts`, `totp.crypto.ts` | user fields (secret, last step, recovery codes, pending setup), login challenges | enroll, confirm, startChallenge, verifyLogin, disable | sessions |
| **Rate limit** `src/auth/auth-rate-limit.guard.ts` | one counter per policy, identity and window; a TTL index | consume before the handler | all auth endpoints |
| **Parts sourcing** `src/parts/parts.service.ts` | cached source rows with a TTL index | resolveSource, search | accounts, rooftops, DMS and OEM probes |
| **Rooftops** `src/rooftops` | rooftop documents with two unique indexes | create, update | orders, parts sourcing |
| **Serverless bootstrap** `api/index.ts` | one cached promise per instance | the first request initialises, the others share it | import, all endpoints |
| **Dashboard, queue, history, inbox** `src/dashboard`, reads of orders and RFQs | none of their own | screens assembled from several queries | orders, RFQs |
| **Local supervisor** `scripts/local-supervisor.cjs` | two child processes, a promise chain, a retry timer | restart on a build, retry on a crash, stop | operating system |
| **Cookies, CSRF, roles; audit; mail; stubs; seeding** | none of their own | compare one request with itself; append events; format a mail; dry-run stubs; scripts | |

### What is hard here

* **Interleaving at awaits.** A handler loads a document, awaits something else and
  writes. Whether that is safe depends on what mongoose writes:
  * `save()` writes the *delta* of the copy: a field set to the value it was loaded
    with is not written;
  * replacing an array (`markModified('lines')`) adds the loaded `__v` to the filter
    and increments it: a copy that is out of date fails with a `VersionError`;
  * `push` on an array increments `__v` without testing it;
  * `findOneAndUpdate`/`updateOne` is atomic, and neither tests nor increments `__v`;
  * an upsert is two steps, find and insert: of two that insert one key the loser meets
    the unique index.
* **Two documents, two writes**: order and account, order and RFQ, user and sessions,
  the rows of one resolution, the documents of one import. A crash, a refusal or another
  request can come in between.
* **Redelivery and retries**: PartsCheck webhooks, acceptances, refresh tokens,
  emailed codes, counters, the supervisor's retry timer.
* **Limits and single use**: five guesses, one use of a code, a time step, a token; a
  quota shared by workers that race to insert its counter.
* **Bringing things back**: a request that read the user before a password reset must
  not restore what the reset withdrew; a resolution that read an old discount must not
  keep it in the cache.
* **Reads that are no snapshot**: a dashboard's tiles and a list's pages are queried one
  after the other while orders move.
* **Somebody waits**: requests on a build, a build on an import, `stop()` on a child.

`hazards` in `PROJECT.json` lists each place where one of these bites, with the
properties that would catch it.

## 2. Modules

| Module | Models | Correspondence |
|---|---|---|
| `OrderDocument` | one order document and the pure edit of each handler | `RaiseLineException`, `ReSourceLine`, `PickLine` follow the handlers line by line; `Totals` is `recalculateOrderTotals` with its rounding |
| `OrderDesk` | *abstract specification*: requests one after the other | what `OrderFulfilment` is shown to implement |
| `OrderFulfilment` | overlapping requests on that order with `__v` | `Load` is `resolveOrder`, `SaveLines` the versioned save, `UpdateState` the unversioned one |
| `PartsCheckRfq` | one RFQ, quotes sent, orders raised, crashes | `ResolveInbound`/`UpsertRfq` are the two halves of the webhook, `SaveManualQuote`/`DispatchManualQuote` of triggerQuote, `RaiseOrder`/`SaveAcceptance` of acceptRfq |
| `TradeLedger` | one account and the orders raised on it | `CheckOwnAccount` .. `IncrementYtd` are submitOrder between its awaits; `SyncPentana` is the import's update of the account |
| `AuthSession` | one user, its sessions, challenges and refresh tokens | one action per stretch between two awaits; `validate` is the JWT strategy |
| `EmailedCodes` | verification code, recovery code, reset grant | `Guess` claims an attempt and compares; `StoreEmailCode`/`StoreRecoveryCode`, `MailSent`/`MailFails`, `Consume...`, `LoadGrant`/`ResetPassword` |
| `MfaLogin` | time steps, recovery codes, setups, login challenges | `ClaimChallenge`, `CompareLogin`, `VerifyProof`, `ConsumeChallenge` are verifyLogin; `ClaimConfirm`, `EnableTotp` are confirm |
| `Quota` | *abstract specification*: at most `Limit` grants a window | what the rate limit is shown to implement |
| `RateLimit` | the guard's counters, shared by all workers | `Upsert`, `Insert`, `RetryIncrement` are the two halves of the upsert and the retry after error 11000; `DeleteCounter` is the TTL index |
| `PentanaImport` | the merge of the two bundles and any number of imports | `Merged`, `Entity`, `Account` are the merge; `UpsertDocument`/`InsertDocument` one `updateOne` with upsert; `CheckDataset` is `onApplicationBootstrap` |
| `ServerlessApi` | instances that build, import, serve and are killed; *composes* `PentanaImport` and `RateLimit` | `promises[i]` are the promises instance `i` created, `cachedServer[i]` the one it keeps; `Arrive` is bootstrapServer, `CreateServer`/`Ready`/`BuildFails` are createServer and its `catch`, `Reject` the handler's `catch`, `Serve` and `Consume` a request after it |
| `Rooftops` | the rooftop documents and their unique indexes | `CreateRooftop`, `UpdateRooftop` are the writes; the earlier look can only refuse |
| `PartSourcing` | cached source rows of one part; *composes* `Rooftops` | `Resolve`, `ReadDiscount`, `ReadOwnRooftop`, `ReadActiveRooftops`, `BuildRows`, `UpsertRow` are resolveSource between its awaits; `ExpireRow` is the TTL index |
| `ReadModels` | dashboards, PartsCheck views, inbox, queue and history, query by query | `GroupTile`, `StoreTile`, `RfqTile`, `QueueTile` are the filters; `PartsCheckTiles` are the counts of `getGroupPartsCheckView` and `getStorePartsCheckView`, `InboxTiles` those of `getInbox`; `Groups` says which queries run together; `PageOf` is sort, skip, limit: the orders whose `Position` is in a range |
| `LocalSupervisor` | the supervisor's event loop and its children | `BeginRestart`, `SpawnApp`, `GiveUpRestart` are one link of `pending`; `KillTimer` the five-second timer |
| `...Proofs` | theorems of the module they are named for; `OrderProofs` of `OrderFulfilment` and `ReadModels`, `TradeAccountProofs` of `TradeLedger` and `PartSourcing`, `ApiProofs` of all that `ServerlessApi` composes and of `LocalSupervisor`; `FoldLemmas` has what several of them need | section 5 |
| `MC...` | instances for TLC | constants and symmetry only |

`OrderDocument` <- `OrderDesk` <- `OrderFulfilment` extend one another, and so do
`PentanaImport`, `RateLimit` <- `ServerlessApi` and `Rooftops` <- `PartSourcing`.
`AuthSession`, `EmailedCodes` and `MfaLogin` look at the same user document at three
levels: sessions with proofs that succeed or fail; the codes mailed; the codes of the
authenticator. What one treats in full, the others reduce to its last write. In the same
way `TradeLedger` has the import's effect on the figures of an account and
`PentanaImport` its effect on the dataset; `ReadModels` lets orders and RFQs take any
state, which includes all that `OrderFulfilment` and `PartsCheckRfq` do to them.

A request is a value of `req` (or `handler`, `resolver`, `guard`): its program counter
and what it holds across an await. A request that ends may be issued again, so two
values stand for any sequence of requests of which two overlap. `Fail` (or `AnswerOnly`,
`Crash`) ends a request at an await: a refusal, a database error or a crash of the
process that serves it.

History variables and fields, read by no code and by no guard of the model, added to
state a property: `counted` of an order (`TradeLedger`), `provedPassword` and
`provedFactor` of a session (`AuthSession`), `log` (`EmailedCodes`), `accepted` and
`logins` (`MfaLogin`), `quotes` (`PartsCheckRfq`), `granted` (`RateLimit`), `cut`
(`PentanaImport`), `disturbed` (`PartSourcing`), `loaded` (`LocalSupervisor`), `changes`, `created` and `changed`
(`ReadModels`, where the first two also bound the run).

## 3. Runs

Passing runs:

| Run | Distinct states | Bounds | Shows |
|---|---|---|---|
| `OrderFulfilment` | exhaustive | 2 lines of different price and quantity, 2 requests, 4 saves | counts, flags and totals stay right; the requests implement the serial desk (`SerialDesk`) |
| `PartsCheckRfq` | 66 695 | 2 lines, 2 requests, 2 deliveries, 3 saves, 1 crash | nothing unpriced is quoted, unmapped buyers never get an automatic quote, the order link is real and never lost |
| `TradeLedger` | 21 668 | 2 requests, 2 orders, 2 totals, 1 turn of the year | count and spend are those of the orders counted, once each (`LedgerConserved`); other saves keep the hold |
| `AuthSession` | 1 781 062 | 2 requests, 1 reset, the factor on and off, 2 sessions, 3 tokens, 7 of these together (`MaxEvents`) | every session still accepted proved the current password and factor; a token is exchanged once; replay and logout revoke, for good |
| `EmailedCodes` | 2 598 986 | 2 requests, 3 codes, 2 guesses a code, 2 resets | shared guesses, single use, nothing outlives a reset, a delivered code stands |
| `MfaLogin` | 3 070 891 | 2 requests, 1 challenge, 2 setups, 1 reset, 2 time steps | no code accepted twice, one login per challenge, the newest setup wins, an outdated challenge uses up no code |
| `ServerlessApi` | 313 856 | 2 instances, 2 requests, 3 importers, 2 windows, 1 event | one application per instance; a failed build is forgotten; every request is answered; racing imports leave the whole dataset; the counters implement the quota |
| `PartSourcing` | 393 642 | 2 resolutions, 3 rooftops, 1 change, 3 ticks | no cached price outlives its discount by more than TTL and probe; rows at rest are every source |
| `ReadModels` | 3 530 163 | 6 screens, 3 orders of 4 states, 2 RFQs of 4 statuses, 2 precincts, pages of 1, 2 changes | tiles agree but for the changes made meanwhile; pages miss no more than what moved |
| `LocalSupervisor` | 3 308 | 3 builds, 2 crashes | one API process, of the latest build, none left behind, it comes back, `stop()` resolves |

Why the bounds suffice. Nearly all the hazards are races of two requests over one
document; two requests that may each be issued again produce every overlap of two. Three
importers let two race in one server start while the command line is a third. Two lines
are the least for which "all lines" and "this line" differ, and their unequal prices and
quantities tell every pair of sums apart. Guess limits are 2 instead of 5, quotas 1
instead of 3 to 1000, pages have one row: the limit is reached and two requests can be at
it. Three emailed codes give two of a kind and one of the other; three tokens let a
session be rotated again while the replay of its first token is looked up. In
`ServerlessApi` the bundles share an account and an entity, which the search finds again, and the
start-up threshold is one of two accounts, so that a cut import may or may not be taken
for complete. Screens are opened on documents in any state, the flag of an order and its
state independent of each other. Unbounded counters (`__v`, versions, orders, tokens, clock, changes) are
cut by a `Max...` constant in the guard. Runs with `CHECK_DEADLOCK FALSE` are those where
the bounds are used up in the end. What a bound might hide is what the proofs of section
5 are for: they have none of these bounds fixed.

Runs that end in a violation, each quoting what the repository says otherwise:

| Run | Scenario |
|---|---|
| `PartsCheckOneOrder` | an RFQ is accepted, quoted again (triggerQuote accepts any status) and accepted again: two orders, with one request at a time. The check for an earlier order looks only at status `ACCEPTED`. |
| `LedgerYtdReset` | the first order of a new year relabels the figures of the old one instead of resetting them |

### Fairness and liveness

`LocalSupervisor` assumes weak fairness of what Node's event loop runs when it is due (a
link of the chain whose promise has resolved, `stop()` after its await, the retry timer
and the five-second kill timer) and nothing of the child processes: a child may ignore
SIGTERM for ever, builds, crashes and `stop()` need not happen.

`ServerlessApi` assumes weak fairness of each instance's build, of the import it runs and
of each request that has arrived: the event loop runs what can run, and the database
answers or fails. A kill, a sync request, the command line and the clock are not fair.
Its liveness, `RequestsAnswered`, has four ways to go wrong: a promise nobody settles, a
rejection nobody handles, a build that waits for an import that does not end, a guard that
loops.

No other module states fairness: an HTTP request may die at any await, and no handler
waits for another.

### Abstract specifications

* `OrderFulfilment` implements `OrderDesk` (`SerialDesk`, `INSTANCE ... WITH` the stored
  order): whatever overlaps, the stored order changes as if requests came one at a time.
* `RateLimit`, inside `ServerlessApi`, implements `Quota` (`QuotaKept`): whichever of the
  three writes lets a request through, it is within the limit. The quota is per life of a
  counter: after the TTL index has deleted the counter of a past window, a request that
  took that window from the clock earlier starts a new count (`Quota!Forget`).

### Read in the code, without a run of their own

Places where a comment and the code differ, or where the code allows what a reader may
not expect. The models contain all of those about the state they keep.

* *Hold*: submitOrder tests the hold and then awaits rooftop, parts and membership; a
  hold set meanwhile does not stop the order. An import overwrites a hold that staff set
  ("set by parts_controller/store_manager/group_admin", `account.schema.ts:71`).
* *Exceptions*: `hasExceptions` is "any line has an active un-resolved exception"
  (`order.schema.ts:231`), but pickLine leaves the open record of the line it picks, and
  a later re-source of another line clears the flag.
* *Order totals*: `TotalsMatchLines` is about orders that submitOrder created. acceptRfq
  copies the totals and the line prices of the RFQ (`partscheck.service.ts:683`-`712`), which
  need not be what `recalculateOrderTotals` would give, as a re-sourcing does later.
* *History*: `statusHistory` is the "audit log of state transitions"
  (`order.schema.ts:235`), but updateState on an out-of-date copy pushes a transition
  that is not the one stored. `OrderDesk!DeskChangeState` promises no more than that.
* *Acceptance*: acceptRfq does not ask whether the RFQ was quoted: an unpriced line
  becomes an order line at 0 cents (`partscheck.service.ts:650`, `:663`).
* *Order count*: `ytdOrderCount` is "incremented on every confirmed order"
  (`account.schema.ts:92`), but not on an order from PartsCheck, nor on one whose request
  fails after `orderModel.create` (`orders.service.ts:238`). `LedgerConserved` is about the orders
  counted.
* *Automatic quote*: it is sent before the RFQ is stored (`partscheck.service.ts:213`, `:230`):
  after a crash in between, or with overlapping deliveries, PartsCheck has been told what
  is not what is stored. `QuotesJustified` says which quotes are never sent, not that
  they are stored.
* *Partial cache*: resolveSource takes any cached row for the whole answer
  (`parts.service.ts:212`), while rows expire one by one and may have failed to be written: "The
  resolver walks sources in this order and returns all available rows"
  (`part-source.schema.ts:14`). `CacheWhole` excepts rows that expired or were not written, and
  rooftops that changed since; the row names of a rooftop of before stay until they expire.
* *Reset grant*: resetPassword builds its filter, dates included, before it hashes the
  password and uses it again after (`auth.service.ts:115`-`123`), so a grant that expires during
  the hash is still accepted.
* *Logout*: a refresh that exchanges the token just before the logout that carries it
  keeps its session: the logout finds none, revokes nothing and answers success ("Logout
  and invalidate session", `auth.controller.ts:134`). `ReplayAndLogoutRevoke` states what
  remains true: the token itself is worth nothing.
* *Import*: an import that is cut after the 85th of 90 accounts is never completed by a
  later start, which counts the accounts only (`pentana-ingestion.service.ts:45`).
  `DatasetKept` excepts imports that were cut from what must be stored, but not from the links. Of two imports that insert one document
  the loser may end there, but not both.
* *Queue summary*: `exceptionsCount` counts the flag in every state
  (`orders.service.ts:429`), and updateState leaves the flag on an order that is delivered or
  cancelled (`:496`): the summary of "an operational queue of active orders"
  (`orders.controller.ts:124`) can show more exceptions than orders queued. `QueueTile` counts it
  so; `TilesAddUp` compares the other tiles.
* *Screens*: an RFQ is shown as
  expired up to one second early (the seconds are rounded down); the conversion rate can
  exceed 100 % when RFQs change between its two counts; accounts are paged by a company
  name that is not unique; the store's week starts on Sunday, the weekly pack's on Monday.

`AUTHENTICATION.md` also still describes verification and recovery *links* (24 hours,
30 minutes) where the code issues ten-minute codes; the models follow the code.

## 4. What each module leaves out

* `OrderFulfilment`: names, ETAs, bins and notes; history but its last entry. Order
  numbers and submission are in `TradeLedger` (as far as the account is concerned).
* `PartsCheckRfq`: customers, stock, totals, audit events. The catalogue and the
  account may be read in any state. `dispatchQuoteResponse` swallows failures, so a quote
  may be lost.
* `TradeLedger`: an order is its total; the import's other fields.
* `AuthSession`: hashes and signatures (a token is a number), attempts and codes.
* `EmailedCodes`: hashes, wording, the public answer for unknown addresses. Codes are
  right or wrong. Deactivation is one write.
* `MfaLogin`: encryption, QR codes; two steps of one secret are taken to have different
  codes; deactivation is a failed request; an expired challenge is a consumed one (every
  filter that reads it tests `expiresAt`).
* `RateLimit`: a key is the hash of policy and identity; IPv6 grouping and headers.
* `PentanaImport`: a document is the bundle it comes from, its capture status and its
  link; CSV reading and the other fields. `seed-pentana.ts` repeats the merge and the
  upserts of the service and is one more importer.
* `ServerlessApi`: what the routes do behind the guard. The listening server of `main.ts`
  builds the same application without waiting requests.
* `PartSourcing`: a price is the discount it was computed with; stock, ETA, ranking.
* `ReadModels`: money, audit lists, accounts and the figures of each precinct, sums and
  lists of the same kind; the RFQ counts on the order dashboards, the urgent RFQs of the
  store's PartsCheck view and the rows of the inbox; filters of a request other than the
  precinct; ties of `createdAt`, which MongoDB may order anew for each page; the weekly
  export, which is formatting.
* `LocalSupervisor`: output, and restarts requested while stopping (they only queue a
  callback that returns).

### Not modelled

Cookies, CSRF and role checks (they compare one request with itself), audit (append
only), integration stubs (constants), mail formatting, catalogue search (reads one
query), the rest of `seed.ts` (it deletes and inserts fixed data, single-handed).

## 5. Proofs

Forty-seven theorems in seven modules, and an eighth of lemmas; every invariant, action property and refinement
of the passing runs is one of them. Each is proved for every value of the constants: any
sets of requests, lines, keys or instances and any bounds that satisfy the named `ASSUME`s
of the modules, which TLC evaluates in every run. They say that bounds are natural
numbers and functions have their domain, and further:

* `PentanaAssumption`: the files of the bundles are sequences, there is an account in the
  base bundle (`loadDataset` reads files that are in the repository) and the start-up
  threshold is at least one;
* `RooftopsAssumption`: what is seeded or created is a rooftop document, and an update
  sets one field to a value of its type (the validation of the data transfer objects);
* `ReadModelsAssumption`: orders are numbered from 1 by age, their states are those of the
  enum, a page has at least one row (`getQueue` and `findAll` clamp it), and no RFQ is
  stored as `RECEIVED`, `RESOLVING`, `REJECTED` or `EXPIRED` (no handler sets one; `RECEIVED`
  is in the demonstration data only).

| Module | Theorems (property) | The inductive invariant, and why it is needed |
|---|---|---|
| `OrderProofs`, of an order | `TypeCorrect`, `NeverHidden` (`ExceptionNeverHidden`), `CountCovers` (`PickedCountCovers`), `TotalsDerived` (`TotalsMatchLines`), `PickedIsComplete` (`PickedMeansAllPicked`), `ExceptionEndsClear` (`ExceptionLeftWhenClear`), `ImplementsDesk` (`SerialDesk`) | The properties are about the stored order, but a handler edits a copy. `Coherent`: no copy has a version from the future, and a copy *of the current version is the stored order*. That is what mongoose's version filter buys (`SavedOnCurrent`): the edit that gets through is an edit of the stored order. |
| `OrderProofs`, of the screens | `ScreenTypeCorrect`, `TilesAlwaysAddUp` (`TilesAddUp`) | A property of the complete screen, while every query saw another state. `NoMoreThan` and `NoLessThan` are about the incomplete one: what some tiles have answered *plus what those not answered yet would count now* (`Waiting`) is within the number of changes of the tile they are compared with. No document is in two of the tiles that are parts of another, so an answer moves documents from one side of the sum to the other, and a change of one document moves it by one. |
| `OrderProofs`, of the pages | `PagesAlwaysShowAll` (`PagesShowAll`) | `PagesKept`: the orders still to be shown that no page will show any more, since they are ahead of the rows that were read or behind the end the user was told of (`PassedOver`), are no more than the changes. Two orders never have one position and a change of another order moves a position by one at most, so that only the order *at* the edge can cross it (`OneHidden`). |
| `PartsCheckRfqProofs` | `TypeCorrect`, `QuotesAlwaysJustified` (`QuotesJustified`), `LinkedOrderStored` (`AcceptedOrderExists`), `LinkKept` (`LinkNeverLost`) | `Carried`: what a handler carries across an await is already fit to be sent or stored, whatever happens to the document meanwhile. |
| `TradeAccountProofs`, of the figures | `TypeCorrect`, `LedgerAlwaysConserved` (`LedgerConserved`), `HoldKept` (`HoldKeptByOthers`) | `Pending`: the order a request still has to count is its own and not counted, so each `$inc` counts one order more, and adds its total to the sum of those counted (`SpendConserved`). |
| `TradeAccountProofs`, of the prices | `SourcingTypeCorrect`, `PricesRecent` (`PriceRecent`), `CacheAlwaysWhole` (`CacheWhole`) | The rows come from what requests hold, so the invariants are about both. `RecentInductive`: a discount a request holds was current at or after its start, which is less than `MaxProbe` ago; so a row is stored within `MaxProbe` of the end of its discount. `WholeInductive`: while nothing disturbs the cache, what was read of the rooftops is still so, and what is stored together with what is left to write names every source and no other. |
| `AuthSessionProofs` | `TypeCorrect`, `PasswordProved` (`SessionProvedPassword`), `FactorProved` (`SessionProvedFactor`), `TokensOnce` (`TokenExchangedOnce`), `RevokesReplay` (`ReplayAndLogoutRevoke`), `StaysRevoked` (`RevokedForever`) | A session carries the versions of the document its request held; a document without the factor is of an `mfaVersion` at which the factor is off; tokens are new when issued. Every step is `Forward` (versions grow, sessions only die, tokens are only exchanged), and what a request holds survives every forward step (`StillHolds`), so each action need only be looked at for the request that takes it. |
| `EmailedCodesProofs` | `TypeCorrect`, `AttemptsShared` (`SharedAttempts`), `OneAcceptance` (`AcceptedOnce`), `ResetsPaid` (`OneResetPerCode`), `NothingComesBack` (`PendingIsCurrent`), `GrantLatest` (`GrantFromLatestCode`), `DeliveredStands` (`DeliveredCodeStands`) | The pending code is the last one stored of its kind, for the password of now, and not accepted; its attempts cover the guesses compared with it; every reset and every grant in hand has used up a recovery code (a count of codes). |
| `MfaLoginProofs` | `TypeCorrect`, `CodesSpent` (`AcceptedOnce`), `OneLogin` (`OneLoginPerChallenge`), `NewestInUse` (`NewestSetupWins`), `StaleProvesNothing` (`StaleChallengeProvesNothing`) | A code once accepted is used up for as long as its secret is in use and is never the pending one again; versions a request holds are the user's only while the secret it compared with is in use. |
| `ApiProofs`, of the quota | `ImplementsQuota` (`QuotaKept`), `TypeCorrect` | `Covered`: a stored counter is never below the requests it let through. The request that gets `n <= Limit` back is at most the `n`-th to pass. |
| `ApiProofs`, of the builds | `OneIsEnough` (`OneApplication`), `FailureForgotten` (`FailureNotCached`) | `LiveIs`: the promise an instance keeps is the only one of its promises that is not rejected, and without one all are. So no second application starts beside the first, and a request that comes finds no rejected promise. |
| `ApiProofs`, of the imports | `DatasetAlwaysKept` (`DatasetKept`) | `Trail`: what lies behind an importer is stored. `CarriedOn`: while something is stored and not everything, some importer is past each stored document and still at work, unless an import was cut: the loser of an insertion that ends there is behind the winner. So when the last one ends all is stored. What "all" is takes lemmas about the merge: the keys of a `Map` are those set in it (`UpsertsListed`), an entity's account comes before it. |
| `ApiProofs`, of the supervisor | `SupervisorTypeCorrect`, `NeverTwo` (`OneApiProcess`), `StopEndsAll` (`NothingLeftBehind`), `LatestAlwaysRuns` (`LatestBuildRuns`) | A process that lives is the current one, the one a restart waits for or the one `stop()` waits for, and these exclude one another; counting builds and crashes bounds restarts and processes. `NewestLast`: the newest restart asked for is the last one that waits or, when none waits, the one that runs; so a restart that gives up leaves its build to one that is still to come. |

Each proof has the same shape: `Init => Inductive`; `Inductive /\ [Next]_vars =>
Inductive'`, one lemma per action or group of actions; `Inductive` implies the property.
The action properties and the refinements follow from the same invariant, one step at a
time. The type invariants are proved and not among the properties of the runs.

Sums and merges are folds of the community modules, which tlapm knows only as
definitions: the function a fold chooses is unfolded, shown to exist and to be the only
one by induction, and then gives one equation (one order more adds its total, `SumOneMore`;
a file more adds its keys). The library's induction theorems take an operator and cannot be
applied; `Induction` says the same of a *set* of numbers and follows from the fact that
`<` on `Nat` is well-founded (`NatLessThanWellFounded` with `WFMin`). `FoldLemmas` has
what is said of sums and of induction, `ApiProofs` what is said of the merge.

Only model-checked: the liveness properties (fairness and `ENABLED` are out of the prover's
reach), and `YtdResetEachYear` and `OneOrderPerRfq`, which do not hold. The proofs cover
safety as the models state it; that a hazard really occurs (a version conflict, a raced
insertion, a missed order) is what the runs and their mutants show.

## 6. Plan

Done: all of the modules above. What could follow, in this order:

1. Registration: the insertion of a user against the unique e-mail index, and what
   `EmailedCodes` starts from.
2. One abstract specification of a one-shot token, implemented by the refresh tokens of
   `AuthSession`, the codes of `EmailedCodes` and the challenges of `MfaLogin`.
3. The money tiles of the dashboard, as folds over the orders of `ReadModels`, with the
   lemmas about sums in `FoldLemmas`.
