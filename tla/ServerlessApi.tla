---------------------------- MODULE ServerlessApi ----------------------------
(***************************************************************************)
(* The serverless deployment: api/index.ts builds the application once per *)
(* instance, on the first request, and every request that comes meanwhile  *)
(* waits for it (bootstrapServer). app.init() runs the start-up import     *)
(* (PentanaImport); a ready instance passes a request to the rate-limit    *)
(* guard (RateLimit). Instances share the database only.                   *)
(*                                                                         *)
(* The listening server (main.ts) builds the same application without      *)
(* waiting requests. Every request here goes to a limited route; what the  *)
(* routes do is in the other modules.                                      *)
(***************************************************************************)
EXTENDS PentanaImport, RateLimit

CONSTANTS
  Instances,
  KeysOfRequest,
  MaxEvents     \* bound: instances killed and imports asked for

ASSUME ServerlessAssumption ==
  /\ Instances \subseteq Importers   \* the others are runs of the command line
  /\ KeysOfRequest \in [Requests -> Seq(Key)]
  /\ \A r \in Requests : KeysOfRequest[r] # << >>   \* the address is always counted
  /\ MaxEvents \in Nat

VARIABLES
  promises,       \* the builds each instance began: how far each promise is
  cachedServer,   \* the promise an instance keeps, by its place in that list, or None
  waiting,        \* where each request is: not sent, at an instance, done, lost
  events

serverVars == <<promises, cachedServer>>
vars == <<importVars, limitVars, serverVars, waiting, events>>

None == 0
Stage == {"creating", "importing", "ready", "rejected"}
BuildsOf(i) == DOMAIN promises[i]
Becomes(i, n, stage) == promises' = [promises EXCEPT ![i][n] = stage]

NotSent == [pc |-> "notSent"]
Awaiting(i, n) == [pc |-> "await", at |-> i, promise |-> n]   \* await bootstrapServer()
Serving(i) == [pc |-> "served", at |-> i]    \* server(req, res)
Rejected == [pc |-> "rejected"]              \* 503 with Retry-After
Lost == [pc |-> "lost"]                      \* its instance was killed

Decided(r) == guard[r] \in {Passed, TooMany, Unavailable}
Answered(r) == waiting[r] \in {Rejected, Lost} \/ Decided(r)
At(r, i) ==
  /\ waiting[r] \in {Awaiting(i, n) : n \in BuildsOf(i)} \cup {Serving(i)}
  /\ ~Decided(r)

Init ==
  /\ ImportInit
  /\ LimitInit
  /\ promises = [i \in Instances |-> << >>]
  /\ cachedServer = [i \in Instances |-> None]
  /\ waiting = [r \in Requests |-> NotSent]
  /\ events = 0

\* A request waits for the promise n of the instance; so will later ones.
WaitsFor(r, i, n) ==
  /\ cachedServer' = [cachedServer EXCEPT ![i] = n]
  /\ waiting' = [waiting EXCEPT ![r] = Awaiting(i, n)]
  /\ UNCHANGED <<importVars, limitVars, events>>

StartsBuild(r, i) ==
  /\ promises' = [promises EXCEPT ![i] = Append(@, "creating")]
  /\ WaitsFor(r, i, Len(promises[i]) + 1)

\* Mutant: the server is cached when it is ready, not the promise of it.
ArriveBeforeReady(r, i) ==
  /\ waiting[r] = NotSent
  /\ \/ \E n \in BuildsOf(i) : promises[i][n] = "ready" /\ WaitsFor(r, i, n) /\ UNCHANGED promises
     \/ (\A n \in BuildsOf(i) : promises[i][n] # "ready") /\ StartsBuild(r, i)

\* handler: without a promise the request starts a build, else it shares the one there is.
Arrive(r, i) ==
  /\ waiting[r] = NotSent
  /\ \/ cachedServer[i] = None /\ StartsBuild(r, i)
     \/ cachedServer[i] # None /\ WaitsFor(r, i, cachedServer[i]) /\ UNCHANGED promises

\* createServer: the modules, the connection to the database, and then app.init()
\* counts the verified accounts and may start the import.
CreateServer(i, n) ==
  /\ promises[i][n] = "creating"
  /\ Becomes(i, n, "importing")
  /\ CheckDataset(i)
  /\ UNCHANGED <<limitVars, cachedServer, waiting, events>>

\* The import ends, however it ends: its errors are logged only.
Ready(i, n) ==
  /\ promises[i][n] = "importing"
  /\ ~Importing(i)
  /\ Becomes(i, n, "ready")
  /\ UNCHANGED <<importVars, limitVars, cachedServer, waiting, events>>

\* Mutant: the rejected promise stays cached.
FailureCached(i, n) ==
  /\ promises[i][n] = "creating"
  /\ Becomes(i, n, "rejected")
  /\ UNCHANGED <<importVars, limitVars, cachedServer, waiting, events>>

\* createServer is rejected: the instance forgets the promise, which rejects.
BuildFails(i, n) ==
  /\ promises[i][n] = "creating"
  /\ Becomes(i, n, "rejected")
  /\ cachedServer' = [cachedServer EXCEPT ![i] = None]
  /\ UNCHANGED <<importVars, limitVars, waiting, events>>

\* What a request waits for has been rejected.
Refused(r) ==
  \E i \in Instances : \E n \in BuildsOf(i) :
    waiting[r] = Awaiting(i, n) /\ promises[i][n] = "rejected"

\* Mutant: the handler does not catch the rejection, and answers nothing.
RejectUnheard(r) == FALSE /\ UNCHANGED vars

\* The handler's await throws: 503.
Reject(r) ==
  /\ Refused(r)
  /\ waiting' = [waiting EXCEPT ![r] = Rejected]
  /\ UNCHANGED <<importVars, limitVars, serverVars, events>>

\* server(req, res): the guard takes the request's keys.
Serve(r, i) ==
  /\ \E n \in BuildsOf(i) : waiting[r] = Awaiting(i, n) /\ promises[i][n] = "ready"
  /\ waiting' = [waiting EXCEPT ![r] = Serving(i)]
  /\ EnterGuard(r, KeysOfRequest[r])
  /\ UNCHANGED <<importVars, serverVars, events>>

\* The guard goes on for a request that is being served, up to its answer.
Consume(r, i) ==
  /\ waiting[r] = Serving(i)
  /\ GuardStep(r)
  /\ UNCHANGED <<importVars, serverVars, waiting, events>>

Event == events < MaxEvents /\ events' = events + 1

\* The platform stops an instance: its import ends where it is, its requests are lost.
Kill(i) ==
  /\ promises[i] # << >>
  /\ Event
  /\ promises' = [promises EXCEPT ![i] = << >>]
  /\ cachedServer' = [cachedServer EXCEPT ![i] = None]
  /\ waiting' = [r \in Requests |-> IF At(r, i) THEN Lost ELSE waiting[r]]
  /\ IF Importing(i) THEN ImportFails(i) ELSE UNCHANGED importVars
  /\ UNCHANGED limitVars

\* POST /accounts/pentana/sync at a ready instance.
Sync(i) ==
  /\ \E n \in BuildsOf(i) : promises[i][n] = "ready"
  /\ StartImport(i)
  /\ Event
  /\ UNCHANGED <<limitVars, serverVars, waiting>>

\* `npm run seed:pentana`
RunPentanaIngestion(m) ==
  /\ m \notin Instances
  /\ StartImport(m)
  /\ Event
  /\ UNCHANGED <<limitVars, serverVars, waiting>>

Import(m) ==
  /\ ImportStep(m)
  /\ UNCHANGED <<limitVars, serverVars, waiting, events>>

Clock ==
  /\ NextWindow \/ DeleteCounter
  /\ UNCHANGED <<importVars, serverVars, waiting, events>>

Build(i) == \E n \in BuildsOf(i) : CreateServer(i, n) \/ Ready(i, n) \/ BuildFails(i, n)

Next ==
  \/ \E i \in Instances :
       \/ Build(i) \/ Sync(i) \/ Kill(i)
       \/ \E r \in Requests : Arrive(r, i) \/ Serve(r, i) \/ Consume(r, i)
  \/ \E r \in Requests : Reject(r)
  \/ \E m \in Importers : Import(m) \/ RunPentanaIngestion(m)
  \/ Clock

Request(r) == Reject(r) \/ \E i \in Instances : Serve(r, i) \/ Consume(r, i)

(* The event loop runs what can run, and the database answers or times out. *)
Fairness ==
  /\ \A i \in Instances : WF_vars(Build(i)) /\ WF_vars(Import(i))
  /\ \A r \in Requests : WF_vars(Request(r))

Spec == Init /\ [][Next]_vars /\ Fairness

---------------------------------------------------------------------------
TypeOK ==
  /\ LimitTypeOK
  /\ promises \in [Instances -> Seq(Stage)]
  /\ \A i \in Instances : cachedServer[i] \in {None} \cup BuildsOf(i)
  /\ events \in 0 .. MaxEvents

\* "Concurrent cold-start requests must share one application initialization":
\* however requests, failures and kills overlap, an instance never has two
\* applications that are built or being built, each with its own connections.
OneApplication ==
  \A i \in Instances : \A m, n \in BuildsOf(i) :
    promises[i][m] # "rejected" /\ promises[i][n] # "rejected" => m = n

\* A failure refuses only the requests that were waiting when it happened: none
\* comes to wait for a promise that is rejected already, so the next request
\* tries anew.
FailureNotCached ==
  [][\A r \in Requests : Refused(r)' => waiting'[r] = waiting[r]]_vars

\* Every request that arrives is answered, whatever fails, unless its instance is
\* killed: the promise it waits on and the import behind it always settle.
RequestsAnswered ==
  \A r \in Requests :
    (waiting[r] # NotSent) ~> Answered(r)
=============================================================================
