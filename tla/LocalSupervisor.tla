-------------------------- MODULE LocalSupervisor --------------------------
(***************************************************************************)
(* The development supervisor (scripts/local-supervisor.cjs): a TypeScript *)
(* watcher and the API as two child processes. Every successful build      *)
(* restarts the API; restarts run one after the other on the promise chain *)
(* `pending`, and one that a newer request has overtaken gives up.         *)
(*                                                                         *)
(* One action is one turn of the event loop; the operating system ends     *)
(* processes in between. Output and reports are left out. A restart asked  *)
(* for while stopping only queues a callback that returns: it is left out. *)
(***************************************************************************)
EXTENDS Naturals, Sequences, FiniteSets

CONSTANTS
  MaxBuilds,   \* bound: how many builds succeed
  MaxCrashes   \* bound: how often the API exits by itself or fails to start

ASSUME SupervisorAssumption == MaxBuilds \in Nat /\ MaxCrashes \in Nat

\* Every restart comes from a build or from a crash, and starts one process.
MaxRevision == MaxBuilds + MaxCrashes
Child == 1 .. MaxRevision
NoChild == 0

VARIABLES
  app,       \* the API process the supervisor regards as current
  child,     \* what became of each API process
  compiler,  \* the watcher: "running", "signalled", "killed" or "exited"
  revision,  \* number of the last restart requested
  queue,     \* restarts waiting on `pending`, by their number
  task,      \* the restart that is running
  retry,     \* whether the retry timer is set
  stopping,  \* stop() was called
  stop,      \* how far stop() has got
  builds, crashes,
  loaded     \* history: the builds there had been when a process was last started

supervisorVars ==
  <<app, child, compiler, revision, queue, task, retry, stopping, stop, builds, crashes,
    loaded>>

NoTask == [pc |-> "none"]

\* previous: the API process stop() took away, when it has.
StopAt(pc, previous) == [pc |-> pc, previous |-> previous]

SupervisorInit ==
  /\ app = NoChild
  /\ child = [c \in Child |-> "unborn"]
  /\ compiler = "running"
  /\ revision = 0
  /\ queue = << >>
  /\ task = NoTask
  /\ retry = FALSE
  /\ stopping = FALSE
  /\ stop = StopAt("no", NoChild)
  /\ builds = 0 /\ crashes = 0 /\ loaded = 0

\* A process that was sent SIGKILL runs no more of its code.
Alive(c) == child[c] \in {"running", "signalled"}
Spawned == {c \in Child : child[c] # "unborn"}

\* terminate() resolves at once without a child or for one that has exited,
\* and else when the child exits or is sent SIGKILL.
Terminated(c) == c # NoChild => ~Alive(c)

\* child.kill('SIGTERM')
Signal(c) ==
  IF c = NoChild THEN child
  ELSE [child EXCEPT ![c] = IF @ = "running" THEN "signalled" ELSE @]

---------------------------------------------------------------------------
\* Mutant: restart() leaves the new build to the restart that is running.
RestartCoalesced ==
  /\ revision' = revision + 1
  /\ retry' = FALSE
  /\ queue' = IF task = NoTask THEN Append(queue, revision + 1) ELSE queue

\* restart(): a new number, no retry, one more link of `pending`.
Restart ==
  /\ revision' = revision + 1
  /\ retry' = FALSE
  /\ queue' = Append(queue, revision + 1)

\* The watcher prints "Found 0 errors. Watching for file changes."
BuildSucceeds ==
  /\ compiler = "running"
  /\ ~stopping
  /\ builds < MaxBuilds
  /\ builds' = builds + 1
  /\ Restart
  /\ UNCHANGED <<app, child, compiler, task, stopping, stop, crashes, loaded>>

RetryFires ==
  /\ retry
  /\ Restart
  /\ UNCHANGED <<app, child, compiler, task, stopping, stop, builds, crashes, loaded>>

Overtaken(requested) == stopping \/ requested # revision

\* The next restart of the chain begins: it gives up, or takes the current
\* process away and asks it to end.
BeginRestart ==
  /\ task = NoTask
  /\ queue # << >>
  /\ queue' = Tail(queue)
  /\ IF Overtaken(Head(queue))
     THEN UNCHANGED <<app, child, task>>
     ELSE /\ app' = NoChild
          /\ child' = Signal(app)
          /\ task' = [pc |-> "terminate", requested |-> Head(queue), previous |-> app]
  /\ UNCHANGED <<compiler, revision, retry, stopping, stop, builds, crashes, loaded>>

\* Mutant: the new process is started without waiting for the old one to end.
SpawnAppAtOnce ==
  /\ task.pc = "terminate"
  /\ ~Overtaken(task.requested)
  /\ LET c == Cardinality(Spawned) + 1 IN
     /\ child' = [child EXCEPT ![c] = "running"]
     /\ app' = c
  /\ loaded' = builds
  /\ task' = NoTask
  /\ UNCHANGED <<compiler, revision, queue, retry, stopping, stop, builds, crashes>>

\* terminate(previous) has resolved, and the restart is still wanted.
SpawnApp ==
  /\ task.pc = "terminate"
  /\ Terminated(task.previous)
  /\ ~Overtaken(task.requested)
  /\ LET c == Cardinality(Spawned) + 1 IN
     /\ child' = [child EXCEPT ![c] = "running"]
     /\ app' = c
  /\ loaded' = builds
  /\ task' = NoTask
  /\ UNCHANGED <<compiler, revision, queue, retry, stopping, stop, builds, crashes>>

\* terminate(previous) has resolved, and the restart gives up.
GiveUpRestart ==
  /\ task.pc = "terminate"
  /\ Terminated(task.previous)
  /\ Overtaken(task.requested)
  /\ task' = NoTask
  /\ UNCHANGED <<app, child, compiler, revision, queue, retry, stopping, stop,
                 builds, crashes, loaded>>

---------------------------------------------------------------------------
\* Mutant: the exit of the current process is only noted.
AppCrashesNoRetry(c) ==
  /\ child[c] = "running"
  /\ crashes < MaxCrashes
  /\ crashes' = crashes + 1
  /\ child' = [child EXCEPT ![c] = "exited"]
  /\ app' = IF ~stopping /\ app = c THEN NoChild ELSE app
  /\ UNCHANGED <<compiler, revision, queue, task, retry, stopping, stop, builds, loaded>>

\* The API exits by itself, or could not be started ('error'): if it is the
\* current one, it is forgotten and the retry timer set.
AppCrashes(c) ==
  /\ child[c] = "running"
  /\ crashes < MaxCrashes
  /\ crashes' = crashes + 1
  /\ child' = [child EXCEPT ![c] = "exited"]
  /\ IF ~stopping /\ app = c
     THEN app' = NoChild /\ retry' = TRUE
     ELSE UNCHANGED <<app, retry>>
  /\ UNCHANGED <<compiler, revision, queue, task, stopping, stop, builds, loaded>>

\* A signalled API ends. It is current no longer: its exit event does nothing.
AppTerminates(c) ==
  /\ child[c] \in {"signalled", "killed"}
  /\ child' = [child EXCEPT ![c] = "exited"]
  /\ UNCHANGED <<app, compiler, revision, queue, task, retry, stopping, stop,
                 builds, crashes, loaded>>

CompilerTerminates ==
  /\ compiler \in {"signalled", "killed"}
  /\ compiler' = "exited"
  /\ UNCHANGED <<app, child, revision, queue, task, retry, stopping, stop,
                 builds, crashes, loaded>>

\* Mutant: terminate() asks with SIGTERM and waits, however long it takes.
KillTimerUnset == FALSE /\ UNCHANGED supervisorVars

\* The five-second timer of terminate() sends SIGKILL and resolves, whether or
\* not the process is gone yet.
KillTimer ==
  /\ \/ /\ \E c \in Child : /\ child[c] = "signalled"
                          /\ child' = [child EXCEPT ![c] = "killed"]
        /\ UNCHANGED compiler
     \/ /\ compiler = "signalled"
        /\ compiler' = "killed"
        /\ UNCHANGED child
  /\ UNCHANGED <<app, revision, queue, task, retry, stopping, stop, builds, crashes, loaded>>

---------------------------------------------------------------------------
StopRequested ==
  /\ ~stopping
  /\ stopping' = TRUE
  /\ retry' = FALSE
  /\ stop' = StopAt("pending", NoChild)

\* stop() from outside (Ctrl-C); a second call gets the same promise.
Stop ==
  /\ StopRequested
  /\ UNCHANGED <<app, child, compiler, revision, queue, task, builds, crashes, loaded>>

\* The watcher exits by itself or cannot be started: stop().
CompilerFails ==
  /\ compiler = "running"
  /\ compiler' = "exited"
  /\ StopRequested \/ (stopping /\ UNCHANGED <<stopping, retry, stop>>)
  /\ UNCHANGED <<app, child, revision, queue, task, builds, crashes, loaded>>

\* spawn throws in a restart: the chain's catch calls stop().
SpawnThrows ==
  /\ task.pc = "terminate"
  /\ Terminated(task.previous)
  /\ ~Overtaken(task.requested)
  /\ task' = NoTask
  /\ StopRequested
  /\ UNCHANGED <<app, child, compiler, revision, queue, builds, crashes, loaded>>

\* Mutant: stop() does not wait for a restart that is running.
StopChildrenAtOnce ==
  /\ stop.pc = "pending"
  /\ app' = NoChild
  /\ child' = Signal(app)
  /\ compiler' = IF compiler = "running" THEN "signalled" ELSE compiler
  /\ stop' = StopAt("terminate", app)
  /\ UNCHANGED <<revision, queue, task, retry, stopping, builds, crashes, loaded>>

\* `await pending` has resolved: both children are asked to end.
StopChildren ==
  /\ stop.pc = "pending"
  /\ task = NoTask /\ queue = << >>
  /\ app' = NoChild
  /\ child' = Signal(app)
  /\ compiler' = IF compiler = "running" THEN "signalled" ELSE compiler
  /\ stop' = StopAt("terminate", app)
  /\ UNCHANGED <<revision, queue, task, retry, stopping, builds, crashes, loaded>>

\* Both calls of terminate() have resolved: the watcher's and that of the API
\* process that was current.
StopDone ==
  /\ stop.pc = "terminate"
  /\ compiler \in {"killed", "exited"}
  /\ Terminated(stop.previous)
  /\ stop' = StopAt("done", NoChild)
  /\ UNCHANGED <<app, child, compiler, revision, queue, task, retry, stopping,
                 builds, crashes, loaded>>

\* The supervisor has stopped; its parent process exits.
Stopped == stop.pc = "done" /\ UNCHANGED supervisorVars

SupervisorNext ==
  \/ BuildSucceeds \/ RetryFires \/ BeginRestart \/ SpawnApp \/ GiveUpRestart
  \/ \E c \in Child : AppCrashes(c) \/ AppTerminates(c)
  \/ CompilerTerminates \/ CompilerFails \/ KillTimer
  \/ Stop \/ SpawnThrows \/ StopChildren \/ StopDone \/ Stopped

\* The event loop runs what is due and its timers fire. Nothing is assumed of
\* the processes: a child may ignore SIGTERM for ever; builds, crashes and stop()
\* need not happen.
SupervisorFairness ==
  /\ WF_supervisorVars(BeginRestart) /\ WF_supervisorVars(SpawnApp) /\ WF_supervisorVars(GiveUpRestart)
  /\ WF_supervisorVars(RetryFires) /\ WF_supervisorVars(KillTimer)
  /\ WF_supervisorVars(StopChildren) /\ WF_supervisorVars(StopDone)

SupervisorSpec == SupervisorInit /\ [][SupervisorNext]_supervisorVars /\ SupervisorFairness

---------------------------------------------------------------------------
SupervisorTypeOK ==
  /\ app \in Child \cup {NoChild}
  /\ child \in [Child -> {"unborn", "running", "signalled", "killed", "exited"}]
  /\ compiler \in {"running", "signalled", "killed", "exited"}
  /\ revision \in 0 .. MaxRevision
  /\ queue \in Seq(Child) /\ Len(queue) <= MaxRevision
  /\ task \in {NoTask} \cup [pc : {"terminate"}, requested : Child,
                             previous : Child \cup {NoChild}]
  /\ retry \in BOOLEAN /\ stopping \in BOOLEAN
  /\ stop \in [pc : {"no", "pending", "terminate", "done"},
               previous : Child \cup {NoChild}]
  /\ builds \in 0 .. MaxBuilds /\ crashes \in 0 .. MaxCrashes /\ loaded \in 0 .. MaxBuilds

\* "Successful builds restart the API serially": never two API processes at
\* once, however builds, crashes, retries and slow terminations overlap (both
\* would listen on the same port).
OneApiProcess == \A c, d \in Child : Alive(c) /\ Alive(d) => c = d

\* When stop() has resolved, neither child is left running: each has exited or
\* was sent SIGKILL.
NothingLeftBehind ==
  stop.pc = "done" => /\ compiler \in {"killed", "exited"}
                      /\ \A c \in Child : ~Alive(c)

\* "Successful builds restart the API": a restart that gives up leaves its build to
\* a later one. Whenever no restart is waiting or running, the API that runs was
\* started with the latest build, or it has crashed and the retry timer is set.
LatestBuildRuns ==
  queue = << >> /\ task = NoTask /\ ~stopping /\ builds > 0 =>
    IF app = NoChild THEN retry ELSE loaded = builds

\* "unexpected API exits trigger a restart": once a first build succeeded, the
\* API is running again and again unless the supervisor stops.
ApiComesBack == revision > 0 /\ app = NoChild ~> app # NoChild \/ stopping

\* Every stop() resolves, also during a restart that waits for a process.
StopResolves == stopping ~> stop.pc = "done"
=============================================================================
