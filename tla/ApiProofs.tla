----------------------------- MODULE ApiProofs -----------------------------
(***************************************************************************)
(* Proofs about the processes that run the API: deployed, for any number   *)
(* of instances, importers, requests, keys and windows, any limits and any *)
(* two bundles (ServerlessApi); and under the local supervisor, for any    *)
(* number of builds and crashes (LocalSupervisor). They share no variable. *)
(*                                                                         *)
(* The rate limit: a request is let through with the value its own         *)
(* increment returned, and the stored counter is never below the requests  *)
(* it let through, since the TTL index deletes both together. So the       *)
(* request that gets n <= Limit is at most the n-th to pass, whichever of  *)
(* the three writes (update, insertion, repeated increment) it passed with. *)
(*                                                                         *)
(* The builds: what an instance keeps is the one build that has not failed *)
(* (LiveIs). So no second one starts beside it, and no request comes to    *)
(* wait for one that has.                                                  *)
(*                                                                         *)
(* The dataset: what lies behind an importer is stored, and while a        *)
(* document is stored and not all are, some importer is past it and still  *)
(* at work. The loser of an insertion is behind the winner, so the last to *)
(* end has come to the end.                                                *)
(*                                                                         *)
(* The supervisor: a process that lives is the current one, the one a      *)
(* restart has taken away and waits for, or the one stop() has; and these  *)
(* three exclude one another. Both wait before they go on, so a process is *)
(* started only when none is left. Counting builds and crashes bounds the  *)
(* restarts, and they bound the processes. The last restart that waits is  *)
(* the newest, so one that gives up leaves the latest build to another.    *)
(***************************************************************************)
EXTENDS ServerlessApi, LocalSupervisor, FoldLemmas, FiniteSetTheorems, SequenceTheorems, TLAPS

\* A list of counters with at least one left.
KeyList == Seq(Key) \ {<< >>}

\* What the guard holds of a request.
Plain == [pc : {"outside", "passed", "429", "503"}]
Entering == [pc : {"consume"}, keys : KeyList]
Counting == [pc : {"upsert", "insert", "retry"}, keys : KeyList, window : Window]

GuardTyped == guard \in [Requests -> Plain \cup Entering \cup Counting]

\* No counter has let through more requests than it counted.
Covered == \A w \in Window, k \in Key : granted[w][k] <= count[w][k]

LimitInductive == LimitTypeOK /\ GuardTyped /\ Covered

\* What a step of the rate limit is in terms of the promise.
Kept == Promise!QuotaNext \/ UNCHANGED <<granted, window>>

---------------------------------------------------------------------------
LEMMA KeyListTaken ==
  ASSUME NEW keys \in KeyList
  PROVE  /\ Head(keys) \in Key
         /\ Len(keys) # 1 => Tail(keys) \in KeyList
<1>1. Len(keys) \in Nat \ {0}
  BY EmptySeq DEF KeyList
<1>2. Head(keys) \in Key /\ Tail(keys) \in Seq(Key) /\ Len(Tail(keys)) = Len(keys) - 1
  BY HeadTailProperties DEF KeyList
<1>3. Len(keys) # 1 => Len(Tail(keys)) # 0
  BY <1>1, <1>2
<1> QED BY <1>2, <1>3, EmptySeq DEF KeyList

\* A counter that comes back as n, one above the stored one: the request passes
\* within the quota, or not at all.
LEMMA CountedKept ==
  ASSUME LimitInductive, NEW r \in Requests,
         guard[r] \in Counting, NEW n \in Nat, n = CounterOf(r) + 1,
         Counted(r, n), UNCHANGED window
  PROVE  LimitInductive' /\ Kept
<1> DEFINE w == guard[r].window
           k == Head(guard[r].keys)
           rest == IF Len(guard[r].keys) = 1 THEN Passed ELSE Consuming(Tail(guard[r].keys))
<1>1. w \in Window /\ guard[r].keys \in KeyList
  BY DEF Counting
<1>2. k \in Key /\ (Len(guard[r].keys) # 1 => Tail(guard[r].keys) \in KeyList)
  BY <1>1, KeyListTaken
<1>3. rest \in Plain \cup Entering /\ TooMany \in Plain
  BY <1>2 DEF Passed, Consuming, TooMany, Plain, Entering
<1>4. /\ count \in [Window -> [Key -> Nat]]
      /\ granted \in [Window -> [Key -> Nat]]
      /\ window \in Window /\ window' = window
      /\ granted[w][k] <= count[w][k]
      /\ Limit[k] \in Nat
  BY <1>1, <1>2, RateLimitAssumption DEF LimitInductive, LimitTypeOK, Covered
<1>5. count' = [count EXCEPT ![w][k] = n] /\ n = count[w][k] + 1
  BY DEF Counted, CounterOf
<1>6. \/ /\ n <= Limit[k]
         /\ guard' = [guard EXCEPT ![r] = rest]
         /\ granted' = [granted EXCEPT ![w][k] = @ + 1]
      \/ guard' = [guard EXCEPT ![r] = TooMany] /\ UNCHANGED granted
  <2>1. n > Limit[k] \/ n <= Limit[k]
    BY <1>4
  <2>2. CASE n > Limit[k]
    BY <2>2 DEF Counted, Guard
  <2>3. CASE ~(n > Limit[k])
    <3>1. Guard(r, rest) /\ granted' = [granted EXCEPT ![w][k] = @ + 1]
      BY <2>3 DEF Counted
    <3> QED BY <2>1, <2>3, <3>1 DEF Guard
  <2> QED BY <2>2, <2>3
<1> HIDE DEF w, k, rest
<1>7. count' \in [Window -> [Key -> Nat]]
  <2>1. [count[w] EXCEPT ![k] = n] \in [Key -> Nat]
    BY <1>1, <1>2, <1>4
  <2> QED BY <1>1, <1>4, <1>5, <2>1
<1>8. granted' \in [Window -> [Key -> Nat]]
  <2>1. granted[w][k] + 1 \in Nat /\ granted[w] \in [Key -> Nat]
    BY <1>1, <1>2, <1>4
  <2>2. [granted[w] EXCEPT ![k] = granted[w][k] + 1] \in [Key -> Nat]
    BY <2>1
  <2> QED BY <1>1, <1>4, <1>6, <2>2
<1>9. Covered'
  <2> SUFFICES ASSUME NEW v \in Window, NEW j \in Key PROVE granted'[v][j] <= count'[v][j]
    BY DEF Covered
  <2>1. granted[v][j] <= count[v][j] /\ granted[v][j] \in Nat /\ count[v][j] \in Nat
    BY <1>4 DEF LimitInductive, Covered
  <2>2. count'[v][j] = IF v = w /\ j = k THEN count[v][j] + 1 ELSE count[v][j]
    BY <1>1, <1>2, <1>4, <1>5
  <2>3. granted'[v][j] \in {granted[v][j], IF v = w /\ j = k THEN granted[v][j] + 1 ELSE granted[v][j]}
    BY <1>1, <1>2, <1>4, <1>6
  <2> QED BY <2>1, <2>2, <2>3
<1>10. GuardTyped'
  BY <1>3, <1>6 DEF LimitInductive, GuardTyped
<1>11. Kept
  <2>1. n <= Limit[k] => granted[w][k] < Limit[k]
    <3>1. granted[w][k] \in Nat /\ count[w][k] \in Nat
      BY <1>1, <1>2, <1>4
    <3> QED BY <1>4, <1>5, <3>1
  <2> QED BY <1>1, <1>2, <1>4, <1>6, <2>1 DEF Kept, Promise!QuotaNext, Promise!Grant
<1> QED BY <1>4, <1>7, <1>8, <1>9, <1>10, <1>11 DEF LimitInductive, LimitTypeOK

\* A step that moves one request and no counter.
LEMMA MovedKept ==
  ASSUME LimitInductive, NEW r \in Requests, NEW state \in Plain \cup Entering \cup Counting,
         guard' = [guard EXCEPT ![r] = state], UNCHANGED <<count, granted, window>>
  PROVE  LimitInductive' /\ Kept
<1>1. GuardTyped'
  BY DEF LimitInductive, GuardTyped
<1> QED BY <1>1 DEF LimitInductive, LimitTypeOK, Covered, Kept

\* The states of the guard, by their program counter.
LEMMA GuardHolds ==
  ASSUME LimitInductive, NEW r \in Requests
  PROVE  /\ guard[r].pc = "consume" => guard[r] \in Entering
         /\ guard[r].pc \in {"upsert", "insert", "retry"} => guard[r] \in Counting
BY DEF LimitInductive, GuardTyped, Plain, Entering, Counting

\* The counter a request is about to increment.
LEMMA CounterType ==
  ASSUME LimitInductive, NEW r \in Requests, guard[r] \in Counting
  PROVE  CounterOf(r) \in Nat
<1>1. guard[r].window \in Window /\ Head(guard[r].keys) \in Key
  BY KeyListTaken DEF Counting
<1> QED BY <1>1 DEF CounterOf, LimitInductive, LimitTypeOK

\* Every step of the guard keeps the quota.
LEMMA GuardStepKept ==
  ASSUME LimitInductive, NEW r \in Requests, GuardStep(r)
  PROVE  LimitInductive' /\ Kept
<1>1. CASE TakeWindow(r)
  <2> DEFINE state == [pc |-> "upsert", keys |-> guard[r].keys, window |-> window]
  <2>1. state \in Counting
    BY <1>1, GuardHolds DEF TakeWindow, Entering, Counting, LimitInductive, LimitTypeOK
  <2>2. guard' = [guard EXCEPT ![r] = state] /\ UNCHANGED <<count, granted, window>>
    BY <1>1 DEF TakeWindow, Guard
  <2> HIDE DEF state
  <2> QED BY <2>1, <2>2, MovedKept
<1>2. ASSUME Upsert(r) \/ Insert(r) \/ RetryIncrement(r)
      PROVE  LimitInductive' /\ Kept
  <2>1. guard[r] \in Counting /\ UNCHANGED window
    BY <1>2, GuardHolds DEF Upsert, Insert, RetryIncrement
  <2>2. CounterOf(r) \in Nat
    BY <2>1, CounterType
  <2>3. CASE Counted(r, CounterOf(r) + 1)
    BY <2>1, <2>2, <2>3, CountedKept
  <2>4. CASE Counted(r, 1) /\ CounterOf(r) = 0
    BY <2>1, <2>4, CountedKept
  <2>5. CASE \E pc \in {"insert", "retry"} :
               Guard(r, [guard[r] EXCEPT !.pc = pc]) /\ UNCHANGED <<count, granted>>
    <3>1. PICK pc \in {"insert", "retry"} :
            Guard(r, [guard[r] EXCEPT !.pc = pc]) /\ UNCHANGED <<count, granted>>
      BY <2>5
    <3>2. [guard[r] EXCEPT !.pc = pc] \in Counting
      BY <2>1 DEF Counting
    <3> QED BY <2>1, <3>1, <3>2, MovedKept DEF Guard
  <2>6. CASE Guard(r, Unavailable) /\ UNCHANGED <<count, granted>>
    <3>1. Unavailable \in Plain
      BY DEF Unavailable, Plain
    <3> QED BY <2>1, <2>6, <3>1, MovedKept DEF Guard
  <2> QED BY <1>2, <2>2, <2>3, <2>4, <2>5, <2>6 DEF Upsert, Insert, RetryIncrement
<1>3. CASE CounterFails(r)
  <2>1. Unavailable \in Plain
    BY DEF Unavailable, Plain
  <2> QED BY <1>3, <2>1, MovedKept DEF CounterFails, Guard
<1> QED BY <1>1, <1>2, <1>3 DEF GuardStep

\* A request enters the guard with its keys.
LEMMA EnterKept ==
  ASSUME LimitInductive, NEW r \in Requests, EnterGuard(r, KeysOfRequest[r])
  PROVE  LimitInductive' /\ Kept
<1>1. Consuming(KeysOfRequest[r]) \in Entering
  BY ServerlessAssumption DEF Consuming, Entering, KeyList
<1> QED BY <1>1, MovedKept DEF EnterGuard, Guard

\* Time passes, and counters of windows that are over are deleted.
LEMMA ClockKept ==
  ASSUME LimitInductive, NextWindow \/ DeleteCounter
  PROVE  LimitInductive' /\ Kept
<1>1. CASE NextWindow
  <2>1. window' \in Window /\ window' = window + 1
    BY <1>1, RateLimitAssumption DEF NextWindow, LimitInductive, LimitTypeOK, Window
  <2> QED BY <1>1, <2>1 DEF NextWindow, LimitInductive, LimitTypeOK, GuardTyped, Covered,
                            Kept, Promise!QuotaNext, Promise!NextWindow
<1>2. CASE DeleteCounter
  <2>1. PICK w \in Window, k \in Key :
          /\ w < window
          /\ count' = [count EXCEPT ![w][k] = 0]
          /\ granted' = [granted EXCEPT ![w][k] = 0]
    BY <1>2 DEF DeleteCounter
  <2>2. UNCHANGED <<window, guard>>
    BY <1>2 DEF DeleteCounter
  <2>3. LimitTypeOK'
    BY <2>1, <2>2 DEF LimitInductive, LimitTypeOK
  <2>4. Covered'
    BY <2>1 DEF LimitInductive, LimitTypeOK, Covered
  <2>5. Kept
    BY <2>1, <2>2 DEF Kept, Promise!QuotaNext, Promise!Forget
  <2> QED BY <2>2, <2>3, <2>4, <2>5 DEF LimitInductive, GuardTyped
<1> QED BY <1>1, <1>2

\* The rest of the deployment leaves the counters alone.
LEMMA StepKept == LimitInductive /\ [Next]_vars => LimitInductive' /\ Kept
<1> SUFFICES ASSUME LimitInductive, [Next]_vars PROVE LimitInductive' /\ Kept
  OBVIOUS
<1>1. CASE \E r \in Requests, i \in Instances : Consume(r, i)
  BY <1>1, GuardStepKept DEF Consume
<1>2. CASE \E r \in Requests, i \in Instances : Serve(r, i)
  BY <1>2, EnterKept DEF Serve
<1>3. CASE Clock
  BY <1>3, ClockKept DEF Clock
<1>4. CASE UNCHANGED limitVars
  BY <1>4 DEF limitVars, LimitInductive, LimitTypeOK, GuardTyped, Covered, Kept
<1> QED BY <1>1, <1>2, <1>3, <1>4
        DEF Next, vars, Build, CreateServer, Ready, BuildFails, Sync, Kill, Arrive, StartsBuild, WaitsFor,
            Reject, Import, RunPentanaIngestion

LEMMA InitKept == Init => LimitInductive /\ Promise!QuotaInit
BY RateLimitAssumption
   DEF Init, LimitInit, LimitInductive, LimitTypeOK, GuardTyped, Covered, Window, Outside, Plain,
       Promise!QuotaInit

LEMMA AlwaysLimit == Spec => []LimitInductive
<1>1. LimitInductive /\ [Next]_vars => LimitInductive'
  BY StepKept
<1> QED BY InitKept, <1>1, PTL DEF Spec

---------------------------------------------------------------------------
\* However the upserts of different instances race, and whatever the TTL index
\* deletes, the counters implement the quota.
THEOREM ImplementsQuota == Spec => QuotaKept
<1>1. LimitInductive /\ [Next]_vars => [Promise!QuotaNext]_<<granted, window>>
  BY StepKept DEF Kept
<1> QED BY InitKept, <1>1, AlwaysLimit, PTL DEF Spec, QuotaKept, Promise!QuotaSpec

---------------------------------------------------------------------------
\* Where a request can be.
Place == {NotSent, Rejected, Lost}
           \cup {Awaiting(i, n) : i \in Instances, n \in Nat} \cup {Serving(i) : i \in Instances}

\* What an instance keeps is the one build that has not failed, or nothing.
LiveIs(list, n) ==
  /\ n \in {None} \cup DOMAIN list
  /\ \A m \in DOMAIN list : list[m] # "rejected" <=> m = n

ServerTyped ==
  /\ promises \in [Instances -> Seq(Stage)]
  /\ cachedServer \in [Instances -> Nat]
  /\ \A i \in Instances : LiveIs(promises[i], cachedServer[i])
  /\ events \in 0 .. MaxEvents
  /\ waiting \in [Requests -> Place]

LEMMA InitServer == Init => ServerTyped
<1> SUFFICES ASSUME Init PROVE ServerTyped
  OBVIOUS
<1>1. << >> \in Seq(Stage) /\ DOMAIN << >> = {}
  OBVIOUS
<1>2. NotSent \in Place /\ 0 \in 0 .. MaxEvents /\ None \in Nat
  BY ServerlessAssumption DEF Place, None
<1> QED BY <1>1, <1>2 DEF Init, ServerTyped, LiveIs

\* A build goes on or fails, and with its failure it is kept no longer.
LEMMA BuildServer ==
  ASSUME ServerTyped, NEW i \in Instances, NEW n \in BuildsOf(i), NEW stage \in Stage,
         promises[i][n] # "rejected", Becomes(i, n, stage),
         cachedServer' = IF stage = "rejected" THEN [cachedServer EXCEPT ![i] = None] ELSE cachedServer,
         UNCHANGED <<waiting, events>>
  PROVE  ServerTyped'
<1> DEFINE list == [promises[i] EXCEPT ![n] = stage]
<1>1. promises[i] \in Seq(Stage) /\ n \in 1 .. Len(promises[i])
  BY DEF ServerTyped, BuildsOf
<1>2. list \in Seq(Stage) /\ DOMAIN list = DOMAIN promises[i]
  BY <1>1, ExceptSeq
<1>3. \A m \in DOMAIN list : list[m] = IF m = n THEN stage ELSE promises[i][m]
  BY <1>1, <1>2
<1>4. promises' = [promises EXCEPT ![i] = list]
  BY DEF Becomes
<1> HIDE DEF list
<1>5. promises' \in [Instances -> Seq(Stage)] /\ promises'[i] = list
      /\ \A j \in Instances : j # i => promises'[j] = promises[j]
  BY <1>2, <1>4 DEF ServerTyped
<1>6. cachedServer' \in [Instances -> Nat]
      /\ cachedServer'[i] = (IF stage = "rejected" THEN None ELSE cachedServer[i])
      /\ \A j \in Instances : j # i => cachedServer'[j] = cachedServer[j]
  BY DEF ServerTyped, None
<1>7. LiveIs(list, cachedServer'[i])
  <2>1. n = cachedServer[i] /\ LiveIs(promises[i], cachedServer[i]) /\ n # None
    BY <1>1 DEF ServerTyped, LiveIs, BuildsOf, None
  <2> QED BY <1>1, <1>2, <1>3, <1>6, <2>1 DEF LiveIs, None
<1>8. \A j \in Instances : LiveIs(promises'[j], cachedServer'[j])
  BY <1>5, <1>6, <1>7 DEF ServerTyped
<1> QED BY <1>5, <1>6, <1>8 DEF ServerTyped

\* A request starts a build only when no other lives.
LEMMA ArriveServer ==
  ASSUME ServerTyped, NEW r \in Requests, NEW i \in Instances, Arrive(r, i)
  PROVE  /\ ServerTyped'
         /\ \E n \in BuildsOf(i)' : waiting' = [waiting EXCEPT ![r] = Awaiting(i, n)]
                                   /\ promises'[i][n] # "rejected"
<1> DEFINE list == Append(promises[i], "creating")
           last == Len(promises[i]) + 1
<1>1. promises[i] \in Seq(Stage) /\ LiveIs(promises[i], cachedServer[i]) /\ cachedServer[i] \in Nat
  BY DEF ServerTyped
<1>2. CASE cachedServer[i] = None
  <2>1. /\ promises' = [promises EXCEPT ![i] = list]
        /\ cachedServer' = [cachedServer EXCEPT ![i] = last]
        /\ waiting' = [waiting EXCEPT ![r] = Awaiting(i, last)]
        /\ UNCHANGED events
    BY <1>2 DEF Arrive, StartsBuild, WaitsFor
  <2>2. /\ list \in Seq(Stage) /\ last \in Nat /\ last # None /\ last \in 1 .. last
        /\ DOMAIN list = 1 .. last /\ DOMAIN promises[i] = 1 .. last - 1
        /\ \A m \in 1 .. last : list[m] = IF m = last THEN "creating" ELSE promises[i][m]
    BY <1>1, AppendProperties DEF Stage, None
  <2> HIDE DEF list, last
  <2>3. LiveIs(list, last)
    BY <1>1, <1>2, <2>2 DEF LiveIs, None
  <2>4. /\ promises' \in [Instances -> Seq(Stage)] /\ promises'[i] = list
        /\ \A j \in Instances : j # i => promises'[j] = promises[j]
        /\ cachedServer' \in [Instances -> Nat] /\ cachedServer'[i] = last
        /\ \A j \in Instances : j # i => cachedServer'[j] = cachedServer[j]
    BY <2>1, <2>2 DEF ServerTyped
  <2>5. \A j \in Instances : LiveIs(promises'[j], cachedServer'[j])
    BY <2>3, <2>4 DEF ServerTyped
  <2>6. Awaiting(i, last) \in Place
    BY <2>2 DEF Place
  <2>7. waiting' \in [Requests -> Place] /\ events' \in 0 .. MaxEvents
    BY <2>1, <2>6 DEF ServerTyped
  <2>8. last \in BuildsOf(i)' /\ promises'[i][last] # "rejected"
    BY <2>2, <2>4 DEF BuildsOf
  <2> QED BY <2>1, <2>4, <2>5, <2>7, <2>8 DEF ServerTyped
<1>3. CASE cachedServer[i] # None
  <2> DEFINE n == cachedServer[i]
  <2>1. /\ n \in BuildsOf(i)' /\ promises'[i][n] # "rejected"
        /\ waiting' = [waiting EXCEPT ![r] = Awaiting(i, n)]
        /\ cachedServer' = [cachedServer EXCEPT ![i] = n]
        /\ UNCHANGED <<promises, events>>
    BY <1>1, <1>3 DEF Arrive, WaitsFor, LiveIs, BuildsOf
  <2>2. cachedServer' = cachedServer
    BY <2>1 DEF ServerTyped
  <2>3. Awaiting(i, n) \in Place
    BY <1>1 DEF Place
  <2>4. waiting' \in [Requests -> Place]
    BY <2>1, <2>3 DEF ServerTyped
  <2> HIDE DEF n
  <2> QED BY <2>1, <2>2, <2>4 DEF ServerTyped
<1> QED BY <1>2, <1>3

LEMMA KillServer ==
  ASSUME ServerTyped, NEW i \in Instances, Kill(i)
  PROVE  ServerTyped'
<1>1. /\ promises' = [promises EXCEPT ![i] = << >>]
      /\ cachedServer' = [cachedServer EXCEPT ![i] = None]
      /\ waiting' = [r \in Requests |-> IF At(r, i) THEN Lost ELSE waiting[r]]
      /\ events < MaxEvents /\ events' = events + 1
  BY DEF Kill, Event
<1>2. waiting' \in [Requests -> Place] /\ events' \in 0 .. MaxEvents
  <2>1. Lost \in Place
    BY DEF Place
  <2> QED BY <1>1, <2>1, ServerlessAssumption DEF ServerTyped
<1>3. << >> \in Seq(Stage) /\ LiveIs(<< >>, None)
  <2>1. << >> \in Seq(Stage) /\ DOMAIN << >> = {}
    OBVIOUS
  <2> QED BY <2>1 DEF LiveIs
<1>4. /\ promises' \in [Instances -> Seq(Stage)] /\ promises'[i] = << >>
      /\ \A j \in Instances : j # i => promises'[j] = promises[j]
      /\ cachedServer' \in [Instances -> Nat] /\ cachedServer'[i] = None
      /\ \A j \in Instances : j # i => cachedServer'[j] = cachedServer[j]
  BY <1>1, <1>3 DEF ServerTyped, None
<1>5. \A j \in Instances : LiveIs(promises'[j], cachedServer'[j])
  BY <1>3, <1>4 DEF ServerTyped
<1> QED BY <1>2, <1>4, <1>5 DEF ServerTyped

LEMMA StepServer == ServerTyped /\ [Next]_vars => ServerTyped'
<1> SUFFICES ASSUME ServerTyped, [Next]_vars PROVE ServerTyped'
  OBVIOUS
<1>1. ASSUME NEW i \in Instances, NEW n \in BuildsOf(i),
             CreateServer(i, n) \/ Ready(i, n) \/ BuildFails(i, n)
      PROVE  ServerTyped'
  <2>1. PICK stage \in Stage :
          /\ promises[i][n] # "rejected" /\ Becomes(i, n, stage)
          /\ cachedServer' = IF stage = "rejected" THEN [cachedServer EXCEPT ![i] = None] ELSE cachedServer
          /\ UNCHANGED <<waiting, events>>
    BY <1>1 DEF CreateServer, Ready, BuildFails, Stage
  <2> QED BY <2>1, BuildServer
<1>2. ASSUME UNCHANGED <<serverVars, waiting>>, events' \in 0 .. MaxEvents PROVE ServerTyped'
  BY <1>2 DEF ServerTyped, serverVars
<1>3. ASSUME Event PROVE events' \in 0 .. MaxEvents
  BY <1>3, ServerlessAssumption DEF Event, ServerTyped
<1>4. ASSUME NEW r \in Requests, NEW place \in Place, waiting' = [waiting EXCEPT ![r] = place],
             UNCHANGED <<serverVars, events>>
      PROVE  ServerTyped'
  BY <1>4 DEF ServerTyped, serverVars
<1>5. ASSUME NEW r \in Requests, NEW i \in Instances, Serve(r, i) PROVE ServerTyped'
  <2>1. Serving(i) \in Place
    BY DEF Place
  <2> QED BY <1>4, <1>5, <2>1 DEF Serve
<1>6. ASSUME NEW r \in Requests, Reject(r) PROVE ServerTyped'
  <2>1. Rejected \in Place
    BY DEF Place
  <2> QED BY <1>4, <1>6, <2>1 DEF Reject
<1>7. ASSUME NEW i \in Instances, Sync(i) PROVE ServerTyped'
  BY <1>2, <1>3, <1>7 DEF Sync
<1>8. ASSUME NEW m \in Importers, RunPentanaIngestion(m) PROVE ServerTyped'
  BY <1>2, <1>3, <1>8 DEF RunPentanaIngestion
<1>9. CASE UNCHANGED <<serverVars, waiting, events>>
  BY <1>9 DEF ServerTyped, serverVars
<1> QED BY <1>1, <1>5, <1>6, <1>7, <1>8, <1>9, ArriveServer, KillServer
        DEF Next, Build, vars, Consume, Import, Clock

LEMMA AlwaysServer == Spec => []ServerTyped
BY InitServer, StepServer, PTL DEF Spec

\* The counters, the builds of every instance and the events keep their type.
THEOREM TypeCorrect == Spec => []TypeOK
<1>1. LimitInductive /\ ServerTyped => TypeOK
  BY DEF LimitInductive, ServerTyped, TypeOK, LiveIs, BuildsOf
<1> QED BY AlwaysLimit, AlwaysServer, <1>1, PTL

\* However many requests meet a cold instance, and whatever fails or is killed: one
\* application an instance.
THEOREM OneIsEnough == Spec => []OneApplication
<1>1. ServerTyped => OneApplication
  BY DEF ServerTyped, LiveIs, BuildsOf, OneApplication
<1> QED BY AlwaysServer, <1>1, PTL

\* A request never comes to wait for a build that has failed: what an instance keeps
\* has not.
THEOREM FailureForgotten == Spec => FailureNotCached
<1>1. ServerTyped /\ [Next]_vars =>
        [\A r \in Requests : Refused(r)' => waiting'[r] = waiting[r]]_vars
  <2> SUFFICES ASSUME ServerTyped, Next, NEW r \in Requests, Refused(r)', waiting'[r] # waiting[r]
               PROVE  FALSE
    OBVIOUS
  <2>1. PICK j \in Instances : \E n \in BuildsOf(j)' :
          waiting'[r] = Awaiting(j, n) /\ promises'[j][n] = "rejected"
    BY DEF Refused
  <2> PICK n \in BuildsOf(j)' : waiting'[r] = Awaiting(j, n) /\ promises'[j][n] = "rejected"
    BY <2>1
  <2>2. ASSUME NEW i \in Instances, NEW s \in Requests, Arrive(s, i) PROVE FALSE
    <3>1. PICK m \in BuildsOf(i)' : /\ waiting' = [waiting EXCEPT ![s] = Awaiting(i, m)]
                                    /\ promises'[i][m] # "rejected"
      BY <2>2, ArriveServer
    <3>2. s = r /\ Awaiting(i, m) = Awaiting(j, n)
      BY <2>1, <3>1 DEF ServerTyped
    <3>3. i = j /\ m = n
      BY <3>2 DEF Awaiting
    <3> QED BY <2>1, <3>1, <3>3
  <2>3. ASSUME NEW i \in Instances, NEW s \in Requests, Serve(s, i) PROVE FALSE
    BY <2>3 DEF Serve, ServerTyped, Awaiting, Serving
  <2>4. ASSUME NEW s \in Requests, Reject(s) PROVE FALSE
    BY <2>1, <2>4 DEF Reject, ServerTyped, Awaiting, Rejected
  <2>5. ASSUME NEW i \in Instances, Kill(i) PROVE FALSE
    BY <2>1, <2>5 DEF Kill, ServerTyped, Awaiting, Lost
  <2>6. waiting' # waiting
    OBVIOUS
  <2> QED BY <2>2, <2>3, <2>4, <2>5, <2>6
          DEF Next, Build, CreateServer, Ready, BuildFails, Sync, Consume, Import, RunPentanaIngestion, Clock
<1> QED BY AlwaysServer, <1>1, PTL DEF Spec, FailureNotCached

---------------------------------------------------------------------------
(* The keys of a Map. KeysOf folds over the positions of a list, the last  *)
(* first, by a function on sets of positions.                              *)

\* One key more.
WithKey(keys, id) == IF Contains(keys, id) THEN keys ELSE Append(keys, id)

\* What the function says of the positions s, from what it says of all but the last.
Filled(f, ids, s) == IF s = {} THEN << >> ELSE WithKey(f[s \ {Max(s)}], ids[Max(s)])
Fills(f, ids) == f = [s \in SUBSET DOMAIN ids |-> Filled(f, ids, s)]

\* A bounded set of numbers has its least bound in it.
LEMMA LastPosition ==
  ASSUME NEW n \in Nat, NEW s \in SUBSET (1 .. n), s # {}
  PROVE  /\ Max(s) \in s
         /\ s \ {Max(s)} \in SUBSET (1 .. n)
         /\ Cardinality(s) \in Nat /\ Cardinality(s) # 0
         /\ Cardinality(s \ {Max(s)}) = Cardinality(s) - 1
<1> DEFINE Bounds == {m \in Nat : \A i \in s : i <= m}
<1>1. n \in Bounds
  OBVIOUS
<1>2. PICK m \in Bounds : \A k \in Bounds : ~(k < m)
  BY <1>1, LeastNatural
<1>3. m \in s
  <2> SUFFICES ASSUME m \notin s PROVE FALSE
    OBVIOUS
  <2>1. PICK i \in s : TRUE
    OBVIOUS
  <2>2. i \in Nat /\ i # m /\ i <= m /\ i >= 1
    BY <1>2, <2>1
  <2>3. m - 1 \in Bounds
    BY <1>2, <2>2
  <2> QED BY <1>2, <2>2, <2>3
<1>4. \A i \in s : m >= i
  BY <1>2, <1>3
<1>5. Max(s) \in s
  BY <1>3, <1>4 DEF Max
<1>6. IsFiniteSet(s) /\ Cardinality(s) \in Nat /\ Cardinality(s) # 0
  <2>1. IsFiniteSet(1 .. n)
    BY FS_Interval
  <2> QED BY <2>1, FS_Subset, FS_CardinalityType, FS_EmptySet
<1>7. Cardinality(s \ {Max(s)}) = Cardinality(s) - 1
  BY <1>5, <1>6, FS_RemoveElement
<1> QED BY <1>5, <1>6, <1>7

LEMMA SetsOfPositions ==
  ASSUME NEW n \in Nat
  PROVE  /\ \A s \in SUBSET (1 .. n) : Cardinality(s) \in 0 .. n /\ (Cardinality(s) = 0 <=> s = {})
         /\ Cardinality(1 .. n) = n
<1>1. IsFiniteSet(1 .. n) /\ Cardinality(1 .. n) = n
  BY FS_Interval
<1>2. ASSUME NEW s \in SUBSET (1 .. n)
      PROVE  Cardinality(s) \in 0 .. n /\ (Cardinality(s) = 0 <=> s = {})
  <2>1. IsFiniteSet(s) /\ Cardinality(s) <= n
    BY <1>1, FS_Subset
  <2>2. Cardinality(s) \in Nat /\ (Cardinality(s) = 0 <=> s = {})
    BY <2>1, FS_CardinalityType, FS_EmptySet
  <2> QED BY <2>1, <2>2
<1> QED BY <1>1, <1>2

\* The function there is to be one exists, built up over the number of positions.
LEMMA FillExists ==
  ASSUME NEW E, NEW ids \in Seq(E)
  PROVE  \E f : Fills(f, ids)
<1> DEFINE n == Len(ids)
           Right(f, k) == \A s \in SUBSET (1 .. n) : Cardinality(s) <= k => f[s] = Filled(f, ids, s)
           T == {k \in Nat : \E f : Right(f, k)}
<1>1. n \in Nat /\ DOMAIN ids = 1 .. n
  BY LenProperties
<1> HIDE DEF n
<1>2. \A s \in SUBSET (1 .. n) : Cardinality(s) \in 0 .. n /\ (Cardinality(s) = 0 <=> s = {})
  BY <1>1, SetsOfPositions
<1>3. 0 \in T
  <2> DEFINE f == [s \in SUBSET (1 .. n) |-> << >>]
  <2>1. Right(f, 0)
    BY <1>1, <1>2 DEF Filled
  <2> QED BY <2>1
<1>4. ASSUME NEW k \in Nat, k \in T PROVE k + 1 \in T
  <2>1. PICK f : Right(f, k)
    BY <1>4
  <2> DEFINE g == [s \in SUBSET (1 .. n) |-> Filled(f, ids, s)]
  <2>2. ASSUME NEW s \in SUBSET (1 .. n), Cardinality(s) <= k + 1
        PROVE  g[s] = Filled(g, ids, s)
    <3>1. CASE s = {}
      BY <3>1 DEF Filled
    <3>2. CASE s # {}
      <4> DEFINE rest == s \ {Max(s)}
      <4>1. rest \in SUBSET (1 .. n) /\ Cardinality(rest) <= k
        BY <1>1, <2>2, <3>2, LastPosition
      <4>2. f[rest] = g[rest]
        BY <2>1, <4>1
      <4> HIDE DEF g
      <4>3. Filled(f, ids, s) = Filled(g, ids, s)
        BY <3>2, <4>2 DEF Filled
      <4> QED BY <4>3 DEF g
    <3> QED BY <3>1, <3>2
  <2> HIDE DEF g
  <2>3. Right(g, k + 1)
    BY <2>2
  <2> QED BY <2>3
<1> HIDE DEF T
<1>5. n \in T
  <2>1. T \in SUBSET Nat
    BY DEF T
  <2> QED BY <1>1, <1>3, <1>4, <2>1, Induction
<1>6. PICK f : Right(f, n)
  BY <1>5 DEF T
<1> DEFINE g == [s \in SUBSET (1 .. n) |-> f[s]]
<1>7. \A s \in SUBSET (1 .. n) : f[s] = Filled(f, ids, s)
  BY <1>1, <1>2, <1>6
<1>8. ASSUME NEW s \in SUBSET (1 .. n) PROVE g[s] = Filled(g, ids, s)
  <2>1. CASE s = {}
    BY <1>7, <2>1 DEF Filled
  <2>2. CASE s # {}
    <3>1. s \ {Max(s)} \in SUBSET (1 .. n)
      OBVIOUS
    <3>2. f[s \ {Max(s)}] = g[s \ {Max(s)}]
      BY <3>1
    <3> HIDE DEF g
    <3>3. Filled(f, ids, s) = Filled(g, ids, s)
      BY <2>2, <3>2 DEF Filled
    <3> QED BY <1>7, <3>3 DEF g
  <2> QED BY <2>1, <2>2
<1>9. DOMAIN g = SUBSET (1 .. n)
  OBVIOUS
<1>9a. g = [s \in DOMAIN g |-> g[s]]
  OBVIOUS
<1> HIDE DEF g
<1>10. g = [s \in SUBSET (1 .. n) |-> Filled(g, ids, s)]
  BY <1>8, <1>9, <1>9a
<1> QED BY <1>1, <1>10 DEF Fills

\* What it says of some positions: their elements, each once or more.
LEMMA FilledRight ==
  ASSUME NEW E, NEW ids \in Seq(E), NEW f, Fills(f, ids)
  PROVE  f[DOMAIN ids] \in Seq(E) /\ ToSet(f[DOMAIN ids]) = ToSet(ids)
<1> DEFINE n == Len(ids)
           Good(s) == f[s] \in Seq(E) /\ ToSet(f[s]) = {ids[i] : i \in s}
           T == {k \in Nat : \A s \in SUBSET (1 .. n) : Cardinality(s) = k => Good(s)}
<1>1. n \in Nat /\ DOMAIN ids = 1 .. n /\ \A i \in 1 .. n : ids[i] \in E
  BY LenProperties, ElementOfSeq
<1> HIDE DEF n
<1>2. \A s \in SUBSET (1 .. n) : Cardinality(s) \in 0 .. n /\ (Cardinality(s) = 0 <=> s = {})
  BY <1>1, SetsOfPositions
<1>3. \A s \in SUBSET (1 .. n) : f[s] = Filled(f, ids, s)
  BY <1>1 DEF Fills
<1>4. 0 \in T
  <2>1. f[{}] = << >>
    BY <1>3 DEF Filled
  <2>2. ToSet(<< >>) = {} /\ << >> \in Seq(E)
    BY EmptySeq DEF ToSet
  <2> QED BY <1>2, <2>1, <2>2
<1>5. ASSUME NEW k \in Nat, k \in T PROVE k + 1 \in T
  <2> HIDE DEF Good
  <2> SUFFICES ASSUME NEW s \in SUBSET (1 .. n), Cardinality(s) = k + 1 PROVE Good(s)
    OBVIOUS
  <2> USE DEF Good
  <2>1. s # {}
    BY <1>2
  <2> DEFINE rest == s \ {Max(s)}
             id == ids[Max(s)]
  <2>2. Max(s) \in s /\ rest \in SUBSET (1 .. n) /\ Cardinality(rest) = k
    BY <1>1, <2>1, LastPosition
  <2>3. Good(rest)
    BY <1>5, <2>2
  <2>4. f[s] = WithKey(f[rest], id) /\ id \in E
    BY <1>1, <1>3, <2>1, <2>2 DEF Filled
  <2>5. {ids[i] : i \in s} = {ids[i] : i \in rest} \cup {id}
    BY <2>2
  <2> HIDE DEF rest, id
  <2>6. CASE Contains(f[rest], id)
    <3>1. id \in ToSet(f[rest])
      BY <2>3, <2>6, LenProperties DEF Contains, ToSet
    <3> QED BY <2>3, <2>4, <2>5, <2>6, <3>1 DEF WithKey
  <2>7. CASE ~Contains(f[rest], id)
    <3>1. f[s] = Append(f[rest], id)
      BY <2>4, <2>7 DEF WithKey
    <3>2. f[s] \in Seq(E) /\ ToSet(f[s]) = ToSet(f[rest]) \cup {id}
      <4>1. /\ f[s] \in Seq(E) /\ Len(f[rest]) \in Nat
            /\ DOMAIN f[rest] = 1 .. Len(f[rest]) /\ DOMAIN f[s] = 1 .. Len(f[rest]) + 1
            /\ \A i \in 1 .. Len(f[rest]) : f[s][i] = f[rest][i]
            /\ f[s][Len(f[rest]) + 1] = id
        BY <2>3, <2>4, <3>1, AppendProperties, LenProperties
      <4>2. 1 .. Len(f[rest]) + 1 = (1 .. Len(f[rest])) \cup {Len(f[rest]) + 1}
        BY <4>1
      <4>3. ToSet(f[s]) = {f[s][i] : i \in 1 .. Len(f[rest]) + 1}
        BY <4>1 DEF ToSet
      <4>4. ToSet(f[rest]) = {f[rest][i] : i \in 1 .. Len(f[rest])}
        BY <4>1 DEF ToSet
      <4>5. {f[s][i] : i \in 1 .. Len(f[rest])} = {f[rest][i] : i \in 1 .. Len(f[rest])}
        BY <4>1
      <4>6. {f[s][i] : i \in 1 .. Len(f[rest]) + 1}
              = {f[s][i] : i \in 1 .. Len(f[rest])} \cup {f[s][Len(f[rest]) + 1]}
        BY <4>2
      <4> QED BY <4>1, <4>3, <4>4, <4>5, <4>6
    <3> QED BY <2>3, <2>5, <3>2
  <2> QED BY <2>6, <2>7
<1> HIDE DEF T
<1>6. n \in T
  <2>1. T \in SUBSET Nat
    BY DEF T
  <2> QED BY <1>1, <1>4, <1>5, <2>1, Induction
<1>7. Good(1 .. n)
  BY <1>1, <1>6, SetsOfPositions DEF T
<1> QED BY <1>1, <1>7 DEF ToSet

\* The keys of a Map are what was set in it.
LEMMA KeysAreElements ==
  ASSUME NEW E, NEW ids \in Seq(E)
  PROVE  KeysOf(ids) \in Seq(E) /\ ToSet(KeysOf(ids)) = ToSet(ids)
<1> DEFINE chosen == CHOOSE f : Fills(f, ids)
<1>1. KeysOf(ids) = chosen[DOMAIN ids]
  BY DEF KeysOf, FoldLeft, MapThenFoldSet, Fills, Filled, WithKey
<1>2. Fills(chosen, ids)
  BY FillExists
<1> HIDE DEF chosen
<1> QED BY <1>1, <1>2, FilledRight

---------------------------------------------------------------------------
(* The upserts of an import. *)

Steps == 1 .. Len(Upserts)

\* The documents of one collection, in order.
Docs(to, ids) == [i \in DOMAIN ids |-> [to |-> to, id |-> ids[i]]]

ListsDocs(docs, to, ids) ==
  /\ docs \in Seq([to : {to}, id : ToSet(ids)]) /\ Len(docs) = Len(ids)
  /\ \A i \in 1 .. Len(ids) : docs[i] = [to |-> to, id |-> ids[i]]

LEMMA FunctionIsList ==
  ASSUME NEW S, NEW n \in Nat, NEW f \in [1 .. n -> S]
  PROVE  f \in Seq(S) /\ Len(f) = n
<1>1. f \in Seq(S)
  BY SeqDef
<1>2. Len(f) \in Nat /\ 1 .. Len(f) = 1 .. n
  BY <1>1, LenProperties
<1> QED BY <1>1, <1>2

LEMMA DocsListed ==
  ASSUME NEW ids, ids \in Seq(ToSet(ids)), NEW to
  PROVE  ListsDocs(Docs(to, ids), to, ids)
<1>1. Len(ids) \in Nat /\ DOMAIN ids = 1 .. Len(ids)
  BY LenProperties
<1>2. \A i \in 1 .. Len(ids) : [to |-> to, id |-> ids[i]] \in [to : {to}, id : ToSet(ids)]
  BY <1>1 DEF ToSet
<1>3. Docs(to, ids) \in [1 .. Len(ids) -> [to : {to}, id : ToSet(ids)]]
  BY <1>1, <1>2 DEF Docs
<1>4. Docs(to, ids) \in Seq([to : {to}, id : ToSet(ids)]) /\ Len(Docs(to, ids)) = Len(ids)
  BY <1>1, <1>3, FunctionIsList
<1>5. \A i \in 1 .. Len(ids) : Docs(to, ids)[i] = [to |-> to, id |-> ids[i]]
  BY <1>1 DEF Docs
<1> QED BY <1>4, <1>5 DEF ListsDocs

LEMMA SetOfConcatenation ==
  ASSUME NEW E, NEW s \in Seq(E), NEW t \in Seq(E)
  PROVE  s \o t \in Seq(E) /\ ToSet(s \o t) = ToSet(s) \cup ToSet(t)
<1>1. /\ s \o t \in Seq(E) /\ Len(s \o t) = Len(s) + Len(t)
      /\ \A i \in 1 .. Len(s) + Len(t) : (s \o t)[i] = IF i <= Len(s) THEN s[i] ELSE t[i - Len(s)]
  BY ConcatProperties
<1>2. /\ Len(s) \in Nat /\ Len(t) \in Nat /\ DOMAIN s = 1 .. Len(s) /\ DOMAIN t = 1 .. Len(t)
      /\ DOMAIN (s \o t) = 1 .. Len(s) + Len(t)
  BY <1>1, LenProperties
<1>3. ToSet(s \o t) \subseteq ToSet(s) \cup ToSet(t)
  <2> SUFFICES ASSUME NEW i \in 1 .. Len(s) + Len(t) PROVE (s \o t)[i] \in ToSet(s) \cup ToSet(t)
    BY <1>2 DEF ToSet
  <2>1. CASE i <= Len(s)
    <3>1. i \in DOMAIN s /\ (s \o t)[i] = s[i]
      BY <1>1, <1>2, <2>1
    <3> QED BY <3>1 DEF ToSet
  <2>2. CASE ~(i <= Len(s))
    <3>1. i - Len(s) \in DOMAIN t /\ (s \o t)[i] = t[i - Len(s)]
      BY <1>1, <1>2, <2>2
    <3> QED BY <3>1 DEF ToSet
  <2> QED BY <2>1, <2>2
<1>4. ToSet(s) \subseteq ToSet(s \o t)
  <2> SUFFICES ASSUME NEW i \in DOMAIN s PROVE s[i] \in ToSet(s \o t)
    BY DEF ToSet
  <2>1. i \in DOMAIN (s \o t) /\ (s \o t)[i] = s[i]
    BY <1>1, <1>2
  <2> QED BY <2>1 DEF ToSet
<1>5. ToSet(t) \subseteq ToSet(s \o t)
  <2> SUFFICES ASSUME NEW i \in DOMAIN t PROVE t[i] \in ToSet(s \o t)
    BY DEF ToSet
  <2>1. i + Len(s) \in DOMAIN (s \o t) /\ (s \o t)[i + Len(s)] = t[i]
    BY <1>1, <1>2
  <2> QED BY <2>1 DEF ToSet
<1> QED BY <1>1, <1>3, <1>4, <1>5

\* A larger set to take a list from.
LEMMA ListOfMore ==
  ASSUME NEW E, NEW s \in Seq(E), NEW F, ToSet(s) \subseteq F
  PROVE  s \in Seq(F)
<1>1. Len(s) \in Nat /\ s \in [1 .. Len(s) -> E] /\ DOMAIN s = 1 .. Len(s)
  BY LenProperties
<1>2. s \in [1 .. Len(s) -> F]
  BY <1>1 DEF ToSet
<1> QED BY <1>1, <1>2, SeqDef

LEMMA ContainsInSet ==
  ASSUME NEW E, NEW s \in Seq(E), NEW e
  PROVE  Contains(s, e) <=> e \in ToSet(s)
BY LenProperties DEF Contains, ToSet

\* What the two bundles together name.
LEMMA KeysOfBundles ==
  /\ AccountIds \in Seq(ToSet(AccountIds)) /\ EntityIds \in Seq(ToSet(EntityIds))
  /\ Observed \in Seq(ToSet(Observed))
  /\ ToSet(AccountIds) = ToSet(BaseAccounts) \cup ToSet(Expansion(MoreAccounts))
  /\ ToSet(AccountIds) \subseteq ToSet(BaseAccounts \o MoreAccounts)
  /\ ToSet(EntityIds) = ToSet(BaseEntities) \cup ToSet(Expansion(Searched)) \cup ToSet(Expansion(Contacts))
  /\ ToSet(EntityIds) \subseteq ToSet(BaseEntities \o Searched \o Contacts)
  /\ ToSet(AccountIds) # {}
  /\ BaseEntities \o Expansion(Contacts) \in Seq(ToSet(BaseEntities \o Expansion(Contacts)))
  /\ ToSet(BaseEntities \o Expansion(Contacts)) = ToSet(BaseEntities) \cup ToSet(Expansion(Contacts))
<1> DEFINE Files == {BaseAccounts, BaseEntities, Observed, MoreAccounts, Searched, Contacts}
           E == UNION {ToSet(file) : file \in Files}
<1>1. ASSUME NEW file \in Files
      PROVE  file \in Seq(E) /\ Expansion(file) \in Seq(E) /\ ToSet(Expansion(file)) \subseteq ToSet(file)
  <2>1. file \in Seq(ToSet(file)) /\ ToSet(file) \subseteq E
    BY PentanaAssumption
  <2>2. file \in Seq(E)
    BY <2>1, ListOfMore
  <2>3. << >> \in Seq(E) /\ ToSet(<< >>) = {}
    BY EmptySeq DEF ToSet
  <2> QED BY <2>2, <2>3 DEF Expansion
<1>2. /\ BaseAccounts \in Seq(E) /\ Expansion(MoreAccounts) \in Seq(E) /\ MoreAccounts \in Seq(E)
      /\ BaseEntities \in Seq(E) /\ Expansion(Searched) \in Seq(E) /\ Searched \in Seq(E)
      /\ Expansion(Contacts) \in Seq(E) /\ Contacts \in Seq(E) /\ Observed \in Seq(E)
      /\ ToSet(Expansion(MoreAccounts)) \subseteq ToSet(MoreAccounts)
      /\ ToSet(Expansion(Searched)) \subseteq ToSet(Searched)
      /\ ToSet(Expansion(Contacts)) \subseteq ToSet(Contacts)
  BY <1>1
<1> HIDE DEF E, Files
<1>2a. \A s, t \in Seq(E) : s \o t \in Seq(E) /\ ToSet(s \o t) = ToSet(s) \cup ToSet(t)
  BY SetOfConcatenation
<1>2b. \A s \in Seq(E) : KeysOf(s) \in Seq(E) /\ ToSet(KeysOf(s)) = ToSet(s)
  BY KeysAreElements
<1>3. /\ AccountIds \in Seq(E)
      /\ ToSet(AccountIds) = ToSet(BaseAccounts) \cup ToSet(Expansion(MoreAccounts))
      /\ ToSet(BaseAccounts \o MoreAccounts) = ToSet(BaseAccounts) \cup ToSet(MoreAccounts)
  <2>1. /\ BaseAccounts \o Expansion(MoreAccounts) \in Seq(E)
        /\ ToSet(BaseAccounts \o Expansion(MoreAccounts))
             = ToSet(BaseAccounts) \cup ToSet(Expansion(MoreAccounts))
    BY <1>2, <1>2a
  <2>2. ToSet(BaseAccounts \o MoreAccounts) = ToSet(BaseAccounts) \cup ToSet(MoreAccounts)
    BY <1>2, <1>2a
  <2>3. /\ AccountIds \in Seq(E)
        /\ ToSet(AccountIds) = ToSet(BaseAccounts \o Expansion(MoreAccounts))
    BY <2>1, <1>2b DEF AccountIds
  <2> QED BY <2>1, <2>2, <2>3
<1>4. /\ EntityIds \in Seq(E)
      /\ ToSet(EntityIds) = ToSet(BaseEntities) \cup ToSet(Expansion(Searched)) \cup ToSet(Expansion(Contacts))
  <2> DEFINE found == BaseEntities \o Expansion(Searched)
  <2>1. found \in Seq(E) /\ ToSet(found) = ToSet(BaseEntities) \cup ToSet(Expansion(Searched))
    BY <1>2, <1>2a
  <2>2. EntityIds = KeysOf(found \o Expansion(Contacts))
    BY DEF EntityIds
  <2> HIDE DEF found
  <2>3. /\ found \o Expansion(Contacts) \in Seq(E)
        /\ ToSet(found \o Expansion(Contacts)) = ToSet(found) \cup ToSet(Expansion(Contacts))
    BY <1>2, <1>2a, <2>1
  <2>4. EntityIds \in Seq(E) /\ ToSet(EntityIds) = ToSet(found \o Expansion(Contacts))
    BY <1>2b, <2>2, <2>3
  <2> QED BY <2>1, <2>3, <2>4
<1>5. ToSet(BaseEntities \o Searched \o Contacts)
        = ToSet(BaseEntities) \cup ToSet(Searched) \cup ToSet(Contacts)
  <2> DEFINE found == BaseEntities \o Searched
  <2>1. found \in Seq(E) /\ ToSet(found) = ToSet(BaseEntities) \cup ToSet(Searched)
    BY <1>2, <1>2a
  <2> HIDE DEF found
  <2>2. ToSet(found \o Contacts) = ToSet(found) \cup ToSet(Contacts)
    BY <1>2, <1>2a, <2>1
  <2> QED BY <2>1, <2>2 DEF found
<1>6. /\ BaseEntities \o Expansion(Contacts) \in Seq(E)
      /\ ToSet(BaseEntities \o Expansion(Contacts)) = ToSet(BaseEntities) \cup ToSet(Expansion(Contacts))
  BY <1>2, SetOfConcatenation
<1>7. ToSet(BaseAccounts) # {}
  <2>1. Len(BaseAccounts) \in Nat /\ DOMAIN BaseAccounts = 1 .. Len(BaseAccounts) /\ Len(BaseAccounts) # 0
    BY <1>2, LenProperties, EmptySeq, PentanaAssumption
  <2>2. BaseAccounts[1] \in ToSet(BaseAccounts)
    BY <2>1 DEF ToSet
  <2> QED BY <2>2
<1>8. /\ AccountIds \in Seq(ToSet(AccountIds)) /\ EntityIds \in Seq(ToSet(EntityIds))
      /\ BaseEntities \o Expansion(Contacts) \in Seq(ToSet(BaseEntities \o Expansion(Contacts)))
  BY <1>3, <1>4, <1>6, ListOfMore
<1>9. Observed \in Seq(ToSet(Observed))
  BY PentanaAssumption
<1> QED BY <1>2, <1>3, <1>4, <1>5, <1>6, <1>7, <1>8, <1>9

\* Every document to be stored is an upsert, an entity after all accounts, and
\* nothing else is.
LEMMA UpsertsListed ==
  /\ Len(Upserts) \in Nat \ {0}
  /\ \A i \in Steps :
       \/ Upserts[i] \in [to : {"accounts"}, id : ToSet(AccountIds)]
       \/ Upserts[i] \in [to : {"entities"}, id : ToSet(EntityIds)]
       \/ Upserts[i] \in [to : {"parts"}, id : ToSet(Observed)]
  /\ \A id \in ToSet(AccountIds) : \E i \in Steps :
       /\ Upserts[i] = [to |-> "accounts", id |-> id]
       /\ \A j \in Steps : Upserts[j].to = "entities" => i < j
  /\ \A id \in ToSet(EntityIds) : \E i \in Steps : Upserts[i] = [to |-> "entities", id |-> id]
  /\ \A id \in ToSet(Observed) : \E i \in Steps : Upserts[i] = [to |-> "parts", id |-> id]
<1>0. /\ ListsDocs(Docs("accounts", AccountIds), "accounts", AccountIds)
      /\ ListsDocs(Docs("entities", EntityIds), "entities", EntityIds)
      /\ ListsDocs(Docs("parts", Observed), "parts", Observed)
  <2>1. /\ AccountIds \in Seq(ToSet(AccountIds)) /\ EntityIds \in Seq(ToSet(EntityIds))
        /\ Observed \in Seq(ToSet(Observed))
    BY KeysOfBundles
  <2> QED BY <2>1, DocsListed
<1> DEFINE A == Docs("accounts", AccountIds)
           B == Docs("entities", EntityIds)
           C == Docs("parts", Observed)
           Doc == [to : {"accounts"}, id : ToSet(AccountIds)]
                    \cup [to : {"entities"}, id : ToSet(EntityIds)]
                    \cup [to : {"parts"}, id : ToSet(Observed)]
           a == Len(AccountIds)
           b == Len(EntityIds)
           c == Len(Observed)
<1>1. Upserts = A \o B \o C
  BY DEF Upserts, Docs
<1>2. /\ A \in Seq([to : {"accounts"}, id : ToSet(AccountIds)]) /\ Len(A) = a
      /\ \A i \in 1 .. a : A[i] = [to |-> "accounts", id |-> AccountIds[i]]
  BY <1>0 DEF ListsDocs
<1>3. /\ B \in Seq([to : {"entities"}, id : ToSet(EntityIds)]) /\ Len(B) = b
      /\ \A i \in 1 .. b : B[i] = [to |-> "entities", id |-> EntityIds[i]]
  BY <1>0 DEF ListsDocs
<1>4. /\ C \in Seq([to : {"parts"}, id : ToSet(Observed)]) /\ Len(C) = c
      /\ \A i \in 1 .. c : C[i] = [to |-> "parts", id |-> Observed[i]]
  BY <1>0 DEF ListsDocs
<1>5. /\ a \in Nat /\ DOMAIN AccountIds = 1 .. a /\ b \in Nat /\ DOMAIN EntityIds = 1 .. b
      /\ c \in Nat /\ DOMAIN Observed = 1 .. c
  BY KeysOfBundles, LenProperties
<1>6. a # 0
  BY <1>5, KeysOfBundles DEF ToSet
<1> HIDE DEF A, B, C, a, b, c
<1>7. A \in Seq(Doc) /\ B \in Seq(Doc) /\ C \in Seq(Doc)
  <2>1. ASSUME NEW s, NEW D \in SUBSET Doc, s \in Seq(D) PROVE s \in Seq(Doc)
    <3>1. Len(s) \in Nat /\ s \in [1 .. Len(s) -> D]
      BY <2>1, LenProperties
    <3> HIDE DEF Doc
    <3> QED BY <3>1, SeqDef
  <2> QED BY <1>2, <1>3, <1>4, <2>1
<1> HIDE DEF Doc
<1> DEFINE AB == A \o B
<1>8. /\ AB \in Seq(Doc) /\ Len(AB) = a + b
      /\ \A i \in 1 .. a + b : AB[i] = IF i <= a THEN A[i] ELSE B[i - a]
  <2>1. /\ AB \in Seq(Doc) /\ Len(AB) = Len(A) + Len(B)
        /\ \A i \in 1 .. Len(A) + Len(B) : AB[i] = IF i <= Len(A) THEN A[i] ELSE B[i - Len(A)]
    BY <1>7, ConcatProperties
  <2> HIDE DEF AB
  <2> QED BY <1>2, <1>3, <2>1
<1>8a. Upserts = AB \o C
  BY <1>1
<1> HIDE DEF AB
<1>9. /\ Upserts \in Seq(Doc) /\ Len(Upserts) = a + b + c
      /\ \A i \in 1 .. a + b + c : Upserts[i] = IF i <= a + b THEN AB[i] ELSE C[i - (a + b)]
  <2>1. /\ AB \o C \in Seq(Doc) /\ Len(AB \o C) = Len(AB) + Len(C)
        /\ \A i \in 1 .. Len(AB) + Len(C) :
             (AB \o C)[i] = IF i <= Len(AB) THEN AB[i] ELSE C[i - Len(AB)]
    BY <1>7, <1>8, ConcatProperties
  <2> QED BY <1>4, <1>8, <1>8a, <2>1
<1>10. Len(Upserts) \in Nat \ {0} /\ Steps = 1 .. a + b + c
  BY <1>5, <1>6, <1>9 DEF Steps
<1>11. \A i \in 1 .. a : i \in Steps /\ Upserts[i] = [to |-> "accounts", id |-> AccountIds[i]]
  BY <1>2, <1>5, <1>8, <1>9, <1>10
<1>12. ASSUME NEW i \in 1 .. b
       PROVE  a + i \in Steps /\ Upserts[a + i] = [to |-> "entities", id |-> EntityIds[i]]
  <2>1. a + i \in 1 .. a + b /\ ~(a + i <= a) /\ (a + i) - a = i
    BY <1>5
  <2>2. a + i \in 1 .. a + b + c /\ a + i <= a + b
    BY <1>5, <2>1
  <2> QED BY <1>3, <1>8, <1>9, <1>10, <2>1, <2>2
<1>13. ASSUME NEW i \in 1 .. c
       PROVE  a + b + i \in Steps /\ Upserts[a + b + i] = [to |-> "parts", id |-> Observed[i]]
  <2>1. a + b + i \in 1 .. a + b + c /\ ~(a + b + i <= a + b) /\ (a + b + i) - (a + b) = i
    BY <1>5
  <2> QED BY <1>4, <1>9, <1>10, <2>1
<1>14. ASSUME NEW i \in Steps
       PROVE  \/ i \in 1 .. a
              \/ \E j \in 1 .. b : i = a + j
              \/ \E j \in 1 .. c : i = a + b + j
  <2>1. i \in 1 .. a + b + c
    BY <1>10
  <2>2. CASE i <= a
    BY <1>5, <2>1, <2>2
  <2>3. CASE i > a /\ i <= a + b
    <3>1. i - a \in 1 .. b /\ i = a + (i - a)
      BY <1>5, <2>1, <2>3
    <3> QED BY <3>1
  <2>4. CASE i > a + b
    <3>1. i - (a + b) \in 1 .. c /\ i = a + b + (i - (a + b))
      BY <1>5, <2>1, <2>4
    <3> QED BY <3>1
  <2> QED BY <1>5, <2>1, <2>2, <2>3, <2>4
<1>15. \A i \in 1 .. a : \A j \in Steps : Upserts[j].to = "entities" => i < j
  <2> SUFFICES ASSUME NEW i \in 1 .. a, NEW j \in Steps, ~(i < j) PROVE Upserts[j].to = "accounts"
    BY <1>10
  <2>1. j \in 1 .. a
    BY <1>5, <1>10
  <2>2. Upserts[j] = [to |-> "accounts", id |-> AccountIds[j]]
    BY <1>11, <2>1
  <2> QED BY <2>2
<1>16. \A id \in ToSet(AccountIds) : \E i \in 1 .. a : id = AccountIds[i]
  BY <1>5 DEF ToSet
<1>17. \A id \in ToSet(EntityIds) : \E i \in 1 .. b : id = EntityIds[i]
  BY <1>5 DEF ToSet
<1>18. \A id \in ToSet(Observed) : \E i \in 1 .. c : id = Observed[i]
  BY <1>5 DEF ToSet
<1>19. ASSUME NEW i \in Steps
       PROVE  \/ Upserts[i] \in [to : {"accounts"}, id : ToSet(AccountIds)]
              \/ Upserts[i] \in [to : {"entities"}, id : ToSet(EntityIds)]
              \/ Upserts[i] \in [to : {"parts"}, id : ToSet(Observed)]
  BY <1>9, <1>10, ElementOfSeq DEF Doc
<1> QED BY <1>10, <1>11, <1>12, <1>13, <1>15, <1>16, <1>17, <1>18, <1>19

---------------------------------------------------------------------------
(* The dataset. *)

StoredAll == \A i \in Steps : Stored(Upserts[i])

\* Importer m has stored the document w and is not done.
Past(m, w) == Importing(m) /\ \E i \in 1 .. import[m].at - 1 : Upserts[i] = w

Progress == {Idle, Over} \cup {Finding(i) : i \in Steps} \cup {Inserting(i) : i \in Steps}

ImportTyped ==
  /\ import \in [Importers -> Progress]
  /\ accounts \in [ToSet(BaseAccounts \o MoreAccounts) -> {"none", "base", "expansion"}]
  /\ DOMAIN entities = ToSet(BaseEntities \o Searched \o Contacts)
  /\ entities = [id \in DOMAIN entities |-> entities[id]]
  /\ \A id \in DOMAIN entities : entities[id] \in {NoEntity, Entity(id)}
  /\ DOMAIN parts = ToSet(Observed)
  /\ parts = [id \in DOMAIN parts |-> parts[id]]
  /\ Verified \subseteq ToSet(AccountIds)

\* What lies behind an importer is stored, and what it inserts does not lie behind it.
TrailOf(m) ==
  /\ \A i \in 1 .. import[m].at - 1 : Stored(Upserts[i])
  /\ import[m].pc = "insert" =>
       \A i \in 1 .. import[m].at - 1 : Upserts[i] # Upserts[import[m].at]

Trail == \A m \in Importers : Importing(m) => TrailOf(m)

\* Unless one was cut, whoever stored a document carries on to the end, or has
\* lost to an import that is further.
CarriedOn ==
  ~cut =>
    /\ \A i \in Steps : Stored(Upserts[i]) =>
         StoredAll \/ \E m \in Importers : Past(m, Upserts[i])
    /\ (\E m \in Importers : import[m] = Over) =>
         StoredAll \/ \E m \in Importers : Importing(m)

Linked == \A id \in DOMAIN entities : entities[id].linkedAccount => id \in Verified

ImportInductive == ImportTyped /\ Trail /\ CarriedOn /\ Linked

LEMMA ProgressOf ==
  ASSUME ImportTyped, NEW m \in Importers, Importing(m)
  PROVE  /\ import[m].at \in Steps
         /\ import[m] # Over
BY DEF ImportTyped, Progress, Importing, Idle, Over, Finding, Inserting

LEMMA KindOfStored ==
  ASSUME NEW id
  PROVE  /\ Stored([to |-> "accounts", id |-> id]) <=> accounts[id] # "none"
         /\ Stored([to |-> "entities", id |-> id]) <=> entities[id] # NoEntity
         /\ Stored([to |-> "parts", id |-> id]) <=> parts[id] # "none"
BY DEF Stored

LEMMA LinkOf ==
  ASSUME NEW id
  PROVE  /\ Entity(id) # NoEntity /\ (Entity(id).linkedAccount <=> id \in ToSet(AccountIds))
         /\ Account(id) \in {"base", "expansion"}
<1>1. Contains(AccountIds, id) <=> id \in ToSet(AccountIds)
  BY KeysOfBundles, ContainsInSet
<1>2. Entity(id).status # "none" /\ Entity(id).linkedAccount = Contains(AccountIds, id)
  BY DEF Entity, Merged
<1>3. Entity(id) # NoEntity
  BY <1>2 DEF NoEntity
<1> QED BY <1>1, <1>2, <1>3 DEF Account

LEMMA TwoDocs ==
  ASSUME NEW to, NEW id, NEW to2, NEW id2
  PROVE  [to |-> to, id |-> id] = [to |-> to2, id |-> id2] <=> to = to2 /\ id = id2
<1>1. [to |-> to, id |-> id].to = to /\ [to |-> to, id |-> id].id = id
  OBVIOUS
<1>2. [to |-> to2, id |-> id2].to = to2 /\ [to |-> to2, id |-> id2].id = id2
  OBVIOUS
<1> QED BY <1>1, <1>2

\* A write stores its document and no other.
LEMMA WriteStores ==
  ASSUME ImportTyped, Trail, Linked, NEW m \in Importers, Importing(m),
         NEW w, w = Upserts[import[m].at], Write(m, w)
  PROVE  /\ \A i \in Steps : Stored(Upserts[i])' <=> Stored(Upserts[i]) \/ Upserts[i] = w
         /\ accounts' \in [ToSet(BaseAccounts \o MoreAccounts) -> {"none", "base", "expansion"}]
         /\ DOMAIN entities' = ToSet(BaseEntities \o Searched \o Contacts)
         /\ entities' = [id \in DOMAIN entities' |-> entities'[id]]
         /\ \A id \in DOMAIN entities' : entities'[id] \in {NoEntity, Entity(id)}
         /\ DOMAIN parts' = ToSet(Observed)
         /\ parts' = [id \in DOMAIN parts' |-> parts'[id]]
         /\ Verified' \subseteq ToSet(AccountIds)
         /\ Linked'
<1>1. import[m].at \in Steps
  BY ProgressOf
<1>2. ASSUME NEW id \in ToSet(AccountIds), w = [to |-> "accounts", id |-> id]
      PROVE  /\ accounts' = [accounts EXCEPT ![id] = Account(id)] /\ UNCHANGED <<entities, parts>>
             /\ id \in DOMAIN accounts /\ Account(id) \in {"base", "expansion"}
             /\ Verified' = Verified \cup {id}
  <2>1. accounts' = [accounts EXCEPT ![id] = Account(id)] /\ UNCHANGED <<entities, parts>>
    BY <1>2 DEF Write, WriteAccount
  <2>2. id \in DOMAIN accounts
    BY KeysOfBundles DEF ImportTyped
  <2>3. Account(id) \in {"base", "expansion"}
    BY LinkOf
  <2>4. DOMAIN accounts' = DOMAIN accounts /\ accounts'[id] = Account(id)
        /\ \A other \in DOMAIN accounts : other # id => accounts'[other] = accounts[other]
    BY <2>1, <2>2
  <2>5. Verified' = Verified \cup {id}
    BY <2>2, <2>3, <2>4 DEF Verified
  <2> QED BY <2>1, <2>2, <2>3, <2>5
<1>3. ASSUME NEW id \in ToSet(EntityIds), w = [to |-> "entities", id |-> id]
      PROVE  /\ entities' = [entities EXCEPT ![id] = Entity(id)] /\ UNCHANGED <<accounts, parts>>
             /\ id \in DOMAIN entities /\ Entity(id) # NoEntity
             /\ Entity(id).linkedAccount => id \in Verified
  <2>1. entities' = [entities EXCEPT ![id] = Entity(id)] /\ UNCHANGED <<accounts, parts>>
    BY <1>3 DEF Write, WriteEntity
  <2>2. id \in DOMAIN entities
    BY KeysOfBundles DEF ImportTyped
  <2>3. ASSUME Entity(id).linkedAccount PROVE id \in Verified
    <3>1. id \in ToSet(AccountIds)
      BY <2>3, LinkOf
    <3>2. PICK i \in Steps : /\ Upserts[i] = [to |-> "accounts", id |-> id]
                             /\ \A j \in Steps : Upserts[j].to = "entities" => i < j
      BY <3>1, UpsertsListed
    <3>3. i < import[m].at
      <4>1. Upserts[import[m].at].to = "entities"
        BY <1>3
      <4> QED BY <1>1, <3>2, <4>1
    <3>4. i \in 1 .. import[m].at - 1
      BY <1>1, <3>2, <3>3, UpsertsListed DEF Steps
    <3>5. accounts[id] # "none"
      BY <3>2, <3>4, KindOfStored DEF Trail, TrailOf
    <3> QED BY <3>1, <3>5, KeysOfBundles DEF Verified, ImportTyped
  <2> QED BY <2>1, <2>2, <2>3, LinkOf
<1>4. ASSUME NEW id \in ToSet(Observed), w = [to |-> "parts", id |-> id]
      PROVE  /\ parts' = [parts EXCEPT ![id] = "observed"] /\ UNCHANGED <<accounts, entities>>
             /\ id \in DOMAIN parts
    BY <1>4 DEF Write, WritePart, Part, ImportTyped
<1>5. \/ \E id \in ToSet(AccountIds) : w = [to |-> "accounts", id |-> id]
      \/ \E id \in ToSet(EntityIds) : w = [to |-> "entities", id |-> id]
      \/ \E id \in ToSet(Observed) : w = [to |-> "parts", id |-> id]
  BY <1>1, UpsertsListed
<1>6. \A i \in Steps : Stored(Upserts[i])' <=> Stored(Upserts[i]) \/ Upserts[i] = w
  <2>1. ASSUME NEW id \in ToSet(AccountIds)
        PROVE  accounts'[id] # "none" <=> accounts[id] # "none" \/ w = [to |-> "accounts", id |-> id]
    <3>1. id \in DOMAIN accounts
      BY KeysOfBundles DEF ImportTyped
    <3>2. ASSUME NEW other \in ToSet(AccountIds), w = [to |-> "accounts", id |-> other]
          PROVE  accounts'[id] # "none" <=> accounts[id] # "none" \/ id = other
      BY <1>2, <3>1, <3>2
    <3> QED BY <1>3, <1>4, <1>5, <3>2, TwoDocs
  <2>2. ASSUME NEW id \in ToSet(EntityIds)
        PROVE  entities'[id] # NoEntity
                 <=> entities[id] # NoEntity \/ w = [to |-> "entities", id |-> id]
    <3>1. id \in DOMAIN entities
      BY KeysOfBundles DEF ImportTyped
    <3>2. ASSUME NEW other \in ToSet(EntityIds), w = [to |-> "entities", id |-> other]
          PROVE  entities'[id] # NoEntity <=> entities[id] # NoEntity \/ id = other
      BY <1>3, <3>1, <3>2
    <3> QED BY <1>2, <1>4, <1>5, <3>2, TwoDocs
  <2>3. ASSUME NEW id \in ToSet(Observed)
        PROVE  parts'[id] # "none" <=> parts[id] # "none" \/ w = [to |-> "parts", id |-> id]
    <3>1. id \in DOMAIN parts
      BY DEF ImportTyped
    <3>2. ASSUME NEW other \in ToSet(Observed), w = [to |-> "parts", id |-> other]
          PROVE  parts'[id] # "none" <=> parts[id] # "none" \/ id = other
      BY <1>4, <3>1, <3>2
    <3> QED BY <1>2, <1>3, <1>5, <3>2, TwoDocs
  <2>4. \A id : /\ Stored([to |-> "accounts", id |-> id])' <=> accounts'[id] # "none"
                /\ Stored([to |-> "entities", id |-> id])' <=> entities'[id] # NoEntity
                /\ Stored([to |-> "parts", id |-> id])' <=> parts'[id] # "none"
    BY DEF Stored, NoEntity
  <2> SUFFICES ASSUME NEW i \in Steps PROVE Stored(Upserts[i])' <=> Stored(Upserts[i]) \/ Upserts[i] = w
    OBVIOUS
  <2>5. \/ \E id \in ToSet(AccountIds) : Upserts[i] = [to |-> "accounts", id |-> id]
        \/ \E id \in ToSet(EntityIds) : Upserts[i] = [to |-> "entities", id |-> id]
        \/ \E id \in ToSet(Observed) : Upserts[i] = [to |-> "parts", id |-> id]
    BY UpsertsListed
  <2>6. ASSUME NEW id \in ToSet(AccountIds), Upserts[i] = [to |-> "accounts", id |-> id]
        PROVE  Stored(Upserts[i])' <=> Stored(Upserts[i]) \/ Upserts[i] = w
    BY <2>1, <2>4, <2>6, KindOfStored
  <2>7. ASSUME NEW id \in ToSet(EntityIds), Upserts[i] = [to |-> "entities", id |-> id]
        PROVE  Stored(Upserts[i])' <=> Stored(Upserts[i]) \/ Upserts[i] = w
    BY <2>2, <2>4, <2>7, KindOfStored
  <2>8. ASSUME NEW id \in ToSet(Observed), Upserts[i] = [to |-> "parts", id |-> id]
        PROVE  Stored(Upserts[i])' <=> Stored(Upserts[i]) \/ Upserts[i] = w
    BY <2>3, <2>4, <2>8, KindOfStored
  <2> QED BY <2>5, <2>6, <2>7, <2>8
<1>7. /\ accounts' \in [ToSet(BaseAccounts \o MoreAccounts) -> {"none", "base", "expansion"}]
      /\ Verified' \subseteq ToSet(AccountIds)
      /\ Verified \subseteq Verified'
  <2>1. CASE accounts' = accounts
    BY <2>1 DEF Verified, ImportTyped
  <2>2. ASSUME NEW id \in ToSet(AccountIds), w = [to |-> "accounts", id |-> id]
        PROVE  /\ accounts' \in [ToSet(BaseAccounts \o MoreAccounts) -> {"none", "base", "expansion"}]
               /\ Verified' = Verified \cup {id}
    BY <1>2, <2>2 DEF ImportTyped
  <2> QED BY <1>3, <1>4, <1>5, <2>1, <2>2 DEF ImportTyped
<1>8. /\ DOMAIN entities' = ToSet(BaseEntities \o Searched \o Contacts)
      /\ entities' = [id \in DOMAIN entities' |-> entities'[id]]
      /\ \A id \in DOMAIN entities' : entities'[id] \in {NoEntity, Entity(id)}
      /\ Linked'
  <2>1. CASE entities' = entities
    BY <1>7, <2>1 DEF Linked, ImportTyped
  <2>2. ASSUME NEW id \in ToSet(EntityIds), w = [to |-> "entities", id |-> id]
        PROVE  /\ DOMAIN entities' = DOMAIN entities
               /\ entities' = [e \in DOMAIN entities' |-> entities'[e]]
               /\ \A e \in DOMAIN entities' : entities'[e] \in {NoEntity, Entity(e)}
               /\ \A e \in DOMAIN entities' : entities'[e].linkedAccount => e \in Verified
    BY <1>3, <2>2 DEF ImportTyped, Linked
  <2> QED BY <1>2, <1>4, <1>5, <1>7, <2>1, <2>2 DEF Linked, ImportTyped
<1>9. DOMAIN parts' = ToSet(Observed) /\ parts' = [id \in DOMAIN parts' |-> parts'[id]]
  <2>1. CASE parts' = parts
    BY <2>1 DEF ImportTyped
  <2>2. ASSUME NEW id \in ToSet(Observed), w = [to |-> "parts", id |-> id]
        PROVE  DOMAIN parts' = DOMAIN parts /\ parts' = [e \in DOMAIN parts' |-> parts'[e]]
    BY <1>4, <2>2 DEF ImportTyped
  <2> QED BY <1>2, <1>3, <1>5, <2>1, <2>2 DEF ImportTyped
<1> QED BY <1>6, <1>7, <1>8, <1>9

\* What an importer does, with nothing stored.
LEMMA DocumentsAlone ==
  ASSUME UNCHANGED <<accounts, entities, parts>>
  PROVE  /\ \A i \in Steps : Stored(Upserts[i])' <=> Stored(Upserts[i])
         /\ StoredAll' <=> StoredAll
         /\ Verified' = Verified
         /\ Linked => Linked'
<1>1. \A i \in Steps : Stored(Upserts[i])' <=> Stored(Upserts[i])
  BY DEF Stored
<1> QED BY <1>1 DEF StoredAll, Verified, Linked

LEMMA ContinueMoves ==
  ASSUME ImportTyped, NEW m \in Importers, NEW state \in Progress, Continue(m, state)
  PROVE  /\ import' \in [Importers -> Progress] /\ import'[m] = state
         /\ \A s \in Importers : s # m => import'[s] = import[s]
         /\ \A s \in Importers : s # m => (Importing(s)' <=> Importing(s))
         /\ \A s \in Importers : \A w : s # m => (Past(s, w)' <=> Past(s, w))
         /\ Importing(m)' <=> state.pc \in {"find", "insert"}
<1>1. /\ import' \in [Importers -> Progress] /\ import'[m] = state
      /\ \A s \in Importers : s # m => import'[s] = import[s]
  BY DEF Continue, ImportTyped
<1>2. \A s \in Importers : s # m => (Importing(s)' <=> Importing(s))
  BY <1>1 DEF Importing
<1>3. \A s \in Importers : \A w : s # m => (Past(s, w)' <=> Past(s, w))
  BY <1>1, <1>2 DEF Past
<1> QED BY <1>1, <1>2, <1>3 DEF Importing

LEMMA ProgressTyped ==
  /\ Idle \in Progress /\ Over \in Progress
  /\ \A i \in Steps : Finding(i) \in Progress /\ Inserting(i) \in Progress
  /\ 1 \in Steps
BY UpsertsListed DEF Progress, Steps

\* Nothing is stored, and the step is not a cut.
LEMMA StillTyped ==
  ASSUME ImportTyped, import' \in [Importers -> Progress], UNCHANGED <<accounts, entities, parts>>
  PROVE  ImportTyped'
BY DocumentsAlone DEF ImportTyped

\* The trail of an importer that stays where it is.
LEMMA TrailStays ==
  ASSUME ImportTyped, Trail, NEW m \in Importers, Importing(m), import'[m] = import[m],
         \A i \in Steps : Stored(Upserts[i]) => Stored(Upserts[i])'
  PROVE  TrailOf(m)'
<1>1. import[m].at \in Steps
  BY ProgressOf
<1>2. \A i \in 1 .. import[m].at - 1 : i \in Steps
  BY <1>1, UpsertsListed DEF Steps
<1> QED BY <1>2 DEF Trail, TrailOf

\* An import that was not under way starts.
LEMMA StartKept ==
  ASSUME ImportInductive, NEW m \in Importers, ~Importing(m), Continue(m, Finding(1)),
         UNCHANGED <<accounts, entities, parts, cut>>
  PROVE  ImportInductive'
<1>1. /\ import' \in [Importers -> Progress] /\ import'[m] = Finding(1)
      /\ \A s \in Importers : s # m => import'[s] = import[s]
      /\ \A s \in Importers : s # m => (Importing(s)' <=> Importing(s))
      /\ \A s \in Importers : \A w : s # m => (Past(s, w)' <=> Past(s, w))
      /\ Importing(m)'
  BY ProgressTyped, ContinueMoves DEF Finding, ImportInductive
<1>2. ImportTyped' /\ Linked'
  BY <1>1, StillTyped, DocumentsAlone DEF ImportInductive
<1>3. Trail'
  <2> SUFFICES ASSUME NEW s \in Importers, Importing(s)' PROVE TrailOf(s)'
    BY DEF Trail
  <2>1. CASE s = m
    <3>1. import'[s].pc = "find" /\ import'[s].at = 1
      BY <1>1, <2>1 DEF Finding
    <3> QED BY <3>1 DEF TrailOf
  <2>2. CASE s # m
    <3>1. Importing(s) /\ import'[s] = import[s]
      BY <1>1, <2>2
    <3> QED BY <3>1, TrailStays, DocumentsAlone DEF ImportInductive
  <2> QED BY <2>1, <2>2
<1>4. CarriedOn'
  <2> SUFFICES ASSUME ~cut
               PROVE  /\ \A i \in Steps : Stored(Upserts[i])' =>
                           StoredAll' \/ \E s \in Importers : Past(s, Upserts[i])'
                      /\ \E s \in Importers : Importing(s)'
    BY DEF CarriedOn
  <2>1. \A w : ~Past(m, w)
    BY DEF Past
  <2> QED BY <1>1, <2>1, DocumentsAlone DEF CarriedOn, ImportInductive
<1> QED BY <1>2, <1>3, <1>4 DEF ImportInductive

\* A start finds enough accounts: whoever stored one carries on.
LEMMA SkipKept ==
  ASSUME ImportInductive, NEW m \in Importers, ~Importing(m), Continue(m, Over),
         ~(Cardinality(Verified) < Threshold), UNCHANGED <<accounts, entities, parts, cut>>
  PROVE  ImportInductive'
<1>1. /\ import' \in [Importers -> Progress] /\ import'[m] = Over
      /\ \A s \in Importers : s # m => import'[s] = import[s]
      /\ \A s \in Importers : s # m => (Importing(s)' <=> Importing(s))
      /\ \A s \in Importers : \A w : s # m => (Past(s, w)' <=> Past(s, w))
      /\ ~Importing(m)'
  BY ProgressTyped, ContinueMoves DEF Over, ImportInductive
<1>2. ImportTyped' /\ Linked'
  BY <1>1, StillTyped, DocumentsAlone DEF ImportInductive
<1>3. Trail'
  <2> SUFFICES ASSUME NEW s \in Importers, Importing(s)' PROVE TrailOf(s)'
    BY DEF Trail
  <2>1. s # m /\ Importing(s) /\ import'[s] = import[s]
    BY <1>1
  <2> QED BY <2>1, TrailStays, DocumentsAlone DEF ImportInductive
<1>4. CarriedOn'
  <2> SUFFICES ASSUME ~cut
               PROVE  /\ \A i \in Steps : Stored(Upserts[i])' =>
                           StoredAll' \/ \E s \in Importers : Past(s, Upserts[i])'
                      /\ StoredAll' \/ \E s \in Importers : Importing(s)'
    BY DEF CarriedOn
  <2>1. \A w : ~Past(m, w)
    BY DEF Past
  <2>2. \A i \in Steps : Stored(Upserts[i])' =>
          StoredAll' \/ \E s \in Importers : Past(s, Upserts[i])'
    BY <1>1, <2>1, DocumentsAlone DEF CarriedOn, ImportInductive
  <2>3. Verified # {}
    <3>1. Cardinality({}) = 0 /\ Threshold \in Nat \ {0}
      BY FS_EmptySet, PentanaAssumption
    <3>2. Cardinality({}) < Threshold
      BY <3>1
    <3> QED BY <3>2
  <2>4. PICK id \in ToSet(AccountIds) : id \in DOMAIN accounts /\ accounts[id] # "none"
    BY <2>3 DEF Verified, ImportInductive, ImportTyped
  <2>5. PICK i \in Steps : Upserts[i] = [to |-> "accounts", id |-> id]
    BY UpsertsListed
  <2>6. Stored(Upserts[i])'
    BY <2>4, <2>5, KindOfStored, DocumentsAlone
  <2>7. \A s \in Importers : Past(s, Upserts[i])' => Importing(s)'
    BY DEF Past
  <2> QED BY <2>2, <2>6, <2>7
<1> QED BY <1>2, <1>3, <1>4 DEF ImportInductive

\* A document that is not stored is to be inserted.
LEMMA InsertingKept ==
  ASSUME ImportInductive, NEW m \in Importers, import[m].pc = "find",
         ~Stored(Upserts[import[m].at]), Continue(m, Inserting(import[m].at)),
         UNCHANGED <<accounts, entities, parts, cut>>
  PROVE  ImportInductive'
<1>1. Importing(m) /\ import[m].at \in Steps
  BY ProgressOf DEF Importing, ImportInductive
<1>2. /\ import' \in [Importers -> Progress] /\ import'[m] = Inserting(import[m].at)
      /\ \A s \in Importers : s # m => import'[s] = import[s]
      /\ \A s \in Importers : s # m => (Importing(s)' <=> Importing(s))
      /\ \A s \in Importers : \A w : s # m => (Past(s, w)' <=> Past(s, w))
      /\ Importing(m)'
  BY <1>1, ProgressTyped, ContinueMoves DEF Inserting, ImportInductive
<1>3. ImportTyped' /\ Linked'
  BY <1>2, StillTyped, DocumentsAlone DEF ImportInductive
<1>4. import'[m].at = import[m].at
  BY <1>2 DEF Inserting
<1>5. \A s \in Importers : \A w : Past(s, w)' <=> Past(s, w)
  BY <1>1, <1>2, <1>4 DEF Past
<1>6. Trail'
  <2> SUFFICES ASSUME NEW s \in Importers, Importing(s)' PROVE TrailOf(s)'
    BY DEF Trail
  <2>1. CASE s = m
    <3>1. \A i \in 1 .. import[m].at - 1 : i \in Steps /\ Stored(Upserts[i])
      BY <1>1, UpsertsListed DEF Trail, TrailOf, Steps, ImportInductive
    <3>2. \A i \in 1 .. import[m].at - 1 : Upserts[i] # Upserts[import[m].at]
      BY <3>1
    <3> QED BY <1>4, <2>1, <3>1, <3>2, DocumentsAlone DEF TrailOf
  <2>2. CASE s # m
    BY <1>2, <2>2, TrailStays, DocumentsAlone DEF ImportInductive
  <2> QED BY <2>1, <2>2
<1>7. CarriedOn'
  <2> SUFFICES ASSUME ~cut
               PROVE  /\ \A i \in Steps : Stored(Upserts[i])' =>
                           StoredAll' \/ \E s \in Importers : Past(s, Upserts[i])'
                      /\ \E s \in Importers : Importing(s)'
    BY DEF CarriedOn
  <2> QED BY <1>2, <1>5, DocumentsAlone DEF CarriedOn, ImportInductive
<1> QED BY <1>3, <1>6, <1>7 DEF ImportInductive

\* The loser of an insertion ends; the winner is further than it was.
LEMMA LoserKept ==
  ASSUME ImportInductive, NEW m \in Importers, import[m].pc = "insert",
         Stored(Upserts[import[m].at]), Continue(m, Over),
         UNCHANGED <<accounts, entities, parts, cut>>
  PROVE  ImportInductive'
<1>1. Importing(m) /\ import[m].at \in Steps
  BY ProgressOf DEF Importing, ImportInductive
<1>2. /\ import' \in [Importers -> Progress] /\ import'[m] = Over
      /\ \A s \in Importers : s # m => import'[s] = import[s]
      /\ \A s \in Importers : s # m => (Importing(s)' <=> Importing(s))
      /\ \A s \in Importers : \A w : s # m => (Past(s, w)' <=> Past(s, w))
      /\ ~Importing(m)'
  BY ProgressTyped, ContinueMoves DEF Over, ImportInductive
<1>3. ImportTyped' /\ Linked'
  BY <1>2, StillTyped, DocumentsAlone DEF ImportInductive
<1>4. Trail'
  <2> SUFFICES ASSUME NEW s \in Importers, Importing(s)' PROVE TrailOf(s)'
    BY DEF Trail
  <2>1. s # m /\ Importing(s) /\ import'[s] = import[s]
    BY <1>2
  <2> QED BY <2>1, TrailStays, DocumentsAlone DEF ImportInductive
<1>5. CarriedOn'
  <2> SUFFICES ASSUME ~cut, ~StoredAll
               PROVE  /\ \A i \in Steps : Stored(Upserts[i]) =>
                           \E s \in Importers : Past(s, Upserts[i])'
                      /\ \E s \in Importers : Importing(s)'
    BY DocumentsAlone DEF CarriedOn
  <2>1. \A i \in 1 .. import[m].at - 1 : Upserts[i] # Upserts[import[m].at]
    BY <1>1 DEF Trail, TrailOf, ImportInductive
  <2>2. \A i \in Steps : Stored(Upserts[i]) => \E s \in Importers : Past(s, Upserts[i])
    BY DEF CarriedOn, ImportInductive
  <2>3. PICK s \in Importers : Past(s, Upserts[import[m].at])
    BY <1>1, <2>2
  <2>4. s # m /\ Importing(s)
    BY <2>1, <2>3 DEF Past
  <2>5. PICK k \in 1 .. import[s].at - 1 : Upserts[k] = Upserts[import[m].at]
    BY <2>3 DEF Past
  <2>6. import[s].at \in Nat /\ import[m].at \in Nat
    BY <1>1, <2>4, ProgressOf, UpsertsListed DEF ImportInductive, Steps
  <2>7. ~(k < import[m].at)
    BY <2>1, <2>5, <2>6
  <2>8. ASSUME NEW i \in Steps, Stored(Upserts[i])
        PROVE  \E t \in Importers : t # m /\ Past(t, Upserts[i])
    <3>1. PICK t \in Importers : Past(t, Upserts[i])
      BY <2>2, <2>8
    <3>2. ASSUME t = m PROVE Past(s, Upserts[i])
      <4>1. PICK j \in 1 .. import[m].at - 1 : Upserts[j] = Upserts[i]
        BY <3>1, <3>2 DEF Past
      <4>2. j \in 1 .. import[s].at - 1
        BY <2>5, <2>6, <2>7, <4>1
      <4> QED BY <2>4, <4>1, <4>2 DEF Past
    <3> QED BY <2>4, <3>1, <3>2
  <2> QED BY <1>2, <2>4, <2>8
<1> QED BY <1>3, <1>4, <1>5 DEF ImportInductive

\* A document is stored, and the import goes on to the next or is over.
LEMMA WriteKept ==
  ASSUME ImportInductive, NEW m \in Importers, Importing(m), Write(m, Upserts[import[m].at])
  PROVE  ImportInductive'
<1> DEFINE w == Upserts[import[m].at]
           next == IF import[m].at = Len(Upserts) THEN Over ELSE Finding(import[m].at + 1)
<1>1. import[m].at \in Steps /\ Len(Upserts) \in Nat
  BY ProgressOf, UpsertsListed DEF ImportInductive
<1>2. /\ \A i \in Steps : Stored(Upserts[i])' <=> Stored(Upserts[i]) \/ Upserts[i] = w
      /\ Linked'
  BY WriteStores DEF ImportInductive
<1>3. next \in Progress
  <2>1. import[m].at # Len(Upserts) => import[m].at + 1 \in Steps
    BY <1>1 DEF Steps
  <2> QED BY <2>1, ProgressTyped
<1>4. /\ import' \in [Importers -> Progress] /\ import'[m] = next
      /\ \A s \in Importers : s # m => import'[s] = import[s]
      /\ \A s \in Importers : s # m => (Importing(s)' <=> Importing(s))
      /\ \A s \in Importers : \A x : s # m => (Past(s, x)' <=> Past(s, x))
      /\ Importing(m)' <=> next.pc \in {"find", "insert"}
      /\ cut' = cut
  <2>1. Continue(m, next) /\ cut' = cut
    BY DEF Write
  <2> HIDE DEF next
  <2> QED BY <1>3, <2>1, ContinueMoves DEF ImportInductive
<1>5. ImportTyped'
  BY <1>4, WriteStores DEF ImportInductive, ImportTyped
<1>6. /\ import[m].at = Len(Upserts) => ~Importing(m)'
      /\ import[m].at # Len(Upserts) =>
           Importing(m)' /\ import'[m].pc = "find" /\ import'[m].at = import[m].at + 1
  BY <1>4 DEF Over, Finding
<1> HIDE DEF next
<1>7. \A i \in 1 .. import[m].at - 1 : i \in Steps /\ Stored(Upserts[i])
  BY <1>1 DEF ImportInductive, Trail, TrailOf, Steps
<1>8. Trail'
  <2> SUFFICES ASSUME NEW s \in Importers, Importing(s)' PROVE TrailOf(s)'
    BY DEF Trail
  <2>1. CASE s = m
    <3>1. import'[m].pc = "find" /\ import'[m].at = import[m].at + 1
      BY <1>6, <2>1
    <3>2. \A i \in 1 .. import[m].at : i \in Steps /\ (Stored(Upserts[i]) \/ Upserts[i] = w)
      BY <1>1, <1>7 DEF Steps
    <3>3. 1 .. import'[m].at - 1 = 1 .. import[m].at
      BY <1>1, <3>1 DEF Steps
    <3> QED BY <1>2, <2>1, <3>1, <3>2, <3>3 DEF TrailOf
  <2>2. CASE s # m
    <3>1. Importing(s) /\ import'[s] = import[s]
      BY <1>4, <2>2
    <3> QED BY <1>2, <3>1, TrailStays DEF ImportInductive
  <2> QED BY <2>1, <2>2
<1>9. StoredAll => StoredAll'
  BY <1>2 DEF StoredAll
<1>10. CarriedOn'
  <2>1. CASE import[m].at = Len(Upserts)
    <3>1. \A i \in Steps : i \in 1 .. import[m].at - 1 \/ i = import[m].at
      BY <1>1, <2>1 DEF Steps
    <3>2. StoredAll'
      BY <1>2, <1>7, <3>1 DEF StoredAll
    <3> QED BY <3>2 DEF CarriedOn
  <2>2. CASE import[m].at # Len(Upserts)
    <3>1. Importing(m)' /\ import'[m].at = import[m].at + 1
      BY <1>6, <2>2
    <3>2. \A x : x = w => Past(m, x)'
      <4>1. import[m].at \in 1 .. import'[m].at - 1
        BY <1>1, <3>1 DEF Steps
      <4> QED BY <3>1, <4>1 DEF Past
    <3>3. \A x : Past(m, x) => Past(m, x)'
      <4>1. \A i \in 1 .. import[m].at - 1 : i \in 1 .. import'[m].at - 1
        BY <1>1, <3>1 DEF Steps
      <4> QED BY <3>1, <4>1 DEF Past
    <3>4. \A s \in Importers : \A x : Past(s, x) => Past(s, x)'
      BY <1>4, <3>3
    <3>5. ASSUME ~cut, NEW i \in Steps, Stored(Upserts[i])'
          PROVE  StoredAll' \/ \E s \in Importers : Past(s, Upserts[i])'
      <4>1. CASE Upserts[i] = w
        BY <3>2, <4>1
      <4>2. CASE Stored(Upserts[i])
        BY <1>9, <3>4, <3>5, <4>2 DEF CarriedOn, ImportInductive
      <4> QED BY <1>2, <3>5, <4>1, <4>2
    <3> QED BY <1>4, <3>1, <3>5 DEF CarriedOn
  <2> QED BY <2>1, <2>2
<1> QED BY <1>2, <1>5, <1>8, <1>10 DEF ImportInductive

\* An import is cut.
LEMMA FailsKept ==
  ASSUME ImportInductive, NEW m \in Importers, ImportFails(m)
  PROVE  ImportInductive'
<1>1. /\ import' \in [Importers -> Progress] /\ import'[m] = Over
      /\ \A s \in Importers : s # m => import'[s] = import[s]
      /\ \A s \in Importers : s # m => (Importing(s)' <=> Importing(s))
      /\ \A s \in Importers : \A w : s # m => (Past(s, w)' <=> Past(s, w))
      /\ ~Importing(m)'
  BY ProgressTyped, ContinueMoves DEF ImportFails, Over, ImportInductive
<1>2. UNCHANGED <<accounts, entities, parts>> /\ cut'
  BY DEF ImportFails
<1>3. ImportTyped' /\ Linked'
  BY <1>1, <1>2, StillTyped, DocumentsAlone DEF ImportInductive
<1>4. Trail'
  <2> SUFFICES ASSUME NEW s \in Importers, Importing(s)' PROVE TrailOf(s)'
    BY DEF Trail
  <2>1. s # m /\ Importing(s) /\ import'[s] = import[s]
    BY <1>1
  <2> QED BY <1>2, <2>1, TrailStays, DocumentsAlone DEF ImportInductive
<1> QED BY <1>2, <1>3, <1>4 DEF ImportInductive, CarriedOn

---------------------------------------------------------------------------
(* The imports of a deployment. *)

LEMMA ImportStepKept ==
  ASSUME ImportInductive, NEW m \in Importers, ImportStep(m)
  PROVE  /\ ImportInductive'
         /\ Importing(m)
         /\ \A s \in Importers : Importing(s)' => Importing(s)
<1>1. Importing(m)
  BY DEF ImportStep, UpsertDocument, InsertDocument, ImportFails, Importing
<1>2. ImportInductive'
  <2>1. CASE Write(m, Upserts[import[m].at])
    BY <1>1, <2>1, WriteKept
  <2>2. CASE UpsertDocument(m) /\ ~Write(m, Upserts[import[m].at])
    BY <2>2, InsertingKept DEF UpsertDocument
  <2>3. CASE InsertDocument(m) /\ ~Write(m, Upserts[import[m].at])
    BY <2>3, LoserKept DEF InsertDocument
  <2>4. CASE ImportFails(m)
    BY <2>4, FailsKept
  <2> QED BY <2>1, <2>2, <2>3, <2>4 DEF ImportStep
<1>3. \E state : Continue(m, state)
  BY DEF ImportStep, UpsertDocument, InsertDocument, ImportFails, Write
<1>4. \A s \in Importers : s # m => import'[s] = import[s]
  BY <1>3 DEF Continue, ImportInductive, ImportTyped
<1> QED BY <1>1, <1>2, <1>4 DEF Importing

LEMMA ImportInitKept == ImportInit => ImportInductive
<1> SUFFICES ASSUME ImportInit PROVE ImportInductive
  OBVIOUS
<1>1. \A m \in Importers : import[m] = Idle /\ ~Importing(m) /\ import[m] # Over
  BY DEF ImportInit, Importing, Idle, Over
<1>2. Verified = {}
  BY DEF ImportInit, Verified
<1>3. ImportTyped
  BY <1>2, ProgressTyped DEF ImportInit, ImportTyped
<1>4. ASSUME NEW i \in Steps PROVE ~Stored(Upserts[i])
  <2>1. ToSet(AccountIds) \subseteq DOMAIN accounts /\ ToSet(EntityIds) \subseteq DOMAIN entities
    BY KeysOfBundles DEF ImportInit
  <2>2. /\ \A id \in DOMAIN accounts : accounts[id] = "none"
        /\ \A id \in DOMAIN entities : entities[id] = NoEntity
        /\ \A id \in ToSet(Observed) : parts[id] = "none"
    BY DEF ImportInit
  <2>3. \/ \E id \in ToSet(AccountIds) : Upserts[i] = [to |-> "accounts", id |-> id]
        \/ \E id \in ToSet(EntityIds) : Upserts[i] = [to |-> "entities", id |-> id]
        \/ \E id \in ToSet(Observed) : Upserts[i] = [to |-> "parts", id |-> id]
    BY UpsertsListed
  <2> QED BY <2>1, <2>2, <2>3, KindOfStored
<1>5. Linked
  BY DEF ImportInit, Linked, NoEntity
<1> QED BY <1>1, <1>3, <1>4, <1>5 DEF ImportInductive, Trail, CarriedOn

\* An instance imports only after its modules are there.
HasModules(i) == \E n \in BuildsOf(i) : promises[i][n] \in {"importing", "ready"}
Started == \A i \in Instances : Importing(i) => HasModules(i)

DataInductive == ImportInductive /\ Started /\ ServerTyped

LEMMA ImportsAlone ==
  ASSUME ImportInductive, UNCHANGED importVars
  PROVE  ImportInductive' /\ \A m \in Importers : Importing(m)' => Importing(m)
<1>1. /\ ImportTyped' /\ Linked' /\ \A i \in Steps : Stored(Upserts[i])' <=> Stored(Upserts[i])
      /\ StoredAll' <=> StoredAll
  BY StillTyped, DocumentsAlone DEF ImportInductive, ImportTyped, importVars
<1>2. \A m \in Importers : Importing(m)' <=> Importing(m)
  BY DEF Importing, importVars
<1>3. \A m \in Importers : \A w : Past(m, w)' <=> Past(m, w)
  BY <1>2 DEF Past, importVars
<1>4. Trail'
  BY <1>1, <1>2, TrailStays DEF Trail, ImportInductive, importVars
<1>5. CarriedOn'
  BY <1>1, <1>2, <1>3 DEF CarriedOn, ImportInductive, importVars
<1> QED BY <1>1, <1>2, <1>4, <1>5 DEF ImportInductive

LEMMA StepData == DataInductive /\ [Next]_vars => DataInductive'
<1> SUFFICES ASSUME DataInductive, [Next]_vars PROVE DataInductive'
  OBVIOUS
<1>0. ServerTyped' /\ ServerTyped /\ ImportInductive /\ Started /\ Instances \subseteq Importers
  BY StepServer, ServerlessAssumption DEF DataInductive
<1>1. ASSUME NEW m \in Importers, Import(m) PROVE DataInductive'
  <2>1. ImportInductive' /\ \A s \in Importers : Importing(s)' => Importing(s)
    BY <1>0, <1>1, ImportStepKept DEF Import
  <2> QED BY <1>0, <1>1, <2>1 DEF DataInductive, Started, HasModules, BuildsOf, Import, serverVars
<1>2. ASSUME NEW m \in Importers, ~Importing(m), NEW started, started \in {Finding(1), Over},
             Continue(m, started)
      PROVE  \A s \in Importers : Importing(s)' => Importing(s) \/ s = m
  BY <1>0, <1>2 DEF Continue, Importing, ImportInductive, ImportTyped
<1>3. ASSUME NEW m \in Importers, RunPentanaIngestion(m) PROVE DataInductive'
  <2>1. StartImport(m) /\ m \notin Instances /\ promises' = promises
    BY <1>3 DEF RunPentanaIngestion, serverVars
  <2>2. ImportInductive'
    BY <1>0, <2>1, StartKept DEF StartImport
  <2>3. \A s \in Importers : Importing(s)' => Importing(s) \/ s = m
    BY <1>2, <2>1 DEF StartImport
  <2> QED BY <1>0, <2>1, <2>2, <2>3 DEF DataInductive, Started, HasModules, BuildsOf
<1>4. ASSUME NEW i \in Instances, Sync(i) PROVE DataInductive'
  <2>1. StartImport(i) /\ i \in Importers /\ promises' = promises /\ HasModules(i)
    BY <1>0, <1>4 DEF Sync, serverVars, HasModules
  <2>2. ImportInductive'
    BY <1>0, <2>1, StartKept DEF StartImport
  <2>3. \A s \in Importers : Importing(s)' => Importing(s) \/ s = i
    BY <1>2, <2>1 DEF StartImport
  <2> QED BY <1>0, <2>1, <2>2, <2>3 DEF DataInductive, Started, HasModules, BuildsOf
<1>5. ASSUME NEW i \in Instances, NEW n \in BuildsOf(i), NEW stage, Becomes(i, n, stage)
       PROVE  /\ BuildsOf(i)' = BuildsOf(i)
              /\ \A m \in BuildsOf(i) : promises'[i][m] = IF m = n THEN stage ELSE promises[i][m]
              /\ \A j \in Instances : j # i => promises'[j] = promises[j]
  BY <1>0, <1>5 DEF Becomes, BuildsOf, ServerTyped
<1>6. ASSUME NEW i \in Instances, NEW n \in BuildsOf(i), CreateServer(i, n) PROVE DataInductive'
  <2>1. \A m \in BuildsOf(i) : promises[i][m] # "rejected" => m = n
    BY <1>0, <1>6 DEF CreateServer, ServerTyped, LiveIs, BuildsOf
  <2>2. ~HasModules(i)
    BY <1>6, <2>1 DEF CreateServer, HasModules
  <2>3. /\ i \in Importers /\ ~Importing(i) /\ CheckDataset(i)
        /\ Becomes(i, n, "importing")
    BY <1>0, <1>6, <2>2 DEF CreateServer, Started
  <2>4. ImportInductive'
    BY <1>0, <2>3, StartKept, SkipKept DEF CheckDataset
  <2>5. \A s \in Importers : Importing(s)' => Importing(s) \/ s = i
    BY <1>2, <2>3 DEF CheckDataset
  <2>6. HasModules(i)' /\ \A j \in Instances : HasModules(j) => HasModules(j)'
    BY <1>5, <2>3 DEF HasModules, BuildsOf
  <2> QED BY <1>0, <2>4, <2>5, <2>6 DEF DataInductive, Started
<1>7. ASSUME NEW i \in Instances, Kill(i) PROVE DataInductive'
  <2>1. /\ i \in Importers /\ promises' = [promises EXCEPT ![i] = << >>]
        /\ IF Importing(i) THEN ImportFails(i) ELSE UNCHANGED importVars
    BY <1>0, <1>7 DEF Kill
  <2>2. ImportInductive' /\ ~Importing(i)' /\ \A s \in Importers : Importing(s)' => Importing(s)
    <3>1. CASE Importing(i)
      <4>1. ImportInductive' /\ \A s \in Importers : Importing(s)' => Importing(s)
        BY <1>0, <2>1, <3>1, ImportStepKept DEF ImportStep
      <4>2. ~Importing(i)'
        BY <1>0, <2>1, <3>1 DEF ImportFails, Continue, Importing, Over, ImportInductive, ImportTyped
      <4> QED BY <4>1, <4>2
    <3>2. CASE ~Importing(i)
      BY <1>0, <2>1, <3>2, ImportsAlone
    <3> QED BY <3>1, <3>2
  <2>3. \A j \in Instances : j # i /\ HasModules(j) => HasModules(j)'
    BY <1>0, <2>1 DEF HasModules, BuildsOf, ServerTyped
  <2> QED BY <1>0, <2>2, <2>3 DEF DataInductive, Started
<1>8. ASSUME UNCHANGED importVars,
             \A i \in Instances : HasModules(i) => HasModules(i)'
      PROVE  DataInductive'
  BY <1>0, <1>8, ImportsAlone DEF DataInductive, Started
<1>9. ASSUME NEW i \in Instances, NEW n \in BuildsOf(i), Ready(i, n) \/ BuildFails(i, n)
      PROVE  DataInductive'
  <2>1. PICK stage : /\ Becomes(i, n, stage)
                     /\ stage = "ready" \/ promises[i][n] = "creating"
    BY <1>9 DEF Ready, BuildFails
  <2>2. \A j \in Instances : HasModules(j) => HasModules(j)'
    BY <1>5, <2>1 DEF HasModules, BuildsOf
  <2> QED BY <1>8, <1>9, <2>2 DEF Ready, BuildFails
<1>10. ASSUME NEW r \in Requests, NEW i \in Instances, Arrive(r, i) PROVE DataInductive'
  <2>1. promises' = promises \/ promises' = [promises EXCEPT ![i] = Append(promises[i], "creating")]
    BY <1>10 DEF Arrive, StartsBuild
  <2>2. \A j \in Instances : \A n \in BuildsOf(j) : n \in BuildsOf(j)' /\ promises'[j][n] = promises[j][n]
    <3> SUFFICES ASSUME NEW j \in Instances, NEW n \in BuildsOf(j)
                 PROVE  n \in BuildsOf(j)' /\ promises'[j][n] = promises[j][n]
      OBVIOUS
    <3>1. promises[j] \in Seq(Stage) /\ n \in 1 .. Len(promises[j])
      BY <1>0 DEF BuildsOf, ServerTyped
    <3>2. promises'[j] = promises[j] \/ promises'[j] = Append(promises[j], "creating")
      BY <1>0, <2>1 DEF ServerTyped
    <3> QED BY <3>1, <3>2, AppendProperties DEF BuildsOf, Stage
  <2>3. \A j \in Instances : HasModules(j) => HasModules(j)'
    BY <2>2 DEF HasModules
  <2> QED BY <1>8, <1>10, <2>3 DEF Arrive, StartsBuild, WaitsFor
<1>11. ASSUME importVars' = importVars, promises' = promises PROVE DataInductive'
  <2>1. \A i \in Instances : HasModules(i) => HasModules(i)'
    BY <1>11 DEF HasModules, BuildsOf
  <2> QED BY <1>8, <1>11, <2>1
<1>12. ASSUME NEW r \in Requests, NEW i \in Instances, Serve(r, i) \/ Consume(r, i)
       PROVE  DataInductive'
  BY <1>11, <1>12 DEF Serve, Consume, serverVars
<1>13. ASSUME NEW r \in Requests, Reject(r) PROVE DataInductive'
  BY <1>11, <1>13 DEF Reject, serverVars
<1>14. CASE Clock
  BY <1>11, <1>14 DEF Clock, serverVars
<1>15. CASE UNCHANGED vars
  BY <1>11, <1>15 DEF vars, serverVars
<1>16. ASSUME NEW i \in Instances, Build(i) PROVE DataInductive'
  BY <1>6, <1>9, <1>16 DEF Build
<1>17. CASE Next
  BY <1>1, <1>3, <1>4, <1>7, <1>10, <1>12, <1>13, <1>14, <1>16, <1>17 DEF Next
<1> QED BY <1>15, <1>17

\* With every upsert stored, the documents are what the bundles say.
LEMMA AllIsWhole ==
  ASSUME ImportTyped, StoredAll
  PROVE  Whole
<1>1. /\ \A id \in ToSet(AccountIds) : accounts[id] # "none"
      /\ \A id \in ToSet(EntityIds) : entities[id] # NoEntity
      /\ \A id \in ToSet(Observed) : parts[id] # "none"
  <2>1. ASSUME NEW id \in ToSet(AccountIds) PROVE accounts[id] # "none"
    <3>1. \E i \in Steps : Upserts[i] = [to |-> "accounts", id |-> id]
      BY UpsertsListed
    <3>2. Stored([to |-> "accounts", id |-> id])
      BY <3>1 DEF StoredAll
    <3> QED BY <3>2, KindOfStored
  <2>2. ASSUME NEW id \in ToSet(EntityIds) PROVE entities[id] # NoEntity
    <3>1. \E i \in Steps : Upserts[i] = [to |-> "entities", id |-> id]
      BY UpsertsListed
    <3>2. Stored([to |-> "entities", id |-> id])
      BY <3>1 DEF StoredAll
    <3> QED BY <3>2, KindOfStored
  <2>3. ASSUME NEW id \in ToSet(Observed) PROVE parts[id] # "none"
    <3>1. \E i \in Steps : Upserts[i] = [to |-> "parts", id |-> id]
      BY UpsertsListed
    <3>2. Stored([to |-> "parts", id |-> id])
      BY <3>1 DEF StoredAll
    <3> QED BY <3>2, KindOfStored
  <2> QED BY <2>1, <2>2, <2>3
<1>2. Verified = ToSet(AccountIds)
  BY <1>1, KeysOfBundles DEF Verified, ImportTyped
<1>3. ASSUME NEW id \in DOMAIN entities
      PROVE  /\ id \in ToSet(BaseEntities) \cup ToSet(Expansion(Contacts)) =>
                  entities[id].status = "CAPTURED"
             /\ entities[id] # NoEntity => (entities[id].linkedAccount <=> id \in Verified)
  <2>1. entities[id] \in {NoEntity, Entity(id)}
    BY DEF ImportTyped
  <2>2. id \in ToSet(EntityIds) => entities[id] = Entity(id)
    BY <1>1, <2>1
  <2>3. ASSUME id \in ToSet(BaseEntities) \cup ToSet(Expansion(Contacts))
        PROVE  entities[id].status = "CAPTURED"
    <3>1. id \in ToSet(EntityIds)
      BY <2>3, KeysOfBundles
    <3>2. Contains(BaseEntities \o Expansion(Contacts), id)
      BY <2>3, KeysOfBundles, ContainsInSet
    <3> QED BY <2>2, <3>1, <3>2 DEF Entity, Merged
  <2>4. ASSUME entities[id] # NoEntity PROVE entities[id].linkedAccount <=> id \in Verified
    BY <1>2, <2>1, <2>4, LinkOf
  <2> QED BY <2>3, <2>4
<1>4. \A id \in ToSet(Expansion(Searched)) : entities[id] # NoEntity
  BY <1>1, KeysOfBundles
<1>5. \A id \in DOMAIN parts : parts[id] # "none"
  BY <1>1 DEF ImportTyped
<1> QED BY <1>2, <1>3, <1>4, <1>5, KeysOfBundles DEF Whole

\* For any two bundles, any number of importers and wherever each is killed: when
\* the imports that raced are over, together they have stored the whole dataset,
\* unless one was cut, and no entity is linked to an account that is not stored.
THEOREM DatasetAlwaysKept == Spec => []DatasetKept
<1>1. Init => DataInductive
  <2>1. ASSUME Init PROVE Started
    BY <2>1, ServerlessAssumption DEF Init, ImportInit, Started, Importing, Idle
  <2> QED BY <2>1, InitServer, ImportInitKept DEF Init, DataInductive
<1>2. DataInductive => DatasetKept
  <2> SUFFICES ASSUME ImportInductive PROVE DatasetKept
    BY DEF DataInductive
  <2>1. ASSUME ImportsOver, ~cut PROVE Whole
    <3>1. StoredAll
      BY <2>1 DEF ImportsOver, ImportInductive, CarriedOn
    <3> QED BY <3>1, AllIsWhole DEF ImportInductive
  <2> QED BY <2>1 DEF DatasetKept, ImportInductive, Linked
<1> QED BY <1>1, <1>2, StepData, PTL DEF Spec

---------------------------------------------------------------------------
(* The local supervisor (LocalSupervisor), from here on. *)

\* Every restart is owed to a build or a crash, and every process to a restart.
RestartsCounted ==
  /\ revision + (IF retry THEN 1 ELSE 0) <= builds + crashes
  /\ Cardinality(Spawned) + Len(queue) + (IF task = NoTask THEN 0 ELSE 1) <= revision
  /\ Cardinality(Spawned) \in Nat
  /\ Spawned = 1 .. Cardinality(Spawned)

\* What stop() and a restart exclude.
Serial ==
  /\ stopping <=> stop.pc # "no"
  /\ stopping => ~retry
  /\ task # NoTask => app = NoChild
  /\ stop.pc \in {"terminate", "done"} => task = NoTask /\ queue = << >> /\ app = NoChild

\* The process somebody still has in hand.
InHand(c) ==
  \/ app = c
  \/ task # NoTask /\ task.previous = c
  \/ stop.pc = "terminate" /\ stop.previous = c

NoneForgotten == \A c \in Child : Alive(c) => InHand(c)

SupervisorInductive == SupervisorTypeOK /\ RestartsCounted /\ Serial /\ NoneForgotten /\ NothingLeftBehind

---------------------------------------------------------------------------
\* One process at most is in hand.
LEMMA InHandOnce ==
  ASSUME SupervisorInductive PROVE OneApiProcess
BY DEF SupervisorInductive, SupervisorTypeOK, Serial, NoneForgotten, InHand, OneApiProcess, Child, NoChild

LEMMA SupervisorBounds ==
  ASSUME SupervisorTypeOK, RestartsCounted
  PROVE  /\ {MaxBuilds, MaxCrashes, MaxRevision, builds, crashes, revision, Len(queue)} \subseteq Nat
         /\ revision <= MaxRevision
         /\ MaxRevision = MaxBuilds + MaxCrashes
         /\ builds <= MaxBuilds /\ crashes <= MaxCrashes
<1>1. /\ MaxBuilds \in Nat /\ MaxCrashes \in Nat
      /\ builds \in 0 .. MaxBuilds /\ crashes \in 0 .. MaxCrashes
      /\ MaxRevision = MaxBuilds + MaxCrashes
      /\ revision \in 0 .. MaxRevision
  BY SupervisorAssumption DEF SupervisorTypeOK, MaxRevision
<1>2. Len(queue) \in Nat
  BY LenProperties DEF SupervisorTypeOK
<1> QED BY <1>1, <1>2

\* What SupervisorTypeOK says of stop.
LEMMA StopType ==
  ASSUME NEW q \in {"no", "pending", "terminate", "done"}, NEW c \in Child \cup {NoChild}
  PROVE  StopAt(q, c) \in [pc : {"no", "pending", "terminate", "done"},
                          previous : Child \cup {NoChild}]
BY DEF StopAt

LEMMA SupervisorStarts == SupervisorInit => SupervisorInductive
<1> SUFFICES ASSUME SupervisorInit PROVE SupervisorInductive
  OBVIOUS
<1>1. MaxRevision \in Nat /\ NoChild \notin Child
  BY SupervisorAssumption DEF MaxRevision, Child, NoChild
<1>2. << >> \in Seq(Child) /\ Len(<< >>) = 0
  BY EmptySeq
<1>3. SupervisorTypeOK
  <2>1. 0 \in 0 .. MaxRevision /\ 0 \in 0 .. MaxBuilds /\ 0 \in 0 .. MaxCrashes /\ 0 <= MaxRevision
    BY <1>1, SupervisorAssumption
  <2> QED BY <1>2, <2>1, StopType DEF SupervisorInit, SupervisorTypeOK
<1>4. Spawned = {} /\ \A c \in Child : ~Alive(c)
  BY DEF SupervisorInit, Spawned, Alive
<1>5. Cardinality(Spawned) = 0 /\ Spawned = 1 .. 0
  BY <1>4, FS_EmptySet
<1>6. RestartsCounted
  BY <1>2, <1>5 DEF SupervisorInit, RestartsCounted
<1>7. Serial /\ NothingLeftBehind
  BY DEF SupervisorInit, Serial, NothingLeftBehind, StopAt
<1> QED BY <1>3, <1>4, <1>6, <1>7 DEF SupervisorInductive, NoneForgotten

\* child.kill starts and ends no process.
LEMMA SignalOK ==
  ASSUME SupervisorTypeOK
  PROVE  /\ Signal(app) \in [Child -> {"unborn", "running", "signalled", "killed", "exited"}]
         /\ \A c \in Child : /\ Signal(app)[c] = "unborn" <=> child[c] = "unborn"
                             /\ Signal(app)[c] \in {"running", "signalled"} <=> Alive(c)
BY DEF SupervisorTypeOK, Signal, Alive

\* A restart asked for.
LEMMA RestartInductive ==
  ASSUME SupervisorInductive, BuildSucceeds \/ RetryFires
  PROVE  SupervisorInductive'
<1>1. /\ revision' = revision + 1 /\ retry' = FALSE /\ queue' = Append(queue, revision + 1)
      /\ UNCHANGED <<app, child, compiler, task, stopping, stop, crashes, loaded>>
  BY DEF BuildSucceeds, RetryFires, Restart
<1>2. revision' \in 0 .. MaxRevision /\ revision + 1 \in Child
      /\ builds' \in 0 .. MaxBuilds /\ revision + 1 <= builds' + crashes
  <2>1. /\ {revision, crashes, builds, MaxBuilds, MaxCrashes} \subseteq Nat
        /\ crashes <= MaxCrashes /\ builds <= MaxBuilds
        /\ MaxRevision = MaxBuilds + MaxCrashes
    BY SupervisorBounds DEF SupervisorInductive
  <2>2. revision <= builds + crashes /\ (retry => revision + 1 <= builds + crashes)
    BY <2>1 DEF SupervisorInductive, RestartsCounted
  <2>3. CASE BuildSucceeds
    <3>1. builds' = builds + 1 /\ builds < MaxBuilds
      BY <2>3 DEF BuildSucceeds
    <3> QED BY <1>1, <2>1, <2>2, <3>1 DEF Child
  <2>4. CASE RetryFires
    <3>1. builds' = builds /\ revision + 1 <= builds + crashes
      BY <2>2, <2>4 DEF RetryFires
    <3> QED BY <1>1, <2>1, <3>1 DEF Child
  <2> QED BY <2>3, <2>4
<1>3. queue' \in Seq(Child) /\ Len(queue') = Len(queue) + 1
  BY <1>1, <1>2, AppendProperties DEF SupervisorInductive, SupervisorTypeOK
<1>4. Spawned' = Spawned /\ \A c \in Child : Alive(c)' = Alive(c)
  BY <1>1 DEF Spawned, Alive
<1>5. /\ {revision, Cardinality(Spawned), Len(queue), MaxRevision} \subseteq Nat
      /\ Cardinality(Spawned) + Len(queue) + (IF task = NoTask THEN 0 ELSE 1) <= revision
  BY SupervisorBounds DEF SupervisorInductive, RestartsCounted
<1>6. Len(queue') <= MaxRevision
  BY <1>1, <1>2, <1>3, <1>5
<1>7. RestartsCounted'
  <2>1. revision' + (IF retry' THEN 1 ELSE 0) <= builds' + crashes'
    BY <1>1, <1>2, <1>5
  <2>2. Cardinality(Spawned)' = Cardinality(Spawned)
    BY <1>4
  <2>3. Cardinality(Spawned)' + Len(queue') + (IF task' = NoTask THEN 0 ELSE 1) <= revision'
    BY <1>1, <1>3, <1>5, <2>2
  <2>4. Spawned' = 1 .. Cardinality(Spawned)'
    BY <1>4, <2>2 DEF SupervisorInductive, RestartsCounted
  <2> QED BY <1>5, <2>1, <2>2, <2>3, <2>4 DEF RestartsCounted
<1>8. SupervisorTypeOK'
  BY <1>1, <1>2, <1>3, <1>6 DEF SupervisorInductive, SupervisorTypeOK
<1>9. stop.pc = "no"
  BY Zenon DEF BuildSucceeds, RetryFires, SupervisorInductive, Serial
<1>10. Serial' /\ NoneForgotten' /\ NothingLeftBehind'
  BY <1>1, <1>4, <1>9 DEF SupervisorInductive, Serial, NoneForgotten, InHand, NothingLeftBehind
<1> QED BY <1>7, <1>8, <1>10 DEF SupervisorInductive

\* A restart takes the current process away, or gives up.
LEMMA BeginInductive ==
  ASSUME SupervisorInductive, BeginRestart
  PROVE  SupervisorInductive'
<1> DEFINE state == [pc |-> "terminate", requested |-> Head(queue), previous |-> app]
<1>1. /\ queue' = Tail(queue) /\ task = NoTask
      /\ UNCHANGED <<compiler, revision, retry, stopping, stop, builds, crashes, loaded>>
      /\ \/ UNCHANGED <<app, child, task>>
         \/ ~stopping /\ app' = NoChild /\ child' = Signal(app) /\ task' = state
  BY DEF BeginRestart, Overtaken
<1>2. /\ Head(queue) \in Child /\ queue' \in Seq(Child) /\ Len(queue') = Len(queue) - 1
      /\ Len(queue) \in Nat
  BY <1>1, HeadTailProperties, LenProperties DEF BeginRestart, SupervisorInductive, SupervisorTypeOK
<1>3. state \in [pc : {"terminate"}, requested : Child, previous : Child \cup {NoChild}]
      /\ state # NoTask /\ state.previous = app
  BY <1>2 DEF SupervisorInductive, SupervisorTypeOK, NoTask
<1> HIDE DEF state
<1>4. Len(queue') <= MaxRevision
  BY <1>2, SupervisorBounds DEF SupervisorInductive, SupervisorTypeOK
<1>5. SupervisorTypeOK'
  BY <1>1, <1>2, <1>3, <1>4, SignalOK DEF SupervisorInductive, SupervisorTypeOK
<1>6. Spawned' = Spawned /\ \A c \in Child : Alive(c)' = Alive(c)
  BY <1>1, SignalOK DEF SupervisorInductive, Spawned, Alive
<1>7. RestartsCounted'
  BY <1>1, <1>2, <1>6, SupervisorBounds DEF SupervisorInductive, RestartsCounted
<1>8. Serial'
  <2>1. stop.pc \notin {"terminate", "done"}
    BY DEF SupervisorInductive, Serial, BeginRestart
  <2> QED BY <1>1, <2>1 DEF SupervisorInductive, Serial
<1>9. NoneForgotten' /\ NothingLeftBehind'
  BY <1>1, <1>3, <1>6 DEF SupervisorInductive, NoneForgotten, InHand, NothingLeftBehind, Serial
<1> QED BY <1>5, <1>7, <1>8, <1>9 DEF SupervisorInductive

\* When what a restart waits for has ended, nothing lives.
LEMMA NoneAlive ==
  ASSUME SupervisorInductive, task # NoTask, Terminated(task.previous)
  PROVE  \A c \in Child : ~Alive(c)
BY DEF SupervisorInductive, SupervisorTypeOK, Serial, NoneForgotten, InHand, Terminated, Child, NoChild

\* The next process is the only one.
LEMMA SpawnInductive ==
  ASSUME SupervisorInductive, SpawnApp
  PROVE  SupervisorInductive'
<1> DEFINE n == Cardinality(Spawned)
           c == n + 1
<1>1. /\ child' = [child EXCEPT ![c] = "running"] /\ app' = c /\ task' = NoTask /\ loaded' = builds
      /\ UNCHANGED <<compiler, revision, queue, retry, stopping, stop, builds, crashes>>
      /\ ~stopping /\ task.requested = revision /\ task # NoTask
      /\ Terminated(task.previous)
  BY DEF SpawnApp, Overtaken, NoTask
<1>2. \A d \in Child : ~Alive(d)
  BY <1>1, NoneAlive
<1>3. /\ n \in Nat /\ Spawned = 1 .. n
      /\ n + Len(queue) + 1 <= revision
  BY <1>1 DEF SupervisorInductive, RestartsCounted
<1> HIDE DEF n
<1>4. c \in Child
  BY <1>3, SupervisorBounds DEF SupervisorInductive, Child
<1>5. SupervisorTypeOK'
  BY <1>1, <1>4 DEF SupervisorInductive, SupervisorTypeOK
<1>6. Spawned' = 1 .. c
  <2>1. Spawned' = Spawned \cup {c}
    BY <1>1, <1>4 DEF SupervisorInductive, SupervisorTypeOK, Spawned
  <2> QED BY <1>3, <2>1
<1>7. Cardinality(Spawned') = c
  BY <1>3, <1>6, FS_Interval
<1>8. RestartsCounted'
  <2>1. Cardinality(Spawned') + Len(queue) + 0 <= revision /\ Cardinality(Spawned') \in Nat
    BY <1>3, <1>7, SupervisorBounds DEF SupervisorInductive
  <2>2. Spawned' = 1 .. Cardinality(Spawned')
    BY <1>6, <1>7
  <2> QED BY <1>1, <2>1, <2>2 DEF SupervisorInductive, RestartsCounted
<1>9. Serial'
  BY <1>1 DEF SupervisorInductive, Serial
<1>10. NoneForgotten'
  BY <1>1, <1>2, <1>4 DEF SupervisorInductive, SupervisorTypeOK, NoneForgotten, InHand, Alive
<1>11. NothingLeftBehind'
  BY <1>1, <1>9 DEF Serial, NothingLeftBehind
<1> QED BY <1>1, <1>5, <1>8, <1>9, <1>10, <1>11 DEF SupervisorInductive

\* A restart that gives up, or whose spawn throws.
LEMMA GiveUpInductive ==
  ASSUME SupervisorInductive, GiveUpRestart \/ SpawnThrows
  PROVE  SupervisorInductive'
<1>1. /\ task' = NoTask /\ task # NoTask /\ Terminated(task.previous)
      /\ UNCHANGED <<app, child, compiler, revision, queue, builds, crashes, loaded>>
      /\ \/ UNCHANGED <<retry, stopping, stop>>
         \/ /\ ~stopping /\ stopping' = TRUE /\ retry' = FALSE
            /\ stop' = StopAt("pending", NoChild)
  BY DEF GiveUpRestart, SpawnThrows, StopRequested, NoTask
<1>2. \A c \in Child : ~Alive(c)
  BY <1>1, NoneAlive
<1>3. SupervisorTypeOK'
  <2>1. retry' \in BOOLEAN /\ stopping' \in BOOLEAN
    BY <1>1, Zenon DEF SupervisorInductive, SupervisorTypeOK
  <2>2. stop' \in [pc : {"no", "pending", "terminate", "done"}, previous : Child \cup {NoChild}]
    <3>1. stop' \in {stop, StopAt("pending", NoChild)}
      BY <1>1, Zenon
    <3> QED BY <3>1, StopType DEF SupervisorInductive, SupervisorTypeOK
  <2> QED BY <1>1, <2>1, <2>2 DEF SupervisorInductive, SupervisorTypeOK
<1>4. Spawned' = Spawned /\ \A c \in Child : ~Alive(c)'
  BY <1>1, <1>2 DEF Spawned, Alive
<1>5. RestartsCounted'
  BY <1>1, <1>4, SupervisorBounds DEF SupervisorInductive, RestartsCounted
<1>6. Serial' /\ NoneForgotten' /\ NothingLeftBehind'
  BY <1>1, <1>4 DEF SupervisorInductive, Serial, NoneForgotten, NothingLeftBehind, StopAt
<1> QED BY <1>3, <1>5, <1>6 DEF SupervisorInductive

\* A process ends by itself.
LEMMA CrashInductive ==
  ASSUME SupervisorInductive, NEW c \in Child, AppCrashes(c)
  PROVE  SupervisorInductive'
<1>1. /\ child' = [child EXCEPT ![c] = "exited"] /\ crashes' = crashes + 1 /\ crashes < MaxCrashes
      /\ \/ ~stopping /\ app = c /\ app' = NoChild /\ retry' = TRUE
         \/ (stopping \/ app # c) /\ UNCHANGED <<app, retry>>
      /\ UNCHANGED <<compiler, revision, queue, task, stopping, stop, builds, loaded>>
      /\ child[c] = "running"
  BY DEF AppCrashes
<1>2. SupervisorTypeOK'
  <2>1. crashes' \in 0 .. MaxCrashes
    BY <1>1, SupervisorBounds DEF SupervisorInductive
  <2> QED BY <1>1, <2>1 DEF SupervisorInductive, SupervisorTypeOK
<1>3. /\ Spawned' = Spawned
      /\ \A d \in Child : Alive(d)' => d # c /\ Alive(d)
  BY <1>1 DEF SupervisorInductive, SupervisorTypeOK, Spawned, Alive
<1>4. RestartsCounted'
  BY <1>1, <1>3, SupervisorBounds DEF SupervisorInductive, RestartsCounted, SupervisorTypeOK
<1>5. Serial' /\ NothingLeftBehind'
  BY <1>1, <1>3 DEF SupervisorInductive, Serial, NothingLeftBehind
<1>6. NoneForgotten'
  BY <1>1, <1>3 DEF SupervisorInductive, NoneForgotten, InHand
<1> QED BY <1>2, <1>4, <1>5, <1>6 DEF SupervisorInductive

\* The system ends a child, or the kill timer does.
LEMMA TerminatesInductive ==
  ASSUME SupervisorInductive, (\E c \in Child : AppTerminates(c)) \/ CompilerTerminates \/ KillTimer
  PROVE  SupervisorInductive'
<1>1. /\ child' \in [Child -> {"unborn", "running", "signalled", "killed", "exited"}]
      /\ \A c \in Child : child'[c] = child[c] \/ (child[c] # "unborn" /\ child'[c] \in {"killed", "exited"})
  BY DEF AppTerminates, CompilerTerminates, KillTimer, SupervisorInductive, SupervisorTypeOK
<1>2. /\ compiler' \in {compiler, "killed", "exited"}
      /\ UNCHANGED <<app, revision, queue, task, retry, stopping, stop, builds, crashes, loaded>>
  BY DEF AppTerminates, CompilerTerminates, KillTimer
<1>3. SupervisorTypeOK'
  BY <1>1, <1>2 DEF SupervisorInductive, SupervisorTypeOK
<1>4. Spawned' = Spawned /\ \A c \in Child : Alive(c)' => Alive(c)
  BY <1>1 DEF Spawned, Alive
<1>5. RestartsCounted'
  BY <1>2, <1>4 DEF SupervisorInductive, RestartsCounted
<1>6. Serial' /\ NoneForgotten' /\ NothingLeftBehind'
  BY <1>2, <1>4 DEF SupervisorInductive, Serial, NoneForgotten, InHand, NothingLeftBehind
<1> QED BY <1>3, <1>5, <1>6 DEF SupervisorInductive

\* stop() is called.
LEMMA StopInductive ==
  ASSUME SupervisorInductive, Stop \/ CompilerFails
  PROVE  SupervisorInductive'
<1>1. /\ compiler' \in {compiler, "exited"}
      /\ UNCHANGED <<app, child, revision, queue, task, builds, crashes, loaded>>
      /\ \/ UNCHANGED <<retry, stopping, stop>>
         \/ /\ ~stopping /\ stopping' = TRUE /\ retry' = FALSE
            /\ stop' = StopAt("pending", NoChild)
  BY DEF Stop, CompilerFails, StopRequested
<1>2. SupervisorTypeOK'
  <2>1. retry' \in BOOLEAN /\ stopping' \in BOOLEAN
    BY <1>1, Zenon DEF SupervisorInductive, SupervisorTypeOK
  <2>2. stop' \in [pc : {"no", "pending", "terminate", "done"}, previous : Child \cup {NoChild}]
    <3>1. stop' \in {stop, StopAt("pending", NoChild)}
      BY <1>1, Zenon
    <3> QED BY <3>1, StopType DEF SupervisorInductive, SupervisorTypeOK
  <2> QED BY <1>1, <2>1, <2>2 DEF SupervisorInductive, SupervisorTypeOK
<1>3. Spawned' = Spawned /\ \A c \in Child : Alive(c)' = Alive(c)
  BY <1>1 DEF Spawned, Alive
<1>4. RestartsCounted'
  BY <1>1, <1>3, SupervisorBounds DEF SupervisorInductive, RestartsCounted
<1>5. Serial' /\ NoneForgotten' /\ NothingLeftBehind'
  BY <1>1, <1>3 DEF SupervisorInductive, Serial, NoneForgotten, InHand, NothingLeftBehind, StopAt
<1> QED BY <1>2, <1>4, <1>5 DEF SupervisorInductive

\* stop() takes the current process, and later has waited for it.
LEMMA StopChildrenInductive ==
  ASSUME SupervisorInductive, StopChildren
  PROVE  SupervisorInductive'
<1>1. /\ app' = NoChild /\ child' = Signal(app) /\ compiler' \in {compiler, "signalled"}
      /\ stop' = [pc |-> "terminate", previous |-> app]
      /\ stop.pc = "pending" /\ task = NoTask /\ queue = << >>
      /\ UNCHANGED <<revision, queue, task, retry, stopping, builds, crashes, loaded>>
  BY DEF StopChildren, StopAt
<1>2. SupervisorTypeOK'
  BY <1>1, SignalOK DEF SupervisorInductive, SupervisorTypeOK
<1>3. Spawned' = Spawned /\ \A c \in Child : Alive(c)' = Alive(c)
  BY <1>1, SignalOK DEF SupervisorInductive, Spawned, Alive
<1>4. RestartsCounted'
  BY <1>1, <1>3 DEF SupervisorInductive, RestartsCounted
<1>5. Serial' /\ NoneForgotten' /\ NothingLeftBehind'
  BY <1>1, <1>3 DEF SupervisorInductive, Serial, NoneForgotten, InHand, NothingLeftBehind
<1> QED BY <1>2, <1>4, <1>5 DEF SupervisorInductive

LEMMA StopDoneInductive ==
  ASSUME SupervisorInductive, StopDone
  PROVE  SupervisorInductive'
<1>1. /\ stop' = [pc |-> "done", previous |-> NoChild]
      /\ stop.pc = "terminate" /\ compiler \in {"killed", "exited"} /\ Terminated(stop.previous)
      /\ UNCHANGED <<app, child, compiler, revision, queue, task, retry, stopping, builds, crashes, loaded>>
  BY DEF StopDone, StopAt
<1>2. \A c \in Child : ~Alive(c)
  BY <1>1 DEF SupervisorInductive, Serial, NoneForgotten, InHand, Terminated, Child, NoChild
<1>3. SupervisorTypeOK'
  BY <1>1 DEF SupervisorInductive, SupervisorTypeOK
<1>4. Spawned' = Spawned /\ \A c \in Child : ~Alive(c)'
  BY <1>1, <1>2 DEF Spawned, Alive
<1>5. RestartsCounted'
  BY <1>1, <1>4 DEF SupervisorInductive, RestartsCounted
<1>6. Serial' /\ NoneForgotten' /\ NothingLeftBehind'
  BY <1>1, <1>4 DEF SupervisorInductive, Serial, NoneForgotten, NothingLeftBehind
<1> QED BY <1>3, <1>5, <1>6 DEF SupervisorInductive

LEMMA IdleInductive ==
  ASSUME SupervisorInductive, UNCHANGED supervisorVars
  PROVE  SupervisorInductive'
<1>1. UNCHANGED <<Spawned, app, child, compiler, revision, queue, task, retry, stopping, stop,
                  builds, crashes, loaded>>
  BY DEF supervisorVars, Spawned
<1>2. SupervisorTypeOK' /\ RestartsCounted'
  BY <1>1 DEF SupervisorInductive, SupervisorTypeOK, RestartsCounted
<1> QED BY <1>1, <1>2 DEF SupervisorInductive, Serial, NoneForgotten, InHand, Alive, NothingLeftBehind

LEMMA AlwaysInductive == SupervisorSpec => []SupervisorInductive
<1>1. SupervisorInductive /\ [SupervisorNext]_supervisorVars => SupervisorInductive'
  BY RestartInductive, BeginInductive, SpawnInductive, GiveUpInductive, CrashInductive,
     TerminatesInductive, StopInductive, StopChildrenInductive, StopDoneInductive, IdleInductive
     DEF SupervisorNext, Stopped
<1> QED BY SupervisorStarts, <1>1, PTL DEF SupervisorSpec

---------------------------------------------------------------------------
\* Every variable keeps its type; in particular no restart and no process is
\* more than the builds and crashes account for.
THEOREM SupervisorTypeCorrect == SupervisorSpec => []SupervisorTypeOK
<1>1. SupervisorInductive => SupervisorTypeOK
  BY DEF SupervisorInductive
<1> QED BY AlwaysInductive, <1>1, PTL

\* Never two API processes, in any order of builds, crashes, retries, slow
\* terminations and stop().
THEOREM NeverTwo == SupervisorSpec => []OneApiProcess
<1>1. SupervisorInductive => OneApiProcess
  BY InHandOnce
<1> QED BY AlwaysInductive, <1>1, PTL

\* When stop() has resolved, nothing is left running.
THEOREM StopEndsAll == SupervisorSpec => []NothingLeftBehind
<1>1. SupervisorInductive => NothingLeftBehind
  BY DEF SupervisorInductive
<1> QED BY AlwaysInductive, <1>1, PTL

\* What is asked for last is waiting, running, or done: the last restart that waits is
\* the newest, and a restart that runs with none behind it is.
NewestLast ==
  /\ queue # << >> => queue[Len(queue)] = revision
  /\ queue = << >> /\ task # NoTask => task.requested = revision

LatestInductive == NewestLast /\ LatestBuildRuns

\* A restart is asked for, begins, or starts its process.
LEMMA RestartLatest ==
  ASSUME SupervisorInductive, LatestInductive, BuildSucceeds \/ RetryFires
  PROVE  LatestInductive'
<1>1. revision' = revision + 1 /\ queue' = Append(queue, revision + 1)
  BY DEF BuildSucceeds, RetryFires, Restart
<1>2. queue \in Seq(Child) /\ revision + 1 \in Nat
  BY SupervisorBounds DEF SupervisorInductive, SupervisorTypeOK
<1>3. queue' # << >> /\ queue'[Len(queue')] = revision'
  BY <1>1, <1>2
<1> QED BY <1>3 DEF LatestInductive, NewestLast, LatestBuildRuns

LEMMA BeginLatest ==
  ASSUME SupervisorInductive, LatestInductive, BeginRestart
  PROVE  LatestInductive'
<1>1. /\ task = NoTask /\ queue # << >> /\ queue' = Tail(queue)
      /\ UNCHANGED <<revision, retry, stopping, builds, loaded>>
      /\ \/ (stopping \/ Head(queue) # revision) /\ UNCHANGED <<app, task>>
         \/ task' = [pc |-> "terminate", requested |-> Head(queue), previous |-> app]
  BY DEF BeginRestart, Overtaken
<1>2. queue \in Seq(Child)
  BY DEF SupervisorInductive, SupervisorTypeOK
<1>3. queue' # << >> => queue'[Len(queue')] = revision
  BY <1>1, <1>2 DEF LatestInductive, NewestLast
<1>4. queue' = << >> => Head(queue) = revision
  <2> SUFFICES ASSUME queue' = << >> PROVE Head(queue) = revision
    OBVIOUS
  <2>1. Len(queue) \in Nat /\ Len(queue) # 0 /\ Len(queue) - 1 = 0
    BY <1>1, <1>2, EmptySeq, LenProperties, HeadTailProperties
  <2>2. Len(queue) = 1
    BY <2>1
  <2>3. queue[Len(queue)] = revision
    BY <1>1 DEF LatestInductive, NewestLast
  <2>4. queue[1] = revision
    BY <2>2, <2>3, Zenon
  <2> QED BY <2>4
<1>5. CASE (stopping \/ Head(queue) # revision) /\ UNCHANGED <<app, task>>
  BY <1>1, <1>3, <1>4, <1>5 DEF LatestInductive, NewestLast, LatestBuildRuns
<1>6. CASE task' = [pc |-> "terminate", requested |-> Head(queue), previous |-> app]
  <2>1. task' # NoTask /\ task'.requested = Head(queue)
    BY <1>6 DEF NoTask
  <2> QED BY <1>1, <1>3, <1>4, <2>1 DEF LatestInductive, NewestLast, LatestBuildRuns
<1> QED BY <1>1, <1>5, <1>6

LEMMA SpawnLatest ==
  ASSUME SupervisorInductive, LatestInductive, SpawnApp
  PROVE  LatestInductive'
<1>1. /\ task' = NoTask /\ app' = Cardinality(Spawned) + 1 /\ loaded' = builds
      /\ UNCHANGED <<revision, queue, builds>>
  BY DEF SpawnApp
<1>2. Cardinality(Spawned) + 1 # NoChild
  BY DEF SupervisorInductive, RestartsCounted, NoChild
<1> QED BY <1>1, <1>2 DEF LatestInductive, NewestLast, LatestBuildRuns

\* A restart gives up for a newer one, or because of stop().
LEMMA GiveUpLatest ==
  ASSUME SupervisorInductive, LatestInductive, GiveUpRestart \/ SpawnThrows
  PROVE  LatestInductive'
<1>1. /\ task' = NoTask /\ task # NoTask
      /\ UNCHANGED <<revision, queue, builds>>
      /\ stopping' \/ task.requested # revision
  BY DEF GiveUpRestart, SpawnThrows, StopRequested, Overtaken, NoTask
<1> QED BY <1>1 DEF LatestInductive, NewestLast, LatestBuildRuns

LEMMA StepLatest ==
  ASSUME SupervisorInductive, LatestInductive, [SupervisorNext]_supervisorVars
  PROVE  LatestInductive'
<1>1. ASSUME NEW c \in Child, AppCrashes(c) PROVE LatestInductive'
  <2>1. /\ UNCHANGED <<revision, queue, task, stopping, builds, loaded>>
        /\ \/ app' = NoChild /\ retry' = TRUE
           \/ UNCHANGED <<app, retry>>
    BY <1>1 DEF AppCrashes
  <2> QED BY <2>1 DEF LatestInductive, NewestLast, LatestBuildRuns
<1>2. CASE Stop \/ CompilerFails \/ StopChildren
  <2>1. /\ UNCHANGED <<revision, queue, task>>
        /\ stopping'
    BY <1>2 DEF Stop, CompilerFails, StopRequested, StopChildren, SupervisorInductive, Serial
  <2> QED BY <2>1 DEF LatestInductive, NewestLast, LatestBuildRuns
<1>3. CASE UNCHANGED <<app, revision, queue, task, retry, stopping, builds, loaded>>
  BY <1>3 DEF LatestInductive, NewestLast, LatestBuildRuns
<1> QED BY <1>1, <1>2, <1>3, RestartLatest, BeginLatest, SpawnLatest, GiveUpLatest
        DEF SupervisorNext, AppTerminates, CompilerTerminates, KillTimer, StopDone, Stopped, supervisorVars

\* No build is lost: when nothing is under way the API runs the latest one, or the
\* retry timer is set, for any number of builds, crashes and slow terminations.
THEOREM LatestAlwaysRuns == SupervisorSpec => []LatestBuildRuns
<1>1. SupervisorInit => LatestInductive
  BY DEF SupervisorInit, LatestInductive, NewestLast, LatestBuildRuns
<1>2. SupervisorInductive /\ LatestInductive /\ [SupervisorNext]_supervisorVars => LatestInductive'
  BY StepLatest
<1>3. LatestInductive => LatestBuildRuns
  BY DEF LatestInductive
<1> QED BY AlwaysInductive, <1>1, <1>2, <1>3, PTL DEF SupervisorSpec
=============================================================================
