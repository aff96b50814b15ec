------------------------------ MODULE RateLimit ------------------------------
(***************************************************************************)
(* auth/auth-rate-limit.guard.ts: fixed windows, one stored counter per    *)
(* policy, identity and window, shared by every worker. A request consumes *)
(* its address's counter and then, when its body names an e-mail, that     *)
(* one's; an upsert that loses the insertion of a counter repeats its      *)
(* increment. A TTL index deletes the counters of windows that are over.   *)
(*                                                                         *)
(* A key stands for the hash of policy and identity; the handling of IPv6  *)
(* networks and the answer's headers are left out.                         *)
(***************************************************************************)
EXTENDS Naturals, Sequences

CONSTANTS
  Requests,
  Key,        \* what is counted: addresses and e-mails, under one policy
  Limit,      \* requests allowed per window, by key
  MaxWindow   \* bound: windows after the first

ASSUME RateLimitAssumption == Limit \in [Key -> Nat] /\ MaxWindow \in Nat

Window == 0 .. MaxWindow

VARIABLES
  count,    \* the stored counters, by window and key; 0: there is none
  window,   \* the window `now` is in
  guard,    \* how far each request has got in the guard
  granted   \* history: requests a counter let through since it was inserted

limitVars == <<count, window, guard, granted>>

\* keys: the counters a request still has to consume, the next one first.
Outside == [pc |-> "outside"]
Consuming(keys) == [pc |-> "consume", keys |-> keys]
Passed == [pc |-> "passed"]
TooMany == [pc |-> "429"]
Unavailable == [pc |-> "503"]

LimitInit ==
  /\ count = [w \in Window |-> [k \in Key |-> 0]]
  /\ window = 0
  /\ guard = [r \in Requests |-> Outside]
  /\ granted = [w \in Window |-> [k \in Key |-> 0]]

Guard(r, state) == guard' = [guard EXCEPT ![r] = state]

\* canActivate
EnterGuard(r, keys) ==
  /\ guard[r] = Outside
  /\ Guard(r, Consuming(keys))
  /\ UNCHANGED <<count, window, granted>>

\* consume() takes the window from the clock once, and looks up its counter.
TakeWindow(r) ==
  /\ guard[r].pc = "consume"
  /\ Guard(r, [pc |-> "upsert", keys |-> guard[r].keys, window |-> window])
  /\ UNCHANGED <<count, window, granted>>

\* Mutant: one request more passes than the limit says.
CountedOneMore(r, n) ==
  LET w == guard[r].window  k == Head(guard[r].keys) IN
  /\ count' = [count EXCEPT ![w][k] = n]
  /\ IF n > Limit[k] + 1
     THEN Guard(r, TooMany) /\ UNCHANGED granted
     ELSE /\ Guard(r, IF Len(guard[r].keys) = 1 THEN Passed ELSE Consuming(Tail(guard[r].keys)))
          /\ granted' = [granted EXCEPT ![w][k] = @ + 1]

\* The counter comes back as n: too many, or on to the next key.
Counted(r, n) ==
  LET w == guard[r].window  k == Head(guard[r].keys) IN
  /\ count' = [count EXCEPT ![w][k] = n]
  /\ IF n > Limit[k]
     THEN Guard(r, TooMany) /\ UNCHANGED granted
     ELSE /\ Guard(r, IF Len(guard[r].keys) = 1 THEN Passed ELSE Consuming(Tail(guard[r].keys)))
          /\ granted' = [granted EXCEPT ![w][k] = @ + 1]

CounterOf(r) == count[guard[r].window][Head(guard[r].keys)]

\* findOneAndUpdate with upsert increments the counter it finds; without one it
\* sets out to insert it.
Upsert(r) ==
  /\ guard[r].pc = "upsert"
  /\ IF CounterOf(r) > 0
     THEN Counted(r, CounterOf(r) + 1)
     ELSE Guard(r, [guard[r] EXCEPT !.pc = "insert"]) /\ UNCHANGED <<count, granted>>
  /\ UNCHANGED window

\* The insertion, unless another worker was first: a duplicate key (11000).
Insert(r) ==
  /\ guard[r].pc = "insert"
  /\ IF CounterOf(r) = 0
     THEN Counted(r, 1)
     ELSE Guard(r, [guard[r] EXCEPT !.pc = "retry"]) /\ UNCHANGED <<count, granted>>
  /\ UNCHANGED window

\* The increment again, without upsert: the counter may be gone by now.
RetryIncrement(r) ==
  /\ guard[r].pc = "retry"
  /\ IF CounterOf(r) > 0
     THEN Counted(r, CounterOf(r) + 1)
     ELSE Guard(r, Unavailable) /\ UNCHANGED <<count, granted>>
  /\ UNCHANGED window

\* Any other error of the database: nobody passes.
CounterFails(r) ==
  /\ guard[r].pc \in {"upsert", "insert", "retry"}
  /\ Guard(r, Unavailable)
  /\ UNCHANGED <<count, window, granted>>

\* The TTL index deletes a counter whose window is over.
DeleteCounter ==
  /\ \E w \in Window, k \in Key :
       /\ w < window /\ count[w][k] > 0
       /\ count' = [count EXCEPT ![w][k] = 0]
       /\ granted' = [granted EXCEPT ![w][k] = 0]
  /\ UNCHANGED <<window, guard>>

NextWindow ==
  /\ window < MaxWindow
  /\ window' = window + 1
  /\ UNCHANGED <<count, guard, granted>>

GuardStep(r) ==
  TakeWindow(r) \/ Upsert(r) \/ Insert(r) \/ RetryIncrement(r) \/ CounterFails(r)

---------------------------------------------------------------------------
LimitTypeOK ==
  /\ count \in [Window -> [Key -> Nat]]
  /\ window \in Window
  /\ granted \in [Window -> [Key -> Nat]]

\* However the upserts of different workers race, at most Limit requests of a key
\* are let through in a window: the counters implement the quota.
Promise == INSTANCE Quota WITH
  Key <- Key, Limit <- Limit, Window <- Window, granted <- granted, window <- window
QuotaKept == Promise!QuotaSpec
=============================================================================
