-------------------------------- MODULE Quota --------------------------------
(***************************************************************************)
(* What the rate limit promises, without counters, retries or workers: of  *)
(* the requests that name a key in a window at most Limit[key] are let     *)
(* through, until the window is over and forgotten.                        *)
(***************************************************************************)
EXTENDS Naturals

CONSTANTS Key, Limit, Window

VARIABLES
  granted,  \* requests let through, by window and key
  window    \* the current window

QuotaInit ==
  /\ granted = [w \in Window |-> [k \in Key |-> 0]]
  /\ window = 0

Grant(w, k) ==
  /\ granted[w][k] < Limit[k]
  /\ granted' = [granted EXCEPT ![w][k] = @ + 1]
  /\ UNCHANGED window

Forget(w, k) ==
  /\ w < window
  /\ granted' = [granted EXCEPT ![w][k] = 0]
  /\ UNCHANGED window

NextWindow == window + 1 \in Window /\ window' = window + 1 /\ UNCHANGED granted

QuotaNext ==
  \/ \E w \in Window, k \in Key : Grant(w, k) \/ Forget(w, k)
  \/ NextWindow

QuotaSpec == QuotaInit /\ [][QuotaNext]_<<granted, window>>
=============================================================================
