---------------------------- MODULE ServerSlots -----------------------------
(***************************************************************************)
(* What the pool promises of the servers, without threads, entries or      *)
(* reloads: a request is sent to a server only while the server's load is  *)
(* below its limit; limits may change at any time without touching the     *)
(* requests in flight; and once the pool is up some server can be used.    *)
(***************************************************************************)
EXTENDS Naturals

CONSTANTS
  Servers,  \* the servers
  Limits    \* values a limit may have; 0 is a server that takes no request

VARIABLES
  limit,    \* requests each server may have
  load      \* requests each server has

Init ==
  /\ limit = [k \in Servers |-> 0]
  /\ load = [k \in Servers |-> 0]

Acquire(k) ==
  /\ load[k] < limit[k]
  /\ load' = [load EXCEPT ![k] = @ + 1]
  /\ UNCHANGED limit

Release(k) ==
  /\ load[k] > 0
  /\ load' = [load EXCEPT ![k] = @ - 1]
  /\ UNCHANGED limit

Resize ==
  /\ limit' \in [Servers -> Limits]
  /\ \E k \in Servers : limit'[k] > 0
  /\ UNCHANGED load

Next == Resize \/ \E k \in Servers : Acquire(k) \/ Release(k)

Spec == Init /\ [][Next]_<<limit, load>>
=============================================================================
