----------------------------- MODULE KeyedMutex -----------------------------
(***************************************************************************)
(* What games/lock.ts promises its callers, with the mechanism left out:   *)
(* "strictly sequential execution per key".  A key has at most one owner;  *)
(* a caller that asks for an owned key is parked until the owner passes    *)
(* the key on, or until it gives up.  A free key has no parked caller.     *)
(***************************************************************************)
CONSTANTS Callers, Keys, Nobody

VARIABLES
  owner,    \* owner[k]  : the caller that may run under k, or Nobody
  parked    \* parked[k] : the callers waiting for k

vars == <<owner, parked>>

TypeOK ==
  /\ owner  \in [Keys -> Callers \cup {Nobody}]
  /\ parked \in [Keys -> SUBSET Callers]

Init ==
  /\ owner  = [k \in Keys |-> Nobody]
  /\ parked = [k \in Keys |-> {}]

Take(c, k) ==
  /\ owner[k] = Nobody
  /\ owner' = [owner EXCEPT ![k] = c]
  /\ UNCHANGED parked

Park(c, k) ==
  /\ owner[k] # Nobody
  /\ c \notin parked[k]
  /\ parked' = [parked EXCEPT ![k] = @ \cup {c}]
  /\ UNCHANGED owner

GiveUp(c, k) ==
  /\ c \in parked[k]
  /\ parked' = [parked EXCEPT ![k] = @ \ {c}]
  /\ UNCHANGED owner

\* The owner leaves: the key goes to a parked caller, and is freed only when
\* there is none.
PassOn(k) ==
  /\ owner[k] # Nobody
  /\ parked[k] # {}
  /\ \E d \in parked[k] :
       /\ owner'  = [owner EXCEPT ![k] = d]
       /\ parked' = [parked EXCEPT ![k] = @ \ {d}]

Free(k) ==
  /\ owner[k] # Nobody
  /\ parked[k] = {}
  /\ owner' = [owner EXCEPT ![k] = Nobody]
  /\ UNCHANGED parked

Next ==
  \E k \in Keys :
    \/ PassOn(k)
    \/ Free(k)
    \/ \E c \in Callers : Take(c, k) \/ Park(c, k) \/ GiveUp(c, k)

Spec == Init /\ [][Next]_vars
=============================================================================
