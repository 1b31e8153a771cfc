---------------------------- MODULE OneShotPlans ----------------------------
(***************************************************************************)
(* What the confirmation of plans promises, with the store, its flags and  *)
(* timers and the two dialogues left out: a plan is open once, from its    *)
(* creation to the first thing that uses it up.  A handler is let in while *)
(* the plan is open, never after, and stays with that plan until it        *)
(* leaves; it acts on the server only once the plan is closed to others.   *)
(***************************************************************************)
CONSTANTS Plans, NoPlan, Handlers

VARIABLES
  life,      \* life[p] : "new", "open" or "closed"
  inside,    \* inside[h] : the plan that let the handler in, or NoPlan
  acting     \* the handlers that run the steps of their plan

vars == <<life, inside, acting>>

Init ==
  /\ life = [p \in Plans |-> "new"]
  /\ inside = [h \in Handlers |-> NoPlan]
  /\ acting = {}

Open(p) ==
  /\ life[p] = "new"
  /\ life' = [life EXCEPT ![p] = "open"]
  /\ UNCHANGED <<inside, acting>>

Enter(h, p) ==
  /\ inside[h] = NoPlan
  /\ life[p] = "open"
  /\ inside' = [inside EXCEPT ![h] = p]
  /\ UNCHANGED <<life, acting>>

\* A cancel, a denial, the clock.
Close(S) ==
  /\ \A p \in S : life[p] # "new"
  /\ life' = [p \in Plans |-> IF p \in S THEN "closed" ELSE life[p]]
  /\ UNCHANGED <<inside, acting>>

Begin(h) ==
  /\ inside[h] # NoPlan /\ h \notin acting
  /\ life' = [life EXCEPT ![inside[h]] = "closed"]
  /\ acting' = acting \cup {h}
  /\ UNCHANGED inside

Leave(h) ==
  /\ inside[h] # NoPlan
  /\ life' \in {life, [life EXCEPT ![inside[h]] = "closed"]}
  /\ inside' = [inside EXCEPT ![h] = NoPlan]
  /\ acting' = acting \ {h}

Next ==
  \/ \E p \in Plans : Open(p)
  \/ \E S \in SUBSET Plans : Close(S)
  \/ \E h \in Handlers :
       Begin(h) \/ Leave(h) \/ \E p \in Plans : Enter(h, p)

Spec == Init /\ [][Next]_vars
=============================================================================
