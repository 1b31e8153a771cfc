------------------------ MODULE PlanConfirmationProofs ------------------------
(***************************************************************************)
(* For any number of plans, presses, messages and steps: the variables     *)
(* keep their types, a consumed plan stays dead, and a "yes" runs the plan *)
(* whose id it looked up.                                                  *)
(*                                                                         *)
(* That a plan is dead shows at the guards (no press, no message passes    *)
(* one), but it is decided in the store: what makes the property inductive *)
(* is that a consumed plan is never pending, and that it cannot be offered *)
(* again because it was created before.  What a "yes" runs is decided in   *)
(* the two slots of the conversation state: the second never names a       *)
(* stored plan that the first does not hold.                               *)
(***************************************************************************)
EXTENDS PlanConfirmation, TLAPS

PressType == [at : {"idle", "checking", "deferring", "running", "replying"},
              plan : Plans \cup {NoPlan}, step : 0..Steps, late : BOOLEAN]
TextType  == [at : {"idle", "running"}, plan : Slots, id : Slots,
              mine : BOOLEAN, late : BOOLEAN]

ConsumedWasCreated == consumed \subseteq created
StoredWasCreated == \A p \in Plans : store[p] # "absent" => p \in created
ConsumedNotPending == \A p \in consumed : store[p] # "pending"
InFlightCreated ==
  /\ confirmation \in created \cup {NoPlan, Unstored}
  /\ \A b \in Presses : IF press[b].at = "idle" THEN press[b].plan = NoPlan
                                                 ELSE press[b].plan \in created
  /\ \A t \in Texts : IF text[t].at = "idle" THEN text[t].id = NoPlan
                                              ELSE text[t].id \in created
SlotsAgree ==
  /\ confirmation \in Plans => unified = confirmation
  /\ unified # NoPlan => confirmation # NoPlan

IInv ==
  /\ TypeOK
  /\ ConsumedWasCreated
  /\ StoredWasCreated
  /\ ConsumedNotPending
  /\ InFlightCreated
  /\ SlotsAgree
  /\ ConsumedStaysDead
  /\ YesRunsItsPlan

-----------------------------------------------------------------------------
\* Deleting a plan from the store, or marking it, leaves a well-typed store in
\* which no plan is new, and none is pending that was not, nor the plan itself.
LEMMA StoreLemma ==
  ASSUME NEW s \in [Plans -> {"absent", "pending", "executed"}], NEW p \in Plans,
         store = s
  PROVE  /\ Removed(p) \in [Plans -> {"absent", "pending", "executed"}]
         /\ Marked(p) \in [Plans -> {"absent", "pending", "executed"}]
         /\ \A q \in Plans : Removed(p)[q] = "pending" => store[q] = "pending" /\ q # p
         /\ \A q \in Plans : Marked(p)[q] = "pending" => store[q] = "pending" /\ q # p
         /\ \A q \in Plans : Removed(p)[q] # "absent" => store[q] # "absent"
         /\ \A q \in Plans : Marked(p)[q] # "absent" => store[q] # "absent"
BY DEF Removed, Marked

\* The same for an id that may name no stored plan.
LEMMA WithoutLemma ==
  ASSUME NEW s \in [Plans -> {"absent", "pending", "executed"}], NEW c \in Slots, store = s
  PROVE  /\ Without(c) \in [Plans -> {"absent", "pending", "executed"}]
         /\ \A q \in Plans : Without(c)[q] = "pending" => store[q] = "pending" /\ q # c
         /\ \A q \in Plans : Without(c)[q] # "absent" => store[q] # "absent"
<1>1. CASE c \in Plans
  BY <1>1, StoreLemma DEF Without
<1>2. CASE c \notin Plans
  BY <1>2 DEF Without
<1> QED
  BY <1>1, <1>2

\* The empty store, with nothing on screen and nothing in flight, satisfies it.
LEMMA InitIInv == Init => IInv
BY StepsAssumption, NoPlanAssumption
DEF Init, IInv, TypeOK, ConsumedWasCreated, StoredWasCreated, ConsumedNotPending,
    InFlightCreated, SlotsAgree, ConsumedStaysDead, YesRunsItsPlan, IdlePress, IdleText, Slots

\* Requests, the clock and the store's timer preserve it.
LEMMA StoreSteps ==
  ASSUME IInv,
         \/ \E p \in Plans : Offer(p) \/ Expire(p) \/ PressCancel(p)
         \/ Cleanup \/ AskModify \/ OfferUnstored \/ Forget
  PROVE  IInv'
<1> USE DEF IInv
<1>1. CASE \E p \in Plans : Offer(p)
  <2> PICK p \in Plans : Offer(p)
    BY <1>1
  <2> USE DEF Offer, Slot, Kept
  <2>1. TypeOK'
    BY DEF TypeOK, Slots
  <2>2. ConsumedWasCreated' /\ StoredWasCreated' /\ ConsumedNotPending'
    BY DEF ConsumedWasCreated, StoredWasCreated, ConsumedNotPending, TypeOK
  <2>3. InFlightCreated' /\ SlotsAgree' /\ ConsumedStaysDead' /\ YesRunsItsPlan'
    BY NoPlanAssumption DEF InFlightCreated, SlotsAgree, ConsumedStaysDead, YesRunsItsPlan
  <2> QED
    BY <2>1, <2>2, <2>3
<1>2. CASE \E p \in Plans : Expire(p)
  BY <1>2 DEF Expire, TypeOK, ConsumedWasCreated, StoredWasCreated, ConsumedNotPending,
              InFlightCreated, SlotsAgree, ConsumedStaysDead, YesRunsItsPlan
<1>3. CASE \E p \in Plans : PressCancel(p)
  <2> PICK p \in Plans : PressCancel(p)
    BY <1>3
  <2> USE DEF PressCancel
  <2>1. TypeOK'
    BY StoreLemma DEF TypeOK
  <2>2. p \in created
    BY DEF StoredWasCreated
  <2>3. ConsumedWasCreated' /\ StoredWasCreated' /\ ConsumedNotPending'
    BY <2>2, StoreLemma DEF ConsumedWasCreated, StoredWasCreated, ConsumedNotPending, TypeOK
  <2>4. InFlightCreated' /\ SlotsAgree' /\ ConsumedStaysDead' /\ YesRunsItsPlan'
    BY DEF InFlightCreated, SlotsAgree, ConsumedStaysDead, YesRunsItsPlan
  <2> QED
    BY <2>1, <2>3, <2>4
<1>4. CASE Cleanup
  <2> USE <1>4 DEF Cleanup
  <2>1. TypeOK'
    BY DEF TypeOK
  <2>2. ConsumedWasCreated' /\ StoredWasCreated' /\ ConsumedNotPending'
    BY DEF ConsumedWasCreated, StoredWasCreated, ConsumedNotPending, TypeOK
  <2>3. InFlightCreated' /\ SlotsAgree' /\ ConsumedStaysDead' /\ YesRunsItsPlan'
    BY DEF InFlightCreated, SlotsAgree, ConsumedStaysDead, YesRunsItsPlan
  <2> QED
    BY <2>1, <2>2, <2>3
<1>5. CASE AskModify \/ OfferUnstored
  BY <1>5, NoPlanAssumption
  DEF AskModify, OfferUnstored, Slot, Slots, TypeOK, ConsumedWasCreated, StoredWasCreated,
      ConsumedNotPending, InFlightCreated, SlotsAgree, ConsumedStaysDead, YesRunsItsPlan
<1>6. CASE Forget
  <2> USE <1>6, NoPlanAssumption DEF Forget, Slot
  <2>0. text \in [Texts -> TextType]
    BY DEF TypeOK, TextType
  <2>1. \A t \in Texts : /\ text'[t] \in TextType
                         /\ text'[t].at = text[t].at /\ text'[t].plan = text[t].plan
                         /\ text'[t].id = text[t].id /\ text'[t].late = text[t].late
    BY <2>0 DEF TextType
  <2>2. TypeOK'
    <3>1. text' \in [Texts -> TextType]
      BY <2>1
    <3> QED
      BY <3>1 DEF TypeOK, TextType, Slots
  <2>3. ConsumedWasCreated' /\ StoredWasCreated' /\ ConsumedNotPending'
    BY DEF ConsumedWasCreated, StoredWasCreated, ConsumedNotPending
  <2>4. InFlightCreated' /\ SlotsAgree' /\ ConsumedStaysDead' /\ YesRunsItsPlan'
    BY <2>1 DEF InFlightCreated, SlotsAgree, ConsumedStaysDead, YesRunsItsPlan
  <2> QED
    BY <2>2, <2>3, <2>4
<1> QED
  BY <1>1, <1>2, <1>3, <1>4, <1>5, <1>6

\* Every step of a press preserves it.
LEMMA PressSteps ==
  ASSUME IInv, NEW b \in Presses,
         PressGoesOn(b) \/ \E p \in Plans : PressAccepted(b, p) \/ PressRefused(b, p)
  PROVE  IInv'
<1> USE DEF IInv
<1>0. /\ press \in [Presses -> PressType]
      /\ press[b].at # "idle" => press[b].plan \in created /\ press[b].plan \in Plans
  BY DEF TypeOK, InFlightCreated, PressType
<1>1. CASE \E p \in Plans : PressAccepted(b, p)
  <2> PICK p \in Plans : PressAccepted(b, p)
    BY <1>1
  <2> USE DEF PressAccepted
  <2>1. p \notin consumed
    BY DEF Verifies, ConsumedNotPending
  <2>2. TypeOK'
    BY StepsAssumption DEF TypeOK
  <2>3. ConsumedWasCreated' /\ StoredWasCreated' /\ ConsumedNotPending'
    BY DEF ConsumedWasCreated, StoredWasCreated, ConsumedNotPending
  <2>4. InFlightCreated' /\ SlotsAgree' /\ ConsumedStaysDead' /\ YesRunsItsPlan'
    BY <1>0, <2>1 DEF InFlightCreated, SlotsAgree, ConsumedStaysDead, YesRunsItsPlan, PressType
  <2> QED
    BY <2>2, <2>3, <2>4
<1>2. CASE \E p \in Plans : PressRefused(b, p)
  <2> PICK p \in Plans : PressRefused(b, p)
    BY <1>2
  <2> USE DEF PressRefused
  <2>1. TypeOK'
    BY StoreLemma DEF TypeOK
  <2>2. ConsumedWasCreated' /\ StoredWasCreated' /\ ConsumedNotPending'
    BY StoreLemma DEF ConsumedWasCreated, StoredWasCreated, ConsumedNotPending, TypeOK
  <2>3. InFlightCreated' /\ SlotsAgree' /\ ConsumedStaysDead' /\ YesRunsItsPlan'
    BY DEF InFlightCreated, SlotsAgree, ConsumedStaysDead, YesRunsItsPlan
  <2> QED
    BY <2>1, <2>2, <2>3
<1>3. CASE PressAllowed(b) \/ PressAborted(b) \/ PressStepEnds(b)
  <2> USE <1>3 DEF PressAllowed, PressAborted, PressStepEnds, IdlePress
  <2>1. press' \in [Presses -> PressType]
    <3>1. /\ IdlePress \in PressType
          /\ [press[b] EXCEPT !.at = "deferring"] \in PressType
          /\ [press[b] EXCEPT !.at = "replying"] \in PressType
      BY <1>0, StepsAssumption DEF PressType
    <3>2. HasNextStep(b) => press[b].step + 1 \in 0..Steps
      BY <1>0, StepsAssumption DEF HasNextStep, PressType
    <3>3. HasNextStep(b) => [press[b] EXCEPT !.step = @ + 1] \in PressType
      BY <1>0, <3>2 DEF PressType
    <3>4. \E r \in PressType : press' = [press EXCEPT ![b] = r]
      BY <1>0, <3>1, <3>3 DEF PressType
    <3> QED
      BY <1>0, <3>4
  <2>2. TypeOK'
    BY <2>1 DEF TypeOK, PressType
  <2>3. ConsumedWasCreated' /\ StoredWasCreated' /\ ConsumedNotPending'
    BY DEF ConsumedWasCreated, StoredWasCreated, ConsumedNotPending
  <2>4. InFlightCreated' /\ SlotsAgree' /\ ConsumedStaysDead' /\ YesRunsItsPlan'
    BY <1>0 DEF InFlightCreated, SlotsAgree, ConsumedStaysDead, YesRunsItsPlan, PressType
  <2> QED
    BY <2>2, <2>3, <2>4
<1>4. CASE PressDenied(b) \/ PressEnds(b)
  <2> USE <1>4 DEF PressDenied, PressEnds, IdlePress
  <2>0. press[b].plan \in created /\ press[b].plan \in Plans
    BY <1>0
  <2>1. TypeOK'
    <3>1. IdlePress \in PressType
      BY StepsAssumption DEF PressType
    <3>2. press' \in [Presses -> PressType]
      BY <1>0, <3>1
    <3>3. store' \in [Plans -> {"absent", "pending", "executed"}]
      BY <2>0, StoreLemma DEF TypeOK
    <3> QED
      BY <2>0, <3>2, <3>3 DEF TypeOK, PressType
  <2>2. ConsumedWasCreated' /\ StoredWasCreated'
    BY <2>0, StoreLemma DEF ConsumedWasCreated, StoredWasCreated, TypeOK
  <2>3. ConsumedNotPending'
    BY <2>0, StoreLemma DEF ConsumedWasCreated, ConsumedNotPending, TypeOK
  <2>4. InFlightCreated' /\ SlotsAgree' /\ ConsumedStaysDead' /\ YesRunsItsPlan'
    BY <1>0 DEF InFlightCreated, SlotsAgree, ConsumedStaysDead, YesRunsItsPlan, PressType
  <2> QED
    BY <2>1, <2>2, <2>3, <2>4
<1>5. CASE PressExecutes(b)
  <2> USE <1>5 DEF PressExecutes
  <2>0. press[b].plan \in created /\ press[b].plan \in Plans
    BY <1>0
  <2>1. store' \in [Plans -> {"absent", "pending", "executed"}]
    BY <2>0, StoreLemma DEF TypeOK
  <2>2. press' \in [Presses -> PressType]
    <3>1. 1 \in 0..Steps
      BY StepsAssumption
    <3>2. [press[b] EXCEPT !.at = "running", !.step = 1] \in PressType
      BY <1>0, <3>1 DEF PressType
    <3>3. press' = [press EXCEPT ![b] = [press[b] EXCEPT !.at = "running", !.step = 1]]
      BY <1>0 DEF PressType
    <3> QED
      BY <1>0, <3>2, <3>3
  <2>3. runs' \in [Plans -> 0..2]
    <3> DEFINE p == press[b].plan
    <3>1. runs \in [Plans -> 0..2] /\ p \in Plans
      BY <2>0 DEF TypeOK
    <3>2. (IF runs[p] = 2 THEN 2 ELSE runs[p] + 1) \in 0..2
      BY <3>1
    <3>3. runs' = [runs EXCEPT ![p] = IF runs[p] = 2 THEN 2 ELSE runs[p] + 1]
      OBVIOUS
    <3> HIDE DEF p
    <3> QED
      BY <3>1, <3>2, <3>3
  <2>4. TypeOK'
    BY <2>0, <2>1, <2>2, <2>3 DEF TypeOK, PressType
  <2>5. ConsumedWasCreated' /\ StoredWasCreated'
    BY <2>0, StoreLemma DEF ConsumedWasCreated, StoredWasCreated, TypeOK
  <2>6. ConsumedNotPending'
    BY <2>0, StoreLemma DEF ConsumedWasCreated, ConsumedNotPending, TypeOK
  <2>7. InFlightCreated' /\ SlotsAgree' /\ ConsumedStaysDead' /\ YesRunsItsPlan'
    BY <1>0 DEF InFlightCreated, SlotsAgree, ConsumedStaysDead, YesRunsItsPlan, PressType
  <2> QED
    BY <2>4, <2>5, <2>6, <2>7
<1> QED
  BY <1>1, <1>2, <1>3, <1>4, <1>5 DEF PressGoesOn

\* Every step of a "yes" or "no" preserves it.
LEMMA TextSteps ==
  ASSUME IInv,
         \/ \E t \in Texts : TextAccepted(t) \/ TextRefused(t) \/ TextEnds(t) \/ TextThrows(t)
         \/ TextDenies \/ SingleAnswered
  PROVE  IInv'
<1> USE DEF IInv
<1>0. /\ text \in [Texts -> TextType]
      /\ \A t \in Texts : text[t].at # "idle" =>
                           text[t].id \in created /\ text[t].id \in Plans
      /\ unified \in Slots /\ confirmation \in Slots
      /\ confirmation \in Plans => confirmation \in created
      /\ NoPlan \in Slots /\ NoPlan \notin Plans
  BY NoPlanAssumption DEF TypeOK, InFlightCreated, TextType, Slots
<1>1. CASE \E t \in Texts : TextAccepted(t)
  <2> PICK t \in Texts : TextAccepted(t)
    BY <1>1
  <2> USE DEF TextAccepted
  <2>1. /\ confirmation \in Plans /\ confirmation \notin consumed
        /\ unified = confirmation
    BY DEF MayRun, ConsumedNotPending, SlotsAgree
  <2> DEFINE r == [at |-> "running", plan |-> unified, id |-> confirmation,
                   mine |-> TRUE, late |-> confirmation \in consumed]
  <2>r. r.plan = r.id /\ r.id \in created /\ ~r.late /\ r.at = "running"
    BY <1>0, <2>1
  <2>2. r \in TextType
    <3>1. (confirmation \in consumed) = FALSE
      BY <2>1
    <3> QED
      BY <1>0, <3>1 DEF TextType
  <2>3. text' = [text EXCEPT ![t] = r]
    OBVIOUS
  <2> HIDE DEF r
  <2>4. \A u \in Texts : text'[u] = IF u = t THEN r ELSE text[u]
    BY <1>0, <2>3
  <2>5. TypeOK'
    <3>1. text' \in [Texts -> TextType]
      BY <1>0, <2>2, <2>3
    <3> QED
      BY <3>1 DEF TypeOK, TextType
  <2>6. ConsumedWasCreated' /\ StoredWasCreated' /\ ConsumedNotPending' /\ SlotsAgree'
    BY DEF ConsumedWasCreated, StoredWasCreated, ConsumedNotPending, SlotsAgree
  <2>7. InFlightCreated' /\ ConsumedStaysDead' /\ YesRunsItsPlan'
    BY <2>r, <2>4 DEF InFlightCreated, ConsumedStaysDead, YesRunsItsPlan
  <2> QED
    BY <2>5, <2>6, <2>7
<1>2. CASE \E t \in Texts : TextRefused(t)
  BY <1>0, <1>2
  DEF TextRefused, Slot, TypeOK, ConsumedWasCreated, StoredWasCreated, ConsumedNotPending,
      InFlightCreated, SlotsAgree, ConsumedStaysDead, YesRunsItsPlan
<1>3. CASE \E t \in Texts : TextEnds(t)
  <2> PICK t \in Texts : TextEnds(t)
    BY <1>3
  <2> USE DEF TextEnds, Slot, Kept
  <2>0. text[t].id \in created /\ text[t].id \in Plans /\ text[t].id \in Slots
    BY <1>0 DEF Slots
  <2>t. /\ IdleText \in TextType /\ IdleText.id = NoPlan /\ IdleText.at = "idle"
        /\ ~IdleText.late
    BY <1>0 DEF IdleText, TextType
  <2>1. /\ text' \in [Texts -> TextType]
        /\ \A u \in Texts : text'[u] = IF u = t THEN IdleText ELSE text[u]
    BY <1>0, <2>t
  <2>2. TypeOK'
    BY <1>0, <2>0, <2>1, WithoutLemma DEF TypeOK, TextType
  <2>3. ConsumedWasCreated' /\ StoredWasCreated' /\ ConsumedNotPending' /\ SlotsAgree'
    BY <1>0, <2>0, WithoutLemma
    DEF ConsumedWasCreated, StoredWasCreated, ConsumedNotPending, SlotsAgree, TypeOK
  <2>4. InFlightCreated' /\ ConsumedStaysDead' /\ YesRunsItsPlan'
    BY <2>t, <2>1 DEF InFlightCreated, ConsumedStaysDead, YesRunsItsPlan
  <2> QED
    BY <2>2, <2>3, <2>4
<1>4. CASE \E t \in Texts : TextThrows(t)
  <2> PICK t \in Texts : TextThrows(t)
    BY <1>4
  <2> USE DEF TextThrows
  <2>t. /\ IdleText \in TextType /\ IdleText.id = NoPlan /\ IdleText.at = "idle"
        /\ ~IdleText.late
    BY <1>0 DEF IdleText, TextType
  <2>1. /\ text' \in [Texts -> TextType]
        /\ \A u \in Texts : text'[u] = IF u = t THEN IdleText ELSE text[u]
    BY <1>0, <2>t
  <2>2. TypeOK'
    BY <2>1 DEF TypeOK, TextType
  <2>3. ConsumedWasCreated' /\ StoredWasCreated' /\ ConsumedNotPending' /\ SlotsAgree'
    BY DEF ConsumedWasCreated, StoredWasCreated, ConsumedNotPending, SlotsAgree
  <2>4. InFlightCreated' /\ ConsumedStaysDead' /\ YesRunsItsPlan'
    BY <2>t, <2>1 DEF InFlightCreated, ConsumedStaysDead, YesRunsItsPlan
  <2> QED
    BY <2>2, <2>3, <2>4
<1>5. CASE TextDenies \/ SingleAnswered
  <2> USE <1>5 DEF TextDenies, SingleAnswered, Slot
  <2>1. TypeOK'
    BY <1>0, WithoutLemma DEF TypeOK
  <2>2. ConsumedWasCreated' /\ StoredWasCreated' /\ ConsumedNotPending'
    BY <1>0, WithoutLemma DEF ConsumedWasCreated, StoredWasCreated, ConsumedNotPending, TypeOK
  <2>3. InFlightCreated' /\ SlotsAgree' /\ ConsumedStaysDead' /\ YesRunsItsPlan'
    BY <1>0 DEF InFlightCreated, SlotsAgree, ConsumedStaysDead, YesRunsItsPlan
  <2> QED
    BY <2>1, <2>2, <2>3
<1> QED
  BY <1>1, <1>2, <1>3, <1>4, <1>5

\* Every step preserves it.
LEMMA NextIInv == IInv /\ [Next]_vars => IInv'
<1> SUFFICES ASSUME IInv, [Next]_vars PROVE IInv'
  OBVIOUS
<1>1. CASE Next
  BY <1>1, StoreSteps, PressSteps, TextSteps DEF Next
<1>2. CASE UNCHANGED vars
  BY <1>2 DEF vars, IInv, TypeOK, ConsumedWasCreated, StoredWasCreated, ConsumedNotPending,
              InFlightCreated, SlotsAgree, ConsumedStaysDead, YesRunsItsPlan
<1> QED
  BY <1>1, <1>2

\* The inductive invariant of the confirmation of plans.
THEOREM Invariance == Spec => []IInv
  BY InitIInv, NextIInv, PTL DEF Spec

\* The variables keep their types; in particular no handler runs a step past the
\* end of its plan.
THEOREM Typing == Spec => []TypeOK
<1>1. IInv => TypeOK
  BY DEF IInv
<1> QED
  BY <1>1, Invariance, PTL

\* No press and no "yes" that arrives after an id was cancelled, dropped by a "no",
\* executed or refused for a lost permission gets past the guards of its plan.
THEOREM StaysDead == Spec => []ConsumedStaysDead
<1>1. IInv => ConsumedStaysDead
  BY DEF IInv
<1> QED
  BY <1>1, Invariance, PTL

\* A "yes" runs only the plan whose id it looked up, for any plans and messages.
THEOREM RunsItsPlan == Spec => []YesRunsItsPlan
<1>1. IInv => YesRunsItsPlan
  BY DEF IInv
<1> QED
  BY <1>1, Invariance, PTL
-----------------------------------------------------------------------------
(***************************************************************************)
(* The refinement of OneShotPlans                                          *)
(***************************************************************************)

\* The life of a plan is its flag in the store, once it was created.
LEMMA LifeSame ==
  ASSUME created' = created,
         \A q \in Plans : store'[q] = "pending" <=> store[q] = "pending"
  PROVE  Life' = Life
BY DEF Life

LEMMA LifeCloses ==
  ASSUME NEW p \in created, created' = created,
         \A q \in Plans : store'[q] = "pending" <=> store[q] = "pending" /\ q # p
  PROVE  Life' = [Life EXCEPT ![p] = "closed"]
BY DEF Life

\* Deleting or marking a plan closes it and no other.
LEMMA RemovedCloses ==
  ASSUME TypeOK, NEW p \in created, created' = created,
         store' = Removed(p) \/ store' = Marked(p)
  PROVE  Life' = [Life EXCEPT ![p] = "closed"]
<1>1. \A q \in Plans : store'[q] = "pending" <=> store[q] = "pending" /\ q # p
  BY DEF TypeOK, Removed, Marked
<1> QED BY <1>1, LifeCloses

\* A handler that has begun is inside the plan it works on.
LEMMA InsideIs ==
  ASSUME IInv
  PROVE  /\ \A b \in Presses : /\ Inside[b] = press[b].plan
                               /\ press[b].at = "idle" => Inside[b] = NoPlan
                               /\ press[b].at # "idle" => Inside[b] \in created
         /\ \A t \in Texts : /\ t \notin Presses
                             /\ Inside[t] = text[t].id
                             /\ text[t].at = "idle" => Inside[t] = NoPlan
                             /\ text[t].at # "idle" => Inside[t] \in created
         /\ created \subseteq Plans /\ NoPlan \notin created
BY HandlersAssumption, NoPlanAssumption DEF IInv, TypeOK, InFlightCreated, Inside

\* A press that changes nothing but its place is inside as before.
LEMMA PressPlaced ==
  ASSUME IInv, NEW b \in Presses, NEW r \in PressType, press' = [press EXCEPT ![b] = r],
         UNCHANGED text
  PROVE  /\ Inside' = [Inside EXCEPT ![b] = r.plan]
         /\ Acting' = IF r.at \in {"running", "replying"} THEN Acting \cup {b} ELSE Acting \ {b}
<1>1. \A c \in Presses : press'[c] = IF c = b THEN r ELSE press[c]
  BY DEF IInv, TypeOK
<1>2. Inside' = [Inside EXCEPT ![b] = r.plan]
  <2>1. \A h \in Presses \cup Texts : Inside'[h] = IF h = b THEN r.plan ELSE Inside[h]
    BY <1>1 DEF Inside
  <2> QED BY <2>1 DEF Inside
<1>3. Acting' = IF r.at \in {"running", "replying"} THEN Acting \cup {b} ELSE Acting \ {b}
  BY <1>1 DEF Acting
<1> QED BY <1>2, <1>3

\* The same for a "yes", which is never counted as acting.
LEMMA TextPlaced ==
  ASSUME IInv, NEW t \in Texts, NEW r \in TextType, text' = [text EXCEPT ![t] = r],
         UNCHANGED press
  PROVE  /\ Inside' = [Inside EXCEPT ![t] = r.id]
         /\ Acting' = Acting /\ Acting' = Acting \ {t}
<1>1. \A u \in Texts : text'[u] = IF u = t THEN r ELSE text[u]
  BY DEF IInv, TypeOK
<1>2. t \notin Presses
  BY HandlersAssumption
<1>3. Inside' = [Inside EXCEPT ![t] = r.id]
  <2>1. \A h \in Presses \cup Texts : Inside'[h] = IF h = t THEN r.id ELSE Inside[h]
    BY <1>1, <1>2 DEF Inside
  <2> QED BY <2>1 DEF Inside
<1>4. Acting' = Acting /\ Acting' = Acting \ {t}
  BY <1>2 DEF Acting
<1> QED BY <1>3, <1>4

\* The places of idle handlers are of their type.
LEMMA IdleTyped ==
  /\ IdlePress \in PressType /\ IdlePress.plan = NoPlan /\ IdlePress.at = "idle"
  /\ IdleText \in TextType /\ IdleText.id = NoPlan
BY StepsAssumption DEF IdlePress, IdleText, PressType, TextType, Slots

\* Nothing created, nobody inside.
LEMMA InitOneShot == Init => OneShot!Init
BY DEF Init, OneShot!Init, Life, Inside, Acting, IdlePress, IdleText

\* A step of the store, of its timer or of the conversation state opens a plan,
\* closes some, or is not seen.
LEMMA StoreOneShot ==
  ASSUME IInv, UNCHANGED <<press, text>>,
         \/ \E p \in Plans : Offer(p) \/ Expire(p) \/ PressCancel(p)
         \/ Cleanup \/ TextDenies \/ SingleAnswered \/ AskModify \/ OfferUnstored
         \/ \E b \in Presses, p \in Plans : PressRefused(b, p)
         \/ \E t \in Texts : TextRefused(t)
  PROVE  OneShot!Next \/ UNCHANGED OneShot!vars
<1>1. Inside' = Inside /\ Acting' = Acting
  BY DEF Inside, Acting
<1>t. TypeOK
  BY DEF IInv
<1>2. ASSUME NEW p \in created, created' = created, store' = Removed(p)
      PROVE  OneShot!Next
  <2>1. Life' = [Life EXCEPT ![p] = "closed"] /\ p \in Plans
    BY <1>2, <1>t, RemovedCloses DEF TypeOK
  <2>2. Life' = [q \in Plans |-> IF q \in {p} THEN "closed" ELSE Life[q]]
    BY <2>1 DEF Life
  <2>3. \A q \in {p} : Life[q] # "new"
    BY <1>2, <2>1 DEF Life
  <2>4. OneShot!Close({p})
    BY <1>1, <2>2, <2>3 DEF OneShot!Close
  <2> QED BY <2>1, <2>4 DEF OneShot!Next
<1>3. ASSUME UNCHANGED <<store, created>> PROVE UNCHANGED OneShot!vars
  BY <1>1, <1>3, LifeSame DEF OneShot!vars
<1>4. ASSUME NEW p \in Plans, Offer(p) PROVE OneShot!Next
  <2>1. Life[p] = "new"
    BY <1>4 DEF Offer, Life
  <2>2. Life' = [Life EXCEPT ![p] = "open"]
    BY <1>4, <1>t DEF Offer, Life, TypeOK
  <2> QED BY <1>1, <2>1, <2>2 DEF OneShot!Next, OneShot!Open
<1>5. ASSUME NEW p \in Plans, Expire(p) PROVE UNCHANGED OneShot!vars
  BY <1>3, <1>5 DEF Expire
<1>6. ASSUME NEW p \in Plans, PressCancel(p) PROVE OneShot!Next
  BY <1>2, <1>6 DEF PressCancel, IInv, StoredWasCreated
<1>7. ASSUME Cleanup PROVE OneShot!Next
  <2> DEFINE S == expired \cap created
  <2>1. S \in SUBSET Plans
    BY <1>t DEF TypeOK
  <2>2. \A q \in S : Life[q] # "new"
    BY <2>1 DEF Life
  <2>3. Life' = [q \in Plans |-> IF q \in S THEN "closed" ELSE Life[q]]
    BY <1>7, <1>t DEF Cleanup, Life, TypeOK, IInv, StoredWasCreated
  <2>4. OneShot!Close(S)
    BY <1>1, <2>2, <2>3 DEF OneShot!Close
  <2> QED BY <2>1, <2>4 DEF OneShot!Next
<1>8. ASSUME TextDenies \/ SingleAnswered PROVE OneShot!Next \/ UNCHANGED OneShot!vars
  <2>1. created' = created /\ store' = Without(confirmation)
    BY <1>8 DEF TextDenies, SingleAnswered
  <2>2. CASE confirmation \in Plans
    <3>1. confirmation \in created /\ store' = Removed(confirmation)
      BY <2>1, <2>2, NoPlanAssumption DEF Without, IInv, InFlightCreated
    <3> QED BY <1>2, <2>1, <3>1
  <2>3. CASE confirmation \notin Plans
    BY <1>3, <2>1, <2>3 DEF Without
  <2> QED BY <2>2, <2>3
<1>9. ASSUME NEW p \in Plans, NEW b \in Presses, PressRefused(b, p)
      PROVE  OneShot!Next \/ UNCHANGED OneShot!vars
  BY <1>2, <1>3, <1>9 DEF PressRefused
<1>10. ASSUME NEW t \in Texts, TextRefused(t) PROVE UNCHANGED OneShot!vars
  BY <1>3, <1>10 DEF TextRefused
<1>11. ASSUME AskModify \/ OfferUnstored PROVE UNCHANGED OneShot!vars
  BY <1>3, <1>11 DEF AskModify, OfferUnstored
<1> QED BY <1>4, <1>5, <1>6, <1>7, <1>8, <1>9, <1>10, <1>11

\* A step of a press lets it in while its plan is pending, closes the plan as it
\* begins to act, lets it out, or is not seen.
LEMMA PressOneShot ==
  ASSUME IInv, NEW b \in Presses,
         PressGoesOn(b) \/ \E p \in Plans : PressAccepted(b, p)
  PROVE  OneShot!Next \/ UNCHANGED OneShot!vars
<1>t. TypeOK /\ press \in [Presses -> PressType]
  BY DEF IInv, TypeOK, PressType
<1>i. /\ Inside[b] = press[b].plan
      /\ press[b].at = "idle" => Inside[b] = NoPlan
      /\ press[b].at # "idle" => Inside[b] \in created /\ Inside[b] # NoPlan
  BY InsideIs
<1>1. ASSUME NEW p \in Plans, PressAccepted(b, p) PROVE OneShot!Next
  <2> DEFINE r == [at |-> "checking", plan |-> p, step |-> 0, late |-> p \in consumed]
  <2>1. r \in PressType /\ r.plan = p /\ r.at = "checking"
    BY StepsAssumption DEF PressType
  <2>2. press' = [press EXCEPT ![b] = r] /\ UNCHANGED <<text, store, created>>
    BY <1>1 DEF PressAccepted
  <2> HIDE DEF r
  <2>3. Inside' = [Inside EXCEPT ![b] = p] /\ Acting' = Acting \ {b}
    BY <2>1, <2>2, PressPlaced
  <2>4. b \notin Acting
    BY <1>1 DEF PressAccepted, Acting
  <2>5. Life' = Life
    BY <2>2, LifeSame
  <2>6. Life[p] = "open" /\ Inside[b] = NoPlan
    BY <1>1, <1>i DEF PressAccepted, Verifies, Life
  <2>7. OneShot!Enter(b, p)
    BY <2>3, <2>4, <2>5, <2>6 DEF OneShot!Enter
  <2> QED BY <2>7 DEF OneShot!Next
<1>2. ASSUME press' = [press EXCEPT ![b] = IdlePress], press[b].at # "idle",
             UNCHANGED <<text, created>>, store' \in {store, Removed(press[b].plan)}
      PROVE  OneShot!Next
  <2>1. Inside' = [Inside EXCEPT ![b] = NoPlan] /\ Acting' = Acting \ {b}
    BY <1>2, IdleTyped, PressPlaced
  <2>2. Life' \in {Life, [Life EXCEPT ![Inside[b]] = "closed"]}
    <3>1. CASE store' = store
      BY <1>2, <3>1, LifeSame
    <3>2. CASE store' = Removed(press[b].plan)
      <4>1. press[b].plan \in created /\ press[b].plan = Inside[b]
        BY <1>2, <1>i
      <4> QED BY <1>2, <1>t, <3>2, <4>1, RemovedCloses
    <3> QED BY <1>2, <3>1, <3>2
  <2>3. OneShot!Leave(b)
    BY <1>2, <1>i, <2>1, <2>2 DEF OneShot!Leave
  <2> QED BY <2>3 DEF OneShot!Next
<1>3. ASSUME NEW r \in PressType, press' = [press EXCEPT ![b] = r], r.plan = press[b].plan,
             r.at \in {"running", "replying"} <=> press[b].at \in {"running", "replying"},
             UNCHANGED <<text, created, store>>
      PROVE  UNCHANGED OneShot!vars
  <2>1. /\ Inside' = [Inside EXCEPT ![b] = r.plan]
        /\ Acting' = IF r.at \in {"running", "replying"} THEN Acting \cup {b} ELSE Acting \ {b}
    BY <1>3, PressPlaced
  <2>2. Inside' = Inside
    BY <1>3, <1>i, <2>1 DEF Inside
  <2>3. Acting' = Acting
    BY <1>3, <2>1 DEF Acting
  <2>4. Life' = Life
    BY <1>3, LifeSame
  <2> QED BY <2>2, <2>3, <2>4 DEF OneShot!vars
<1>4. ASSUME PressAllowed(b) PROVE UNCHANGED OneShot!vars
  <2> DEFINE r == [press[b] EXCEPT !.at = "deferring"]
  <2>1. r \in PressType /\ r.plan = press[b].plan /\ r.at = "deferring"
    BY <1>t DEF PressType
  <2> QED BY <1>3, <1>4, <2>1 DEF PressAllowed
<1>5. ASSUME PressDenied(b) \/ PressAborted(b) \/ PressEnds(b) PROVE OneShot!Next
  BY <1>2, <1>5 DEF PressDenied, PressAborted, PressEnds
<1>6. ASSUME PressStepEnds(b) PROVE UNCHANGED OneShot!vars
  <2>1. CASE press' = [press EXCEPT ![b].at = "replying"]
    <3> DEFINE r == [press[b] EXCEPT !.at = "replying"]
    <3>1. r \in PressType /\ r.plan = press[b].plan /\ r.at = "replying"
      BY <1>t DEF PressType
    <3> QED BY <1>3, <1>6, <2>1, <3>1 DEF PressStepEnds
  <2>2. CASE HasNextStep(b) /\ press' = [press EXCEPT ![b].step = @ + 1]
    <3> DEFINE r == [press[b] EXCEPT !.step = @ + 1]
    <3>1. press[b].step + 1 \in 0..Steps
      BY <1>t, <2>2, StepsAssumption DEF HasNextStep, PressType
    <3>2. r \in PressType /\ r.plan = press[b].plan /\ r.at = press[b].at
      BY <1>t, <3>1 DEF PressType
    <3> QED BY <1>3, <1>6, <2>2, <3>2 DEF PressStepEnds
  <2> QED BY <1>6, <2>1, <2>2 DEF PressStepEnds
<1>7. ASSUME PressExecutes(b) PROVE OneShot!Next
  <2> DEFINE r == [press[b] EXCEPT !.at = "running", !.step = 1]
  <2>1. r \in PressType /\ r.plan = press[b].plan /\ r.at = "running"
    <3>1. 1 \in 0..Steps
      BY StepsAssumption
    <3> QED BY <1>t, <3>1 DEF PressType
  <2>2. press' = [press EXCEPT ![b] = r] /\ UNCHANGED <<text, created>>
    BY <1>7, <1>t DEF PressExecutes, PressType
  <2> HIDE DEF r
  <2>3. Inside' = [Inside EXCEPT ![b] = press[b].plan] /\ Acting' = Acting \cup {b}
    BY <2>1, <2>2, PressPlaced
  <2>4. Inside' = Inside
    BY <1>i, <2>3 DEF Inside
  <2>5. press[b].at # "idle" /\ b \notin Acting
    BY <1>7 DEF PressExecutes, Acting
  <2>6. store' = Marked(press[b].plan)
    BY <1>7 DEF PressExecutes
  <2>7. Life' = [Life EXCEPT ![Inside[b]] = "closed"]
    BY <1>t, <1>i, <2>2, <2>5, <2>6, RemovedCloses
  <2>8. OneShot!Begin(b)
    BY <1>i, <2>3, <2>4, <2>5, <2>7 DEF OneShot!Begin
  <2> QED BY <2>8 DEF OneShot!Next
<1> QED BY <1>1, <1>4, <1>5, <1>6, <1>7 DEF PressGoesOn

\* A step of a "yes" lets it in while its plan is pending, or lets it out.
LEMMA TextOneShot ==
  ASSUME IInv, NEW t \in Texts, TextAccepted(t) \/ TextEnds(t) \/ TextThrows(t)
  PROVE  OneShot!Next
<1>t. TypeOK
  BY DEF IInv
<1>i. /\ t \notin Presses /\ Inside[t] = text[t].id
      /\ text[t].at = "idle" => Inside[t] = NoPlan
      /\ text[t].at # "idle" => Inside[t] \in created /\ Inside[t] # NoPlan
  BY InsideIs
<1>1. CASE TextAccepted(t)
  <2> DEFINE c == confirmation
             r == [at |-> "running", plan |-> unified, id |-> c, mine |-> TRUE,
                   late |-> c \in consumed]
  <2>1. c \in Plans /\ store[c] = "pending" /\ c \in created
    BY <1>1, NoPlanAssumption DEF TextAccepted, MayRun, IInv, SlotsAgree, StoredWasCreated
  <2>2. r \in TextType /\ r.id = c
    BY <1>t, <2>1 DEF TextType, TypeOK
  <2>3. text' = [text EXCEPT ![t] = r] /\ UNCHANGED <<press, store, created>>
    BY <1>1 DEF TextAccepted
  <2> HIDE DEF r
  <2>4. Inside' = [Inside EXCEPT ![t] = c] /\ Acting' = Acting
    BY <2>2, <2>3, TextPlaced
  <2>5. Life' = Life
    BY <2>3, LifeSame
  <2>6. Life[c] = "open" /\ Inside[t] = NoPlan
    BY <1>1, <1>i, <2>1 DEF TextAccepted, Life
  <2>7. OneShot!Enter(t, c)
    BY <2>4, <2>5, <2>6 DEF OneShot!Enter
  <2> QED BY <2>1, <2>7 DEF OneShot!Next
<1>2. CASE TextEnds(t) \/ TextThrows(t)
  <2>1. text' = [text EXCEPT ![t] = IdleText] /\ UNCHANGED <<press, created>> /\ text[t].at # "idle"
    BY <1>2 DEF TextEnds, TextThrows
  <2>2. Inside' = [Inside EXCEPT ![t] = NoPlan] /\ Acting' = Acting \ {t}
    BY <2>1, IdleTyped, TextPlaced
  <2>3. store' = store \/ store' = Removed(text[t].id)
    BY <1>2 DEF TextEnds, TextThrows, Without
  <2>4. Life' \in {Life, [Life EXCEPT ![Inside[t]] = "closed"]}
    <3>1. CASE store' = store
      BY <2>1, <3>1, LifeSame
    <3>2. CASE store' = Removed(text[t].id)
      BY <1>t, <1>i, <2>1, <3>2, RemovedCloses
    <3> QED BY <2>3, <3>1, <3>2
  <2>5. OneShot!Leave(t)
    BY <1>i, <2>1, <2>2, <2>4 DEF OneShot!Leave
  <2> QED BY <2>5 DEF OneShot!Next
<1> QED BY <1>1, <1>2

\* Each step is a step of the abstract specification or is not seen by it.
LEMMA StepOneShot == IInv /\ [Next]_vars => [OneShot!Next]_(OneShot!vars)
<1> SUFFICES ASSUME IInv, [Next]_vars PROVE OneShot!Next \/ UNCHANGED OneShot!vars
  OBVIOUS
<1>1. CASE \/ \E p \in Plans : Offer(p) \/ Expire(p) \/ PressCancel(p)
           \/ Cleanup \/ TextDenies \/ SingleAnswered \/ AskModify \/ OfferUnstored
           \/ \E b \in Presses, p \in Plans : PressRefused(b, p)
           \/ \E t \in Texts : TextRefused(t)
  <2>1. UNCHANGED <<press, text>>
    BY <1>1 DEF Offer, Expire, PressCancel, Cleanup, TextDenies, SingleAnswered, AskModify,
                OfferUnstored, PressRefused, TextRefused
  <2> QED BY <1>1, <2>1, StoreOneShot
<1>2. CASE \E b \in Presses : PressGoesOn(b) \/ \E p \in Plans : PressAccepted(b, p)
  BY <1>2, PressOneShot
<1>3. CASE \E t \in Texts : TextAccepted(t) \/ TextEnds(t) \/ TextThrows(t)
  BY <1>3, TextOneShot
<1>4. CASE UNCHANGED vars
  BY <1>4 DEF vars, OneShot!vars, Life, Inside, Acting
<1>5. CASE Forget
  <2>0. text \in [Texts -> TextType]
    BY DEF IInv, TypeOK, TextType
  <2>1. \A t \in Texts : text'[t].id = text[t].id
    BY <1>5, <2>0 DEF Forget, TextType
  <2>2. UNCHANGED <<store, created, press>>
    BY <1>5 DEF Forget
  <2>3. Inside' = Inside
    BY <2>1, <2>2 DEF Inside
  <2>4. Acting' = Acting
    BY <2>2 DEF Acting
  <2>5. Life' = Life
    BY <2>2, LifeSame
  <2> QED BY <2>3, <2>4, <2>5 DEF OneShot!vars
<1> QED BY <1>1, <1>2, <1>3, <1>4, <1>5 DEF Next

\* Flag, deletions, expiry and conversation state implement the one-shot offer of
\* OneShotPlans, for any plan ids and any handlers.
THEOREM SpecImplementsOneShot == Spec => ImplementsOneShot
BY Invariance, InitOneShot, StepOneShot, PTL DEF Spec, ImplementsOneShot, OneShot!Spec
=============================================================================
