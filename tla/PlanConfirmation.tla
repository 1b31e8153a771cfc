--------------------------- MODULE PlanConfirmation ---------------------------
(***************************************************************************)
(* Multi-step action plans that a user must confirm before the bot changes *)
(* a Discord server: ai/tools/confirmation-store.ts (the pending plans),   *)
(* discord/interactions/confirmation-handler.ts (the Confirm and Cancel    *)
(* buttons) and the confirmation part of discord/conversational-agent.ts   *)
(* ("yes" and "no" as text), for one requester in one guild.               *)
(*                                                                         *)
(* A plan is stored under a fresh id, so a plan is its id.  Every button   *)
(* press and every text message is a handler run of its own; a step is one *)
(* uninterrupted run of the event loop, so that two handlers interleave at *)
(* each await on Discord.  Presses of other users, of other guilds and of  *)
(* ids that were never rendered are refused at once and left out, and so   *)
(* are plans of a single tool, which the other half of handleConfirm runs. *)
(*                                                                         *)
(* The conversation state holds two slots: unifiedPlan, the steps that a   *)
(* "yes" runs, and pendingConfirmation, the id under which it looks them   *)
(* up in the store.  The handlers that build a plan of several steps write *)
(* both, handleServerModify writes the second alone.  At this commit       *)
(* handleConversation sends requests of the first kind to /prompt before   *)
(* it reaches their handlers; the module models the handlers as they are   *)
(* written, behind that redirection.                                       *)
(***************************************************************************)
EXTENDS Naturals

CONSTANTS
  Plans,      \* plan ids
  NoPlan,     \* "no plan"
  Unstored,   \* the id of a plan that was never put into the store
  Presses,    \* handler runs of the Confirm button
  Texts,      \* handler runs of a "yes" message
  Steps       \* number of steps of a plan

ASSUME NoPlanAssumption ==
  NoPlan \notin Plans /\ Unstored \notin Plans /\ Unstored # NoPlan
ASSUME StepsAssumption  == Steps \in Nat \ {0}
ASSUME HandlersAssumption == Presses \cap Texts = {}

VARIABLES
  store,     \* store[p] : "absent", "pending" or "executed" (pendingPlans)
  created,   \* the plans ever stored: their buttons are on screen
  expired,   \* the plans whose expiresAt has passed
  unified,   \* the conversation state's unifiedPlan: a plan, or NoPlan
  confirmation, \* its pendingConfirmation.planId, or NoPlan
  press,     \* press[b] : where a Confirm handler is
  text,      \* text[t] : where a "yes" handler is
  consumed,  \* history: ids cancelled, denied, confirmed by text or started
  runs       \* history: how many handlers started to execute p (0, 1, 2 or more)

vars == <<store, created, expired, unified, confirmation, press, text,
          consumed, runs>>

IdlePress == [at |-> "idle", plan |-> NoPlan, step |-> 0, late |-> FALSE]
IdleText  == [at |-> "idle", plan |-> NoPlan, id |-> NoPlan, mine |-> FALSE, late |-> FALSE]

\* What a slot of the conversation state can name.
Slots == Plans \cup {NoPlan, Unstored}

TypeOK ==
  /\ store \in [Plans -> {"absent", "pending", "executed"}]
  /\ created \subseteq Plans /\ expired \subseteq Plans /\ consumed \subseteq Plans
  /\ unified \in Slots /\ confirmation \in Slots
  /\ press \in [Presses -> [at : {"idle", "checking", "deferring", "running", "replying"},
                            plan : Plans \cup {NoPlan},
                            step : 0..Steps, late : BOOLEAN]]
  /\ text \in [Texts -> [at : {"idle", "running"},
                         plan : Slots, id : Slots, mine : BOOLEAN, late : BOOLEAN]]
  /\ runs \in [Plans -> 0..2]

Init ==
  /\ store = [p \in Plans |-> "absent"]
  /\ created = {} /\ expired = {} /\ consumed = {}
  /\ unified = NoPlan /\ confirmation = NoPlan
  /\ press = [b \in Presses |-> IdlePress]
  /\ text = [t \in Texts |-> IdleText]
  /\ runs = [p \in Plans |-> 0]

-----------------------------------------------------------------------------
\* A handler writes both slots of the conversation state, or leaves them.
Slot(u, c) == unified' = u /\ confirmation' = c
Kept == UNCHANGED <<unified, confirmation>>

\* A request builds a plan of several steps: stored under a fresh id, and in both
\* slots in place of what they held, unless the state object that the handler found
\* before its awaits has been replaced meanwhile.
Offer(p) ==
  /\ p \notin created
  /\ store' = [store EXCEPT ![p] = "pending"]
  /\ created' = created \cup {p}
  /\ Slot(p, p) \/ Kept
  /\ UNCHANGED <<expired, press, text, consumed, runs>>

\* "Repair my server" and "make it better" put a plan into both slots that they do
\* not store.
OfferUnstored ==
  /\ Slot(Unstored, Unstored)
  /\ UNCHANGED <<store, created, expired, press, text, consumed, runs>>

\* Mutated: the executor stores the plan it asks to confirm.
AskModifyStored ==
  \E p \in Plans \ created :
    /\ store' = [store EXCEPT ![p] = "pending"]
    /\ created' = created \cup {p}
    /\ Slot(unified, p)
    /\ UNCHANGED <<expired, press, text, consumed, runs>>

\* handleServerModify: the executor answers that the tool must be confirmed, with a
\* plan that it does not store.  Its id overwrites one slot and not the other.
AskModify ==
  /\ Slot(unified, Unstored)
  /\ UNCHANGED <<store, created, expired, press, text, consumed, runs>>

\* Ten minutes after the last look at the server the state object is replaced (or
\* was deleted, or evicted, before).  Handlers under way keep the old one.
Forget ==
  /\ Slot(NoPlan, NoPlan)
  /\ text' = [t \in Texts |-> [text[t] EXCEPT !.mine = FALSE]]
  /\ UNCHANGED <<store, created, expired, press, consumed, runs>>

\* Five minutes pass.
Expire(p) ==
  /\ p \in created \ expired
  /\ expired' = expired \cup {p}
  /\ UNCHANGED <<store, created, unified, confirmation, press, text, consumed, runs>>

\* Mutated: the timer leaves executed plans to their handlers.
CleanupPending ==
  /\ \E p \in expired : store[p] = "pending"
  /\ store' = [p \in Plans |-> IF p \in expired /\ store[p] = "pending"
                             THEN "absent" ELSE store[p]]
  /\ UNCHANGED <<created, expired, unified, confirmation, press, text, consumed, runs>>

\* The store's timer deletes expired plans, executed or not.
Cleanup ==
  /\ \E p \in expired : store[p] # "absent"
  /\ store' = [p \in Plans |-> IF p \in expired THEN "absent" ELSE store[p]]
  /\ UNCHANGED <<created, expired, unified, confirmation, press, text, consumed, runs>>

-----------------------------------------------------------------------------
(***************************************************************************)
(* The Confirm button.                                                     *)
(***************************************************************************)
\* verifyPlan; mutated: without its look at the executed flag.
VerifiesPresent(p) == store[p] # "absent" /\ p \notin expired
Verifies(p) == store[p] = "pending" /\ p \notin expired

\* Mutated: nothing is marked before the steps run.
MarkedLater(p) == store
\* markPlanExecuted, which does nothing when the plan is gone; removePendingPlan.
Marked(p)  == IF store[p] = "absent" THEN store ELSE [store EXCEPT ![p] = "executed"]
Removed(p) == [store EXCEPT ![p] = "absent"]

\* handleConfirm up to the first await of handleTemplateConfirm.
PressAccepted(b, p) ==
  /\ press[b].at = "idle"
  /\ p \in created
  /\ Verifies(p)
  /\ press' = [press EXCEPT ![b] = [at |-> "checking", plan |-> p, step |-> 0,
                                    late |-> p \in consumed]]
  /\ UNCHANGED <<store, created, expired, unified, confirmation, text, consumed, runs>>

\* A plan that is gone, executed or expired is refused; an expired one is deleted.
PressRefused(b, p) ==
  /\ press[b].at = "idle"
  /\ p \in created
  /\ ~Verifies(p)
  /\ store' = IF p \in expired THEN Removed(p) ELSE store
  /\ UNCHANGED <<created, expired, unified, confirmation, press, text, consumed, runs>>

\* The guild and the member were fetched, the permissions are as they must be.
PressAllowed(b) ==
  /\ press[b].at = "checking"
  /\ press' = [press EXCEPT ![b].at = "deferring"]
  /\ UNCHANGED <<store, created, expired, unified, confirmation, text, consumed, runs>>

\* The requester or the bot lost a permission: the plan is deleted.
PressDenied(b) ==
  /\ press[b].at = "checking"
  /\ press' = [press EXCEPT ![b] = IdlePress]
  /\ store' = Removed(press[b].plan)
  /\ consumed' = consumed \cup {press[b].plan}
  /\ UNCHANGED <<created, expired, unified, confirmation, text, runs>>

\* A fetch found nothing, a fetch or deferReply() threw: the plan stays.
PressAborted(b) ==
  /\ press[b].at \in {"checking", "deferring"}
  /\ press' = [press EXCEPT ![b] = IdlePress]
  /\ UNCHANGED <<store, created, expired, unified, confirmation, text, consumed, runs>>

\* deferReply() returned: mark the plan executed, without looking at it again,
\* and start its first step.
PressExecutes(b) ==
  LET p == press[b].plan IN
  /\ press[b].at = "deferring"
  /\ store' = Marked(p)
  /\ press' = [press EXCEPT ![b].at = "running", ![b].step = 1]
  /\ consumed' = consumed \cup {p}
  /\ runs' = [runs EXCEPT ![p] = IF @ = 2 THEN 2 ELSE @ + 1]
  /\ UNCHANGED <<created, expired, unified, confirmation, text>>

\* Mutated: an off-by-one in the loop.
HasNextStepPast(b) == press[b].step <= Steps
HasNextStep(b) == press[b].step < Steps

\* A step ended: the next one starts, or the loop ends (after the last step, or
\* at the first one that is not authorized or fails) and the result is sent.
PressStepEnds(b) ==
  /\ press[b].at = "running"
  /\ \/ /\ HasNextStep(b)
        /\ press' = [press EXCEPT ![b].step = @ + 1]
     \/ press' = [press EXCEPT ![b].at = "replying"]
  /\ UNCHANGED <<store, created, expired, unified, confirmation, text, consumed, runs>>

\* editReply() returned: delete the plan.  When it throws, the plan stays, marked.
PressEnds(b) ==
  /\ press[b].at = "replying"
  /\ press' = [press EXCEPT ![b] = IdlePress]
  /\ store' \in {Removed(press[b].plan), store}
  /\ UNCHANGED <<created, expired, unified, confirmation, text, consumed, runs>>

\* handleCancel: delete the plan if it is stored, executed or not, and say so.
PressCancel(p) ==
  /\ store[p] # "absent"
  /\ store' = Removed(p)
  /\ consumed' = consumed \cup {p}
  /\ UNCHANGED <<created, expired, unified, confirmation, press, text, runs>>

-----------------------------------------------------------------------------
(***************************************************************************)
(* "yes" and "no" as text.                                                 *)
(***************************************************************************)
\* The double-execution guard of executeUnifiedPlan, which looks at the flag but
\* not at the expiry, and only if there is an id to look up.
MayRun(c) == c = NoPlan \/ (c \in Plans /\ store[c] = "pending")

\* removePendingPlan with an id that may name no stored plan.
Without(c) == IF c \in Plans THEN Removed(c) ELSE store

\* executeUnifiedPlan: the guard, then the first step.
TextAccepted(t) ==
  /\ text[t].at = "idle"
  /\ unified # NoPlan
  /\ MayRun(confirmation)
  /\ text' = [text EXCEPT ![t] = [at |-> "running", plan |-> unified, id |-> confirmation,
                                  mine |-> TRUE, late |-> confirmation \in consumed]]
  /\ UNCHANGED <<store, created, expired, unified, confirmation, press, consumed, runs>>

\* "That plan was already confirmed, cancelled, or has expired."
TextRefused(t) ==
  /\ text[t].at = "idle"
  /\ unified # NoPlan
  /\ ~MayRun(confirmation)
  /\ Slot(NoPlan, NoPlan)
  /\ UNCHANGED <<store, created, expired, press, text, consumed, runs>>

\* Each step runs the tool through the pipeline.  A write tool's own execute()
\* changes nothing and answers with a single-tool plan to confirm (left out, see
\* above): the step counts as failed and ends the loop.  The id that was looked up is
\* consumed and the state object is cleared, whatever it offers by now.
TextEnds(t) ==
  /\ text[t].at = "running"
  /\ store' = Without(text[t].id)
  /\ consumed' = consumed \cup ({text[t].id} \cap Plans)
  /\ IF text[t].mine THEN Slot(NoPlan, NoPlan) ELSE Kept
  /\ text' = [text EXCEPT ![t] = IdleText]
  /\ UNCHANGED <<created, expired, press, runs>>

\* A check on the way to the tool threw: the reply is an error, all stays.
TextThrows(t) ==
  /\ text[t].at = "running"
  /\ text' = [text EXCEPT ![t] = IdleText]
  /\ UNCHANGED <<store, created, expired, unified, confirmation, press, consumed, runs>>

\* handleDenial of a plan of several steps: the id in the other slot is dropped from
\* the store, and the plan is reported and audited as cancelled.
TextDenies ==
  /\ unified # NoPlan
  /\ store' = Without(confirmation)
  /\ consumed' = consumed \cup ({confirmation} \cap Plans)
  /\ Slot(NoPlan, NoPlan)
  /\ UNCHANGED <<created, expired, press, text, runs>>

\* "yes" or "no" to a single-tool plan.  Its id is not in the store (the slot names a
\* stored plan only beside that plan itself), so a "yes" is told that the action has
\* expired; either way the slot is emptied.
SingleAnswered ==
  /\ unified = NoPlan /\ confirmation # NoPlan
  /\ store' = Without(confirmation)
  /\ Slot(NoPlan, NoPlan)
  /\ UNCHANGED <<created, expired, press, text, consumed, runs>>

PressGoesOn(b) ==
  \/ PressAllowed(b) \/ PressDenied(b) \/ PressAborted(b)
  \/ PressExecutes(b) \/ PressStepEnds(b) \/ PressEnds(b)

Next ==
  \/ \E p \in Plans : Offer(p) \/ Expire(p) \/ PressCancel(p)
  \/ AskModify \/ OfferUnstored \/ TextDenies \/ SingleAnswered
  \/ Cleanup
  \/ \E b \in Presses :
       PressGoesOn(b) \/ \E p \in Plans : PressAccepted(b, p) \/ PressRefused(b, p)
  \/ \E t \in Texts : TextAccepted(t) \/ TextRefused(t) \/ TextEnds(t) \/ TextThrows(t)
  \/ Forget

\* Time passes and the store's timer runs.  Handlers may stop at any await.
Fairness ==
  /\ WF_vars(Cleanup)
  /\ \A p \in Plans : WF_vars(Expire(p))

Spec     == Init /\ [][Next]_vars
FairSpec == Spec /\ Fairness

-----------------------------------------------------------------------------
\* A plan whose id was cancelled, dropped by a "no", confirmed by text or whose
\* execution has started stays dead: no press and no "yes" that arrives later gets
\* past its guard, whichever way the id was consumed, whatever failed on the way, and
\* although marking a deleted plan does nothing.  (Whether a "no" drops the id of the
\* plan it is told to cancel is DenialKillsPlan.)
ConsumedStaysDead ==
  /\ \A b \in Presses : ~press[b].late
  /\ \A t \in Texts : ~text[t].late

\* A "yes" runs only the plan whose id it looked up and will consume, although the two
\* come out of two slots which requests, refusals, denials, the ends of earlier runs
\* and the replacement of the state write at different times.  Otherwise one plan runs
\* under the flag of another and stays open itself.
YesRunsItsPlan ==
  \A t \in Texts : text[t].at = "running" => text[t].plan = text[t].id

\* No plan stays in the store for ever, not even one whose handler died between
\* marking it and deleting it.
PlanLeavesStore ==
  \A p \in Plans : store[p] # "absent" ~> store[p] = "absent"

\* "Mark executed BEFORE execution (prevents double-execution)": the steps of a
\* plan are run by at most one handler.
ExecutedAtMostOnce == \A p \in Plans : runs[p] <= 1

\* "Drop the stored confirmation plan so Confirm buttons die with it": after a "no" to a
\* plan no button confirms that plan any more.
DenialKillsPlan ==
  [][TextDenies => \A p \in Plans : unified = p => ~Verifies(p)']_vars

-----------------------------------------------------------------------------
Life ==
  [p \in Plans |-> IF p \notin created THEN "new"
                   ELSE IF store[p] = "pending" THEN "open" ELSE "closed"]

Inside == [h \in Presses \cup Texts |-> IF h \in Presses THEN press[h].plan ELSE text[h].id]

Acting == {b \in Presses : press[b].at \in {"running", "replying"}}

OneShot == INSTANCE OneShotPlans WITH
  Handlers <- Presses \cup Texts,
  life     <- Life,
  inside   <- Inside,
  acting   <- Acting

\* The flag, the deletions, the expiry and the conversation state together make a
\* plan id a one-shot offer: it closes before a press acts on it, by whatever else
\* uses it up, for good and for all handlers that are not yet inside.  A "yes" is
\* inside the plan whose id it looked up.
ImplementsOneShot == OneShot!Spec
=============================================================================
