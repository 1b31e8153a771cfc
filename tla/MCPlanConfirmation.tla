-------------------------- MODULE MCPlanConfirmation --------------------------
(***************************************************************************)
(* Two plans (one replaces the other in the conversation), two presses and *)
(* a "yes" message in flight, two steps per plan.                          *)
(***************************************************************************)
EXTENDS PlanConfirmation

CONSTANTS q1, q2, b1, b2, t1

MCPlans    == {q1, q2}
MCPresses  == {b1, b2}
MCTexts    == {t1}
=============================================================================
