---------------------------- MODULE MCTaskEngine ----------------------------
(***************************************************************************)
(* Two commands at a time, plans that may be stored and one that may not,  *)
(* one or two attempts for each step.                                      *)
(***************************************************************************)
EXTENDS TaskEngine

CONSTANTS c1, c2

MCCommands == {c1, c2}
MCPlans    == {<<"run_tests">>, <<"search_project", "repair_file">>,
               <<"repair_file", "typecheck">>}
MCPlan     == {<<"run_tests">>}
MCAsked    == {0, 3}
=============================================================================
