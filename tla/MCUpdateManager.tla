---------------------------- MODULE MCUpdateManager ----------------------------
(***************************************************************************)
(* For the coordination with the healer: one watched file and both of its  *)
(* possible repairers.  For the history of updates and rollbacks: no files *)
(* (the healer never has anything to do), and more commits.                *)
(***************************************************************************)
EXTENDS UpdateManager

CONSTANT f1

MCFiles   == {f1}
MCNoFiles == {}
=============================================================================
