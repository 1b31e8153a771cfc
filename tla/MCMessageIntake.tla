-------------------------- MODULE MCMessageIntake --------------------------
(***************************************************************************)
(* A long message of the user, in a thread that can have a builder         *)
(* session, and one of a rivalry's opponent, each delivered over and over; *)
(* two runs; four credits a day, of which a long answer costs three;       *)
(* conversations of six turns, of which compression leaves four alone.     *)
(***************************************************************************)
EXTENDS MessageIntake, TLC

CONSTANTS m1, b1, r1, r2

MCMessages       == {m1, b1}
MCThreadMessages == {m1}
MCBotMessages    == {b1}
MCLongMessages   == {m1}
MCRuns           == {r1, r2}
MCSymmetry       == Permutations(MCRuns)
=============================================================================
