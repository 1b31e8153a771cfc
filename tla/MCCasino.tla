------------------------------ MODULE MCCasino ------------------------------
(***************************************************************************)
(* Three handler runs at a time over the player file, of one player with   *)
(* games of three kinds; two of them where a game is stranded.             *)
(***************************************************************************)
EXTENDS CasinoSessions

CONSTANTS o1, o2, o3, p1

MCOps     == {o1, o2}
MCThreeOps == {o1, o2, o3}
MCPlayer  == {p1}
MCKinds   == {"blackjack", "mines", "quickdraw"}
MCBlackjack == {"blackjack"}
=============================================================================
