----------------------------- MODULE WagerLedger -----------------------------
(***************************************************************************)
(* What the wagered games promise about money, with the file, its lock and *)
(* the handlers left out: a game takes its bet at most once and is settled *)
(* at most once, each in one step that is written down or does not happen, *)
(* and nobody pays with coins he does not have.  A bet is one coin.        *)
(***************************************************************************)
EXTENDS Integers

CONSTANTS Players, Games, InitialCoins

VARIABLES
  coins,     \* coins[p] : the coins of a player
  debited,   \* the games whose bet was taken
  settled    \* the games that were paid out, or lost

vars == <<coins, debited, settled>>

Init ==
  /\ coins = [p \in Players |-> InitialCoins]
  /\ debited = {} /\ settled = {}

Fresh(g) == g \notin debited /\ g \notin settled

Bet(p, g) ==
  /\ Fresh(g) /\ coins[p] >= 1
  /\ coins'   = [coins EXCEPT ![p] = @ - 1]
  /\ debited' = debited \cup {g}
  /\ UNCHANGED settled

\* A natural blackjack: bet and payout in one update, one coin more in the end.
BetAndWin(p, g) ==
  /\ Fresh(g) /\ coins[p] >= 1
  /\ coins'   = [coins EXCEPT ![p] = @ + 1]
  /\ debited' = debited \cup {g}
  /\ settled' = settled \cup {g}

\* Only a game without a bet (a quickdraw) may cost coins at its end.
Settle(p, g, change) ==
  /\ g \notin settled
  /\ g \in debited => change >= 0
  /\ coins[p] + change >= 0
  /\ coins'   = [coins EXCEPT ![p] = @ + change]
  /\ settled' = settled \cup {g}
  /\ UNCHANGED debited

Next ==
  \E p \in Players, g \in Games :
    \/ Bet(p, g)
    \/ BetAndWin(p, g)
    \/ \E change \in -1..2 : Settle(p, g, change)

Spec == Init /\ [][Next]_vars
==============================================================================
