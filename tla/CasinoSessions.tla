---------------------------- MODULE CasinoSessions ----------------------------
(***************************************************************************)
(* The wagered games (games/games/blackjack.ts, mines.ts, quickdraw.ts)    *)
(* over the player store (games/store.ts) over the lock (games/lock.ts).   *)
(*                                                                         *)
(* All players live in one JSON file.  Every change of it is a             *)
(* mutatePlayer(): take the store lock, read the whole file, run the       *)
(* mutator on one player, write the whole file, release.  The open games   *)
(* live in memory only, one per player and kind, and are changed by the    *)
(* code around and inside the mutators, by cancel and by a clean-up timer. *)
(*                                                                         *)
(* A step is one uninterrupted run of the event loop: what follows an      *)
(* await on a file is a step of its own, what follows the release of the   *)
(* lock inside the same handler is not.  Every bet is one coin.            *)
(***************************************************************************)
EXTENDS Integers, Sequences, FiniteSets

CONSTANTS
  Ops,           \* asynchronous handler runs that touch the store
  Players,
  Kinds,         \* subset of {"blackjack", "mines", "quickdraw"}
  Store,         \* the lock name "game-players-store"
  Nobody,        \* the lock's "no caller"
  InitialCoins,  \* coins of a player in the initial file
  MaxGames       \* bound: games ever created

ASSUME KindsAssumption  == Kinds \subseteq {"blackjack", "mines", "quickdraw"}
ASSUME BoundsAssumption == InitialCoins \in Nat /\ MaxGames \in Nat
ASSUME NobodyIsNoOp     == Nobody \notin Ops

Games  == 1..MaxGames
NoGame == 0

VARIABLES
  active, queues, phase, asked, stack,   \* the lock manager
  disk,      \* game-players.json, as last renamed into place
  sessions,  \* sessions[k][p] : the open game of that kind, or NoGame
  game,      \* game[g] : the in-memory game object
  made,      \* number of games created so far
  op,        \* op[o] : what handler run o is doing
  acked,     \* history: the file all successful operations add up to
  unpaid,    \* history: games whose start failed after the mutator ran
  dropped    \* history: games cancelled, expired or lost in a restart

lockVars == <<active, queues, phase, asked, stack>>
memory   == <<sessions, game, made>>
history  == <<acked, unpaid, dropped>>
vars     == <<lockVars, disk, memory, op, history>>

L == INSTANCE KeyedLock WITH Callers <- Ops, Keys <- {Store}, MaxNesting <- 1

Wagers == {"blackjack", "mines"}   \* the kinds that debit a bet at the start

File == [coins   : [Players -> Nat],
         stake   : [Games -> Nat],
         settled : [Games -> Nat]]

NoFile == [coins |-> [p \in Players |-> 0],
           stake |-> [g \in Games |-> 0], settled |-> [g \in Games |-> 0]]

Idle == [do |-> "none", at |-> "idle", kind |-> "none", player |-> Nobody,
         game |-> NoGame, outcome |-> "none", gain |-> 0, copy |-> NoFile]

NoObject == [kind |-> "none", finished |-> FALSE, revealed |-> FALSE]

\* What a settlement adds to the player's coins; a quickdraw reaction before the
\* draw signal costs coins, but never more than the player has.
Outcomes == {"loss", "push", "win", "early"}

\* Mutated: the penalty of an early reaction is not capped by what the player has.
GainUncapped(outcome, coins) ==
  CASE outcome = "loss"  -> 0
    [] outcome = "push"  -> 1
    [] outcome = "win"   -> 2
    [] outcome = "early" -> -1

Gain(outcome, coins) ==
  CASE outcome = "loss"  -> 0
    [] outcome = "push"  -> 1
    [] outcome = "win"   -> 2
    [] outcome = "early" -> IF coins = 0 THEN 0 ELSE -1

TypeOK ==
  /\ L!TypeOK
  /\ disk \in File /\ acked \in File
  /\ sessions \in [Kinds -> [Players -> Games \cup {NoGame}]]
  /\ game \in [Games -> [kind : Kinds \cup {"none"},
                       finished : BOOLEAN, revealed : BOOLEAN]]
  /\ made \in 0..MaxGames
  /\ unpaid \subseteq Games /\ dropped \subseteq Games
  /\ op \in [Ops -> [do : {"none", "start", "settle"},
                     at : {"idle", "lock", "read", "save"},
                     kind : Kinds \cup {"none"},
                     player : Players \cup {Nobody},
                     game : Games \cup {NoGame},
                     outcome : Outcomes \cup {"none"},
                     gain : -1..2,
                     copy : File]]

Init ==
  /\ L!Init
  /\ disk = [NoFile EXCEPT !.coins = [p \in Players |-> InitialCoins]]
  /\ acked = disk
  /\ sessions = [k \in Kinds |-> [p \in Players |-> NoGame]]
  /\ game = [g \in Games |-> NoObject]
  /\ made = 0
  /\ op = [o \in Ops |-> Idle]
  /\ unpaid = {} /\ dropped = {}

-----------------------------------------------------------------------------
(***************************************************************************)
(* Handlers, up to their first await.                                      *)
(***************************************************************************)

\* The guards of the handlers, each followed by a mutated form: the mutator's
\* funds check, its re-check that no session appeared, the claim's first line.
AffordsUnchecked(p) == TRUE
Affords(p) == disk.coins[p] >= 1

StillNoneUnchecked(k, p) == TRUE
StillNone(k, p) == sessions[k][p] = NoGame

ClaimableTwice(g) == TRUE
Claimable(g) == ~game[g].finished

\* The bound MaxGames leaves room for every start under way.
Room == made + Cardinality({o \in Ops : op[o].do = "start"
                                     /\ op[o].at \in {"lock", "read"}}) < MaxGames

\* startBlackjack, startMines: the fast check, then mutatePlayer queues.
Start(o, k, p) ==
  /\ k \in Wagers
  /\ op[o].at = "idle"
  /\ sessions[k][p] = NoGame
  /\ Room
  /\ L!Lock(o, Store)
  /\ op' = [op EXCEPT ![o] = [Idle EXCEPT !.do = "start", !.at = "lock",
                                          !.kind = k, !.player = p]]
  /\ UNCHANGED <<disk, memory, history>>

\* startQuickDraw is synchronous and free.
StartQuickDraw(p) ==
  /\ "quickdraw" \in Kinds
  /\ sessions["quickdraw"][p] = NoGame
  /\ Room
  /\ made' = made + 1
  /\ sessions' = [sessions EXCEPT !["quickdraw"][p] = made']
  /\ game' = [game EXCEPT ![made'].kind = "quickdraw"]
  /\ UNCHANGED <<lockVars, disk, op, history>>

\* revealMinesTile on a safe tile: in memory only.
RevealSafe(p) ==
  /\ "mines" \in Kinds
  /\ LET g == sessions["mines"][p] IN
       /\ g # NoGame
       /\ ~game[g].finished
       /\ game' = [game EXCEPT ![g].revealed = TRUE]
  /\ UNCHANGED <<lockVars, disk, sessions, made, op, history>>

\* What the kinds can end with: standBlackjack (also after a hit that busts);
\* cashOutMines once a tile is revealed, or a revealed mine; reactQuickDraw.
Possible(k, g) ==
  CASE k = "blackjack" -> {"loss", "push", "win"}
    [] k = "mines"     -> {"loss"} \cup (IF game[g].revealed THEN {"win"} ELSE {})
    [] k = "quickdraw" -> {"loss", "win", "early"}

\* Each looks the game up and claims it synchronously, then mutatePlayer queues.
\* A reaction before the draw signal removes the session right here.
Settle(o, k, p, outcome) ==
  LET g == sessions[k][p] IN
  /\ op[o].at = "idle"
  /\ g # NoGame
  /\ Claimable(g)
  /\ outcome \in Possible(k, g)
  /\ game' = [game EXCEPT ![g].finished = TRUE]
  /\ op' = [op EXCEPT ![o] = [Idle EXCEPT !.do = "settle", !.at = "lock",
                                !.kind = k, !.player = p, !.game = g,
                                !.outcome = outcome]]
  /\ sessions' = IF outcome = "early" THEN [sessions EXCEPT ![k][p] = NoGame]
                                      ELSE sessions
  /\ L!Lock(o, Store)
  /\ UNCHANGED <<disk, made, history>>

-----------------------------------------------------------------------------
(***************************************************************************)
(* mutatePlayer                                                            *)
(***************************************************************************)

\* The catch of the handler: blackjack and quickdraw give the claim back,
\* mines has no catch.
GiveBack(o) ==
  game' = IF op[o].do = "settle" /\ op[o].kind # "mines"
          THEN [game EXCEPT ![op[o].game].finished = FALSE]
          ELSE game

Granted(o) ==
  /\ op[o].at = "lock"
  /\ L!Resume(o)
  /\ op' = [op EXCEPT ![o].at = "read"]
  /\ UNCHANGED <<disk, memory, history>>

LockTimeout(o) ==
  /\ op[o].at = "lock"
  /\ L!TimeOut(o)
  /\ GiveBack(o)
  /\ op' = [op EXCEPT ![o] = Idle]
  /\ UNCHANGED <<disk, sessions, made, history>>

\* Mutated: the rejection skips the finally block.
ReadFailsHolding(o) ==
  /\ op[o].at = "read"
  /\ GiveBack(o)
  /\ op' = [op EXCEPT ![o] = Idle]
  /\ UNCHANGED <<lockVars, disk, sessions, made, history>>

\* The file cannot be read: mutatePlayer rejects before the mutator runs.
ReadFails(o) ==
  /\ op[o].at = "read"
  /\ L!Unlock(o)
  /\ GiveBack(o)
  /\ op' = [op EXCEPT ![o] = Idle]
  /\ UNCHANGED <<disk, sessions, made, history>>

\* Mutated: the start mutator creates the session before it checks the funds.
StartRefusedLate(o) ==
  /\ op[o].at = "read" /\ op[o].do = "start"
  /\ StillNone(op[o].kind, op[o].player) /\ ~Affords(op[o].player)
  /\ L!Unlock(o)
  /\ op' = [op EXCEPT ![o] = Idle]
  /\ made' = made + 1
  /\ game' = [game EXCEPT ![made'] = [NoObject EXCEPT !.kind = op[o].kind]]
  /\ sessions' = [sessions EXCEPT ![op[o].kind][op[o].player] = made']
  /\ UNCHANGED <<disk, history>>

\* The start mutator throws: a session appeared meanwhile, or too few coins.
StartRefused(o) ==
  /\ op[o].at = "read" /\ op[o].do = "start"
  /\ ~StillNone(op[o].kind, op[o].player) \/ ~Affords(op[o].player)
  /\ L!Unlock(o)
  /\ op' = [op EXCEPT ![o] = Idle]
  /\ UNCHANGED <<disk, memory, history>>

\* The start mutator: debit the bet in the copy, create the session.  A natural
\* blackjack is settled at once (finishBlackjackInternal), for two coins here.
StartMutates(o, natural) ==
  LET k == op[o].kind
      p == op[o].player
      g == made + 1
      debited == [disk EXCEPT !.coins[p] = @ - 1, !.stake[g] = @ + 1]
  IN
  /\ op[o].at = "read" /\ op[o].do = "start"
  /\ StillNone(k, p)
  /\ Affords(p)
  /\ natural => k = "blackjack"
  /\ made' = g
  /\ game' = [game EXCEPT ![g] = [NoObject EXCEPT !.kind = k, !.finished = natural]]
  /\ sessions' = IF natural THEN sessions ELSE [sessions EXCEPT ![k][p] = g]
  /\ op' = [op EXCEPT
       ![o].at = "save", ![o].game = g,
       ![o].gain = IF natural THEN 1 ELSE -1,
       ![o].copy = IF natural
                   THEN [debited EXCEPT !.coins[p] = @ + 2, !.settled[g] = @ + 1]
                   ELSE debited]
  /\ UNCHANGED <<lockVars, disk, history>>

\* The settle mutators: credit the payout in the copy.  Only blackjack removes
\* the session here (finishBlackjackInternal), by player, before the save.
SettleMutates(o) ==
  LET k == op[o].kind
      p == op[o].player
      g == op[o].game
      gain == Gain(op[o].outcome, disk.coins[p])
  IN
  /\ op[o].at = "read" /\ op[o].do = "settle"
  /\ op' = [op EXCEPT
       ![o].at = "save", ![o].gain = gain,
       ![o].copy = [disk EXCEPT !.coins[p] = @ + gain, !.settled[g] = @ + 1]]
  /\ game' = IF k = "blackjack" THEN [game EXCEPT ![g].finished = TRUE] ELSE game
  /\ sessions' = IF k = "blackjack" THEN [sessions EXCEPT ![k][p] = NoGame]
                                    ELSE sessions
  /\ UNCHANGED <<lockVars, disk, made, history>>

\* The rename succeeded: release the lock and run the rest of the handler.
\* Mines and a timely quickdraw now delete the player's session.
SaveSucceeds(o) ==
  LET k == op[o].kind
      p == op[o].player
      g == op[o].game
      deletes == op[o].do = "settle" /\ k # "blackjack" /\ op[o].outcome # "early"
      settles == op[o].do = "settle" \/ op[o].gain = 1
  IN
  /\ op[o].at = "save"
  /\ L!Unlock(o)
  /\ disk' = op[o].copy
  /\ acked' = [acked EXCEPT
       !.coins[p]   = @ + op[o].gain,
       !.stake[g]   = IF op[o].do = "start" THEN @ + 1 ELSE @,
       !.settled[g] = IF settles THEN @ + 1 ELSE @]
  /\ sessions' = IF deletes THEN [sessions EXCEPT ![k][p] = NoGame] ELSE sessions
  /\ op' = [op EXCEPT ![o] = Idle]
  /\ UNCHANGED <<game, made, unpaid, dropped>>

\* mkdir, the write of the temporary file or the rename failed: the file is the
\* old one, but what the mutator did to memory stays.
SaveFails(o) ==
  /\ op[o].at = "save"
  /\ L!Unlock(o)
  /\ GiveBack(o)
  /\ op' = [op EXCEPT ![o] = Idle]
  /\ unpaid' = IF op[o].do = "start" THEN unpaid \cup {op[o].game} ELSE unpaid
  /\ UNCHANGED <<disk, sessions, made, acked, dropped>>

-----------------------------------------------------------------------------
\* Mutated: no clean-up timer, only the lazy expiry, which skips finished games.
DropUnfinished(k, p) ==
  /\ sessions[k][p] # NoGame
  /\ ~game[sessions[k][p]].finished
  /\ sessions' = [sessions EXCEPT ![k][p] = NoGame]
  /\ dropped' = dropped \cup {sessions[k][p]}
  /\ UNCHANGED <<lockVars, disk, game, made, op, acked, unpaid>>

\* cancelMines, the clean-up timer (finished or old sessions) and the lazy
\* expiry in getBlackjackGame and its likes.  A session can be old at any time.
Drop(k, p) ==
  /\ sessions[k][p] # NoGame
  /\ sessions' = [sessions EXCEPT ![k][p] = NoGame]
  /\ dropped' = dropped \cup {sessions[k][p]}
  /\ UNCHANGED <<lockVars, disk, game, made, op, acked, unpaid>>

\* The process dies and starts again: memory is gone, the file is the last one
\* renamed into place.
Restart ==
  /\ active' = {} /\ queues' = [k \in {Store} |-> <<>>]
  /\ phase' = [o \in Ops |-> "running"] /\ stack' = [o \in Ops |-> <<>>]
  /\ asked' = asked
  /\ sessions' = [k \in Kinds |-> [p \in Players |-> NoGame]]
  /\ op' = [o \in Ops |-> Idle]
  /\ dropped' = 1..made
  /\ UNCHANGED <<disk, game, made, acked, unpaid>>

Return(o) == ReadFails(o) \/ StartRefused(o) \/ SaveSucceeds(o) \/ SaveFails(o)

Proceed(o) ==
  \/ Granted(o)
  \/ \E natural \in BOOLEAN : StartMutates(o, natural)
  \/ SettleMutates(o)
  \/ Return(o)

Next ==
  \/ \E o \in Ops :
       \/ Proceed(o)
       \/ LockTimeout(o)
       \/ \E p \in Players, k \in Kinds :
            \/ Start(o, k, p)
            \/ \E outcome \in Outcomes : Settle(o, k, p, outcome)
  \/ \E p \in Players :
       \/ StartQuickDraw(p)
       \/ RevealSafe(p)
       \/ \E k \in Kinds : Drop(k, p)
  \/ Restart

\* File operations end, the lock's timer fires, and the clean-up timer runs.
Fairness ==
  /\ \A o \in Ops : WF_vars(Proceed(o)) /\ WF_vars(LockTimeout(o))
  /\ \A k \in Kinds, p \in Players : WF_vars(Drop(k, p))

Spec     == Init /\ [][Next]_vars
FairSpec == Spec /\ Fairness

-----------------------------------------------------------------------------
\* No update of the shared file is lost: it is what the successful operations
\* add up to, although each one writes back a whole-file copy it read earlier.
NoLostUpdate == disk = acked

\* Two near-simultaneous starts debit once each game, and two near-simultaneous
\* Stand, Cash Out or Draw clicks credit one payout, whatever fails or restarts
\* in between and however often a failed settlement is retried.
SettledOnce ==
  \A g \in Games : disk.stake[g] <= 1 /\ disk.settled[g] <= 1

\* A payout is credited only for a bet that was debited, except for a game whose
\* start reported an error because its own save failed after the mutator had
\* created the session (that game is open, and free).
PaidForStake ==
  \A g \in Games :
    disk.settled[g] > 0 /\ game[g].kind \in Wagers /\ g \notin unpaid
      => disk.stake[g] > 0

\* The re-check under the store lock: of two near-simultaneous starts only one
\* debits a bet, so that no open game is ever replaced by another one.
NoGameReplaced ==
  [][\A k \in Kinds, p \in Players :
       sessions[k][p] # NoGame => sessions'[k][p] \in {sessions[k][p], NoGame}]_vars

\* A game that was claimed for settlement does not block its player for ever:
\* the settlement removes it, gives it back, or the clean-up timer removes it.
ClaimedGameEnds ==
  \A k \in Kinds, p \in Players, g \in Games :
    sessions[k][p] = g /\ game[g].finished
      ~> sessions[k][p] # g \/ ~game[g].finished

\* Every handler run returns: the lock is granted or times out, file operations
\* end, and no path through mutatePlayer keeps the lock.
HandlerEnds ==
  \A o \in Ops : op[o].at # "idle" ~> op[o].at = "idle" /\ stack[o] = <<>>

\* "Reset on failure so a transient store error leaves the game playable instead
\* of stranded" (standBlackjack): a blackjack game whose bet was debited, that
\* is not settled, not being settled and was not cancelled, expired or lost in a
\* restart, is still the open game of its player.
FailedSettlementPlayable ==
  \A g \in Games :
    /\ game[g].kind = "blackjack"
    /\ disk.stake[g] = 1 /\ disk.settled[g] = 0
    /\ g \notin dropped
    /\ \A o \in Ops : op[o].game # g
    => \E p \in Players : sessions["blackjack"][p] = g /\ ~game[g].finished
\* The file is a ledger of the games, whatever is queued, retried or lost above
\* it: every rename of a whole-file copy is one bet or one settlement of one
\* game for one player, and no other step moves a coin.
Ledger == INSTANCE WagerLedger WITH
            coins   <- disk.coins,
            debited <- {g \in Games : disk.stake[g] > 0},
            settled <- {g \in Games : disk.settled[g] > 0}

ImplementsLedger == Ledger!Spec
=============================================================================
