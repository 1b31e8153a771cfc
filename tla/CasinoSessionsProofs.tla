------------------------ MODULE CasinoSessionsProofs ------------------------
(***************************************************************************)
(* Money and games of the casino, for any handler runs, players and bounds *)
(* (games/games/*.ts over games/store.ts over games/lock.ts).              *)
(***************************************************************************)
EXTENDS CasinoSessions, SequenceTheorems, FiniteSetTheorems, TLAPS

\* What is proved of the lock manager, for the store's one key.
P == INSTANCE KeyedLockProofs WITH Callers <- Ops, Keys <- {Store}, MaxNesting <- 1

\* A handler run is where the lock manager has it: parked or resolved while it
\* waits, inside the store's key from the read to the end of the save.
PlaceOK(o) ==
  /\ op[o].at \in {"idle", "lock", "read", "save"}
  /\ op[o].at = "idle" => phase[o] = "running" /\ stack[o] = <<>>
  /\ op[o].at = "lock" => phase[o] \in {"waiting", "granted"} /\ stack[o] = <<>>
  /\ op[o].at \in {"read", "save"} => phase[o] = "running" /\ stack[o] = <<Store>>

LockInv == P!IInv /\ \A o \in Ops : PlaceOK(o)

\* Run o goes to a place; the others stay where they are.
Moves(o, place) == op'[o].at = place /\ \A d \in Ops \ {o} : op'[d] = op[d]

-----------------------------------------------------------------------------
LEMMA LockType ==
  ASSUME P!IInv
  PROVE  /\ phase \in [Ops -> {"running", "waiting", "granted"}]
         /\ asked \in [Ops -> {Store}] /\ stack \in [Ops -> Seq({Store})]
         /\ queues \in [{Store} -> Seq(Ops)]
BY DEF P!IInv, P!TypeOK, P!Phases

\* What is proved of the lock manager's steps holds of those the handlers take.
LEMMA LockNext ==
  ASSUME P!IInv, NEW o \in Ops,
         L!Lock(o, Store) \/ L!Resume(o) \/ L!TimeOut(o) \/ L!Unlock(o)
  PROVE  P!IInv'
<1>1. P!Next
  <2>1. CASE L!Lock(o, Store)
    BY <2>1 DEF P!Next, L!Lock, P!Lock, L!LockFree, L!LockBusy, P!LockFree, P!LockBusy
  <2>2. CASE L!Resume(o)
    BY <2>2 DEF P!Next, L!Resume, P!Resume
  <2>3. CASE L!TimeOut(o)
    BY <2>3 DEF P!Next, L!TimeOut, P!TimeOut, L!RemoveAt, P!RemoveAt
  <2>4. CASE L!Unlock(o)
    BY <2>4 DEF P!Next, L!Unlock, P!Unlock, L!HandOver, L!SetFree, P!HandOver, P!SetFree,
                L!Front, P!Front, L!Last, P!Last
  <2> QED BY <2>1, <2>2, <2>3, <2>4
<1>2. P!IInv /\ [P!Next]_(P!vars) => P!IInv'
  BY NobodyIsNoOp, P!NextIInv
<1> QED BY <1>1, <1>2

\* Two runs are never both between the read and the end of the save.
LEMMA OneInside ==
  ASSUME LockInv, NEW o \in Ops, NEW d \in Ops,
         op[o].at \in {"read", "save"}, op[d].at \in {"read", "save"}
  PROVE  o = d
<1>1. stack[o] = <<Store>> /\ stack[d] = <<Store>>
  BY DEF LockInv, PlaceOK
<1>2. Store \in P!ToSet(<<Store>>)
  BY DEF P!ToSet
<1> QED BY <1>1, <1>2 DEF LockInv, P!IInv, P!MutualExclusion, P!Holds

LEMMA Taken ==
  ASSUME LockInv, NEW o \in Ops, op[o].at = "idle", L!Lock(o, Store), Moves(o, "lock")
  PROVE  LockInv'
<1>1. P!IInv'
  BY LockNext DEF LockInv
<1>2. /\ \A d \in Ops \ {o} : phase'[d] = phase[d] /\ stack'[d] = stack[d]
      /\ phase'[o] \in {"waiting", "granted"} /\ stack'[o] = stack[o]
  BY LockType DEF LockInv, L!Lock, L!LockFree, L!LockBusy
<1> QED BY <1>1, <1>2 DEF LockInv, PlaceOK, Moves

LEMMA Resumed ==
  ASSUME LockInv, NEW o \in Ops, op[o].at = "lock", L!Resume(o), Moves(o, "read")
  PROVE  LockInv'
<1>1. P!IInv'
  BY LockNext DEF LockInv
<1>2. stack[o] = <<>> /\ asked[o] = Store
  BY LockType DEF LockInv, PlaceOK
<1>3. /\ \A d \in Ops \ {o} : phase'[d] = phase[d] /\ stack'[d] = stack[d]
      /\ phase'[o] = "running" /\ stack'[o] = <<Store>>
  BY <1>2, LockType DEF LockInv, L!Resume
<1> QED BY <1>1, <1>3 DEF LockInv, PlaceOK, Moves

LEMMA TimedOut ==
  ASSUME LockInv, NEW o \in Ops, op[o].at = "lock", L!TimeOut(o), Moves(o, "idle")
  PROVE  LockInv'
<1>1. P!IInv'
  BY LockNext DEF LockInv
<1>2. /\ \A d \in Ops \ {o} : phase'[d] = phase[d] /\ stack'[d] = stack[d]
      /\ phase'[o] = "running" /\ stack'[o] = stack[o]
  BY LockType DEF LockInv, L!TimeOut
<1> QED BY <1>1, <1>2 DEF LockInv, PlaceOK, Moves

\* A hand-over reaches a run that is parked.
LEMMA Released ==
  ASSUME LockInv, NEW o \in Ops, op[o].at \in {"read", "save"}, L!Unlock(o), Moves(o, "idle")
  PROVE  LockInv'
<1>1. P!IInv'
  BY LockNext DEF LockInv
<1>2. stack[o] = <<Store>> /\ phase[o] = "running"
  BY DEF LockInv, PlaceOK
<1>3. L!Last(<<Store>>) = Store /\ L!Front(<<Store>>) = <<>>
  BY DEF L!Last, L!Front
<1>4. /\ \A d \in Ops \ {o} : stack'[d] = stack[d]
      /\ stack'[o] = <<>>
      /\ L!HandOver(Store) \/ L!SetFree(Store)
  BY <1>2, <1>3, LockType DEF LockInv, L!Unlock
<1>5. \A d \in Ops : phase'[d] = phase[d] \/ (phase[d] = "waiting" /\ phase'[d] = "granted")
  <2>1. CASE L!SetFree(Store)
    BY <2>1 DEF L!SetFree
  <2>2. CASE L!HandOver(Store)
    <3>1. queues[Store] \in Seq(Ops) /\ queues[Store] # <<>>
      BY <2>2, LockType DEF LockInv, L!HandOver
    <3>2. 1 \in DOMAIN queues[Store] /\ Head(queues[Store]) = queues[Store][1]
      BY <3>1, EmptySeq, LenProperties, HeadTailProperties
    <3>3. Head(queues[Store]) \in Ops /\ Head(queues[Store]) \in P!ToSet(queues[Store])
      BY <3>1, <3>2, ElementOfSeq, LenProperties DEF P!ToSet
    <3>4. phase[Head(queues[Store])] = "waiting"
      BY <3>3 DEF LockInv, P!IInv, P!QueueIsParked
    <3> QED BY <2>2, <3>3, <3>4, LockType DEF LockInv, L!HandOver
  <2> QED BY <1>4, <2>1, <2>2
<1> QED BY <1>1, <1>2, <1>4, <1>5 DEF LockInv, PlaceOK, Moves

\* A step that leaves the lock manager alone, and everybody in his place.
LEMMA LockUntouched ==
  ASSUME LockInv, UNCHANGED lockVars, \A o \in Ops : \/ op'[o].at = op[o].at
                                                     \/ op[o].at = "read" /\ op'[o].at = "save"
  PROVE  LockInv'
<1>1. P!IInv'
  BY DEF LockInv, lockVars, P!IInv, P!TypeOK, P!MutualExclusion, P!NoReentry, P!ActiveIffHeld,
         P!QueueIsParked, P!Holds
<1> QED BY <1>1 DEF LockInv, PlaceOK, lockVars

LEMMA LockInit == Init => LockInv
<1> SUFFICES ASSUME Init PROVE LockInv
  OBVIOUS
<1>1. P!Init
  BY DEF Init, L!Init, P!Init
<1>2. P!IInv
  BY <1>1, NobodyIsNoOp, P!InitIInv
<1>3. \A o \in Ops : op[o].at = "idle" /\ phase[o] = "running" /\ stack[o] = <<>>
  BY DEF Init, L!Init, Idle
<1> QED BY <1>2, <1>3 DEF LockInv, PlaceOK

LEMMA LockRestart ==
  ASSUME LockInv, Restart
  PROVE  LockInv'
<1>1. /\ active' = {} /\ queues' = [k \in {Store} |-> <<>>] /\ asked' = asked
      /\ phase' = [o \in Ops |-> "running"] /\ stack' = [o \in Ops |-> <<>>]
      /\ op' = [o \in Ops |-> Idle]
  BY DEF Restart
<1>2. /\ <<>> \in Seq(Ops) /\ <<>> \in Seq({Store})
      /\ P!ToSet(<<>>) = {}
  BY EmptySeq DEF P!ToSet
<1>3. P!TypeOK'
  BY <1>1, <1>2, LockType DEF LockInv, P!TypeOK, P!Phases
<1>4. \A o \in Ops, k \in {Store} : ~P!Holds(o, k)'
  BY <1>1, <1>2 DEF P!Holds
<1>5. P!MutualExclusion'
  BY <1>1, <1>2, <1>4 DEF P!MutualExclusion
<1>6. P!NoReentry' /\ P!ActiveIffHeld'
  BY <1>1, <1>4 DEF P!NoReentry, P!ActiveIffHeld
<1>7. P!QueueIsParked'
  BY <1>1, <1>2 DEF P!QueueIsParked
<1>8. \A o \in Ops : PlaceOK(o)'
  BY <1>1 DEF PlaceOK, Idle
<1> QED BY <1>3, <1>5, <1>6, <1>7, <1>8 DEF LockInv, P!IInv

-----------------------------------------------------------------------------
(***************************************************************************)
(* The file, the handler runs and the bound of the games.                  *)
(***************************************************************************)

OpRecord == [do : {"none", "start", "settle"}, at : {"idle", "lock", "read", "save"},
             kind : Kinds \cup {"none"}, player : Players \cup {Nobody},
             game : Games \cup {NoGame}, outcome : Outcomes \cup {"none"},
             gain : -1..2, copy : File]

Settles(r) == r.do = "settle" \/ r.gain = 1

\* What a run that is about to save adds to the file.
Effect(r, file) ==
  [coins   |-> [file.coins EXCEPT ![r.player] = @ + r.gain],
   stake   |-> [file.stake EXCEPT ![r.game] = IF r.do = "start" THEN @ + 1 ELSE @],
   settled |-> [file.settled EXCEPT ![r.game] = IF Settles(r) THEN @ + 1 ELSE @]]

OpOK(o) ==
  /\ op[o].at = "idle" => op[o] = Idle
  /\ op[o].at # "idle" => /\ op[o].do \in {"start", "settle"}
                          /\ op[o].kind \in Kinds /\ op[o].player \in Players
  /\ op[o].do = "start" => op[o].kind \in Wagers
  /\ op[o].do = "settle" => op[o].game \in 1..made /\ op[o].outcome \in Outcomes
  /\ op[o].at = "save" => /\ op[o].game \in 1..made
                          /\ op[o].do = "start" => op[o].gain \in {-1, 1}
                          /\ op[o].copy = Effect(op[o], disk)

\* Runs that may still create a game; the bound leaves room for all of them.
Starting == {o \in Ops : op[o].do = "start" /\ op[o].at \in {"lock", "read"}}

RoomLeft == IsFiniteSet(Starting) /\ made + Cardinality(Starting) <= MaxGames

TypesInv ==
  /\ disk \in File /\ acked = disk
  /\ made \in 0..MaxGames
  /\ sessions \in [Kinds -> [Players -> 0..made]]
  /\ game \in [Games -> [kind : Kinds \cup {"none"}, finished : BOOLEAN, revealed : BOOLEAN]]
  /\ unpaid \subseteq Games /\ dropped \subseteq Games
  /\ op \in [Ops -> OpRecord]
  /\ \A o \in Ops : OpOK(o)
  /\ RoomLeft

LEMMA IdleType == Idle \in OpRecord /\ NoFile \in File
BY DEF Idle, OpRecord, NoFile, File, NoGame

LEMMA EffectType ==
  ASSUME NEW r \in OpRecord, NEW f \in File, r.player \in Players, r.game \in Games,
         f.coins[r.player] + r.gain \in Nat
  PROVE  Effect(r, f) \in File
BY DEF Effect, File, OpRecord, Settles

\* Fewer runs that may create a game, no more games.
LEMMA RoomShrinks ==
  ASSUME RoomLeft, made \in Nat, made' = made, Starting' \subseteq Starting
  PROVE  RoomLeft'
<1>1. /\ IsFiniteSet(Starting') /\ Cardinality(Starting') <= Cardinality(Starting)
      /\ Cardinality(Starting) \in Nat /\ Cardinality(Starting') \in Nat
  BY FS_Subset, FS_CardinalityType DEF RoomLeft
<1> QED BY <1>1, BoundsAssumption DEF RoomLeft

LEMMA SessionEdit ==
  ASSUME NEW m \in Nat, NEW table \in [Kinds -> [Players -> 0..m]],
         NEW k \in Kinds, NEW p \in Players, NEW n \in 0..m
  PROVE  /\ [table EXCEPT ![k][p] = n] \in [Kinds -> [Players -> 0..m]]
         /\ \A j \in Kinds, q \in Players :
              [table EXCEPT ![k][p] = n][j][q] = IF j = k /\ q = p THEN n ELSE table[j][q]
OBVIOUS

\* The other runs are in order as long as the file keeps still while one saves.
LEMMA OthersOK ==
  ASSUME TypesInv, NEW o \in Ops, \A d \in Ops \ {o} : op'[d] = op[d],
         made' \in Nat, made <= made', OpOK(o)',
         disk' = disk \/ \A d \in Ops \ {o} : op[d].at # "save"
  PROVE  \A d \in Ops : OpOK(d)'
<1>1. ASSUME NEW d \in Ops \ {o} PROVE OpOK(d)'
  <2>1. OpOK(d) /\ op'[d] = op[d] /\ made \in Nat
    BY BoundsAssumption DEF TypesInv
  <2> QED BY <2>1 DEF OpOK, Effect
<1> QED BY <1>1

LEMMA TypesInit == Init => TypesInv
<1> SUFFICES ASSUME Init PROVE TypesInv
  OBVIOUS
<1>1. /\ disk \in File /\ acked = disk
  BY BoundsAssumption, IdleType DEF Init, File, NoFile
<1>2. op \in [Ops -> OpRecord] /\ \A o \in Ops : op[o] = Idle
  BY IdleType DEF Init
<1>3. \A o \in Ops : OpOK(o)
  BY <1>2 DEF OpOK, Idle
<1>4. Starting = {}
  BY <1>2 DEF Starting, Idle
<1>5. RoomLeft
  BY <1>4, FS_EmptySet, BoundsAssumption DEF RoomLeft, Init
<1>6. /\ made = 0 /\ sessions \in [Kinds -> [Players -> 0..made]]
      /\ game \in [Games -> [kind : Kinds \cup {"none"}, finished : BOOLEAN, revealed : BOOLEAN]]
      /\ unpaid \subseteq Games /\ dropped \subseteq Games
  BY DEF Init, NoGame, NoObject
<1> QED BY <1>1, <1>2, <1>3, <1>5, <1>6, BoundsAssumption DEF TypesInv

LEMMA TypesStart ==
  ASSUME TypesInv, NEW o \in Ops, NEW k \in Kinds, NEW p \in Players, Start(o, k, p)
  PROVE  TypesInv'
<1>1. /\ op[o].at = "idle" /\ k \in Wagers
      /\ op' = [op EXCEPT ![o] = [Idle EXCEPT !.do = "start", !.at = "lock",
                                              !.kind = k, !.player = p]]
      /\ UNCHANGED <<disk, sessions, game, made, acked, unpaid, dropped>>
  BY DEF Start, memory, history
<1>2. /\ op'[o] \in OpRecord /\ op'[o].do = "start" /\ op'[o].at = "lock"
      /\ op'[o].kind = k /\ op'[o].player = p
      /\ op' \in [Ops -> OpRecord] /\ \A d \in Ops \ {o} : op'[d] = op[d]
  BY <1>1, IdleType DEF TypesInv, OpRecord, Idle
<1>3. OpOK(o)'
  BY <1>1, <1>2 DEF OpOK
<1>4. made \in Nat
  BY DEF TypesInv
<1>5. \A d \in Ops : OpOK(d)'
  BY <1>1, <1>2, <1>3, <1>4, OthersOK
<1>6. RoomLeft'
  <2>1. Starting' = Starting \cup {o} /\ o \notin Starting
    BY <1>1, <1>2 DEF Starting
  <2>2. IsFiniteSet(Starting') /\ Cardinality(Starting') = Cardinality(Starting) + 1
    BY <2>1, FS_AddElement DEF TypesInv, RoomLeft
  <2>3. made + Cardinality(Starting) < MaxGames
    BY DEF Start, Room, Starting
  <2>4. Cardinality(Starting) \in Nat
    BY FS_CardinalityType DEF TypesInv, RoomLeft
  <2> QED BY <1>1, <1>4, <2>2, <2>3, <2>4, BoundsAssumption DEF RoomLeft
<1> QED BY <1>1, <1>2, <1>5, <1>6 DEF TypesInv

LEMMA TypesSettle ==
  ASSUME TypesInv, NEW o \in Ops, NEW k \in Kinds, NEW p \in Players, NEW outcome \in Outcomes,
         Settle(o, k, p, outcome)
  PROVE  TypesInv'
<1> DEFINE g == sessions[k][p]
<1>1. /\ op[o].at = "idle" /\ g # NoGame
      /\ game' = [game EXCEPT ![g].finished = TRUE]
      /\ op' = [op EXCEPT ![o] = [Idle EXCEPT !.do = "settle", !.at = "lock", !.kind = k,
                                    !.player = p, !.game = g, !.outcome = outcome]]
      /\ sessions' = IF outcome = "early" THEN [sessions EXCEPT ![k][p] = NoGame]
                                          ELSE sessions
      /\ UNCHANGED <<disk, made, acked, unpaid, dropped>>
  BY DEF Settle, history
<1>2. made \in Nat /\ made <= MaxGames /\ MaxGames \in Nat
  BY BoundsAssumption DEF TypesInv
<1>3. g \in 1..made /\ g \in Games
  BY <1>1, <1>2 DEF TypesInv, NoGame, Games
<1> HIDE DEF g
<1>4. /\ op'[o] \in OpRecord /\ op'[o].do = "settle" /\ op'[o].at = "lock"
      /\ op'[o].kind = k /\ op'[o].player = p /\ op'[o].game = g /\ op'[o].outcome = outcome
      /\ op' \in [Ops -> OpRecord] /\ \A d \in Ops \ {o} : op'[d] = op[d]
  BY <1>1, <1>3, IdleType DEF TypesInv, OpRecord, Idle
<1>5. OpOK(o)'
  BY <1>1, <1>3, <1>4 DEF OpOK
<1>6. \A d \in Ops : OpOK(d)'
  BY <1>1, <1>2, <1>4, <1>5, OthersOK
<1>7. Starting' \subseteq Starting
  BY <1>4 DEF Starting
<1>8. sessions' \in [Kinds -> [Players -> 0..made]]
  BY <1>1, <1>2 DEF TypesInv, NoGame
<1>9. game' \in [Games -> [kind : Kinds \cup {"none"}, finished : BOOLEAN, revealed : BOOLEAN]]
  BY <1>1, <1>3 DEF TypesInv
<1> QED BY <1>1, <1>2, <1>4, <1>6, <1>7, <1>8, <1>9, RoomShrinks DEF TypesInv

GameType == [Games -> [kind : Kinds \cup {"none"}, finished : BOOLEAN, revealed : BOOLEAN]]

\* A run returns, with the file as it is or with a new one.
LEMMA TypesLeave ==
  ASSUME TypesInv, NEW o \in Ops, op' = [op EXCEPT ![o] = Idle], made' = made,
         disk' \in File, acked' = disk',
         disk' = disk \/ \A d \in Ops \ {o} : op[d].at # "save",
         sessions' \in [Kinds -> [Players -> 0..made]], game' \in GameType,
         unpaid' \subseteq Games, dropped' \subseteq Games
  PROVE  TypesInv'
<1>1. made \in Nat
  BY BoundsAssumption DEF TypesInv
<1>2. /\ op'[o] = Idle /\ op' \in [Ops -> OpRecord] /\ \A d \in Ops \ {o} : op'[d] = op[d]
  BY IdleType DEF TypesInv
<1>3. OpOK(o)'
  BY <1>2 DEF OpOK, Idle
<1>4. \A d \in Ops : OpOK(d)'
  BY <1>1, <1>2, <1>3, OthersOK
<1>5. Starting' \subseteq Starting
  BY <1>2 DEF Starting, Idle
<1> QED BY <1>1, <1>2, <1>4, <1>5, RoomShrinks DEF TypesInv, GameType

LEMMA GiveBackType ==
  ASSUME TypesInv, NEW o \in Ops, GiveBack(o)
  PROVE  game' \in GameType
BY DEF TypesInv, GiveBack, GameType

\* The lock times out, the read fails, the mutator throws, or the save fails.
LEMMA TypesFail ==
  ASSUME TypesInv, NEW o \in Ops,
         LockTimeout(o) \/ ReadFails(o) \/ StartRefused(o) \/ SaveFails(o)
  PROVE  TypesInv'
<1>1. /\ op' = [op EXCEPT ![o] = Idle]
      /\ UNCHANGED <<disk, sessions, made, acked, dropped>>
  BY DEF LockTimeout, ReadFails, StartRefused, SaveFails, memory, history
<1>2. game' \in GameType
  <2>1. CASE StartRefused(o)
    BY <2>1 DEF StartRefused, memory, TypesInv, GameType
  <2>2. CASE GiveBack(o)
    BY <2>2, GiveBackType
  <2> QED BY <2>1, <2>2 DEF LockTimeout, ReadFails, SaveFails
<1>3. unpaid' \subseteq Games
  <2>1. CASE SaveFails(o)
    <3>1. op[o].game \in 1..made /\ made \in 0..MaxGames
      BY <2>1 DEF SaveFails, TypesInv, OpOK
    <3>2. op[o].game \in Games
      BY <3>1, BoundsAssumption DEF Games
    <3> QED BY <2>1, <3>2 DEF SaveFails, TypesInv
  <2>2. CASE unpaid' = unpaid
    BY <2>2 DEF TypesInv
  <2> QED BY <2>1, <2>2 DEF LockTimeout, ReadFails, StartRefused, history
<1>4. /\ disk \in File /\ acked = disk /\ sessions \in [Kinds -> [Players -> 0..made]]
      /\ dropped \subseteq Games
  BY DEF TypesInv
<1> QED BY <1>1, <1>2, <1>3, <1>4, TypesLeave

\* The saved copy is what the successful operations add up to.
LEMMA SavedFile ==
  ASSUME TypesInv, NEW o \in Ops, SaveSucceeds(o)
  PROVE  disk' \in File /\ acked' = disk' /\ disk' = Effect(op[o], disk)
<1>1. /\ op[o] \in OpRecord /\ op[o].copy = Effect(op[o], disk) /\ op[o].copy \in File
      /\ disk \in File /\ acked = disk
  BY DEF TypesInv, OpOK, SaveSucceeds, OpRecord
<1>2. disk' = op[o].copy
  BY DEF SaveSucceeds
<1>3. acked' = [coins   |-> [disk.coins EXCEPT ![op[o].player] = @ + op[o].gain],
                stake   |-> [disk.stake EXCEPT ![op[o].game] =
                               IF op[o].do = "start" THEN @ + 1 ELSE @],
                settled |-> [disk.settled EXCEPT ![op[o].game] =
                               IF op[o].do = "settle" \/ op[o].gain = 1 THEN @ + 1 ELSE @]]
  BY <1>1 DEF SaveSucceeds, File
<1> QED BY <1>1, <1>2, <1>3 DEF Effect, Settles

LEMMA TypesSave ==
  ASSUME LockInv, TypesInv, NEW o \in Ops, SaveSucceeds(o)
  PROVE  TypesInv'
<1>1. /\ op[o].at = "save" /\ op' = [op EXCEPT ![o] = Idle]
      /\ UNCHANGED <<game, made, unpaid, dropped>>
      /\ sessions' = sessions \/ sessions' = [sessions EXCEPT ![op[o].kind][op[o].player] = NoGame]
  BY DEF SaveSucceeds
<1>2. \A d \in Ops \ {o} : op[d].at # "save"
  BY <1>1, OneInside
<1>3. op[o].kind \in Kinds /\ op[o].player \in Players /\ made \in Nat
  BY <1>1, BoundsAssumption DEF TypesInv, OpOK
<1>4. sessions' \in [Kinds -> [Players -> 0..made]]
  <2>1. sessions \in [Kinds -> [Players -> 0..made]] /\ 0 \in 0..made
    BY <1>3 DEF TypesInv
  <2>2. [sessions EXCEPT ![op[o].kind][op[o].player] = 0] \in [Kinds -> [Players -> 0..made]]
    BY <1>3, <2>1, SessionEdit
  <2> QED BY <1>1, <2>1, <2>2 DEF NoGame
<1>5. game' \in GameType /\ unpaid' \subseteq Games /\ dropped' \subseteq Games
  BY <1>1 DEF TypesInv, GameType
<1> QED BY <1>1, <1>2, <1>4, <1>5, SavedFile, TypesLeave

LEMMA TypesGranted ==
  ASSUME TypesInv, NEW o \in Ops, Granted(o)
  PROVE  TypesInv'
<1>1. /\ op[o].at = "lock" /\ op' = [op EXCEPT ![o].at = "read"]
      /\ UNCHANGED <<disk, sessions, game, made, acked, unpaid, dropped>>
  BY DEF Granted, memory, history
<1>2. /\ op'[o] = [op[o] EXCEPT !.at = "read"]
      /\ op' \in [Ops -> OpRecord] /\ \A d \in Ops \ {o} : op'[d] = op[d]
  <2>1. op \in [Ops -> OpRecord]
    BY DEF TypesInv
  <2>2. \A r \in OpRecord : [r EXCEPT !.at = "read"] \in OpRecord
    BY DEF OpRecord
  <2> QED BY <1>1, <2>1, <2>2
<1>3. OpOK(o)'
  BY <1>1, <1>2 DEF TypesInv, OpOK, OpRecord
<1>4. made \in Nat
  BY BoundsAssumption DEF TypesInv
<1>5. \A d \in Ops : OpOK(d)'
  BY <1>1, <1>2, <1>3, <1>4, OthersOK
<1>6. Starting' \subseteq Starting
  BY <1>1, <1>2 DEF Starting, TypesInv, OpRecord
<1> QED BY <1>1, <1>2, <1>4, <1>5, <1>6, RoomShrinks DEF TypesInv

\* The edits of the start mutator and of a settlement.
Debited(f, p, g)        == [f EXCEPT !.coins[p] = @ - 1, !.stake[g] = @ + 1]
Credited(f, p, g, gain) == [f EXCEPT !.coins[p] = @ + gain, !.settled[g] = @ + 1]

\* The same, field by field.
LEMMA DebitFields ==
  ASSUME NEW f, NEW c, NEW s, NEW t, f = [coins |-> c, stake |-> s, settled |-> t],
         NEW p, NEW g
  PROVE  Debited(f, p, g)
           = [coins |-> [c EXCEPT ![p] = @ - 1], stake |-> [s EXCEPT ![g] = @ + 1], settled |-> t]
<1> DEFINE e == [f EXCEPT !.coins[p] = @ - 1]
<1>1. Debited(f, p, g) = [e EXCEPT !.stake[g] = f.stake[g] + 1]
  BY DEF Debited
<1>2. e = [coins |-> [c EXCEPT ![p] = @ - 1], stake |-> s, settled |-> t]
  BY SMT
<1> HIDE DEF e
<1>3. [e EXCEPT !.stake[g] = f.stake[g] + 1]
        = [coins |-> [c EXCEPT ![p] = @ - 1],
           stake |-> [s EXCEPT ![g] = f.stake[g] + 1], settled |-> t]
  BY ONLY <1>2, SMT
<1>4. f.stake[g] = s[g]
  BY SMT
<1> QED BY <1>1, <1>3, <1>4

LEMMA CreditFields ==
  ASSUME NEW f, NEW c, NEW s, NEW t, f = [coins |-> c, stake |-> s, settled |-> t],
         NEW p, NEW g, NEW gain
  PROVE  Credited(f, p, g, gain)
           = [coins |-> [c EXCEPT ![p] = @ + gain], stake |-> s, settled |-> [t EXCEPT ![g] = @ + 1]]
<1> DEFINE e == [f EXCEPT !.coins[p] = @ + gain]
<1>1. Credited(f, p, g, gain) = [e EXCEPT !.settled[g] = f.settled[g] + 1]
  BY DEF Credited
<1>2. e = [coins |-> [c EXCEPT ![p] = @ + gain], stake |-> s, settled |-> t]
  BY SMT
<1> HIDE DEF e
<1>3. [e EXCEPT !.settled[g] = f.settled[g] + 1]
        = [coins |-> [c EXCEPT ![p] = @ + gain], stake |-> s,
           settled |-> [t EXCEPT ![g] = f.settled[g] + 1]]
  BY ONLY <1>2, SMT
<1>4. f.settled[g] = t[g]
  BY SMT
<1> QED BY <1>1, <1>3, <1>4

\* The copies the mutators make are the file and what the run adds to it.
LEMMA StartCopy ==
  ASSUME NEW f \in File, NEW p \in Players, NEW g \in Games, NEW natural \in BOOLEAN,
         NEW r, r.player = p, r.game = g, r.do = "start",
         r.gain = IF natural THEN 1 ELSE -1
  PROVE  (IF natural THEN Credited(Debited(f, p, g), p, g, 2) ELSE Debited(f, p, g)) = Effect(r, f)
<1> DEFINE coins1 == [f.coins EXCEPT ![p] = @ - 1]
           stake1 == [f.stake EXCEPT ![g] = @ + 1]
           debited == Debited(f, p, g)
<1>1. /\ f.coins \in [Players -> Nat] /\ f.stake \in [Games -> Nat]
      /\ f.settled \in [Games -> Nat]
      /\ f = [coins |-> f.coins, stake |-> f.stake, settled |-> f.settled]
  BY DEF File
<1>2. debited = [coins |-> coins1, stake |-> stake1, settled |-> f.settled]
  BY <1>1, DebitFields
<1>3. coins1 \in [Players -> Int] /\ coins1[p] = f.coins[p] - 1
  BY <1>1
<1>4. Credited(debited, p, g, 2)
        = [coins |-> [coins1 EXCEPT ![p] = @ + 2], stake |-> stake1,
           settled |-> [f.settled EXCEPT ![g] = @ + 1]]
  <2> HIDE DEF debited, coins1, stake1
  <2> QED BY <1>2, CreditFields
<1>5. [coins1 EXCEPT ![p] = @ + 2] = [f.coins EXCEPT ![p] = @ + 1]
  BY <1>1, <1>3
<1>6. coins1 = [f.coins EXCEPT ![p] = @ + (-1)]
  BY <1>1
<1>7. [f.settled EXCEPT ![g] = @] = f.settled
  BY <1>1
<1> HIDE DEF debited, coins1
<1>8. ASSUME natural PROVE Credited(debited, p, g, 2) = Effect(r, f)
  BY <1>4, <1>5, <1>8 DEF Effect, Settles
<1>9. ASSUME ~natural PROVE debited = Effect(r, f)
  <2>1. r.gain = -1 /\ ~Settles(r)
    BY <1>9 DEF Settles
  <2> QED BY <1>2, <1>6, <1>7, <2>1 DEF Effect
<1> QED BY <1>8, <1>9 DEF debited

LEMMA SettleCopy ==
  ASSUME NEW f \in File, NEW p \in Players, NEW g \in Games, NEW gain \in Int,
         NEW r, r.player = p, r.game = g, r.do = "settle", r.gain = gain
  PROVE  Credited(f, p, g, gain) = Effect(r, f)
<1>1. /\ f.stake \in [Games -> Nat]
      /\ f = [coins |-> f.coins, stake |-> f.stake, settled |-> f.settled]
  BY DEF File
<1>2. [f.stake EXCEPT ![g] = @] = f.stake
  BY <1>1
<1>3. Credited(f, p, g, gain)
        = [coins |-> [f.coins EXCEPT ![p] = @ + gain], stake |-> f.stake,
           settled |-> [f.settled EXCEPT ![g] = @ + 1]]
  BY <1>1, CreditFields
<1> QED BY <1>2, <1>3 DEF Effect, Settles

LEMMA MutatedGame ==
  ASSUME TypesInv, NEW o \in Ops, op[o].do = "start", op[o].at = "read"
  PROVE  made + 1 \in Games /\ made + 1 \in 0..MaxGames
<1>1. o \in Starting
  BY DEF Starting
<1>2. Cardinality(Starting) \in Nat /\ Cardinality(Starting) # 0
  BY <1>1, FS_CardinalityType, FS_EmptySet DEF TypesInv, RoomLeft
<1> QED BY <1>2, BoundsAssumption DEF TypesInv, RoomLeft, Games

LEMMA TypesStartMutates ==
  ASSUME LockInv, TypesInv, NEW o \in Ops, NEW natural \in BOOLEAN, StartMutates(o, natural)
  PROVE  TypesInv'
<1> DEFINE k == op[o].kind
           p == op[o].player
           g == made + 1
           copied == IF natural THEN Credited(Debited(disk, p, g), p, g, 2)
                     ELSE Debited(disk, p, g)
           gain == IF natural THEN 1 ELSE -1
<1>1. /\ op[o].at = "read" /\ op[o].do = "start" /\ disk.coins[p] >= 1
      /\ made' = g
      /\ game' = [game EXCEPT ![g] = [NoObject EXCEPT !.kind = k, !.finished = natural]]
      /\ sessions' = IF natural THEN sessions ELSE [sessions EXCEPT ![k][p] = g]
      /\ op' = [op EXCEPT ![o].at = "save", ![o].game = g, ![o].gain = gain,
                          ![o].copy = copied]
      /\ UNCHANGED <<disk, acked, unpaid, dropped>>
  BY DEF StartMutates, Affords, history, Debited, Credited
<1>2. /\ g \in Games /\ made \in Nat /\ g \in 0..MaxGames
      /\ k \in Kinds /\ p \in Players /\ k \in Wagers
      /\ op[o] \in OpRecord /\ op \in [Ops -> OpRecord] /\ disk \in File
  BY <1>1, MutatedGame, BoundsAssumption DEF TypesInv, OpOK
<1> HIDE DEF copied, gain
<1>3. op'[o] = [op[o] EXCEPT !.at = "save", !.game = g, !.gain = gain, !.copy = copied]
      /\ \A d \in Ops \ {o} : op'[d] = op[d]
  BY <1>1, <1>2
<1>4. /\ op'[o].at = "save" /\ op'[o].game = g /\ op'[o].gain = gain /\ op'[o].copy = copied
      /\ op'[o].do = "start" /\ op'[o].kind = k /\ op'[o].player = p
      /\ op'[o].outcome = op[o].outcome
      /\ op'[o] = [do |-> "start", at |-> "save", kind |-> k, player |-> p, game |-> g,
                   outcome |-> op[o].outcome, gain |-> gain, copy |-> copied]
  BY <1>1, <1>2, <1>3 DEF OpRecord
<1>5. copied = Effect(op'[o], disk)
  <2> HIDE DEF p, g, k
  <2>1. /\ op'[o].player = p /\ op'[o].game = g /\ op'[o].do = "start"
        /\ op'[o].gain = IF natural THEN 1 ELSE -1
        /\ disk \in File /\ p \in Players /\ g \in Games /\ disk.coins[p] >= 1
    BY <1>1, <1>2, <1>4 DEF gain, p
  <2> DEFINE r == op'[o]
  <2> HIDE DEF r
  <2>2. r.player = p /\ r.game = g /\ r.do = "start" /\ r.gain = IF natural THEN 1 ELSE -1
    BY <2>1 DEF r
  <2>3. copied = Effect(r, disk)
    BY <2>1, <2>2, StartCopy DEF copied
  <2> QED BY <2>3 DEF r
<1>6. copied \in File
  <2>1. disk.coins[p] \in Nat /\ disk.coins[p] + gain \in Nat
    BY <1>1, <1>2 DEF File, gain
  <2>2. disk.coins \in [Players -> Nat] /\ disk.stake \in [Games -> Nat]
        /\ disk.settled \in [Games -> Nat]
    BY <1>2 DEF File
  <2>3. [disk.coins EXCEPT ![p] = @ + gain] \in [Players -> Nat]
    BY <1>2, <2>1, <2>2
  <2>4. [disk.stake EXCEPT ![g] = IF "start" = "start" THEN @ + 1 ELSE @] \in [Games -> Nat]
    BY <1>2, <2>2
  <2>5. [disk.settled EXCEPT ![g] = IF Settles(op'[o]) THEN @ + 1 ELSE @] \in [Games -> Nat]
    BY <1>2, <2>2
  <2> QED BY <1>4, <1>5, <2>3, <2>4, <2>5 DEF Effect, File
<1>7. op'[o] \in OpRecord /\ op' \in [Ops -> OpRecord]
  <2>1. op[o].outcome \in Outcomes \cup {"none"} /\ gain \in -1..2
    BY <1>2 DEF OpRecord, gain
  <2>2. op'[o] \in OpRecord
    BY <1>2, <1>4, <1>6, <2>1 DEF OpRecord
  <2>3. op' = [op EXCEPT ![o] = op'[o]]
    BY <1>1, <1>2
  <2> QED BY <1>2, <2>2, <2>3
<1>8. OpOK(o)'
  <2>1. g \in 1..made' /\ gain \in {-1, 1} /\ disk' = disk
    BY <1>1, <1>2 DEF gain
  <2> QED BY <1>2, <1>4, <1>5, <2>1 DEF OpOK
<1>9. \A d \in Ops : OpOK(d)'
  BY <1>1, <1>2, <1>3, <1>8, OthersOK
<1>10. RoomLeft'
  <2>0. /\ o \in Starting /\ o \notin Starting'
        /\ \A d \in Ops \ {o} : d \in Starting' <=> d \in Starting
    BY <1>1, <1>3, <1>4 DEF Starting
  <2>1. Starting' = Starting \ {o} /\ o \in Starting
    BY <2>0 DEF Starting
  <2>2. /\ IsFiniteSet(Starting') /\ Cardinality(Starting') = Cardinality(Starting) - 1
        /\ Cardinality(Starting) \in Nat
    BY <2>1, FS_RemoveElement, FS_CardinalityType DEF TypesInv, RoomLeft
  <2> QED BY <1>1, <1>2, <2>2, BoundsAssumption DEF TypesInv, RoomLeft
<1>11. sessions' \in [Kinds -> [Players -> 0..made']]
  <2>1. sessions \in [Kinds -> [Players -> 0..made']] /\ g \in 0..made' /\ made' \in Nat
    BY <1>1, <1>2 DEF TypesInv
  <2> QED BY <1>1, <1>2, <2>1, SessionEdit
<1>12. game' \in GameType
  BY <1>1, <1>2 DEF TypesInv, GameType, NoObject
<1> QED BY <1>1, <1>2, <1>7, <1>9, <1>10, <1>11, <1>12 DEF TypesInv, GameType

LEMMA TypesSettleMutates ==
  ASSUME LockInv, TypesInv, NEW o \in Ops, SettleMutates(o)
  PROVE  TypesInv'
<1> DEFINE k == op[o].kind
           p == op[o].player
           g == op[o].game
           gain == Gain(op[o].outcome, disk.coins[p])
           copied == Credited(disk, p, g, gain)
<1>1. /\ op[o].at = "read" /\ op[o].do = "settle"
      /\ game' = IF k = "blackjack" THEN [game EXCEPT ![g].finished = TRUE] ELSE game
      /\ sessions' = IF k = "blackjack" THEN [sessions EXCEPT ![k][p] = NoGame] ELSE sessions
      /\ op' = [op EXCEPT ![o].at = "save", ![o].gain = gain, ![o].copy = copied]
      /\ UNCHANGED <<disk, made, acked, unpaid, dropped>>
  BY DEF SettleMutates, history, Credited
<1>2. /\ g \in 1..made /\ g \in Games /\ made \in Nat
      /\ k \in Kinds /\ p \in Players /\ op[o].outcome \in Outcomes
      /\ op[o] \in OpRecord /\ op \in [Ops -> OpRecord] /\ disk \in File
  BY <1>1, BoundsAssumption DEF TypesInv, OpOK, Games
<1>3. disk.coins[p] \in Nat
  BY <1>2 DEF File
<1>4. gain \in -1..2 /\ disk.coins[p] + gain \in Nat
  BY <1>2, <1>3 DEF Gain, Outcomes
<1> HIDE DEF copied, gain
<1>5. op'[o] = [op[o] EXCEPT !.at = "save", !.gain = gain, !.copy = copied]
      /\ \A d \in Ops \ {o} : op'[d] = op[d]
  BY <1>1, <1>2
<1>6. /\ op'[o].at = "save" /\ op'[o].game = g /\ op'[o].gain = gain /\ op'[o].copy = copied
      /\ op'[o].do = "settle" /\ op'[o].kind = k /\ op'[o].player = p
      /\ op'[o].outcome = op[o].outcome
      /\ op'[o] = [do |-> "settle", at |-> "save", kind |-> k, player |-> p, game |-> g,
                   outcome |-> op[o].outcome, gain |-> gain, copy |-> copied]
  BY <1>1, <1>2, <1>5 DEF OpRecord
<1>7. copied = Effect(op'[o], disk)
  <2> HIDE DEF p, g, k
  <2> DEFINE r == op'[o]
  <2>1. r.player = p /\ r.game = g /\ r.do = "settle" /\ r.gain = gain
    BY <1>6
  <2>2. disk \in File /\ p \in Players /\ g \in Games /\ gain \in Int
    BY <1>2, <1>4 DEF p
  <2> HIDE DEF r
  <2>3. copied = Effect(r, disk)
    BY <2>1, <2>2, SettleCopy DEF copied
  <2> QED BY <2>3 DEF r
<1>8. copied \in File
  <2>1. disk.coins \in [Players -> Nat] /\ disk.stake \in [Games -> Nat]
        /\ disk.settled \in [Games -> Nat]
    BY <1>2 DEF File
  <2>2. [disk.coins EXCEPT ![p] = @ + gain] \in [Players -> Nat]
    BY <1>2, <1>4, <2>1
  <2>3. [disk.stake EXCEPT ![g] = IF "settle" = "start" THEN @ + 1 ELSE @] \in [Games -> Nat]
    BY <1>2, <2>1
  <2>4. [disk.settled EXCEPT ![g] = IF Settles(op'[o]) THEN @ + 1 ELSE @] \in [Games -> Nat]
    BY <1>2, <2>1
  <2> QED BY <1>6, <1>7, <2>2, <2>3, <2>4 DEF Effect, File
<1>9. op'[o] \in OpRecord /\ op' \in [Ops -> OpRecord]
  <2>1. op[o].outcome \in Outcomes \cup {"none"}
    BY <1>2
  <2>2. op'[o] \in OpRecord
    BY <1>2, <1>4, <1>6, <1>8, <2>1 DEF OpRecord
  <2>3. op' = [op EXCEPT ![o] = op'[o]]
    BY <1>1, <1>2
  <2> QED BY <1>2, <2>2, <2>3
<1>10. OpOK(o)'
  <2>1. g \in 1..made' /\ disk' = disk
    BY <1>1, <1>2
  <2> QED BY <1>2, <1>6, <1>7, <2>1 DEF OpOK
<1>11. \A d \in Ops : OpOK(d)'
  BY <1>1, <1>2, <1>5, <1>10, OthersOK
<1>12. Starting' \subseteq Starting
  <2>1. o \notin Starting' /\ \A d \in Ops \ {o} : d \in Starting' => d \in Starting
    BY <1>5, <1>6 DEF Starting
  <2> QED BY <2>1 DEF Starting
<1>13. sessions' \in [Kinds -> [Players -> 0..made']]
  <2>1. sessions \in [Kinds -> [Players -> 0..made]] /\ 0 \in 0..made
    BY <1>2 DEF TypesInv
  <2> QED BY <1>1, <1>2, <2>1, SessionEdit DEF NoGame
<1>14. game' \in GameType
  BY <1>1, <1>2 DEF TypesInv, GameType
<1> QED BY <1>1, <1>2, <1>9, <1>11, <1>12, <1>13, <1>14, RoomShrinks DEF TypesInv, GameType

LEMMA TypesQuickDraw ==
  ASSUME TypesInv, NEW p \in Players, StartQuickDraw(p)
  PROVE  TypesInv'
<1>1. /\ "quickdraw" \in Kinds /\ made' = made + 1
      /\ sessions' = [sessions EXCEPT !["quickdraw"][p] = made']
      /\ game' = [game EXCEPT ![made'].kind = "quickdraw"]
      /\ UNCHANGED <<disk, op, acked, unpaid, dropped>>
  BY DEF StartQuickDraw, history
<1>2. made + Cardinality(Starting) < MaxGames /\ Cardinality(Starting) \in Nat
      /\ IsFiniteSet(Starting)
  BY FS_CardinalityType DEF TypesInv, RoomLeft, StartQuickDraw, Room, Starting
<1>3. made \in Nat /\ made' \in Games /\ made' \in 0..MaxGames
  BY <1>1, <1>2, BoundsAssumption DEF TypesInv, Games
<1>4. \A o \in Ops : OpOK(o)'
  <2>1. \A o \in Ops : OpOK(o)
    BY DEF TypesInv
  <2> QED BY <1>1, <1>3, <2>1 DEF OpOK, Effect
<1>5. RoomLeft'
  <2>1. Starting' = Starting
    BY <1>1 DEF Starting
  <2> QED BY <1>1, <1>2, <1>3, <2>1, BoundsAssumption DEF RoomLeft
<1>6. sessions' \in [Kinds -> [Players -> 0..made']]
  <2>1. sessions \in [Kinds -> [Players -> 0..made']] /\ made' \in 0..made' /\ made' \in Nat
    BY <1>1, <1>3 DEF TypesInv
  <2> QED BY <1>1, <1>3, <2>1, SessionEdit
<1>7. game' \in GameType
  BY <1>1, <1>3 DEF TypesInv, GameType
<1> QED BY <1>1, <1>3, <1>4, <1>5, <1>6, <1>7 DEF TypesInv, GameType

\* A safe tile, a cancelled or expired session, a restart.
LEMMA TypesMemory ==
  ASSUME TypesInv
  PROVE  /\ \A p \in Players : RevealSafe(p) => TypesInv'
         /\ \A k \in Kinds, p \in Players : Drop(k, p) => TypesInv'
         /\ Restart => TypesInv'
         /\ UNCHANGED vars => TypesInv'
<1>1. made \in Nat /\ made <= MaxGames /\ MaxGames \in Nat
  BY BoundsAssumption DEF TypesInv
<1>2. ASSUME UNCHANGED <<disk, made, op, acked>>
      PROVE  (\A o \in Ops : OpOK(o)') /\ RoomLeft'
  BY <1>2 DEF TypesInv, OpOK, Effect, RoomLeft, Starting
<1>3. ASSUME NEW p \in Players, RevealSafe(p) PROVE TypesInv'
  <2>1. /\ sessions["mines"][p] # NoGame /\ "mines" \in Kinds
        /\ game' = [game EXCEPT ![sessions["mines"][p]].revealed = TRUE]
        /\ UNCHANGED <<disk, sessions, made, op, acked, unpaid, dropped>>
    BY <1>3 DEF RevealSafe, history
  <2>2. game' \in GameType
    BY <2>1 DEF TypesInv, GameType
  <2> QED BY <1>2, <2>1, <2>2 DEF TypesInv, GameType
<1>4. ASSUME NEW k \in Kinds, NEW p \in Players, Drop(k, p) PROVE TypesInv'
  <2>1. /\ sessions[k][p] # NoGame
        /\ sessions' = [sessions EXCEPT ![k][p] = NoGame]
        /\ dropped' = dropped \cup {sessions[k][p]}
        /\ UNCHANGED <<disk, game, made, op, acked, unpaid>>
    BY <1>4 DEF Drop
  <2>2. sessions[k][p] \in Games
    BY <1>1, <2>1 DEF TypesInv, Games, NoGame
  <2>3. sessions \in [Kinds -> [Players -> 0..made]] /\ 0 \in 0..made
    BY <1>1 DEF TypesInv
  <2>4. sessions' \in [Kinds -> [Players -> 0..made]]
    BY <1>1, <2>1, <2>3, SessionEdit DEF NoGame
  <2> QED BY <1>2, <2>1, <2>2, <2>4 DEF TypesInv
<1>5. ASSUME Restart PROVE TypesInv'
  <2>1. /\ sessions' = [k \in Kinds |-> [p \in Players |-> NoGame]]
        /\ op' = [o \in Ops |-> Idle] /\ dropped' = 1..made
        /\ UNCHANGED <<disk, game, made, acked, unpaid>>
    BY <1>5 DEF Restart
  <2>2. op' \in [Ops -> OpRecord] /\ \A o \in Ops : op'[o] = Idle
    BY <2>1, IdleType
  <2>3. \A o \in Ops : OpOK(o)'
    BY <2>2 DEF OpOK, Idle
  <2>4. Starting' = {}
    BY <2>2 DEF Starting, Idle
  <2>5. RoomLeft'
    BY <1>1, <2>1, <2>4, FS_EmptySet DEF RoomLeft
  <2>6. dropped' \subseteq Games /\ sessions' \in [Kinds -> [Players -> 0..made]]
    BY <1>1, <2>1 DEF Games, NoGame
  <2> QED BY <2>1, <2>2, <2>3, <2>5, <2>6 DEF TypesInv
<1>6. ASSUME UNCHANGED vars PROVE TypesInv'
  <2>1. UNCHANGED <<disk, sessions, game, made, op, acked, unpaid, dropped>>
    BY <1>6 DEF vars, memory, history
  <2> QED BY <1>2, <2>1 DEF TypesInv
<1> QED BY <1>3, <1>4, <1>5, <1>6
-----------------------------------------------------------------------------
\* Every step keeps the lock manager and the handler runs together.
LEMMA LockStep ==
  ASSUME LockInv, TypesInv, [Next]_vars
  PROVE  LockInv'
<1>1. op \in [Ops -> OpRecord]
  BY DEF TypesInv
<1>2. ASSUME NEW o \in Ops, NEW p \in Players, NEW k \in Kinds, Start(o, k, p) PROVE LockInv'
  <2>1. op[o].at = "idle" /\ L!Lock(o, Store) /\ Moves(o, "lock")
    BY <1>1, <1>2 DEF Start, Moves, Idle
  <2> QED BY <2>1, Taken
<1>3. ASSUME NEW o \in Ops, NEW p \in Players, NEW k \in Kinds, NEW outcome \in Outcomes,
             Settle(o, k, p, outcome)
      PROVE  LockInv'
  <2>1. op[o].at = "idle" /\ L!Lock(o, Store) /\ Moves(o, "lock")
    BY <1>1, <1>3 DEF Settle, Moves, Idle
  <2> QED BY <2>1, Taken
<1>4. ASSUME NEW o \in Ops, Granted(o) PROVE LockInv'
  <2>1. op[o].at = "lock" /\ L!Resume(o) /\ Moves(o, "read")
    BY <1>1, <1>4 DEF Granted, Moves, OpRecord
  <2> QED BY <2>1, Resumed
<1>5. ASSUME NEW o \in Ops, LockTimeout(o) PROVE LockInv'
  <2>1. op[o].at = "lock" /\ L!TimeOut(o) /\ Moves(o, "idle")
    BY <1>1, <1>5 DEF LockTimeout, Moves, Idle
  <2> QED BY <2>1, TimedOut
<1>6. ASSUME NEW o \in Ops, Return(o) PROVE LockInv'
  <2>1. op[o].at \in {"read", "save"} /\ L!Unlock(o) /\ Moves(o, "idle")
    BY <1>1, <1>6 DEF Return, ReadFails, StartRefused, SaveSucceeds, SaveFails, Moves, Idle
  <2> QED BY <2>1, Released
<1>7. ASSUME NEW o \in Ops, NEW natural \in BOOLEAN, StartMutates(o, natural) PROVE LockInv'
  <2>1. UNCHANGED lockVars /\ op[o].at = "read" /\ op'[o].at = "save"
        /\ \A d \in Ops \ {o} : op'[d] = op[d]
    BY <1>1, <1>7 DEF StartMutates, OpRecord
  <2> QED BY <2>1, LockUntouched
<1>8. ASSUME NEW o \in Ops, SettleMutates(o) PROVE LockInv'
  <2>1. UNCHANGED lockVars /\ op[o].at = "read" /\ op'[o].at = "save"
        /\ \A d \in Ops \ {o} : op'[d] = op[d]
    BY <1>1, <1>8 DEF SettleMutates, OpRecord
  <2> QED BY <2>1, LockUntouched
<1>9. ASSUME NEW p \in Players,
             StartQuickDraw(p) \/ RevealSafe(p) \/ \E k \in Kinds : Drop(k, p)
      PROVE  LockInv'
  BY <1>9, LockUntouched DEF StartQuickDraw, RevealSafe, Drop
<1>10. ASSUME UNCHANGED vars PROVE LockInv'
  BY <1>10, LockUntouched DEF vars
<1> QED
  BY <1>2, <1>3, <1>4, <1>5, <1>6, <1>7, <1>8, <1>9, <1>10, LockRestart DEF Next, Proceed

\* Every step keeps the types, the copies and the bound of the games.
LEMMA TypesStep ==
  ASSUME LockInv, TypesInv, [Next]_vars
  PROVE  TypesInv'
<1>1. ASSUME NEW o \in Ops, Proceed(o) \/ LockTimeout(o) PROVE TypesInv'
  BY <1>1, TypesGranted, TypesStartMutates, TypesSettleMutates, TypesFail, TypesSave
     DEF Proceed, Return
<1>2. ASSUME NEW o \in Ops, NEW p \in Players, NEW k \in Kinds,
             Start(o, k, p) \/ \E outcome \in Outcomes : Settle(o, k, p, outcome)
      PROVE  TypesInv'
  BY <1>2, TypesStart, TypesSettle
<1>3. ASSUME NEW p \in Players, StartQuickDraw(p) \/ RevealSafe(p) \/ \E k \in Kinds : Drop(k, p)
      PROVE  TypesInv'
  BY <1>3, TypesQuickDraw, TypesMemory
<1>4. ASSUME Restart \/ UNCHANGED vars PROVE TypesInv'
  BY <1>4, TypesMemory
<1> QED BY <1>1, <1>2, <1>3, <1>4 DEF Next

-----------------------------------------------------------------------------
(***************************************************************************)
(* The games: who settles which, and whose bet was debited.                *)
(***************************************************************************)

\* Run o will count one settlement of its game when it saves.
Settling(o) == /\ op[o].at # "idle"
               /\ \/ op[o].do = "settle"
                  \/ op[o].do = "start" /\ op[o].at = "save" /\ op[o].gain = 1

Debiting(o) == op[o].do = "start" /\ op[o].at = "save"

\* A wagered game whose start did not fail is paid, or is being paid right now.
Wagered(g) == game[g].kind \in Wagers /\ g \notin unpaid

Owed(g) == Wagered(g) => \/ disk.stake[g] > 0
                         \/ \E o \in Ops : Debiting(o) /\ op[o].game = g

GamesInv ==
  /\ \A g \in Games :
       /\ g > made => disk.stake[g] = 0 /\ disk.settled[g] = 0
       /\ disk.stake[g] <= 1 /\ disk.settled[g] <= 1
       /\ disk.settled[g] > 0 => game[g].finished /\ (Wagered(g) => disk.stake[g] > 0)
  /\ \A o \in Ops : Settling(o) => game[op[o].game].finished /\ disk.settled[op[o].game] = 0
  /\ \A o, d \in Ops : Settling(o) /\ Settling(d) /\ op[o].game = op[d].game => o = d
  /\ \A o \in Ops : Debiting(o) => disk.stake[op[o].game] = 0
  /\ \A k \in Kinds, p \in Players : sessions[k][p] # NoGame => Owed(sessions[k][p])
  /\ \A o \in Ops : Settling(o) /\ op[o].do = "settle" => Owed(op[o].game)

LEMMA GamesTypes ==
  ASSUME TypesInv
  PROVE  /\ made \in Nat /\ Games = 1..MaxGames /\ MaxGames \in Nat /\ made <= MaxGames
         /\ disk.stake \in [Games -> Nat] /\ disk.settled \in [Games -> Nat]
         /\ \A o \in Ops : Settling(o) \/ Debiting(o) => op[o].game \in 1..made
                                                         /\ op[o].game \in Games
         /\ \A k \in Kinds, p \in Players :
              sessions[k][p] # NoGame => sessions[k][p] \in 1..made /\ sessions[k][p] \in Games
<1>1. made \in Nat /\ Games = 1..MaxGames /\ MaxGames \in Nat /\ made <= MaxGames
  BY BoundsAssumption DEF TypesInv, Games
<1>2. disk.stake \in [Games -> Nat] /\ disk.settled \in [Games -> Nat]
  BY DEF TypesInv, File
<1>3. \A o \in Ops : Settling(o) \/ Debiting(o) => op[o].game \in 1..made
  BY DEF TypesInv, OpOK, Settling, Debiting
<1>4. \A k \in Kinds, p \in Players : sessions[k][p] \in 0..made
  BY DEF TypesInv
<1> QED BY <1>1, <1>2, <1>3, <1>4 DEF NoGame

LEMMA GamesInit == Init => GamesInv
<1> SUFFICES ASSUME Init PROVE GamesInv
  OBVIOUS
<1>1. /\ made = 0 /\ \A o \in Ops : op[o] = Idle
      /\ \A g \in Games : disk.stake[g] = 0 /\ disk.settled[g] = 0
      /\ \A k \in Kinds, p \in Players : sessions[k][p] = NoGame
  BY DEF Init, NoFile
<1>2. \A o \in Ops : ~Settling(o) /\ ~Debiting(o)
  BY <1>1 DEF Settling, Debiting, Idle
<1> QED BY <1>1, <1>2 DEF GamesInv

\* A step that leaves the file alone, takes up no new game, and takes back a
\* claim only from the run that made it.
LEMMA GamesKeep ==
  ASSUME TypesInv, GamesInv, disk' = disk, made' = made,
         \A g \in Games : game'[g].kind = game[g].kind,
         unpaid \subseteq unpaid',
         \A k \in Kinds, p \in Players : sessions'[k][p] \in {sessions[k][p], NoGame},
         \A o \in Ops : Settling(o)' => /\ Settling(o) /\ op'[o].game = op[o].game
                                        /\ op'[o].do = op[o].do,
         \A o \in Ops : Debiting(o)' => Debiting(o) /\ op'[o].game = op[o].game,
         \A o \in Ops : Debiting(o) => \/ op[o].game \in unpaid'
                                       \/ Debiting(o)' /\ op'[o].game = op[o].game,
         \A g \in Games : game[g].finished =>
            \/ game'[g].finished
            \/ \E o \in Ops : Settling(o) /\ op[o].game = g /\ ~Settling(o)'
  PROVE  GamesInv'
<1>1. \A g \in Games : Wagered(g)' => Wagered(g)
  BY DEF Wagered
<1>2. \A g \in Games : Owed(g) => Owed(g)'
  BY <1>1 DEF Owed, Wagered
<1>3. \A g \in Games : disk.settled[g] > 0 => game'[g].finished
  BY GamesTypes DEF GamesInv
<1>4. \A o \in Ops : Settling(o)' => game'[op[o].game].finished
  BY GamesTypes DEF GamesInv
<1>5. \A g \in Games :
        /\ g > made' => disk'.stake[g] = 0 /\ disk'.settled[g] = 0
        /\ disk'.stake[g] <= 1 /\ disk'.settled[g] <= 1
        /\ disk'.settled[g] > 0 => game'[g].finished /\ (Wagered(g)' => disk'.stake[g] > 0)
  BY <1>1, <1>3 DEF GamesInv
<1>6. \A o \in Ops : Settling(o)' => game'[op'[o].game].finished /\ disk'.settled[op'[o].game] = 0
  BY <1>4 DEF GamesInv
<1>7. \A o, d \in Ops : Settling(o)' /\ Settling(d)' /\ op'[o].game = op'[d].game => o = d
  BY DEF GamesInv
<1>8. \A o \in Ops : Debiting(o)' => disk'.stake[op'[o].game] = 0
  BY DEF GamesInv
<1>9. \A k \in Kinds, p \in Players : sessions'[k][p] # NoGame => Owed(sessions[k][p])'
  <2>1. \A k \in Kinds, p \in Players : sessions'[k][p] # NoGame =>
           sessions'[k][p] = sessions[k][p] /\ sessions[k][p] # NoGame
    OBVIOUS
  <2> QED BY <1>2, <2>1, GamesTypes, SMTT(30) DEF GamesInv, Owed, Wagered, Debiting
<1>10. \A o \in Ops : Settling(o)' /\ op'[o].do = "settle" => Owed(op[o].game)'
  BY <1>2, GamesTypes, SMTT(30) DEF GamesInv, Owed, Wagered, Debiting
<1> QED BY <1>5, <1>6, <1>7, <1>8, <1>9, <1>10 DEF GamesInv

\* A run that returns without a saved file gives up the claim it made.
LEMMA GamesFail ==
  ASSUME TypesInv, GamesInv, NEW o \in Ops,
         LockTimeout(o) \/ ReadFails(o) \/ StartRefused(o) \/ SaveFails(o)
  PROVE  GamesInv'
<1>1. /\ op[o].at # "idle" /\ op' = [op EXCEPT ![o] = Idle]
      /\ UNCHANGED <<disk, sessions, made>>
  BY DEF LockTimeout, ReadFails, StartRefused, SaveFails, memory, history
<1>2. op'[o] = Idle /\ \A d \in Ops \ {o} : op'[d] = op[d]
  BY <1>1 DEF TypesInv
<1>3. ~Settling(o)' /\ ~Debiting(o)'
  BY <1>2 DEF Settling, Debiting, Idle
<1>4. \A d \in Ops \ {o} : (Settling(d)' <=> Settling(d)) /\ (Debiting(d)' <=> Debiting(d))
  BY <1>2 DEF Settling, Debiting
<1>5. GiveBack(o) \/ game' = game
  BY DEF LockTimeout, ReadFails, StartRefused, SaveFails, memory
<1>6. game \in GameType
  BY DEF TypesInv, GameType
<1>7. \A g \in Games :
        /\ game'[g].kind = game[g].kind
        /\ game[g].finished => game'[g].finished \/ (op[o].do = "settle" /\ op[o].game = g)
  BY <1>5, <1>6 DEF GiveBack, GameType
<1>8. op[o].do = "settle" => Settling(o)
  BY <1>1 DEF Settling
<1>9. unpaid \subseteq unpaid' /\ (Debiting(o) => op[o].game \in unpaid')
  <2>1. CASE SaveFails(o)
    BY <2>1 DEF SaveFails, Debiting
  <2>2. CASE LockTimeout(o) \/ ReadFails(o) \/ StartRefused(o)
    BY <2>2 DEF LockTimeout, ReadFails, StartRefused, history, Debiting
  <2> QED BY <2>1, <2>2
<1>10. \A d \in Ops : Settling(d)' => Settling(d) /\ op'[d].game = op[d].game /\ op'[d].do = op[d].do
  BY <1>2, <1>3, <1>4
<1>11. \A d \in Ops : /\ Debiting(d)' => Debiting(d) /\ op'[d].game = op[d].game
                      /\ Debiting(d) => \/ op[d].game \in unpaid'
                                        \/ Debiting(d)' /\ op'[d].game = op[d].game
  BY <1>2, <1>3, <1>4, <1>9
<1>12. \A g \in Games : game[g].finished =>
         \/ game'[g].finished
         \/ \E d \in Ops : Settling(d) /\ op[d].game = g /\ ~Settling(d)'
  BY <1>3, <1>7, <1>8
<1> QED BY <1>1, <1>7, <1>9, <1>10, <1>11, <1>12, GamesKeep

\* A run that queues to start a game, or is granted the lock.
LEMMA GamesQueue ==
  ASSUME TypesInv, GamesInv, NEW o \in Ops,
         Granted(o) \/ \E k \in Kinds, p \in Players : Start(o, k, p)
  PROVE  GamesInv'
<1>1. UNCHANGED <<disk, sessions, game, made, unpaid>>
  BY DEF Granted, Start, memory, history
<1>2. /\ \A d \in Ops \ {o} : op'[d] = op[d]
      /\ \/ op'[o].do = "start" /\ op'[o].at = "lock" /\ op[o].at = "idle"
         \/ /\ op[o].at = "lock" /\ op'[o].at = "read"
            /\ op'[o].do = op[o].do /\ op'[o].game = op[o].game
  <2>1. op \in [Ops -> OpRecord]
    BY DEF TypesInv
  <2>2. CASE Granted(o)
    BY <2>1, <2>2 DEF Granted, OpRecord
  <2>3. ASSUME NEW k \in Kinds, NEW p \in Players, Start(o, k, p)
        PROVE  /\ \A d \in Ops \ {o} : op'[d] = op[d]
               /\ op'[o].do = "start" /\ op'[o].at = "lock" /\ op[o].at = "idle"
    BY <2>1, <2>3 DEF Start, Idle
  <2> QED BY <2>2, <2>3
<1>3. \A d \in Ops : Settling(d)' => Settling(d) /\ op'[d].game = op[d].game /\ op'[d].do = op[d].do
  BY <1>2 DEF Settling
<1>4. \A d \in Ops : /\ Debiting(d)' => Debiting(d) /\ op'[d].game = op[d].game
                     /\ Debiting(d) => Debiting(d)' /\ op'[d].game = op[d].game
  BY <1>2 DEF Debiting
<1> QED BY <1>1, <1>3, <1>4, GamesKeep

LEMMA GamesSettleMutates ==
  ASSUME TypesInv, GamesInv, NEW o \in Ops, SettleMutates(o)
  PROVE  GamesInv'
<1>1. /\ op[o].at = "read" /\ op[o].do = "settle"
      /\ game' = game \/ game' = [game EXCEPT ![op[o].game].finished = TRUE]
      /\ sessions' = sessions
           \/ sessions' = [sessions EXCEPT ![op[o].kind][op[o].player] = NoGame]
      /\ UNCHANGED <<disk, made, unpaid>>
  BY DEF SettleMutates, history
<1>2. /\ \A d \in Ops \ {o} : op'[d] = op[d]
      /\ op'[o].do = "settle" /\ op'[o].at = "save" /\ op'[o].game = op[o].game
  BY <1>1 DEF SettleMutates, TypesInv, OpRecord
<1>3. game \in GameType /\ sessions \in [Kinds -> [Players -> 0..made]]
  BY DEF TypesInv, GameType
<1>4. \A g \in Games : /\ game'[g].kind = game[g].kind
                       /\ game[g].finished => game'[g].finished
  BY <1>1, <1>3 DEF GameType
<1>5. \A k \in Kinds, p \in Players : sessions'[k][p] \in {sessions[k][p], NoGame}
  BY <1>1, <1>3
<1>6. \A d \in Ops : Settling(d)' => Settling(d) /\ op'[d].game = op[d].game /\ op'[d].do = op[d].do
  BY <1>1, <1>2 DEF Settling
<1>7. \A d \in Ops : /\ Debiting(d)' => Debiting(d) /\ op'[d].game = op[d].game
                     /\ Debiting(d) => Debiting(d)' /\ op'[d].game = op[d].game
  BY <1>1, <1>2 DEF Debiting
<1> QED BY <1>1, <1>4, <1>5, <1>6, <1>7, GamesKeep

\* A tile, a cancelled or expired session, or nothing.
LEMMA GamesQuiet ==
  ASSUME TypesInv, GamesInv,
         \/ \E p \in Players : RevealSafe(p) \/ \E k \in Kinds : Drop(k, p)
         \/ UNCHANGED vars
  PROVE  GamesInv'
<1>1. game \in GameType /\ sessions \in [Kinds -> [Players -> 0..made]]
  BY DEF TypesInv, GameType
<1>2. UNCHANGED <<disk, made, op, unpaid>>
  BY DEF RevealSafe, Drop, vars, memory, history
<1>3. \A g \in Games : /\ game'[g].kind = game[g].kind
                       /\ game[g].finished => game'[g].finished
  <2>1. CASE game' = game
    BY <2>1
  <2>2. CASE \E p \in Players : RevealSafe(p)
    BY <1>1, <2>2 DEF RevealSafe, GameType
  <2> QED BY <2>1, <2>2 DEF Drop, vars, memory
<1>4. \A k \in Kinds, p \in Players : sessions'[k][p] \in {sessions[k][p], NoGame}
  <2>1. CASE sessions' = sessions
    BY <2>1
  <2>2. ASSUME NEW q \in Players, NEW j \in Kinds, Drop(j, q)
        PROVE  \A k \in Kinds, p \in Players : sessions'[k][p] \in {sessions[k][p], NoGame}
    BY <1>1, <2>2 DEF Drop
  <2> QED BY <2>1, <2>2 DEF RevealSafe, vars, memory
<1>5. \A d \in Ops : (Settling(d)' <=> Settling(d)) /\ (Debiting(d)' <=> Debiting(d))
  BY <1>2 DEF Settling, Debiting
<1> QED BY <1>2, <1>3, <1>4, <1>5, GamesKeep

\* After a restart nobody holds a claim or a session.
LEMMA GamesRestart ==
  ASSUME TypesInv, GamesInv, Restart
  PROVE  GamesInv'
<1>1. /\ \A o \in Ops : op'[o] = Idle
      /\ \A k \in Kinds, p \in Players : sessions'[k][p] = NoGame
      /\ UNCHANGED <<disk, game, made, unpaid>>
  BY DEF Restart
<1>2. \A o \in Ops : ~Settling(o)' /\ ~Debiting(o)'
  BY <1>1 DEF Settling, Debiting, Idle
<1> QED BY <1>1, <1>2 DEF GamesInv, Wagered

\* A claim takes a game that nobody has claimed, and that was not settled.
LEMMA GamesSettle ==
  ASSUME TypesInv, GamesInv, NEW o \in Ops, NEW k \in Kinds, NEW p \in Players,
         NEW outcome \in Outcomes, Settle(o, k, p, outcome)
  PROVE  GamesInv'
<1> DEFINE g == sessions[k][p]
<1>1. /\ op[o].at = "idle" /\ g # NoGame /\ ~game[g].finished
      /\ game' = [game EXCEPT ![g].finished = TRUE]
      /\ sessions' = sessions \/ sessions' = [sessions EXCEPT ![k][p] = NoGame]
      /\ UNCHANGED <<disk, made, unpaid>>
  BY DEF Settle, Claimable, history
<1>2. /\ \A d \in Ops \ {o} : op'[d] = op[d]
      /\ op'[o].do = "settle" /\ op'[o].at = "lock" /\ op'[o].game = g
  BY DEF Settle, TypesInv, Idle
<1>3. game \in GameType /\ sessions \in [Kinds -> [Players -> 0..made]]
  BY DEF TypesInv, GameType
<1>4. g \in 1..made /\ g \in Games
  BY <1>1, GamesTypes
<1>5. \A h \in Games : /\ game'[h].kind = game[h].kind
                       /\ game[h].finished => game'[h].finished
                       /\ h = g => game'[h].finished
  BY <1>1, <1>3, <1>4 DEF GameType
<1>6. \A j \in Kinds, q \in Players : sessions'[j][q] \in {sessions[j][q], NoGame}
  BY <1>1, <1>3
<1>7. /\ Settling(o)' /\ ~Debiting(o)' /\ ~Settling(o) /\ ~Debiting(o)
      /\ \A d \in Ops \ {o} : (Settling(d)' <=> Settling(d)) /\ (Debiting(d)' <=> Debiting(d))
  BY <1>1, <1>2 DEF Settling, Debiting
<1>8. \A d \in Ops : Settling(d) => op[d].game # g
  BY <1>1 DEF GamesInv
<1>9. \A h \in Games : Owed(h) => Owed(h)'
  BY <1>1, <1>2, <1>5, <1>7 DEF Owed, Wagered
<1>10. Owed(g) /\ disk.settled[g] = 0
  <2>1. disk.settled[g] \in Nat /\ ~(disk.settled[g] > 0)
    BY <1>1, <1>4, GamesTypes DEF GamesInv
  <2> QED BY <1>1, <2>1 DEF GamesInv
<1> HIDE DEF g
<1>11. \A h \in Games :
         /\ h > made' => disk'.stake[h] = 0 /\ disk'.settled[h] = 0
         /\ disk'.stake[h] <= 1 /\ disk'.settled[h] <= 1
         /\ disk'.settled[h] > 0 => game'[h].finished /\ (Wagered(h)' => disk'.stake[h] > 0)
  BY <1>1, <1>5 DEF GamesInv, Wagered
<1>12. \A d \in Ops : Settling(d)' =>
         game'[op'[d].game].finished /\ disk'.settled[op'[d].game] = 0
  BY <1>1, <1>2, <1>4, <1>5, <1>7, <1>10, GamesTypes, SMTT(30) DEF GamesInv
<1>13. \A c, d \in Ops : Settling(c)' /\ Settling(d)' /\ op'[c].game = op'[d].game => c = d
  BY <1>2, <1>7, <1>8 DEF GamesInv
<1>14. \A d \in Ops : Debiting(d)' => disk'.stake[op'[d].game] = 0
  BY <1>1, <1>2, <1>7 DEF GamesInv
<1>15. \A j \in Kinds, q \in Players : sessions'[j][q] # NoGame => Owed(sessions[j][q])'
  <2>1. \A j \in Kinds, q \in Players : sessions'[j][q] # NoGame =>
          /\ sessions'[j][q] = sessions[j][q] /\ sessions[j][q] \in Games
          /\ Owed(sessions[j][q])
    BY <1>6, GamesTypes DEF GamesInv
  <2> QED BY <1>9, <2>1 DEF Owed, Wagered
<1>16. \A d \in Ops : Settling(d)' /\ op'[d].do = "settle" => Owed(op[d].game)'
  <2>0. PICK h \in Games : h = g
    BY <1>4
  <2>1. Owed(h)' /\ op'[o].game = h
    BY <1>2, <1>9, <1>10, <2>0 DEF Owed, Wagered
  <2>2. \A d \in Ops \ {o} : Settling(d)' /\ op'[d].do = "settle" =>
          op'[d].game = op[d].game /\ op[d].game \in Games /\ Owed(op[d].game)
    BY <1>2, <1>7, GamesTypes DEF GamesInv
  <2> QED BY <1>2, <1>9, <2>1, <2>2 DEF Owed, Wagered
<1> QED BY <1>11, <1>12, <1>13, <1>14, <1>15, <1>16 DEF GamesInv

\* A new game that is no wager, or whose bet is being debited right now.
LEMMA GamesNew ==
  ASSUME TypesInv, TypesInv', GamesInv, made' = made + 1, disk' = disk, unpaid' = unpaid,
         \A h \in Games : h # made' => /\ game'[h].kind = game[h].kind
                                       /\ game'[h].finished = game[h].finished,
         \A k \in Kinds, p \in Players : sessions'[k][p] \in {sessions[k][p], made'},
         \A d \in Ops : \/ /\ Settling(d)' <=> Settling(d)
                           /\ Debiting(d)' <=> Debiting(d)
                           /\ op'[d].game = op[d].game /\ op'[d].do = op[d].do
                        \/ /\ ~Settling(d) /\ ~Debiting(d) /\ Debiting(d)'
                           /\ op'[d].game = made' /\ op'[d].do = "start"
                           /\ Settling(d)' => game'[made'].finished
                           /\ \A e \in Ops : op'[e].game = made' /\ Settling(e)' => e = d,
         \/ game'[made'].kind \notin Wagers
         \/ \E d \in Ops : Debiting(d)' /\ op'[d].game = made'
  PROVE  GamesInv'
<1>1. /\ made \in Nat /\ made' \in Games /\ made \notin {made'}
      /\ disk.stake[made'] = 0 /\ disk.settled[made'] = 0
  <2>1. made \in Nat /\ made' \in 1..MaxGames /\ Games = 1..MaxGames
    BY GamesTypes, BoundsAssumption DEF TypesInv
  <2> QED BY <2>1 DEF GamesInv
<1>2. \A h \in Games : h # made' => (Wagered(h)' <=> Wagered(h))
  BY DEF Wagered
<1>3. \A h \in Games : Owed(h) /\ h # made' => Owed(h)'
  BY <1>2 DEF Owed, Wagered
<1>4. \A h \in Games : h = made' => Owed(h)'
  BY DEF Owed, Wagered
<1>5. \A h \in Games :
        /\ h > made' => disk'.stake[h] = 0 /\ disk'.settled[h] = 0
        /\ disk'.stake[h] <= 1 /\ disk'.settled[h] <= 1
        /\ disk'.settled[h] > 0 => game'[h].finished /\ (Wagered(h)' => disk'.stake[h] > 0)
  BY <1>1, <1>2, GamesTypes DEF GamesInv
<1>6. \A d \in Ops : Settling(d) \/ Debiting(d) => op[d].game # made' /\ op[d].game \in Games
  BY <1>1, GamesTypes
<1>7. \A d \in Ops : Settling(d)' => game'[op'[d].game].finished /\ disk'.settled[op'[d].game] = 0
  <2>1. ASSUME NEW d \in Ops, Settling(d)', Settling(d), op'[d].game = op[d].game
        PROVE  game'[op'[d].game].finished /\ disk'.settled[op'[d].game] = 0
    BY <1>6, <2>1 DEF GamesInv
  <2>2. ASSUME NEW d \in Ops, Settling(d)', op'[d].game = made', game'[made'].finished
        PROVE  game'[op'[d].game].finished /\ disk'.settled[op'[d].game] = 0
    BY <1>1, <2>2
  <2> QED BY <2>1, <2>2
<1>8. \A c, d \in Ops : Settling(c)' /\ Settling(d)' /\ op'[c].game = op'[d].game => c = d
  BY <1>6 DEF GamesInv
<1>9. \A d \in Ops : Debiting(d)' => disk'.stake[op'[d].game] = 0
  BY <1>1 DEF GamesInv
<1>10. \A k \in Kinds, p \in Players : sessions'[k][p] # NoGame => Owed(sessions[k][p])'
  <2>1. ASSUME NEW k \in Kinds, NEW p \in Players, sessions'[k][p] # NoGame
        PROVE  Owed(sessions[k][p])'
    <3>1. PICK h \in Games : h = sessions'[k][p]
      BY <1>1, <2>1, GamesTypes
    <3>2. h = made' \/ (h = sessions[k][p] /\ Owed(h))
      BY <2>1, <3>1 DEF GamesInv
    <3>3. Owed(h)'
      BY <1>3, <1>4, <3>2
    <3> QED BY <3>1, <3>3 DEF Owed, Wagered
  <2> QED BY <2>1
<1>11. \A d \in Ops : Settling(d)' /\ op'[d].do = "settle" => Owed(op[d].game)'
  <2>1. ASSUME NEW d \in Ops, Settling(d)', op'[d].do = "settle"
        PROVE  Owed(op[d].game)'
    <3>1. Settling(d) /\ op'[d].game = op[d].game /\ op[d].do = "settle"
      BY <2>1
    <3>2. PICK h \in Games : h = op[d].game
      BY <3>1, GamesTypes
    <3>3. Owed(h) /\ h # made'
      BY <1>6, <3>1, <3>2 DEF GamesInv
    <3>4. Owed(h)'
      BY <1>3, <3>3
    <3> QED BY <3>1, <3>2, <3>4 DEF Owed, Wagered
  <2> QED BY <2>1
<1> QED BY <1>5, <1>7, <1>8, <1>9, <1>10, <1>11 DEF GamesInv

LEMMA GamesQuickDraw ==
  ASSUME TypesInv, TypesInv', GamesInv, NEW p \in Players, StartQuickDraw(p)
  PROVE  GamesInv'
<1>1. /\ "quickdraw" \in Kinds /\ made' = made + 1
      /\ sessions' = [sessions EXCEPT !["quickdraw"][p] = made']
      /\ game' = [game EXCEPT ![made'].kind = "quickdraw"]
      /\ UNCHANGED <<disk, op, unpaid>>
  BY DEF StartQuickDraw, history
<1>2. game \in GameType /\ sessions \in [Kinds -> [Players -> 0..made]]
  BY DEF TypesInv, GameType
<1>3. made' \in Games
  BY <1>1, GamesTypes, BoundsAssumption DEF TypesInv
<1>4. /\ game'[made'].kind = "quickdraw"
      /\ \A h \in Games : h # made' => /\ game'[h].kind = game[h].kind
                                       /\ game'[h].finished = game[h].finished
  BY <1>1, <1>2, <1>3 DEF GameType
<1>5. \A k \in Kinds, q \in Players : sessions'[k][q] \in {sessions[k][q], made'}
  BY <1>1, <1>2
<1>6. \A d \in Ops : /\ Settling(d)' <=> Settling(d)
                     /\ Debiting(d)' <=> Debiting(d)
                     /\ op'[d].game = op[d].game /\ op'[d].do = op[d].do
  BY <1>1 DEF Settling, Debiting
<1>7. game'[made'].kind \notin Wagers
  BY <1>4 DEF Wagers
<1> QED BY <1>1, <1>4, <1>5, <1>6, <1>7, GamesNew

LEMMA GamesStartMutates ==
  ASSUME TypesInv, TypesInv', GamesInv, NEW o \in Ops, NEW natural \in BOOLEAN,
         StartMutates(o, natural)
  PROVE  GamesInv'
<1>1. /\ op[o].at = "read" /\ op[o].do = "start" /\ made' = made + 1
      /\ game' = [game EXCEPT ![made'] = [NoObject EXCEPT !.kind = op[o].kind,
                                                          !.finished = natural]]
      /\ \/ sessions' = sessions
         \/ sessions' = [sessions EXCEPT ![op[o].kind][op[o].player] = made']
      /\ UNCHANGED <<disk, unpaid>>
  BY DEF StartMutates, history
<1>2. game \in GameType /\ sessions \in [Kinds -> [Players -> 0..made]]
  BY DEF TypesInv, GameType
<1>3. made' \in Games
  BY <1>1, GamesTypes, BoundsAssumption DEF TypesInv
<1>4. /\ game'[made'].finished = natural
      /\ \A h \in Games : h # made' => /\ game'[h].kind = game[h].kind
                                       /\ game'[h].finished = game[h].finished
  BY <1>1, <1>2, <1>3 DEF GameType, NoObject
<1>5. \A k \in Kinds, q \in Players : sessions'[k][q] \in {sessions[k][q], made'}
  BY <1>1, <1>2
<1>6. /\ \A d \in Ops \ {o} : op'[d] = op[d]
      /\ op'[o].do = "start" /\ op'[o].at = "save" /\ op'[o].game = made'
      /\ op'[o].gain = IF natural THEN 1 ELSE -1
  <2> DEFINE gain == IF natural THEN 1 ELSE -1
  <2>1. PICK copied : op' = [op EXCEPT ![o].at = "save", ![o].game = made + 1,
                                       ![o].gain = gain, ![o].copy = copied]
    BY DEF StartMutates
  <2> HIDE DEF gain
  <2>2. op \in [Ops -> OpRecord]
    BY DEF TypesInv
  <2>3. op'[o] = [op[o] EXCEPT !.at = "save", !.game = made + 1, !.gain = gain, !.copy = copied]
        /\ \A d \in Ops \ {o} : op'[d] = op[d]
    BY <2>1, <2>2
  <2> QED BY <1>1, <2>2, <2>3 DEF OpRecord, gain
<1>7. /\ ~Settling(o) /\ ~Debiting(o) /\ Debiting(o)'
      /\ Settling(o)' => game'[made'].finished
  BY <1>1, <1>4, <1>6 DEF Settling, Debiting
<1>8. \A d \in Ops \ {o} : /\ Settling(d)' <=> Settling(d)
                           /\ Debiting(d)' <=> Debiting(d)
                           /\ op'[d].game = op[d].game /\ op'[d].do = op[d].do
  BY <1>6 DEF Settling, Debiting
<1>9. \A d \in Ops : op'[d].game = made' /\ Settling(d)' => d = o
  <2>1. \A d \in Ops \ {o} : Settling(d) => op[d].game \in 1..made /\ made \in Nat
    BY GamesTypes
  <2> QED BY <1>1, <1>8, <2>1
<1>10. \A d \in Ops : \/ /\ Settling(d)' <=> Settling(d)
                         /\ Debiting(d)' <=> Debiting(d)
                         /\ op'[d].game = op[d].game /\ op'[d].do = op[d].do
                      \/ /\ ~Settling(d) /\ ~Debiting(d) /\ Debiting(d)'
                         /\ op'[d].game = made' /\ op'[d].do = "start"
                         /\ Settling(d)' => game'[made'].finished
                         /\ \A e \in Ops : op'[e].game = made' /\ Settling(e)' => e = d
  BY <1>6, <1>7, <1>8, <1>9
<1>11. \E d \in Ops : Debiting(d)' /\ op'[d].game = made'
  BY <1>6, <1>7
<1> QED BY <1>1, <1>4, <1>5, <1>10, <1>11, GamesNew

\* The save of a start counts the game's first stake, the save of a settlement
\* its first settlement.
LEMMA GamesSave ==
  ASSUME LockInv, TypesInv, TypesInv', GamesInv, NEW o \in Ops, SaveSucceeds(o)
  PROVE  GamesInv'
<1> DEFINE g == op[o].game
<1>1. /\ op[o].at = "save" /\ op' = [op EXCEPT ![o] = Idle]
      /\ UNCHANGED <<game, made, unpaid>>
      /\ sessions' = sessions \/ sessions' = [sessions EXCEPT ![op[o].kind][op[o].player] = NoGame]
  BY DEF SaveSucceeds
<1>2. op'[o] = Idle /\ \A d \in Ops \ {o} : op'[d] = op[d] /\ op[d].at # "save"
  BY <1>1, OneInside DEF TypesInv
<1>3. /\ g \in 1..made /\ g \in Games /\ op[o].do \in {"start", "settle"}
      /\ op[o].do = "start" => op[o].gain \in {-1, 1}
  BY <1>1, GamesTypes DEF TypesInv, OpOK
<1> DEFINE debits == op[o].do = "start"
           settles == Settles(op[o])
<1>4. /\ disk'.stake = [disk.stake EXCEPT ![g] = IF debits THEN @ + 1 ELSE @]
      /\ disk'.settled = [disk.settled EXCEPT ![g] = IF settles THEN @ + 1 ELSE @]
  BY SavedFile DEF Effect
<1>5. debits <=> Debiting(o)
  BY <1>1 DEF Debiting
<1>6. Settling(o) => settles
  BY DEF Settles, Settling
<1>7. settles /\ ~Settling(o) => FALSE
  BY <1>1, <1>3 DEF Settles, Settling
<1> HIDE DEF settles, debits
<1>8. \A h \in Games : /\ disk'.stake[h] = IF h = g /\ debits THEN disk.stake[h] + 1
                                           ELSE disk.stake[h]
                       /\ disk'.settled[h] = IF h = g /\ settles THEN disk.settled[h] + 1
                                             ELSE disk.settled[h]
  BY <1>3, <1>4, GamesTypes, SMTT(30)
<1>9. /\ ~Settling(o)' /\ ~Debiting(o)'
      /\ \A d \in Ops \ {o} : Settling(d)' <=> Settling(d)
      /\ \A d \in Ops \ {o} : ~Debiting(d) /\ ~Debiting(d)'
  BY <1>2 DEF Settling, Debiting, Idle
<1>10. \A h \in Games : Wagered(h)' <=> Wagered(h)
  BY <1>1 DEF Wagered
<1>11. \A h \in Games : Owed(h) /\ Wagered(h) => disk'.stake[h] > 0
  <2>1. ASSUME NEW h \in Games, Owed(h), Wagered(h) PROVE disk'.stake[h] > 0
    <3>1. disk.stake[h] > 0 \/ (Debiting(o) /\ g = h)
      BY <1>9, <2>1 DEF Owed
    <3> QED BY <1>5, <1>8, <3>1, GamesTypes
  <2> QED BY <2>1
<1>12. \A h \in Games : Owed(h) => Owed(h)'
  BY <1>10, <1>11 DEF Owed
<1>13. settles => /\ game[g].finished /\ disk.settled[g] = 0
                  /\ Wagered(g) => disk'.stake[g] > 0
  <2>1. settles => game[g].finished /\ disk.settled[g] = 0
    BY <1>7 DEF GamesInv
  <2>2. settles => Owed(g)
    <3>1. CASE op[o].do = "settle"
      BY <1>7, <3>1 DEF GamesInv
    <3>2. CASE op[o].do = "start"
      BY <1>1, <3>2 DEF Owed, Debiting
    <3> QED BY <1>3, <3>1, <3>2
  <2> QED BY <1>3, <1>11, <2>1, <2>2
<1>14. debits => disk.stake[g] = 0
  BY <1>5 DEF GamesInv
<1>15. ASSUME NEW h \in Games
       PROVE  /\ h > made' => disk'.stake[h] = 0 /\ disk'.settled[h] = 0
              /\ disk'.stake[h] <= 1 /\ disk'.settled[h] <= 1
              /\ disk'.settled[h] > 0 => game'[h].finished /\ (Wagered(h)' => disk'.stake[h] > 0)
  <2>1. /\ h > made => disk.stake[h] = 0 /\ disk.settled[h] = 0
        /\ disk.stake[h] <= 1 /\ disk.settled[h] <= 1
        /\ disk.settled[h] > 0 => game[h].finished /\ (Wagered(h) => disk.stake[h] > 0)
        /\ disk.stake[h] \in Nat /\ disk.settled[h] \in Nat
    BY GamesTypes DEF GamesInv
  <2>2. CASE h # g
    BY <1>1, <1>8, <1>10, <2>1, <2>2
  <2>3. CASE h = g
    <3>1. ~(h > made)
      BY <1>3, <2>3, GamesTypes
    <3>2. disk'.stake[h] <= 1 /\ disk'.settled[h] <= 1
      BY <1>8, <1>13, <1>14, <2>1, <2>3
    <3>3. disk'.settled[h] > 0 => game'[h].finished /\ (Wagered(h)' => disk'.stake[h] > 0)
      <4>1. CASE settles
        BY <1>1, <1>10, <1>13, <2>3, <4>1
      <4>2. CASE ~settles
        BY <1>1, <1>8, <1>10, <2>1, <4>2
      <4> QED BY <4>1, <4>2
    <3> QED BY <1>1, <3>1, <3>2, <3>3
  <2> QED BY <2>2, <2>3
<1>16. \A d \in Ops : Settling(d)' => game'[op'[d].game].finished /\ disk'.settled[op'[d].game] = 0
  <2>1. ASSUME NEW d \in Ops, Settling(d)'
        PROVE  game'[op'[d].game].finished /\ disk'.settled[op'[d].game] = 0
    <3>1. d # o /\ Settling(d) /\ op'[d] = op[d]
      BY <1>2, <1>9, <2>1
    <3>2. op[d].game \in Games /\ game[op[d].game].finished /\ disk.settled[op[d].game] = 0
      BY <3>1, GamesTypes DEF GamesInv
    <3>3. settles => op[d].game # g
      BY <1>7, <3>1 DEF GamesInv
    <3> QED BY <1>1, <1>8, <3>1, <3>2, <3>3
  <2> QED BY <2>1
<1>17. \A c, d \in Ops : Settling(c)' /\ Settling(d)' /\ op'[c].game = op'[d].game => c = d
  BY <1>2, <1>9 DEF GamesInv
<1>18. \A d \in Ops : ~Debiting(d)'
  BY <1>9
<1>19. \A k \in Kinds, p \in Players : sessions'[k][p] # NoGame => Owed(sessions[k][p])'
  <2>1. ASSUME NEW k \in Kinds, NEW p \in Players, sessions'[k][p] # NoGame
        PROVE  Owed(sessions[k][p])'
    <3>1. sessions'[k][p] = sessions[k][p]
      BY <1>1, <2>1 DEF TypesInv
    <3>2. PICK h \in Games : h = sessions[k][p]
      BY <2>1, <3>1, GamesTypes
    <3>3. Owed(h)
      BY <2>1, <3>1, <3>2 DEF GamesInv
    <3>4. Owed(h)'
      BY <1>12, <3>3
    <3> QED BY <3>1, <3>2, <3>4 DEF Owed, Wagered
  <2> QED BY <2>1
<1>20. \A d \in Ops : Settling(d)' /\ op'[d].do = "settle" => Owed(op[d].game)'
  <2>1. ASSUME NEW d \in Ops, Settling(d)', op'[d].do = "settle"
        PROVE  Owed(op[d].game)'
    <3>1. Settling(d) /\ op'[d] = op[d]
      BY <1>2, <1>9, <2>1
    <3>2. PICK h \in Games : h = op[d].game
      BY <3>1, GamesTypes
    <3>3. Owed(h)
      BY <2>1, <3>1, <3>2 DEF GamesInv
    <3>4. Owed(h)'
      BY <1>12, <3>3
    <3> QED BY <3>1, <3>2, <3>4 DEF Owed, Wagered
  <2> QED BY <2>1
<1> QED BY <1>15, <1>16, <1>17, <1>18, <1>19, <1>20 DEF GamesInv

LEMMA GamesStep ==
  ASSUME LockInv, TypesInv, TypesInv', GamesInv, [Next]_vars
  PROVE  GamesInv'
<1>1. ASSUME NEW o \in Ops, Proceed(o) \/ LockTimeout(o) PROVE GamesInv'
  BY <1>1, GamesQueue, GamesStartMutates, GamesSettleMutates, GamesFail, GamesSave
     DEF Proceed, Return
<1>2. ASSUME NEW o \in Ops, NEW p \in Players, NEW k \in Kinds,
             Start(o, k, p) \/ \E outcome \in Outcomes : Settle(o, k, p, outcome)
      PROVE  GamesInv'
  BY <1>2, GamesQueue, GamesSettle
<1>3. ASSUME NEW p \in Players, StartQuickDraw(p) \/ RevealSafe(p) \/ \E k \in Kinds : Drop(k, p)
      PROVE  GamesInv'
  BY <1>3, GamesQuickDraw, GamesQuiet
<1>4. ASSUME Restart \/ UNCHANGED vars PROVE GamesInv'
  BY <1>4, GamesRestart, GamesQuiet
<1> QED BY <1>1, <1>2, <1>3, <1>4 DEF Next

-----------------------------------------------------------------------------
(***************************************************************************)
(* The results.                                                            *)
(***************************************************************************)

IInv == LockInv /\ TypesInv /\ GamesInv

\* The lock manager is where the handler runs need it, copies that are about to
\* be saved are the file and their own effect, and every game has one claimant.
THEOREM CasinoInvariant == Spec => []IInv
<1>1. Init => IInv
  BY LockInit, TypesInit, GamesInit DEF IInv
<1>2. IInv /\ [Next]_vars => IInv'
  BY LockStep, TypesStep, GamesStep DEF IInv
<1> QED BY <1>1, <1>2, PTL DEF Spec

\* Every variable keeps its type, the file and the handler runs included
\* (mutatePlayer and its callers), for any runs, players and bound of games.
THEOREM SpecTypeOK == Spec => []TypeOK
<1>1. IInv => TypeOK
  <2> SUFFICES ASSUME IInv PROVE TypeOK
    OBVIOUS
  <2>1. L!TypeOK
    BY DEF IInv, LockInv, P!IInv, P!TypeOK, L!TypeOK, P!Phases, L!Phases
  <2>2. sessions \in [Kinds -> [Players -> Games \cup {NoGame}]]
    <3>1. 0..made \subseteq Games \cup {NoGame}
      BY GamesTypes DEF IInv, NoGame
    <3>2. sessions \in [Kinds -> [Players -> 0..made]]
      BY DEF IInv, TypesInv
    <3> QED BY <3>1, <3>2
  <2>3. op \in [Ops -> [do : {"none", "start", "settle"}, at : {"idle", "lock", "read", "save"},
                        kind : Kinds \cup {"none"}, player : Players \cup {Nobody},
                        game : Games \cup {NoGame}, outcome : Outcomes \cup {"none"},
                        gain : -1..2, copy : File]]
    BY DEF IInv, TypesInv, OpRecord
  <2> QED BY <2>1, <2>2, <2>3 DEF IInv, TypesInv, TypeOK
<1> QED BY <1>1, CasinoInvariant, PTL

\* mutatePlayer reads and writes the whole file, and no update of it is lost.
THEOREM SpecNoLostUpdate == Spec => []NoLostUpdate
<1>1. IInv => NoLostUpdate
  BY DEF IInv, TypesInv, NoLostUpdate
<1> QED BY <1>1, CasinoInvariant, PTL

\* However clicks, failures, retries and restarts interleave, a game debits one
\* bet and credits one payout.
THEOREM SpecSettledOnce == Spec => []SettledOnce
<1>1. IInv => SettledOnce
  BY DEF IInv, GamesInv, SettledOnce
<1> QED BY <1>1, CasinoInvariant, PTL

\* A wagered game that was settled had its bet debited first, unless its start
\* failed in its own save.
THEOREM SpecPaidForStake == Spec => []PaidForStake
<1>1. IInv => PaidForStake
  BY DEF IInv, GamesInv, PaidForStake, Wagered
<1> QED BY <1>1, CasinoInvariant, PTL

\* No step puts another game in the place of an open one: the start mutators look
\* again under the store lock.
THEOREM SpecNoGameReplaced == Spec => NoGameReplaced
<1> DEFINE Kept == \A k \in Kinds, p \in Players :
                     sessions[k][p] # NoGame => sessions'[k][p] \in {sessions[k][p], NoGame}
<1>1. IInv /\ [Next]_vars => Kept
  <2> SUFFICES ASSUME IInv, [Next]_vars PROVE Kept
    OBVIOUS
  <2>1. sessions \in [Kinds -> [Players -> 0..made]]
    BY DEF IInv, TypesInv
  <2>2. CASE sessions' = sessions
    BY <2>2
  <2>3. ASSUME NEW j \in Kinds, NEW q \in Players, sessions[j][q] = NoGame, NEW g,
               sessions' = [sessions EXCEPT ![j][q] = g]
        PROVE  Kept
    BY <2>1, <2>3
  <2>4. ASSUME NEW j \in Kinds, NEW q \in Players,
               sessions' = [sessions EXCEPT ![j][q] = NoGame]
        PROVE  Kept
    BY <2>1, <2>4
  <2>5. ASSUME NEW o \in Ops, Proceed(o) \/ LockTimeout(o) PROVE Kept
    <3>1. op[o].at # "idle"
      BY <2>5 DEF Proceed, Return, Granted, StartMutates, SettleMutates, ReadFails,
                  StartRefused, SaveSucceeds, SaveFails, LockTimeout
    <3>2. op[o].kind \in Kinds /\ op[o].player \in Players
      BY <3>1 DEF IInv, TypesInv, OpOK
    <3>3. CASE \E natural \in BOOLEAN : StartMutates(o, natural)
      BY <2>2, <2>3, <3>2, <3>3 DEF StartMutates, StillNone
    <3>4. CASE SettleMutates(o) \/ SaveSucceeds(o)
      BY <2>2, <2>4, <3>2, <3>4 DEF SettleMutates, SaveSucceeds
    <3>5. CASE Granted(o) \/ ReadFails(o) \/ StartRefused(o) \/ SaveFails(o) \/ LockTimeout(o)
      BY <2>2, <3>5 DEF Granted, ReadFails, StartRefused, SaveFails, LockTimeout, memory
    <3> QED BY <2>5, <3>3, <3>4, <3>5, SMTT(30) DEF Proceed, Return
  <2>6. ASSUME NEW o \in Ops, NEW p \in Players, NEW k \in Kinds,
               Start(o, k, p) \/ \E outcome \in Outcomes : Settle(o, k, p, outcome)
        PROVE  Kept
    BY <2>2, <2>4, <2>6 DEF Start, Settle, memory
  <2>7. ASSUME NEW p \in Players, StartQuickDraw(p) \/ RevealSafe(p) \/ \E k \in Kinds : Drop(k, p)
        PROVE  Kept
    BY <2>2, <2>3, <2>4, <2>7, SMTT(30) DEF StartQuickDraw, RevealSafe, Drop
  <2>8. CASE Restart
    BY <2>1, <2>8 DEF Restart
  <2>9. CASE UNCHANGED vars
    BY <2>2, <2>9 DEF vars, memory
  <2> QED BY <2>5, <2>6, <2>7, <2>8, <2>9 DEF Next
<1> QED BY <1>1, CasinoInvariant, PTL DEF Spec, NoGameReplaced
-----------------------------------------------------------------------------
(***************************************************************************)
(* The file as a ledger.                                                   *)
(***************************************************************************)

\* A bet about to be saved is covered and its game not settled; only a quickdraw
\* may be about to cost coins.
PaymentOK(o) ==
  /\ Debiting(o) => /\ game[op[o].game].kind \in Wagers
                    /\ disk.settled[op[o].game] = 0
                    /\ disk.coins[op[o].player] >= 1
  /\ op[o].do = "settle" =>
       /\ op[o].outcome = "early" => game[op[o].game].kind = "quickdraw"
       /\ op[o].at = "save" /\ op[o].gain < 0 => op[o].outcome = "early"

LedgerInv ==
  /\ \A g \in Games : disk.stake[g] > 0 => game[g].kind \in Wagers
  /\ \A k \in Kinds, p \in Players : sessions[k][p] # NoGame => game[sessions[k][p]].kind = k
  /\ \A o \in Ops : PaymentOK(o)

LEMMA LedgerInvInit == Init => LedgerInv
<1> SUFFICES ASSUME Init PROVE LedgerInv
  OBVIOUS
<1>1. /\ \A o \in Ops : op[o] = Idle
      /\ \A g \in Games : disk.stake[g] = 0
      /\ \A k \in Kinds, p \in Players : sessions[k][p] = NoGame
  BY DEF Init, NoFile
<1> QED BY <1>1 DEF LedgerInv, PaymentOK, Debiting, Idle

\* A step that leaves the file alone, keeps the kinds of the games there are, and
\* takes up no payment that is not in order.
LEMMA LedgerKeep ==
  ASSUME TypesInv, TypesInv', GamesInv, LedgerInv, disk' = disk,
         \A g \in 1..made : game'[g].kind = game[g].kind,
         \A k \in Kinds, p \in Players : \/ sessions'[k][p] \in {sessions[k][p], NoGame}
                                         \/ game'[sessions'[k][p]].kind = k,
         \A o \in Ops : op'[o] = op[o] \/ PaymentOK(o)'
  PROVE  LedgerInv'
<1>1. ASSUME NEW g \in Games, disk.stake[g] > 0 PROVE game'[g].kind \in Wagers
  <2>1. g \in 1..made /\ game[g].kind \in Wagers
    BY <1>1, GamesTypes DEF GamesInv, LedgerInv
  <2> QED BY <2>1
<1>2. ASSUME NEW k \in Kinds, NEW p \in Players, sessions'[k][p] # NoGame
      PROVE  game'[sessions'[k][p]].kind = k
  BY <1>2, GamesTypes DEF LedgerInv
<1>3. ASSUME NEW o \in Ops, op'[o] = op[o] PROVE PaymentOK(o)'
  <2>1. Debiting(o) \/ op[o].do = "settle" => game'[op[o].game].kind = game[op[o].game].kind
    BY GamesTypes DEF TypesInv, OpOK
  <2>2. PaymentOK(o)
    BY DEF LedgerInv
  <2> QED BY <1>3, <2>1, <2>2 DEF PaymentOK, Debiting
<1> QED BY <1>1, <1>2, <1>3 DEF LedgerInv

LEMMA IdlePays == ASSUME NEW o \in Ops, op'[o] = Idle PROVE PaymentOK(o)'
BY DEF PaymentOK, Debiting, Idle

LEMMA LedgerStarts ==
  ASSUME TypesInv, TypesInv', GamesInv, LedgerInv, NEW o \in Ops, NEW natural \in BOOLEAN,
         StartMutates(o, natural)
  PROVE  LedgerInv'
<1>1. /\ op[o].at = "read" /\ op[o].do = "start" /\ made' = made + 1 /\ disk' = disk
      /\ disk.coins[op[o].player] >= 1
      /\ game' = [game EXCEPT ![made'] = [NoObject EXCEPT !.kind = op[o].kind,
                                                          !.finished = natural]]
      /\ \/ sessions' = sessions
         \/ sessions' = [sessions EXCEPT ![op[o].kind][op[o].player] = made']
  BY DEF StartMutates, Affords
<1>2. /\ op \in [Ops -> OpRecord] /\ game \in GameType
      /\ sessions \in [Kinds -> [Players -> 0..made]]
      /\ op[o].kind \in Wagers
  BY <1>1 DEF TypesInv, GameType, OpOK
<1>3. made' \in Games /\ made' \notin 1..made
  BY <1>1, GamesTypes, BoundsAssumption DEF TypesInv
<1>4. /\ game'[made'].kind = op[o].kind
      /\ \A g \in 1..made : game'[g].kind = game[g].kind
  BY <1>1, <1>2, <1>3, GamesTypes DEF GameType, NoObject
<1>5. /\ \A d \in Ops \ {o} : op'[d] = op[d]
      /\ op'[o].do = "start" /\ op'[o].game = made' /\ op'[o].player = op[o].player
  <2> DEFINE gain == IF natural THEN 1 ELSE -1
  <2>1. PICK copied : op' = [op EXCEPT ![o].at = "save", ![o].game = made + 1,
                                       ![o].gain = gain, ![o].copy = copied]
    BY DEF StartMutates
  <2> HIDE DEF gain
  <2>2. op'[o] = [op[o] EXCEPT !.at = "save", !.game = made + 1, !.gain = gain, !.copy = copied]
        /\ \A d \in Ops \ {o} : op'[d] = op[d]
    BY <1>2, <2>1
  <2> QED BY <1>1, <1>2, <2>2 DEF OpRecord
<1>6. disk.settled[made'] = 0
  BY <1>1, <1>3, GamesTypes DEF GamesInv
<1>7. PaymentOK(o)'
  BY <1>1, <1>2, <1>4, <1>5, <1>6 DEF PaymentOK
<1>8. \A k \in Kinds, p \in Players : \/ sessions'[k][p] \in {sessions[k][p], NoGame}
                                      \/ game'[sessions'[k][p]].kind = k
  BY <1>1, <1>2, <1>4
<1> QED BY <1>1, <1>4, <1>5, <1>7, <1>8, LedgerKeep

LEMMA LedgerSettles ==
  ASSUME TypesInv, TypesInv', GamesInv, LedgerInv, NEW o \in Ops, SettleMutates(o)
  PROVE  LedgerInv'
<1>1. /\ op[o].at = "read" /\ op[o].do = "settle" /\ disk' = disk /\ op[o].outcome \in Outcomes
      /\ game' = game \/ game' = [game EXCEPT ![op[o].game].finished = TRUE]
      /\ \/ sessions' = sessions
         \/ sessions' = [sessions EXCEPT ![op[o].kind][op[o].player] = NoGame]
  BY DEF SettleMutates, TypesInv, OpOK
<1>2. /\ op \in [Ops -> OpRecord] /\ game \in GameType
      /\ sessions \in [Kinds -> [Players -> 0..made]]
      /\ op[o].game \in 1..made
  BY <1>1 DEF TypesInv, GameType, OpOK
<1> DEFINE gain == Gain(op[o].outcome, disk.coins[op[o].player])
<1>3. gain < 0 => op[o].outcome = "early"
  <2>1. CASE op[o].outcome = "loss"
    BY <2>1 DEF Gain
  <2>2. CASE op[o].outcome = "push"
    BY <2>2 DEF Gain
  <2>3. CASE op[o].outcome = "win"
    BY <2>3 DEF Gain
  <2> QED BY <1>1, <2>1, <2>2, <2>3 DEF Outcomes
<1>4. \A g \in 1..made : game'[g].kind = game[g].kind
  <2>1. PICK played \in Games : played = op[o].game
    BY <1>2, GamesTypes
  <2>2. ASSUME game' = [game EXCEPT ![played].finished = TRUE]
        PROVE  \A g \in Games : game'[g].kind = game[g].kind
    BY <1>2, <2>2 DEF GameType
  <2> QED BY <1>1, <2>1, <2>2, GamesTypes
<1>5. /\ \A d \in Ops \ {o} : op'[d] = op[d]
      /\ op'[o].do = "settle" /\ op'[o].game = op[o].game
      /\ op'[o].outcome = op[o].outcome /\ op'[o].gain = gain
  <2>1. PICK copied : op' = [op EXCEPT ![o].at = "save", ![o].gain = gain, ![o].copy = copied]
    BY DEF SettleMutates
  <2> HIDE DEF gain
  <2>2. op'[o] = [op[o] EXCEPT !.at = "save", !.gain = gain, !.copy = copied]
        /\ \A d \in Ops \ {o} : op'[d] = op[d]
    BY <1>2, <2>1
  <2> QED BY <1>1, <1>2, <2>2 DEF OpRecord
<1>6. PaymentOK(o)'
  BY <1>1, <1>2, <1>3, <1>4, <1>5 DEF PaymentOK, LedgerInv, Debiting
<1>7. \A k \in Kinds, p \in Players : sessions'[k][p] \in {sessions[k][p], NoGame}
  BY <1>1, <1>2
<1> QED BY <1>1, <1>4, <1>5, <1>6, <1>7, LedgerKeep, SMTT(30)

LEMMA LedgerClaims ==
  ASSUME TypesInv, TypesInv', GamesInv, LedgerInv, NEW o \in Ops, NEW k \in Kinds,
         NEW p \in Players, NEW outcome \in Outcomes, Settle(o, k, p, outcome)
  PROVE  LedgerInv'
<1> DEFINE g == sessions[k][p]
<1>1. /\ g # NoGame /\ outcome \in Possible(k, g) /\ disk' = disk
      /\ game' = [game EXCEPT ![g].finished = TRUE]
      /\ sessions' = sessions \/ sessions' = [sessions EXCEPT ![k][p] = NoGame]
  BY DEF Settle
<1>2. /\ \A d \in Ops \ {o} : op'[d] = op[d]
      /\ op'[o].do = "settle" /\ op'[o].at = "lock" /\ op'[o].game = g /\ op'[o].outcome = outcome
  BY DEF Settle, TypesInv, Idle
<1>3. game \in GameType /\ sessions \in [Kinds -> [Players -> 0..made]] /\ g \in 1..made
  BY <1>1, GamesTypes DEF TypesInv, GameType
<1>4. outcome = "early" => k = "quickdraw"
  BY <1>1, KindsAssumption DEF Possible
<1>5. \A h \in 1..made : game'[h].kind = game[h].kind
  BY <1>1, <1>3, GamesTypes DEF GameType
<1>6. game'[g].kind = k
  BY <1>1, <1>3, <1>5 DEF LedgerInv
<1>7. PaymentOK(o)'
  BY <1>2, <1>4, <1>6 DEF PaymentOK, Debiting
<1>8. \A j \in Kinds, q \in Players : sessions'[j][q] \in {sessions[j][q], NoGame}
  BY <1>1, <1>3
<1> QED BY <1>1, <1>2, <1>5, <1>7, <1>8, LedgerKeep
LEMMA LedgerSaves ==
  ASSUME LockInv, TypesInv, TypesInv', GamesInv, LedgerInv, NEW o \in Ops, SaveSucceeds(o)
  PROVE  LedgerInv'
<1> DEFINE g == op[o].game
<1>1. /\ op[o].at = "save" /\ op' = [op EXCEPT ![o] = Idle] /\ UNCHANGED <<game, made>>
      /\ \/ sessions' = sessions
         \/ sessions' = [sessions EXCEPT ![op[o].kind][op[o].player] = NoGame]
  BY DEF SaveSucceeds
<1>2. op'[o] = Idle /\ \A d \in Ops \ {o} : op'[d] = op[d] /\ op[d].at # "save"
  BY <1>1, OneInside DEF TypesInv
<1>3. /\ g \in Games /\ disk.stake \in [Games -> Nat]
      /\ disk'.stake = [disk.stake EXCEPT ![g] = IF op[o].do = "start" THEN @ + 1 ELSE @]
  <2>1. disk' = Effect(op[o], disk)
    BY SavedFile
  <2>2. op[o].do \in {"start", "settle"}
    BY <1>1 DEF TypesInv, OpOK
  <2> QED BY <1>1, <2>1, <2>2, GamesTypes DEF Effect, Settling, Debiting
<1>4. op[o].do = "start" => game[g].kind \in Wagers
  BY <1>1 DEF LedgerInv, PaymentOK, Debiting
<1>5. \A h \in Games : disk'.stake[h] > 0 => game'[h].kind \in Wagers
  BY <1>1, <1>3, <1>4 DEF LedgerInv
<1>6. \A k \in Kinds, p \in Players : sessions'[k][p] \in {sessions[k][p], NoGame}
  BY <1>1 DEF TypesInv
<1>7. \A k \in Kinds, p \in Players : sessions'[k][p] # NoGame => game'[sessions'[k][p]].kind = k
  BY <1>1, <1>6 DEF LedgerInv
<1>8. ASSUME NEW d \in Ops PROVE PaymentOK(d)'
  <2>1. CASE d = o
    BY <1>2, <2>1, IdlePays
  <2>2. CASE d # o
    BY <1>1, <1>2, <2>2 DEF LedgerInv, PaymentOK, Debiting
  <2> QED BY <2>1, <2>2
<1> QED BY <1>5, <1>7, <1>8 DEF LedgerInv

LEMMA LedgerStep ==
  ASSUME LockInv, TypesInv, TypesInv', GamesInv, LedgerInv, [Next]_vars
  PROVE  LedgerInv'
<1>0. /\ op \in [Ops -> OpRecord] /\ game \in GameType
      /\ sessions \in [Kinds -> [Players -> 0..made]]
  BY DEF TypesInv, GameType
<1>1. ASSUME NEW o \in Ops, Granted(o) \/ \E k \in Kinds, p \in Players : Start(o, k, p)
      PROVE  LedgerInv'
  <2>1. UNCHANGED <<disk, sessions, game, made>> /\ \A d \in Ops \ {o} : op'[d] = op[d]
    <3>1. CASE Granted(o)
      BY <1>0, <3>1 DEF Granted, memory
    <3>2. CASE \E k \in Kinds, p \in Players : Start(o, k, p)
      BY <1>0, <3>2 DEF Start, memory
    <3> QED BY <1>1, <3>1, <3>2
  <2>2. CASE Granted(o)
    <3>1. /\ op'[o].do = op[o].do /\ op'[o].game = op[o].game /\ op'[o].outcome = op[o].outcome
          /\ op'[o].at = "read"
      BY <1>0, <2>2 DEF Granted, OpRecord
    <3>2. PaymentOK(o)'
      BY <2>1, <3>1 DEF LedgerInv, PaymentOK, Debiting
    <3> QED BY <2>1, <3>2, LedgerKeep
  <2>3. CASE \E k \in Kinds, p \in Players : Start(o, k, p)
    <3>1. op'[o].do = "start" /\ op'[o].at = "lock"
      BY <1>0, <2>3 DEF Start, Idle
    <3>2. PaymentOK(o)'
      BY <3>1 DEF PaymentOK, Debiting
    <3> QED BY <2>1, <3>2, LedgerKeep
  <2> QED BY <1>1, <2>2, <2>3
<1>2. ASSUME NEW o \in Ops, LockTimeout(o) \/ ReadFails(o) \/ StartRefused(o) \/ SaveFails(o)
      PROVE  LedgerInv'
  <2>1. UNCHANGED <<disk, sessions, made>> /\ op' = [op EXCEPT ![o] = Idle]
    BY <1>2 DEF LockTimeout, ReadFails, StartRefused, SaveFails, memory, history
  <2>2. GiveBack(o) \/ game' = game
    BY <1>2 DEF LockTimeout, ReadFails, StartRefused, SaveFails, memory
  <2>3. \A g \in Games : game'[g].kind = game[g].kind
    BY <1>0, <2>2 DEF GiveBack, GameType
  <2>4. PaymentOK(o)' /\ \A d \in Ops \ {o} : op'[d] = op[d]
    BY <1>0, <2>1, IdlePays
  <2> QED BY <2>1, <2>3, <2>4, LedgerKeep, GamesTypes
<1>3. ASSUME NEW p \in Players, StartQuickDraw(p) PROVE LedgerInv'
  <2>1. /\ made' = made + 1 /\ UNCHANGED <<disk, op>> /\ "quickdraw" \in Kinds
        /\ sessions' = [sessions EXCEPT !["quickdraw"][p] = made']
        /\ game' = [game EXCEPT ![made'].kind = "quickdraw"]
    BY <1>3 DEF StartQuickDraw
  <2>2. made' \in Games /\ made' \notin 1..made
    BY <2>1, GamesTypes, BoundsAssumption DEF TypesInv
  <2>3. /\ game'[made'].kind = "quickdraw"
        /\ \A g \in 1..made : game'[g].kind = game[g].kind
    BY <1>0, <2>1, <2>2, GamesTypes DEF GameType
  <2>4. \A k \in Kinds, q \in Players : \/ sessions'[k][q] \in {sessions[k][q], NoGame}
                                        \/ game'[sessions'[k][q]].kind = k
    BY <1>0, <2>1, <2>3
  <2> QED BY <2>1, <2>3, <2>4, LedgerKeep
<1>4. ASSUME NEW p \in Players, RevealSafe(p) \/ \E k \in Kinds : Drop(k, p) PROVE LedgerInv'
  <2>1. UNCHANGED <<disk, made, op>>
    BY <1>4 DEF RevealSafe, Drop
  <2>2. \A g \in Games : game'[g].kind = game[g].kind
    <3>1. game' = game \/ \E h \in 0..made : game' = [game EXCEPT ![h].revealed = TRUE]
      BY <1>0, <1>4 DEF RevealSafe, Drop
    <3> QED BY <1>0, <3>1 DEF GameType
  <2>3. \A k \in Kinds, q \in Players : sessions'[k][q] \in {sessions[k][q], NoGame}
    BY <1>0, <1>4 DEF RevealSafe, Drop
  <2> QED BY <2>1, <2>2, <2>3, LedgerKeep, GamesTypes
<1>5. ASSUME Restart \/ UNCHANGED vars PROVE LedgerInv'
  <2>1. UNCHANGED <<disk, made, game>>
    BY <1>5 DEF Restart, vars, memory
  <2>2. \A k \in Kinds, q \in Players : sessions'[k][q] \in {sessions[k][q], NoGame}
    BY <1>5 DEF Restart, vars, memory
  <2>3. \A o \in Ops : op'[o] = op[o] \/ op'[o] = Idle
    BY <1>5 DEF Restart, vars
  <2> QED BY <2>1, <2>2, <2>3, IdlePays, LedgerKeep
<1>6. ASSUME NEW o \in Ops, Proceed(o) \/ LockTimeout(o) PROVE LedgerInv'
  BY <1>1, <1>2, <1>6, LedgerStarts, LedgerSettles, LedgerSaves DEF Proceed, Return
<1>7. ASSUME NEW o \in Ops, NEW p \in Players, NEW k \in Kinds,
             Start(o, k, p) \/ \E outcome \in Outcomes : Settle(o, k, p, outcome)
      PROVE  LedgerInv'
  BY <1>1, <1>7, LedgerClaims
<1> QED BY <1>3, <1>4, <1>5, <1>6, <1>7 DEF Next

\* The one step that changes the file books one bet or one settlement.
LEMMA LedgerBooks ==
  ASSUME LockInv, TypesInv, TypesInv', GamesInv, LedgerInv, NEW o \in Ops, SaveSucceeds(o)
  PROVE  Ledger!Next
<1> DEFINE debited(f) == {h \in Games : f.stake[h] > 0}
           settled(f) == {h \in Games : f.settled[h] > 0}
<1>0. PICK p \in Players, g \in Games, n \in -1..2 :
        p = op[o].player /\ g = op[o].game /\ n = op[o].gain
  <2>1. op[o] \in OpRecord /\ op[o].at = "save"
    BY DEF SaveSucceeds, TypesInv
  <2>2. op[o].player \in Players /\ op[o].game \in Games
    BY <2>1, GamesTypes DEF TypesInv, OpOK, Settling, Debiting
  <2> QED BY <2>1, <2>2 DEF OpRecord
<1>1. /\ op[o].at = "save" /\ op[o].do \in {"start", "settle"}
      /\ op[o].do = "start" => n \in {-1, 1}
  <2>1. op[o].at = "save"
    BY DEF SaveSucceeds
  <2> QED BY <1>0, <2>1 DEF TypesInv, OpOK
<1>2. /\ disk \in File /\ disk' \in File
      /\ disk'.coins = [disk.coins EXCEPT ![p] = @ + n]
      /\ disk'.stake = [disk.stake EXCEPT ![g] = IF op[o].do = "start" THEN @ + 1 ELSE @]
      /\ disk'.settled = [disk.settled EXCEPT ![g] = IF Settles(op[o]) THEN @ + 1 ELSE @]
  <2>1. disk \in File /\ disk' \in File /\ disk' = Effect(op[o], disk)
    BY SavedFile DEF TypesInv
  <2> QED BY <1>0, <2>1 DEF Effect
<1>3. disk.coins[p] \in Nat /\ disk'.coins[p] \in Nat /\ disk'.coins[p] = disk.coins[p] + n
  BY <1>2 DEF File
<1>4. /\ disk.stake \in [Games -> Nat] /\ disk.settled \in [Games -> Nat]
  BY GamesTypes
<1>5. op[o].do = "start" => debited(disk') = debited(disk) \cup {g}
  BY <1>1, <1>2, <1>4
<1>6. op[o].do = "settle" => debited(disk') = debited(disk)
  BY <1>1, <1>2, <1>4
<1>7. Settles(op[o]) => settled(disk') = settled(disk) \cup {g}
  BY <1>1, <1>2, <1>4
<1>8. ~Settles(op[o]) => settled(disk') = settled(disk)
  BY <1>1, <1>2, <1>4
<1>9. CASE op[o].do = "start"
  <2>1. g \notin debited(disk) /\ g \notin settled(disk) /\ disk.coins[p] >= 1
    BY <1>0, <1>1, <1>9 DEF GamesInv, LedgerInv, PaymentOK, Debiting
  <2>2. CASE n = 1
    <3>1. Settles(op[o])
      BY <1>0, <2>2 DEF Settles
    <3>2. Ledger!BetAndWin(p, g)
      BY <1>2, <1>5, <1>7, <1>9, <2>1, <2>2, <3>1 DEF Ledger!BetAndWin, Ledger!Fresh
    <3> QED BY <3>2 DEF Ledger!Next
  <2>3. CASE n = -1
    <3>1. ~Settles(op[o])
      BY <1>0, <1>9, <2>3 DEF Settles
    <3>2. Ledger!Bet(p, g)
      BY <1>2, <1>3, <1>5, <1>8, <1>9, <2>1, <2>3, <3>1 DEF Ledger!Bet, Ledger!Fresh, File
    <3> QED BY <3>2 DEF Ledger!Next
  <2> QED BY <1>1, <1>9, <2>2, <2>3
<1>10. CASE op[o].do = "settle"
  <2>1. Settles(op[o]) /\ Settling(o)
    BY <1>1, <1>10 DEF Settles, Settling
  <2>2. g \notin settled(disk)
    BY <1>0, <2>1 DEF GamesInv
  <2>3. g \in debited(disk) => n >= 0
    BY <1>0, <1>1, <1>10 DEF LedgerInv, PaymentOK, Wagers
  <2>4. Ledger!Settle(p, g, n)
    BY <1>2, <1>3, <1>6, <1>7, <1>10, <2>1, <2>2, <2>3 DEF Ledger!Settle
  <2> QED BY <2>4 DEF Ledger!Next
<1> QED BY <1>1, <1>9, <1>10

\* The player file implements the ledger of bets and settlements: no failure,
\* retry, time-out or restart shows in the coins (mutatePlayer and its callers).
THEOREM SpecImplementsLedger == Spec => ImplementsLedger
<1>1. Init => Ledger!Init /\ LedgerInv
  <2> SUFFICES ASSUME Init PROVE Ledger!Init
    BY LedgerInvInit
  <2>1. /\ disk.coins = [p \in Players |-> InitialCoins]
        /\ \A g \in Games : ~(disk.stake[g] > 0) /\ ~(disk.settled[g] > 0)
    BY DEF Init, NoFile
  <2> QED BY <2>1 DEF Ledger!Init
<1>2. IInv /\ IInv' /\ LedgerInv /\ [Next]_vars => LedgerInv'
  BY LedgerStep DEF IInv
<1>3. IInv /\ IInv' /\ LedgerInv /\ [Next]_vars => [Ledger!Next]_(Ledger!vars)
  <2> SUFFICES ASSUME IInv, IInv', LedgerInv, [Next]_vars PROVE Ledger!Next \/ disk' = disk
    BY DEF Ledger!vars
  <2>1. ASSUME NEW o \in Ops, SaveSucceeds(o) PROVE Ledger!Next
    BY <2>1, LedgerBooks DEF IInv
  <2>2. ASSUME NEW o \in Ops, Proceed(o) \/ LockTimeout(o), ~SaveSucceeds(o)
        PROVE  disk' = disk
    <3>1. CASE Granted(o) \/ ReadFails(o) \/ StartRefused(o)
      BY <3>1 DEF Granted, ReadFails, StartRefused
    <3>2. CASE SettleMutates(o) \/ \E natural \in BOOLEAN : StartMutates(o, natural)
      <4>1. CASE SettleMutates(o)
        BY <4>1 DEF SettleMutates
      <4>2. CASE \E natural \in BOOLEAN : StartMutates(o, natural)
        BY <4>2 DEF StartMutates
      <4> QED BY <3>2, <4>1, <4>2
    <3>3. CASE SaveFails(o) \/ LockTimeout(o)
      BY <3>3 DEF SaveFails, LockTimeout
    <3> QED BY <2>2, <3>1, <3>2, <3>3 DEF Proceed, Return
  <2>3. ASSUME NEW o \in Ops, NEW p \in Players, NEW k \in Kinds,
               Start(o, k, p) \/ \E outcome \in Outcomes : Settle(o, k, p, outcome)
        PROVE  disk' = disk
    <3>1. CASE Start(o, k, p)
      BY <3>1 DEF Start
    <3>2. CASE \E outcome \in Outcomes : Settle(o, k, p, outcome)
      BY <3>2 DEF Settle
    <3> QED BY <2>3, <3>1, <3>2
  <2>4. ASSUME NEW p \in Players, StartQuickDraw(p) \/ RevealSafe(p) \/ \E k \in Kinds : Drop(k, p)
        PROVE  disk' = disk
    BY <2>4 DEF StartQuickDraw, RevealSafe, Drop
  <2>5. ASSUME Restart \/ UNCHANGED vars PROVE disk' = disk
    BY <2>5 DEF Restart, vars
  <2> QED BY <2>1, <2>2, <2>3, <2>4, <2>5 DEF Next
<1> QED BY <1>1, <1>2, <1>3, CasinoInvariant, PTL DEF Spec, ImplementsLedger, Ledger!Spec
=============================================================================
