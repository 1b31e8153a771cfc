------------------------ MODULE MessageIntakeProofs ------------------------
(***************************************************************************)
(* For any number of messages and runs and any limits: no message is       *)
(* handled twice in a lease, no deferred credit is forgotten, and the      *)
(* limit of the day is passed by the runs under way and the rivalry only.  *)
(*                                                                         *)
(* The limit is checked by one step and the credit counted by a later one. *)
(* What is inductive is the sum of the credits counted and the credits     *)
(* that runs past the check will count: a run owes one or LongCost, each   *)
(* an element of a set of its own, so that the sum is a cardinality.  The  *)
(* conversation plays no part.                                             *)
(***************************************************************************)
EXTENDS MessageIntake, FiniteSetTheorems, TLAPS

RunType ==
  /\ run \in [Runs -> [at : {"idle", "context", "generate", "reply", "challenge",
                             "fallback", "opponent"},
                       msg : Messages \cup {NoMessage}]]
  /\ \A r \in Runs : run[r].at # "idle" => run[r].msg \in Messages

UsageRecord == [credits : Nat, cooldown : BOOLEAN, pending : BOOLEAN]

UsageType ==
  /\ usage \in UsageRecord
  /\ stored \in Nat /\ unwritten \in BOOLEAN /\ billed \in Nat

\* The credits, one by one, of the runs past the check that have not counted them yet.
Credit  == Runs \X (1..LongCost)
Owes(r) == run[r].at \in {"generate", "challenge"}
Owing   == {d \in Credit : Owes(d[1]) /\ d[2] <= Cost(run[d[1]].msg)}
Of(r)   == {r} \X (1..LongCost)

Margin == LongCost * (Cardinality(Runs) - 1)
Room   == DailyLimit + Margin + billed

CreditsInv ==
  /\ RunType
  /\ UsageType
  /\ UsageStored
  /\ stored <= usage.credits
  /\ usage.credits + Cardinality(Owing) <= Room

LeaseInv ==
  /\ RunType
  /\ rows \in [Messages -> Row]
  /\ current \subseteq Messages
  /\ \A m \in current : rows[m].state \in Settled \/ rows[m].lease > 0
  /\ \A m \in Messages : rows[m].lease > 0 => rows[m].state = "PROCESSING"
  /\ again = {}

-----------------------------------------------------------------------------
\* An answer costs at least one credit and at most those of a long message.
LEMMA CostLemma == ASSUME NEW m PROVE Cost(m) \in 1..LongCost
BY LimitsAssumption DEF Cost

\* What one run owes is a finite set.
LEMMA ShareLemma ==
  ASSUME NEW x, NEW n \in Nat
  PROVE  IsFiniteSet({x} \X (1..n)) /\ Cardinality({x} \X (1..n)) = n
<1>1. IsFiniteSet(1..n) /\ Cardinality(1..n) = IF 1 > n THEN 0 ELSE n - 1 + 1
  BY FS_Interval
<1>2. Cardinality(1..n) = n
  BY <1>1
<1>3. IsFiniteSet({x}) /\ Cardinality({x}) = 1
  BY FS_Singleton
<1>4. IsFiniteSet({x} \X (1..n)) /\ Cardinality({x} \X (1..n)) = 1 * n
  BY <1>1, <1>2, <1>3, FS_Product
<1> QED BY <1>4

\* All but one of the runs can owe Margin credits.
LEMMA MarginLemma ==
  /\ LongCost \in Nat /\ Cardinality(Runs) \in Nat /\ Margin \in Int /\ Margin + LongCost \in Nat
  /\ IsFiniteSet(Credit) /\ Cardinality(Credit) = Margin + LongCost
  /\ \A r \in Runs : /\ IsFiniteSet(Of(r)) /\ Cardinality(Of(r)) = LongCost
                      /\ IsFiniteSet(Credit \ Of(r)) /\ Cardinality(Credit \ Of(r)) = Margin
<1>1. /\ IsFiniteSet(1..LongCost) /\ Cardinality(1..LongCost) = LongCost
      /\ IsFiniteSet(Runs) /\ Cardinality(Runs) \in Nat /\ LongCost \in Nat
  <2>1. LongCost \in Nat
    BY LimitsAssumption
  <2>2. IsFiniteSet(1..LongCost)
        /\ Cardinality(1..LongCost) = IF 1 > LongCost THEN 0 ELSE LongCost - 1 + 1
    BY <2>1, FS_Interval
  <2>3. Cardinality(1..LongCost) = LongCost
    BY <2>1, <2>2
  <2>4. IsFiniteSet(Runs) /\ Cardinality(Runs) \in Nat
    BY RunsAssumption, FS_CardinalityType
  <2> QED BY <2>1, <2>2, <2>3, <2>4
<1>2. Margin = Cardinality(Runs) * LongCost - LongCost
  BY <1>1 DEF Margin
<1>3. IsFiniteSet(Credit) /\ Cardinality(Credit) = Cardinality(Runs) * LongCost
  BY <1>1, FS_Product DEF Credit
<1>4. Cardinality(Runs) * LongCost \in Nat
  BY <1>1
<1>5. ASSUME NEW r \in Runs
      PROVE  /\ IsFiniteSet(Of(r)) /\ Cardinality(Of(r)) = LongCost
             /\ IsFiniteSet(Credit \ Of(r)) /\ Cardinality(Credit \ Of(r)) = Margin
  <2>1. IsFiniteSet(Of(r)) /\ Cardinality(Of(r)) = LongCost
    BY <1>1, ShareLemma DEF Of
  <2>2. Credit \cap Of(r) = Of(r)
    BY DEF Credit, Of
  <2>3. IsFiniteSet(Credit \ Of(r))
        /\ Cardinality(Credit \ Of(r)) = Cardinality(Credit) - Cardinality(Credit \cap Of(r))
    BY <1>3, FS_Difference
  <2> QED BY <1>2, <1>3, <2>1, <2>2, <2>3
<1>6. Margin \in Int /\ Margin + LongCost \in Nat /\ Cardinality(Credit) = Margin + LongCost
  <2> DEFINE all == Cardinality(Runs) * LongCost
  <2>1. all \in Nat /\ Margin = all - LongCost /\ Cardinality(Credit) = all /\ LongCost \in Nat
    BY <1>1, <1>2, <1>3, <1>4
  <2> HIDE DEF all
  <2> QED BY <2>1
<1> QED BY <1>1, <1>3, <1>5, <1>6

\* There are finitely many credits to owe.
LEMMA OwingFinite ==
  /\ IsFiniteSet(Owing) /\ Cardinality(Owing) \in Nat
  /\ Cardinality(Owing) <= Margin + LongCost
<1>1. Owing \in SUBSET Credit
  BY DEF Owing
<1> QED BY <1>1, MarginLemma, FS_Subset, FS_CardinalityType

\* When no run begins to owe, the debt does not grow.
LEMMA OwingShrinks ==
  ASSUME Owing' \subseteq Owing
  PROVE  Cardinality(Owing') \in Nat /\ Cardinality(Owing') <= Cardinality(Owing)
BY OwingFinite, FS_Subset, FS_CardinalityType

\* A run that owed and does not any more lowers it by what its answer cost.
LEMMA OwingPaid ==
  ASSUME NEW r \in Runs, Owes(r), Owing' \subseteq Owing \ Of(r)
  PROVE  /\ Cardinality(Owing') \in Nat
         /\ Cardinality(Owing') + Cost(run[r].msg) <= Cardinality(Owing)
<1> DEFINE c == Cost(run[r].msg)
           share == {r} \X (1..c)
<1>1. c \in 1..LongCost /\ c \in Nat
  BY CostLemma, MarginLemma
<1>3. IsFiniteSet(share) /\ Cardinality(share) = c
  BY <1>1, ShareLemma
<1>4. Owing \cap share = share /\ share \subseteq Of(r)
  BY <1>1, MarginLemma DEF Owing, Credit, Of
<1>5. IsFiniteSet(Owing \ share) /\ Cardinality(Owing \ share) = Cardinality(Owing) - c
  <2>1. IsFiniteSet(Owing \ share)
        /\ Cardinality(Owing \ share) = Cardinality(Owing) - Cardinality(Owing \cap share)
    BY OwingFinite, FS_Difference
  <2> QED BY <1>3, <1>4, <2>1
<1>6. Owing' \in SUBSET (Owing \ share)
  BY <1>4
<1>7. Cardinality(Owing') <= Cardinality(Owing \ share) /\ Cardinality(Owing') \in Nat
  BY <1>5, <1>6, FS_Subset, FS_CardinalityType
<1> QED BY <1>1, <1>5, <1>7, OwingFinite

\* Whatever the others owe, one more run adds what its answer will cost.
LEMMA OwingBounded ==
  ASSUME NEW r \in Runs,
         \A d \in Owing' : d \in Credit /\ (d[1] = r => d[2] <= Cost(run[r].msg))
  PROVE  /\ Cardinality(Owing') \in Nat
         /\ Cardinality(Owing') <= Margin + Cost(run[r].msg)
<1> DEFINE c == Cost(run[r].msg)
           share == {r} \X (1..c)
           others == Credit \ Of(r)
<1>1. c \in 1..LongCost /\ c \in Nat
  BY CostLemma, MarginLemma
<1>3. IsFiniteSet(share) /\ Cardinality(share) = c
  BY <1>1, ShareLemma
<1>4. Owing' \in SUBSET (others \cup share)
  <2>1. ASSUME NEW d \in Owing' PROVE d \in others \cup share
    <3>1. d \in Credit /\ d = <<d[1], d[2]>> /\ d[1] \in Runs /\ d[2] \in 1..LongCost
      BY <2>1 DEF Credit
    <3>2. CASE d[1] = r
      BY <1>1, <2>1, <3>1, <3>2, MarginLemma
    <3>3. CASE d[1] # r
      BY <3>1, <3>3 DEF Of
    <3> QED BY <3>2, <3>3
  <2> QED BY <2>1
<1>5. others \cap share = {}
  BY <1>1, MarginLemma DEF Of
<1>6. IsFiniteSet(others) /\ Cardinality(others) = Margin
  BY MarginLemma
<1>7. IsFiniteSet(others \cup share) /\ Cardinality(others \cup share) = Margin + c
  <2>0. Cardinality(others \cap share) = 0 /\ Margin \in Int
    BY <1>5, FS_EmptySet, MarginLemma
  <2> HIDE DEF others, share, c
  <2>1. Cardinality(others \cup share)
          = Cardinality(others) + Cardinality(share) - Cardinality(others \cap share)
        /\ IsFiniteSet(others \cup share)
    BY <1>3, <1>6, FS_Union
  <2> QED BY <1>1, <1>3, <1>6, <2>0, <2>1
<1> QED BY <1>4, <1>7, FS_Subset, FS_CardinalityType

\* A run that is over owes nothing; the others are as they were.
LEMMA OverLemma ==
  ASSUME RunType, NEW r \in Runs, Over(r)
  PROVE  RunType' /\ Owing' = Owing \ Of(r)
<1>1. RunType' /\ run'[r].at = "idle" /\ \A q \in Runs \ {r} : run'[q] = run[q]
  BY DEF RunType, Over, Idle
<1>2. ~Owes(r)' /\ \A q \in Runs \ {r} : Owes(q)' = Owes(q)
  BY <1>1 DEF Owes
<1>3. \A d \in Credit : d[1] \in Runs /\ (d \in Of(r) <=> d[1] = r)
  BY DEF Credit, Of
<1>4. \A d \in Credit : d \in Owing' <=> d \in Owing \ Of(r)
  BY <1>1, <1>2, <1>3 DEF Owing, Owes, Cost
<1>5. Owing' \subseteq Credit /\ Owing \subseteq Credit
  BY DEF Owing, Credit
<1> QED BY <1>1, <1>4, <1>5

\* So is a run that moves to a place; its message stays.
LEMMA MoveLemma ==
  ASSUME RunType, NEW r \in Runs, run[r].at # "idle",
         NEW place \in {"generate", "reply", "challenge", "fallback"},
         run' = [run EXCEPT ![r].at = place]
  PROVE  /\ RunType'
         /\ place \in {"reply", "fallback"} => Owing' = Owing \ Of(r)
         /\ \A d \in Owing' : d \in Credit /\ (d[1] = r => d[2] <= Cost(run[r].msg))
<1>1. /\ RunType' /\ run'[r].at = place /\ run'[r].msg = run[r].msg
      /\ \A q \in Runs \ {r} : run'[q] = run[q]
  BY DEF RunType
<1>2. /\ place \in {"reply", "fallback"} => ~Owes(r)'
      /\ \A q \in Runs \ {r} : Owes(q)' = Owes(q)
  BY <1>1 DEF Owes
<1>3. \A d \in Credit : d[1] \in Runs /\ (d \in Of(r) <=> d[1] = r)
  BY DEF Credit, Of
<1>4. Owing' \subseteq Credit /\ Owing \subseteq Credit
  BY DEF Owing, Credit
<1>5. ASSUME place \in {"reply", "fallback"} PROVE Owing' = Owing \ Of(r)
  <2>1. \A d \in Credit : d \in Owing' <=> d \in Owing \ Of(r)
    BY <1>1, <1>2, <1>3, <1>5 DEF Owing, Owes, Cost
  <2> QED BY <1>4, <2>1
<1>6. ASSUME NEW d \in Owing' PROVE d \in Credit /\ (d[1] = r => d[2] <= Cost(run[r].msg))
  BY <1>1, <1>4, <1>6 DEF Owing, Cost
<1> QED BY <1>1, <1>5, <1>6

\* What the updates of the accounting do to its fields.
Fields(w, credits, pending) == w \in UsageRecord /\ w.credits = credits /\ w.pending = pending

LEMMA UsageLemma ==
  ASSUME NEW u \in UsageRecord
  PROVE  /\ \A c \in Nat :
              Fields([u EXCEPT !.credits = @ + c, !.pending = TRUE], u.credits + c, TRUE)
         /\ Fields([u EXCEPT !.pending = FALSE], u.credits, FALSE)
         /\ Fields([u EXCEPT !.cooldown = TRUE], u.credits, u.pending)
         /\ Fields([u EXCEPT !.pending = FALSE, !.cooldown = TRUE], u.credits, FALSE)
<1>1. ASSUME NEW c \in Nat
      PROVE  Fields([u EXCEPT !.credits = @ + c, !.pending = TRUE], u.credits + c, TRUE)
  <2>1. \A n \in Nat : Fields([u EXCEPT !.credits = n, !.pending = TRUE], n, TRUE)
    BY DEF Fields, UsageRecord
  <2>2. u.credits + c \in Nat
    BY DEF UsageRecord
  <2> QED BY <2>1, <2>2
<1>2. Fields([u EXCEPT !.pending = FALSE], u.credits, FALSE)
  BY DEF Fields, UsageRecord
<1>3. Fields([u EXCEPT !.cooldown = TRUE], u.credits, u.pending)
  BY DEF Fields, UsageRecord
<1>4. Fields([u EXCEPT !.pending = FALSE, !.cooldown = TRUE], u.credits, FALSE)
  BY DEF Fields, UsageRecord
<1> QED BY <1>1, <1>2, <1>3, <1>4

\* Counting credits.
LEMMA RecordedLemma ==
  ASSUME UsageType, NEW c \in Nat
  PROVE  Fields(Recorded(c), usage.credits + c, TRUE)
BY UsageLemma DEF Recorded, UsageType, UsageRecord

\* The invariant, part by part.
LEMMA CreditsClose ==
  ASSUME RunType', Cardinality(Owing') \in Nat,
         usage' \in UsageRecord,
         stored' \in Nat, unwritten' \in BOOLEAN, billed' \in Nat,
         stored' <= usage'.credits,
         stored' # usage'.credits => usage'.pending \/ unwritten',
         usage'.credits + Cardinality(Owing') <= DailyLimit + Margin + billed'
  PROVE  CreditsInv'
BY DEF CreditsInv, UsageType, UsageStored, Room

\* A run that begins has been idle and owes nothing.
LEMMA BeginLemma ==
  ASSUME RunType, NEW r \in Runs, NEW m \in Messages, run[r].at = "idle",
         NEW place \in {"context", "opponent"},
         run' = [run EXCEPT ![r] = [at |-> place, msg |-> m]]
  PROVE  RunType' /\ Owing' \subseteq Owing
<1>1. /\ RunType' /\ ~Owes(r)' /\ \A q \in Runs \ {r} : run'[q] = run[q]
  BY DEF RunType, Owes
<1>2. \A d \in Credit : d \in Owing' => d \in Owing
  BY <1>1 DEF Owing, Owes, Cost, Credit
<1>3. Owing' \subseteq Credit
  BY DEF Owing, Credit
<1> QED BY <1>1, <1>2, <1>3

-----------------------------------------------------------------------------
\* Nothing counted, nothing owed.
LEMMA InitCredits == Init => CreditsInv
<1> SUFFICES ASSUME Init PROVE CreditsInv
  OBVIOUS
<1>1. RunType /\ UsageType /\ UsageStored
  BY DEF Init, Idle, RunType, UsageType, UsageRecord, UsageStored
<1>2. Owing = {}
  BY DEF Init, Idle, Owing, Owes, Credit
<1>3. Cardinality(Owing) = 0
  BY <1>2, FS_EmptySet
<1> QED BY <1>1, <1>3, MarginLemma, LimitsAssumption DEF Init, CreditsInv, Room

\* Every step keeps the sum of what is counted and what is owed within the room.
LEMMA StepCredits == CreditsInv /\ [Next]_vars => CreditsInv'
<1> SUFFICES ASSUME CreditsInv, [Next]_vars PROVE CreditsInv'
  OBVIOUS
<1>t. RunType /\ UsageType
  BY DEF CreditsInv
<1> DEFINE Keep == UNCHANGED <<usage, stored, unwritten, billed>>
<1>n. /\ usage \in UsageRecord /\ usage.credits \in Nat /\ usage.pending \in BOOLEAN
      /\ stored \in Nat /\ unwritten \in BOOLEAN /\ billed \in Nat /\ DailyLimit \in Nat
      /\ Cardinality(Owing) \in Nat /\ Margin \in Int /\ LongCost \in Nat
      /\ stored <= usage.credits /\ (stored # usage.credits => usage.pending \/ unwritten)
      /\ usage.credits + Cardinality(Owing) <= DailyLimit + Margin + billed
  BY OwingFinite, MarginLemma, LimitsAssumption DEF CreditsInv, UsageType, UsageStored, Room, UsageRecord
<1>1. ASSUME Keep, RunType', Owing' \subseteq Owing
      PROVE  CreditsInv'
  <2>1. Cardinality(Owing') \in Nat /\ Cardinality(Owing') <= Cardinality(Owing)
    BY <1>1, OwingShrinks
  <2>2. Fields(usage', usage.credits, usage.pending)
    BY <1>1, <1>n DEF Fields
  <2> QED BY <1>1, <2>1, <2>2, <1>n, CreditsClose DEF Fields
<1>2. ASSUME NEW r \in Runs, Keep, RunType', Allowed(r),
             \A d \in Owing' : d \in Credit /\ (d[1] = r => d[2] <= Cost(run[r].msg))
      PROVE  CreditsInv'
  <2>0. Cost(run[r].msg) \in Nat
    BY CostLemma, <1>n
  <2>1. Cardinality(Owing') \in Nat /\ Cardinality(Owing') <= Margin + Cost(run[r].msg)
    BY <1>2, OwingBounded
  <2>2. Fields(usage', usage.credits, usage.pending)
    BY <1>2, <1>n DEF Fields
  <2>3. usage.credits + Cost(run[r].msg) <= DailyLimit
    BY <1>2 DEF Allowed
  <2>4. usage.credits + Cardinality(Owing') <= DailyLimit + Margin + billed
    BY <2>0, <2>1, <2>3, <1>n
  <2> QED BY <1>2, <2>1, <2>2, <2>4, <1>n, CreditsClose DEF Fields
<1>3. CASE \E m \in Messages : Defer(m) \/ Ignore(m)
  BY <1>3, <1>t, <1>1 DEF Defer, Ignore, RunType, Owing, Owes, Credit, Cost
<1>4. ASSUME NEW r \in Runs, NEW m \in Messages, Accept(r, m) \/ AcceptOpponent(r, m)
      PROVE  CreditsInv'
  BY <1>4, <1>1, <1>t, BeginLemma DEF Accept, AcceptOpponent
<1>5. ASSUME NEW r \in Runs, Otherwise(r) \/ LimitReached(r)
      PROVE  CreditsInv'
  BY <1>5, <1>1, <1>t, OverLemma DEF Otherwise, LimitReached, history
<1>6. ASSUME NEW r \in Runs, Ask(r) \/ AskAfterIdle(r)
      PROVE  CreditsInv'
  <2>1. run[r].at # "idle" /\ run' = [run EXCEPT ![r].at = "generate"]
    BY <1>6 DEF Ask, AskAfterIdle, At
  <2>2. RunType' /\ \A d \in Owing' : d \in Credit /\ (d[1] = r => d[2] <= Cost(run[r].msg))
    BY <2>1, <1>t, MoveLemma
  <2> QED BY <1>6, <1>2, <2>2 DEF Ask, AskAfterIdle, history
<1>7. ASSUME NEW r \in Runs, NEW place \in {"challenge", "fallback"}, AskChallenge(r, place)
      PROVE  CreditsInv'
  <2>1. run[r].at # "idle" /\ run' = [run EXCEPT ![r].at = place]
    BY <1>7 DEF AskChallenge, At
  <2>2. RunType' /\ \A d \in Owing' : d \in Credit /\ (d[1] = r => d[2] <= Cost(run[r].msg))
    BY <2>1, <1>t, MoveLemma
  <2> QED BY <1>7, <1>2, <2>2 DEF AskChallenge, history
<1>8. ASSUME NEW r \in Runs, Answer(r)
      PROVE  CreditsInv'
  <2> DEFINE c == Cost(run[r].msg)
  <2>1. RunType' /\ Owing' = Owing \ Of(r)
    BY <1>8, <1>t, MoveLemma DEF Answer, At
  <2>2. Owes(r) /\ c \in Nat
    BY <1>8, <1>n, CostLemma DEF Answer, At, Owes
  <2>3. Cardinality(Owing') \in Nat /\ Cardinality(Owing') + c <= Cardinality(Owing)
    BY <2>1, <2>2, OwingPaid
  <2>4. Fields(usage', usage.credits + c, TRUE) /\ UNCHANGED <<stored, unwritten, billed>>
    BY <1>8, <2>2, <1>t, RecordedLemma DEF Answer, history
  <2> HIDE DEF c
  <2> QED BY <2>1, <2>2, <2>3, <2>4, <1>n, CreditsClose DEF Fields
<1>9. ASSUME NEW r \in Runs, AnswerOpponent(r)
      PROVE  CreditsInv'
  <2>1. RunType' /\ Owing' \subseteq Owing
    BY <1>9, <1>t, OverLemma DEF AnswerOpponent
  <2>2. Cardinality(Owing') \in Nat /\ Cardinality(Owing') <= Cardinality(Owing)
    BY <2>1, OwingShrinks
  <2>3. /\ Fields(usage', usage.credits + 1, TRUE)
        /\ billed' = billed + 1 /\ UNCHANGED <<stored, unwritten>>
    BY <1>9, <1>t, RecordedLemma DEF AnswerOpponent
  <2> QED BY <2>1, <2>2, <2>3, <1>n, CreditsClose DEF Fields
<1>10. ASSUME NEW r \in Runs, Over(r)
       PROVE  /\ RunType' /\ Cardinality(Owing') \in Nat
              /\ Counted(r) \in UsageRecord
              /\ Counted(r).credits >= usage.credits
              /\ Counted(r).credits + Cardinality(Owing') <= usage.credits + Cardinality(Owing)
              /\ ~Counted(r).pending => Counted(r) = usage
  <2>1. RunType' /\ Owing' = Owing \ Of(r)
    BY <1>10, <1>t, OverLemma
  <2>2. CASE At(r, "challenge")
    <3> DEFINE c == Cost(run[r].msg)
    <3>1. Owes(r) /\ c \in Nat
      BY <2>2, <1>n, CostLemma DEF At, Owes
    <3>2. Cardinality(Owing') \in Nat /\ Cardinality(Owing') + c <= Cardinality(Owing)
      BY <3>1, <2>1, OwingPaid
    <3>3. Fields(Counted(r), usage.credits + c, TRUE)
      BY <2>2, <3>1, <1>t, RecordedLemma DEF Counted
    <3> HIDE DEF c
    <3> QED BY <2>1, <3>1, <3>2, <3>3, <1>n DEF Fields
  <2>3. CASE ~At(r, "challenge")
    <3>1. Cardinality(Owing') \in Nat /\ Cardinality(Owing') <= Cardinality(Owing)
      BY <2>1, OwingShrinks
    <3>2. Counted(r) = usage
      BY <2>3 DEF Counted
    <3> QED BY <2>1, <3>1, <3>2, <1>n
  <2> QED BY <2>2, <2>3
<1>11. ASSUME NEW r \in Runs, Flush(r)
       PROVE  CreditsInv'
  <2> DEFINE u == Counted(r)
  <2>1. /\ Over(r) /\ UNCHANGED billed
        /\ IF u.pending THEN stored' = u.credits /\ unwritten' = FALSE
                        ELSE UNCHANGED <<stored, unwritten>>
    BY <1>11 DEF Flush
  <2>2. /\ RunType' /\ Cardinality(Owing') \in Nat
        /\ u \in UsageRecord
        /\ u.credits + Cardinality(Owing') <= usage.credits + Cardinality(Owing)
        /\ ~u.pending => u = usage
    BY <2>1, <1>10, SMTT(30)
  <2>3. Fields(usage', u.credits, FALSE)
    BY <1>11, <2>2, UsageLemma DEF Flush
  <2> HIDE DEF u
  <2>4. u.credits \in Nat /\ u.pending \in BOOLEAN
    BY <2>2 DEF UsageRecord
  <2>5. CASE u.pending
    <3>1. stored' = usage'.credits /\ unwritten' \in BOOLEAN /\ stored' \in Nat
      BY <2>1, <2>3, <2>4, <2>5 DEF Fields
    <3> QED BY <3>1, <2>1, <2>2, <2>3, <2>4, <1>n, CreditsClose DEF Fields
  <2>6. CASE ~u.pending
    <3>1. stored = usage.credits \/ unwritten
      BY <2>2, <2>6, <1>n
    <3> QED BY <3>1, <2>1, <2>2, <2>3, <2>4, <2>6, <1>n, CreditsClose DEF Fields
  <2> QED BY <2>4, <2>5, <2>6
<1>12. ASSUME NEW r \in Runs, NEW inFlush \in BOOLEAN, Fails(r, inFlush), Over(r),
              UNCHANGED billed,
              \/ stored' = usage'.credits /\ unwritten' = FALSE
              \/ unwritten' = TRUE /\ UNCHANGED stored
       PROVE  CreditsInv'
  <2>1. PICK c \in Nat, p \in BOOLEAN :
          /\ Fields(usage', c, p)
          /\ c >= usage.credits
          /\ c + Cardinality(Owing') <= usage.credits + Cardinality(Owing)
    <3>1. CASE inFlush
      <4>1. Fields(usage', Counted(r).credits, FALSE)
        BY <1>12, <3>1, <1>10, UsageLemma DEF Fails
      <4> QED BY <4>1, <1>12, <1>10 DEF UsageRecord
    <3>2. CASE ~inFlush
      <4>1. Fields(usage', usage.credits, usage.pending)
        BY <1>12, <3>2, <1>n, UsageLemma DEF Fails
      <4>2. Cardinality(Owing') \in Nat /\ Cardinality(Owing') <= Cardinality(Owing)
        BY <1>12, <1>t, OverLemma, OwingShrinks
      <4> QED BY <4>1, <4>2, <1>n, SMTT(30)
    <3> QED BY <3>1, <3>2
  <2>2. RunType' /\ Cardinality(Owing') \in Nat
    BY <1>12, <1>10
  <2>3. /\ unwritten' \in BOOLEAN /\ stored' \in Nat /\ stored' <= usage'.credits
        /\ stored' # usage'.credits => unwritten'
    <3>1. CASE stored' = usage'.credits /\ unwritten' = FALSE
      <4>1. usage'.credits \in Nat
        BY <2>1 DEF Fields
      <4>2. stored' \in Nat /\ stored' <= usage'.credits
        BY <3>1, <4>1
      <4>3. unwritten' \in BOOLEAN
        BY <3>1
      <4>4. stored' # usage'.credits => unwritten'
        BY <3>1
      <4> QED BY <4>2, <4>3, <4>4
    <3>2. CASE unwritten' = TRUE /\ UNCHANGED stored
      BY <3>2, <2>1, <1>n DEF Fields
    <3> QED BY <3>1, <3>2, <1>12
  <2> QED BY <2>1, <2>2, <2>3, <1>12, <1>n, CreditsClose DEF Fields
<1>13. ASSUME NEW r \in Runs, NEW inFlush \in BOOLEAN, Catch(r, inFlush) \/ CatchThrows(r, inFlush)
       PROVE  CreditsInv'
  BY <1>13, <1>12 DEF Catch, CatchThrows, history
<1>14. CASE Tick \/ Reset
  BY <1>14, <1>t, <1>1 DEF Tick, Reset, history, RunType, Owing, Owes, Credit, Cost
<1>15. CASE CooldownEnds
  <2>1. RunType' /\ Owing' = Owing
    BY <1>15, <1>t DEF CooldownEnds, RunType, Owing, Owes, Credit, Cost
  <2>2. Fields(usage', usage.credits, usage.pending)
    BY <1>15, <1>n DEF CooldownEnds, Fields, UsageRecord
  <2>3. UNCHANGED <<stored, unwritten, billed>>
    BY <1>15 DEF CooldownEnds, history
  <2> QED BY <2>1, <2>2, <2>3, <1>n, CreditsClose DEF Fields
<1>16. CASE Midnight
  <2>1. RunType' /\ Owing' = Owing
    BY <1>16, <1>t DEF Midnight, RunType, Owing, Owes, Credit, Cost
  <2>2. Fields(usage', 0, usage.pending)
    BY <1>16, <1>n DEF Midnight, Fields, UsageRecord
  <2>3. stored' = 0 /\ billed' = 0 /\ UNCHANGED unwritten
    BY <1>16 DEF Midnight
  <2>4. Cardinality(Owing') <= DailyLimit + Margin
    BY <2>1, OwingFinite, MarginLemma, LimitsAssumption
  <2> QED BY <2>1, <2>2, <2>3, <2>4, <1>n, CreditsClose DEF Fields
<1>17. CASE Restart
  <2>1. RunType' /\ Owing' \subseteq Owing
    BY <1>17, <1>t DEF Restart, Idle, RunType, Owing, Owes, Credit
  <2>2. Cardinality(Owing') \in Nat /\ Cardinality(Owing') <= Cardinality(Owing)
    BY <2>1, OwingShrinks
  <2>3. Fields(usage', stored, FALSE)
    BY <1>17, <1>n DEF Restart, Fields, UsageRecord
  <2>4. unwritten' = FALSE /\ UNCHANGED <<stored, billed>>
    BY <1>17 DEF Restart, history
  <2>5. stored' = usage'.credits /\ unwritten' \in BOOLEAN /\ stored' \in Nat
    BY <2>3, <2>4, <1>n DEF Fields
  <2> QED BY <2>1, <2>2, <2>3, <2>4, <2>5, <1>n, CreditsClose DEF Fields
<1>18. CASE UNCHANGED vars
  BY <1>18, <1>t, <1>1 DEF vars, history, RunType, Owing, Owes, Credit, Cost
<1> QED
  BY <1>3, <1>4, <1>5, <1>6, <1>7, <1>8, <1>9, <1>11, <1>13, <1>14, <1>15, <1>16, <1>17, <1>18
  DEF Next, Reply, Challenge

\* The limit of the day is passed by the credits of a long message for each run under
\* way but one, and by one for each turn of a rivalry, whatever the numbers.
THEOREM SpecOvershootBounded == Spec => []OvershootBounded
<1>1. CreditsInv => OvershootBounded
  BY OwingFinite, MarginLemma, LimitsAssumption
     DEF CreditsInv, UsageType, UsageRecord, Room, Margin, OvershootBounded
<1> QED BY <1>1, InitCredits, StepCredits, PTL DEF Spec

\* A credit that usage-data.json lacks is pending, unless the last write failed.
THEOREM SpecUsageStored == Spec => []UsageStored
<1>1. CreditsInv => UsageStored
  BY DEF CreditsInv
<1> QED BY <1>1, InitCredits, StepCredits, PTL DEF Spec

-----------------------------------------------------------------------------
\* A claim of a claimable row keeps the invariant: the message is not among
\* those that are handled or settled.
LEMMA ClaimLemma ==
  ASSUME LeaseInv, NEW m \in Messages, Claims(m), RunType'
  PROVE  LeaseInv'
<1>1. m \notin current
  BY DEF LeaseInv, Claims, Claimable, Row, Settled
<1>2. again' = {}
  BY <1>1 DEF LeaseInv, Claims
<1>3. Claimed(rows[m]) \in Row /\ Claimed(rows[m]).lease > 0
      /\ Claimed(rows[m]).state = "PROCESSING"
  BY LimitsAssumption DEF Claimed, Row
<1> QED BY <1>2, <1>3 DEF LeaseInv, Claims

\* So does settling a message, whichever run does it.
LEMMA CompleteLemma ==
  ASSUME LeaseInv, NEW m \in Messages, NEW state \in Settled, Complete(m, state),
         UNCHANGED again, RunType'
  PROVE  LeaseInv'
<1>1. [state |-> state, lease |-> 0] \in Row
  BY LimitsAssumption DEF Row
<1> QED BY <1>1 DEF LeaseInv, Complete

\* No row, nothing handled.
LEMMA InitLease == Init => LeaseInv
BY LimitsAssumption DEF Init, Idle, RunType, LeaseInv, Row

\* Every step keeps what is handled or settled unclaimable.
LEMMA StepLease == LeaseInv /\ [Next]_vars => LeaseInv'
<1> SUFFICES ASSUME LeaseInv, [Next]_vars PROVE LeaseInv'
  OBVIOUS
<1>t. RunType /\ rows \in [Messages -> Row] /\ current \subseteq Messages
  BY DEF LeaseInv
<1>1. ASSUME UNCHANGED <<rows, current, again>>, RunType'
      PROVE  LeaseInv'
  BY <1>1 DEF LeaseInv
<1>2. CASE \E m \in Messages : Defer(m) \/ Ignore(m)
  BY <1>2, <1>t, ClaimLemma DEF Defer, Ignore, RunType
<1>3. ASSUME NEW r \in Runs, NEW m \in Messages, Accept(r, m) \/ AcceptOpponent(r, m)
      PROVE  LeaseInv'
  BY <1>3, <1>t, ClaimLemma, BeginLemma DEF Accept, AcceptOpponent
<1>4. ASSUME NEW r \in Runs, Otherwise(r) \/ LimitReached(r)
      PROVE  LeaseInv'
  BY <1>4, <1>t, <1>1, OverLemma DEF Otherwise, LimitReached, history
<1>5. ASSUME NEW r \in Runs, Ask(r) \/ AskAfterIdle(r)
      PROVE  LeaseInv'
  <2>1. run[r].at # "idle" /\ run' = [run EXCEPT ![r].at = "generate"]
    BY <1>5 DEF Ask, AskAfterIdle, At
  <2>2. RunType'
    BY <2>1, <1>t, MoveLemma
  <2> QED BY <1>5, <1>1, <2>2 DEF Ask, AskAfterIdle, history
<1>6. ASSUME NEW r \in Runs, NEW place \in {"challenge", "fallback"}, AskChallenge(r, place)
      PROVE  LeaseInv'
  <2>1. run[r].at # "idle" /\ run' = [run EXCEPT ![r].at = place]
    BY <1>6 DEF AskChallenge, At
  <2>2. RunType'
    BY <2>1, <1>t, MoveLemma
  <2> QED BY <1>6, <1>1, <2>2 DEF AskChallenge, history
<1>7. ASSUME NEW r \in Runs, Answer(r)
      PROVE  LeaseInv'
  BY <1>7, <1>t, <1>1, MoveLemma DEF Answer, At, history
<1>8. ASSUME NEW r \in Runs, AnswerOpponent(r)
      PROVE  LeaseInv'
  BY <1>8, <1>t, <1>1, OverLemma DEF AnswerOpponent
<1>9. ASSUME NEW r \in Runs, Reply(r)
      PROVE  LeaseInv'
  <2>1. RunType' /\ run[r].msg \in Messages
    BY <1>9, <1>t, OverLemma DEF Reply, Flush, At, RunType
  <2> QED BY <1>9, <2>1, CompleteLemma DEF Reply, Flush, Settled
<1>10. ASSUME NEW r \in Runs, Challenge(r)
       PROVE  LeaseInv'
  BY <1>10, <1>t, <1>1, OverLemma DEF Challenge, Flush
<1>11. ASSUME NEW r \in Runs, NEW inFlush \in BOOLEAN, Catch(r, inFlush)
       PROVE  LeaseInv'
  <2>1. run[r].at # "idle"
    BY <1>11 DEF Catch, Fails, Sent
  <2>2. RunType' /\ run[r].msg \in Messages
    BY <1>11, <2>1, <1>t, OverLemma DEF Catch, RunType
  <2> QED BY <1>11, <2>2, CompleteLemma DEF Catch, Settled
<1>12. ASSUME NEW r \in Runs, NEW inFlush \in BOOLEAN, CatchThrows(r, inFlush)
       PROVE  LeaseInv'
  BY <1>12, <1>t, <1>1, OverLemma DEF CatchThrows, history
<1>13. CASE Tick
  <2>1. RunType' /\ again' = {}
    BY <1>13, <1>t DEF Tick, RunType, LeaseInv
  <2>2. \A m \in Messages :
          /\ rows'[m] \in Row /\ rows'[m].state = rows[m].state
          /\ rows'[m].lease = IF rows[m].lease = 0 THEN 0 ELSE rows[m].lease - 1
    BY <1>13, <1>t, LimitsAssumption DEF Tick, Row
  <2>3. \A m \in Messages : rows[m].lease \in Nat
    BY <1>t, LimitsAssumption DEF Row
  <2>4. current' = current \ {m \in Messages : rows[m].lease = 1} /\ rows' \in [Messages -> Row]
    BY <1>13, <2>2 DEF Tick
  <2> QED BY <2>1, <2>2, <2>3, <2>4 DEF LeaseInv
<1>14. CASE CooldownEnds \/ Midnight \/ Reset
  BY <1>14, <1>t, <1>1 DEF CooldownEnds, Midnight, Reset, history, RunType
<1>15. CASE Restart
  BY <1>15, <1>t, <1>1 DEF Restart, Idle, history, RunType
<1>16. CASE UNCHANGED vars
  BY <1>16, <1>t, <1>1 DEF vars, history, RunType
<1> QED
  BY <1>2, <1>3, <1>4, <1>5, <1>6, <1>7, <1>8, <1>9, <1>10, <1>11, <1>12, <1>13, <1>14, <1>15, <1>16
  DEF Next

\* No message is handled twice in a lease, nor once more when it is settled,
\* however often it is delivered and whatever crashes.
THEOREM SpecOneHandlingPerLease == Spec => []OneHandlingPerLease
<1>1. LeaseInv => OneHandlingPerLease
  BY DEF LeaseInv, OneHandlingPerLease
<1> QED BY <1>1, InitLease, StepLease, PTL DEF Spec
=============================================================================
