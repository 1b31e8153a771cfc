------------------------- MODULE ConversationProofs -------------------------
(***************************************************************************)
(* For any limits, messages and runs: the types of MessageIntake, and the  *)
(* recent turns of a conversation are a dialogue, in memory and in the     *)
(* database.                                                               *)
(*                                                                         *)
(* What is inductive is more than the pairing: the system turns of a       *)
(* conversation are its first turns.  Compression puts them there, what is *)
(* cut off is cut off in front, and what is added is not a system turn.    *)
(* Without it, a filter by role could take a pair apart.                   *)
(***************************************************************************)
EXTENDS MessageIntakeProofs, SequenceTheorems

\* The recent turns of any conversation c; RecentTurnsPaired is about chat.
PairedIn(c) ==
  \A i \in DOMAIN c :
    i > 1 /\ i > Len(c) - KeepRecent + 1 /\ c[i].role = "assistant"
      => c[i - 1] = [role |-> "user", msg |-> c[i].msg]

\* Of the turns of c, exactly the first k are system turns.
SystemsEnd(c, k) == \A i \in DOMAIN c : c[i].role = "system" <=> i <= k

Conversation(c) ==
  /\ c \in Seq(Turn) /\ Len(c) <= MaxContext
  /\ \E k \in 0..Len(c) : SystemsEnd(c, k)
  /\ PairedIn(c)

ChatInv == Conversation(chat) /\ Conversation(chatFile)

-----------------------------------------------------------------------------
(***************************************************************************)
(* Selected, a filter, without induction: the number of members of I below *)
(* a member of I is another for each, so each number below |I| is taken.   *)
(***************************************************************************)

\* Places are finitely many.
LEMMA PlacesFinite ==
  ASSUME NEW m \in Nat, NEW I \in SUBSET (1..m)
  PROVE  IsFiniteSet(I) /\ Cardinality(I) \in Nat
<1>1. IsFiniteSet(1..m)
  BY FS_Interval
<1> QED BY <1>1, FS_Subset, FS_CardinalityType

\* The n-th place of a finite set of places exists.
LEMMA PlaceExists ==
  ASSUME NEW m \in Nat, NEW I \in SUBSET (1..m), NEW n \in 1..Cardinality(I)
  PROVE  \E i \in I : Cardinality({j \in I : j < i}) = n - 1
<1> DEFINE Below(i) == {j \in I : j < i}
           rank     == [i \in I |-> Cardinality(Below(i)) + 1]
<1>1. IsFiniteSet(I) /\ Cardinality(I) \in Nat
  BY PlacesFinite
<1>i. \A i \in I : i \in Int
  OBVIOUS
<1>2. ASSUME NEW i \in I
      PROVE  /\ IsFiniteSet(Below(i)) /\ Cardinality(Below(i)) \in Nat
             /\ Cardinality(Below(i)) < Cardinality(I)
  <2>1. Below(i) \in SUBSET I /\ i \notin Below(i)
    OBVIOUS
  <2>2. Below(i) # I
    BY <2>1
  <2> QED BY <1>1, <2>1, <2>2, FS_Subset, FS_CardinalityType
<1>3. ASSUME NEW i \in I, NEW j \in I, i < j
      PROVE  Cardinality(Below(i)) < Cardinality(Below(j))
  <2>1. i \in Below(j) /\ i \notin Below(i)
    BY <1>i, <1>3
  <2>3. \A x \in I : x < i => x < j
    BY <1>i, <1>3
  <2>4. Below(i) \in SUBSET Below(j)
    BY <2>3
  <2>2. Below(i) # Below(j)
    BY <2>1
  <2> QED BY <1>2, <2>2, <2>4, FS_Subset
<1>4. rank \in [I -> 1..Cardinality(I)]
  BY <1>1, <1>2
<1>5. ASSUME NEW i \in I, NEW j \in I, rank[i] = rank[j]
      PROVE  i = j
  <2>1. Cardinality(Below(i)) = Cardinality(Below(j))
    BY <1>2, <1>5
  <2> QED BY <1>2, <1>3, <2>1
<1>6. rank \in Injection(I, 1..Cardinality(I))
  BY <1>4, <1>5 DEF Injection, IsInjective
<1>7. Cardinality(1..Cardinality(I)) = Cardinality(I) /\ IsFiniteSet(1..Cardinality(I))
  BY <1>1, FS_Interval
<1>8. rank \in Surjection(I, 1..Cardinality(I))
  BY <1>6, <1>7, FS_Injection
<1>9. PICK i \in I : rank[i] = n
  BY <1>8 DEF Surjection
<1> QED BY <1>2, <1>9

\* A selection is a sequence of as many turns as there are places, each of them
\* the turn at one of the places.
LEMMA SelectedType ==
  ASSUME NEW turns \in Seq(Turn), NEW I \in SUBSET (1..Len(turns))
  PROVE  /\ IsFiniteSet(I) /\ Cardinality(I) \in Nat
         /\ Selected(turns, I) \in Seq(Turn)
         /\ Len(Selected(turns, I)) = Cardinality(I)
         /\ \A n \in 1..Cardinality(I) : \E i \in I : Selected(turns, I)[n] = turns[i]
<1> DEFINE Place(n) == CHOOSE i \in I : Cardinality({j \in I : j < i}) = n - 1
<1>n. Len(turns) \in Nat
  BY LenProperties
<1>1. IsFiniteSet(I) /\ Cardinality(I) \in Nat
  BY <1>n, PlacesFinite
<1>2. ASSUME NEW n \in 1..Cardinality(I)
      PROVE  Place(n) \in I
  <2>1. \E i \in I : Cardinality({j \in I : j < i}) = n - 1
    BY <1>n, PlaceExists
  <2> QED BY <2>1
<1>3. Selected(turns, I) = [n \in 1..Cardinality(I) |-> turns[Place(n)]]
  BY DEF Selected
<1> HIDE DEF Place
<1>4. \A n \in 1..Cardinality(I) : turns[Place(n)] \in Turn
  BY <1>2, ElementOfSeq
<1>5. Selected(turns, I) \in Seq(Turn) /\ Len(Selected(turns, I)) = Cardinality(I)
  BY <1>1, <1>3, <1>4
<1> QED BY <1>1, <1>2, <1>3, <1>5

\* To select an interval is to take that part of the conversation.
LEMMA SelectedInterval ==
  ASSUME NEW turns \in Seq(Turn), NEW a \in Nat, NEW b \in Nat, a <= b, b <= Len(turns)
  PROVE  /\ Selected(turns, (a + 1)..b) \in Seq(Turn)
         /\ Len(Selected(turns, (a + 1)..b)) = b - a
         /\ \A n \in 1..(b - a) : Selected(turns, (a + 1)..b)[n] = turns[a + n]
<1> DEFINE I == (a + 1)..b
           Place(n) == CHOOSE i \in I : Cardinality({j \in I : j < i}) = n - 1
<1>n. Len(turns) \in Nat /\ a + 1 \in Int /\ b \in Int
  BY LenProperties
<1>1. I \in SUBSET (1..Len(turns)) /\ Cardinality(I) = b - a
  <2>1. Cardinality(I) = IF a + 1 > b THEN 0 ELSE b - (a + 1) + 1
    BY <1>n, FS_Interval
  <2> QED BY <1>n, <2>1
<1>2. ASSUME NEW i \in I
      PROVE  Cardinality({j \in I : j < i}) = i - a - 1
  <2>1. {j \in I : j < i} = (a + 1)..(i - 1)
    OBVIOUS
  <2>2. i - 1 \in Int /\ a + 1 <= i
    OBVIOUS
  <2>3. Cardinality((a + 1)..(i - 1)) = IF a + 1 > i - 1 THEN 0 ELSE (i - 1) - (a + 1) + 1
    BY <1>n, <2>2, FS_Interval
  <2>4. Cardinality((a + 1)..(i - 1)) = i - a - 1
    BY <2>2, <2>3
  <2> QED BY <2>1, <2>4
<1>3. ASSUME NEW n \in 1..(b - a)
      PROVE  Place(n) = a + n
  <2>1. \E i \in I : Cardinality({j \in I : j < i}) = n - 1
    <3>1. n \in 1..Cardinality(I)
      BY <1>1
    <3> HIDE DEF I
    <3> QED BY <1>n, <1>1, <3>1, PlaceExists
  <2>2. Place(n) \in I /\ Cardinality({j \in I : j < Place(n)}) = n - 1
    BY <2>1
  <2> HIDE DEF Place
  <2>3. Place(n) - a - 1 = n - 1
    BY <1>2, <2>2
  <2> QED BY <2>2, <2>3
<1>4. Selected(turns, I) = [n \in 1..(b - a) |-> turns[Place(n)]]
  BY <1>1 DEF Selected
<1> HIDE DEF Place
<1>5. \A n \in 1..(b - a) : Selected(turns, I)[n] = turns[a + n]
  BY <1>3, <1>4
<1> QED BY <1>1, <1>5, SelectedType

\* What is latest are the last n turns.
LEMMA LatestType ==
  ASSUME NEW turns \in Seq(Turn), NEW n \in 0..Len(turns)
  PROVE  /\ Latest(turns, n) \in Seq(Turn)
         /\ Len(Latest(turns, n)) = n
         /\ \A i \in 1..n : Latest(turns, n)[i] = turns[Len(turns) - n + i]
<1>1. \A i \in (Len(turns) - n + 1)..Len(turns) : turns[i] \in Turn
  BY ElementOfSeq
<1> QED BY <1>1, SubSeqProperties DEF Latest
-----------------------------------------------------------------------------
(***************************************************************************)
(* What the operations on a conversation keep                              *)
(***************************************************************************)

\* A conversation without turns.
LEMMA EmptyConversation == Conversation(<<>>)
BY LimitsAssumption, EmptySeq DEF Conversation, SystemsEnd, PairedIn

\* A turn of the user, or an answer right after the turn it answers, is added and
\* the first turn cut off when they are too many: pairs are shifted, not parted.
LEMMA AddedConversation ==
  ASSUME NEW c, Conversation(c), NEW t \in Turn, t.role # "system",
         t.role = "assistant" => /\ Len(c) > 0
                                 /\ c[Len(c)] = [role |-> "user", msg |-> t.msg]
  PROVE  LET d == LastTurns(Append(c, t)) IN
         Conversation(d) /\ Len(d) > 0 /\ d[Len(d)] = t
<1> DEFINE e == Append(c, t)
           d == LastTurns(e)
<1> SUFFICES Conversation(d) /\ Len(d) > 0 /\ d[Len(d)] = t
  OBVIOUS
<1>1. c \in Seq(Turn) /\ Len(c) \in Nat /\ Len(c) <= MaxContext /\ DOMAIN c = 1..Len(c)
  BY LenProperties DEF Conversation
<1>2. /\ e \in Seq(Turn) /\ Len(e) = Len(c) + 1 /\ DOMAIN e = 1..Len(e)
      /\ \A i \in 1..Len(c) : e[i] = c[i]
      /\ e[Len(e)] = t
  BY <1>1, AppendProperties
<1> HIDE DEF e
<1>n. MaxContext \in Nat /\ MaxContext > 1 /\ KeepRecent \in Nat
  BY LimitsAssumption, CompressionAssumption
<1>3. PICK k \in 0..Len(c) : SystemsEnd(c, k)
  BY DEF Conversation
<1>4. SystemsEnd(e, k)
  <2>1. \A i \in 1..Len(c) : e[i].role = "system" <=> i <= k
    BY <1>1, <1>2, <1>3 DEF SystemsEnd
  <2>2. e[Len(e)].role # "system" /\ ~(Len(e) <= k)
    BY <1>1, <1>2
  <2> QED BY <1>1, <1>2, <2>1, <2>2 DEF SystemsEnd
<1>5. PairedIn(e)
  <2> SUFFICES ASSUME NEW i \in 1..Len(e), i > 1, i > Len(e) - KeepRecent + 1,
                      e[i].role = "assistant"
               PROVE  e[i - 1] = [role |-> "user", msg |-> e[i].msg]
    BY <1>2 DEF PairedIn
  <2>1. CASE i = Len(e)
    BY <1>1, <1>2, <2>1
  <2>2. CASE i # Len(e)
    <3>1. i \in 1..Len(c) /\ i - 1 \in 1..Len(c) /\ i > Len(c) - KeepRecent + 1
      BY <1>1, <1>2, <1>n, <2>2
    <3>2. c[i - 1] = [role |-> "user", msg |-> c[i].msg]
      BY <1>1, <1>2, <3>1 DEF Conversation, PairedIn
    <3> QED BY <1>2, <3>1, <3>2
  <2> QED BY <2>1, <2>2
<1>6. CASE Len(e) <= MaxContext
  <2>1. d = e
    BY <1>6 DEF LastTurns
  <2>2. \E l \in 0..Len(e) : SystemsEnd(e, l)
    <3>1. k \in 0..Len(e)
      BY <1>1, <1>2
    <3> QED BY <1>4, <3>1
  <2> QED BY <1>1, <1>2, <1>5, <1>6, <2>1, <2>2 DEF Conversation
<1>7. CASE ~(Len(e) <= MaxContext)
  <2>1. d = Latest(e, MaxContext) /\ Len(e) = MaxContext + 1 /\ MaxContext \in 0..Len(e)
    BY <1>1, <1>2, <1>7, <1>n DEF LastTurns
  <2>2. d \in Seq(Turn) /\ Len(d) = MaxContext /\ \A i \in 1..MaxContext : d[i] = e[i + 1]
    <3> HIDE DEF d
    <3>1. /\ d \in Seq(Turn) /\ Len(d) = MaxContext
          /\ \A i \in 1..MaxContext : d[i] = e[Len(e) - MaxContext + i]
      BY <1>2, <2>1, LatestType
    <3>2. \A i \in 1..MaxContext : Len(e) - MaxContext + i = i + 1
      BY <2>1, <1>n
    <3> QED BY <3>1, <3>2
  <2>3. DOMAIN d = 1..MaxContext
    BY <2>2, LenProperties
  <2> HIDE DEF d
  <2>4. \E l \in 0..Len(d) : SystemsEnd(d, l)
    <3> DEFINE l == IF k = 0 THEN 0 ELSE k - 1
    <3>1. l \in 0..Len(d)
      BY <1>1, <1>2, <2>1, <2>2
    <3>2. \A i \in 1..MaxContext : d[i].role = "system" <=> i + 1 <= k
      <4>1. \A i \in 1..MaxContext : i + 1 \in DOMAIN e
        BY <1>2, <2>1, <1>n
      <4> QED BY <1>4, <2>2, <4>1 DEF SystemsEnd
    <3>3. \A i \in 1..MaxContext : i + 1 <= k <=> i <= l
      BY <1>n
    <3>4. SystemsEnd(d, l)
      BY <2>3, <3>2, <3>3 DEF SystemsEnd
    <3> QED BY <3>1, <3>4
  <2>5. PairedIn(d)
    <3> SUFFICES ASSUME NEW i \in 1..MaxContext, i > 1, i > MaxContext - KeepRecent + 1,
                        d[i].role = "assistant"
                 PROVE  d[i - 1] = [role |-> "user", msg |-> d[i].msg]
      BY <2>2, <2>3 DEF PairedIn
    <3>1. d[i] = e[i + 1] /\ d[i - 1] = e[i] /\ i + 1 \in 1..Len(e) /\ (i + 1) - 1 = i
      BY <2>1, <2>2, <1>n
    <3>2. i + 1 > Len(e) - KeepRecent + 1
      BY <2>1, <1>n
    <3>3. i + 1 \in DOMAIN e /\ i + 1 > 1 /\ e[i + 1].role = "assistant"
      BY <1>2, <3>1
    <3>4. e[(i + 1) - 1] = [role |-> "user", msg |-> e[i + 1].msg]
      BY <1>5, <3>2, <3>3 DEF PairedIn
    <3> QED BY <3>1, <3>4
  <2>6. d[Len(d)] = t
    BY <1>2, <2>1, <2>2, <1>n
  <2> QED BY <1>n, <2>2, <2>4, <2>5, <2>6 DEF Conversation
<1> QED BY <1>6, <1>7 DEF e

\* An exchange of a turn of the user and its answer.
LEMMA ExchangedConversation ==
  ASSUME Conversation(chat), NEW m \in Messages
  PROVE  Conversation(Exchanged(m))
<1> DEFINE u == [role |-> "user", msg |-> m]
           a == [role |-> "assistant", msg |-> m]
           d == LastTurns(Append(chat, u))
<1>1. u \in Turn /\ u.role = "user" /\ a \in Turn /\ a.role = "assistant" /\ a.msg = m
  BY DEF Turn
<1>2. Conversation(d) /\ Len(d) > 0 /\ d[Len(d)] = u
  BY <1>1, AddedConversation
<1>3. Conversation(LastTurns(Append(d, a)))
  <2> HIDE DEF d, a
  <2> QED BY <1>1, <1>2, AddedConversation
<1> QED BY <1>3 DEF Exchanged, Added

\* A summary takes the place of at least one old turn, behind the system turns;
\* the recent turns are the last of the conversation, and stay together.
LEMMA CompressedConversation ==
  ASSUME NEW c, Conversation(c), NEW d \in Compressions(c)
  PROVE  Conversation(d)
<1>1. c \in Seq(Turn) /\ Len(c) \in Nat /\ Len(c) <= MaxContext /\ DOMAIN c = 1..Len(c)
  BY LenProperties DEF Conversation
<1>n. KeepRecent \in Nat /\ KeepRecent > 0
  BY CompressionAssumption
<1>2. PICK k \in 0..Len(c) : SystemsEnd(c, k)
  BY DEF Conversation
<1> DEFINE sy == Systems(c)
           sp == Spoken(c)
           o  == Len(sp) - KeepRecent
<1>3. sy \in Seq(Turn) /\ Len(sy) = k /\ \A n \in 1..k : sy[n] = c[n]
  <2>1. {i \in DOMAIN c : c[i].role = "system"} = (0 + 1)..k
    BY <1>1, <1>2 DEF SystemsEnd
  <2>2. sy = Selected(c, (0 + 1)..k)
    BY <2>1, ZenonT(30) DEF Systems
  <2> HIDE DEF sy
  <2>3. 0 \in Nat /\ k \in Nat /\ 0 <= k /\ k <= Len(c)
    BY <1>1
  <2>4. /\ sy \in Seq(Turn) /\ Len(sy) = k - 0
        /\ \A n \in 1..(k - 0) : sy[n] = c[0 + n]
    BY <1>1, <2>2, <2>3, SelectedInterval
  <2> QED BY <2>4
<1>4. sp \in Seq(Turn) /\ Len(sp) = Len(c) - k /\ \A n \in 1..(Len(c) - k) : sp[n] = c[k + n]
  <2>1. {i \in DOMAIN c : c[i].role # "system"} = (k + 1)..Len(c)
    BY <1>1, <1>2 DEF SystemsEnd
  <2>2. sp = Selected(c, (k + 1)..Len(c))
    BY <2>1, ZenonT(30) DEF Spoken
  <2> HIDE DEF sp
  <2>3. k \in Nat /\ k <= Len(c) /\ Len(c) <= Len(c)
    BY <1>1
  <2>4. /\ Selected(c, (k + 1)..Len(c)) \in Seq(Turn)
        /\ Len(Selected(c, (k + 1)..Len(c))) = Len(c) - k
        /\ \A n \in 1..(Len(c) - k) : Selected(c, (k + 1)..Len(c))[n] = c[k + n]
    BY <1>1, <2>3, SelectedInterval, ZenonT(30)
  <2> QED BY <2>2, <2>4
<1>5. PICK kept \in SUBSET (1..o) :
        /\ kept # 1..o
        /\ d = sy \o <<Summary>> \o Selected(sp, kept) \o Latest(sp, KeepRecent)
  BY DEF Compressions
<1> DEFINE ke == Selected(sp, kept)
           re == Latest(sp, KeepRecent)
           q  == Len(ke)
<1>a. d = ((sy \o <<Summary>>) \o ke) \o re
  BY <1>5
<1> HIDE DEF sy, sp
<1>6. o \in Nat /\ o > 0 /\ Len(sp) \in Nat
  <2>1. Len(sp) \in Nat /\ o \in Int
    BY <1>1, <1>n, <1>4
  <2>2. 1..o # {}
    BY <1>5
  <2> HIDE DEF o
  <2>3. o > 0
    BY <2>1, <2>2
  <2> QED BY <2>1, <2>3
<1>7. /\ ke \in Seq(Turn) /\ q \in Nat /\ q < o
      /\ \A n \in 1..q : \E i \in 1..o : ke[n] = sp[i]
  <2>1. kept \in SUBSET (1..Len(sp))
    BY <1>6, <1>n
  <2>2. /\ IsFiniteSet(kept) /\ Cardinality(kept) \in Nat
        /\ ke \in Seq(Turn) /\ q = Cardinality(kept)
        /\ \A n \in 1..Cardinality(kept) : \E i \in kept : ke[n] = sp[i]
    BY <1>4, <2>1, SelectedType
  <2>3. IsFiniteSet(1..o) /\ Cardinality(1..o) = o
    BY <1>6, FS_Interval
  <2>4. Cardinality(kept) < o
    <3> HIDE DEF o
    <3>1. /\ Cardinality(kept) <= Cardinality(1..o)
          /\ Cardinality(1..o) = Cardinality(kept) => 1..o = kept
      BY <2>3, FS_Subset
    <3> QED BY <1>5, <1>6, <2>2, <2>3, <3>1
  <2> QED BY <2>2, <2>4
<1>8. re \in Seq(Turn) /\ Len(re) = KeepRecent /\ \A i \in 1..KeepRecent : re[i] = sp[o + i]
  <2>1. KeepRecent \in 0..Len(sp) /\ o = Len(sp) - KeepRecent
    BY <1>6, <1>n
  <2> HIDE DEF o
  <2>2. /\ re \in Seq(Turn) /\ Len(re) = KeepRecent
        /\ \A i \in 1..KeepRecent : re[i] = sp[Len(sp) - KeepRecent + i]
    BY <1>4, <2>1, LatestType
  <2> QED BY <2>1, <2>2
<1> HIDE DEF ke, re, o, q
<1>9. <<Summary>> \in Seq(Turn) /\ Len(<<Summary>>) = 1 /\ <<Summary>>[1].role = "system"
  BY DEF Summary, Turn
<1>10. /\ d \in Seq(Turn)
       /\ Len(d) = k + 1 + q + KeepRecent
       /\ \A i \in 1..k : d[i] = sy[i]
       /\ d[k + 1].role = "system"
       /\ \A i \in 1..q : d[k + 1 + i] = ke[i]
       /\ \A i \in 1..KeepRecent : d[k + 1 + q + i] = re[i]
  <2> DEFINE x == sy \o <<Summary>>
             y == x \o ke
  <2>1. /\ x \in Seq(Turn) /\ Len(x) = k + 1
        /\ \A i \in 1..k : x[i] = sy[i]
        /\ x[k + 1].role = "system"
    BY <1>3, <1>9, ConcatProperties
  <2> HIDE DEF x
  <2>2. /\ y \in Seq(Turn) /\ Len(y) = k + 1 + q
        /\ \A i \in 1..(k + 1) : y[i] = x[i]
        /\ \A i \in 1..q : y[k + 1 + i] = ke[i]
    <3>1. /\ y \in Seq(Turn) /\ Len(y) = Len(x) + Len(ke)
          /\ \A i \in 1..(Len(x) + Len(ke)) :
                y[i] = IF i <= Len(x) THEN x[i] ELSE ke[i - Len(x)]
      BY <1>7, <2>1, ConcatProperties
    <3>2. Len(x) = k + 1 /\ Len(ke) = q /\ q \in Nat
      BY <1>7, <2>1 DEF q
    <3> HIDE DEF y
    <3>3. \A i \in 1..(k + 1) : y[i] = x[i]
      BY <3>1, <3>2
    <3>4. ASSUME NEW i \in 1..q PROVE y[k + 1 + i] = ke[i]
      <4>1. /\ k + 1 + i \in 1..(Len(x) + Len(ke)) /\ ~(k + 1 + i <= Len(x))
            /\ (k + 1 + i) - Len(x) = i
        BY <3>2
      <4> QED BY <3>1, <4>1
    <3> QED BY <3>1, <3>2, <3>3, <3>4
  <2>3. d = y \o re
    BY <1>a DEF x
  <2> HIDE DEF y
  <2>4. /\ d \in Seq(Turn) /\ Len(d) = k + 1 + q + KeepRecent
        /\ \A i \in 1..(k + 1 + q) : d[i] = y[i]
        /\ \A i \in 1..KeepRecent : d[k + 1 + q + i] = re[i]
    <3>1. /\ d \in Seq(Turn) /\ Len(d) = Len(y) + Len(re)
          /\ \A i \in 1..(Len(y) + Len(re)) :
                d[i] = IF i <= Len(y) THEN y[i] ELSE re[i - Len(y)]
      BY <1>8, <2>2, <2>3, ConcatProperties
    <3>2. Len(y) = k + 1 + q /\ Len(re) = KeepRecent /\ k + 1 + q \in Nat
      BY <1>7, <1>8, <2>2
    <3>3. \A i \in 1..(k + 1 + q) : d[i] = y[i]
      BY <3>1, <3>2, <1>n
    <3>4. ASSUME NEW i \in 1..KeepRecent PROVE d[k + 1 + q + i] = re[i]
      <4>1. /\ k + 1 + q + i \in 1..(Len(y) + Len(re)) /\ ~(k + 1 + q + i <= Len(y))
            /\ (k + 1 + q + i) - Len(y) = i
        BY <3>2, <1>n
      <4> QED BY <3>1, <4>1
    <3> QED BY <3>1, <3>2, <3>3, <3>4
  <2> QED BY <1>7, <2>1, <2>2, <2>4, SMTT(30)
<1>11. DOMAIN d = 1..Len(d) /\ Len(d) \in Nat /\ Len(d) <= Len(c)
  BY <1>1, <1>4, <1>7, <1>10, <1>n, LenProperties DEF o
<1>12. ASSUME NEW n \in 1..Len(sp) PROVE sp[n].role # "system"
  <2>1. k + n \in DOMAIN c /\ ~(k + n <= k) /\ sp[n] = c[k + n]
    BY <1>1, <1>4
  <2> QED BY <1>2, <2>1 DEF SystemsEnd
<1>13. SystemsEnd(d, k + 1) /\ k + 1 \in 0..Len(d)
  <2> SUFFICES ASSUME NEW i \in 1..Len(d)
               PROVE  d[i].role = "system" <=> i <= k + 1
    BY <1>7, <1>10, <1>11, <1>n DEF SystemsEnd
  <2>1. CASE i <= k
    BY <1>1, <1>2, <1>3, <1>10, <2>1 DEF SystemsEnd
  <2>2. CASE i = k + 1
    BY <1>10, <2>2
  <2>3. CASE i > k + 1 /\ i <= k + 1 + q
    <3> DEFINE n == i - (k + 1)
    <3>1. n \in 1..q /\ i = k + 1 + n
      BY <1>7, <2>3
    <3> HIDE DEF n
    <3>2. PICK j \in 1..o : d[i] = sp[j]
      BY <1>7, <1>10, <3>1
    <3>3. j \in 1..Len(sp)
      BY <1>6, <1>n, <3>2 DEF o
    <3> QED BY <1>12, <2>3, <3>2, <3>3
  <2>4. CASE i > k + 1 + q
    <3> DEFINE n == i - (k + 1 + q)
    <3>1. n \in 1..KeepRecent /\ i = k + 1 + q + n
      BY <1>7, <1>10, <1>n, <2>4
    <3> HIDE DEF n
    <3>2. d[i] = sp[o + n] /\ o + n \in 1..Len(sp)
      BY <1>6, <1>8, <1>10, <1>n, <3>1 DEF o
    <3> QED BY <1>7, <1>12, <2>4, <3>2
  <2> QED BY <1>7, <2>1, <2>2, <2>3, <2>4
<1>14. PairedIn(d)
  <2> SUFFICES ASSUME NEW i \in 1..Len(d), i > 1, i > Len(d) - KeepRecent + 1,
                      d[i].role = "assistant"
               PROVE  d[i - 1] = [role |-> "user", msg |-> d[i].msg]
    BY <1>11 DEF PairedIn
  <2> DEFINE shift == Len(c) - Len(d)
  <2>1. \A n \in (Len(d) - KeepRecent + 1)..Len(d) : d[n] = c[n + shift]
    <3> SUFFICES ASSUME NEW n \in (Len(d) - KeepRecent + 1)..Len(d)
                 PROVE  d[n] = c[n + shift]
      OBVIOUS
    <3> DEFINE p == n - (k + 1 + q)
    <3>1. p \in 1..KeepRecent /\ n = k + 1 + q + p
      BY <1>7, <1>10, <1>n
    <3> HIDE DEF p
    <3>2. d[n] = re[p]
      BY <1>10, <3>1
    <3>3. re[p] = sp[o + p] /\ o + p \in 1..(Len(c) - k)
      <4>1. re[p] = sp[o + p]
        BY <1>8, <3>1
      <4>2. o + p \in 1..(Len(c) - k)
        BY <1>4, <1>6, <1>n, <3>1 DEF o
      <4> QED BY <4>1, <4>2
    <3>4. sp[o + p] = c[k + (o + p)]
      BY <1>4, <3>3
    <3>5. k + (o + p) = n + shift
      BY <1>1, <1>4, <1>7, <1>10, <1>n, <3>1 DEF o
    <3> QED BY <3>2, <3>3, <3>4, <3>5
  <2>2. d[i] = c[i + shift] /\ d[i - 1] = c[(i - 1) + shift]
    <3>1. /\ i \in (Len(d) - KeepRecent + 1)..Len(d)
          /\ i - 1 \in (Len(d) - KeepRecent + 1)..Len(d)
      BY <1>11, <1>n
    <3> HIDE DEF shift
    <3> QED BY <2>1, <3>1
  <2>3. /\ i + shift \in 1..Len(c) /\ i + shift > 1 /\ i + shift > Len(c) - KeepRecent + 1
        /\ (i - 1) + shift = (i + shift) - 1
    BY <1>1, <1>11, <1>n
  <2> HIDE DEF shift
  <2>4. c[(i + shift) - 1] = [role |-> "user", msg |-> c[i + shift].msg]
    BY <1>1, <2>2, <2>3 DEF Conversation, PairedIn
  <2> QED BY <2>2, <2>3, <2>4
<1>15. \E l \in 0..Len(d) : SystemsEnd(d, l)
  BY <1>13
<1>16. Len(d) <= MaxContext
  BY <1>1, <1>11, LimitsAssumption
<1> QED BY <1>10, <1>14, <1>15, <1>16 DEF Conversation
-----------------------------------------------------------------------------
(***************************************************************************)
(* Every step keeps both conversations in order                            *)
(***************************************************************************)

\* What is in memory when a reply is sent is in order, challenge or not.
LEMMA TurnsConversation ==
  ASSUME RunType, ChatInv, NEW r \in Runs, run[r].at # "idle"
  PROVE  Conversation(Turns(r))
<1>1. run[r].msg \in Messages
  BY DEF RunType
<1>2. Conversation(Exchanged(run[r].msg))
  <2> DEFINE m == run[r].msg
  <2> HIDE DEF m
  <2>1. Conversation(chat)
    BY DEF ChatInv
  <2>2. m \in Messages
    BY <1>1 DEF m
  <2>3. Conversation(Exchanged(m))
    BY <2>1, <2>2, ExchangedConversation
  <2> QED BY <2>3 DEF m
<1> QED BY <1>2 DEF Turns, ChatInv

\* Whatever the step, both stay in order.
LEMMA StepChat == RunType /\ ChatInv /\ [Next]_vars => ChatInv'
<1> SUFFICES ASSUME RunType, ChatInv, [Next]_vars PROVE ChatInv'
  OBVIOUS
<1>c. Conversation(chat) /\ Conversation(chatFile)
  BY DEF ChatInv
<1>1. ASSUME Conversation(chat'), Conversation(chatFile') PROVE ChatInv'
  BY <1>1 DEF ChatInv, Conversation, SystemsEnd, PairedIn
<1>2. ASSUME UNCHANGED <<chat, chatFile>> PROVE ChatInv'
  BY <1>2, <1>c, <1>1
<1>3. ASSUME chat' = <<>>, chatFile' = <<>> PROVE ChatInv'
  BY <1>3, <1>1, EmptyConversation
<1>4. ASSUME NEW r \in Runs, Sent(r), chat' = Turns(r), chatFile' = Turns(r) PROVE ChatInv'
  <2>1. Conversation(Turns(r))
    BY <1>4, TurnsConversation DEF Sent
  <2> QED BY <1>1, <1>4, <2>1
<1>5. CASE \E m \in Messages : \/ Defer(m) \/ Ignore(m)
                              \/ \E r \in Runs : Accept(r, m) \/ AcceptOpponent(r, m)
  BY <1>5, <1>2 DEF Defer, Ignore, Accept, AcceptOpponent
<1>6. ASSUME NEW r \in Runs, Otherwise(r) \/ LimitReached(r) \/ AnswerOpponent(r)
      PROVE  ChatInv'
  BY <1>6, <1>2 DEF Otherwise, LimitReached, AnswerOpponent
<1>7. ASSUME NEW r \in Runs, Ask(r)
      PROVE  ChatInv'
  <2>1. chat' \in {chat} \cup Compressions(chat) /\ chatFile' = chatFile
    BY <1>7 DEF Ask
  <2>2. Conversation(chat')
    <3>1. \A d \in Compressions(chat) : Conversation(d)
      BY <1>c, CompressedConversation
    <3> QED BY <2>1, <3>1, <1>c
  <2> QED BY <2>1, <2>2, <1>c, <1>1
<1>8. ASSUME NEW r \in Runs, AskAfterIdle(r)
      PROVE  ChatInv'
  BY <1>8, <1>3 DEF AskAfterIdle
<1>9. ASSUME NEW r \in Runs, NEW place \in {"challenge", "fallback"}, AskChallenge(r, place)
      PROVE  ChatInv'
  BY <1>9, <1>2 DEF AskChallenge
<1>10. ASSUME NEW r \in Runs, Answer(r)
       PROVE  ChatInv'
  <2>1. run[r].msg \in Messages /\ chat' = Exchanged(run[r].msg) /\ chatFile' = chatFile
    BY <1>10 DEF Answer, At, RunType
  <2>2. PICK m \in Messages : m = run[r].msg
    BY <2>1
  <2>3. Conversation(Exchanged(m))
    BY <1>c, ExchangedConversation
  <2> QED BY <2>1, <2>2, <2>3, <1>c, <1>1
<1>11. ASSUME NEW r \in Runs, Reply(r) \/ Challenge(r)
       PROVE  ChatInv'
  BY <1>11, <1>4 DEF Reply, Challenge, Flush
<1>12. ASSUME NEW r \in Runs, NEW inFlush \in BOOLEAN, Catch(r, inFlush) \/ CatchThrows(r, inFlush)
       PROVE  ChatInv'
  <2>1. Fails(r, inFlush)
    BY <1>12 DEF Catch, CatchThrows
  <2> QED BY <2>1, <1>2, <1>4 DEF Fails
<1>13. CASE Tick \/ CooldownEnds \/ Midnight
  BY <1>13, <1>2 DEF Tick, CooldownEnds, Midnight
<1>14. CASE Reset
  BY <1>14, <1>3 DEF Reset
<1>15. CASE Restart
  BY <1>15, <1>c, <1>1 DEF Restart
<1>16. CASE UNCHANGED vars
  BY <1>16, <1>2 DEF vars
<1> QED
  BY <1>5, <1>6, <1>7, <1>8, <1>9, <1>10, <1>11, <1>12, <1>13, <1>14, <1>15, <1>16 DEF Next

\* At first both are empty.
LEMMA InitChat == Init => ChatInv
BY EmptyConversation DEF Init, ChatInv

\* Both conversations, in memory and in the database, stay in order: at most
\* MaxContext turns, the system turns first, the recent turns in pairs.
THEOREM ConversationsInOrder == Spec => []ChatInv
<1>1. LeaseInv => RunType
  BY DEF LeaseInv
<1> QED BY <1>1, InitChat, StepChat, InitLease, StepLease, PTL DEF Spec

\* The recent turns of the conversation are a dialogue, however many answers are
\* waited for at a time and however often it is cut off, compressed or restored.
THEOREM SpecRecentTurnsPaired == Spec => []RecentTurnsPaired
<1>1. ChatInv => RecentTurnsPaired
  BY DEF ChatInv, Conversation, PairedIn, RecentTurnsPaired
<1> QED BY <1>1, ConversationsInOrder, PTL

-----------------------------------------------------------------------------
(***************************************************************************)
(* The types                                                               *)
(***************************************************************************)

\* A message that the set remembers cannot be claimed, so the set turns no claimed
\* message away.
SeenInv ==
  /\ seen \subseteq Messages
  /\ \A m \in seen : rows[m].state \in Settled \/ rows[m].lease > 0
  /\ billed \in 0..MaxTurns

\* At first nothing is remembered and nothing counted.
LEMMA InitSeen == Init => SeenInv
BY MaxTurnsAssumption DEF Init, SeenInv

\* A message is remembered by the step that claims it, and forgotten before the
\* lease is over.
LEMMA StepSeen == LeaseInv /\ SeenInv /\ [Next]_vars => SeenInv'
<1> SUFFICES ASSUME LeaseInv, SeenInv, [Next]_vars PROVE SeenInv'
  OBVIOUS
<1>t. RunType /\ rows \in [Messages -> Row]
  BY DEF LeaseInv
<1>1. ASSUME UNCHANGED <<rows, seen>>, billed' \in 0..MaxTurns PROVE SeenInv'
  BY <1>1 DEF SeenInv
<1>b. billed \in 0..MaxTurns
  BY DEF SeenInv
<1>2. ASSUME NEW m \in Messages, Claims(m), Remembered(m), UNCHANGED billed PROVE SeenInv'
  <2>1. rows' = [rows EXCEPT ![m] = Claimed(rows[m])] /\ Claimed(rows[m]).lease > 0
    BY <1>2, LimitsAssumption DEF Claims, Claimed
  <2> QED BY <1>2, <1>t, <2>1 DEF SeenInv, Remembered
<1>3. ASSUME NEW m \in Messages, NEW state \in Settled, Complete(m, state),
             UNCHANGED <<seen, billed>>
      PROVE  SeenInv'
  BY <1>3, <1>t DEF SeenInv, Complete
<1>4. CASE \E m \in Messages : \/ Defer(m) \/ Ignore(m)
                              \/ \E r \in Runs : Accept(r, m) \/ AcceptOpponent(r, m)
  BY <1>4, <1>2 DEF Defer, Ignore, Accept, AcceptOpponent
<1>5. ASSUME NEW r \in Runs, Otherwise(r) \/ LimitReached(r) \/ Ask(r) \/ AskAfterIdle(r) \/ Answer(r)
      PROVE  SeenInv'
  BY <1>5, <1>1, <1>b DEF Otherwise, LimitReached, Ask, AskAfterIdle, Answer, history
<1>6. ASSUME NEW r \in Runs, NEW place \in {"challenge", "fallback"}, AskChallenge(r, place)
      PROVE  SeenInv'
  BY <1>6, <1>1, <1>b DEF AskChallenge, history
<1>7. ASSUME NEW r \in Runs, AnswerOpponent(r)
      PROVE  SeenInv'
  <2>1. billed' \in 0..MaxTurns /\ UNCHANGED <<rows, seen>>
    BY <1>7, <1>b, MaxTurnsAssumption DEF AnswerOpponent
  <2> QED BY <2>1, <1>1
<1>8. ASSUME NEW r \in Runs, Reply(r)
      PROVE  SeenInv'
  <2>1. run[r].msg \in Messages
    BY <1>8, <1>t DEF Reply, At, RunType
  <2> QED BY <1>8, <2>1, <1>3 DEF Reply, Flush, Settled
<1>9. ASSUME NEW r \in Runs, Challenge(r)
      PROVE  SeenInv'
  BY <1>9, <1>1, <1>b DEF Challenge, Flush
<1>10. ASSUME NEW r \in Runs, NEW inFlush \in BOOLEAN, Catch(r, inFlush)
       PROVE  SeenInv'
  <2>1. run[r].msg \in Messages
    BY <1>10, <1>t DEF Catch, Fails, Sent, RunType
  <2> QED BY <1>10, <2>1, <1>3 DEF Catch, Settled
<1>11. ASSUME NEW r \in Runs, NEW inFlush \in BOOLEAN, CatchThrows(r, inFlush)
       PROVE  SeenInv'
  BY <1>11, <1>1, <1>b DEF CatchThrows, history
<1>12. CASE Tick
  BY <1>12, <1>b DEF Tick, SeenInv
<1>13. CASE CooldownEnds \/ Reset
  BY <1>13, <1>1, <1>b DEF CooldownEnds, Reset, history
<1>14. CASE Midnight
  BY <1>14, <1>1, MaxTurnsAssumption DEF Midnight
<1>15. CASE Restart
  BY <1>15, <1>b DEF Restart, SeenInv, history
<1>16. CASE UNCHANGED vars
  BY <1>16, <1>1, <1>b DEF vars, history
<1> QED
  BY <1>4, <1>5, <1>6, <1>7, <1>8, <1>9, <1>10, <1>11, <1>12, <1>13, <1>14, <1>15, <1>16 DEF Next

\* Every value is of its type: no conversation is longer than MaxContext, only a
\* row in work has a lease, and what the set remembers is settled or has one.
THEOREM SpecTypeOK == Spec => []TypeOK
<1>1. LeaseInv /\ CreditsInv /\ ChatInv /\ SeenInv => TypeOK
  BY DEF LeaseInv, CreditsInv, RunType, UsageType, UsageRecord, ChatInv, Conversation, SeenInv,
         TypeOK
<1> QED
  BY <1>1, InitLease, StepLease, InitCredits, StepCredits, ConversationsInOrder,
     InitSeen, StepSeen, PTL DEF Spec
=============================================================================
