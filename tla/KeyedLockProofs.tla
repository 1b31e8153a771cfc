--------------------------- MODULE KeyedLockProofs ---------------------------
(***************************************************************************)
(* Proofs about KeyedLock, for any set of callers and keys and any nesting *)
(* depth.  First the sequence facts the queue and the stack need, then the *)
(* inductive invariant, one step per operation, then the theorems.         *)
(***************************************************************************)
EXTENDS KeyedLock, SequenceTheorems, TLAPS

\* The entries of a sequence are pairwise different.
Distinct(s) == \A i, j \in 1..Len(s) : s[i] = s[j] => i = j

-----------------------------------------------------------------------------
\* The entries of a sequence, by position.
LEMMA Entries ==
  ASSUME NEW S, NEW s \in Seq(S)
  PROVE  \A x : x \in ToSet(s) <=> \E i \in 1..Len(s) : x = s[i]
<1>1. DOMAIN s = 1..Len(s)
  BY LenProperties
<1> QED BY <1>1, Zenon DEF ToSet

\* Pushing e adds e to the entries; if it is new they stay distinct.
LEMMA AppendFacts ==
  ASSUME NEW S, NEW s \in Seq(S), NEW e \in S
  PROVE  /\ Append(s, e) \in Seq(S)
         /\ ToSet(Append(s, e)) = ToSet(s) \cup {e}
         /\ Distinct(s) /\ e \notin ToSet(s) => Distinct(Append(s, e))
<1> DEFINE t == Append(s, e)
           n == Len(s)
<1>1. /\ n \in Nat
      /\ t \in Seq(S)
      /\ Len(t) = n + 1
      /\ \A i \in 1..n : t[i] = s[i]
      /\ t[n + 1] = e
  BY AppendProperties, LenProperties
<1>2. \A x : x \in ToSet(s) <=> \E i \in 1..n : x = s[i]
  BY Entries
<1>3. \A x : x \in ToSet(t) <=> \E i \in 1..(n + 1) : x = t[i]
  <2>1. \A x : x \in ToSet(t) <=> \E i \in 1..Len(t) : x = t[i]
    BY <1>1, Entries
  <2> HIDE DEF t, n
  <2> QED BY <1>1, <2>1
<1>4. Distinct(s) <=> \A i, j \in 1..n : s[i] = s[j] => i = j
  BY DEF Distinct
<1>5. Distinct(t) <=> \A i, j \in 1..(n + 1) : t[i] = t[j] => i = j
  BY <1>1 DEF Distinct
<1> HIDE DEF t, n
<1>6. ASSUME NEW x PROVE x \in ToSet(t) <=> x \in ToSet(s) \cup {e}
  BY <1>1, <1>2, <1>3
<1>7. Distinct(s) /\ e \notin ToSet(s) => Distinct(t)
  BY <1>1, <1>2, <1>4, <1>5
<1> QED BY <1>1, <1>6, <1>7 DEF t

\* Popping the last entry of a stack without repetitions removes exactly it.
LEMMA FrontFacts ==
  ASSUME NEW S, NEW s \in Seq(S), s # <<>>
  PROVE  /\ Front(s) \in Seq(S)
         /\ Last(s) \in S
         /\ Last(s) \in ToSet(s)
         /\ Distinct(s) => /\ Distinct(Front(s))
                           /\ ToSet(Front(s)) = ToSet(s) \ {Last(s)}
<1> DEFINE t == Front(s)
           n == Len(s)
           l == Last(s)
<1>1. n \in Nat /\ n > 0 /\ \A i \in 1..n : s[i] \in S
  BY EmptySeq, LenProperties, ElementOfSeq
<1>2. l = s[n]
  BY DEF Last
<1>3. t \in Seq(S) /\ Len(t) = n - 1 /\ \A i \in 1..(n - 1) : t[i] = s[i]
  <2>1. 1 \in Int /\ n - 1 \in Int /\ \A i \in 1..(n - 1) : s[i] \in S
    BY <1>1
  <2>2. /\ t \in Seq(S)
        /\ Len(t) = IF 1 <= n - 1 THEN (n - 1) - 1 + 1 ELSE 0
        /\ \A i \in 1..((n - 1) - 1 + 1) : t[i] = s[1 + i - 1]
    BY <2>1, SubSeqProperties DEF Front
  <2> HIDE DEF t, n
  <2> QED BY <1>1, <2>2
<1>4. \A x : x \in ToSet(s) <=> \E i \in 1..n : x = s[i]
  BY Entries
<1>5. \A x : x \in ToSet(t) <=> \E i \in 1..(n - 1) : x = t[i]
  <2>1. \A x : x \in ToSet(t) <=> \E i \in 1..Len(t) : x = t[i]
    BY <1>3, Entries
  <2> HIDE DEF t, n
  <2> QED BY <1>3, <2>1
<1>6. Distinct(s) <=> \A i, j \in 1..n : s[i] = s[j] => i = j
  BY DEF Distinct
<1>7. Distinct(t) <=> \A i, j \in 1..(n - 1) : t[i] = t[j] => i = j
  BY <1>3 DEF Distinct
<1> HIDE DEF t, n, l
<1>8. l \in S /\ l \in ToSet(s)
  BY <1>1, <1>2, <1>4
<1>9. ASSUME Distinct(s), NEW x PROVE x \in ToSet(t) <=> x \in ToSet(s) \ {l}
  BY <1>1, <1>2, <1>3, <1>4, <1>5, <1>6, <1>9
<1>10. Distinct(s) => Distinct(t)
  BY <1>1, <1>3, <1>6, <1>7
<1>11. Distinct(s) => ToSet(t) = ToSet(s) \ {l}
  BY <1>9
<1> QED BY <1>3, <1>8, <1>10, <1>11 DEF t, l

\* Taking the head of a queue without repetitions removes exactly it.
LEMMA TailFacts ==
  ASSUME NEW S, NEW s \in Seq(S), s # <<>>, Distinct(s)
  PROVE  /\ Tail(s) \in Seq(S)
         /\ Head(s) \in S
         /\ Head(s) \in ToSet(s)
         /\ Distinct(Tail(s))
         /\ ToSet(Tail(s)) = ToSet(s) \ {Head(s)}
<1> DEFINE t == Tail(s)
           n == Len(s)
           h == Head(s)
<1>1. n \in Nat /\ n > 0 /\ \A i \in 1..n : s[i] \in S
  BY EmptySeq, LenProperties, ElementOfSeq
<1>2. /\ t \in Seq(S)
      /\ Len(t) = n - 1
      /\ \A i \in 1..(n - 1) : t[i] = s[i + 1]
      /\ h = s[1]
  BY <1>1, HeadTailProperties
<1>3. \A x : x \in ToSet(s) <=> \E i \in 1..n : x = s[i]
  BY Entries
<1>4. \A x : x \in ToSet(t) <=> \E i \in 1..(n - 1) : x = t[i]
  <2>1. \A x : x \in ToSet(t) <=> \E i \in 1..Len(t) : x = t[i]
    BY <1>2, Entries
  <2> HIDE DEF t, n
  <2> QED BY <1>2, <2>1
<1>5. \A i, j \in 1..n : s[i] = s[j] => i = j
  BY DEF Distinct
<1>6. Distinct(t) <=> \A i, j \in 1..(n - 1) : t[i] = t[j] => i = j
  BY <1>2 DEF Distinct
<1> HIDE DEF t, n, h
<1>7. h \in S /\ h \in ToSet(s)
  BY <1>1, <1>2, <1>3
<1>8. Distinct(t)
  BY <1>1, <1>2, <1>5, <1>6
<1>9. ASSUME NEW x \in ToSet(t) PROVE x \in ToSet(s) \ {h}
  <2>1. PICK i \in 1..(n - 1) : x = s[i + 1]
    BY <1>2, <1>4
  <2>2. i + 1 \in 1..n /\ 1 \in 1..n /\ i + 1 # 1
    BY <1>1, <2>1
  <2> QED BY <1>2, <1>3, <1>5, <2>1, <2>2
<1>10. ASSUME NEW x \in ToSet(s) \ {h} PROVE x \in ToSet(t)
  <2>1. PICK i \in 1..n : x = s[i] /\ i # 1
    BY <1>2, <1>3
  <2>2. i - 1 \in 1..(n - 1) /\ t[i - 1] = s[i]
    BY <1>1, <1>2, <2>1
  <2> QED BY <1>4, <2>1, <2>2
<1> QED BY <1>2, <1>7, <1>8, <1>9, <1>10 DEF t, h

\* Splicing position n out of a queue without repetitions removes exactly the
\* caller that stood there.
LEMMA RemoveAtFacts ==
  ASSUME NEW S, NEW s \in Seq(S), Distinct(s), NEW n \in 1..Len(s)
  PROVE  /\ RemoveAt(s, n) \in Seq(S)
         /\ Distinct(RemoveAt(s, n))
         /\ ToSet(RemoveAt(s, n)) = ToSet(s) \ {s[n]}
<1> DEFINE a == SubSeq(s, 1, n - 1)
           b == SubSeq(s, n + 1, Len(s))
           t == RemoveAt(s, n)
           m == Len(s)
<1>1. m \in Nat /\ n \in 1..m /\ \A i \in 1..m : s[i] \in S
  BY LenProperties, ElementOfSeq
<1>2. a \in Seq(S) /\ Len(a) = n - 1 /\ \A i \in 1..(n - 1) : a[i] = s[i]
  <2>1. 1 \in Int /\ n - 1 \in Int /\ \A i \in 1..(n - 1) : s[i] \in S
    BY <1>1
  <2>2. /\ a \in Seq(S)
        /\ Len(a) = IF 1 <= n - 1 THEN (n - 1) - 1 + 1 ELSE 0
        /\ \A i \in 1..((n - 1) - 1 + 1) : a[i] = s[1 + i - 1]
    BY <2>1, SubSeqProperties
  <2> HIDE DEF a, m
  <2> QED BY <1>1, <2>2
<1>3. b \in Seq(S) /\ Len(b) = m - n /\ \A i \in 1..(m - n) : b[i] = s[n + i]
  <2>1. n + 1 \in Int /\ m \in Int /\ \A i \in (n + 1)..m : s[i] \in S
    BY <1>1
  <2>2. /\ b \in Seq(S)
        /\ Len(b) = IF n + 1 <= m THEN m - (n + 1) + 1 ELSE 0
        /\ \A i \in 1..(m - (n + 1) + 1) : b[i] = s[(n + 1) + i - 1]
    BY <2>1, SubSeqProperties
  <2> HIDE DEF b, m
  <2> QED BY <1>1, <2>2
<1>4. /\ t \in Seq(S)
      /\ Len(t) = m - 1
      /\ \A i \in 1..(m - 1) : t[i] = IF i < n THEN s[i] ELSE s[i + 1]
  <2>1. t = a \o b
    BY DEF RemoveAt
  <2> HIDE DEF a, b, t, m
  <2>2. /\ t \in Seq(S)
        /\ Len(t) = Len(a) + Len(b)
        /\ \A i \in 1..(Len(a) + Len(b)) :
             t[i] = IF i <= Len(a) THEN a[i] ELSE b[i - Len(a)]
    BY <1>2, <1>3, <2>1, ConcatProperties
  <2>3. Len(a) + Len(b) = m - 1
    BY <1>1, <1>2, <1>3
  <2>4. ASSUME NEW i \in 1..(m - 1)
        PROVE  t[i] = IF i < n THEN s[i] ELSE s[i + 1]
    <3>1. CASE i < n
      <4>1. i \in 1..(n - 1) /\ i <= n - 1
        BY <1>1, <3>1
      <4> QED BY <1>2, <2>2, <2>3, <3>1, <4>1
    <3>2. CASE ~(i < n)
      <4>1. /\ i - (n - 1) \in 1..(m - n)
            /\ n + (i - (n - 1)) = i + 1
            /\ ~(i <= n - 1)
        BY <1>1, <3>2
      <4>2. t[i] = b[i - (n - 1)]
        BY <1>2, <2>2, <2>3, <4>1
      <4> QED BY <1>3, <4>1, <4>2, <3>2
    <3> QED BY <3>1, <3>2
  <2> QED BY <2>2, <2>3, <2>4
<1>5. \A x : x \in ToSet(s) <=> \E i \in 1..m : x = s[i]
  BY Entries
<1>6. \A x : x \in ToSet(t) <=> \E i \in 1..(m - 1) : x = t[i]
  <2>1. \A x : x \in ToSet(t) <=> \E i \in 1..Len(t) : x = t[i]
    BY <1>4, Entries
  <2> HIDE DEF t, m
  <2> QED BY <1>4, <2>1
<1>7. \A i, j \in 1..m : s[i] = s[j] => i = j
  BY DEF Distinct
<1>8. Distinct(t) <=> \A i, j \in 1..(m - 1) : t[i] = t[j] => i = j
  BY <1>4 DEF Distinct
<1> HIDE DEF t, m
<1>9. Distinct(t)
  BY <1>1, <1>4, <1>7, <1>8
<1>10. ASSUME NEW x \in ToSet(t) PROVE x \in ToSet(s) \ {s[n]}
  <2>1. PICK j \in 1..m : j # n /\ x = s[j]
    BY <1>1, <1>4, <1>6, SMTT(30)
  <2> QED BY <1>1, <1>5, <1>7, <2>1
<1>11. ASSUME NEW x \in ToSet(s) \ {s[n]} PROVE x \in ToSet(t)
  <2>1. PICK j \in 1..m : x = s[j] /\ j # n
    BY <1>5
  <2>2. CASE j < n
    BY <1>1, <1>4, <1>6, <2>1, <2>2
  <2>3. CASE j > n
    <3>1. j - 1 \in 1..(m - 1) /\ t[j - 1] = x
      BY <1>1, <1>4, <2>1, <2>3
    <3> QED BY <1>6, <3>1
  <2> QED BY <1>1, <2>1, <2>2, <2>3
<1> QED BY <1>4, <1>9, <1>10, <1>11 DEF t
-----------------------------------------------------------------------------
\* The invariant is inductive as the conjunction of its parts: that no key is
\* stacked twice makes Unlock release all its caller's claim on the key, and
\* the queue being exactly the parked callers makes its head a waiter.
IInv ==
  /\ TypeOK
  /\ MutualExclusion
  /\ NoReentry
  /\ ActiveIffHeld
  /\ QueueIsParked

\* With every key free and nobody waiting, the inductive invariant holds.
LEMMA InitIInv == Init => IInv
<1> SUFFICES ASSUME Init PROVE IInv
  OBVIOUS
<1>1. /\ \A k \in Keys : queues[k] = <<>> /\ queues[k] \in Seq(Callers)
      /\ \A c \in Callers : stack[c] = <<>> /\ stack[c] \in Seq(Keys)
  BY EmptySeq DEF Init
<1>2. /\ \A k \in Keys : ToSet(queues[k]) = {}
      /\ \A c \in Callers : ToSet(stack[c]) = {}
  BY DEF Init, ToSet
<1>3. TypeOK
  BY <1>1 DEF Init, TypeOK, Phases
<1>4. \A c \in Callers, k \in Keys : ~Holds(c, k)
  BY <1>2 DEF Init, Holds
<1>5. MutualExclusion
  BY <1>2, <1>4 DEF MutualExclusion, Init
<1>6. NoReentry
  BY DEF NoReentry, Init
<1>7. ActiveIffHeld
  BY <1>4 DEF ActiveIffHeld, Init
<1>8. QueueIsParked
  BY <1>2 DEF QueueIsParked, Init
<1> QED BY <1>3, <1>5, <1>6, <1>7, <1>8 DEF IInv

\* acquire on a free key: nobody holds it, so its new holder is alone.
LEMMA LockFreeStep ==
  ASSUME IInv, NEW c \in Callers, NEW k \in Keys, Lock(c, k), LockFree(c, k)
  PROVE  /\ IInv'
         /\ \A d \in Callers, j \in Keys :
              Holds(d, j)' <=> Holds(d, j) \/ (d = c /\ j = k)
         /\ \A d \in Callers : ~Holds(d, k)
<1>1. /\ phase[c] = "running" /\ k \notin active
      /\ active' = active \cup {k}
      /\ phase' = [phase EXCEPT ![c] = "granted"]
      /\ asked' = [asked EXCEPT ![c] = k]
      /\ queues' = queues /\ stack' = stack
  BY DEF Lock, LockFree
<1>2. TypeOK'
  BY <1>1 DEF IInv, TypeOK, Phases
<1>3. /\ phase'[c] = "granted" /\ asked'[c] = k
      /\ \A d \in Callers \ {c} : phase'[d] = phase[d] /\ asked'[d] = asked[d]
  BY <1>1 DEF IInv, TypeOK
<1>4. \A d \in Callers : ~Holds(d, k)
  BY <1>1 DEF IInv, ActiveIffHeld
<1>5. \A d \in Callers, j \in Keys :
        Holds(d, j)' <=> Holds(d, j) \/ (d = c /\ j = k)
  BY <1>1, <1>3 DEF Holds
<1>6. MutualExclusion'
  BY <1>1, <1>3, <1>4, <1>5 DEF IInv, MutualExclusion, Holds
<1>7. NoReentry'
  BY <1>1 DEF IInv, NoReentry
<1>8. ActiveIffHeld'
  BY <1>1, <1>5 DEF IInv, ActiveIffHeld
<1>9. QueueIsParked'
  BY <1>1, <1>3 DEF IInv, QueueIsParked
<1> QED BY <1>2, <1>4, <1>5, <1>6, <1>7, <1>8, <1>9 DEF IInv

\* acquire on a locked key: the caller joins the queue, the holder is the same.
LEMMA LockBusyStep ==
  ASSUME IInv, NEW c \in Callers, NEW k \in Keys, Lock(c, k), LockBusy(c, k)
  PROVE  /\ IInv'
         /\ \A d \in Callers, j \in Keys : Holds(d, j)' <=> Holds(d, j)
         /\ c \notin ToSet(queues[k])
         /\ ToSet(queues'[k]) = ToSet(queues[k]) \cup {c}
         /\ \A j \in Keys \ {k} : queues'[j] = queues[j]
<1>1. /\ phase[c] = "running" /\ k \in active
      /\ queues' = [queues EXCEPT ![k] = Append(@, c)]
      /\ phase' = [phase EXCEPT ![c] = "waiting"]
      /\ asked' = [asked EXCEPT ![c] = k]
      /\ active' = active /\ stack' = stack
  BY DEF Lock, LockBusy
<1>2. /\ phase'[c] = "waiting" /\ asked'[c] = k
      /\ \A d \in Callers \ {c} : phase'[d] = phase[d] /\ asked'[d] = asked[d]
      /\ queues'[k] = Append(queues[k], c)
      /\ \A j \in Keys \ {k} : queues'[j] = queues[j]
  BY <1>1 DEF IInv, TypeOK
<1>3. queues[k] \in Seq(Callers) /\ Distinct(queues[k]) /\ c \notin ToSet(queues[k])
  BY <1>1 DEF IInv, TypeOK, QueueIsParked, Distinct
<1>4. /\ queues'[k] \in Seq(Callers)
      /\ ToSet(queues'[k]) = ToSet(queues[k]) \cup {c}
      /\ Distinct(queues'[k])
  BY <1>2, <1>3, AppendFacts
<1>5. TypeOK'
  BY <1>1, <1>2, <1>4 DEF IInv, TypeOK, Phases
<1>6. \A d \in Callers, j \in Keys : Holds(d, j)' <=> Holds(d, j)
  BY <1>1, <1>2 DEF Holds
<1>7. MutualExclusion'
  BY <1>1, <1>2, <1>6 DEF IInv, MutualExclusion
<1>8. NoReentry'
  BY <1>1 DEF IInv, NoReentry
<1>9. ActiveIffHeld'
  BY <1>1, <1>6 DEF IInv, ActiveIffHeld
<1>10. QueueIsParked'
  BY <1>1, <1>2, <1>4 DEF IInv, QueueIsParked, Distinct
<1> QED BY <1>2, <1>3, <1>4, <1>5, <1>6, <1>7, <1>8, <1>9, <1>10 DEF IInv

\* The granted caller enters fn: it held the key already.
LEMMA ResumeStep ==
  ASSUME IInv, NEW c \in Callers, Resume(c)
  PROVE  /\ IInv'
         /\ \A d \in Callers, j \in Keys : Holds(d, j)' <=> Holds(d, j)
<1> DEFINE k == asked[c]
<1>1. /\ phase[c] = "granted"
      /\ phase' = [phase EXCEPT ![c] = "running"]
      /\ stack' = [stack EXCEPT ![c] = Append(@, k)]
      /\ active' = active /\ queues' = queues /\ asked' = asked
  BY DEF Resume
<1>2. /\ phase'[c] = "running" /\ stack'[c] = Append(stack[c], k)
      /\ \A d \in Callers \ {c} : phase'[d] = phase[d] /\ stack'[d] = stack[d]
      /\ k \in Keys
  BY <1>1 DEF IInv, TypeOK
<1>3. stack[c] \in Seq(Keys) /\ Distinct(stack[c]) /\ k \notin ToSet(stack[c])
  BY <1>1, <1>2 DEF IInv, TypeOK, NoReentry, MutualExclusion, Distinct
<1>4. /\ stack'[c] \in Seq(Keys)
      /\ ToSet(stack'[c]) = ToSet(stack[c]) \cup {k}
      /\ Distinct(stack'[c])
  BY <1>2, <1>3, AppendFacts
<1>5. TypeOK'
  BY <1>1, <1>2, <1>4 DEF IInv, TypeOK, Phases
<1>6. \A d \in Callers, j \in Keys : Holds(d, j)' <=> Holds(d, j)
  BY <1>1, <1>2, <1>4 DEF Holds
<1>7. MutualExclusion'
  BY <1>1, <1>2, <1>6 DEF IInv, MutualExclusion
<1>8. NoReentry'
  BY <1>1, <1>2, <1>4 DEF IInv, NoReentry, Distinct
<1>9. ActiveIffHeld'
  BY <1>1, <1>6 DEF IInv, ActiveIffHeld
<1>10. QueueIsParked'
  BY <1>1, <1>2 DEF IInv, QueueIsParked
<1> QED BY <1>5, <1>6, <1>7, <1>8, <1>9, <1>10 DEF IInv

\* A time-out takes the caller's only entry out of its queue.
LEMMA TimeOutStep ==
  ASSUME IInv, NEW c \in Callers, TimeOut(c)
  PROVE  /\ IInv'
         /\ \A d \in Callers, j \in Keys : Holds(d, j)' <=> Holds(d, j)
         /\ asked[c] \in Keys
         /\ c \in ToSet(queues[asked[c]])
         /\ ToSet(queues'[asked[c]]) = ToSet(queues[asked[c]]) \ {c}
         /\ \A j \in Keys \ {asked[c]} : queues'[j] = queues[j]
<1> DEFINE k == asked[c]
<1>1. PICK i \in 1..Len(queues[k]) :
        /\ queues[k][i] = c
        /\ queues' = [queues EXCEPT ![k] = RemoveAt(@, i)]
  BY DEF TimeOut
<1>2. /\ phase[c] = "waiting"
      /\ phase' = [phase EXCEPT ![c] = "running"]
      /\ active' = active /\ asked' = asked /\ stack' = stack
  BY DEF TimeOut
<1>3. /\ phase'[c] = "running" /\ k \in Keys
      /\ \A d \in Callers \ {c} : phase'[d] = phase[d]
      /\ queues'[k] = RemoveAt(queues[k], i)
      /\ \A j \in Keys \ {k} : queues'[j] = queues[j]
  BY <1>1, <1>2 DEF IInv, TypeOK
<1>4. queues[k] \in Seq(Callers) /\ Distinct(queues[k])
  BY <1>3 DEF IInv, TypeOK, QueueIsParked, Distinct
<1>5. /\ queues'[k] \in Seq(Callers)
      /\ Distinct(queues'[k])
      /\ ToSet(queues'[k]) = ToSet(queues[k]) \ {c}
  BY <1>1, <1>3, <1>4, RemoveAtFacts
<1>6. TypeOK'
  BY <1>1, <1>2, <1>3, <1>5 DEF IInv, TypeOK, Phases
<1>7. \A d \in Callers, j \in Keys : Holds(d, j)' <=> Holds(d, j)
  BY <1>2, <1>3 DEF Holds
<1>8. MutualExclusion'
  BY <1>2, <1>3, <1>7 DEF IInv, MutualExclusion
<1>9. NoReentry'
  BY <1>2 DEF IInv, NoReentry
<1>10. ActiveIffHeld'
  BY <1>2, <1>7 DEF IInv, ActiveIffHeld
<1>11. QueueIsParked'
  <2>1. queues[k] # <<>>
    BY <1>1, <1>4, EmptySeq
  <2>2. k \in active
    BY <1>3, <2>1 DEF IInv, QueueIsParked
  <2> QED BY <1>2, <1>3, <1>5, <2>2 DEF IInv, QueueIsParked, Distinct
<1>12. c \in ToSet(queues[k])
  BY <1>2, <1>3 DEF IInv, QueueIsParked
<1> QED BY <1>3, <1>5, <1>6, <1>7, <1>8, <1>9, <1>10, <1>11, <1>12 DEF IInv

\* What Unlock does to the stack of its caller: exactly the innermost key goes.
LEMMA UnlockPops ==
  ASSUME IInv, NEW c \in Callers, Unlock(c)
  PROVE  LET k == Last(stack[c]) IN
         /\ k \in Keys /\ k \in ToSet(stack[c]) /\ k \in active
         /\ stack'[c] \in Seq(Keys) /\ Distinct(stack'[c])
         /\ ToSet(stack'[c]) = ToSet(stack[c]) \ {k}
         /\ \A d \in Callers \ {c} : stack'[d] = stack[d]
         /\ \A d \in Callers : Holds(d, k) => d = c
<1> DEFINE k == Last(stack[c])
<1>1. stack[c] \in Seq(Keys) /\ stack[c] # <<>> /\ Distinct(stack[c])
  BY DEF IInv, TypeOK, NoReentry, Distinct, Unlock
<1>2. /\ Front(stack[c]) \in Seq(Keys) /\ Distinct(Front(stack[c]))
      /\ ToSet(Front(stack[c])) = ToSet(stack[c]) \ {k}
      /\ k \in Keys /\ k \in ToSet(stack[c])
  BY <1>1, FrontFacts
<1>3. stack'[c] = Front(stack[c]) /\ \A d \in Callers \ {c} : stack'[d] = stack[d]
  BY DEF IInv, TypeOK, Unlock
<1>4. Holds(c, k)
  BY <1>2 DEF Holds
<1>5. k \in active /\ \A d \in Callers : Holds(d, k) => d = c
  BY <1>2, <1>4 DEF IInv, ActiveIffHeld, MutualExclusion
<1> QED BY <1>2, <1>3, <1>5

\* The key stays active and its new holder is the head of its queue.
LEMMA HandOverStep ==
  ASSUME IInv, NEW c \in Callers, NEW k \in Keys, k = Last(stack[c]),
         Unlock(c), HandOver(k)
  PROVE  /\ IInv'
         /\ \E d \in Callers : Holds(d, k)
         /\ \E h \in ToSet(queues[k]) :
              /\ h \in Callers
              /\ \A d \in Callers : Holds(d, k)' <=> d = h
              /\ ToSet(queues'[k]) = ToSet(queues[k]) \ {h}
         /\ \A d \in Callers, j \in Keys \ {k} : Holds(d, j)' <=> Holds(d, j)
         /\ \A j \in Keys \ {k} : queues'[j] = queues[j]
<1> PICK h : h = Head(queues[k])
  OBVIOUS
<1>1. /\ k \in Keys /\ k \in ToSet(stack[c]) /\ k \in active
      /\ stack'[c] \in Seq(Keys) /\ Distinct(stack'[c])
      /\ ToSet(stack'[c]) = ToSet(stack[c]) \ {k}
      /\ \A d \in Callers \ {c} : stack'[d] = stack[d]
      /\ \A d \in Callers : Holds(d, k) => d = c
  BY UnlockPops
<1>2. /\ phase[c] = "running" /\ asked' = asked /\ active' = active
      /\ stack' = [stack EXCEPT ![c] = Front(@)]
      /\ queues[k] # <<>>
      /\ queues' = [queues EXCEPT ![k] = Tail(@)]
      /\ phase' = [phase EXCEPT ![h] = "granted"]
  BY DEF Unlock, HandOver
<1>3. queues[k] \in Seq(Callers) /\ Distinct(queues[k])
  BY <1>1 DEF IInv, TypeOK, QueueIsParked, Distinct
<1>4. /\ Tail(queues[k]) \in Seq(Callers) /\ Distinct(Tail(queues[k]))
      /\ ToSet(Tail(queues[k])) = ToSet(queues[k]) \ {h}
      /\ h \in Callers /\ h \in ToSet(queues[k])
  BY <1>2, <1>3, TailFacts
<1>5. phase[h] = "waiting" /\ asked[h] = k /\ h # c
  BY <1>1, <1>2, <1>4 DEF IInv, QueueIsParked
<1>6. /\ queues'[k] = Tail(queues[k])
      /\ \A j \in Keys \ {k} : queues'[j] = queues[j]
      /\ phase'[h] = "granted"
      /\ \A d \in Callers \ {h} : phase'[d] = phase[d]
  BY <1>1, <1>2, <1>4 DEF IInv, TypeOK
<1>7. TypeOK'
  <2>1. stack' \in [Callers -> Seq(Keys)]
    BY <1>1, <1>2 DEF IInv, TypeOK
  <2>2. queues' \in [Keys -> Seq(Callers)]
    BY <1>2, <1>4, <1>6 DEF IInv, TypeOK
  <2> QED BY <1>2, <1>4, <2>1, <2>2 DEF IInv, TypeOK, Phases
<1>8. \A d \in Callers : Holds(d, k)' <=> d = h
  BY <1>1, <1>2, <1>4, <1>5, <1>6 DEF Holds
<1>9. \A d \in Callers, j \in Keys \ {k} : Holds(d, j)' <=> Holds(d, j)
  BY <1>1, <1>2, <1>4, <1>5, <1>6 DEF Holds
<1>10. k \notin ToSet(stack[h])
  BY <1>1, <1>4, <1>5 DEF Holds
<1>11. MutualExclusion'
  <2>1. ASSUME NEW d \in Callers, NEW e \in Callers, NEW j \in Keys,
               Holds(d, j)', Holds(e, j)'
        PROVE  d = e
    BY <1>8, <1>9, <2>1 DEF IInv, MutualExclusion
  <2>2. ASSUME NEW d \in Callers, NEW j \in Keys,
               phase'[d] = "granted", asked'[d] = j
        PROVE  j \notin ToSet(stack'[d])
    <3>1. CASE d = h
      BY <1>1, <1>2, <1>5, <1>10, <2>2, <3>1
    <3>2. CASE d # h
      BY <1>1, <1>2, <1>6, <2>2, <3>2 DEF IInv, MutualExclusion
    <3> QED BY <3>1, <3>2
  <2> QED BY <2>1, <2>2 DEF MutualExclusion
<1>12. NoReentry'
  BY <1>1 DEF IInv, NoReentry, Distinct
<1>13. ActiveIffHeld'
  <2>1. k \in active' /\ Holds(h, k)' /\ h \in Callers
    BY <1>1, <1>2, <1>4, <1>8
  <2>2. ASSUME NEW j \in Keys \ {k}
        PROVE  j \in active' <=> \E d \in Callers : Holds(d, j)'
    <3>1. j \in active <=> \E d \in Callers : Holds(d, j)
      BY DEF IInv, ActiveIffHeld
    <3> QED BY <1>2, <1>9, <3>1
  <2>3. ASSUME NEW j \in Keys
        PROVE  (j \in active <=> \E d \in Callers : Holds(d, j))'
    <3>1. CASE j = k
      BY <2>1, <3>1
    <3>2. CASE j # k
      BY <2>2, <3>2
    <3> QED BY <3>1, <3>2
  <2> QED BY <2>3 DEF ActiveIffHeld
<1>14. QueueIsParked'
  <2>1. ASSUME NEW d \in Callers, NEW j \in Keys
        PROVE  d \in ToSet(queues'[j]) <=> phase'[d] = "waiting" /\ asked'[d] = j
    <3>1. d \in ToSet(queues[j]) <=> phase[d] = "waiting" /\ asked[d] = j
      BY DEF IInv, QueueIsParked
    <3>2. CASE j = k
      BY <1>2, <1>4, <1>5, <1>6, <3>1, <3>2
    <3>3. CASE j # k
      BY <1>2, <1>5, <1>6, <3>1, <3>3
    <3> QED BY <3>2, <3>3
  <2>2. ASSUME NEW j \in Keys
        PROVE  Distinct(queues'[j]) /\ (queues'[j] # <<>> => j \in active')
    <3>1. Distinct(queues[j]) /\ (queues[j] # <<>> => j \in active)
      BY DEF IInv, QueueIsParked, Distinct
    <3>2. CASE j = k
      BY <1>1, <1>2, <1>4, <1>6, <3>2
    <3>3. CASE j # k
      BY <1>2, <1>6, <3>1, <3>3
    <3> QED BY <3>2, <3>3
  <2> QED BY <2>1, <2>2 DEF QueueIsParked, Distinct
<1>15. IInv'
  BY <1>7, <1>11, <1>12, <1>13, <1>14 DEF IInv
<1>16. Holds(c, k)
  BY <1>1 DEF Holds
<1> QED BY <1>4, <1>6, <1>8, <1>9, <1>15, <1>16

\* Nobody is parked: the key is no longer active, and nobody holds it.
LEMMA SetFreeStep ==
  ASSUME IInv, NEW c \in Callers, NEW k \in Keys, k = Last(stack[c]),
         Unlock(c), SetFree(k)
  PROVE  /\ IInv'
         /\ \E d \in Callers : Holds(d, k)
         /\ \A d \in Callers : ~Holds(d, k)'
         /\ \A d \in Callers, j \in Keys \ {k} : Holds(d, j)' <=> Holds(d, j)
<1>1. /\ k \in Keys /\ k \in ToSet(stack[c]) /\ k \in active
      /\ stack'[c] \in Seq(Keys) /\ Distinct(stack'[c])
      /\ ToSet(stack'[c]) = ToSet(stack[c]) \ {k}
      /\ \A d \in Callers \ {c} : stack'[d] = stack[d]
      /\ \A d \in Callers : Holds(d, k) => d = c
  BY UnlockPops
<1>2. /\ phase[c] = "running" /\ asked' = asked
      /\ active' = active \ {k}
      /\ stack' = [stack EXCEPT ![c] = Front(@)]
      /\ queues[k] = <<>> /\ queues' = queues /\ phase' = phase
  BY DEF Unlock, SetFree
<1>3. TypeOK'
  BY <1>1, <1>2 DEF IInv, TypeOK
<1>4. \A d \in Callers : ~Holds(d, k)'
  BY <1>1, <1>2 DEF Holds
<1>5. \A d \in Callers, j \in Keys \ {k} : Holds(d, j)' <=> Holds(d, j)
  BY <1>1, <1>2 DEF Holds
<1>6. MutualExclusion'
  BY <1>1, <1>2, <1>4, <1>5 DEF IInv, MutualExclusion
<1>7. NoReentry'
  BY <1>1 DEF IInv, NoReentry, Distinct
<1>8. ActiveIffHeld'
  BY <1>2, <1>4, <1>5 DEF IInv, ActiveIffHeld
<1>9. QueueIsParked'
  BY <1>2 DEF IInv, QueueIsParked
<1>10. Holds(c, k)
  BY <1>1 DEF Holds
<1> QED BY <1>3, <1>4, <1>5, <1>6, <1>7, <1>8, <1>9, <1>10 DEF IInv

\* Every step preserves it, one lemma per kind of step.
LEMMA NextIInv == IInv /\ [Next]_vars => IInv'
<1> SUFFICES ASSUME IInv, [Next]_vars PROVE IInv'
  OBVIOUS
<1>1. ASSUME NEW c \in Callers, Resume(c) PROVE IInv'
  BY <1>1, ResumeStep
<1>2. ASSUME NEW c \in Callers, TimeOut(c) PROVE IInv'
  BY <1>2, TimeOutStep
<1>3. ASSUME NEW c \in Callers, Unlock(c) PROVE IInv'
  <2>1. Last(stack[c]) \in Keys
    BY <1>3, UnlockPops
  <2>2. PICK k \in Keys : k = Last(stack[c])
    BY <2>1
  <2>3. HandOver(k) \/ SetFree(k)
    BY <1>3, <2>2 DEF Unlock
  <2> QED BY <1>3, <2>2, <2>3, HandOverStep, SetFreeStep
<1>4. ASSUME NEW c \in Callers, NEW k \in Keys, Lock(c, k) PROVE IInv'
  BY <1>4, LockFreeStep, LockBusyStep DEF Lock
<1>5. CASE UNCHANGED vars
  BY <1>5 DEF IInv, vars, TypeOK, MutualExclusion, NoReentry, ActiveIffHeld,
              QueueIsParked, Holds
<1> QED BY <1>1, <1>2, <1>3, <1>4, <1>5 DEF Next

-----------------------------------------------------------------------------
\* The lock manager keeps all parts of its invariant, whatever its callers do.
THEOREM Invariance == Spec => []IInv
<1> QED BY InitIInv, NextIInv, PTL DEF Spec

\* The variables of KeyedLockManager keep their types.
THEOREM Typing == Spec => []TypeOK
<1>1. IInv => TypeOK
  BY DEF IInv
<1> QED BY <1>1, Invariance, PTL

\* "Strictly sequential execution per key" (lock.ts acquire), for any number
\* of callers, keys and nested acquires.
THEOREM Exclusion == Spec => [](MutualExclusion /\ NoReentry)
<1>1. IInv => MutualExclusion /\ NoReentry
  BY DEF IInv
<1> QED BY <1>1, Invariance, PTL

\* No execution leaks a locked key or frees a key in use, and the queue of a
\* key is exactly the callers parked for it (lock.ts lock, unlock).
THEOREM NoLeak == Spec => [](ActiveIffHeld /\ QueueIsParked)
<1>1. IInv => ActiveIffHeld /\ QueueIsParked
  BY DEF IInv
<1> QED BY <1>1, Invariance, PTL

\* A queue holds exactly the callers that are parked for its key, once each: none
\* is granted a key after its timer, none is forgotten (lock.ts lock, unlock).
THEOREM QueueExact == Spec => []QueueIsParked
BY NoLeak, PTL
-----------------------------------------------------------------------------
\* A step that grants a key grants it to the head of the key's queue.
LEMMA FifoStep ==
  ASSUME IInv, [Next]_vars, NEW c \in Callers, NEW k \in Keys,
         phase[c] # "granted", phase'[c] = "granted", asked'[c] = k
  PROVE  queues[k] = <<>> \/ c = Head(queues[k])
<1>1. ASSUME NEW d \in Callers, NEW j \in Keys, Lock(d, j)
      PROVE  queues[k] = <<>> \/ c = Head(queues[k])
  <2>1. d = c /\ j = k /\ k \notin active
    BY <1>1 DEF Lock, LockFree, LockBusy, IInv, TypeOK
  <2> QED BY <2>1 DEF IInv, QueueIsParked
<1>2. ASSUME NEW d \in Callers, Unlock(d)
      PROVE  queues[k] = <<>> \/ c = Head(queues[k])
  <2>1. PICK j \in Keys : j = Last(stack[d])
    BY <1>2, UnlockPops
  <2>2. HandOver(j) /\ asked' = asked
    BY <1>2, <2>1 DEF Unlock, SetFree
  <2>3. queues[j] \in Seq(Callers) /\ Distinct(queues[j]) /\ queues[j] # <<>>
    BY <2>2 DEF IInv, TypeOK, QueueIsParked, Distinct, HandOver
  <2>4. Head(queues[j]) \in Callers /\ Head(queues[j]) \in ToSet(queues[j])
    BY <2>3, TailFacts
  <2>5. asked[Head(queues[j])] = j
    BY <2>4 DEF IInv, QueueIsParked
  <2>6. c = Head(queues[j])
    BY <2>2, <2>4 DEF HandOver, IInv, TypeOK
  <2> QED BY <2>2, <2>5, <2>6
<1>3. ASSUME NEW d \in Callers, Resume(d) PROVE FALSE
  BY <1>3 DEF Resume, IInv, TypeOK
<1>4. ASSUME NEW d \in Callers, TimeOut(d) PROVE FALSE
  BY <1>4 DEF TimeOut, IInv, TypeOK
<1>5. CASE UNCHANGED vars
  BY <1>5 DEF vars
<1> QED BY <1>1, <1>2, <1>3, <1>4, <1>5 DEF Next

\* First come, first served for any number of callers: the key goes to the
\* head of its queue and nobody barges past parked callers (lock.ts lock 45-48,
\* unlock 84-90).
THEOREM Fifo == Spec => FifoGrant
<1>1. IInv /\ [Next]_vars
        => [\A c \in Callers, k \in Keys :
              phase[c] # "granted" /\ phase'[c] = "granted" /\ asked'[c] = k
                => queues[k] = <<>> \/ c = Head(queues[k])]_vars
  BY FifoStep
<1> QED BY <1>1, Invariance, PTL DEF Spec, FifoGrant
-----------------------------------------------------------------------------
\* Under mutual exclusion the abstract owner is the one holder, before a step
\* and after it.
LEMMA OwnerIs ==
  ASSUME IInv, NEW k \in Keys
  PROVE  /\ \A c \in Callers : Holds(c, k) => Owner[k] = c
         /\ (\A c \in Callers : ~Holds(c, k)) => Owner[k] = Nobody
<1>1. \A c, d \in Callers : Holds(c, k) /\ Holds(d, k) => c = d
  BY DEF IInv, MutualExclusion
<1> QED BY <1>1 DEF Owner

\* The same of the next state.
LEMMA OwnerIsNext ==
  ASSUME IInv', NEW k \in Keys
  PROVE  /\ \A c \in Callers : Holds(c, k)' => Owner'[k] = c
         /\ (\A c \in Callers : ~Holds(c, k)') => Owner'[k] = Nobody
<1>1. \A c, d \in Callers : Holds(c, k)' /\ Holds(d, k)' => c = d
  BY DEF IInv, MutualExclusion
<1> QED BY <1>1 DEF Owner

\* The owner of a key changes only with its holders.
LEMMA OwnerSame ==
  ASSUME IInv, IInv', NEW k \in Keys,
         \A c \in Callers : Holds(c, k)' <=> Holds(c, k)
  PROVE  Owner'[k] = Owner[k]
<1>1. CASE \E c \in Callers : Holds(c, k)
  BY <1>1, OwnerIs, OwnerIsNext
<1>2. CASE \A c \in Callers : ~Holds(c, k)
  BY <1>2, OwnerIs, OwnerIsNext
<1> QED BY <1>1, <1>2

\* The queues of the implementation, as the abstract sets of parked callers.
Parked == [k \in Keys |-> ToSet(queues[k])]

\* The initial states map to the initial state of the abstract mutex.
LEMMA RefineInit == Init => Mutex!Init
<1> SUFFICES ASSUME Init PROVE Mutex!Init
  OBVIOUS
<1>1. IInv
  BY InitIInv
<1>2. \A c \in Callers, k \in Keys : ~Holds(c, k)
  BY DEF Init, Holds, ToSet
<1>3. Owner = [k \in Keys |-> Nobody]
  BY <1>2 DEF Owner
<1>4. \A k \in Keys : ToSet(queues[k]) = {}
  BY DEF Init, ToSet
<1> QED BY <1>3, <1>4 DEF Mutex!Init

\* One step of the implementation is one step of the mutex, or none.
LEMMA RefineNext == IInv /\ [Next]_vars => [Mutex!Next]_<<Owner, Parked>>
<1> SUFFICES ASSUME IInv, [Next]_vars
             PROVE  [Mutex!Next]_<<Owner, Parked>>
  OBVIOUS
<1> USE DEF Parked
<1>0. /\ Owner  = [k \in Keys |-> Owner[k]] /\ Owner' = [k \in Keys |-> Owner'[k]]
  BY DEF Owner
<1>1. ASSUME NEW c \in Callers, NEW k \in Keys, Lock(c, k), LockFree(c, k)
      PROVE  Mutex!Take(c, k)
  <2>1. /\ IInv'
        /\ \A d \in Callers, j \in Keys :
             Holds(d, j)' <=> Holds(d, j) \/ (d = c /\ j = k)
        /\ \A d \in Callers : ~Holds(d, k)
    BY <1>1, LockFreeStep
  <2>2. Owner[k] = Nobody /\ Owner'[k] = c
    BY <2>1, OwnerIs, OwnerIsNext
  <2>3. \A j \in Keys \ {k} : Owner'[j] = Owner[j]
    BY <2>1, OwnerSame
  <2>4. Owner' = [Owner EXCEPT ![k] = c]
    BY <1>0, <2>2, <2>3
  <2>5. Parked' = Parked
    BY <1>1 DEF LockFree
  <2> QED BY <2>2, <2>4, <2>5 DEF Mutex!Take
<1>2. ASSUME NEW c \in Callers, NEW k \in Keys, Lock(c, k), LockBusy(c, k)
      PROVE  Mutex!Park(c, k)
  <2>1. /\ IInv'
        /\ \A d \in Callers, j \in Keys : Holds(d, j)' <=> Holds(d, j)
        /\ c \notin ToSet(queues[k])
        /\ ToSet(queues'[k]) = ToSet(queues[k]) \cup {c}
        /\ \A j \in Keys \ {k} : queues'[j] = queues[j]
    BY <1>2, LockBusyStep
  <2>2. \A j \in Keys : Owner'[j] = Owner[j]
    BY <2>1, OwnerSame
  <2>3. Owner' = Owner
    BY <1>0, <2>2
  <2>4. Owner[k] # Nobody
    <3>1. \E d \in Callers : Holds(d, k)
      BY <1>2 DEF LockBusy, IInv, ActiveIffHeld
    <3> QED BY <3>1, OwnerIs, NobodyAssumption
  <2>5. Parked' = [Parked EXCEPT ![k] = @ \cup {c}]
    BY <2>1
  <2> QED BY <2>1, <2>3, <2>4, <2>5 DEF Mutex!Park
<1>3. ASSUME NEW c \in Callers, Resume(c)
      PROVE  UNCHANGED <<Owner, Parked>>
  <2>1. IInv' /\ \A d \in Callers, j \in Keys : Holds(d, j)' <=> Holds(d, j)
    BY <1>3, ResumeStep
  <2>2. \A j \in Keys : Owner'[j] = Owner[j]
    BY <2>1, OwnerSame
  <2>3. Owner' = Owner
    BY <1>0, <2>2
  <2> QED BY <1>3, <2>3 DEF Resume
<1>4. ASSUME NEW c \in Callers, TimeOut(c)
      PROVE  \E k \in Keys : Mutex!GiveUp(c, k)
  <2>1. /\ IInv'
        /\ \A d \in Callers, j \in Keys : Holds(d, j)' <=> Holds(d, j)
        /\ asked[c] \in Keys
        /\ c \in ToSet(queues[asked[c]])
        /\ ToSet(queues'[asked[c]]) = ToSet(queues[asked[c]]) \ {c}
        /\ \A j \in Keys \ {asked[c]} : queues'[j] = queues[j]
    BY <1>4, TimeOutStep
  <2>2. PICK k \in Keys : k = asked[c]
    BY <2>1
  <2>3. \A j \in Keys : Owner'[j] = Owner[j]
    BY <2>1, OwnerSame
  <2>4. Owner' = Owner
    BY <1>0, <2>3
  <2>5. Parked' = [Parked EXCEPT ![k] = @ \ {c}]
    BY <2>1, <2>2
  <2>6. Mutex!GiveUp(c, k)
    BY <2>1, <2>2, <2>4, <2>5 DEF Mutex!GiveUp
  <2> QED BY <2>6
<1>5. ASSUME NEW c \in Callers, NEW k \in Keys, k = Last(stack[c]),
             Unlock(c), HandOver(k)
      PROVE  Mutex!PassOn(k)
  <2>1. /\ IInv'
        /\ \E d \in Callers : Holds(d, k)
        /\ \A d \in Callers, j \in Keys \ {k} : Holds(d, j)' <=> Holds(d, j)
        /\ \A j \in Keys \ {k} : queues'[j] = queues[j]
    BY <1>5, HandOverStep
  <2>2. PICK h \in ToSet(queues[k]) :
          /\ h \in Callers
          /\ \A d \in Callers : Holds(d, k)' <=> d = h
          /\ ToSet(queues'[k]) = ToSet(queues[k]) \ {h}
    BY <1>5, HandOverStep
  <2>3. Owner[k] # Nobody /\ Owner'[k] = h
    BY <2>1, <2>2, OwnerIs, OwnerIsNext, NobodyAssumption
  <2>4. \A j \in Keys \ {k} : Owner'[j] = Owner[j]
    BY <2>1, OwnerSame
  <2>5. Owner' = [Owner EXCEPT ![k] = h]
    BY <1>0, <2>3, <2>4
  <2>6. Parked' = [Parked EXCEPT ![k] = @ \ {h}]
    BY <2>1, <2>2
  <2> QED BY <2>2, <2>3, <2>5, <2>6 DEF Mutex!PassOn
<1>6. ASSUME NEW c \in Callers, NEW k \in Keys, k = Last(stack[c]),
             Unlock(c), SetFree(k)
      PROVE  Mutex!Free(k)
  <2>1. /\ IInv'
        /\ \E d \in Callers : Holds(d, k)
        /\ \A d \in Callers : ~Holds(d, k)'
        /\ \A d \in Callers, j \in Keys \ {k} : Holds(d, j)' <=> Holds(d, j)
    BY <1>6, SetFreeStep
  <2>2. Owner[k] # Nobody /\ Owner'[k] = Nobody
    BY <2>1, OwnerIs, OwnerIsNext, NobodyAssumption
  <2>3. \A j \in Keys \ {k} : Owner'[j] = Owner[j]
    BY <2>1, OwnerSame
  <2>4. Owner' = [Owner EXCEPT ![k] = Nobody]
    BY <1>0, <2>2, <2>3
  <2>5. queues[k] = <<>> /\ queues' = queues
    BY <1>6 DEF SetFree
  <2>6. ToSet(queues[k]) = {}
    BY <2>5 DEF ToSet
  <2> QED BY <2>2, <2>4, <2>5, <2>6 DEF Mutex!Free
<1>7. ASSUME NEW c \in Callers, Unlock(c)
      PROVE  \E k \in Keys : Mutex!PassOn(k) \/ Mutex!Free(k)
  <2>1. PICK k \in Keys : k = Last(stack[c])
    BY <1>7, UnlockPops
  <2>2. HandOver(k) \/ SetFree(k)
    BY <1>7, <2>1 DEF Unlock
  <2> QED BY <1>5, <1>6, <1>7, <2>1, <2>2
<1>8. ASSUME NEW c \in Callers, NEW k \in Keys, Lock(c, k)
      PROVE  Mutex!Take(c, k) \/ Mutex!Park(c, k)
  BY <1>1, <1>2, <1>8 DEF Lock
<1>9. CASE UNCHANGED vars
  BY <1>9 DEF vars, Owner, Holds
<1> QED BY <1>3, <1>4, <1>7, <1>8, <1>9 DEF Next, Mutex!Next

\* The FIFO queue, the active set and the timers implement the abstract mutex
\* of KeyedMutex: a key passes from owner to owner, is freed only when nobody
\* is parked, and a caller leaves the queue only by being granted or timing out.
THEOREM Refinement == Spec => ImplementsMutex
<1>1. IInv /\ [Next]_vars => [Mutex!Next]_Mutex!vars
  BY RefineNext DEF Mutex!vars, Parked
<1> QED BY <1>1, RefineInit, Invariance, PTL DEF Spec, ImplementsMutex, Mutex!Spec
=============================================================================
