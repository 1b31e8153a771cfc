------------------------------ MODULE KeyedLock ------------------------------
(***************************************************************************)
(* games/lock.ts: KeyedLockManager, the in-memory mutex per string key     *)
(* under every read-modify-write of the bot (player store, claims, builder *)
(* threads).                                                               *)
(*                                                                         *)
(* A caller is one asynchronous control flow.  acquire(key, fn) is         *)
(*     await lock(key);  try { await fn() } finally { unlock(key) }        *)
(* so a caller that calls acquire again from inside fn stacks keys, and    *)
(* gives them back in the reverse order, whether fn returned or threw.     *)
(*                                                                         *)
(* A step is one uninterrupted run of the event loop.  A promise that was  *)
(* resolved lets its caller run only later, hence the phase "granted"      *)
(* between resolve() and the first line of fn.                             *)
(***************************************************************************)
EXTENDS Naturals, Sequences, SequencesExt

CONSTANTS
  Callers,      \* asynchronous control flows that use the lock manager
  Keys,         \* lock names
  Nobody,       \* "no caller", for the abstract owner of a free key
  MaxNesting    \* bound: acquires a caller may have open inside each other

ASSUME NobodyAssumption  == Nobody \notin Callers
ASSUME NestingAssumption == MaxNesting \in Nat

VARIABLES
  active,   \* the set of locked keys
  queues,   \* queues[k] : callers parked for k, oldest first; <<>> = no entry
  phase,    \* phase[c] : "running", "waiting" or "granted"
  asked,    \* asked[c] : the key c waits for or was granted (last one asked)
  stack     \* stack[c] : the keys whose fn c is executing, innermost last

vars == <<active, queues, phase, asked, stack>>

Phases == {"running", "waiting", "granted"}

TypeOK ==
  /\ active \in SUBSET Keys
  /\ queues \in [Keys -> Seq(Callers)]
  /\ phase  \in [Callers -> Phases]
  /\ asked  \in [Callers -> Keys]
  /\ stack  \in [Callers -> Seq(Keys)]

Init ==
  /\ active = {}
  /\ queues = [k \in Keys |-> <<>>]
  /\ phase  = [c \in Callers |-> "running"]
  /\ asked  \in [Callers -> Keys]
  /\ stack  = [c \in Callers |-> <<>>]

(***************************************************************************)
(* acquire() up to its await.  A free key is marked active and the promise *)
(* is already resolved; otherwise the caller is pushed on the key's queue  *)
(* with its timer armed.                                                   *)
(***************************************************************************)
\* (Definitions named after a bug are mutated forms of the one that follows.)
LockFreeUnchecked(c, k) ==
  /\ active' = active \cup {k}
  /\ phase'  = [phase EXCEPT ![c] = "granted"]
  /\ UNCHANGED queues

LockFree(c, k) ==
  /\ k \notin active
  /\ active' = active \cup {k}
  /\ phase'  = [phase EXCEPT ![c] = "granted"]
  /\ UNCHANGED queues

LockBusy(c, k) ==
  /\ k \in active
  /\ queues' = [queues EXCEPT ![k] = Append(@, c)]
  /\ phase'  = [phase EXCEPT ![c] = "waiting"]
  /\ UNCHANGED active

Lock(c, k) ==
  /\ phase[c] = "running"
  /\ Len(stack[c]) < MaxNesting
  /\ LockFree(c, k) \/ LockBusy(c, k)
  /\ asked' = [asked EXCEPT ![c] = k]
  /\ UNCHANGED stack

\* The awaited promise was resolved: fn starts under the key.
Resume(c) ==
  /\ phase[c] = "granted"
  /\ phase' = [phase EXCEPT ![c] = "running"]
  /\ stack' = [stack EXCEPT ![c] = Append(@, asked[c])]
  /\ UNCHANGED <<active, queues, asked>>

TimeOutDisarmed(c) ==
  /\ phase[c] = "waiting" /\ FALSE
  /\ UNCHANGED vars

TimeOutUnspliced(c) ==
  /\ phase[c] = "waiting"
  /\ phase' = [phase EXCEPT ![c] = "running"]
  /\ UNCHANGED <<active, queues, asked, stack>>

\* The timer of a parked caller fires: its entry is spliced out of the queue
\* and acquire() throws LOCK_TIMEOUT, before the try whose finally unlocks.
TimeOut(c) ==
  /\ phase[c] = "waiting"
  /\ \E i \in 1..Len(queues[asked[c]]) :
       /\ queues[asked[c]][i] = c
       /\ queues' = [queues EXCEPT ![asked[c]] = RemoveAt(@, i)]
  /\ phase' = [phase EXCEPT ![c] = "running"]
  /\ UNCHANGED <<active, asked, stack>>

HandOverNewest(k) ==
  /\ queues[k] # <<>>
  /\ queues' = [queues EXCEPT ![k] = Front(@)]
  /\ phase'  = [phase EXCEPT ![Last(queues[k])] = "granted"]
  /\ UNCHANGED active

HandOverInactive(k) ==
  /\ queues[k] # <<>>
  /\ queues' = [queues EXCEPT ![k] = Tail(@)]
  /\ phase'  = [phase EXCEPT ![Head(queues[k])] = "granted"]
  /\ active' = active \ {k}

\* fn has returned or thrown: the finally block unlocks the innermost key,
\* and hands it to the head of the queue without ever making it inactive.
HandOver(k) ==
  /\ queues[k] # <<>>
  /\ queues' = [queues EXCEPT ![k] = Tail(@)]
  /\ phase'  = [phase EXCEPT ![Head(queues[k])] = "granted"]
  /\ UNCHANGED active

SetFreeForgetting(k) ==
  /\ queues[k] = <<>>
  /\ active' = active \ {k}
  /\ queues' = [j \in Keys \ {k} |-> queues[j]]
  /\ UNCHANGED phase

SetFreeEarly(k) ==
  /\ active' = active \ {k}
  /\ UNCHANGED <<queues, phase>>

SetFree(k) ==
  /\ queues[k] = <<>>
  /\ active' = active \ {k}
  /\ UNCHANGED <<queues, phase>>

Unlock(c) ==
  /\ phase[c] = "running"
  /\ stack[c] # <<>>
  /\ HandOver(Last(stack[c])) \/ SetFree(Last(stack[c]))
  /\ stack' = [stack EXCEPT ![c] = Front(@)]
  /\ UNCHANGED asked

Next ==
  \E c \in Callers :
    \/ Resume(c)
    \/ TimeOut(c)
    \/ Unlock(c)
    \/ \E k \in Keys : Lock(c, k)

\* The event loop resumes resolved promises and fires armed timers.  Nothing
\* obliges a caller to lock, and nothing obliges its fn to return.
Fairness ==
  \A c \in Callers : WF_vars(Resume(c)) /\ WF_vars(TimeOut(c))

Spec     == Init /\ [][Next]_vars
FairSpec == Spec /\ Fairness

-----------------------------------------------------------------------------
\* The callers that may believe they own k: resolved for it, or inside its fn.
Holds(c, k) ==
  \/ phase[c] = "granted" /\ asked[c] = k
  \/ k \in ToSet(stack[c])

\* No two callers are ever inside (or resolved for) fn of the same key, and no
\* caller is inside it twice: a nested acquire of a held key parks behind its
\* own caller (lock.ts acquire, lock, unlock).
MutualExclusion ==
  \A k \in Keys : \A c, d \in Callers :
    /\ Holds(c, k) /\ Holds(d, k) => c = d
    /\ phase[c] = "granted" /\ asked[c] = k => k \notin ToSet(stack[c])

\* A caller's nested keys are different ones: part of the inductive invariant that
\* MutualExclusion needs, since leaving the innermost fn gives its key up.
NoReentry ==
  \A c \in Callers : \A i, j \in 1..Len(stack[c]) :
    stack[c][i] = stack[c][j] => i = j

\* A key is marked active exactly while somebody owns it: no time-out, throw
\* or hand-over leaks a locked key that nobody will ever unlock, or frees one
\* that is in use.
ActiveIffHeld ==
  \A k \in Keys : k \in active <=> \E c \in Callers : Holds(c, k)

\* A key's queue is exactly the set of callers parked for it, once each, and
\* only locked keys have a queue: no waiter is lost and no entry of a caller
\* that timed out stays behind to be granted the lock later.
QueueIsParked ==
  \A k \in Keys :
    /\ \A i, j \in 1..Len(queues[k]) : queues[k][i] = queues[k][j] => i = j
    /\ \A c \in Callers :
         c \in ToSet(queues[k]) <=> phase[c] = "waiting" /\ asked[c] = k
    /\ queues[k] # <<>> => k \in active

\* First come, first served: a parked caller is granted the key only from the
\* head of the queue, and nobody who asks later is granted a key for which
\* callers are parked.
FifoGrant ==
  [][\A c \in Callers, k \in Keys :
       phase[c] # "granted" /\ phase'[c] = "granted" /\ asked'[c] = k
         => queues[k] = <<>> \/ c = Head(queues[k])]_vars

\* Every parked caller stops waiting, even when callers nest the same keys in
\* opposite orders or re-enter their own key: the timer breaks the cycle.
EveryWaitEnds ==
  \A c \in Callers : phase[c] = "waiting" ~> phase[c] # "waiting"

-----------------------------------------------------------------------------
\* Refinement: a key is owned by the caller that holds it, and the callers in
\* its queue are parked.
Owner ==
  [k \in Keys |-> IF \E c \in Callers : Holds(c, k)
                  THEN CHOOSE c \in Callers : Holds(c, k)
                  ELSE Nobody]

Mutex == INSTANCE KeyedMutex WITH
           owner  <- Owner,
           parked <- [k \in Keys |-> ToSet(queues[k])]

\* The FIFO queue, the active set and the timers implement the abstract mutex.
ImplementsMutex == Mutex!Spec
=============================================================================
