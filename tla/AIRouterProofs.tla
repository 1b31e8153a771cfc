--------------------------- MODULE AIRouterProofs ---------------------------
(***************************************************************************)
(* The types and the single recovery probe of the AI provider router, for  *)
(* any providers, requests, keys and errors, and for every choice of times *)
(* under which a request is over before a probe window or a quarantine is. *)
(***************************************************************************)
EXTENDS AIRouter, FiniteSetTheorems, TLAPS

(***************************************************************************)
(* Types                                                                   *)
(***************************************************************************)

\* What recordSuccess and recordFailure make of a record is a record.
LEMMA SucceededType ==
  ASSUME NEW h \in Health
  PROVE  Succeeded(h) \in Health
<1> DEFINE state == IF h.state \in {"configured", "degraded"} THEN "healthy" ELSE h.state
<1>1. state \in HealthStates
  BY DEF Health, HealthStates
<1>2. Succeeded(h) = [h EXCEPT !.proven = TRUE, !.consecutive = 0, !.cooldown = 0,
                               !.flagged = FALSE, !.quarantine = 0, !.probe = 0,
                               !.state = state]
  BY DEF Succeeded, Health
<1>3. MaxConsecutive \in Nat
  BY TimesAssumption
<1> HIDE DEF state
<1>4. [proven |-> TRUE, consecutive |-> 0, cooldown |-> 0, flagged |-> FALSE,
       quarantine |-> 0, probe |-> 0, state |-> state] \in Health
  BY <1>1, <1>3 DEF Health
<1> QED BY <1>2, <1>4 DEF Health

LEMMA FailedType ==
  ASSUME NEW h \in Health, NEW error \in Errors
  PROVE  Failed(h, error) \in Health
<1> DEFINE counted == [h EXCEPT !.consecutive = Smaller(@ + 1, MaxConsecutive)]
<1>2. counted \in Health
  BY TimesAssumption DEF Health, Smaller
<1>3. \A time \in Nat, state \in HealthStates : Quarantined(counted, time, state) \in Health
  BY <1>2 DEF Quarantined, Health
<1>4. \A state \in HealthStates : Cooled(counted, state) \in Health
  <2>1. \A n \in Nat : Smaller(n * FailureCooldown, MaxCooldown) \in Nat
    BY TimesAssumption DEF Smaller
  <2> HIDE DEF counted
  <2>2. counted.consecutive \in Nat
    BY <1>2, TimesAssumption DEF Health
  <2> QED BY <1>2, <2>1, <2>2 DEF Cooled, Health
<1>5. [counted EXCEPT !.cooldown = RateCooldown, !.state = "rate_limited"] \in Health
  BY <1>2, TimesAssumption DEF Health, HealthStates, Transient
<1>6. Failed(h, error) \in Health
  <2>1. h.state \in HealthStates
    BY DEF Health
  <2>2. {"no_credits", "auth_failed", "quarantined", "timeout", "network_error", "degraded"}
          \subseteq HealthStates
    BY DEF HealthStates, Persistent, Transient
  <2>3. error \in {"credit", "auth", "rate", "timeout", "network", "other"}
    BY ErrorsAssumption
  <2> HIDE DEF counted
  <2>4. Failed(h, error) =
          CASE error = "credit"  -> Quarantined(counted, CreditRecovery, "no_credits")
            [] error = "auth"    -> Quarantined(counted, AuthRecovery, "auth_failed")
            [] error = "rate"    -> [counted EXCEPT !.cooldown = RateCooldown,
                                                    !.state = "rate_limited"]
            [] error = "timeout" -> Cooled(counted, "timeout")
            [] error = "network" -> Cooled(counted, "network_error")
            [] error = "other"   ->
                 IF counted.consecutive >= Threshold
                 THEN Quarantined(counted, FailureQuarantine, "quarantined")
                 ELSE Cooled(counted, IF h.state \in {"healthy", "configured"}
                                      THEN "degraded" ELSE h.state)
    BY DEF Failed, counted
  <2> QED BY <1>3, <1>4, <1>5, <2>1, <2>2, <2>3, <2>4, TimesAssumption
<1> QED BY <1>6

\* A restored record is a record.
LEMMA RestoredType ==
  ASSUME NEW stored \in {NoFile} \cup [Providers -> Health], NEW available
  PROVE  Records(stored, available) \in [Providers -> Health]
<1>1. CASE stored = NoFile
  <2>1. ASSUME NEW p \in Providers PROVE Fresh(p \in available) \in Health
    <3>1. CASE p \in available
      BY <3>1, TimesAssumption DEF Fresh, Health, HealthStates
    <3>2. CASE p \notin available
      BY <3>2, TimesAssumption DEF Fresh, Health, HealthStates, Persistent
    <3> QED BY <3>1, <3>2
  <2> QED BY <1>1, <2>1 DEF Records
<1>2. CASE stored # NoFile
  <2>1. ASSUME NEW p \in Providers PROVE Loaded(stored[p], p \in available) \in Health
    <3>1. stored[p] \in Health
      BY <1>2
    <3>2. RestoredState(stored[p]) \in HealthStates
      BY <3>1 DEF RestoredState, Health, HealthStates
    <3>3. CASE p \in available
      BY <3>1, <3>2, <3>3 DEF Loaded, Health, HealthStates
    <3>4. CASE p \notin available
      BY <3>1, <3>2, <3>4 DEF Loaded, Health, HealthStates
    <3> QED BY <3>3, <3>4
  <2> QED BY <1>2, <2>1 DEF Records
<1> QED BY <1>1, <1>2

\* Neither do the probe window, the file and the clock break a record.
LEMMA SteppedType ==
  ASSUME NEW h \in [Providers -> Health], NEW offered
  PROVE  /\ Saved(h) \in [Providers -> Health]
         /\ Reserved(h, offered) \in [Providers -> Health]
         /\ [p \in Providers |-> Later(h[p])] \in [Providers -> Health]
<1>1. \A r \in Health : /\ [r EXCEPT !.cooldown = 0] \in Health
                        /\ [r EXCEPT !.probe = ProbeWindow] \in Health
                        /\ Later(r) \in Health
  <2> TAKE r \in Health
  <2>1. \A n \in Nat : Down(n) \in Nat
    BY DEF Down
  <2>2. Later(r) \in Health
    BY <2>1 DEF Later, Health
  <2> QED BY <2>2, TimesAssumption DEF Health
<1> QED BY <1>1 DEF Saved, Reserved

\* A request that starts has an attempt.
LEMMA OrderType ==
  ASSUME NEW p \in Available
  PROVE  Smaller(Cardinality(Available), MaxAttempts) \in 1..MaxAttempts
<1>1. IsFiniteSet(Available)
  BY ProvidersAssumption, FS_Subset DEF Available
<1>2. Cardinality(Available) \in Nat /\ Cardinality(Available) # 0
  BY <1>1, FS_CardinalityType, FS_EmptySet
<1> QED BY <1>2, TimesAssumption DEF Smaller

LEMMA TypeInit == Init => TypeOK
<1> SUFFICES ASSUME Init PROVE TypeOK
  OBVIOUS
<1>1. health \in [Providers -> Health]
  BY RestoredType DEF Init
<1>2. req \in [Requests -> Request]
  BY TimesAssumption DEF Init, Idle, Request
<1> QED BY <1>1, <1>2, KeysAssumption DEF Init, TypeOK, Idle, UnderWay

LEMMA TypeStep == TypeOK /\ [Next]_vars => TypeOK'
<1> SUFFICES ASSUME TypeOK, [Next]_vars PROVE TypeOK'
  OBVIOUS
<1> DEFINE ReqType == /\ req \in [Requests -> Request]
                      /\ \A r \in Requests :
                           UnderWay(r) => /\ req[r].attempts >= 1
                                          /\ req[r].calling \notin req[r].left
<1>t. /\ keyed \subseteq Providers /\ health \in [Providers -> Health]
      /\ file \in {NoFile} \cup [Providers -> Health] /\ ReqType
  BY DEF TypeOK
<1>i. Idle \in Request /\ Idle.calling = NoProvider
  BY TimesAssumption DEF Idle, Request
<1>1. ASSUME NEW offered, Reserve(offered)
      PROVE  health' \in [Providers -> Health] /\ file' \in {NoFile} \cup [Providers -> Health]
  BY <1>1, <1>t, SteppedType DEF Reserve
<1>2. ASSUME NEW r \in Requests, NEW p \in Providers, Order(r, p) PROVE TypeOK'
  <2> DEFINE new == [left |-> Available \ {p}, calling |-> p, age |-> 0,
                     attempts |-> Smaller(Cardinality(Available), MaxAttempts)]
  <2>1. /\ new \in Request /\ new.attempts >= 1 /\ new.calling \notin new.left
        /\ req' = [req EXCEPT ![r] = new]
    <3>1. Smaller(Cardinality(Available), MaxAttempts) \in 1..MaxAttempts
      BY <1>2, OrderType DEF Order
    <3> QED BY <1>2, <3>1, TimesAssumption DEF Order, Request, Available
  <2> HIDE DEF new
  <2>2. ReqType'
    BY <2>1, <1>t DEF UnderWay
  <2>3. UNCHANGED keyed /\ Reserve(Available)
    BY <1>2 DEF Order
  <2> QED BY <1>1, <1>t, <2>2, <2>3 DEF TypeOK
<1>3. ASSUME NEW r \in Requests, req' = [req EXCEPT ![r] = Idle] PROVE ReqType'
  BY <1>3, <1>t, <1>i DEF UnderWay
<1>4. ASSUME NEW r \in Requests, Succeed(r) PROVE TypeOK'
  <2>1. req[r].calling \in Providers
    BY <1>4, <1>t DEF Succeed, UnderWay, Request
  <2>2. health' \in [Providers -> Health]
    <3>1. Succeeded(health[req[r].calling]) \in Health
      BY <2>1, <1>t, SucceededType
    <3> QED BY <1>4, <1>t, <3>1 DEF Succeed
  <2>3. file' \in [Providers -> Health]
    BY <1>4, <2>2, SteppedType DEF Succeed
  <2>4. ReqType' /\ keyed' = keyed
    BY <1>4, <1>3 DEF Succeed
  <2> QED BY <1>t, <2>2, <2>3, <2>4 DEF TypeOK
<1>5. ASSUME NEW r \in Requests, NEW error \in Errors, Fail(r, error) PROVE TypeOK'
  <2>1. req[r].calling \in Providers
    BY <1>5, <1>t DEF Fail, UnderWay, Request
  <2>2. health' \in [Providers -> Health]
    <3>1. Failed(health[req[r].calling], error) \in Health
      BY <2>1, <1>t, FailedType
    <3> QED BY <1>5, <1>t, <3>1 DEF Fail
  <2>3. file' \in [Providers -> Health]
    BY <1>5, <2>2, SteppedType DEF Fail
  <2>4. ReqType'
    <3>1. CASE req' = [req EXCEPT ![r] = Idle]
      BY <3>1, <1>3
    <3>2. ASSUME req[r].attempts > 1, NEW q \in req[r].left,
                 req' = [req EXCEPT ![r] = CallNext(r, q)]
          PROVE  ReqType'
      <4>1. /\ CallNext(r, q) \in Request
            /\ CallNext(r, q).attempts >= 1 /\ CallNext(r, q).calling \notin CallNext(r, q).left
        BY <3>2, <1>t, TimesAssumption DEF CallNext, Request
      <4> QED BY <3>2, <4>1, <1>t DEF UnderWay
    <3> QED BY <1>5, <3>1, <3>2 DEF Fail
  <2>5. keyed' = keyed
    BY <1>5 DEF Fail
  <2> QED BY <1>t, <2>2, <2>3, <2>4, <2>5 DEF TypeOK
<1>6. CASE Inspect
  <2>1. UNCHANGED <<keyed, req>> /\ Reserve(Available)
    BY <1>6 DEF Inspect
  <2> QED BY <2>1, <1>1, <1>t DEF TypeOK, UnderWay
<1>7. CASE Tick
  <2>1. keyed' = keyed /\ health' \in [Providers -> Health]
    BY <1>7, <1>t, SteppedType DEF Tick
  <2>2. file' \in {NoFile} \cup [Providers -> Health]
    BY <1>7, <1>t, SteppedType DEF Tick
  <2>3. ReqType'
    BY <1>7, <1>t DEF Tick, Request, UnderWay
  <2> QED BY <1>t, <2>1, <2>2, <2>3 DEF TypeOK
<1>8. CASE Restart
  <2>1. ReqType'
    BY <1>8, <1>i DEF Restart, UnderWay
  <2>2. health' \in [Providers -> Health]
    BY <1>8, <1>t, RestoredType DEF Restart
  <2> QED BY <1>8, <1>t, <2>1, <2>2, KeysAssumption DEF Restart, TypeOK
<1>9. CASE UNCHANGED vars
  BY <1>9 DEF vars, TypeOK, UnderWay
<1> QED BY <1>2, <1>4, <1>5, <1>6, <1>7, <1>8, <1>9 DEF Next

\* The variables of the router keep their types, a call under way has an attempt
\* left, and the provider it calls is not on its list any more (ai/router.ts,
\* generate, recordFailure, loadHealth).
THEOREM SpecTypeOK == Spec => []TypeOK
BY TypeInit, TypeStep, PTL DEF Spec

(***************************************************************************)
(* The recovery probe                                                      *)
(***************************************************************************)

\* How many more units the request can last at most.
Rest(r) == req[r].attempts - req[r].age

\* A request that still has a flagged provider on its list ends before the
\* quarantine or before the probe window does.
Covered(p) ==
  \A r \in Requests :
    Holds(r, p) => Rest(r) < health[p].quarantine \/ Rest(r) < health[p].probe

\* Of two such requests one ends before the quarantine does.
Shared(p) ==
  \A r, s \in Requests :
    Holds(r, p) /\ Holds(s, p) /\ r # s
      => Rest(r) < health[p].quarantine \/ Rest(s) < health[p].quarantine

ProbeInv == \A p \in Providers : health[p].flagged => Covered(p) /\ Shared(p)

\* What a request can still last is a number, and small.
LEMMA RestType ==
  ASSUME NEW q \in Request, q.attempts >= 1
  PROVE  q.attempts - q.age \in Nat /\ q.attempts - q.age <= MaxAttempts
BY TimesAssumption DEF Request

LEMMA HolderType ==
  ASSUME TypeOK, NEW p \in Providers, NEW r \in Requests, Holds(r, p)
  PROVE  Rest(r) \in Nat /\ Rest(r) <= MaxAttempts
BY RestType DEF TypeOK, Holds, Rest

\* The invariant says more than the property: nothing lasts less than no time.
LEMMA ProbeImplies == TypeOK /\ ProbeInv => OneRecoveryProbe
<1> SUFFICES ASSUME TypeOK, ProbeInv, NEW p \in Providers,
                    health[p].flagged, health[p].quarantine = 0,
                    NEW r \in Requests, NEW s \in Requests,
                    Holds(r, p), Holds(s, p), r # s
             PROVE  FALSE
  BY DEF OneRecoveryProbe
<1>1. Rest(r) < 0 \/ Rest(s) < 0
  BY DEF ProbeInv, Shared
<1> QED BY <1>1, HolderType

\* A step after which no request holds p that did not, or for longer, and p's
\* times are no shorter, keeps p's part of the invariant.
LEMMA KeepsProbe ==
  ASSUME TypeOK, TypeOK', NEW p \in Providers, Covered(p), Shared(p),
         health'[p].quarantine >= health[p].quarantine,
         health'[p].probe >= health[p].probe,
         \A r \in Requests : Holds(r, p)' => Holds(r, p) /\ Rest(r)' <= Rest(r)
  PROVE  Covered(p)' /\ Shared(p)'
<1>1. \A r \in Requests : Holds(r, p)' => Rest(r)' \in Nat
  BY RestType DEF TypeOK, Holds, Rest, UnderWay
<1>2. \A r \in Requests : Holds(r, p) => Rest(r) \in Nat
  BY HolderType
<1>3. /\ health[p].quarantine \in Nat /\ health'[p].quarantine \in Nat
      /\ health[p].probe \in Nat /\ health'[p].probe \in Nat
  BY DEF TypeOK, Health
<1>4. Covered(p)'
  <2> SUFFICES ASSUME NEW r \in Requests, Holds(r, p)'
               PROVE  Rest(r)' < health'[p].quarantine \/ Rest(r)' < health'[p].probe
    BY DEF Covered
  <2> QED BY <1>1, <1>2, <1>3 DEF Covered
<1>5. Shared(p)'
  <2> SUFFICES ASSUME NEW r \in Requests, NEW s \in Requests, r # s, Holds(r, p)', Holds(s, p)'
               PROVE  Rest(r)' < health'[p].quarantine \/ Rest(s)' < health'[p].quarantine
    BY DEF Shared
  <2> QED BY <1>1, <1>2, <1>3 DEF Shared
<1> QED BY <1>4, <1>5

\* A new quarantine outlasts every request there is.
LEMMA NewQuarantine ==
  ASSUME TypeOK', NEW p \in Providers, health'[p].quarantine > MaxAttempts
  PROVE  Covered(p)' /\ Shared(p)'
<1>1. \A r \in Requests : Holds(r, p)' => Rest(r)' \in Nat /\ Rest(r)' <= MaxAttempts
  BY RestType DEF TypeOK, Holds, Rest, UnderWay
<1>2. health'[p].quarantine \in Nat
  BY DEF TypeOK, Health
<1>3. \A r \in Requests : Holds(r, p)' => Rest(r)' < health'[p].quarantine
  BY <1>1, <1>2, TimesAssumption
<1> QED BY <1>3 DEF Covered, Shared

\* A failure sets the quarantine anew, to one that outlasts every request, or
\* leaves it alone.
LEMMA FailedQuarantine ==
  ASSUME TypeOK, NEW r \in Requests, NEW error \in Errors, Fail(r, error), NEW p \in Providers
  PROVE  \/ health'[p].quarantine > MaxAttempts
         \/ /\ health'[p].flagged = health[p].flagged
            /\ health'[p].quarantine = health[p].quarantine
            /\ health'[p].probe = health[p].probe
<1>t. health \in [Providers -> Health]
  BY DEF TypeOK
<1>1. health' = [health EXCEPT ![req[r].calling] = Failed(@, error)]
  BY DEF Fail
<1>2. CASE p # req[r].calling
  BY <1>1, <1>2, <1>t
<1>3. CASE p = req[r].calling
  <2> DEFINE h == health[p]
             counted == [h EXCEPT !.consecutive = Smaller(@ + 1, MaxConsecutive)]
  <2>1. health'[p] = Failed(h, error)
    BY <1>1, <1>3, <1>t
  <2>2. /\ DOMAIN counted = DOMAIN h /\ counted.flagged = h.flagged
        /\ counted.quarantine = h.quarantine /\ counted.probe = h.probe
        /\ {"quarantine", "probe", "flagged", "cooldown", "state"} \subseteq DOMAIN counted
    BY <1>t DEF Health
  <2>3. error \in {"credit", "auth", "rate", "timeout", "network", "other"}
    BY ErrorsAssumption
  <2> DEFINE f == Failed(h, error)
  <2>4. \/ \E time \in {CreditRecovery, AuthRecovery, FailureQuarantine} : \E state :
             f = Quarantined(counted, time, state)
        \/ \E state : f = Cooled(counted, state)
        \/ f = [counted EXCEPT !.cooldown = RateCooldown, !.state = "rate_limited"]
    BY <2>3 DEF Failed
  <2> HIDE DEF counted, f
  <2>5. ASSUME NEW time \in {CreditRecovery, AuthRecovery, FailureQuarantine}, NEW state,
               f = Quarantined(counted, time, state)
        PROVE  f.quarantine > MaxAttempts
    BY <2>2, <2>5, RequestsAreShort DEF Quarantined
  <2>6. ASSUME NEW state, f = Cooled(counted, state)
        PROVE  f.flagged = h.flagged /\ f.quarantine = h.quarantine /\ f.probe = h.probe
    BY <2>2, <2>6 DEF Cooled
  <2>7. CASE f = [counted EXCEPT !.cooldown = RateCooldown, !.state = "rate_limited"]
    BY <2>1, <2>2, <2>7 DEF f
  <2> QED BY <2>1, <2>4, <2>5, <2>6, <2>7 DEF f
<1> QED BY <1>2, <1>3

\* A failure lets no request hold a provider that it did not, or for longer.
LEMMA FailHolds ==
  ASSUME TypeOK, NEW r \in Requests, NEW error \in Errors, Fail(r, error),
         NEW p \in Providers, NEW s \in Requests, Holds(s, p)'
  PROVE  Holds(s, p) /\ Rest(s)' <= Rest(s)
<1>t. req \in [Requests -> Request]
  BY DEF TypeOK
<1>1. CASE s # r
  <2>1. req'[s] = req[s]
    BY <1>1, <1>t DEF Fail
  <2>2. Holds(s, p) /\ Rest(s)' = Rest(s)
    BY <2>1 DEF Holds, UnderWay, Rest
  <2> QED BY <2>2, HolderType
<1>2. CASE s = r
  <2>1. UnderWay(r)
    BY DEF Fail
  <2>2. PICK q \in req[r].left : req' = [req EXCEPT ![r] = CallNext(r, q)]
    <3>1. req' # [req EXCEPT ![r] = Idle]
      BY <1>2, <1>t DEF Holds, UnderWay, Idle
    <3> QED BY <3>1 DEF Fail
  <2>3. /\ req'[r].left = req[r].left \ {q} /\ req'[r].calling = q
        /\ req'[r].attempts = req[r].attempts - 1 /\ req'[r].age = 0
    BY <2>2, <1>t DEF CallNext
  <2>4. Holds(r, p)
    BY <1>2, <2>1, <2>3 DEF Holds
  <2>5. req[r].attempts \in Int /\ req[r].age \in {0, 1}
    BY <1>t, TimesAssumption DEF Request
  <2> QED BY <1>2, <2>3, <2>4, <2>5 DEF Rest
<1> QED BY <1>1, <1>2

LEMMA ProbeStep == TypeOK /\ TypeOK' /\ ProbeInv /\ [Next]_vars => ProbeInv'
<1> SUFFICES ASSUME TypeOK, TypeOK', ProbeInv, [Next]_vars,
                    NEW p \in Providers, health'[p].flagged
             PROVE  Covered(p)' /\ Shared(p)'
  BY DEF ProbeInv
<1>t. /\ health[p] \in Health /\ health \in [Providers -> Health]
      /\ req \in [Requests -> Request]
  BY DEF TypeOK
<1>1. ASSUME NEW offered, Reserve(offered)
      PROVE  /\ health'[p].flagged = health[p].flagged
             /\ health'[p].quarantine = health[p].quarantine
             /\ health'[p].probe = IF p \in offered /\ health[p].flagged
                                   THEN ProbeWindow ELSE health[p].probe
  BY <1>1, <1>t DEF Reserve, Reserved, Health
<1>2. p \in Available /\ health[p].flagged => health[p].quarantine = 0 /\ health[p].probe = 0
  BY DEF Available, Offered, ProbeDue
<1>3. ASSUME NEW r \in Requests, NEW first \in Providers, Order(r, first)
      PROVE  Covered(p)' /\ Shared(p)'
  <2>1. /\ Reserve(Available)
        /\ ~UnderWay(r) /\ first \in Available
        /\ req'[r].calling = first /\ req'[r].left = Available \ {first}
        /\ \A s \in Requests \ {r} : req'[s] = req[s]
    BY <1>3, <1>t DEF Order
  <2>2. health[p].flagged
    BY <1>1, <2>1
  <2>3. Covered(p) /\ Shared(p)
    BY <2>2 DEF ProbeInv
  <2>4. \A s \in Requests \ {r} : Holds(s, p)' = Holds(s, p) /\ Rest(s)' = Rest(s)
    BY <2>1 DEF Holds, UnderWay, Rest
  <2>5. CASE p \in Available
    <3>1. health[p].quarantine = 0 /\ health[p].probe = 0
      BY <2>2, <2>5, <1>2
    <3>2. \A s \in Requests : ~Holds(s, p)
      BY <3>1, <2>3, HolderType DEF Covered
    <3>3. \A s \in Requests : Holds(s, p)' => s = r
      BY <3>2, <2>4
    <3>4. Holds(r, p)' => Rest(r)' \in Nat /\ Rest(r)' <= MaxAttempts
      BY RestType DEF TypeOK, Holds, Rest, UnderWay
    <3>5. health'[p].probe = ProbeWindow
      BY <1>1, <2>1, <2>2, <2>5
    <3>6. Covered(p)'
      BY <3>3, <3>4, <3>5, TimesAssumption, RequestsAreShort DEF Covered
    <3> QED BY <3>3, <3>6 DEF Shared
  <2>6. CASE p \notin Available
    <3>1. \A s \in Requests : Holds(s, p)' => Holds(s, p) /\ Rest(s)' = Rest(s)
      BY <2>1, <2>4, <2>6 DEF Holds
    <3>2. health'[p].quarantine = health[p].quarantine /\ health'[p].probe = health[p].probe
      BY <1>1, <2>1, <2>6
    <3>3. \A s \in Requests : Holds(s, p)' => Rest(s)' <= Rest(s)
      BY <3>1, HolderType
    <3>4. health[p].quarantine \in Nat /\ health[p].probe \in Nat
      BY <1>t DEF Health
    <3> QED BY <2>3, <3>1, <3>2, <3>3, <3>4, KeepsProbe
  <2> QED BY <2>5, <2>6
<1>4. CASE Inspect
  <2>1. Reserve(Available) /\ req' = req
    BY <1>4 DEF Inspect
  <2>2. Covered(p) /\ Shared(p)
    BY <1>1, <2>1 DEF ProbeInv
  <2>3. \A s \in Requests : Holds(s, p)' => Holds(s, p) /\ Rest(s)' <= Rest(s)
    <3>1. \A s \in Requests : Holds(s, p)' = Holds(s, p) /\ Rest(s)' = Rest(s)
      BY <2>1 DEF Holds, UnderWay, Rest
    <3> QED BY <3>1, HolderType
  <2>4. health'[p].quarantine >= health[p].quarantine /\ health'[p].probe >= health[p].probe
    <3>1. health[p].quarantine \in Nat /\ health[p].probe \in Nat /\ ProbeWindow \in Nat
      BY <1>t, TimesAssumption DEF Health
    <3>2. health'[p].quarantine = health[p].quarantine
      BY <1>1, <2>1
    <3>3. \/ health'[p].probe = health[p].probe
          \/ health'[p].probe = ProbeWindow /\ health[p].probe = 0
      BY <1>1, <1>2, <2>1
    <3> QED BY <3>1, <3>2, <3>3
  <2> QED BY <2>2, <2>3, <2>4, KeepsProbe
<1>5. ASSUME NEW r \in Requests, Succeed(r) PROVE Covered(p)' /\ Shared(p)'
  <2>1. p # req[r].calling /\ health'[p] = health[p]
    BY <1>5, <1>t DEF Succeed, Succeeded, Health
  <2>2. Covered(p) /\ Shared(p)
    BY <2>1 DEF ProbeInv
  <2>3. \A s \in Requests : Holds(s, p)' => Holds(s, p) /\ Rest(s)' <= Rest(s)
    <3>1. \A s \in Requests : Holds(s, p)' => s # r /\ Holds(s, p) /\ Rest(s)' = Rest(s)
      BY <1>5, <1>t DEF Succeed, Idle, Holds, UnderWay, Rest
    <3> QED BY <3>1, HolderType
  <2>4. health[p].quarantine \in Nat /\ health[p].probe \in Nat
    BY <1>t DEF Health
  <2> QED BY <2>1, <2>2, <2>3, <2>4, KeepsProbe
<1>6. ASSUME NEW r \in Requests, NEW error \in Errors, Fail(r, error)
      PROVE  Covered(p)' /\ Shared(p)'
  <2>1. CASE health'[p].quarantine > MaxAttempts
    BY <2>1, NewQuarantine
  <2>2. CASE ~(health'[p].quarantine > MaxAttempts)
    <3>1. /\ health'[p].flagged = health[p].flagged
          /\ health'[p].quarantine = health[p].quarantine
          /\ health'[p].probe = health[p].probe
      BY <1>6, <2>2, FailedQuarantine
    <3>2. Covered(p) /\ Shared(p)
      BY <3>1 DEF ProbeInv
    <3>3. \A s \in Requests : Holds(s, p)' => Holds(s, p) /\ Rest(s)' <= Rest(s)
      BY <1>6, FailHolds
    <3>4. health[p].quarantine \in Nat /\ health[p].probe \in Nat
      BY <1>t DEF Health
    <3> QED BY <3>1, <3>2, <3>3, <3>4, KeepsProbe
  <2> QED BY <2>1, <2>2
<1>7. CASE Tick
  <2>1. /\ health'[p].flagged = health[p].flagged
        /\ health'[p].quarantine = Down(health[p].quarantine)
        /\ health'[p].probe = Down(health[p].probe)
    BY <1>7, <1>t DEF Tick, Later, Health
  <2>2. Covered(p) /\ Shared(p)
    BY <2>1 DEF ProbeInv
  <2>3. \A s \in Requests : Holds(s, p)' => Holds(s, p) /\ Rest(s)' = Rest(s) - 1
    <3> SUFFICES ASSUME NEW s \in Requests, Holds(s, p)'
                 PROVE  Holds(s, p) /\ Rest(s)' = Rest(s) - 1
      OBVIOUS
    <3>1. req[s] \in Request /\ req[s].age = 0
      BY <1>7, <1>t DEF Tick
    <3>2. req'[s] = [req[s] EXCEPT !.age = IF UnderWay(s) THEN 1 ELSE 0]
      BY <1>7, <1>t DEF Tick
    <3>3. Holds(s, p)
      BY <3>1, <3>2 DEF Holds, UnderWay, Request
    <3>4. req'[s].age = 1 /\ req'[s].attempts = req[s].attempts
      BY <3>1, <3>2, <3>3 DEF Holds, Request
    <3>5. req[s].attempts \in Int
      BY <3>1, TimesAssumption DEF Request
    <3> QED BY <3>1, <3>3, <3>4, <3>5 DEF Rest
  <2>4. \A s \in Requests : Holds(s, p) => Rest(s) \in Nat
    BY HolderType
  <2>5. \A n \in Nat, k \in Nat : n < k => n - 1 < Down(k)
    BY DEF Down
  <2>6. health[p].quarantine \in Nat /\ health[p].probe \in Nat
    BY <1>t DEF Health
  <2>7. Covered(p)'
    BY <2>1, <2>2, <2>3, <2>4, <2>5, <2>6 DEF Covered
  <2>8. Shared(p)'
    BY <2>1, <2>2, <2>3, <2>4, <2>5, <2>6 DEF Shared
  <2> QED BY <2>7, <2>8
<1>8. CASE Restart
  <2>1. \A s \in Requests : ~Holds(s, p)'
    BY <1>8 DEF Restart, Idle, Holds, UnderWay
  <2> QED BY <2>1 DEF Covered, Shared
<1>9. CASE UNCHANGED vars
  BY <1>9 DEF vars, ProbeInv, Covered, Shared, Holds, UnderWay, Rest
<1> QED BY <1>3, <1>4, <1>5, <1>6, <1>7, <1>8, <1>9 DEF Next

LEMMA ProbeInit == Init => ProbeInv
BY DEF Init, Idle, ProbeInv, Covered, Shared, Holds, UnderWay

\* A provider whose quarantine is over is tried by one request at a time
\* (ai/router.ts, getAvailableProviders: "allow exactly one controlled recovery
\* probe"), whatever was ordered before the quarantine, whatever fails late, and
\* however often the control plane asks.
THEOREM SpecOneRecoveryProbe == Spec => []OneRecoveryProbe
<1>1. Spec => [](TypeOK /\ ProbeInv)
  <2>1. Init => TypeOK /\ ProbeInv
    BY TypeInit, ProbeInit
  <2>2. (TypeOK /\ ProbeInv) /\ [Next]_vars => (TypeOK /\ ProbeInv)'
    BY TypeStep, ProbeStep
  <2> QED BY <2>1, <2>2, PTL DEF Spec
<1> QED BY <1>1, ProbeImplies, PTL
=============================================================================
