------------------------------ MODULE AIRouter ------------------------------
(***************************************************************************)
(* The AI provider router (ai/router.ts): health records of the providers, *)
(* cool-downs, quarantines and their recovery probes, under concurrent     *)
(* requests and restarts.                                                  *)
(*                                                                         *)
(* Times are counted down: cooldown, quarantine and probe hold what is     *)
(* left of cooldownUntil, disabledUntil and recoveryProbeAt, in units of   *)
(* the fifteen seconds after which a provider call is given up.  flagged   *)
(* is disabledUntil > 0: it stays when the quarantine is over, until a     *)
(* call succeeds.  The score that ranks the offered providers is left out: *)
(* any of them can come first.  What follows an await is a step.           *)
(***************************************************************************)
EXTENDS Integers, FiniteSets

CONSTANTS
  Providers,
  Requests,         \* requests that can be under way at a time
  NoProvider,
  MaxAttempts,      \* providers a request tries at most
  RateCooldown, FailureCooldown, MaxCooldown,
  FailureQuarantine, CreditRecovery, AuthRecovery,
  ProbeWindow,      \* PERSISTENT_RECOVERY_PROBE_MS
  Threshold,        \* PERSISTENT_FAILURE_THRESHOLD
  Errors,           \* what calls can fail with
  KeySets,          \* sets of providers whose keys a process is started with
  MaxConsecutive    \* bound: failures in a row that are told apart

ASSUME ProvidersAssumption == IsFiniteSet(Providers)

ASSUME NoProviderAssumption == NoProvider \notin Providers

ASSUME ErrorsAssumption ==
  Errors \subseteq {"credit", "auth", "rate", "timeout", "network", "other"}

ASSUME KeysAssumption == KeySets \subseteq SUBSET Providers

ASSUME TimesAssumption ==
  /\ MaxAttempts \in Nat \ {0} /\ ProbeWindow \in Nat
  /\ RateCooldown \in Nat /\ FailureCooldown \in Nat /\ MaxCooldown \in Nat
  /\ FailureQuarantine \in Nat /\ CreditRecovery \in Nat /\ AuthRecovery \in Nat
  /\ Threshold \in Nat /\ MaxConsecutive \in Nat /\ MaxConsecutive >= Threshold

\* Six calls of fifteen seconds against five minutes and six hours.
ASSUME RequestsAreShort ==
  /\ MaxAttempts < ProbeWindow
  /\ MaxAttempts < FailureQuarantine
  /\ MaxAttempts < CreditRecovery
  /\ MaxAttempts < AuthRecovery

VARIABLES
  keyed,    \* providers whose isAvailable() holds: the API key is set
  health,   \* health[p] : the record in memory
  file,     \* provider-health.json, or NoFile
  req       \* req[r] : a call of generate()

vars == <<keyed, health, file, req>>

Smaller(a, b) == IF a <= b THEN a ELSE b

Persistent == {"not_configured", "auth_failed", "no_credits", "quarantined"}
Transient  == {"degraded", "timeout", "network_error", "rate_limited"}
HealthStates == Persistent \cup Transient \cup {"configured", "healthy"}

\* proven is successes > 0; failures are counted with the consecutive ones, which
\* every success resets too.
Health == [proven      : BOOLEAN,
           consecutive : 0..MaxConsecutive,
           cooldown    : Nat,
           flagged     : BOOLEAN,
           quarantine  : Nat,
           probe       : Nat,
           state       : HealthStates]

NoFile == <<>>

\* generate(): the offered providers not tried yet, the one being called, the
\* attempts it may still make with this one, and how long the call has lasted.
Request == [left : SUBSET Providers, calling : Providers \cup {NoProvider},
            attempts : 0..MaxAttempts, age : {0, 1}]

Idle == [left |-> {}, calling |-> NoProvider, attempts |-> 0, age |-> 0]

UnderWay(r) == req[r].calling # NoProvider
Holds(r, p) == UnderWay(r) /\ (p = req[r].calling \/ p \in req[r].left)

TypeOK ==
  /\ keyed \subseteq Providers
  /\ health \in [Providers -> Health]
  /\ file \in {NoFile} \cup [Providers -> Health]
  /\ req \in [Requests -> Request]
  /\ \A r \in Requests :
       UnderWay(r) => req[r].attempts >= 1 /\ req[r].calling \notin req[r].left

-----------------------------------------------------------------------------
(***************************************************************************)
(* Start: loadHealth and the constructor.                                  *)
(***************************************************************************)

Fresh(available) ==
  [proven |-> FALSE, consecutive |-> 0, cooldown |-> 0, flagged |-> FALSE,
   quarantine |-> 0, probe |-> 0,
   state |-> IF available THEN "configured" ELSE "not_configured"]

\* restoreHealthStateFromLegacyJson: the state a stored record starts with.
RestoredState(h) ==
  CASE h.state \in Persistent \cup {"configured", "healthy"} -> h.state
    [] h.state \in Transient /\ h.proven  -> "healthy"
    [] h.state \in Transient /\ ~h.proven -> "configured"

\* The cool-down is dropped, the quarantine kept; a key that appeared since the
\* last run gives a provider without any outcome a chance.
Loaded(h, available) ==
  LET state == RestoredState(h) IN
  [h EXCEPT !.cooldown = 0,
            !.state = IF /\ available /\ state = "not_configured"
                         /\ ~h.proven /\ h.consecutive = 0
                      THEN "configured" ELSE state]

Records(stored, available) ==
  [p \in Providers |-> IF stored = NoFile THEN Fresh(p \in available)
                       ELSE Loaded(stored[p], p \in available)]

Init ==
  /\ keyed \in KeySets
  /\ file = NoFile
  /\ health = Records(NoFile, keyed)
  /\ req = [r \in Requests |-> Idle]

\* The process dies and starts again, perhaps with other keys.
Restart ==
  /\ keyed' \in KeySets
  /\ health' = Records(file, keyed')
  /\ req' = [r \in Requests |-> Idle]
  /\ UNCHANGED file

-----------------------------------------------------------------------------
(***************************************************************************)
(* getAvailableProviders                                                   *)
(***************************************************************************)

\* saveHealth: the file is written, through a temporary one and a rename, before
\* the event loop turns; the cool-down is not part of it.
Saved(h) == [p \in Providers |-> [h[p] EXCEPT !.cooldown = 0]]

\* Mutated: the time of the next probe is not looked at.
ProbeDueAlways(p) == TRUE
ProbeDue(p) == health[p].probe = 0

Offered(p) ==
  /\ p \in keyed
  /\ health[p].cooldown = 0
  /\ health[p].quarantine = 0
  /\ health[p].flagged => ProbeDue(p)

Available == {p \in Providers : Offered(p)}

\* Mutated: the window is moved for every flagged provider, offered or not.
ReservedAgain(h, offered) ==
  [p \in Providers |-> IF h[p].flagged /\ h[p].quarantine = 0
                       THEN [h[p] EXCEPT !.probe = ProbeWindow] ELSE h[p]]

\* A flagged provider that is offered has its next probe a window later.
Reserved(h, offered) ==
  [p \in Providers |-> IF p \in offered /\ h[p].flagged
                       THEN [h[p] EXCEPT !.probe = ProbeWindow] ELSE h[p]]

Reserve(offered) ==
  /\ health' = Reserved(health, offered)
  /\ file' = IF health' # health THEN Saved(health') ELSE file

\* getProviderStatus and getCurrentModel of the control plane ask for the
\* available providers too, and call none of them.
Inspect ==
  /\ Reserve(Available)
  /\ UNCHANGED <<keyed, req>>

\* generate() without a cached answer: take the offered providers, in the order
\* of the moment, and call the first.
Order(r, p) ==
  /\ ~UnderWay(r)
  /\ p \in Available
  /\ Reserve(Available)
  /\ req' = [req EXCEPT ![r] =
       [left |-> Available \ {p}, calling |-> p, age |-> 0,
        attempts |-> Smaller(Cardinality(Available), MaxAttempts)]]
  /\ UNCHANGED keyed

-----------------------------------------------------------------------------
(***************************************************************************)
(* The outcome of a call                                                   *)
(***************************************************************************)

\* recordSuccess
Succeeded(h) ==
  [h EXCEPT !.proven = TRUE, !.consecutive = 0, !.cooldown = 0,
            !.flagged = FALSE, !.quarantine = 0, !.probe = 0,
            !.state = IF @ \in {"configured", "degraded"} THEN "healthy" ELSE @]

Quarantined(h, time, state) ==
  [h EXCEPT !.flagged = TRUE, !.quarantine = time, !.probe = time, !.state = state]

Cooled(h, state) ==
  [h EXCEPT !.cooldown = Smaller(h.consecutive * FailureCooldown, MaxCooldown),
            !.state = state]

\* recordFailure, by what the error's text says; the first that fits decides.
Failed(h, error) ==
  LET counted == [h EXCEPT !.consecutive = Smaller(@ + 1, MaxConsecutive)] IN
  CASE error = "credit"  -> Quarantined(counted, CreditRecovery, "no_credits")
    [] error = "auth"    -> Quarantined(counted, AuthRecovery, "auth_failed")
    [] error = "rate"    -> [counted EXCEPT !.cooldown = RateCooldown,
                                            !.state = "rate_limited"]
    [] error = "timeout" -> Cooled(counted, "timeout")
    [] error = "network" -> Cooled(counted, "network_error")
    [] error = "other"   ->
         IF counted.consecutive >= Threshold
         THEN Quarantined(counted, FailureQuarantine, "quarantined")
         ELSE Cooled(counted, IF h.state \in {"healthy", "configured"}
                              THEN "degraded" ELSE h.state)

\* The call answers in time: the request is over.
Succeed(r) ==
  LET p == req[r].calling IN
  /\ UnderWay(r)
  /\ health' = [health EXCEPT ![p] = Succeeded(@)]
  /\ file' = Saved(health')
  /\ req' = [req EXCEPT ![r] = Idle]
  /\ UNCHANGED keyed

\* Mutated: the provider that is called next stays on the list.
CallNextAgain(r, q) ==
  [req[r] EXCEPT !.calling = q, !.attempts = @ - 1, !.age = 0]

CallNext(r, q) ==
  [left |-> req[r].left \ {q}, calling |-> q, attempts |-> req[r].attempts - 1, age |-> 0]

\* The call fails or is given up: the next provider of the list is called,
\* whatever has become of it, or the request fails.
Fail(r, error) ==
  LET p == req[r].calling IN
  /\ UnderWay(r)
  /\ health' = [health EXCEPT ![p] = Failed(@, error)]
  /\ file' = Saved(health')
  /\ \/ /\ req[r].left = {} \/ req[r].attempts = 1
        /\ req' = [req EXCEPT ![r] = Idle]
     \/ /\ req[r].attempts > 1
        /\ \E q \in req[r].left :
             req' = [req EXCEPT ![r] = CallNext(r, q)]
  /\ UNCHANGED keyed

-----------------------------------------------------------------------------
Down(n) == IF n = 0 THEN 0 ELSE n - 1

Later(h) == [h EXCEPT !.cooldown = Down(@), !.quarantine = Down(@), !.probe = Down(@)]

\* Fifteen seconds pass; no call outlives them.
Tick ==
  /\ \A r \in Requests : req[r].age = 0
  /\ health' = [p \in Providers |-> Later(health[p])]
  /\ file' = IF file = NoFile THEN NoFile ELSE [p \in Providers |-> Later(file[p])]
  /\ req' = [r \in Requests |-> [req[r] EXCEPT !.age = IF UnderWay(r) THEN 1 ELSE 0]]
  /\ UNCHANGED keyed

Next ==
  \/ \E r \in Requests :
       \/ \E p \in Providers : Order(r, p)
       \/ Succeed(r)
       \/ \E error \in Errors : Fail(r, error)
  \/ Inspect
  \/ Tick
  \/ Restart

Spec == Init /\ [][Next]_vars

\* Calls end and time passes.
Fairness ==
  /\ \A r \in Requests : WF_vars(Succeed(r) \/ \E error \in Errors : Fail(r, error))
  /\ SF_vars(Tick)

FairSpec == Spec /\ Fairness

-----------------------------------------------------------------------------
\* "Once the quarantine expires, allow exactly one controlled recovery probe": of
\* the requests under way at most one still has a provider on its list whose
\* quarantine is over and which has not answered since, whichever lists were
\* made before the quarantine and however late their calls report.
OneRecoveryProbe ==
  \A p \in Providers :
    health[p].flagged /\ health[p].quarantine = 0
      => \A r, s \in Requests : Holds(r, p) /\ Holds(s, p) => r = s

\* On the list of a request, or no longer in need of that.
TakenUp(p) == (\E r \in Requests : Holds(r, p)) \/ ~health[p].flagged \/ p \notin keyed

\* Two assumptions about who asks: there are always further requests, and from some time
\* on no poll of the control plane comes first when p may be probed.
RequestsKeepComing  == []<><<\E r \in Requests, p \in Providers : Order(r, p)>>_vars
PollsLeaveProbes(p) == <>[][~(Inspect /\ health'[p].probe > health[p].probe)]_vars

\* Under both a provider with a key is not shut out for ever: after its quarantine a
\* request has it on its list, however often requests moved the probe window meanwhile
\* and whatever restarts.  (The request calls it unless another one answers first.)
\* Requests alone are not enough: polls can take every probe that falls due, call
\* nobody, and so keep the provider from all requests.
QuarantineEnds ==
  \A p \in Providers :
    RequestsKeepComing /\ PollsLeaveProbes(p) => (health[p].flagged ~> TakenUp(p))
=============================================================================
