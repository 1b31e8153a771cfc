----------------------------- MODULE UpdateManager -----------------------------
(***************************************************************************)
(* Self-update and rollback, core/update-manager.ts, together with the     *)
(* Self-Healer it has to park while it changes the source tree: an update  *)
(* is pulled, put through three gates and restarted into; the new process  *)
(* judges its own health, once it is connected, and rolls the update back  *)
(* when it is not well.                                                    *)
(*                                                                         *)
(* Commits are numbered along the branch.  What survives the process is    *)
(* the source tree, the update record and the lock file; their writes      *)
(* succeed (a failed save is only swallowed).  Dependencies: the promise   *)
(* of installDepsIfNeeded never rejects and never yields false, so that    *)
(* waiting for it changes nothing; it is part of the wait after it.        *)
(*                                                                         *)
(* A rollback takes neither the lock nor isUpdating, and its time limits   *)
(* add up to 5:15, fifteen seconds of them before it begins.  The first    *)
(* check comes due after 5:00: an update can overlap the end of a          *)
(* rollback, and the first of the two to end resumes the healer under the  *)
(* other.                                                                  *)
(***************************************************************************)
EXTENDS SelfHealer

CONSTANTS
  MaxCommit,           \* bound: commits are 0..MaxCommit
  MaxRollbackAttempts  \* config.maxRollbackAttempts

ASSUME BoundsAssumption == MaxCommit \in Nat /\ MaxRollbackAttempts \in Nat \ {0}

VARIABLES
  remote,     \* origin's head
  tree,       \* HEAD of the working tree
  record,     \* the record file
  lock,       \* the lock file: "free", "held", "left" by a dead process, "stale"
  upd,        \* performUpdate: where it is, and its record
  back,       \* startDiscord, postStartValidation and triggerRollback, likewise
  gates,      \* history: gates passed since git or the healer last wrote sources
  rolledBack, \* history: the targets whose rollback has begun
  overlapped  \* history: this process has begun an update during a rollback

updateVars == <<remote, tree, record, lock, upd, back, gates, rolledBack, overlapped>>
vars == <<healerVars, updateVars>>

Commits  == 0..MaxCommit
\* What getShortCommit answers when git does not.
Unknown  == MaxCommit + 1
NoRecord == [state |-> "none", prev |-> 0, target |-> 0, attempt |-> 0, failed |-> {}]

Records ==
  [state : {"none", "UPDATING", "FAILED", "RESTART_PENDING", "HEALTH_CHECKING", "SUCCESS",
            "ROLLING_BACK", "ROLLED_BACK", "ROLLBACK_FAILED"},
   prev : Commits \cup {Unknown}, target : Commits, attempt : 0..MaxRollbackAttempts,
   failed : SUBSET Commits]

GateOrder == <<"typecheck", "build", "tests">>
Gates     == {GateOrder[i] : i \in 1..3}

TypeOK ==
  /\ HealerTypeOK
  /\ remote \in Commits /\ tree \in Commits
  /\ record \in Records
  /\ lock \in {"free", "held", "left", "stale"}
  /\ upd \in [at : {"idle", "fetching", "quiescing", "pulling", "reverting", "exiting"} \cup Gates,
              rec : Records]
  /\ back \in [at : {"idle", "starting", "booting", "settling", "quiescing", "checkout", "rebuilding", "exiting"},
               rec : Records]
  /\ gates \subseteq Gates
  /\ rolledBack \subseteq Commits
  /\ overlapped \in BOOLEAN

NotUpdating == [at |-> "idle", rec |-> NoRecord]
Starting    == [at |-> "starting", rec |-> NoRecord]

Init ==
  /\ HealerInit
  /\ remote = 0 /\ tree = 0
  /\ record = NoRecord
  /\ lock = "free"
  /\ upd = NotUpdating
  /\ back = Starting
  /\ gates = {} /\ rolledBack = {} /\ overlapped = FALSE

-----------------------------------------------------------------------------
(***************************************************************************)
(* Parts of the operations.                                                *)
(***************************************************************************)
\* git moves HEAD to c: the files that nobody changed get new contents.
\* (git leaves a changed file alone, or refuses.)
MovesTo(c) ==
  /\ tree' = c
  /\ gates' = {}
  /\ touched' = [f \in Files |-> IF touched[f] = "no" /\ c # tree THEN "git" ELSE touched[f]]

\* The finally block of performUpdate when the process keeps running.
UpdateOver ==
  /\ upd' = NotUpdating
  /\ lock' = "free"
  /\ Unpark

\* Mutated: the check that nothing is in flight is left out.
IdleAssumed == TRUE
IdleReached == HealerIdle

-----------------------------------------------------------------------------
(***************************************************************************)
(* The environment.                                                        *)
(***************************************************************************)
\* A push, or a branch that is set back to an older commit.
Push ==
  /\ remote' \in Commits \ {remote}
  /\ UNCHANGED <<healerVars, tree, record, lock, upd, back, gates, rolledBack, overlapped>>

\* The process is replaced: the successor finds what is on disk.
Restart ==
  /\ HealerRestart
  /\ upd' = NotUpdating
  /\ back' = Starting
  /\ overlapped' = FALSE
  /\ UNCHANGED <<remote, tree, gates, rolledBack>>

\* The process dies, as often as it may; after SIGTERM stopUpdateManager still
\* deletes the lock file.
Crash ==
  /\ Restart
  /\ lock' \in {IF lock = "held" THEN "left" ELSE lock, "free"}
  /\ UNCHANGED record

\* startDiscord: the login, retried without end, has reached READY, and the first
\* initialiser has started the healer over a fresh snapshot.
Started ==
  /\ back.at = "starting"
  /\ back' = [back EXCEPT !.at = "booting"]
  /\ UNCHANGED <<healerVars, remote, tree, record, lock, upd, gates, rolledBack, overlapped>>

\* No token, or an initialiser throws: the process exits before it judges anything.
StartFails ==
  /\ back.at \in {"starting", "booting"}
  /\ Restart
  /\ UNCHANGED <<record, lock>>

\* Thirty minutes pass; no update takes that long.
LockTurnsStale ==
  /\ lock = "left"
  /\ lock' = "stale"
  /\ UNCHANGED <<healerVars, remote, tree, record, upd, back, gates, rolledBack, overlapped>>

-----------------------------------------------------------------------------
(***************************************************************************)
(* performUpdate.                                                          *)
(***************************************************************************)
\* The timer: unless an update is under way (isUpdating), fetch origin's head.  Five
\* minutes after the start a rollback may still install, build or wait to exit: its
\* earlier waits end after 1:15.
CheckDue ==
  /\ upd.at = "idle"
  /\ back.at \in {"idle", "rebuilding", "exiting"}
  /\ upd' = [upd EXCEPT !.at = "fetching"]
  /\ UNCHANGED <<healerVars, remote, tree, record, lock, back, gates, rolledBack, overlapped>>

\* Origin has another commit than git says is checked out (local), and no failed one.
Wanted(local) == remote # local /\ remote \notin record.failed

\* Nothing new, a target that failed before, the lock is taken, or the fetch failed.
NotNow ==
  /\ upd.at = "fetching"
  /\ upd' = NotUpdating
  /\ UNCHANGED <<healerVars, remote, tree, record, lock, back, gates, rolledBack, overlapped>>

\* Mutated: the new record starts with an empty list of failed targets.
NewRecordForgetful(local) ==
  [NoRecord EXCEPT !.state = "UPDATING", !.prev = local, !.target = remote]
NewRecord(local) ==
  [NoRecord EXCEPT !.state = "UPDATING", !.prev = local, !.target = remote,
                   !.failed = record.failed]

BeginUpdate(local) ==
  /\ upd.at = "fetching"
  /\ Wanted(local)
  /\ lock \in {"free", "stale"}
  /\ lock' = "held"
  /\ upd' = [at |-> "quiescing", rec |-> NewRecord(local)]
  /\ Park
  /\ overlapped' = (overlapped \/ back.at # "idle")
  /\ UNCHANGED <<remote, tree, record, back, gates, rolledBack>>

Quiesced ==
  /\ upd.at = "quiescing"
  /\ IdleReached
  /\ upd' = [upd EXCEPT !.at = "pulling"]
  /\ UNCHANGED <<healerVars, remote, tree, record, lock, back, gates, rolledBack, overlapped>>

\* Two minutes are over: abort, nothing saved.
QuiesceTimedOut ==
  /\ upd.at = "quiescing"
  /\ ~HealerIdle
  /\ UpdateOver
  /\ UNCHANGED <<remote, tree, record, back, gates, rolledBack, overlapped>>

\* The pull (--ff-only) takes what origin has by now, be it newer than the target;
\* when that is older than HEAD, the pull succeeds and changes nothing.
PullDone ==
  /\ upd.at = "pulling"
  /\ MovesTo(IF remote > tree THEN remote ELSE tree)
  /\ upd' = [upd EXCEPT !.at = "typecheck"]
  /\ UNCHANGED <<suspended, updateInProgress, pending, sources, job,
                 remote, record, lock, back, rolledBack, overlapped>>

PullFails ==
  /\ upd.at = "pulling"
  /\ record' = [upd.rec EXCEPT !.state = "FAILED"]
  /\ UpdateOver
  /\ UNCHANGED <<remote, tree, back, gates, rolledBack, overlapped>>

\* Mutated: the suite of critical tests is not waited for.
AfterGateHasty(g) == IF g = "typecheck" THEN "build" ELSE "exiting"
AfterGate(g) ==
  CASE g = "typecheck" -> "build"
    [] g = "build"     -> "tests"
    [] g = "tests"     -> "exiting"

\* After the last gate the record asks the next process to judge, and this one
\* exits in five seconds.
GatePasses(g) ==
  /\ upd.at = g
  /\ gates' = gates \cup {g}
  /\ upd' = [upd EXCEPT !.at = AfterGate(g)]
  /\ record' = IF AfterGate(g) = "exiting"
                 THEN [upd.rec EXCEPT !.state = "RESTART_PENDING"] ELSE record
  /\ UNCHANGED <<healerVars, remote, tree, lock, back, rolledBack, overlapped>>

GateFails(g) ==
  /\ upd.at = g
  /\ record' = [upd.rec EXCEPT !.state = "FAILED"]
  /\ upd' = [upd EXCEPT !.at = "reverting"]
  /\ UNCHANGED <<healerVars, remote, tree, lock, back, gates, rolledBack, overlapped>>

\* The checkout of the previous commit ended; nobody looks at its result.
Reverted ==
  /\ upd.at = "reverting"
  /\ upd' = NotUpdating
  /\ lock' = "free"
  /\ Unpark
  /\ tree' \in {tree} \cup ({upd.rec.prev} \cap Commits)
  /\ gates' = IF tree' = tree THEN gates ELSE {}
  /\ UNCHANGED <<remote, record, back, rolledBack, overlapped>>

\* The five seconds are over, of an update, which saves its record once more, or of a
\* rollback.
Exit ==
  /\ \/ upd.at = "exiting" /\ record' = [upd.rec EXCEPT !.state = "RESTART_PENDING"]
     \/ back.at = "exiting" /\ UNCHANGED record
  /\ lock' = "free"
  /\ Restart

-----------------------------------------------------------------------------
(***************************************************************************)
(* postStartValidation and triggerRollback.                                *)
(***************************************************************************)
\* Mutated: only a rolled-back version is judged.
MustJudgeRestored(r) == r.state = "HEALTH_CHECKING"
MustJudge(r) == r.state \in {"RESTART_PENDING", "HEALTH_CHECKING"}

\* At the end of startDiscord: read the record, and when it waits for a verdict give the
\* process fifteen seconds.
PostStart ==
  /\ back.at = "booting"
  /\ back' = IF MustJudge(record) THEN [at |-> "settling", rec |-> record] ELSE NotUpdating
  /\ UNCHANGED <<healerVars, remote, tree, record, lock, upd, gates, rolledBack, overlapped>>

\* A verdict that ends the matter is saved.
Concludes(state) ==
  /\ record' = [back.rec EXCEPT !.state = state]
  /\ back' = NotUpdating
  /\ UNCHANGED <<remote, tree, lock, upd, gates, rolledBack, overlapped>>

Healthy ==
  /\ back.at = "settling"
  /\ Concludes(IF back.rec.state = "RESTART_PENDING" THEN "SUCCESS" ELSE "ROLLED_BACK")
  /\ UNCHANGED healerVars

\* An unhealthy restored version, one rollback too many, or nothing to go back to.
HopelesslyUnhealthy ==
  /\ back.at = "settling"
  /\ \/ back.rec.state = "HEALTH_CHECKING"
     \/ back.rec.attempt >= MaxRollbackAttempts
     \/ back.rec.prev = Unknown
  /\ Concludes("ROLLBACK_FAILED")
  /\ UNCHANGED healerVars

\* triggerRollback up to its wait for the healer.
BeginRollback ==
  /\ back.at = "settling"
  /\ back.rec.state = "RESTART_PENDING"
  /\ back.rec.attempt < MaxRollbackAttempts
  /\ back.rec.prev # Unknown
  /\ record' = [back.rec EXCEPT !.state = "ROLLING_BACK", !.attempt = @ + 1,
                                !.failed = @ \cup {back.rec.target}]
  /\ back' = [at |-> "quiescing", rec |-> record']
  /\ rolledBack' = rolledBack \cup {back.rec.target}
  /\ Park
  /\ UNCHANGED <<remote, tree, lock, upd, gates, overlapped>>

\* The healer is idle, or thirty seconds are over: go on in either case.
RollbackProceeds ==
  /\ back.at = "quiescing"
  /\ back' = [back EXCEPT !.at = "checkout"]
  /\ UNCHANGED <<healerVars, remote, tree, record, lock, upd, gates, rolledBack, overlapped>>

CheckoutDone ==
  /\ back.at = "checkout"
  /\ MovesTo(back.rec.prev)
  /\ back' = [back EXCEPT !.at = "rebuilding"]
  /\ UNCHANGED <<suspended, updateInProgress, pending, sources, job,
                 remote, record, lock, upd, rolledBack, overlapped>>

RebuildDone ==
  /\ back.at = "rebuilding"
  /\ record' = [back.rec EXCEPT !.state = "HEALTH_CHECKING"]
  /\ back' = [back EXCEPT !.at = "exiting"]
  /\ UNCHANGED <<healerVars, remote, tree, lock, upd, gates, rolledBack, overlapped>>

\* Mutated: the healer stays parked.
AfterFailedRollbackParked == UNCHANGED healerVars
AfterFailedRollback == Unpark

RollbackFails ==
  /\ back.at \in {"checkout", "rebuilding"}
  /\ Concludes("ROLLBACK_FAILED")
  /\ AfterFailedRollback

-----------------------------------------------------------------------------
HealerWrote == \E f \in Files : sources'[f] # sources[f]

HealerStep ==
  /\ back.at # "starting"
  /\ HealerNext
  /\ gates' = IF HealerWrote THEN {} ELSE gates
  /\ UNCHANGED <<remote, tree, record, lock, upd, back, rolledBack, overlapped>>

UpdateGoesOn ==
  \/ NotNow \/ (\E local \in {tree, Unknown} : BeginUpdate(local))
  \/ Quiesced \/ QuiesceTimedOut
  \/ PullDone \/ PullFails
  \/ \E g \in Gates : GatePasses(g) \/ GateFails(g)
  \/ Reverted

Judgement == Healthy \/ HopelesslyUnhealthy \/ BeginRollback

RollbackGoesOn ==
  Judgement \/ RollbackProceeds \/ CheckoutDone \/ RebuildDone \/ RollbackFails

Next ==
  \/ HealerStep
  \/ Push \/ Crash \/ LockTurnsStale
  \/ Started \/ StartFails \/ PostStart
  \/ CheckDue \/ UpdateGoesOn \/ Exit
  \/ RollbackGoesOn

\* Every wait has its own time limit, and a planned exit happens.  Nothing bounds the
\* login, and nothing makes an initialiser return.
Fairness ==
  /\ WF_vars(UpdateGoesOn)
  /\ WF_vars(RollbackGoesOn)
  /\ WF_vars(Exit)

\* An assumption about the version that runs and about the network, which the code
\* cannot give: not every process dies, fails or hangs before it is READY, before the
\* end of startDiscord, or in the fifteen seconds after it.
SomeProcessStaysUp == SF_vars(Started) /\ SF_vars(PostStart) /\ SF_vars(Judgement)

Spec     == Init /\ [][Next]_vars
FairSpec == Spec /\ Fairness

-----------------------------------------------------------------------------
\* From the pull to the exit of an update no verification and no repair is in flight,
\* unless a process has begun an update while its rollback was still under way.
QuiescedUpdate ==
  upd.at \notin {"idle", "fetching", "quiescing"} /\ ~overlapped => HealerIdle

\* The process restarts itself only into sources that passed all three gates
\* and that neither git nor the healer has written to since; with the same exception.
RestartsWhatPassed == upd.at = "exiting" /\ ~overlapped => gates = Gates

\* Polling never takes what git wrote for an edit: no file changed only by a pull or a
\* checkout is ever queued ("no verification storm on the freshly pulled tree"); with
\* the same exception.
NoGitChangeQueued ==
  [][~overlapped => \A f \in pending' \ pending : touched[f] # "git"]_vars

\* A target that was once rolled back is never updated to again, whatever
\* other updates, failures and restarts come in between.
RolledBackNotRetried ==
  upd.at \notin {"idle", "fetching"} => upd.rec.target \notin rolledBack

\* The healer is not parked for ever: an update or a rollback ends, or the
\* process is replaced.
ParkingEnds == suspended ~> ~suspended

\* A version that the process restarted into is judged, although processes die or fail
\* to start over and over between the saved record and the verdict, provided that now
\* and then one stays up long enough: the wait for the verdict survives all of them.
\* (A version none of whose processes stays up is never judged, nor rolled back.)
RestartIsJudged ==
  SomeProcessStaysUp =>
    (record.state = "RESTART_PENDING" /\ ~overlapped
       ~> record.state \in {"SUCCESS", "ROLLING_BACK", "ROLLBACK_FAILED"})

\* "While an update/rollback mutates sources, the Self-Healer performs ... ZERO
\* source writes": from the pull or the checkout on, no AI rewrite is written.
NoRewriteDuringUpdate ==
  [][\A f \in Files : sources'[f] = "ai" /\ sources[f] # "ai" =>
       /\ upd.at \in {"idle", "fetching", "quiescing"}
       /\ back.at \notin {"checkout", "rebuilding", "exiting"}]_vars
=============================================================================
