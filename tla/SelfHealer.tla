------------------------------- MODULE SelfHealer -------------------------------
(***************************************************************************)
(* The Self-Healer, agent/selfHeal.ts with its callback                    *)
(* agent/selfHealCallback.ts: it polls the source files, verifies what     *)
(* changed (typecheck, then tests) and has the AI rewrite a failing file,  *)
(* keeping a backup until the rewrite is verified.  The update manager     *)
(* parks it while it changes the sources (module UpdateManager).           *)
(*                                                                         *)
(* Two workers write sources: "drain", the worker of the polling loop, and *)
(* "task", a task engine step that calls repairFile.  A step is one        *)
(* uninterrupted run of the event loop, between two awaits of a worker.    *)
(***************************************************************************)
EXTENDS Naturals

CONSTANT Files      \* the watched source files

VARIABLES
  suspended,        \* the update manager parked the healer
  updateInProgress, \* the flag of core/update-lifecycle.ts
  pending,          \* pendingChanges: files queued for the drain
  touched,          \* touched[f] : who last changed f since knownFiles saw it, or "no"
  sources,          \* sources[f] : "own", "ai" (an AI rewrite under verification)
                    \* or "stranded" (an AI rewrite that nobody will verify)
  job               \* job[w] : what the worker w is doing

healerVars == <<suspended, updateInProgress, pending, touched, sources, job>>

Workers == {"drain", "task"}
NoFile  == "no file"
Idle    == [at |-> "idle", file |-> NoFile, saved |-> "own", batch |-> {}]

\* repairing: the files whose repair has begun.
RepairStates == {"copying", "thinking", "checking", "retypecheck", "retests", "restoring"}

HealerTypeOK ==
  /\ suspended \in BOOLEAN /\ updateInProgress \in BOOLEAN
  /\ pending \subseteq Files
  /\ touched \in [Files -> {"no", "user", "git", "healer"}]
  /\ sources \in [Files -> {"own", "ai", "stranded"}]
  /\ job \in [Workers -> [at : {"idle", "queued", "typecheck", "tests", "unlinking"}
                               \cup RepairStates,
                          file : Files \cup {NoFile},
                          saved : {"own", "stranded"},
                          batch : SUBSET Files]]

HealerInit ==
  /\ suspended = FALSE /\ updateInProgress = FALSE
  /\ pending = {}
  /\ touched = [f \in Files |-> "no"]
  /\ sources = [f \in Files |-> "own"]
  /\ job = [w \in Workers |-> Idle]

Repairing     == {job[w].file : w \in {v \in Workers : job[v].at \in RepairStates}}
UpdateBlocked == suspended \/ updateInProgress

\* What waitForSelfHealIdle polls for.
HealerIdle == job["drain"].at = "idle" /\ Repairing = {}

-----------------------------------------------------------------------------
(***************************************************************************)
(* Parking and resuming; operators for the update manager's actions.       *)
(***************************************************************************)
\* beginUpdateLifecycle(), suspendSelfHealer()
Park ==
  /\ updateInProgress' = TRUE
  /\ suspended' = TRUE
  /\ pending' = IF suspended THEN pending ELSE {}
  /\ UNCHANGED <<touched, sources, job>>

\* Mutated: polling resumes on the old snapshot.
UnparkStale ==
  /\ updateInProgress' = FALSE
  /\ suspended' = FALSE
  /\ pending' = IF suspended THEN {} ELSE pending
  /\ UNCHANGED <<touched, sources, job>>

\* endUpdateLifecycle(), resumeSelfHealer(): the snapshot is taken again.
Unpark ==
  /\ updateInProgress' = FALSE
  /\ suspended' = FALSE
  /\ pending' = IF suspended THEN {} ELSE pending
  /\ touched' = IF suspended THEN [f \in Files |-> "no"] ELSE touched
  /\ UNCHANGED <<sources, job>>

\* A new process: nothing queued, nothing running, a fresh snapshot of files
\* that hold whatever the last process left in them.
HealerRestart ==
  /\ suspended' = FALSE /\ updateInProgress' = FALSE
  /\ pending' = {}
  /\ touched' = [f \in Files |-> "no"]
  /\ sources' = [f \in Files |-> IF sources[f] = "ai" THEN "stranded" ELSE sources[f]]
  /\ job' = [w \in Workers |-> Idle]

-----------------------------------------------------------------------------
(***************************************************************************)
(* The polling loop and the drain.                                         *)
(***************************************************************************)
\* Somebody edits a file.
UserEdits(f) ==
  /\ touched[f] # "user"
  /\ touched' = [touched EXCEPT ![f] = "user"]
  /\ UNCHANGED <<suspended, updateInProgress, pending, sources, job>>

\* scanForChanges: queue every changed file that is not under repair.
Scan ==
  LET seen == {f \in Files : touched[f] # "no"} \ Repairing IN
  /\ ~UpdateBlocked
  /\ seen # {}
  /\ pending' = pending \cup seen
  /\ touched' = [f \in Files |-> IF f \in seen THEN "no" ELSE touched[f]]
  /\ job' = IF job["drain"].at = "idle"
              THEN [job EXCEPT !["drain"] = [Idle EXCEPT !.at = "queued"]] ELSE job
  /\ UNCHANGED <<suspended, updateInProgress, sources>>

\* The head of the drain's loop, reached with what is pending: clear the queue
\* while an update runs, go round again, or end.
DrainLoop(todo) ==
  IF todo = {} \/ UpdateBlocked
    THEN pending' = {} /\ job' = [job EXCEPT !["drain"] = Idle]
    ELSE pending' = todo /\ job' = [job EXCEPT !["drain"] = [Idle EXCEPT !.at = "queued"]]

\* handleChange for the first file of the batch that it does not return from at
\* once, or the head of the loop.
HandleNext(batch) ==
  LET claimed == batch \cap Repairing
  IN  IF UpdateBlocked \/ batch = claimed
        THEN DrainLoop(pending)
        ELSE /\ \E f \in batch \ claimed, skipped \in SUBSET claimed :
                  job' = [job EXCEPT !["drain"] = [Idle EXCEPT !.at = "copying", !.file = f,
                                                  !.batch = batch \ ({f} \cup skipped)]]
             /\ UNCHANGED pending

\* After setImmediate: take the batch and start its typecheck.
TakeBatch ==
  LET batch == pending \ Repairing IN
  /\ job["drain"].at = "queued"
  /\ IF UpdateBlocked \/ batch = {}
       THEN DrainLoop({})
       ELSE /\ pending' = {}
            /\ job' = [job EXCEPT !["drain"] = [Idle EXCEPT !.at = "typecheck", !.batch = batch]]
  /\ UNCHANGED <<suspended, updateInProgress, touched, sources>>

\* verify() for the batch: typecheck, then tests, unless an update has begun.
BatchTypechecked ==
  /\ job["drain"].at = "typecheck"
  /\ ~UpdateBlocked
  /\ job' = [job EXCEPT !["drain"].at = "tests"]
  /\ UNCHANGED <<suspended, updateInProgress, pending, touched, sources>>

\* It passed, was cut short by an update, or threw: back to the loop.
BatchLeft ==
  /\ job["drain"].at \in {"typecheck", "tests"}
  /\ DrainLoop(pending)
  /\ UNCHANGED <<suspended, updateInProgress, touched, sources>>

\* It failed: the files of the batch are repaired one after the other, on the
\* strength of this one verification.
BatchFailed ==
  /\ job["drain"].at \in {"typecheck", "tests"}
  /\ HandleNext(job["drain"].batch)
  /\ UNCHANGED <<suspended, updateInProgress, touched, sources>>

-----------------------------------------------------------------------------
(***************************************************************************)
(* Repairs: handleChange for the drain, repairFile for a task.             *)
(***************************************************************************)
\* Mutated: a file may be repaired twice at the same time.
MayRepairAnyway(f) == ~UpdateBlocked
MayRepair(f) == ~UpdateBlocked /\ f \notin Repairing

\* repairFile up to the copy of the backup.
RepairRequested(f) ==
  /\ job["task"].at = "idle"
  /\ MayRepair(f)
  /\ job' = [job EXCEPT !["task"] = [Idle EXCEPT !.at = "copying", !.file = f]]
  /\ UNCHANGED <<suspended, updateInProgress, pending, touched, sources>>

\* A repair ends with its file as "result" says, and its finally block begins:
\* the file is no longer under repair.  handleChange counts it as seen at once,
\* repairFile only after the backup is deleted.
RepairOver(w, result) ==
  LET f == job[w].file IN
  /\ sources' = [sources EXCEPT ![f] = result]
  /\ touched' = IF w = "drain" THEN [touched EXCEPT ![f] = "no"] ELSE touched
  /\ job' = [job EXCEPT ![w].at = "unlinking"]
  /\ UNCHANGED <<suspended, updateInProgress, pending>>

BackupDeleted(w) ==
  /\ job[w].at = "unlinking"
  /\ IF w = "drain"
       THEN HandleNext(job[w].batch) /\ UNCHANGED touched
       ELSE /\ job' = [job EXCEPT ![w] = Idle]
            /\ touched' = [touched EXCEPT ![job[w].file] = "no"]
            /\ UNCHANGED pending
  /\ UNCHANGED <<suspended, updateInProgress, sources>>

\* The backup is copied: give up when an update has begun, or ask the AI.
BackupCopied(w) ==
  /\ job[w].at = "copying"
  /\ ~UpdateBlocked
  /\ job' = [job EXCEPT ![w].at = "thinking", ![w].saved = sources[job[w].file]]
  /\ UNCHANGED <<suspended, updateInProgress, pending, touched, sources>>

\* An update has begun, or the copy failed.
BackupAbandoned(w) ==
  /\ job[w].at = "copying"
  /\ RepairOver(w, sources[job[w].file])

\* The callback got an answer from the AI and writes it, whatever began meanwhile.
CallbackWrites(w) ==
  /\ job[w].at = "thinking"
  /\ sources' = [sources EXCEPT ![job[w].file] = "ai"]
  /\ touched' = [touched EXCEPT ![job[w].file] = "healer"]
  /\ job' = [job EXCEPT ![w].at = "checking"]
  /\ UNCHANGED <<suspended, updateInProgress, pending>>

\* The callback has no usable answer, or its own typecheck fails.
CallbackFails(w) ==
  /\ job[w].at \in {"thinking", "checking"}
  /\ job' = [job EXCEPT ![w].at = "restoring"]
  /\ UNCHANGED <<suspended, updateInProgress, pending, touched, sources>>

\* Mutated: a verification that an update cut short counts as passed.
VerdictAborted(at) ==
  CASE at = "retests" \/ UpdateBlocked     -> "passed"
    [] at = "checking" /\ ~UpdateBlocked    -> "retypecheck"
    [] at = "retypecheck" /\ ~UpdateBlocked -> "retests"

\* Where a stage of the final verify() that finds nothing wrong leads: it stops
\* before the typecheck and before the tests when an update has begun.
Verdict(at) ==
  CASE at = "retests"                       -> "passed"
    [] at # "retests" /\ UpdateBlocked      -> "restoring"
    [] at = "checking" /\ ~UpdateBlocked    -> "retypecheck"
    [] at = "retypecheck" /\ ~UpdateBlocked -> "retests"

\* The callback, or a stage of verify() after it, found nothing wrong.
StagePasses(w) ==
  LET next == Verdict(job[w].at) IN
  /\ job[w].at \in {"checking", "retypecheck", "retests"}
  /\ IF next = "passed"
       THEN RepairOver(w, IF job[w].at = "retests" THEN "own" ELSE "ai")
       ELSE /\ job' = [job EXCEPT ![w].at = next]
            /\ UNCHANGED <<suspended, updateInProgress, pending, touched, sources>>

StageFails(w) ==
  /\ job[w].at \in {"retypecheck", "retests"}
  /\ job' = [job EXCEPT ![w].at = "restoring"]
  /\ UNCHANGED <<suspended, updateInProgress, pending, touched, sources>>

\* The backup is copied back; when that fails the file stays as it is.
BackupRestored(w) ==
  /\ job[w].at = "restoring"
  /\ RepairOver(w, job[w].saved)

RestoreFails(w) ==
  /\ job[w].at = "restoring"
  /\ sources[job[w].file] = "ai"
  /\ RepairOver(w, "stranded")

RepairGoesOn(w) ==
  \/ BackupCopied(w) \/ BackupAbandoned(w)
  \/ CallbackWrites(w) \/ CallbackFails(w)
  \/ StagePasses(w) \/ StageFails(w)
  \/ BackupRestored(w) \/ RestoreFails(w)
  \/ BackupDeleted(w)

DrainGoesOn == TakeBatch \/ BatchTypechecked \/ BatchLeft \/ BatchFailed

HealerNext ==
  \/ \E f \in Files : UserEdits(f) \/ RepairRequested(f)
  \/ Scan
  \/ DrainGoesOn
  \/ \E w \in Workers : RepairGoesOn(w)

-----------------------------------------------------------------------------
\* An AI rewrite does not outlive its repair: when no worker is left to verify
\* or restore a file, the file holds no unverified rewrite, unless the process
\* died or the restoring copy itself failed.
VerifiedOrRestored ==
  \A f \in Files : sources[f] = "ai" =>
    \E w \in Workers : job[w].file = f
                       /\ job[w].at \in {"checking", "retypecheck", "retests", "restoring"}
=============================================================================
