-------------------------- MODULE UpdateManagerProofs --------------------------
(***************************************************************************)
(* The update manager and the Self-Healer it parks, for any files, commits *)
(* and bounds (core/update-manager.ts, agent/selfHeal.ts).                 *)
(***************************************************************************)
EXTENDS UpdateManager, TLAPS

JobRecord == [at : {"idle", "queued", "typecheck", "tests", "unlinking"} \cup RepairStates,
              file : Files \cup {NoFile}, saved : {"own", "stranded"}, batch : SUBSET Files]

Mending(j)   == j.at \in RepairStates
Verifying(j) == j.at \in {"checking", "retypecheck", "retests", "restoring"}

\* One worker per file, and every AI rewrite has a worker that will judge it.
HealerInv ==
  /\ HealerTypeOK
  /\ \A w \in Workers : Mending(job[w]) \/ job[w].at = "unlinking" => job[w].file \in Files
  /\ \A v, w \in Workers :
       Mending(job[v]) /\ Mending(job[w]) /\ job[v].file = job[w].file => v = w
  /\ VerifiedOrRestored

-----------------------------------------------------------------------------
LEMMA JobType ==
  ASSUME HealerInv
  PROVE  /\ job \in [Workers -> JobRecord] /\ "drain" \in Workers /\ "task" \in Workers
         /\ sources \in [Files -> {"own", "ai", "stranded"}]
         /\ touched \in [Files -> {"no", "user", "git", "healer"}]
         /\ pending \subseteq Files
BY DEF HealerInv, HealerTypeOK, JobRecord, Workers

LEMMA IdleJob == Idle \in JobRecord /\ ~Mending(Idle) /\ ~Verifying(Idle)
                 /\ Idle.at # "unlinking"
BY DEF Idle, JobRecord, RepairStates, Mending, Verifying

\* Worker w goes on: it takes up a file that nobody mends or keeps its own, and
\* leaves no rewrite behind.
LEMMA WorkerStep ==
  ASSUME HealerInv, NEW w \in Workers, NEW j \in JobRecord, job' = [job EXCEPT ![w] = j],
         UNCHANGED <<suspended, updateInProgress>>,
         pending' \subseteq Files,
         touched' \in [Files -> {"no", "user", "git", "healer"}],
         sources' \in [Files -> {"own", "ai", "stranded"}],
         Mending(j) \/ j.at = "unlinking" => j.file \in Files,
         Mending(j) => \/ Mending(job[w]) /\ j.file = job[w].file
                       \/ j.file \notin Repairing,
         \A f \in Files : sources'[f] = "ai" =>
            \/ j.file = f /\ Verifying(j)
            \/ sources[f] = "ai" /\ ~(job[w].file = f /\ Verifying(job[w]))
  PROVE  HealerInv'
<1>1. job' \in [Workers -> JobRecord] /\ job'[w] = j /\ \A v \in Workers \ {w} : job'[v] = job[v]
  BY JobType
<1>2. HealerTypeOK'
  BY <1>1 DEF HealerInv, HealerTypeOK, JobRecord
<1>3. \A v \in Workers : Mending(job'[v]) \/ job'[v].at = "unlinking" => job'[v].file \in Files
  BY <1>1 DEF HealerInv
<1>4. \A v \in Workers : Mending(job[v]) => job[v].file \in Repairing
  BY DEF Repairing, Mending
<1>5. \A u, v \in Workers :
        Mending(job'[u]) /\ Mending(job'[v]) /\ job'[u].file = job'[v].file => u = v
  BY <1>1, <1>4 DEF HealerInv
<1>6. VerifiedOrRestored'
  <2>1. ASSUME NEW f \in Files, sources'[f] = "ai"
        PROVE  \E v \in Workers : job'[v].file = f /\ Verifying(job'[v])
    <3>1. CASE j.file = f /\ Verifying(j)
      BY <1>1, <3>1
    <3>2. CASE sources[f] = "ai" /\ ~(job[w].file = f /\ Verifying(job[w]))
      <4>1. PICK v \in Workers : job[v].file = f /\ Verifying(job[v])
        BY <3>2 DEF HealerInv, VerifiedOrRestored, Verifying
      <4> QED BY <1>1, <3>2, <4>1
    <3> QED BY <2>1, <3>1, <3>2
  <2> QED BY <2>1 DEF VerifiedOrRestored, Verifying
<1> QED BY <1>2, <1>3, <1>5, <1>6 DEF HealerInv, Mending

\* The same when no worker moves.
LEMMA NoWorkerStep ==
  ASSUME HealerInv, UNCHANGED <<job, sources>>,
         suspended' \in BOOLEAN, updateInProgress' \in BOOLEAN,
         pending' \subseteq Files,
         touched' \in [Files -> {"no", "user", "git", "healer"}]
  PROVE  HealerInv'
<1>1. HealerTypeOK'
  BY DEF HealerInv, HealerTypeOK
<1>2. VerifiedOrRestored'
  BY DEF HealerInv, VerifiedOrRestored
<1> QED BY <1>1, <1>2 DEF HealerInv, Mending

\* The drain leaves its loop, or goes round again.
LEMMA DrainLoopStep ==
  ASSUME HealerInv, ~Mending(job["drain"]), NEW todo \in SUBSET Files, DrainLoop(todo),
         UNCHANGED <<suspended, updateInProgress, touched, sources>>
  PROVE  HealerInv'
<1> DEFINE queued == [Idle EXCEPT !.at = "queued"]
<1>1. queued \in JobRecord /\ ~Mending(queued) /\ ~Verifying(queued) /\ queued.at # "unlinking"
  BY DEF Idle, JobRecord, RepairStates, Mending, Verifying
<1>2. ~Verifying(job["drain"])
  BY DEF Mending, Verifying, RepairStates
<1> HIDE DEF queued
<1>3. PICK j \in JobRecord : /\ job' = [job EXCEPT !["drain"] = j]
                             /\ ~Mending(j) /\ ~Verifying(j) /\ j.at # "unlinking"
  BY <1>1, IdleJob DEF DrainLoop, queued
<1>4. pending' \subseteq Files
  BY DEF DrainLoop
<1> QED BY <1>2, <1>3, <1>4, JobType, WorkerStep

\* The drain takes the next file of its batch that nobody else mends.
LEMMA HandleNextStep ==
  ASSUME HealerInv, ~Mending(job["drain"]), NEW batch \in SUBSET Files, HandleNext(batch),
         UNCHANGED <<suspended, updateInProgress, touched, sources>>
  PROVE  HealerInv'
<1>1. CASE DrainLoop(pending)
  BY <1>1, DrainLoopStep, JobType
<1>2. CASE ~DrainLoop(pending)
  <2>1. PICK f \in batch \ (batch \cap Repairing), skipped \in SUBSET (batch \cap Repairing) :
          job' = [job EXCEPT !["drain"] = [Idle EXCEPT !.at = "copying", !.file = f,
                                                       !.batch = batch \ ({f} \cup skipped)]]
    BY <1>2 DEF HandleNext
  <2>2. pending' = pending
    BY <1>2 DEF HandleNext
  <2> DEFINE j == [Idle EXCEPT !.at = "copying", !.file = f, !.batch = batch \ ({f} \cup skipped)]
  <2>3. j \in JobRecord /\ Mending(j) /\ ~Verifying(j) /\ j.file = f
    BY <2>1 DEF Idle, JobRecord, RepairStates, Mending, Verifying
  <2>4. ~Verifying(job["drain"])
    BY DEF Mending, Verifying, RepairStates
  <2>5. job' = [job EXCEPT !["drain"] = j] /\ f \in Files /\ f \notin Repairing
    BY <2>1
  <2> HIDE DEF j
  <2> QED BY <2>2, <2>3, <2>4, <2>5, JobType, WorkerStep
<1> QED BY <1>1, <1>2
-----------------------------------------------------------------------------
(***************************************************************************)
(* The steps of the healer.                                                *)
(***************************************************************************)

LEMMA HealerPolls ==
  ASSUME HealerInv, Scan \/ \E f \in Files : UserEdits(f)
  PROVE  HealerInv'
<1>1. ASSUME NEW f \in Files, UserEdits(f) PROVE HealerInv'
  <2>1. /\ touched' \in [Files -> {"no", "user", "git", "healer"}]
        /\ UNCHANGED <<suspended, updateInProgress, pending, sources, job>>
    BY <1>1, JobType DEF UserEdits
  <2>2. suspended \in BOOLEAN /\ updateInProgress \in BOOLEAN /\ pending \subseteq Files
    BY DEF HealerInv, HealerTypeOK
  <2> QED BY <2>1, <2>2, NoWorkerStep
<1>2. ASSUME Scan PROVE HealerInv'
  <2> DEFINE j == IF job["drain"].at = "idle" THEN [Idle EXCEPT !.at = "queued"] ELSE job["drain"]
  <2>1. /\ pending' \subseteq Files
        /\ touched' \in [Files -> {"no", "user", "git", "healer"}]
        /\ UNCHANGED <<suspended, updateInProgress, sources>>
    BY <1>2, JobType DEF Scan
  <2>2. job' = [job EXCEPT !["drain"] = j]
    BY <1>2, JobType DEF Scan
  <2>3. j \in JobRecord /\ (Mending(j) => j = job["drain"])
        /\ (Mending(j) \/ j.at = "unlinking" => j.file \in Files)
        /\ (Verifying(job["drain"]) => j = job["drain"])
    <3>1. CASE job["drain"].at = "idle"
      BY <3>1 DEF Idle, JobRecord, RepairStates, Mending, Verifying
    <3>2. CASE job["drain"].at # "idle"
      BY <3>2, JobType DEF HealerInv
    <3> QED BY <3>1, <3>2
  <2> HIDE DEF j
  <2>4. \A f \in Files : sources'[f] = "ai" =>
          \/ j.file = f /\ Verifying(j)
          \/ sources[f] = "ai" /\ ~(job["drain"].file = f /\ Verifying(job["drain"]))
    BY <2>1, <2>3
  <2>5. sources' \in [Files -> {"own", "ai", "stranded"}] /\ "drain" \in Workers
    BY <2>1, JobType
  <2>6. Mending(j) => Mending(job["drain"]) /\ j.file = job["drain"].file
    BY <2>3
  <2> QED BY ONLY HealerInv, <2>1, <2>2, <2>3, <2>4, <2>5, <2>6, WorkerStep
<1> QED BY <1>1, <1>2

LEMMA DrainSteps ==
  ASSUME HealerInv, DrainGoesOn
  PROVE  HealerInv'
<1>1. job["drain"].batch \in SUBSET Files /\ pending \in SUBSET Files /\ {} \in SUBSET Files
  BY JobType DEF JobRecord
<1>2. CASE TakeBatch
  <2> DEFINE batch == pending \ Repairing
             j == [Idle EXCEPT !.at = "typecheck", !.batch = batch]
  <2>1. /\ ~Mending(job["drain"]) /\ ~Verifying(job["drain"])
        /\ UNCHANGED <<suspended, updateInProgress, touched, sources>>
    BY <1>2 DEF TakeBatch, Mending, Verifying, RepairStates
  <2>2. CASE DrainLoop({})
    BY <1>1, <2>1, <2>2, DrainLoopStep
  <2>3. CASE pending' = {} /\ job' = [job EXCEPT !["drain"] = j]
    <3>1. j \in JobRecord /\ ~Mending(j) /\ ~Verifying(j) /\ j.at # "unlinking"
      BY <1>1 DEF Idle, JobRecord, RepairStates, Mending, Verifying
    <3> HIDE DEF j
    <3> QED BY <2>1, <2>3, <3>1, JobType, WorkerStep
  <2> QED BY <1>2, <2>2, <2>3 DEF TakeBatch
<1>3. CASE BatchTypechecked
  <2> DEFINE j == [job["drain"] EXCEPT !.at = "tests"]
  <2>1. /\ ~Verifying(job["drain"]) /\ job' = [job EXCEPT !["drain"] = j]
        /\ UNCHANGED <<suspended, updateInProgress, pending, touched, sources>>
    BY <1>3, JobType DEF BatchTypechecked, Verifying
  <2>2. j \in JobRecord /\ ~Mending(j) /\ ~Verifying(j) /\ j.at # "unlinking"
    BY JobType DEF JobRecord, RepairStates, Mending, Verifying
  <2> HIDE DEF j
  <2> QED BY <2>1, <2>2, JobType, WorkerStep
<1>4. CASE BatchLeft \/ BatchFailed
  <2>1. ~Mending(job["drain"]) /\ UNCHANGED <<suspended, updateInProgress, touched, sources>>
    BY <1>4 DEF BatchLeft, BatchFailed, Mending, RepairStates
  <2> QED BY <1>1, <1>4, <2>1, DrainLoopStep, HandleNextStep DEF BatchLeft, BatchFailed
<1> QED BY <1>2, <1>3, <1>4 DEF DrainGoesOn

\* No rewrite is under way in a file of which a backup is being taken.
LEMMA NothingSavedIsUnverified ==
  ASSUME HealerInv, NEW w \in Workers, Mending(job[w]), ~Verifying(job[w])
  PROVE  sources[job[w].file] \in {"own", "stranded"}
<1>1. job[w].file \in Files
  BY DEF HealerInv
<1>2. ASSUME sources[job[w].file] = "ai" PROVE FALSE
  <2>1. PICK v \in Workers : job[v].file = job[w].file /\ Verifying(job[v])
    BY <1>1, <1>2 DEF HealerInv, VerifiedOrRestored, Verifying
  <2>2. Mending(job[v])
    BY <2>1 DEF Mending, Verifying, RepairStates
  <2> QED BY <2>1, <2>2 DEF HealerInv
<1> QED BY <1>1, <1>2, JobType

\* The end of a repair: the file holds no rewrite that nobody judged.
LEMMA RepairOverStep ==
  ASSUME HealerInv, NEW w \in Workers, Mending(job[w]), NEW result \in {"own", "stranded"},
         RepairOver(w, result)
  PROVE  HealerInv'
<1> DEFINE f == job[w].file
           j == [job[w] EXCEPT !.at = "unlinking"]
<1>1. f \in Files
  BY DEF HealerInv
<1>2. /\ sources' = [sources EXCEPT ![f] = result]
      /\ touched' \in [Files -> {"no", "user", "git", "healer"}]
      /\ job' = [job EXCEPT ![w] = j]
      /\ UNCHANGED <<suspended, updateInProgress, pending>>
  BY JobType DEF RepairOver
<1>3. j \in JobRecord /\ ~Mending(j) /\ j.file = f
  BY JobType DEF JobRecord, Mending, RepairStates
<1>4. /\ sources' \in [Files -> {"own", "ai", "stranded"}]
      /\ \A h \in Files : sources'[h] = "ai" => sources[h] = "ai" /\ h # f
  BY <1>1, <1>2, JobType
<1> HIDE DEF j
<1> QED BY <1>1, <1>2, <1>3, <1>4, JobType, WorkerStep

\* A stage of a repair that writes nothing.
LEMMA StageStep ==
  ASSUME HealerInv, NEW w \in Workers, NEW at \in RepairStates, NEW saved \in {"own", "stranded"},
         job' = [job EXCEPT ![w].at = at, ![w].saved = saved],
         Mending(job[w]), Verifying(job[w]) => at \in {"retypecheck", "retests", "restoring"},
         UNCHANGED <<suspended, updateInProgress, pending, touched, sources>>
  PROVE  HealerInv'
<1> DEFINE j == [job[w] EXCEPT !.at = at, !.saved = saved]
<1>1. job' = [job EXCEPT ![w] = j]
  BY JobType
<1>2. j \in JobRecord /\ j.file = job[w].file /\ j.at = at
  BY JobType DEF JobRecord
<1>3. Verifying(job[w]) => Verifying(j)
  BY <1>2 DEF Verifying
<1>4. j.file \in Files
  BY <1>2 DEF HealerInv
<1>5. \A f \in Files : sources'[f] = "ai" =>
        \/ j.file = f /\ Verifying(j)
        \/ sources[f] = "ai" /\ ~(job[w].file = f /\ Verifying(job[w]))
  BY <1>2, <1>3
<1> HIDE DEF j
<1> QED BY <1>1, <1>2, <1>4, <1>5, JobType, WorkerStep

LEMMA RepairSteps ==
  ASSUME HealerInv, NEW w \in Workers, RepairGoesOn(w)
  PROVE  HealerInv'
<1>1. job[w] \in JobRecord /\ job[w].saved \in {"own", "stranded"}
  BY JobType DEF JobRecord
<1>2. CASE BackupCopied(w)
  <2>1. Mending(job[w]) /\ ~Verifying(job[w])
    BY <1>2 DEF BackupCopied, Mending, Verifying, RepairStates
  <2>2. sources[job[w].file] \in {"own", "stranded"} /\ "thinking" \in RepairStates
    BY <2>1, NothingSavedIsUnverified DEF RepairStates
  <2> QED BY <1>2, <2>1, <2>2, StageStep DEF BackupCopied
<1>3. CASE BackupAbandoned(w)
  <2>1. Mending(job[w]) /\ ~Verifying(job[w])
    BY <1>3 DEF BackupAbandoned, Mending, Verifying, RepairStates
  <2> QED BY <1>3, <2>1, NothingSavedIsUnverified, RepairOverStep DEF BackupAbandoned
<1>4. CASE CallbackWrites(w)
  <2> DEFINE f == job[w].file
             j == [job[w] EXCEPT !.at = "checking"]
  <2>1. Mending(job[w]) /\ ~Verifying(job[w])
    BY <1>4 DEF CallbackWrites, Mending, Verifying, RepairStates
  <2>2. f \in Files
    BY <2>1 DEF HealerInv
  <2>3. j \in JobRecord /\ j.file = f /\ Verifying(j)
    BY <1>1 DEF JobRecord, RepairStates, Verifying
  <2>4. /\ job' = [job EXCEPT ![w] = j]
        /\ sources' \in [Files -> {"own", "ai", "stranded"}]
        /\ touched' \in [Files -> {"no", "user", "git", "healer"}]
        /\ \A h \in Files : sources'[h] = "ai" => h = f \/ sources[h] = "ai"
        /\ UNCHANGED <<suspended, updateInProgress, pending>>
    BY <1>4, JobType DEF CallbackWrites
  <2> HIDE DEF j
  <2> QED BY <2>1, <2>2, <2>3, <2>4, JobType, WorkerStep
<1>5. ASSUME NEW at \in {"retypecheck", "retests", "restoring"},
             job[w].at \in {"thinking", "checking", "retypecheck", "retests"},
             job' = [job EXCEPT ![w].at = at],
             UNCHANGED <<suspended, updateInProgress, pending, touched, sources>>
      PROVE  HealerInv'
  <2>1. Mending(job[w]) /\ at \in RepairStates
    BY <1>5 DEF Mending, RepairStates
  <2>2. job' = [job EXCEPT ![w].at = at, ![w].saved = job[w].saved]
    BY <1>1, <1>5, JobType DEF JobRecord
  <2> QED BY <1>1, <1>5, <2>1, <2>2, StageStep
<1>6. CASE CallbackFails(w) \/ StageFails(w)
  BY <1>5, <1>6 DEF CallbackFails, StageFails
<1>7. CASE StagePasses(w)
  <2>1. job[w].at \in {"checking", "retypecheck", "retests"} /\ Mending(job[w])
    BY <1>7 DEF StagePasses, Mending, RepairStates
  <2>2. CASE job[w].at = "retests"
    <3>1. RepairOver(w, "own")
      <4>1. Verdict(job[w].at) = "passed"
        BY <2>2 DEF Verdict
      <4>2. RepairOver(w, IF job[w].at = "retests" THEN "own" ELSE "ai")
        BY <1>7, <4>1 DEF StagePasses
      <4>3. (IF job[w].at = "retests" THEN "own" ELSE "ai") = "own"
        BY <2>2
      <4> QED BY <4>2, <4>3 DEF RepairOver
    <3> QED BY <2>1, <3>1, RepairOverStep
  <2>3. CASE job[w].at # "retests"
    <3>1. Verdict(job[w].at) \in {"retypecheck", "retests", "restoring"}
      BY <2>1, <2>3 DEF Verdict
    <3> QED BY <1>5, <1>7, <2>1, <3>1 DEF StagePasses
  <2> QED BY <2>2, <2>3
<1>8. CASE BackupRestored(w) \/ RestoreFails(w)
  <2>1. Mending(job[w])
    BY <1>8 DEF BackupRestored, RestoreFails, Mending, RepairStates
  <2> QED BY <1>1, <1>8, <2>1, RepairOverStep DEF BackupRestored, RestoreFails
<1>9. CASE BackupDeleted(w)
  <2>1. ~Mending(job[w]) /\ ~Verifying(job[w])
    BY <1>9 DEF BackupDeleted, Mending, Verifying, RepairStates
  <2>2. CASE w = "drain"
    <3>1. job[w].batch \in SUBSET Files
      BY <1>1 DEF JobRecord
    <3> QED BY <1>9, <2>1, <2>2, <3>1, HandleNextStep DEF BackupDeleted
  <2>3. CASE w # "drain"
    <3>1. /\ job' = [job EXCEPT ![w] = Idle]
          /\ touched' \in [Files -> {"no", "user", "git", "healer"}]
          /\ UNCHANGED <<suspended, updateInProgress, pending, sources>>
      BY <1>9, <2>3, JobType DEF BackupDeleted
    <3> QED BY <2>1, <3>1, IdleJob, JobType, WorkerStep
  <2> QED BY <2>2, <2>3
<1> QED BY <1>2, <1>3, <1>4, <1>6, <1>7, <1>8, <1>9 DEF RepairGoesOn

LEMMA RepairRequestStep ==
  ASSUME HealerInv, NEW f \in Files, RepairRequested(f)
  PROVE  HealerInv'
<1> DEFINE j == [Idle EXCEPT !.at = "copying", !.file = f]
<1>1. /\ job' = [job EXCEPT !["task"] = j] /\ f \notin Repairing
      /\ UNCHANGED <<suspended, updateInProgress, pending, touched, sources>>
  BY DEF RepairRequested, MayRepair
<1>2. j \in JobRecord /\ j.file = f /\ ~Verifying(job["task"])
  BY DEF Idle, JobRecord, RepairStates, RepairRequested, Verifying
<1> HIDE DEF j
<1> QED BY <1>1, <1>2, JobType, WorkerStep

\* The healer keeps its own invariant, whatever its worker and a task do.
LEMMA HealerSteps ==
  ASSUME HealerInv, HealerNext
  PROVE  HealerInv'
BY HealerPolls, DrainSteps, RepairSteps, RepairRequestStep DEF HealerNext
\* The update manager's part: parking, a new process, files that git writes.
LEMMA HealerParked ==
  ASSUME HealerInv
  PROVE  /\ Park => HealerInv'
         /\ Unpark => HealerInv'
         /\ HealerRestart => HealerInv'
         /\ UNCHANGED healerVars => HealerInv'
<1>1. /\ suspended \in BOOLEAN /\ updateInProgress \in BOOLEAN
  BY DEF HealerInv, HealerTypeOK
<1>2. ASSUME Park PROVE HealerInv'
  <2>1. /\ UNCHANGED <<job, sources>> /\ suspended' \in BOOLEAN /\ updateInProgress' \in BOOLEAN
        /\ pending' \subseteq Files /\ touched' \in [Files -> {"no", "user", "git", "healer"}]
    BY <1>2, JobType DEF Park
  <2> QED BY <2>1, NoWorkerStep
<1>3. ASSUME Unpark PROVE HealerInv'
  <2>1. /\ UNCHANGED <<job, sources>> /\ suspended' \in BOOLEAN /\ updateInProgress' \in BOOLEAN
        /\ pending' \subseteq Files /\ touched' \in [Files -> {"no", "user", "git", "healer"}]
    BY <1>3, JobType DEF Unpark
  <2> QED BY <2>1, NoWorkerStep
<1>4. ASSUME HealerRestart PROVE HealerInv'
  <2>1. /\ job' = [w \in Workers |-> Idle]
        /\ sources' = [f \in Files |-> IF sources[f] = "ai" THEN "stranded" ELSE sources[f]]
        /\ suspended' = FALSE /\ updateInProgress' = FALSE /\ pending' = {}
        /\ touched' = [f \in Files |-> "no"]
    BY <1>4 DEF HealerRestart
  <2>2. sources' \in [Files -> {"own", "ai", "stranded"}] /\ \A f \in Files : sources'[f] # "ai"
    BY <2>1, JobType
  <2>3. job' \in [Workers -> JobRecord] /\ \A w \in Workers : job'[w] = Idle
    BY <2>1, IdleJob
  <2>4. HealerTypeOK'
    BY <2>1, <2>2, <2>3 DEF HealerTypeOK, JobRecord
  <2> QED BY <2>2, <2>3, <2>4, IdleJob DEF HealerInv, VerifiedOrRestored, Mending
<1>5. ASSUME UNCHANGED healerVars PROVE HealerInv'
  BY <1>1, <1>5, JobType, NoWorkerStep DEF healerVars
<1> QED BY <1>2, <1>3, <1>4, <1>5

LEMMA GitWrites ==
  ASSUME HealerInv, NEW c, MovesTo(c),
         UNCHANGED <<suspended, updateInProgress, pending, sources, job>>
  PROVE  HealerInv'
<1>1. touched' \in [Files -> {"no", "user", "git", "healer"}]
  BY JobType DEF MovesTo
<1>2. suspended \in BOOLEAN /\ updateInProgress \in BOOLEAN
  BY DEF HealerInv, HealerTypeOK
<1> QED BY <1>1, <1>2, JobType, NoWorkerStep

LEMMA HealerStart == Init => HealerInv
<1> SUFFICES ASSUME Init PROVE HealerInv
  OBVIOUS
<1>1. /\ suspended = FALSE /\ updateInProgress = FALSE /\ pending = {}
      /\ touched = [f \in Files |-> "no"] /\ sources = [f \in Files |-> "own"]
      /\ job = [w \in Workers |-> Idle]
  BY DEF Init, HealerInit
<1>2. job \in [Workers -> JobRecord] /\ \A w \in Workers : job[w] = Idle
  BY <1>1, IdleJob
<1>3. HealerTypeOK
  BY <1>1, <1>2 DEF HealerTypeOK, JobRecord
<1> QED BY <1>1, <1>2, <1>3, IdleJob DEF HealerInv, VerifiedOrRestored, Mending

\* Every step of the composed system keeps the healer's invariant.
LEMMA HealerAlways ==
  ASSUME HealerInv, [Next]_vars
  PROVE  HealerInv'
<1>1. ASSUME UpdateGoesOn PROVE HealerInv'
  <2>1. CASE PullDone
    BY <2>1, GitWrites DEF PullDone
  <2>2. CASE ~PullDone
    BY <1>1, <2>2, HealerParked
       DEF UpdateGoesOn, NotNow, BeginUpdate, Quiesced, QuiesceTimedOut, PullFails,
           GatePasses, GateFails, Reverted, UpdateOver
  <2> QED BY <2>1, <2>2
<1>2. ASSUME RollbackGoesOn PROVE HealerInv'
  <2>1. CASE CheckoutDone
    BY <2>1, GitWrites DEF CheckoutDone
  <2>2. CASE ~CheckoutDone
    BY <1>2, <2>2, HealerParked
       DEF RollbackGoesOn, Judgement, Healthy, HopelesslyUnhealthy, BeginRollback,
           RollbackProceeds, RebuildDone, RollbackFails, AfterFailedRollback
  <2> QED BY <2>1, <2>2
<1>3. ASSUME HealerStep PROVE HealerInv'
  BY <1>3, HealerSteps DEF HealerStep
<1>4. ASSUME Push \/ LockTurnsStale \/ CheckDue \/ Started \/ PostStart \/ UNCHANGED vars
      PROVE  HealerInv'
  BY <1>4, HealerParked DEF Push, LockTurnsStale, CheckDue, Started, PostStart, vars
<1>5. ASSUME Crash \/ Exit \/ StartFails PROVE HealerInv'
  BY <1>5, HealerParked DEF Crash, Exit, StartFails, Restart
<1> QED BY <1>1, <1>2, <1>3, <1>4, <1>5 DEF Next

-----------------------------------------------------------------------------
(***************************************************************************)
(* The update manager's own variables, and the targets that failed.        *)
(***************************************************************************)

UpdatePlaces == {"idle", "fetching", "quiescing", "pulling", "reverting", "exiting"} \cup Gates
BackPlaces   == {"idle", "starting", "booting", "settling", "quiescing", "checkout", "rebuilding", "exiting"}

UpdateTypes ==
  /\ remote \in Commits /\ tree \in Commits
  /\ record \in Records
  /\ lock \in {"free", "held", "left", "stale"}
  /\ upd \in [at : UpdatePlaces, rec : Records]
  /\ back \in [at : BackPlaces, rec : Records]
  /\ gates \subseteq Gates
  /\ rolledBack \subseteq Commits
  /\ overlapped \in BOOLEAN

\* What was rolled back is among the failed targets of the record, and of every
\* copy of it that may still be saved.  While a rollback begins nobody looks for an
\* update.
FailedKept ==
  /\ rolledBack \subseteq record.failed
  /\ upd.at \notin {"idle", "fetching"} =>
       rolledBack \subseteq upd.rec.failed /\ upd.rec.target \notin rolledBack
  /\ back.at \notin {"idle", "starting", "booting"} => rolledBack \subseteq back.rec.failed
  /\ upd.at # "idle" => back.at \in {"idle", "rebuilding", "exiting"}
  /\ back.at \in {"quiescing", "checkout"} => back.rec.prev # Unknown

LEMMA GateNames == Gates = {"typecheck", "build", "tests"}
BY DEF Gates, GateOrder

LEMMA RecordType ==
  /\ NoRecord \in Records /\ 0 \in Commits
  /\ \A r \in Records :
       \A s \in {"none", "UPDATING", "FAILED", "RESTART_PENDING", "HEALTH_CHECKING", "SUCCESS",
                 "ROLLING_BACK", "ROLLED_BACK", "ROLLBACK_FAILED"} :
         /\ [r EXCEPT !.state = s] \in Records
         /\ [r EXCEPT !.state = s].failed = r.failed
         /\ [r EXCEPT !.state = s].target = r.target
BY BoundsAssumption DEF NoRecord, Records, Commits

LEMMA UpdateInit == Init => UpdateTypes /\ FailedKept
<1> SUFFICES ASSUME Init PROVE UpdateTypes /\ FailedKept
  OBVIOUS
<1>1. /\ remote = 0 /\ tree = 0 /\ record = NoRecord /\ lock = "free"
      /\ upd = NotUpdating /\ back = Starting
      /\ gates = {} /\ rolledBack = {} /\ overlapped = FALSE
  BY DEF Init
<1>2. /\ NotUpdating.at = "idle" /\ NotUpdating \in [at : UpdatePlaces, rec : Records]
      /\ Starting.at = "starting" /\ Starting \in [at : BackPlaces, rec : Records]
  BY RecordType DEF NotUpdating, Starting, UpdatePlaces, BackPlaces
<1>3. UpdateTypes
  BY <1>1, <1>2, RecordType DEF UpdateTypes
<1>4. FailedKept
  BY <1>1, <1>2 DEF FailedKept
<1> QED BY <1>3, <1>4

\* performUpdate keeps the types and what is known of failed targets.
LEMMA UpdateSteps ==
  ASSUME UpdateTypes, FailedKept, UpdateGoesOn \/ CheckDue \/ HealerStep
  PROVE  UpdateTypes' /\ FailedKept'
<1>1. /\ upd.at \in UpdatePlaces /\ upd.rec \in Records
      /\ upd = [at |-> upd.at, rec |-> upd.rec]
      /\ back.at \in BackPlaces
  BY DEF UpdateTypes
<1>2. CASE HealerStep
  BY <1>2 DEF HealerStep, UpdateTypes, FailedKept
<1>3. CASE CheckDue
  <2>1. upd' = [upd EXCEPT !.at = "fetching"] /\ upd.at = "idle"
        /\ back.at \in {"idle", "rebuilding", "exiting"}
        /\ UNCHANGED <<remote, tree, record, lock, back, gates, rolledBack, overlapped>>
    BY <1>3 DEF CheckDue
  <2>2. upd'.at = "fetching" /\ upd' \in [at : UpdatePlaces, rec : Records]
    BY <1>1, <2>1 DEF UpdatePlaces
  <2> QED BY <2>1, <2>2 DEF UpdateTypes, FailedKept
<1>4. CASE NotNow
  <2>1. NotUpdating.at = "idle" /\ NotUpdating \in [at : UpdatePlaces, rec : Records]
    BY RecordType DEF NotUpdating, UpdatePlaces
  <2> QED BY <1>4, <2>1 DEF NotNow, UpdateTypes, FailedKept
<1>5. ASSUME NEW local \in {tree, Unknown}, BeginUpdate(local) PROVE UpdateTypes' /\ FailedKept'
  <2>1. /\ upd' = [at |-> "quiescing", rec |-> NewRecord(local)] /\ lock' = "held"
        /\ upd.at = "fetching" /\ remote \notin record.failed
        /\ overlapped' \in BOOLEAN
        /\ UNCHANGED <<remote, tree, record, back, gates, rolledBack>>
    BY <1>5 DEF BeginUpdate, Wanted, UpdateTypes
  <2>2. NewRecord(local) \in Records /\ NewRecord(local).failed = record.failed
        /\ NewRecord(local).target = remote
    <3>1. NoRecord \in Records
      BY RecordType
    <3>2. /\ record.failed \in SUBSET Commits /\ remote \in Commits
          /\ local \in Commits \cup {Unknown}
      BY DEF UpdateTypes, Records
    <3> QED BY <3>1, <3>2 DEF NewRecord, Records
  <2>3. upd' \in [at : UpdatePlaces, rec : Records] /\ upd'.at = "quiescing"
        /\ upd'.rec = NewRecord(local)
    BY <2>1, <2>2 DEF UpdatePlaces
  <2> QED BY <2>1, <2>2, <2>3 DEF UpdateTypes, FailedKept
<1>6. CASE Quiesced
  <2>1. upd' = [upd EXCEPT !.at = "pulling"] /\ upd.at = "quiescing"
        /\ UNCHANGED <<remote, tree, record, lock, back, gates, rolledBack, overlapped>>
    BY <1>6 DEF Quiesced
  <2>2. upd'.at = "pulling" /\ upd'.rec = upd.rec /\ upd' \in [at : UpdatePlaces, rec : Records]
    BY <1>1, <2>1 DEF UpdatePlaces
  <2> QED BY <2>1, <2>2 DEF UpdateTypes, FailedKept
<1>7. CASE QuiesceTimedOut \/ PullFails \/ Reverted
  <2>1. /\ upd' = NotUpdating /\ lock' = "free" /\ upd.at \notin {"idle", "fetching"}
        /\ UNCHANGED <<remote, back, rolledBack, overlapped>>
        /\ record' = record \/ record' = [upd.rec EXCEPT !.state = "FAILED"]
        /\ tree' \in {tree} \cup ({upd.rec.prev} \cap Commits) /\ gates' \in {gates, {}}
    BY <1>7 DEF QuiesceTimedOut, PullFails, Reverted, UpdateOver
  <2>2. NotUpdating.at = "idle" /\ NotUpdating \in [at : UpdatePlaces, rec : Records]
    BY RecordType DEF NotUpdating, UpdatePlaces
  <2>3. record' \in Records /\ (record'.failed = record.failed \/ record'.failed = upd.rec.failed)
    <3>1. CASE record' = record
      BY <3>1 DEF UpdateTypes
    <3>2. CASE record' = [upd.rec EXCEPT !.state = "FAILED"]
      BY <1>1, <3>2, RecordType
    <3> QED BY <2>1, <3>1, <3>2
  <2>4. tree' \in Commits
    BY <1>1, <2>1 DEF UpdateTypes, Records
  <2> QED BY <2>1, <2>2, <2>3, <2>4 DEF UpdateTypes, FailedKept
<1>8. CASE PullDone
  <2>1. /\ upd' = [upd EXCEPT !.at = "typecheck"] /\ upd.at = "pulling"
        /\ tree' \in {remote, tree} /\ gates' = {}
        /\ UNCHANGED <<remote, record, lock, back, rolledBack, overlapped>>
    BY <1>8 DEF PullDone, MovesTo
  <2>2. upd'.at = "typecheck" /\ upd'.rec = upd.rec
        /\ upd' \in [at : UpdatePlaces, rec : Records]
    BY <1>1, <2>1, GateNames DEF UpdatePlaces
  <2> QED BY <2>1, <2>2 DEF UpdateTypes, FailedKept
<1>9. ASSUME NEW g \in Gates, GatePasses(g) PROVE UpdateTypes' /\ FailedKept'
  <2>1. AfterGate(g) \in UpdatePlaces /\ AfterGate(g) \notin {"idle", "fetching"}
        /\ g \notin {"idle", "fetching"}
    BY GateNames DEF AfterGate, UpdatePlaces
  <2>2. /\ upd' = [upd EXCEPT !.at = AfterGate(g)] /\ upd.at = g
        /\ gates' = gates \cup {g}
        /\ record' = record \/ record' = [upd.rec EXCEPT !.state = "RESTART_PENDING"]
        /\ UNCHANGED <<remote, tree, lock, back, rolledBack, overlapped>>
    BY <1>9 DEF GatePasses
  <2>3. upd'.at = AfterGate(g) /\ upd'.rec = upd.rec
        /\ upd' \in [at : UpdatePlaces, rec : Records]
    BY <1>1, <2>1, <2>2
  <2>4. record' \in Records /\ (record'.failed = record.failed \/ record'.failed = upd.rec.failed)
    <3>1. CASE record' = record
      BY <3>1 DEF UpdateTypes
    <3>2. CASE record' = [upd.rec EXCEPT !.state = "RESTART_PENDING"]
      BY <1>1, <3>2, RecordType
    <3> QED BY <2>2, <3>1, <3>2
  <2> QED BY <2>1, <2>2, <2>3, <2>4 DEF UpdateTypes, FailedKept
<1>10. ASSUME NEW g \in Gates, GateFails(g) PROVE UpdateTypes' /\ FailedKept'
  <2>1. /\ upd' = [upd EXCEPT !.at = "reverting"] /\ upd.at = g /\ g \notin {"idle", "fetching"}
        /\ record' = [upd.rec EXCEPT !.state = "FAILED"]
        /\ UNCHANGED <<remote, tree, lock, back, gates, rolledBack, overlapped>>
    BY <1>10, GateNames DEF GateFails
  <2>2. upd'.at = "reverting" /\ upd'.rec = upd.rec
        /\ upd' \in [at : UpdatePlaces, rec : Records]
    BY <1>1, <2>1 DEF UpdatePlaces
  <2>3. record' \in Records /\ record'.failed = upd.rec.failed
    BY <1>1, <2>1, RecordType
  <2> QED BY <2>1, <2>2, <2>3 DEF UpdateTypes, FailedKept
<1> QED BY <1>2, <1>3, <1>4, <1>5, <1>6, <1>7, <1>8, <1>9, <1>10 DEF UpdateGoesOn

\* So do the verdict of a new process and its rollback.
LEMMA RollbackSteps ==
  ASSUME UpdateTypes, FailedKept, RollbackGoesOn
  PROVE  UpdateTypes' /\ FailedKept'
<1>1. /\ back.at \in BackPlaces /\ back.rec \in Records
      /\ back = [at |-> back.at, rec |-> back.rec]
  BY DEF UpdateTypes
<1>2. NotUpdating \in [at : BackPlaces, rec : Records] /\ NotUpdating.at = "idle"
  BY RecordType DEF NotUpdating, BackPlaces
<1>4. ASSUME NEW s \in {"SUCCESS", "ROLLED_BACK", "ROLLBACK_FAILED"}, Concludes(s),
             back.at \notin {"idle", "starting", "booting"}
      PROVE  UpdateTypes' /\ FailedKept'
  <2>1. /\ record' = [back.rec EXCEPT !.state = s] /\ back' = NotUpdating
        /\ UNCHANGED <<remote, tree, lock, upd, gates, rolledBack, overlapped>>
    BY <1>4 DEF Concludes
  <2>2. record' \in Records /\ record'.failed = back.rec.failed
    <3>1. CASE s = "SUCCESS"
      BY <1>1, <2>1, <3>1, RecordType, ZenonT(30)
    <3>2. CASE s = "ROLLED_BACK"
      BY <1>1, <2>1, <3>2, RecordType, ZenonT(30)
    <3>3. CASE s = "ROLLBACK_FAILED"
      BY <1>1, <2>1, <3>3, RecordType, ZenonT(30)
    <3> QED BY <3>1, <3>2, <3>3
  <2> QED BY <1>2, <1>4, <2>1, <2>2 DEF UpdateTypes, FailedKept
<1>5. CASE Healthy \/ HopelesslyUnhealthy \/ RollbackFails
  BY <1>4, <1>5 DEF Healthy, HopelesslyUnhealthy, RollbackFails
<1>6. CASE BeginRollback
  <2>1. /\ back.at = "settling" /\ back.rec.attempt < MaxRollbackAttempts
        /\ record' = [back.rec EXCEPT !.state = "ROLLING_BACK", !.attempt = @ + 1,
                                      !.failed = @ \cup {back.rec.target}]
        /\ back' = [at |-> "quiescing", rec |-> record']
        /\ rolledBack' = rolledBack \cup {back.rec.target}
        /\ back.rec.prev # Unknown
        /\ UNCHANGED <<remote, tree, lock, upd, gates, overlapped>>
    BY <1>6 DEF BeginRollback
  <2>2. record' \in Records /\ record'.failed = back.rec.failed \cup {back.rec.target}
        /\ back.rec.target \in Commits /\ record'.prev = back.rec.prev
    <3>1. /\ back.rec.attempt \in Nat /\ back.rec.attempt + 1 \in 0..MaxRollbackAttempts
          /\ back.rec.failed \cup {back.rec.target} \in SUBSET Commits
          /\ back.rec.target \in Commits
      BY <1>1, <2>1, BoundsAssumption DEF Records
    <3> QED BY <1>1, <2>1, <3>1 DEF Records
  <2>3. back' \in [at : BackPlaces, rec : Records] /\ back'.at = "quiescing"
        /\ back'.rec = record'
    BY <2>1, <2>2 DEF BackPlaces
  <2> QED BY <2>1, <2>2, <2>3 DEF UpdateTypes, FailedKept
<1>7. CASE RollbackProceeds
  <2>1. /\ back' = [back EXCEPT !.at = "checkout"] /\ back.at = "quiescing"
        /\ UNCHANGED <<remote, tree, record, lock, upd, gates, rolledBack, overlapped>>
    BY <1>7 DEF RollbackProceeds
  <2>2. back'.at = "checkout" /\ back'.rec = back.rec /\ back' \in [at : BackPlaces, rec : Records]
    BY <1>1, <2>1 DEF BackPlaces
  <2> QED BY <2>1, <2>2 DEF UpdateTypes, FailedKept
<1>8. CASE CheckoutDone
  <2>1. /\ back' = [back EXCEPT !.at = "rebuilding"] /\ back.at = "checkout"
        /\ tree' = back.rec.prev /\ gates' = {} /\ back.rec.prev # Unknown
        /\ UNCHANGED <<remote, record, lock, upd, rolledBack, overlapped>>
    BY <1>8 DEF CheckoutDone, MovesTo, FailedKept
  <2>2. back'.at = "rebuilding" /\ back'.rec = back.rec
        /\ back' \in [at : BackPlaces, rec : Records] /\ tree' \in Commits
    BY <1>1, <2>1 DEF BackPlaces, Records
  <2> QED BY <2>1, <2>2 DEF UpdateTypes, FailedKept
<1>9. CASE RebuildDone
  <2>1. /\ back' = [back EXCEPT !.at = "exiting"] /\ back.at = "rebuilding"
        /\ record' = [back.rec EXCEPT !.state = "HEALTH_CHECKING"]
        /\ UNCHANGED <<remote, tree, lock, upd, gates, rolledBack, overlapped>>
    BY <1>9 DEF RebuildDone
  <2>2. back'.at = "exiting" /\ back'.rec = back.rec
        /\ back' \in [at : BackPlaces, rec : Records]
        /\ record' \in Records /\ record'.failed = back.rec.failed
    BY <1>1, <2>1, RecordType DEF BackPlaces
  <2> QED BY <2>1, <2>2 DEF UpdateTypes, FailedKept
<1> QED BY <1>5, <1>6, <1>7, <1>8, <1>9 DEF RollbackGoesOn, Judgement

\* A new process starts from the record; the world goes on.
LEMMA OtherSteps ==
  ASSUME UpdateTypes, FailedKept,
         \/ Push \/ LockTurnsStale \/ Started \/ PostStart
         \/ Crash \/ Exit \/ StartFails \/ UNCHANGED vars
  PROVE  UpdateTypes' /\ FailedKept'
<1>1. CASE Push
  BY <1>1 DEF Push, UpdateTypes, FailedKept
<1>2. CASE LockTurnsStale
  BY <1>2 DEF LockTurnsStale, UpdateTypes, FailedKept
<1>3. CASE UNCHANGED vars
  BY <1>3 DEF vars, updateVars, UpdateTypes, FailedKept
<1>4. CASE Crash \/ Exit \/ StartFails
  <2>1. /\ upd' = NotUpdating /\ back' = Starting /\ overlapped' = FALSE
        /\ UNCHANGED <<remote, tree, gates, rolledBack>>
        /\ lock' \in {lock, "left", "free"}
        /\ \/ record' = record
           \/ upd.at = "exiting" /\ record' = [upd.rec EXCEPT !.state = "RESTART_PENDING"]
    BY <1>4 DEF Crash, Exit, StartFails, Restart
  <2>2. /\ NotUpdating.at = "idle" /\ Starting.at = "starting"
        /\ NotUpdating \in [at : UpdatePlaces, rec : Records]
        /\ Starting \in [at : BackPlaces, rec : Records]
    BY RecordType DEF NotUpdating, Starting, UpdatePlaces, BackPlaces
  <2>3. record' \in Records /\ rolledBack \subseteq record'.failed
    <3>1. CASE record' = record
      BY <3>1 DEF UpdateTypes, FailedKept
    <3>2. CASE upd.at = "exiting" /\ record' = [upd.rec EXCEPT !.state = "RESTART_PENDING"]
      BY <3>2, RecordType DEF UpdateTypes, FailedKept
    <3> QED BY <2>1, <3>1, <3>2
  <2> QED BY <2>1, <2>2, <2>3 DEF UpdateTypes, FailedKept
<1>5. CASE Started
  <2>1. /\ back' = [back EXCEPT !.at = "booting"] /\ back.at = "starting"
        /\ UNCHANGED <<remote, tree, record, lock, upd, gates, rolledBack, overlapped>>
    BY <1>5 DEF Started
  <2>2. back'.at = "booting" /\ back' \in [at : BackPlaces, rec : Records]
    BY <2>1 DEF UpdateTypes, BackPlaces
  <2> QED BY <2>1, <2>2 DEF UpdateTypes, FailedKept
<1>6. CASE PostStart
  <2>1. /\ back.at = "booting" /\ back' \in {[at |-> "settling", rec |-> record], NotUpdating}
        /\ UNCHANGED <<remote, tree, record, lock, upd, gates, rolledBack, overlapped>>
    BY <1>6 DEF PostStart
  <2>2. /\ back' \in [at : BackPlaces, rec : Records]
        /\ back'.at \in {"settling", "idle"} /\ (back'.at = "settling" => back'.rec = record)
    BY <2>1, RecordType DEF BackPlaces, UpdateTypes, NotUpdating
  <2> QED BY <2>1, <2>2 DEF UpdateTypes, FailedKept
<1> QED BY <1>1, <1>2, <1>3, <1>4, <1>5, <1>6
-----------------------------------------------------------------------------
(***************************************************************************)
(* Parking: what the healer does, and does not do, while sources change.   *)
(***************************************************************************)

\* Of the flags, the queue and the snapshot: only the polling loop queues files,
\* and no step of the healer counts as git's.
LEMMA HealerFlags ==
  ASSUME HealerInv, HealerNext
  PROVE  /\ UNCHANGED <<suspended, updateInProgress>>
         /\ \A f \in Files : touched'[f] = "git" => touched[f] = "git"
         /\ pending' \subseteq pending \/ ~UpdateBlocked
<1>1. touched \in [Files -> {"no", "user", "git", "healer"}]
  BY JobType
<1>2. ASSUME NEW f \in Files, UserEdits(f) \/ RepairRequested(f)
      PROVE  /\ UNCHANGED <<suspended, updateInProgress, pending>>
             /\ \A g \in Files : touched'[g] = "git" => touched[g] = "git"
  BY <1>1, <1>2 DEF UserEdits, RepairRequested
<1>3. ASSUME Scan
      PROVE  /\ UNCHANGED <<suspended, updateInProgress>>
             /\ \A g \in Files : touched'[g] = "git" => touched[g] = "git"
             /\ ~UpdateBlocked
  BY <1>1, <1>3 DEF Scan
<1>4. ASSUME NEW todo \in {{}, pending}, DrainLoop(todo) PROVE pending' \subseteq pending
  BY <1>4 DEF DrainLoop
<1>5. ASSUME NEW batch, HandleNext(batch) PROVE pending' \subseteq pending
  BY <1>4, <1>5 DEF HandleNext
<1>6. ASSUME DrainGoesOn
      PROVE  UNCHANGED <<suspended, updateInProgress, touched>> /\ pending' \subseteq pending
  BY <1>4, <1>5, <1>6 DEF DrainGoesOn, TakeBatch, BatchTypechecked, BatchLeft, BatchFailed
<1>7. ASSUME NEW w \in Workers, NEW result, RepairOver(w, result)
      PROVE  /\ UNCHANGED <<suspended, updateInProgress, pending>>
             /\ \A g \in Files : touched'[g] = "git" => touched[g] = "git"
  BY <1>1, <1>7 DEF RepairOver
<1>8. ASSUME NEW w \in Workers, BackupDeleted(w)
      PROVE  /\ UNCHANGED <<suspended, updateInProgress>> /\ pending' \subseteq pending
             /\ \A g \in Files : touched'[g] = "git" => touched[g] = "git"
  BY <1>1, <1>5, <1>8 DEF BackupDeleted
<1>9. ASSUME NEW w \in Workers, RepairGoesOn(w), ~BackupDeleted(w)
      PROVE  /\ UNCHANGED <<suspended, updateInProgress, pending>>
             /\ \A g \in Files : touched'[g] = "git" => touched[g] = "git"
  <2>1. CASE \E result : RepairOver(w, result)
    BY <1>7, <2>1
  <2>2. CASE BackupCopied(w) \/ CallbackWrites(w) \/ CallbackFails(w) \/ StageFails(w)
    BY <1>1, <2>2 DEF BackupCopied, CallbackWrites, CallbackFails, StageFails
  <2>3. CASE StagePasses(w)
    BY <1>7, <2>3 DEF StagePasses
  <2>4. CASE BackupAbandoned(w) \/ BackupRestored(w) \/ RestoreFails(w)
    BY <1>7, <2>4 DEF BackupAbandoned, BackupRestored, RestoreFails
  <2> QED BY <1>9, <2>2, <2>3, <2>4 DEF RepairGoesOn
<1> QED BY <1>2, <1>3, <1>6, <1>8, <1>9 DEF HealerNext

\* A healer that is idle and parked stays idle and writes nothing.
LEMMA ParkedStaysIdle ==
  ASSUME HealerInv, HealerNext, UpdateBlocked, HealerIdle
  PROVE  HealerIdle' /\ UNCHANGED sources
<1>1. /\ job \in [Workers -> JobRecord] /\ "drain" \in Workers
      /\ job["drain"].at = "idle"
      /\ \A w \in Workers : job[w].at \notin RepairStates
  BY JobType DEF HealerIdle, Repairing
<1>2. ASSUME UNCHANGED <<job, sources>> PROVE HealerIdle' /\ UNCHANGED sources
  BY <1>2 DEF HealerIdle, Repairing
<1>3. ~Scan /\ \A f \in Files : ~RepairRequested(f)
  BY DEF Scan, RepairRequested, MayRepair
<1>4. ~DrainGoesOn
  BY <1>1 DEF DrainGoesOn, TakeBatch, BatchTypechecked, BatchLeft, BatchFailed
<1>5. \A w \in Workers : RepairGoesOn(w) => BackupDeleted(w)
  BY <1>1 DEF RepairGoesOn, BackupCopied, BackupAbandoned, CallbackWrites, CallbackFails,
              StagePasses, StageFails, BackupRestored, RestoreFails, RepairStates
<1>6. ASSUME NEW w \in Workers, BackupDeleted(w) PROVE HealerIdle' /\ UNCHANGED sources
  <2>1. w # "drain" /\ job' = [job EXCEPT ![w] = Idle] /\ UNCHANGED sources
    BY <1>1, <1>6 DEF BackupDeleted
  <2>2. job'["drain"] = job["drain"] /\ \A v \in Workers : job'[v] \in {job[v], Idle}
    BY <1>1, <2>1
  <2>3. \A v \in Workers : job'[v].at \notin RepairStates
    BY <1>1, <2>2, IdleJob DEF Mending
  <2> QED BY <1>1, <2>1, <2>2, <2>3 DEF HealerIdle, Repairing
<1>7. \A f \in Files : UserEdits(f) => UNCHANGED <<job, sources>>
  BY DEF UserEdits
<1> QED BY <1>2, <1>3, <1>4, <1>5, <1>6, <1>7 DEF HealerNext

\* The healer is parked from the wait for it to the end of an update or a
\* rollback, and only then does git write; the gates are passed in order.
Parked ==
  /\ suspended = updateInProgress
  /\ upd.at \notin {"idle", "fetching"} => suspended /\ back.at = "idle"
  /\ back.at \notin {"idle", "starting", "booting", "settling"} => suspended
  /\ \A f \in Files : touched[f] = "git" => suspended
  /\ upd.at \notin {"idle", "fetching", "quiescing"} => HealerIdle
  /\ upd.at = "build" => "typecheck" \in gates
  /\ upd.at = "tests" => "typecheck" \in gates /\ "build" \in gates
  /\ upd.at = "exiting" => gates = Gates

\* That is lost only in a process that begins an update while its rollback is still
\* under way: the first of the two to end resumes the healer.
ParkedInv == ~overlapped => Parked

LEMMA ParkedInit == Init => Parked
<1> SUFFICES ASSUME Init PROVE Parked
  OBVIOUS
<1>1. /\ suspended = FALSE /\ updateInProgress = FALSE /\ touched = [f \in Files |-> "no"]
      /\ upd.at = "idle" /\ back.at = "starting"
  BY DEF Init, HealerInit, NotUpdating, Starting
<1> QED BY <1>1 DEF Parked

LEMMA ParkedHealer ==
  ASSUME HealerInv, Parked, HealerStep
  PROVE  Parked'
<1>1. HealerNext /\ UNCHANGED <<upd, back>>
  BY DEF HealerStep
<1>2. CASE upd.at \in {"idle", "fetching", "quiescing"}
  BY <1>1, <1>2, HealerFlags DEF Parked
<1>3. CASE upd.at \notin {"idle", "fetching", "quiescing"}
  <2>1. HealerIdle' /\ UNCHANGED sources
    BY <1>1, <1>3, ParkedStaysIdle DEF Parked, UpdateBlocked
  <2>2. gates' = gates
    BY <2>1 DEF HealerStep, HealerWrote
  <2> QED BY <1>1, <2>1, <2>2, HealerFlags DEF Parked
<1> QED BY <1>2, <1>3

\* What the flows do to the healer, flag by flag.
LEMMA ParkFlags ==
  ASSUME HealerInv
  PROVE  /\ Park => suspended' = TRUE /\ updateInProgress' = TRUE /\ UNCHANGED <<touched, job>>
         /\ HealerRestart \/ (Parked /\ Unpark) =>
              /\ suspended' = FALSE /\ updateInProgress' = FALSE
              /\ \A f \in Files : touched'[f] # "git"
BY JobType DEF Park, Unpark, HealerRestart, Parked
\* performUpdate parks the healer before it writes and resumes it at its end.
LEMMA ParkedUpdate ==
  ASSUME HealerInv, UpdateTypes, Parked, UpdateGoesOn, ~overlapped'
  PROVE  Parked'
<1>1. upd = [at |-> upd.at, rec |-> upd.rec]
  BY DEF UpdateTypes
<1>2. CASE NotNow
  BY <1>2 DEF NotNow, healerVars, NotUpdating, Parked
<1>3. ASSUME NEW local \in {tree, Unknown}, BeginUpdate(local) PROVE Parked'
  BY <1>3, ParkFlags DEF BeginUpdate, Parked
<1>4. CASE Quiesced
  <2>1. /\ upd.at = "quiescing" /\ upd'.at = "pulling" /\ HealerIdle
        /\ UNCHANGED <<suspended, updateInProgress, touched, job, back, gates>>
    BY <1>1, <1>4 DEF Quiesced, IdleReached, healerVars
  <2> QED BY <2>1 DEF Parked, HealerIdle, Repairing
<1>5. CASE QuiesceTimedOut \/ PullFails \/ Reverted
  <2>1. upd.at \notin {"idle", "fetching"} /\ upd'.at = "idle" /\ Unpark /\ UNCHANGED back
    BY <1>5 DEF QuiesceTimedOut, PullFails, Reverted, UpdateOver, NotUpdating
  <2> QED BY <2>1, ParkFlags DEF Parked
<1>6. CASE PullDone
  <2>1. /\ upd.at = "pulling" /\ upd'.at = "typecheck"
        /\ UNCHANGED <<suspended, updateInProgress, job, back>>
    BY <1>1, <1>6 DEF PullDone
  <2> QED BY <2>1 DEF Parked, HealerIdle, Repairing
<1>7. ASSUME NEW g \in Gates, GatePasses(g) PROVE Parked'
  <2>1. /\ upd.at = g /\ upd'.at = AfterGate(g) /\ gates' = gates \cup {g}
        /\ UNCHANGED <<suspended, updateInProgress, touched, job, back>>
    BY <1>1, <1>7 DEF GatePasses, healerVars
  <2>2. \/ g = "typecheck" /\ AfterGate(g) = "build"
        \/ g = "build" /\ AfterGate(g) = "tests"
        \/ g = "tests" /\ AfterGate(g) = "exiting"
    <3>1. CASE g = "typecheck"
      BY <3>1 DEF AfterGate
    <3>2. CASE g = "build"
      BY <3>2 DEF AfterGate
    <3>3. CASE g = "tests"
      BY <3>3 DEF AfterGate
    <3> QED BY <3>1, <3>2, <3>3, GateNames
  <2>3. AfterGate(g) = "exiting" => gates' = Gates
    BY <2>1, <2>2, GateNames DEF Parked, UpdateTypes
  <2> QED BY <2>1, <2>2, <2>3 DEF Parked, HealerIdle,
                                  Repairing
<1>8. ASSUME NEW g \in Gates, GateFails(g) PROVE Parked'
  <2>1. /\ upd.at \in {"typecheck", "build", "tests"} /\ upd'.at = "reverting"
        /\ UNCHANGED <<suspended, updateInProgress, touched, job, back, gates>>
    BY <1>1, <1>8, GateNames DEF GateFails, healerVars
  <2> QED BY <2>1 DEF Parked, HealerIdle, Repairing
<1> QED BY <1>2, <1>3, <1>4, <1>5, <1>6, <1>7, <1>8 DEF UpdateGoesOn

\* A rollback parks the healer for as long as it lasts, and no update is under way.
LEMMA ParkedRollback ==
  ASSUME HealerInv, UpdateTypes, Parked, RollbackGoesOn
  PROVE  Parked'
<1>1. back = [at |-> back.at, rec |-> back.rec]
  BY DEF UpdateTypes
<1>2. upd.at \in {"idle", "fetching"} /\ UNCHANGED upd
  BY DEF RollbackGoesOn, Judgement, Healthy, HopelesslyUnhealthy, BeginRollback, RollbackProceeds,
         CheckoutDone, RebuildDone, RollbackFails, Concludes, Parked
<1>4. CASE Healthy \/ HopelesslyUnhealthy
  <2>1. back'.at = "idle" /\ UNCHANGED <<suspended, updateInProgress, touched>>
    BY <1>4 DEF Healthy, HopelesslyUnhealthy, Concludes, healerVars, NotUpdating
  <2> QED BY <1>2, <2>1 DEF Parked
<1>5. CASE BeginRollback
  <2>1. Park
    BY <1>5 DEF BeginRollback
  <2> QED BY <1>2, <2>1, ParkFlags DEF Parked
<1>6. CASE RollbackProceeds \/ RebuildDone
  <2>1. /\ back.at \in {"quiescing", "rebuilding"}
        /\ UNCHANGED <<suspended, updateInProgress, touched>>
    BY <1>6 DEF RollbackProceeds, RebuildDone, healerVars
  <2> QED BY <1>2, <2>1 DEF Parked
<1>7. CASE CheckoutDone
  <2>1. back.at = "checkout" /\ UNCHANGED <<suspended, updateInProgress>>
    BY <1>7 DEF CheckoutDone
  <2> QED BY <1>2, <2>1 DEF Parked
<1>8. CASE RollbackFails
  <2>1. Unpark /\ back'.at = "idle"
    BY <1>8 DEF RollbackFails, AfterFailedRollback, Concludes, NotUpdating
  <2> QED BY <1>2, <2>1, ParkFlags DEF Parked
<1> QED BY <1>4, <1>5, <1>6, <1>7, <1>8 DEF RollbackGoesOn, Judgement

\* Coming up, looking for an update and what happens around the process change nothing
\* of this.
LEMMA ParkedOther ==
  ASSUME HealerInv, UpdateTypes, Parked,
         Push \/ LockTurnsStale \/ CheckDue \/ Started \/ PostStart \/ UNCHANGED vars
  PROVE  Parked'
<1>1. CASE Push \/ LockTurnsStale \/ UNCHANGED vars
  <2>1. UNCHANGED <<suspended, updateInProgress, touched, job, upd, back, gates>>
    BY <1>1 DEF Push, LockTurnsStale, vars, healerVars, updateVars
  <2> QED BY <2>1 DEF Parked, HealerIdle, Repairing
<1>2. CASE CheckDue
  <2>1. /\ upd.at = "idle" /\ upd'.at = "fetching"
        /\ UNCHANGED <<suspended, updateInProgress, touched, back>>
    BY <1>2 DEF CheckDue, healerVars, UpdateTypes
  <2> QED BY <2>1 DEF Parked
<1>3. CASE Started \/ PostStart
  <2>1. /\ back.at \in {"starting", "booting"} /\ back'.at \in {"booting", "settling", "idle"}
        /\ UNCHANGED <<suspended, updateInProgress, touched, upd>>
    BY <1>3 DEF Started, PostStart, healerVars, UpdateTypes, NotUpdating
  <2> QED BY <2>1 DEF Parked
<1> QED BY <1>1, <1>2, <1>3

\* A new process has it, whatever the last one did.
LEMMA ParkedAnew ==
  ASSUME HealerInv, Crash \/ Exit \/ StartFails
  PROVE  Parked'
<1>1. HealerRestart /\ upd'.at = "idle" /\ back'.at = "starting"
  BY DEF Crash, Exit, StartFails, Restart, NotUpdating, Starting
<1> QED BY <1>1, ParkFlags DEF Parked

\* Within a process an overlap is not forgotten.
LEMMA OverlapStays ==
  ASSUME [Next]_vars, ~(Crash \/ Exit \/ StartFails), overlapped
  PROVE  overlapped'
BY DEF Next, HealerStep, Push, LockTurnsStale, Started, PostStart, CheckDue, UpdateGoesOn, NotNow,
       BeginUpdate, Quiesced, QuiesceTimedOut, PullDone, PullFails, GatePasses, GateFails, Reverted,
       RollbackGoesOn, Judgement, Healthy, HopelesslyUnhealthy, BeginRollback, RollbackProceeds,
       CheckoutDone, RebuildDone, RollbackFails, Concludes, vars, updateVars

-----------------------------------------------------------------------------
(***************************************************************************)
(* The results.                                                            *)
(***************************************************************************)

IInv == HealerInv /\ UpdateTypes /\ FailedKept

LEMMA Inductive == Spec => []IInv
<1>1. Init => IInv
  BY HealerStart, UpdateInit DEF IInv
<1>2. IInv /\ [Next]_vars => IInv'
  BY HealerAlways, UpdateSteps, RollbackSteps, OtherSteps DEF IInv, Next
<1> QED BY <1>1, <1>2, PTL DEF Spec

LEMMA InductiveParked == Spec => [](IInv /\ ParkedInv)
<1>1. Init => ParkedInv
  BY ParkedInit DEF ParkedInv
<1>2. IInv /\ ParkedInv /\ [Next]_vars => ParkedInv'
  <2> SUFFICES ASSUME IInv, ParkedInv, [Next]_vars, ~overlapped' PROVE Parked'
    BY DEF ParkedInv
  <2>1. CASE Crash \/ Exit \/ StartFails
    BY <2>1, ParkedAnew DEF IInv
  <2>2. CASE ~(Crash \/ Exit \/ StartFails)
    <3>1. Parked
      BY <2>2, OverlapStays DEF ParkedInv
    <3> QED BY <2>2, <3>1, ParkedHealer, ParkedUpdate, ParkedRollback, ParkedOther DEF IInv, Next
  <2> QED BY <2>1, <2>2
<1> QED BY <1>1, <1>2, Inductive, PTL DEF Spec

\* The healer's and the update manager's variables keep their types; what a backup
\* holds is never an unverified rewrite (repairFile and handleChange exclude each
\* other file by file).
THEOREM SpecTypeOK == Spec => []TypeOK
<1>1. IInv => TypeOK
  BY DEF IInv, HealerInv, UpdateTypes, TypeOK, UpdatePlaces, BackPlaces
<1> QED BY <1>1, Inductive, PTL

\* Whatever updates, rollbacks and deaths cut short, an AI rewrite has a worker
\* that verifies or restores it.
THEOREM SpecVerifiedOrRestored == Spec => []VerifiedOrRestored
<1>1. IInv => VerifiedOrRestored
  BY DEF IInv, HealerInv
<1> QED BY <1>1, Inductive, PTL

\* A target that was rolled back stays among the failed ones, over every record
\* that performUpdate and postStartValidation write, overlapping or not.
THEOREM SpecRolledBackNotRetried == Spec => []RolledBackNotRetried
<1>1. IInv => RolledBackNotRetried
  BY DEF IInv, FailedKept, RolledBackNotRetried
<1> QED BY <1>1, Inductive, PTL

\* From the pull on no verification and no repair is in flight, but for an update
\* begun in a process whose rollback was still under way.
THEOREM SpecQuiescedUpdate == Spec => []QuiescedUpdate
<1>1. ParkedInv => QuiescedUpdate
  BY DEF ParkedInv, Parked, QuiescedUpdate
<1> QED BY <1>1, InductiveParked, PTL

\* The process exits only into sources that passed the three gates and were not
\* written to since, with the same exception.
THEOREM SpecRestartsWhatPassed == Spec => []RestartsWhatPassed
<1>1. ParkedInv => RestartsWhatPassed
  BY DEF ParkedInv, Parked, RestartsWhatPassed
<1> QED BY <1>1, InductiveParked, PTL

\* Polling queues no file that only a pull or a checkout changed: the snapshot is
\* taken again before polling resumes; with the same exception.
THEOREM SpecNoGitChangeQueued == Spec => NoGitChangeQueued
<1> DEFINE Unqueued == ~overlapped => \A f \in pending' \ pending : touched[f] # "git"
<1>1. IInv /\ ParkedInv /\ [Next]_vars => [Unqueued]_vars
  <2> SUFFICES ASSUME IInv, ParkedInv, [Next]_vars, ~overlapped,
                      NEW f \in pending' \ pending
               PROVE  touched[f] # "git"
    OBVIOUS
  <2>1. CASE HealerStep
    <3>1. HealerNext /\ HealerInv
      BY <2>1 DEF HealerStep, IInv
    <3>2. ~UpdateBlocked
      BY <3>1, HealerFlags
    <3>3. f \in Files
      BY <3>1, HealerSteps, JobType DEF HealerInv, HealerTypeOK
    <3> QED BY <3>2, <3>3 DEF ParkedInv, Parked, UpdateBlocked
  <2>2. CASE ~HealerStep
    <3>1. Park \/ Unpark \/ HealerRestart \/ UNCHANGED pending
      BY <2>2 DEF Next, UpdateGoesOn, RollbackGoesOn, Push, Crash, LockTurnsStale, Started,
                  StartFails, CheckDue, Exit, Restart, NotNow, BeginUpdate, Quiesced,
                  QuiesceTimedOut, UpdateOver, PullDone, PullFails, GatePasses, GateFails, Reverted,
                  PostStart, Judgement, Healthy, HopelesslyUnhealthy, BeginRollback,
                  RollbackProceeds, CheckoutDone, RebuildDone, RollbackFails, AfterFailedRollback,
                  vars, healerVars
    <3> QED BY <3>1 DEF Park, Unpark, HealerRestart
  <2> QED BY <2>1, <2>2
<1> QED BY <1>1, InductiveParked, PTL DEF Spec, NoGitChangeQueued
=============================================================================
