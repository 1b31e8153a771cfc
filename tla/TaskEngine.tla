----------------------------- MODULE TaskEngine -----------------------------
(***************************************************************************)
(* The agent's task engine (agent/tasks): one task of the SQLite store and *)
(* the commands of the command line that plan, run, cancel and list it.    *)
(*                                                                         *)
(* Every command is an operating-system process of its own.  It reads the  *)
(* whole record, works on its copy and writes the whole record back, so    *)
(* each read and each write is a step, and runningTasks, which lives in    *)
(* the memory of one process, keeps no other process out.  Tasks do not    *)
(* share anything: one of them is enough.                                  *)
(***************************************************************************)
EXTENDS Integers, Sequences

CONSTANTS
  Commands,          \* processes of the command line that can be alive
  Plans,             \* step lists the planner's model may answer
  AskedAttempts,     \* values of maxAttempts it may answer
  DefaultAttempts,   \* taken for a missing or impossible maxAttempts
  MaxStepAttempts    \* MAX_STEP_ATTEMPTS

Actions == {"search_project", "typecheck", "run_tests", "repair_file"}

ASSUME PlansAssumption == Plans \subseteq Seq(Actions)

ASSUME AttemptsAssumption ==
  /\ AskedAttempts \subseteq Nat
  /\ DefaultAttempts \in Nat \ {0} /\ MaxStepAttempts \in Nat
  /\ DefaultAttempts <= MaxStepAttempts

VARIABLES
  row,         \* the record in agent_tasks, or NoTask
  aged,        \* its updated_at is older than STALE_TASK_THRESHOLD_MS
  cmd,         \* cmd[c] : what process c is doing
  succeeded,   \* history: steps whose action succeeded
  invoked,     \* history: how often a step's action was called
  overlapped   \* history: two commands held a copy at the same time

history == <<succeeded, invoked, overlapped>>
vars    == <<row, aged, cmd, history>>

Statuses     == {"pending", "running", "completed", "failed", "cancelled"}
StepStatuses == {"pending", "running", "completed", "failed"}
Final        == {"completed", "cancelled"}

NoTask == [status |-> "none", plan |-> <<>>, asked |-> 0,
           steps |-> <<>>, attempts |-> <<>>, current |-> 1]

Idle == [do |-> "none", at |-> "idle", copy |-> NoTask, index |-> 1]

StepsOf(t) == 1..Len(t.plan)

IsTask(t) ==
  \/ t = NoTask
  \/ /\ t.status \in Statuses /\ t.plan \in Plans /\ t.asked \in AskedAttempts
     /\ t.steps \in [StepsOf(t) -> StepStatuses]
     /\ t.attempts \in [StepsOf(t) -> 0..MaxStepAttempts]
     /\ t.current \in StepsOf(t)

TypeOK ==
  /\ IsTask(row)
  /\ aged \in BOOLEAN /\ overlapped \in BOOLEAN
  /\ \A c \in Commands :
       /\ cmd[c].do \in {"none", "run", "cancel", "list"}
       /\ cmd[c].at \in {"idle", "begin", "loop", "step", "call", "act", "write"}
       /\ IsTask(cmd[c].copy)
       /\ cmd[c].index \in 1..(Len(cmd[c].copy.plan) + 1)
  /\ succeeded \subseteq Nat

Init ==
  /\ row = NoTask /\ aged = FALSE
  /\ cmd = [c \in Commands |-> Idle]
  /\ succeeded = {} /\ invoked = <<>> /\ overlapped = FALSE

-----------------------------------------------------------------------------
(***************************************************************************)
(* task add: planTask and create                                           *)
(***************************************************************************)

Diagnostic  == {"search_project", "typecheck"}
AfterRepair == {"typecheck", "run_tests"}

\* Mutated: a diagnostic step anywhere in the plan will do.
DiagnosedSomewhere(plan, i) == \E j \in DOMAIN plan : plan[j] \in Diagnostic
Diagnosed(plan, i) == \E j \in 1..(i - 1) : plan[j] \in Diagnostic

\* validateTaskPlan: a plan has at most one repair, after a diagnostic step, and
\* nothing but checks after it.
Valid(plan) ==
  /\ Len(plan) \in 1..8
  /\ \A i \in DOMAIN plan : plan[i] = "repair_file" =>
       /\ Diagnosed(plan, i)
       /\ \A j \in DOMAIN plan : j > i => plan[j] \in AfterRepair

\* A plan that is not valid is refused before anything is stored.
Add(plan, asked) ==
  /\ row = NoTask
  /\ Valid(plan)
  /\ row' = [status |-> "pending", plan |-> plan, asked |-> asked,
             steps |-> [i \in 1..Len(plan) |-> "pending"],
             attempts |-> [i \in 1..Len(plan) |-> 0], current |-> 1]
  /\ aged' = FALSE
  /\ invoked' = [i \in 1..Len(plan) |-> 0]
  /\ UNCHANGED <<cmd, succeeded, overlapped>>

-----------------------------------------------------------------------------
\* A command reads the record; the others that hold a copy are noted.
Load(c, do, at) ==
  /\ cmd' = [cmd EXCEPT ![c] = [do |-> do, at |-> at, copy |-> row,
                                index |-> row.current]]
  /\ overlapped' = (overlapped \/ \E d \in Commands : cmd[d].at # "idle")
  /\ UNCHANGED <<row, aged, succeeded, invoked>>

\* upsertTask replaces the whole record; there is no check of the transition.
Write(c, task) == row' = task /\ aged' = FALSE

Holding(c, do, at) == cmd[c].do = do /\ cmd[c].at = at

Goes(c, task, at) == cmd' = [cmd EXCEPT ![c].copy = task, ![c].at = at]
Exits(c)          == cmd' = [cmd EXCEPT ![c] = Idle]

(***************************************************************************)
(* task run: TaskExecutor.run, doRun and runStep                           *)
(***************************************************************************)

\* A completed or cancelled task is shown and left alone.
RunLoads(c) ==
  /\ cmd[c].at = "idle"
  /\ row # NoTask /\ row.status \notin Final
  /\ Load(c, "run", "begin")

RunBegins(c) ==
  LET task == [cmd[c].copy EXCEPT !.status = "running"] IN
  /\ Holding(c, "run", "begin")
  /\ Write(c, task)
  /\ Goes(c, task, "loop")
  /\ UNCHANGED history

\* The head of the loop over the steps: within thirty minutes the next one.
RunTakesStep(c) ==
  /\ Holding(c, "run", "loop")
  /\ cmd[c].index \in StepsOf(cmd[c].copy)
  /\ cmd' = [cmd EXCEPT ![c].copy.current = cmd[c].index, ![c].at = "step"]
  /\ UNCHANGED <<row, aged, history>>

RunFails(c) ==
  /\ Write(c, [cmd[c].copy EXCEPT !.status = "failed"])
  /\ Exits(c)
  /\ UNCHANGED history

RunOutOfTime(c) ==
  /\ Holding(c, "run", "loop")
  /\ cmd[c].index \in StepsOf(cmd[c].copy)
  /\ RunFails(c)

RunCompletes(c) ==
  /\ Holding(c, "run", "loop")
  /\ cmd[c].index > Len(cmd[c].copy.plan)
  /\ Write(c, [cmd[c].copy EXCEPT !.status = "completed"])
  /\ Exits(c)
  /\ UNCHANGED history

Limit(task) ==
  IF task.asked < 1 THEN DefaultAttempts
  ELSE IF task.asked < MaxStepAttempts THEN task.asked ELSE MaxStepAttempts

AttemptLeftOneMore(c) == cmd[c].copy.attempts[cmd[c].index] <= Limit(cmd[c].copy)
AttemptLeft(c) == cmd[c].copy.attempts[cmd[c].index] < Limit(cmd[c].copy)

\* Mutated: the attempt is counted in memory and stored with its result only.
AttemptUnsaved(c) ==
  LET i == cmd[c].index
      task == [cmd[c].copy EXCEPT !.attempts[i] = @ + 1, !.steps[i] = "running"]
  IN
  /\ Holding(c, "run", "step")
  /\ AttemptLeft(c)
  /\ Goes(c, task, "call")
  /\ UNCHANGED <<row, aged, history>>

\* The attempt is counted and stored before the action is called.
Attempt(c) ==
  LET i == cmd[c].index
      task == [cmd[c].copy EXCEPT !.attempts[i] = @ + 1, !.steps[i] = "running"]
  IN
  /\ Holding(c, "run", "step")
  /\ AttemptLeft(c)
  /\ Write(c, task)
  /\ Goes(c, task, "call")
  /\ UNCHANGED history

\* No attempt is left: the task fails, also when it is run again.
RunGivesUp(c) ==
  /\ Holding(c, "run", "step")
  /\ ~AttemptLeft(c)
  /\ RunFails(c)

\* The action is called.  Calls are counted until commands overlap.
Call(c) ==
  /\ Holding(c, "run", "call")
  /\ cmd' = [cmd EXCEPT ![c].at = "act"]
  /\ invoked' = IF overlapped THEN invoked
                ELSE [invoked EXCEPT ![cmd[c].index] = @ + 1]
  /\ UNCHANGED <<row, aged, succeeded, overlapped>>

ActionSucceeds(c) ==
  LET i == cmd[c].index
      task == [cmd[c].copy EXCEPT !.steps[i] = "completed"]
  IN
  /\ Holding(c, "run", "act")
  /\ Write(c, task)
  /\ cmd' = [cmd EXCEPT ![c].copy = task, ![c].at = "loop", ![c].index = i + 1]
  /\ succeeded' = succeeded \cup {i}
  /\ UNCHANGED <<invoked, overlapped>>

\* Mutated: a failed attempt is not counted.
ActionFailsRefunded(c) ==
  LET i == cmd[c].index
      task == [cmd[c].copy EXCEPT !.steps[i] = "failed", !.attempts[i] = @ - 1]
  IN
  /\ Holding(c, "run", "act")
  /\ Write(c, task)
  /\ Goes(c, task, "step")
  /\ UNCHANGED history

ActionFails(c) ==
  LET task == [cmd[c].copy EXCEPT !.steps[cmd[c].index] = "failed"] IN
  /\ Holding(c, "run", "act")
  /\ Write(c, task)
  /\ Goes(c, task, "step")
  /\ UNCHANGED history

-----------------------------------------------------------------------------
(***************************************************************************)
(* task cancel, task list                                                  *)
(***************************************************************************)

\* Only a pending or running task is cancelled; the process that runs it goes on.
CancelLoads(c) ==
  /\ cmd[c].at = "idle"
  /\ row.status \in {"pending", "running"}
  /\ Load(c, "cancel", "write")

CancelWrites(c) ==
  /\ Holding(c, "cancel", "write")
  /\ Write(c, [cmd[c].copy EXCEPT !.status = "cancelled"])
  /\ Exits(c)
  /\ UNCHANGED history

\* loadTasks recovers what has been running for five minutes without a write.
ListLoads(c) ==
  /\ cmd[c].at = "idle"
  /\ row.status = "running" /\ aged
  /\ Load(c, "list", "write")

ListRecovers(c) ==
  /\ Holding(c, "list", "write")
  /\ Write(c, [cmd[c].copy EXCEPT !.status = "pending"])
  /\ Exits(c)
  /\ UNCHANGED history

\* Five minutes without a write: no process is between two of its steps, an
\* action may last that long.
Age ==
  /\ row # NoTask /\ ~aged
  /\ \A c \in Commands : cmd[c].at \in {"idle", "act"}
  /\ aged' = TRUE
  /\ UNCHANGED <<row, cmd, history>>

\* A process is killed, or a write of its own is refused (the store is busy).
Crash(c) ==
  /\ cmd[c].at # "idle"
  /\ Exits(c)
  /\ UNCHANGED <<row, aged, history>>

Run(c) ==
  \/ RunBegins(c) \/ RunTakesStep(c) \/ RunOutOfTime(c) \/ RunCompletes(c)
  \/ Attempt(c) \/ RunGivesUp(c) \/ Call(c) \/ ActionSucceeds(c) \/ ActionFails(c)

Next ==
  \/ \E plan \in Plans, asked \in AskedAttempts : Add(plan, asked)
  \/ \E c \in Commands :
       \/ RunLoads(c) \/ Run(c)
       \/ CancelLoads(c) \/ CancelWrites(c)
       \/ ListLoads(c) \/ ListRecovers(c)
       \/ Crash(c)
  \/ Age

Spec == Init /\ [][Next]_vars

\* A process that is not killed goes on, and the actions end.
FairSpec == Spec /\ \A c \in Commands : WF_vars(Run(c))

-----------------------------------------------------------------------------
\* A source file is repaired only after a diagnostic step has succeeded, whoever
\* ran it and whatever was cancelled, recovered or killed in between: plan
\* validation and the order of execution together.
RepairAfterDiagnostic ==
  \A c \in Commands :
    Holding(c, "run", "act") /\ cmd[c].copy.plan[cmd[c].index] = "repair_file"
      => \E i \in succeeded : row.plan[i] \in Diagnostic

\* While commands follow one another, a step's action is called no more often
\* than its limit says, over all runs of the task and all deaths of a process.
AttemptsBounded ==
  ~overlapped => \A i \in DOMAIN invoked : invoked[i] <= Limit(row)

\* A run ends, however often its steps fail and whatever other commands write.
RunEnds == \A c \in Commands : cmd[c].do = "run" ~> cmd[c].at = "idle"
=============================================================================
