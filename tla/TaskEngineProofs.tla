-------------------------- MODULE TaskEngineProofs --------------------------
(***************************************************************************)
(* Types, repair after diagnosis and the bound of the attempts of the task *)
(* engine, for any number of command-line processes, any plans the model   *)
(* may answer and any limits.                                              *)
(***************************************************************************)
EXTENDS TaskEngine, TLAPS

TaskFields == {"status", "plan", "asked", "steps", "attempts", "current"}
CmdFields  == {"do", "at", "copy", "index"}

\* A stored task: what IsTask says, a valid plan, and no more attempts than the
\* limit of a step.
Good(t) ==
  /\ TaskFields \subseteq DOMAIN t
  /\ t.status \in Statuses /\ t.plan \in Plans /\ t.asked \in AskedAttempts
  /\ t.steps \in [StepsOf(t) -> StepStatuses]
  /\ t.attempts \in [StepsOf(t) -> Nat]
  /\ \A i \in StepsOf(t) : t.attempts[i] <= Limit(t)
  /\ t.current \in StepsOf(t)
  /\ Valid(t.plan)

SamePlan(t, u) == t.plan = u.plan /\ t.asked = u.asked

\* A process works on a copy of the task there is, at one of its steps.
CmdOK(c) ==
  /\ CmdFields \subseteq DOMAIN cmd[c]
  /\ cmd[c].at = "idle" => cmd[c] = Idle
  /\ cmd[c].at # "idle" =>
       /\ Good(row) /\ Good(cmd[c].copy) /\ SamePlan(cmd[c].copy, row)
       /\ cmd[c].do \in {"run", "cancel", "list"}
       /\ cmd[c].at \in {"begin", "loop", "step", "call", "act", "write"}
       /\ cmd[c].index \in 1..(Len(row.plan) + 1)
       /\ cmd[c].at \in {"step", "call", "act"} => cmd[c].index \in StepsOf(row)

TaskInv ==
  /\ row = NoTask \/ Good(row)
  /\ DOMAIN cmd = Commands
  /\ \A c \in Commands : CmdOK(c)
  /\ aged \in BOOLEAN /\ overlapped \in BOOLEAN /\ succeeded \subseteq Nat

-----------------------------------------------------------------------------
\* The limit of a step is one of the limits there are.
LEMMA LimitType ==
  ASSUME NEW t, t.asked \in AskedAttempts
  PROVE  Limit(t) \in Nat /\ Limit(t) <= MaxStepAttempts
<1>1. /\ t.asked \in Nat /\ MaxStepAttempts \in Nat
      /\ DefaultAttempts \in Nat /\ DefaultAttempts <= MaxStepAttempts
  BY AttemptsAssumption
<1> QED BY <1>1 DEF Limit

\* There is no valid plan without a step.
LEMMA NoTaskNotGood == ~Good(NoTask)
BY DEF Good, NoTask, Statuses

LEMMA GoodSteps ==
  ASSUME NEW t, Good(t)
  PROVE  Len(t.plan) \in Nat /\ t.plan \in Seq(Actions)
BY PlansAssumption DEF Good

LEMMA GoodIsTask ==
  ASSUME NEW t, Good(t)
  PROVE  IsTask(t)
<1>1. Limit(t) \in Nat /\ Limit(t) <= MaxStepAttempts
  BY LimitType DEF Good
<1>2. t.attempts \in [StepsOf(t) -> 0..MaxStepAttempts]
  BY <1>1, AttemptsAssumption DEF Good
<1> QED BY <1>2 DEF Good, IsTask

\* What the commands change of a task leaves it one.
LEMMA Edits ==
  ASSUME NEW t, Good(t)
  PROVE  /\ \A s \in Statuses : /\ Good([t EXCEPT !.status = s])
                                /\ SamePlan([t EXCEPT !.status = s], t)
                                /\ [t EXCEPT !.status = s].attempts = t.attempts
                                /\ [t EXCEPT !.status = s].current = t.current
         /\ \A i \in StepsOf(t) : /\ Good([t EXCEPT !.current = i])
                                  /\ SamePlan([t EXCEPT !.current = i], t)
                                  /\ [t EXCEPT !.current = i].attempts = t.attempts
                                  /\ [t EXCEPT !.current = i].current = i
         /\ \A i \in StepsOf(t), s \in StepStatuses :
              /\ Good([t EXCEPT !.steps[i] = s])
              /\ SamePlan([t EXCEPT !.steps[i] = s], t)
              /\ [t EXCEPT !.steps[i] = s].attempts = t.attempts
              /\ [t EXCEPT !.steps[i] = s].current = t.current
<1>1. ASSUME NEW s \in Statuses
      PROVE  LET u == [t EXCEPT !.status = s] IN
             Good(u) /\ SamePlan(u, t) /\ u.attempts = t.attempts /\ u.current = t.current
  BY DEF Good, TaskFields, SamePlan, StepsOf, Limit
<1>2. ASSUME NEW i \in StepsOf(t)
      PROVE  LET u == [t EXCEPT !.current = i] IN
             Good(u) /\ SamePlan(u, t) /\ u.attempts = t.attempts /\ u.current = i
  BY DEF Good, TaskFields, SamePlan, StepsOf, Limit
<1>3. ASSUME NEW i \in StepsOf(t), NEW s \in StepStatuses
      PROVE  LET u == [t EXCEPT !.steps[i] = s] IN
             Good(u) /\ SamePlan(u, t) /\ u.attempts = t.attempts /\ u.current = t.current
  BY DEF Good, TaskFields, SamePlan, StepsOf, Limit
<1> QED BY <1>1, <1>2, <1>3

\* One more attempt, while one is left.
LEMMA OneMore ==
  ASSUME NEW t, Good(t), NEW i \in StepsOf(t), t.attempts[i] < Limit(t)
  PROVE  LET u == [t EXCEPT !.attempts[i] = @ + 1, !.steps[i] = "running"] IN
         /\ Good(u) /\ SamePlan(u, t) /\ u.current = t.current
         /\ u.attempts = [t.attempts EXCEPT ![i] = @ + 1]
<1> DEFINE u == [t EXCEPT !.attempts[i] = @ + 1, !.steps[i] = "running"]
<1>1. /\ DOMAIN u = DOMAIN t /\ u.status = t.status /\ u.plan = t.plan
      /\ u.asked = t.asked /\ u.current = t.current
      /\ u.attempts = [t.attempts EXCEPT ![i] = @ + 1]
      /\ u.steps = [t.steps EXCEPT ![i] = "running"]
  BY DEF Good, TaskFields
<1> HIDE DEF u
<1>2. StepsOf(u) = StepsOf(t) /\ Limit(u) = Limit(t)
  BY <1>1 DEF StepsOf, Limit
<1>3. Limit(t) \in Nat
  BY LimitType DEF Good
<1>4. u.steps \in [StepsOf(t) -> StepStatuses]
  BY <1>1 DEF Good, StepStatuses
<1>5. /\ u.attempts \in [StepsOf(t) -> Nat]
      /\ \A j \in StepsOf(t) : u.attempts[j] <= Limit(t)
  BY <1>1, <1>3 DEF Good
<1>6. Good(u)
  BY <1>1, <1>2, <1>4, <1>5 DEF Good
<1> QED BY <1>1, <1>6 DEF SamePlan, u

-----------------------------------------------------------------------------
\* The other processes do not notice a write that leaves the plan alone.
LEMMA OthersOK ==
  ASSUME TaskInv, NEW c \in Commands, NEW d \in Commands \ {c}, cmd'[d] = cmd[d],
         \/ row' = row
         \/ Good(row') /\ SamePlan(row', row)
  PROVE  CmdOK(d)'
<1>1. CmdOK(d)
  BY DEF TaskInv
<1>2. CASE cmd[d].at = "idle"
  BY <1>1, <1>2 DEF CmdOK
<1>3. CASE cmd[d].at # "idle"
  BY <1>1, <1>3 DEF CmdOK, SamePlan, StepsOf
<1> QED BY <1>2, <1>3

\* A step of one process that leaves the plan alone, and the process in order,
\* keeps the invariant.
LEMMA StepOK ==
  ASSUME TaskInv, NEW c \in Commands,
         DOMAIN cmd' = Commands, \A d \in Commands \ {c} : cmd'[d] = cmd[d],
         \/ row' = row
         \/ Good(row') /\ SamePlan(row', row),
         CmdOK(c)', aged' \in BOOLEAN, overlapped' \in BOOLEAN, succeeded' \subseteq Nat
  PROVE  TaskInv'
<1>1. \A d \in Commands : CmdOK(d)'
  BY OthersOK
<1>2. row' = NoTask \/ Good(row')
  BY DEF TaskInv
<1> QED BY <1>1, <1>2 DEF TaskInv

\* So does the end of a process.
LEMMA ExitOK ==
  ASSUME TaskInv, NEW c \in Commands, Exits(c),
         \/ row' = row
         \/ Good(row') /\ SamePlan(row', row),
         aged' \in BOOLEAN, UNCHANGED <<overlapped, succeeded>>
  PROVE  TaskInv'
<1>1. /\ DOMAIN cmd' = Commands /\ \A d \in Commands \ {c} : cmd'[d] = cmd[d]
      /\ cmd'[c] = Idle
  BY DEF TaskInv, Exits
<1>2. CmdOK(c)'
  BY <1>1 DEF CmdOK, Idle, CmdFields
<1> QED BY <1>1, <1>2, StepOK DEF TaskInv

\* A process that goes on with a task it has just written.
LEMMA WriteOK ==
  ASSUME TaskInv, NEW c \in Commands, cmd[c].at # "idle",
         NEW task, Good(task), SamePlan(task, cmd[c].copy),
         Write(c, task), NEW at, Goes(c, task, at),
         at \in {"begin", "loop", "step", "call", "act"},
         at \in {"step", "call", "act"} => cmd[c].index \in StepsOf(row),
         UNCHANGED <<overlapped, succeeded>>
  PROVE  TaskInv'
<1>1. CmdOK(c) /\ DOMAIN cmd = Commands
  BY DEF TaskInv
<1>2. /\ DOMAIN cmd' = Commands /\ \A d \in Commands \ {c} : cmd'[d] = cmd[d]
      /\ CmdFields \subseteq DOMAIN cmd'[c]
      /\ cmd'[c].do = cmd[c].do /\ cmd'[c].index = cmd[c].index
      /\ cmd'[c].copy = task /\ cmd'[c].at = at
  BY <1>1 DEF Goes, CmdOK, CmdFields
<1>3. row' = task /\ aged' = FALSE
  BY DEF Write
<1>4. SamePlan(task, row)
  BY <1>1 DEF CmdOK, SamePlan
<1>5. CmdOK(c)'
  BY <1>1, <1>2, <1>3, <1>4 DEF CmdOK, SamePlan, StepsOf
<1> QED BY <1>2, <1>3, <1>4, <1>5, StepOK DEF TaskInv

LEMMA InvInit == Init => TaskInv
<1> SUFFICES ASSUME Init PROVE TaskInv
  OBVIOUS
<1>1. ASSUME NEW c \in Commands PROVE CmdOK(c)
  <2>1. cmd[c] = Idle
    BY DEF Init
  <2> QED BY <2>1 DEF CmdOK, Idle, CmdFields
<1>2. DOMAIN cmd = Commands
  BY DEF Init
<1> QED BY <1>1, <1>2 DEF Init, TaskInv

LEMMA InvStep == TaskInv /\ [Next]_vars => TaskInv'
<1> SUFFICES ASSUME TaskInv, [Next]_vars PROVE TaskInv'
  OBVIOUS
<1>t. /\ row = NoTask \/ Good(row)
      /\ DOMAIN cmd = Commands /\ \A c \in Commands : CmdOK(c)
      /\ aged \in BOOLEAN /\ overlapped \in BOOLEAN /\ succeeded \subseteq Nat
  BY DEF TaskInv
<1>1. ASSUME NEW plan \in Plans, NEW asked \in AskedAttempts, Add(plan, asked) PROVE TaskInv'
  <2>1. Good(row')
    <3>1. Len(plan) \in 1..8 /\ Valid(plan)
      BY <1>1 DEF Add, Valid
    <3>2. /\ TaskFields \subseteq DOMAIN row'
          /\ row'.status = "pending" /\ row'.plan = plan /\ row'.asked = asked
          /\ row'.steps = [i \in 1..Len(plan) |-> "pending"]
          /\ row'.attempts = [i \in 1..Len(plan) |-> 0] /\ row'.current = 1
      BY <1>1 DEF Add, TaskFields
    <3>3. Limit(row') \in Nat
      BY <3>2, LimitType
    <3>4. row'.steps \in [StepsOf(row') -> StepStatuses]
      BY <3>2 DEF StepsOf, StepStatuses
    <3>5. /\ row'.attempts \in [StepsOf(row') -> Nat]
          /\ \A i \in StepsOf(row') : row'.attempts[i] <= Limit(row')
      <4>1. StepsOf(row') = 1..Len(plan)
        BY <3>2 DEF StepsOf
      <4>2. row'.attempts \in [StepsOf(row') -> Nat]
        BY <3>2, <4>1
      <4>3. ASSUME NEW i \in StepsOf(row') PROVE row'.attempts[i] <= Limit(row')
        <5>1. row'.attempts[i] = 0
          BY <3>2, <4>1
        <5> QED BY <3>3, <5>1
      <4> QED BY <4>2, <4>3
    <3>6. row'.current \in StepsOf(row')
      <4>1. StepsOf(row') = 1..Len(plan)
        BY <3>2 DEF StepsOf
      <4>2. 1 \in 1..Len(plan)
        BY <3>1
      <4> QED BY <3>2, <4>1, <4>2
    <3> QED BY <3>1, <3>2, <3>4, <3>5, <3>6 DEF Good, Statuses
  <2>2. \A c \in Commands : cmd[c].at = "idle"
    BY <1>1, <1>t, NoTaskNotGood DEF Add, CmdOK
  <2>3. \A c \in Commands : CmdOK(c)'
    BY <1>1, <1>t, <2>2 DEF Add, CmdOK
  <2> QED BY <1>1, <1>t, <2>1, <2>3 DEF Add, TaskInv
<1>2. ASSUME NEW c \in Commands, NEW do \in {"run", "cancel", "list"}, NEW at \in {"begin", "write"},
             row # NoTask, Load(c, do, at)
      PROVE  TaskInv'
  <2>1. /\ DOMAIN cmd' = Commands /\ \A d \in Commands \ {c} : cmd'[d] = cmd[d]
        /\ cmd'[c] = [do |-> do, at |-> at, copy |-> row, index |-> row.current]
    BY <1>2, <1>t DEF Load
  <2>2. Good(row) /\ row' = row
    BY <1>2, <1>t DEF Load
  <2>3. row.current \in 1..(Len(row.plan) + 1)
    BY <2>2, GoodSteps DEF Good, StepsOf
  <2>4. CmdOK(c)'
    BY <2>1, <2>2, <2>3 DEF CmdOK, CmdFields, SamePlan
  <2>5. overlapped' \in BOOLEAN
    BY <1>2 DEF Load
  <2> QED BY <1>2, <1>t, <2>1, <2>2, <2>4, <2>5, StepOK DEF Load
<1>3. ASSUME NEW c \in Commands, RunLoads(c) \/ CancelLoads(c) \/ ListLoads(c) PROVE TaskInv'
  <2>1. row # NoTask
    BY <1>3 DEF RunLoads, CancelLoads, ListLoads, NoTask
  <2> QED BY <1>2, <1>3, <2>1 DEF RunLoads, CancelLoads, ListLoads
\* What a process that is not idle has.
<1>4. ASSUME NEW c \in Commands, cmd[c].at # "idle"
      PROVE  /\ Good(row) /\ Good(cmd[c].copy) /\ SamePlan(cmd[c].copy, row)
             /\ StepsOf(cmd[c].copy) = StepsOf(row)
             /\ cmd[c].index \in 1..(Len(row.plan) + 1)
             /\ cmd[c].at \in {"step", "call", "act"} => cmd[c].index \in StepsOf(row)
             /\ CmdFields \subseteq DOMAIN cmd[c] /\ cmd[c].do \in {"run", "cancel", "list"}
  BY <1>4, <1>t DEF CmdOK, StepsOf, SamePlan
\* A process writes another status and ends.
<1>5. ASSUME NEW c \in Commands, cmd[c].at # "idle", NEW s \in Statuses,
             Write(c, [cmd[c].copy EXCEPT !.status = s]), Exits(c), UNCHANGED history
      PROVE  TaskInv'
  <2> DEFINE u == [cmd[c].copy EXCEPT !.status = s]
  <2>1. Good(u) /\ SamePlan(u, row)
    BY <1>4, <1>5, Edits DEF SamePlan
  <2>2. row' = u /\ aged' = FALSE
    BY <1>5 DEF Write
  <2> QED BY <1>5, <2>1, <2>2, ExitOK DEF history
<1>6. ASSUME NEW c \in Commands, RunBegins(c) PROVE TaskInv'
  <2>1. cmd[c].at = "begin"
    BY <1>6 DEF RunBegins, Holding
  <2>2. Good([cmd[c].copy EXCEPT !.status = "running"])
        /\ SamePlan([cmd[c].copy EXCEPT !.status = "running"], cmd[c].copy)
    BY <1>4, <2>1, Edits DEF Statuses
  <2> QED BY <1>6, <2>1, <2>2, WriteOK DEF RunBegins, history
<1>7. ASSUME NEW c \in Commands, RunTakesStep(c) PROVE TaskInv'
  <2>1. cmd[c].at = "loop" /\ cmd[c].index \in StepsOf(cmd[c].copy)
    BY <1>7 DEF RunTakesStep, Holding
  <2>2. /\ CmdOK(c) /\ Good(cmd[c].copy)
        /\ Good([cmd[c].copy EXCEPT !.current = cmd[c].index])
        /\ SamePlan([cmd[c].copy EXCEPT !.current = cmd[c].index], cmd[c].copy)
    BY <1>4, <1>t, <2>1, Edits
  <2>3. /\ DOMAIN cmd' = Commands /\ \A d \in Commands \ {c} : cmd'[d] = cmd[d]
        /\ cmd'[c].copy = [cmd[c].copy EXCEPT !.current = cmd[c].index]
        /\ cmd'[c].at = "step" /\ cmd'[c].do = cmd[c].do /\ cmd'[c].index = cmd[c].index
        /\ CmdFields \subseteq DOMAIN cmd'[c]
    BY <1>7, <1>t, <1>4, <2>1 DEF RunTakesStep, CmdFields
  <2>4. CmdOK(c)'
    BY <1>7, <1>4, <2>1, <2>2, <2>3 DEF RunTakesStep, CmdOK, SamePlan, StepsOf
  <2> QED BY <1>7, <1>t, <2>3, <2>4, StepOK DEF RunTakesStep, history
<1>8. ASSUME NEW c \in Commands, RunOutOfTime(c) \/ RunGivesUp(c) PROVE TaskInv'
  <2>1. cmd[c].at # "idle" /\ RunFails(c)
    BY <1>8 DEF RunOutOfTime, RunGivesUp, Holding
  <2> QED BY <2>1, <1>5 DEF RunFails, Statuses
<1>9. ASSUME NEW c \in Commands, RunCompletes(c) PROVE TaskInv'
  BY <1>9, <1>5 DEF RunCompletes, Holding, Statuses
<1>10. ASSUME NEW c \in Commands, Attempt(c) PROVE TaskInv'
  <2> DEFINE i == cmd[c].index
             u == [cmd[c].copy EXCEPT !.attempts[i] = @ + 1, !.steps[i] = "running"]
  <2>1. cmd[c].at = "step" /\ AttemptLeft(c) /\ Write(c, u) /\ Goes(c, u, "call")
    BY <1>10 DEF Attempt, Holding
  <2>2. i \in StepsOf(row) /\ i \in StepsOf(cmd[c].copy) /\ Good(cmd[c].copy)
    BY <1>4, <2>1
  <2>3. Good(u) /\ SamePlan(u, cmd[c].copy)
    BY <2>1, <2>2, OneMore DEF AttemptLeft
  <2> HIDE DEF u
  <2> QED BY <1>10, <2>1, <2>2, <2>3, WriteOK DEF Attempt, history
<1>11. ASSUME NEW c \in Commands, Call(c) PROVE TaskInv'
  <2>1. cmd[c].at = "call"
    BY <1>11 DEF Call, Holding
  <2>2. /\ DOMAIN cmd' = Commands /\ \A d \in Commands \ {c} : cmd'[d] = cmd[d]
        /\ cmd'[c].copy = cmd[c].copy
        /\ cmd'[c].at = "act" /\ cmd'[c].do = cmd[c].do /\ cmd'[c].index = cmd[c].index
        /\ CmdFields \subseteq DOMAIN cmd'[c]
    BY <1>11, <1>t, <1>4, <2>1 DEF Call, CmdFields
  <2>3. CmdOK(c)'
    BY <1>11, <1>4, <2>1, <2>2 DEF Call, CmdOK, SamePlan, StepsOf
  <2> QED BY <1>11, <1>t, <2>2, <2>3, StepOK DEF Call
<1>12. ASSUME NEW c \in Commands, ActionSucceeds(c) PROVE TaskInv'
  <2> DEFINE i == cmd[c].index
             u == [cmd[c].copy EXCEPT !.steps[i] = "completed"]
  <2>1. cmd[c].at = "act" /\ Write(c, u)
    BY <1>12 DEF ActionSucceeds, Holding
  <2>2. i \in StepsOf(row) /\ i \in StepsOf(cmd[c].copy) /\ Good(cmd[c].copy) /\ Good(row)
    BY <1>4, <2>1
  <2>3. Good(u) /\ SamePlan(u, row)
    <3>1. "completed" \in StepStatuses
      BY DEF StepStatuses
    <3>2. Good(u) /\ SamePlan(u, cmd[c].copy)
      BY <2>2, <3>1, Edits
    <3>3. SamePlan(cmd[c].copy, row)
      BY <1>4, <2>1
    <3> QED BY <3>2, <3>3 DEF SamePlan
  <2>4. /\ DOMAIN cmd' = Commands /\ \A d \in Commands \ {c} : cmd'[d] = cmd[d]
        /\ cmd'[c].copy = u
        /\ cmd'[c].at = "loop" /\ cmd'[c].do = cmd[c].do /\ cmd'[c].index = i + 1
        /\ CmdFields \subseteq DOMAIN cmd'[c]
    BY <1>12, <1>t, <1>4, <2>1 DEF ActionSucceeds, CmdFields
  <2> HIDE DEF u
  <2>5. row' = u /\ aged' = FALSE
    BY <2>1 DEF Write
  <2>6. i + 1 \in 1..(Len(row.plan) + 1)
    BY <2>2, GoodSteps DEF StepsOf
  <2>7. CmdOK(c)'
    BY <1>4, <2>1, <2>3, <2>4, <2>5, <2>6 DEF CmdOK, SamePlan, StepsOf
  <2>8. succeeded' \subseteq Nat /\ overlapped' = overlapped
    BY <1>12, <1>t, <2>2, GoodSteps DEF ActionSucceeds, StepsOf
  <2> QED BY <1>t, <2>3, <2>4, <2>5, <2>7, <2>8, StepOK
<1>13. ASSUME NEW c \in Commands, ActionFails(c) PROVE TaskInv'
  <2> DEFINE u == [cmd[c].copy EXCEPT !.steps[cmd[c].index] = "failed"]
  <2>1. cmd[c].at = "act" /\ Write(c, u) /\ Goes(c, u, "step")
    BY <1>13 DEF ActionFails, Holding
  <2>2. /\ cmd[c].index \in StepsOf(row) /\ cmd[c].index \in StepsOf(cmd[c].copy)
        /\ Good(cmd[c].copy)
    BY <1>4, <2>1
  <2>3. Good(u) /\ SamePlan(u, cmd[c].copy)
    BY <2>2, Edits DEF StepStatuses
  <2> HIDE DEF u
  <2> QED BY <1>13, <2>1, <2>2, <2>3, WriteOK DEF ActionFails, history
<1>14. ASSUME NEW c \in Commands, CancelWrites(c) \/ ListRecovers(c) PROVE TaskInv'
  BY <1>14, <1>5 DEF CancelWrites, ListRecovers, Holding, Statuses
<1>15. ASSUME NEW c \in Commands, Crash(c) PROVE TaskInv'
  BY <1>15, <1>t, ExitOK DEF Crash, history
<1>16. CASE Age
  BY <1>16, <1>t DEF Age, history, TaskInv, CmdOK
<1>17. CASE UNCHANGED vars
  BY <1>17, <1>t DEF vars, history, TaskInv, CmdOK
<1> QED BY <1>1, <1>3, <1>6, <1>7, <1>8, <1>9, <1>10, <1>11, <1>12, <1>13, <1>14, <1>15,
           <1>16, <1>17 DEF Next, Run

LEMMA InvTypeOK == TaskInv => TypeOK
<1> SUFFICES ASSUME TaskInv PROVE TypeOK
  OBVIOUS
<1>1. IsTask(row) /\ IsTask(NoTask)
  BY GoodIsTask DEF TaskInv, IsTask
<1>2. ASSUME NEW c \in Commands
      PROVE  /\ cmd[c].do \in {"none", "run", "cancel", "list"}
             /\ cmd[c].at \in {"idle", "begin", "loop", "step", "call", "act", "write"}
             /\ IsTask(cmd[c].copy)
             /\ cmd[c].index \in 1..(Len(cmd[c].copy.plan) + 1)
  <2>1. CmdOK(c)
    BY DEF TaskInv
  <2>2. CASE cmd[c].at = "idle"
    BY <1>1, <2>1, <2>2 DEF CmdOK, Idle, NoTask
  <2>3. CASE cmd[c].at # "idle"
    BY <2>1, <2>3, GoodIsTask DEF CmdOK, SamePlan
  <2> QED BY <2>2, <2>3
<1> QED BY <1>1, <1>2 DEF TaskInv, TypeOK

\* The stored task and every copy of it keep their types, and no step has more
\* attempts than the highest limit (agent/tasks/types.ts, executor.ts runStep).
THEOREM SpecTypeOK == Spec => []TypeOK
BY InvInit, InvStep, InvTypeOK, PTL DEF Spec

-----------------------------------------------------------------------------
(***************************************************************************)
(* The history: which steps have succeeded, how often one was called.      *)
(***************************************************************************)

Done(n)     == \A j \in 1..(n - 1) : j \in succeeded
DoneNext(n) == \A j \in 1..(n - 1) : j \in succeeded'

\* Whoever stands at a step finds those before it done.
PrefixDone ==
  /\ Done(row.current)
  /\ \A c \in Commands : Done(cmd[c].copy.current) /\ Done(cmd[c].index)

\* While commands follow one another, a copy has the attempts of the record, and
\* the call that is about to be made is one of them.
Counted ==
  ~overlapped =>
    /\ \A c, d \in Commands : cmd[c].at # "idle" /\ cmd[d].at # "idle" => c = d
    /\ \A c \in Commands : cmd[c].at # "idle" => cmd[c].copy.attempts = row.attempts
    /\ row = NoTask => invoked = <<>>
    /\ Good(row) => /\ invoked \in [StepsOf(row) -> Nat]
                    /\ \A i \in StepsOf(row) : invoked[i] <= row.attempts[i]
    /\ \A c \in Commands : cmd[c].at = "call" =>
         invoked[cmd[c].index] < row.attempts[cmd[c].index]

HistoryInv == PrefixDone /\ Counted

\* What one process owes when it takes a step and the others are left alone.
LEMMA HistoryOK ==
  ASSUME TaskInv, HistoryInv, NEW c \in Commands, cmd[c].at # "idle",
         \A d \in Commands \ {c} : cmd'[d] = cmd[d],
         Good(row'), StepsOf(row') = StepsOf(row), overlapped' = overlapped,
         succeeded \subseteq succeeded',
         Done(row.current)', Done(cmd[c].copy.current)', Done(cmd[c].index)',
         ~overlapped =>
           /\ cmd'[c].at # "idle" => cmd'[c].copy.attempts = row'.attempts
           /\ invoked' \in [StepsOf(row) -> Nat]
           /\ \A i \in StepsOf(row) : invoked'[i] <= row'.attempts[i]
           /\ cmd'[c].at = "call" => invoked'[cmd'[c].index] < row'.attempts[cmd'[c].index]
  PROVE  HistoryInv'
<1>1. PrefixDone'
  <2>1. ASSUME NEW d \in Commands \ {c} PROVE (Done(cmd[d].copy.current) /\ Done(cmd[d].index))'
    <3>1. Done(cmd[d].copy.current) /\ Done(cmd[d].index) /\ cmd'[d] = cmd[d]
      BY DEF HistoryInv, PrefixDone
    <3> QED BY <3>1 DEF Done
  <2> QED BY <2>1 DEF PrefixDone
<1>2. ASSUME ~overlapped PROVE Counted'
  <2>1. \A d \in Commands \ {c} : cmd[d].at = "idle" /\ cmd'[d].at = "idle"
    BY <1>2 DEF HistoryInv, Counted
  <2>2. row' # NoTask
    BY NoTaskNotGood
  <2>3. \A d \in Commands : cmd'[d].at # "idle" => d = c
    BY <2>1
  <2> QED BY <1>2, <2>2, <2>3 DEF Counted
<1>3. ASSUME overlapped PROVE Counted'
  <2>1. overlapped' = TRUE
    BY <1>3 DEF TaskInv
  <2> QED BY <2>1 DEF Counted
<1> QED BY <1>1, <1>2, <1>3 DEF HistoryInv

LEMMA HistoryInit == Init => HistoryInv
<1> SUFFICES ASSUME Init PROVE HistoryInv
  OBVIOUS
<1>1. row = NoTask /\ invoked = <<>> /\ ~Good(row) /\ NoTask.current = 1
  BY NoTaskNotGood DEF Init, NoTask
<1>2. \A c \in Commands : /\ cmd[c].at = "idle" /\ cmd[c].index = 1
                          /\ cmd[c].copy.current = 1
  BY DEF Init, Idle, NoTask
<1>3. Done(1)
  BY DEF Done
<1> QED BY <1>1, <1>2, <1>3 DEF HistoryInv, PrefixDone, Counted
LEMMA HistoryStep == TaskInv /\ HistoryInv /\ [Next]_vars => HistoryInv'
<1> SUFFICES ASSUME TaskInv, HistoryInv, [Next]_vars PROVE HistoryInv'
  OBVIOUS
<1>t. /\ row = NoTask \/ Good(row)
      /\ DOMAIN cmd = Commands /\ \A c \in Commands : CmdOK(c)
      /\ overlapped \in BOOLEAN /\ TaskInv'
  BY InvStep DEF TaskInv
<1>h. /\ Done(row.current)
      /\ \A c \in Commands : Done(cmd[c].copy.current) /\ Done(cmd[c].index)
  BY DEF HistoryInv, PrefixDone
<1>1. ASSUME NEW plan \in Plans, NEW asked \in AskedAttempts, Add(plan, asked)
      PROVE  HistoryInv'
  <2>1. /\ row'.current = 1 /\ StepsOf(row') = 1..Len(plan)
        /\ row'.attempts = [i \in 1..Len(plan) |-> 0]
        /\ invoked' = [i \in 1..Len(plan) |-> 0]
        /\ cmd' = cmd /\ succeeded' = succeeded
    BY <1>1 DEF Add, StepsOf
  <2>2. \A c \in Commands : cmd'[c].at = "idle"
    BY <1>1, <1>t, <2>1, NoTaskNotGood DEF Add, CmdOK
  <2>3. row' # NoTask
    BY <1>1 DEF Add, NoTask
  <2>4. PrefixDone'
    <3>1. Done(1)'
      BY DEF Done
    <3>2. ASSUME NEW c \in Commands PROVE (Done(cmd[c].copy.current) /\ Done(cmd[c].index))'
      BY <1>h, <2>1 DEF Done
    <3> QED BY <2>1, <3>1, <3>2 DEF PrefixDone
  <2>5. /\ invoked' \in [StepsOf(row') -> Nat]
        /\ \A i \in StepsOf(row') : invoked'[i] <= row'.attempts[i]
    <3>1. \A i \in StepsOf(row') : invoked'[i] = 0 /\ row'.attempts[i] = 0
      BY <2>1
    <3> QED BY <2>1, <3>1
  <2>6. Counted'
    BY <2>2, <2>3, <2>5 DEF Counted
  <2> QED BY <2>4, <2>6 DEF HistoryInv
<1>2. ASSUME NEW c \in Commands, NEW do, NEW at \in {"begin", "write"},
             row # NoTask, Load(c, do, at)
      PROVE  HistoryInv'
  <2>1. /\ \A d \in Commands \ {c} : cmd'[d] = cmd[d]
        /\ cmd'[c] = [do |-> do, at |-> at, copy |-> row, index |-> row.current]
        /\ row' = row /\ succeeded' = succeeded /\ invoked' = invoked
    BY <1>2, <1>t DEF Load
  <2>2. PrefixDone'
    <3>1. ASSUME NEW d \in Commands \ {c} PROVE (Done(cmd[d].copy.current) /\ Done(cmd[d].index))'
      BY <1>h, <2>1 DEF Done
    <3>2. Done(row.current)'
      BY <1>h, <2>1 DEF Done
    <3> QED BY <2>1, <3>1, <3>2 DEF PrefixDone
  <2>3. ASSUME ~overlapped' PROVE Counted'
    <3>1. ~overlapped /\ \A d \in Commands : cmd[d].at = "idle"
      BY <1>2, <2>3 DEF Load
    <3>2. \A d \in Commands : cmd'[d].at # "idle" => d = c
      BY <2>1, <3>1
    <3>3. cmd'[c].copy.attempts = row'.attempts /\ cmd'[c].at # "call"
      BY <2>1
    <3>4. Good(row) => /\ invoked \in [StepsOf(row) -> Nat]
                       /\ \A i \in StepsOf(row) : invoked[i] <= row.attempts[i]
      BY <3>1 DEF HistoryInv, Counted
    <3>5. Good(row') => /\ invoked' \in [StepsOf(row') -> Nat]
                        /\ \A i \in StepsOf(row') : invoked'[i] <= row'.attempts[i]
      BY <2>1, <3>4
    <3>6. \A d \in Commands : cmd'[d].at # "call"
      BY <3>2, <3>3
    <3> QED BY <1>2, <2>1, <3>2, <3>3, <3>5, <3>6 DEF Counted
  <2>4. ASSUME overlapped' = TRUE PROVE Counted'
    BY <2>4 DEF Counted
  <2>5. overlapped' \in BOOLEAN
    BY <1>t DEF TaskInv
  <2> QED BY <2>2, <2>3, <2>4, <2>5 DEF HistoryInv
<1>3. ASSUME NEW c \in Commands, RunLoads(c) \/ CancelLoads(c) \/ ListLoads(c) PROVE HistoryInv'
  <2>1. row # NoTask
    BY <1>3 DEF RunLoads, CancelLoads, ListLoads, NoTask
  <2> QED BY <1>2, <1>3, <2>1 DEF RunLoads, CancelLoads, ListLoads
\* What a process that is not idle has, and what it finds.
<1>4. ASSUME NEW c \in Commands, cmd[c].at # "idle"
      PROVE  /\ Good(row) /\ Good(cmd[c].copy) /\ SamePlan(cmd[c].copy, row)
             /\ StepsOf(cmd[c].copy) = StepsOf(row)
             /\ cmd[c].at \in {"step", "call", "act"} => cmd[c].index \in StepsOf(row)
             /\ CmdFields \subseteq DOMAIN cmd[c]
             /\ ~overlapped =>
                  /\ cmd[c].copy.attempts = row.attempts
                  /\ invoked \in [StepsOf(row) -> Nat]
                  /\ \A i \in StepsOf(row) : invoked[i] <= row.attempts[i]
                  /\ cmd[c].at = "call" => invoked[cmd[c].index] < row.attempts[cmd[c].index]
  <2>1. /\ Good(row) /\ Good(cmd[c].copy) /\ SamePlan(cmd[c].copy, row)
        /\ StepsOf(cmd[c].copy) = StepsOf(row)
        /\ cmd[c].at \in {"step", "call", "act"} => cmd[c].index \in StepsOf(row)
        /\ CmdFields \subseteq DOMAIN cmd[c]
    BY <1>4, <1>t DEF CmdOK, StepsOf, SamePlan
  <2> QED BY <1>4, <2>1 DEF HistoryInv, Counted
\* Done is kept: nothing is forgotten.
<1>5. ASSUME NEW n, Done(n), succeeded \subseteq succeeded' PROVE Done(n)'
  BY <1>5 DEF Done
\* A process ends, with a last write or without.
<1>6. ASSUME NEW c \in Commands, cmd[c].at # "idle", Exits(c), UNCHANGED history,
             \/ row' = row
             \/ /\ Good(row') /\ StepsOf(row') = StepsOf(row)
                /\ row'.attempts = cmd[c].copy.attempts
                /\ row'.current = cmd[c].copy.current
      PROVE  HistoryInv'
  <2>1. /\ \A d \in Commands \ {c} : cmd'[d] = cmd[d]
        /\ cmd'[c].at = "idle" /\ cmd'[c].copy.current = 1 /\ cmd'[c].index = 1
        /\ succeeded' = succeeded /\ invoked' = invoked /\ overlapped' = overlapped
    BY <1>6, <1>t DEF Exits, Idle, NoTask, history
  <2>2. Good(row') /\ StepsOf(row') = StepsOf(row) /\ Done(row.current)'
    BY <1>4, <1>5, <1>6, <1>h, <2>1
  <2>3. Done(1)'
    BY DEF Done
  <2>4. ~overlapped => row'.attempts = row.attempts
    BY <1>4, <1>6
  <2>5. ~overlapped =>
           /\ invoked' \in [StepsOf(row) -> Nat]
           /\ \A i \in StepsOf(row) : invoked'[i] <= row'.attempts[i]
    BY <1>4, <1>6, <2>1, <2>4
  <2> QED BY <1>6, <2>1, <2>2, <2>3, <2>5, HistoryOK
<1>7. ASSUME NEW c \in Commands, cmd[c].at # "idle", NEW s \in Statuses,
             Write(c, [cmd[c].copy EXCEPT !.status = s]), Exits(c), UNCHANGED history
      PROVE  HistoryInv'
  <2>1. row' = [cmd[c].copy EXCEPT !.status = s]
    BY <1>7 DEF Write
  <2>2. /\ Good(row') /\ SamePlan(row', cmd[c].copy)
        /\ row'.attempts = cmd[c].copy.attempts /\ row'.current = cmd[c].copy.current
    BY <1>4, <1>7, <2>1, Edits
  <2>3. StepsOf(row') = StepsOf(row)
    BY <1>4, <1>7, <2>2 DEF SamePlan, StepsOf
  <2> QED BY <1>6, <1>7, <2>2, <2>3
\* A process writes its copy, with the attempts it has, and goes on.
<1>8. ASSUME NEW c \in Commands, cmd[c].at # "idle",
             NEW task, Good(task), SamePlan(task, cmd[c].copy),
             task.attempts = cmd[c].copy.attempts, DoneNext(task.current),
             row' = task, cmd'[c].copy = task,
             \A d \in Commands \ {c} : cmd'[d] = cmd[d],
             cmd'[c].at # "call", Done(cmd[c].index)',
             succeeded \subseteq succeeded', UNCHANGED <<invoked, overlapped>>
      PROVE  HistoryInv'
  <2>1. StepsOf(row') = StepsOf(row)
    BY <1>4, <1>8 DEF SamePlan, StepsOf
  <2>2. ~overlapped => row'.attempts = row.attempts
    BY <1>4, <1>8
  <2>3. ~overlapped =>
           /\ invoked' \in [StepsOf(row) -> Nat]
           /\ \A i \in StepsOf(row) : invoked'[i] <= row'.attempts[i]
    BY <1>4, <1>8, <2>2
  <2>4. Done(row.current)' /\ Done(cmd[c].copy.current)'
    BY <1>8 DEF Done, DoneNext
  <2> QED BY <1>8, <2>1, <2>3, <2>4, HistoryOK
<1>9. ASSUME NEW c \in Commands, RunBegins(c) PROVE HistoryInv'
  <2> DEFINE u == [cmd[c].copy EXCEPT !.status = "running"]
  <2>1. /\ cmd[c].at = "begin" /\ row' = u /\ UNCHANGED history
        /\ Goes(c, u, "loop")
    BY <1>9 DEF RunBegins, Holding, Write
  <2>2. /\ Good(u) /\ SamePlan(u, cmd[c].copy)
        /\ u.attempts = cmd[c].copy.attempts /\ u.current = cmd[c].copy.current
    <3>1. "running" \in Statuses
      BY DEF Statuses
    <3> QED BY <1>4, <2>1, <3>1, Edits
  <2> HIDE DEF u
  <2>3. /\ \A d \in Commands \ {c} : cmd'[d] = cmd[d]
        /\ cmd'[c].copy = u /\ cmd'[c].at = "loop" /\ cmd'[c].index = cmd[c].index
    BY <1>t, <1>4, <2>1 DEF Goes, CmdFields
  <2>4. UNCHANGED <<succeeded, invoked, overlapped>>
    BY <2>1 DEF history
  <2>5. DoneNext(u.current) /\ Done(cmd[c].index)'
    BY <1>h, <2>2, <2>3, <2>4 DEF Done, DoneNext
  <2> QED BY <1>8, <2>1, <2>2, <2>3, <2>4, <2>5
<1>10. ASSUME NEW c \in Commands, ActionFails(c) PROVE HistoryInv'
  <2> DEFINE u == [cmd[c].copy EXCEPT !.steps[cmd[c].index] = "failed"]
  <2>1. /\ cmd[c].at = "act" /\ row' = u /\ UNCHANGED history
        /\ Goes(c, u, "step")
    BY <1>10 DEF ActionFails, Holding, Write
  <2>2. /\ Good(u) /\ SamePlan(u, cmd[c].copy)
        /\ u.attempts = cmd[c].copy.attempts /\ u.current = cmd[c].copy.current
    <3>1. "failed" \in StepStatuses
      BY DEF StepStatuses
    <3>2. Good(cmd[c].copy) /\ cmd[c].index \in StepsOf(cmd[c].copy)
      BY <1>4, <2>1
    <3> QED BY <3>1, <3>2, Edits
  <2> HIDE DEF u
  <2>3. /\ \A d \in Commands \ {c} : cmd'[d] = cmd[d]
        /\ cmd'[c].copy = u /\ cmd'[c].at = "step" /\ cmd'[c].index = cmd[c].index
    BY <1>t, <1>4, <2>1 DEF Goes, CmdFields
  <2>4. UNCHANGED <<succeeded, invoked, overlapped>>
    BY <2>1 DEF history
  <2>5. DoneNext(u.current) /\ Done(cmd[c].index)'
    BY <1>h, <2>2, <2>3, <2>4 DEF Done, DoneNext
  <2> QED BY <1>8, <2>1, <2>2, <2>3, <2>4, <2>5
<1>11. ASSUME NEW c \in Commands, ActionSucceeds(c) PROVE HistoryInv'
  <2> DEFINE i == cmd[c].index
             u == [cmd[c].copy EXCEPT !.steps[i] = "completed"]
  <2>1. /\ cmd[c].at = "act" /\ row' = u /\ UNCHANGED <<invoked, overlapped>>
        /\ succeeded' = succeeded \cup {i}
        /\ cmd' = [cmd EXCEPT ![c].copy = u, ![c].at = "loop", ![c].index = i + 1]
    BY <1>11 DEF ActionSucceeds, Holding, Write
  <2>2. i \in StepsOf(row) /\ i \in StepsOf(cmd[c].copy) /\ Good(cmd[c].copy) /\ Good(row)
    BY <1>4, <2>1
  <2>3. /\ Good(u) /\ SamePlan(u, cmd[c].copy)
        /\ u.attempts = cmd[c].copy.attempts /\ u.current = cmd[c].copy.current
    <3>1. "completed" \in StepStatuses
      BY DEF StepStatuses
    <3> QED BY <2>2, <3>1, Edits
  <2> HIDE DEF u
  <2>4. /\ \A d \in Commands \ {c} : cmd'[d] = cmd[d]
        /\ cmd'[c].copy = u /\ cmd'[c].at = "loop" /\ cmd'[c].index = i + 1
    BY <1>t, <1>4, <2>1 DEF CmdFields
  <2>5. i \in Nat
    BY <2>2, GoodSteps DEF StepsOf
  <2>6. DoneNext(u.current) /\ Done(i)
    BY <1>h, <2>1, <2>3 DEF Done, DoneNext
  <2>7. Done(cmd[c].index)'
    BY <2>1, <2>4, <2>5, <2>6, SMTT(30) DEF Done
  <2> QED BY <1>8, <2>1, <2>3, <2>4, <2>6, <2>7
<1>12. ASSUME NEW c \in Commands, RunTakesStep(c) PROVE HistoryInv'
  <2> DEFINE u == [cmd[c].copy EXCEPT !.current = cmd[c].index]
  <2>1. /\ cmd[c].at = "loop" /\ cmd[c].index \in StepsOf(cmd[c].copy) /\ row' = row
        /\ UNCHANGED <<succeeded, invoked, overlapped>>
        /\ cmd' = [cmd EXCEPT ![c].copy.current = cmd[c].index, ![c].at = "step"]
    BY <1>12 DEF RunTakesStep, Holding, history
  <2>2. u.attempts = cmd[c].copy.attempts /\ u.current = cmd[c].index
    BY <1>4, <2>1, Edits
  <2>3. /\ \A d \in Commands \ {c} : cmd'[d] = cmd[d]
        /\ cmd'[c].copy = u /\ cmd'[c].at = "step" /\ cmd'[c].index = cmd[c].index
    BY <1>t, <1>4, <2>1 DEF CmdFields
  <2> HIDE DEF u
  <2>4. Done(row.current)' /\ Done(cmd[c].copy.current)' /\ Done(cmd[c].index)'
    BY <1>5, <1>h, <2>1, <2>2, <2>3
  <2> QED BY <1>4, <2>1, <2>2, <2>3, <2>4, HistoryOK
<1>13. ASSUME NEW c \in Commands, Attempt(c) PROVE HistoryInv'
  <2> DEFINE i == cmd[c].index
             u == [cmd[c].copy EXCEPT !.attempts[i] = @ + 1, !.steps[i] = "running"]
  <2>1. /\ cmd[c].at = "step" /\ AttemptLeft(c) /\ row' = u /\ Goes(c, u, "call")
        /\ UNCHANGED <<succeeded, invoked, overlapped>>
    BY <1>13 DEF Attempt, Holding, Write, history
  <2>2. i \in StepsOf(row) /\ i \in StepsOf(cmd[c].copy) /\ Good(cmd[c].copy)
    BY <1>4, <2>1
  <2>3. /\ Good(u) /\ SamePlan(u, cmd[c].copy) /\ u.current = cmd[c].copy.current
        /\ u.attempts = [cmd[c].copy.attempts EXCEPT ![i] = @ + 1]
    BY <2>1, <2>2, OneMore DEF AttemptLeft
  <2> HIDE DEF u
  <2>4. /\ \A d \in Commands \ {c} : cmd'[d] = cmd[d]
        /\ cmd'[c].copy = u /\ cmd'[c].at = "call" /\ cmd'[c].index = i
    BY <1>t, <1>4, <2>1 DEF Goes, CmdFields
  <2>5. StepsOf(row') = StepsOf(row)
    BY <1>4, <2>1, <2>3 DEF SamePlan, StepsOf
  <2>6. Done(row.current)' /\ Done(cmd[c].copy.current)' /\ Done(cmd[c].index)'
    BY <1>5, <1>h, <2>1, <2>3, <2>4
  <2>7. ASSUME ~overlapped
        PROVE  /\ invoked' \in [StepsOf(row) -> Nat]
               /\ \A j \in StepsOf(row) : invoked'[j] <= row'.attempts[j]
               /\ invoked'[i] < row'.attempts[i]
    <3>1. /\ row.attempts \in [StepsOf(row) -> Nat]
          /\ row'.attempts = [row.attempts EXCEPT ![i] = @ + 1]
          /\ invoked' \in [StepsOf(row) -> Nat]
          /\ \A j \in StepsOf(row) : invoked'[j] <= row.attempts[j]
      BY <1>4, <2>1, <2>3, <2>7 DEF Good
    <3> QED BY <2>2, <3>1
  <2> QED BY <2>1, <2>3, <2>4, <2>5, <2>6, <2>7, HistoryOK
<1>14. ASSUME NEW c \in Commands, Call(c) PROVE HistoryInv'
  <2> DEFINE i == cmd[c].index
  <2>1. /\ cmd[c].at = "call" /\ row' = row /\ UNCHANGED <<succeeded, overlapped>>
        /\ cmd' = [cmd EXCEPT ![c].at = "act"]
        /\ ~overlapped => invoked' = [invoked EXCEPT ![i] = @ + 1]
    BY <1>14 DEF Call, Holding
  <2>2. /\ \A d \in Commands \ {c} : cmd'[d] = cmd[d]
        /\ cmd'[c].copy = cmd[c].copy /\ cmd'[c].at = "act" /\ cmd'[c].index = i
    BY <1>t, <1>4, <2>1 DEF CmdFields
  <2>3. Good(row) /\ i \in StepsOf(row)
    BY <1>4, <2>1
  <2>4. Done(row.current)' /\ Done(cmd[c].copy.current)' /\ Done(cmd[c].index)'
    BY <1>5, <1>h, <2>1, <2>2
  <2>5. ASSUME ~overlapped
        PROVE  /\ cmd'[c].copy.attempts = row'.attempts
               /\ invoked' \in [StepsOf(row) -> Nat]
               /\ \A j \in StepsOf(row) : invoked'[j] <= row'.attempts[j]
    <3>1. /\ row.attempts \in [StepsOf(row) -> Nat] /\ cmd[c].copy.attempts = row.attempts
          /\ invoked \in [StepsOf(row) -> Nat] /\ invoked[i] < row.attempts[i]
          /\ \A j \in StepsOf(row) : invoked[j] <= row.attempts[j]
      BY <1>4, <2>1, <2>5 DEF Good
    <3> QED BY <2>1, <2>2, <2>3, <2>5, <3>1
  <2> QED BY <2>1, <2>2, <2>3, <2>4, <2>5, HistoryOK
<1>15. ASSUME NEW c \in Commands,
              \/ RunOutOfTime(c) \/ RunGivesUp(c) \/ RunCompletes(c)
              \/ CancelWrites(c) \/ ListRecovers(c)
       PROVE  HistoryInv'
  <2>1. cmd[c].at # "idle" /\ Exits(c) /\ UNCHANGED history
    BY <1>15 DEF RunOutOfTime, RunGivesUp, RunFails, RunCompletes, CancelWrites,
                 ListRecovers, Holding
  <2>2. \E s \in Statuses : Write(c, [cmd[c].copy EXCEPT !.status = s])
    BY <1>15 DEF RunOutOfTime, RunGivesUp, RunFails, RunCompletes, CancelWrites,
                 ListRecovers, Statuses
  <2> QED BY <1>7, <2>1, <2>2
<1>16. ASSUME NEW c \in Commands, Crash(c) PROVE HistoryInv'
  BY <1>6, <1>16 DEF Crash
<1>17. CASE Age \/ UNCHANGED vars
  <2>1. /\ row' = row /\ cmd' = cmd /\ succeeded' = succeeded /\ invoked' = invoked
        /\ overlapped' = overlapped
    BY <1>17 DEF Age, vars, history
  <2>2. PrefixDone'
    BY <1>h, <2>1 DEF PrefixDone, Done
  <2>3. Counted'
    BY <2>1 DEF HistoryInv, Counted
  <2> QED BY <2>2, <2>3 DEF HistoryInv
<1> QED BY <1>1, <1>3, <1>9, <1>10, <1>11, <1>12, <1>13, <1>14, <1>15, <1>16, <1>17
        DEF Next, Run

-----------------------------------------------------------------------------
LEMMA DoneIsDiagnosed == TaskInv /\ HistoryInv => RepairAfterDiagnostic
<1> SUFFICES ASSUME TaskInv, HistoryInv, NEW c \in Commands, cmd[c].at = "act",
                    cmd[c].copy.plan[cmd[c].index] = "repair_file"
             PROVE  \E i \in succeeded : row.plan[i] \in Diagnostic
  BY DEF RepairAfterDiagnostic, Holding
<1> DEFINE i == cmd[c].index
<1>1. /\ i \in 1..Len(row.plan) /\ row.plan[i] = "repair_file"
      /\ Valid(row.plan) /\ row.plan \in Seq(Actions)
  BY GoodSteps DEF TaskInv, CmdOK, SamePlan, StepsOf, Good
<1>2. PICK j \in 1..(i - 1) : row.plan[j] \in Diagnostic
  BY <1>1 DEF Valid, Diagnosed
<1>3. j \in succeeded
  BY <1>2 DEF HistoryInv, PrefixDone, Done
<1> QED BY <1>2, <1>3

LEMMA CountedIsBounded == TaskInv /\ HistoryInv => AttemptsBounded
<1> SUFFICES ASSUME TaskInv, HistoryInv, ~overlapped, NEW i \in DOMAIN invoked
             PROVE  invoked[i] <= Limit(row)
  BY DEF AttemptsBounded
<1>1. CASE row = NoTask
  BY <1>1 DEF HistoryInv, Counted
<1>2. CASE Good(row)
  <2>1. /\ i \in StepsOf(row) /\ invoked[i] \in Nat /\ invoked[i] <= row.attempts[i]
    BY <1>2 DEF HistoryInv, Counted
  <2>2. row.attempts[i] \in Nat /\ row.attempts[i] <= Limit(row) /\ Limit(row) \in Nat
    BY <1>2, <2>1, LimitType DEF Good
  <2> QED BY <2>1, <2>2
<1> QED BY <1>1, <1>2 DEF TaskInv

\* A repair runs only after a diagnostic step of the same plan has succeeded,
\* however runs, cancellations, recoveries and deaths of processes follow one
\* another (agent/tasks/taskPlanner.ts, validateTaskPlan; executor.ts, doRun).
THEOREM SpecRepairAfterDiagnostic == Spec => []RepairAfterDiagnostic
BY InvInit, InvStep, HistoryInit, HistoryStep, DoneIsDiagnosed, PTL DEF Spec

\* As long as commands do not overlap, no action of a step is called more often
\* than the step's limit, over all runs (executor.ts, runStep).
THEOREM SpecAttemptsBounded == Spec => []AttemptsBounded
BY InvInit, InvStep, HistoryInit, HistoryStep, CountedIsBounded, PTL DEF Spec
=============================================================================
