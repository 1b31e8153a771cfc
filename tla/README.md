# AshenAI in TLA+

Specifications, model-checking configurations and machine-checked proofs for the AshenAI
Discord bot (`src/`; paths below are relative to it, so `src/games/lock.ts` is the file of
that name in the repository). The modules are checked with TLC and proved about with TLAPS.

## 1. The system

One Node.js process: a Discord client with slash commands, buttons and chat, casino games over
a JSON file, an AI router over several providers, an agent that repairs its own sources, a
self-updater, and a web panel. Concurrency is that of the event loop: a handler runs without
interruption from one `await` to the next, and any other handler, timer or callback may run in
between. There are no threads; what survives the process is the data directory (JSON files,
an SQLite database), the git working tree and the update record and lock file.

| component | state it keeps | operations | interacts with | what is hard, and what makes it correct |
|---|---|---|---|---|
| Lock manager (`games/lock.ts`) | active keys, FIFO queue per key, a timer per waiter | acquire, hand-over, time-out | player store, claims | hand-over races time-out; nesting; exclusion, no leak, FIFO, every wait ends |
| Player store (`games/store.ts`) | one JSON file with all players | read, mutate, write under one lock | lock, all games | whole-file copies, failing reads and saves, death between steps; no update lost |
| Wagered games (`games/games/blackjack.ts`, `mines.ts`, `quickdraw.ts`) | a session map per kind, in memory | start, play, settle, cancel, clean-up timer | player store, button handlers | double clicks, failure after memory changed; one debit and one payout per game |
| Plan confirmation (`ai/tools/confirmation-store.ts`, `discord/interactions/confirmation-handler.ts`, `discord/conversational-agent.ts`) | pending plans, the two slots of a conversation's state | offer, confirm by button or text, cancel, deny, expire, clean up | tool executor, Discord | flag read before awaits; slots written apart; a consumed plan stays dead, a "yes" runs the plan it looked up |
| Self-Healer (`agent/selfHeal.ts`, `selfHealCallback.ts`) | queue of changed files, files under repair, snapshot of times, suspended flag | scan, drain, verify, repair, restore, suspend, resume | AI router, update manager, task engine | update begins between two awaits; no unverified rewrite outlives its repair |
| Update manager (`core/update-manager.ts`, `update-lifecycle.ts`) | lock file, record file, updating flag, git tree | check, pull, gates, restart, judge, roll back | healer, git, supervisor that restarts the process | death between steps, starts that fail, healer in flight, update over rollback; only validated sources, rollback not retried |
| Message claims and intake (`index.ts`, `database/message-processing-repo.ts`) | lease per Discord message (SQLite), set of recent ids | claim, answer, complete, fail, recover | two `MessageCreate` listeners, router, usage, memory | lease expires under a slow answer; redelivery; one handling per lease |
| Usage and memory (`ai/usage-manager.ts`, `ai/memory.ts`, `ai/context-compression.ts`) | credits of the day and a conversation, each in memory and stored | check, record, flush; get, add, compress, reset | message intake | check before and count after an await; failing writes; turns that come apart |
| AI router (`ai/router.ts`) | health per provider, persisted | order, try, fail over, record, probe | providers, every AI feature | quarantine and one probe under concurrent requests, late reports, restarts |
| Task engine (`agent/tasks/*`) | tasks and steps, SQLite | plan, run, retry, cancel, list | command-line processes, healer's `repairFile`, router | whole records written back by several processes; death between attempt and result |
| Supervisors (`agent/supervisor/*`, `core/internalSupervisor.ts`) | restart counters, back-off | check, restart | all services | restart storms, give-up |
| Settlement, trading, daily (`games/settlement.ts`, ...) | processed claims | settle, trade, claim | player store, lock | claim looked up outside the claim lock; no command calls it at this commit |
| Control plane (`control/*`) | accounts, sessions, reset tokens | log in, renew, revoke, link | web server | expiry against use |
| Everything else | see `PROJECT.json` | | | presentation, string policy, measurements, synchronous SQL, or later candidates |

`PROJECT.json` lists every component with its status and the reason where it is not modelled,
and under `hazards` every place where we think a test would hardly reach, with the property
that covers it or the reason why none does yet.

## 2. Plan

Order: the most important behaviour first. Done: 1 to 8.

1. `KeyedMutex` (abstract) and `KeyedLock` (implements it), proofs in `KeyedLockProofs`.
2. `WagerLedger` (abstract) and `CasinoSessions` (implements it), composed with `KeyedLock`
   through `INSTANCE`: games over file over lock; proofs in `CasinoSessionsProofs`.
3. `OneShotPlans` (abstract) and `PlanConfirmation` (implements it), proofs in
   `PlanConfirmationProofs`.
4. `SelfHealer`, a component module of the healer alone (its own variables and steps).
5. `UpdateManager`, which `EXTENDS SelfHealer` and composes the two; proofs in
   `UpdateManagerProofs`.
6. `MessageIntake`: lease table, both `MessageCreate` listeners, credits and conversation in
   one module, because one handler drives them all; proofs in `MessageIntakeProofs` and, for
   the conversation and the types, `ConversationProofs`.
7. `AIRouter`: cool-down, quarantine, single probe, fail-over, restored health; proofs in
   `AIRouterProofs`.
8. `TaskEngine`: one stored task under several command-line processes; proofs in
   `TaskEngineProofs`. Still open: the supervisors.
9. Extension of `CasinoSessions` with `updatePlayer`'s writers (`economy.ts`, `daily.ts`,
   `rewards.ts`, `loot.ts`), then `Settlement`'s claim registry.
10. Abstract specifications still worth stating: the lease of a message, which the claim table
    implements, and the update of a checkout, from one validated version to another.

## 3. Conventions

* A step is one uninterrupted run of the event loop: what follows an `await` is another action.
  What runs synchronously after a release or a save, inside the same handler, belongs to the
  same action.
* `MC*` modules give constants their finite values and `MC*.cfg` the properties of one run.
* Next to some definitions stands one with a telling suffix (`LockFreeUnchecked`,
  `CleanupPending`, ...), its *mutated form*: the definition with a plausible bug. Nothing
  refers to it. `PROJECT.json` pairs each property with such a form, under which the
  property fails: the evidence that the property says something about the code.
* History variables (`acked`, `consumed`, `gates`, `rolledBack`, ...) record the past for the
  properties; no guard reads them. The counter of a bound (`made`) does appear in guards.

## 4. The modules

### KeyedMutex, KeyedLock (`games/lock.ts`)

`active` and `queues` are the two fields of `KeyedLockManager`; `phase`, `asked` and `stack`
say where each calling control flow is: waiting, resolved but not yet running, and inside the
functions of which keys. `Lock` is `acquire` up to its await (`LockFree`, `LockBusy`), `Resume`
the first line of `fn`, `TimeOut` the timer, `Unlock` the `finally` block (`HandOver` or
`SetFree`). Callers may nest keys and re-enter them, as the code lets them. `KeyedMutex` is the
promise: a key has at most one owner, which only gives it back or passes it to a parked caller;
who parks may give up. `ImplementsMutex` maps `owner` to the holder and `parked` to the queue as
a set.

### WagerLedger, CasinoSessions (`games/store.ts`, `blackjack.ts`, `mines.ts`, `quickdraw.ts`)

`disk` is the file as last renamed into place, with the coins of each player and, per game, how
often it was debited and settled. `sessions` and `game` are the in-memory maps and objects (the
game object outlives its map entry, as in the code: handlers hold it). `op[o]` is a handler run
inside `mutatePlayer`, with its whole-file copy. The store's lock is the real one:
`L == INSTANCE KeyedLock`, and every acquire, grant, time-out and unlock is its action. The
actions are the handlers up to their first await (`Start`, `Settle`, `StartQuickDraw`,
`RevealSafe`) and the stages of `mutatePlayer` (`Granted`, `ReadFails`, `StartRefused`,
`StartMutates`, `SettleMutates`, `SaveSucceeds`, `SaveFails`), `Drop` (cancel, clean-up timer,
lazy expiry) and `Restart`. A bet is one coin, a push returns it, a win returns two; experience,
levels and achievements are left out. Left out as well: `updatePlayer`, `savePlayers`, and a
file that does not parse. `WagerLedger` is the promise: a game takes its bet and is settled at
most once each, in one step, by a player who has the coins, and only a game without a bet may
cost coins at its end. `ImplementsLedger` maps its coins and its two sets of games to the file:
every rename of a copy is one booking, and no other step changes anything.

### OneShotPlans, PlanConfirmation (`confirmation-store.ts`, `confirmation-handler.ts`, `conversational-agent.ts`)

`store` is `pendingPlans` with its executed flag; `unified` and `confirmation` are the two slots of
the conversation state, `unifiedPlan` (the steps a "yes" runs) and `pendingConfirmation.planId` (the
id it looks up). They are written apart: `Offer` stores a plan and writes both, or neither when the
state object was replaced during its awaits; `OfferUnstored` (repair, "make it better") writes both
with a plan that is not stored; `AskModify` (`handleServerModify`) writes the second alone, again
with a plan that is not stored; `Forget` is the replacement of the state object, which handlers under
way still hold (`mine`). `TextDenies` drops the id of the second slot when the first is filled, as
`handleDenial` does. At this commit `handleConversation` sends the requests that build plans of
several steps to `/prompt` (1126-1145) before it reaches their handlers; the module models the
handlers as written, behind that redirection. Each press and each "yes" is a handler with its own place: a press is `checking` (guild and member are
fetched), `deferring`, `running` its steps, `replying`. The plans are those of several steps;
a plan of one tool takes the other half of `handleConfirm`, which is not modelled. A confirmation
by text runs its steps through the tool pipeline, where `execute()` of a write tool changes
nothing and answers with another, single-tool plan: such a run ends at its first step, and only
button presses count as executions (`runs`). `OneShotPlans` is the promise: a plan is open from its
creation to the first thing that uses it up, and never again; a handler is let in while it is open
and stays with that plan until it leaves; it acts only once the plan is closed to the others.
`ImplementsOneShot` maps "open" to *pending*, "closed" to *executed* or deleted, `inside` to the
handlers' ids (of a "yes" the one it looked up), and `acting` to the presses that run steps or report
on them. A "yes" is never acting: its plan stays open until its run ends, as in the code. The promise
is about ids; that the plan a "yes" runs is the one of its id is `YesRunsItsPlan`, and that a "no"
closes the plan it is about is `DenialKillsPlan`, which fails. How many handlers may be inside
at a time the promise does not say; see Findings.

### SelfHealer (`agent/selfHeal.ts`, `selfHealCallback.ts`)

Two workers write sources: the drain of the polling loop and a task that calls `repairFile`.
`job[w]` is where a worker is between its awaits; `touched` abstracts the modification times
against `knownFiles` to who changed a file last; `sources` abstracts contents to the file's own,
an AI rewrite under verification, or a rewrite nobody will verify any more (the process died or
the restoring copy failed). The two kinds of repair share their stages and differ where the
code does: guards, what follows the end, and when the snapshot is refreshed.

### UpdateManager (`core/update-manager.ts`)

`upd` is `performUpdate`, `back` is the start of the process, `postStartValidation` and
`triggerRollback`, each with the record object it holds; `record` and `lock` are the files. Commits are numbered along the
branch. Origin's head may move at any time, so that the pull can take a newer commit than the one
that was fetched; it may also be set back, and `pull --ff-only` of a head older than `HEAD`
succeeds and changes nothing. `Exit` is the planned restart, `Crash` any other death (with or
without the signal handler that deletes the lock file), in any number. A process begins at
"starting": `Started` is the login, retried without end, and the first initialiser, which starts the
healer; `StartFails` an exit from there or from a later initialiser, before anything is judged;
`PostStart` the end of `startDiscord`. A rollback does not keep `CheckDue` from coming: five minutes
after the start it may still rebuild, and `overlapped` remembers that an update began then. The
commit that `rev-parse` says is checked out may be unknown, which a later rollback finds
(`HopelesslyUnhealthy`). Writes of the record and the lock file
succeed (the code swallows their failures); `installDepsIfNeeded` never yields false and is part
of the wait after it. A health check may come out either way.

### AIRouter (`ai/router.ts`, `control/control-service.ts`)

`health[p]` is the record of a provider, `file` the last `provider-health.json`, `req[r]` one
call of `generate()` with the list it made, the provider it is calling and the attempts left.
`Order` is `generate` up to its first await, with `getAvailableProviders` and the reservation of
recovery probes inside it; `Inspect` is the control plane's polling (`getProviderStatus`,
`getCurrentModel`), which takes the same probes and calls nobody; `Succeed` and `Fail` are `recordSuccess` and `recordFailure` with the save and
the fail-over to the next provider of the list; `Restart` restores the file, perhaps with other
API keys. Times are counted down in units of the fifteen seconds after which `withTimeout` ends a
call; `flagged` is `disabledUntil > 0`, which outlives the quarantine until a call succeeds. The
score is left out: any offered provider may come first, so the properties hold for every
ranking. Hits of the answer cache call nobody and are left out; so is `probeProvider`, because
the only caller, the web server, builds a router without providers for it. A health file that
cannot be written is only logged, and the model writes it always.

### TaskEngine (`agent/tasks/*`, the `task` commands of the CLI)

`row` is the stored record of a task, `cmd[c]` a command-line process with its copy of it. Every
read of the record and every write of it is a step of its own, since other processes run in
between and `upsertTask` replaces the whole record without any check. `Add` is planning with
`validateTaskPlan`; `RunLoads` to `ActionFails` are `TaskExecutor.run`, `doRun` and `runStep`;
`CancelLoads`, `CancelWrites`, `ListLoads` and `ListRecovers` the other commands; `Crash` a killed
process (or one whose write the busy store refused), `Age` the five minutes after which a
running task counts as stale. `succeeded`, `invoked` and `overlapped` are history. Left out:
`pauseTask`, `resumeTask` and `planAndRun`, which nothing calls; the branches for an action
that is not permitted or registered, which a validated plan does not reach; the one-time
migration from JSON.

### MessageIntake (`index.ts`, `message-processing-repo.ts`, `usage-manager.ts`, `memory.ts`, `context-compression.ts`)

`rows` is the lease table, `seen` the set `processedMessages`, `run[r]` a run of the main
listener and the await it is at, `usage`/`stored` the credits of one user in memory and in
`usage-data.json`, `chat`/`chatFile` that user's conversation in memory and in SQLite. One
delivery is one step for both listeners (`Defer`, `Ignore`, `Accept`, `AcceptOpponent`): the
builder listener runs in the same turn of the event loop, is refused by the row just written and
returns. Then come the check of the limit with the history read and compressed (`Ask`,
`AskAfterIdle`, `AskChallenge`), the answer with both turns and the credit recorded in memory
(`Answer`), the reply with `flushBatch` and `flush` (`Reply`, `Challenge`), and the catch block
with its own write of the usage file, which may throw as well (`Catch`, `CatchThrows`).
`Otherwise` stands for the many returns before the router is asked; none of them completes the
row. A rivalry's opponent is answered at the expense of the user who started it, without a look at
the limit. An answer costs what `estimateCredits` says (`Cost`): one credit, or `LongCost` for a
message of more than 2000 characters; the opponent's turns cost one. Days, months and guilds have limits of the same shape; one is modelled. The
manager's rate and burst buckets are never filled and its count of concurrent requests never
raised, so they decide nothing. `/ask` uses the same check, record and flush without a claim and is left
out: its requests would count among the runs that can be under way. Failures of SQLite, images and the other listeners are left out.

## 5. The runs

| run | configuration | properties | shows |
|---|---|---|---|
| `keyed_lock` | 3 callers, 2 keys, nesting 2 | `TypeOK`, `MutualExclusion`, `ActiveIffHeld`, `QueueIsParked`, `FifoGrant`, `EveryWaitEnds`, `ImplementsMutex` | the lock manager is a mutex, leaks nothing, serves in order, and the timer breaks every deadlock |
| `casino` | 3 handler runs, 1 player, 3 kinds, 2 games, 1 coin | `TypeOK`, `NoLostUpdate`, `SettledOnce`, `PaidForStake`, `NoGameReplaced`, `ImplementsLedger`, `ClaimedGameEnds`, `HandlerEnds` | money moves at most once per game under double clicks, failures, time-outs and restarts; the file is a ledger; no handler hangs, no claimed game blocks its player for ever |
| `casino_stranded` | 2 handler runs, blackjack | `FailedSettlementPlayable`, violated | see Findings |
| `plan_confirmation` | 2 plans, 2 presses, 1 text, 2 steps | `TypeOK`, `ConsumedStaysDead`, `YesRunsItsPlan`, `ImplementsOneShot`, `PlanLeavesStore` | a consumed id never passes a guard again; a "yes" runs the plan it looked up; the store is a one-shot offer that every plan leaves |
| `plan_twice` | 2 plans, 2 presses, 1 text | `ExecutedAtMostOnce`, violated | see Findings |
| `plan_denied` | the same | `DenialKillsPlan`, violated | see Findings |
| `update_manager` | 1 file, commits 0 and 1, 2 attempts | `TypeOK`, `VerifiedOrRestored`, `QuiescedUpdate`, `RestartsWhatPassed`, `NoGitChangeQueued` | updates run over an idle healer into validated sources, and what git wrote is not taken for an edit |
| `update_history` | no files, commits 0 to 2, 2 attempts | `RolledBackNotRetried`, `RestartIsJudged`, `ParkingEnds` | a version once rolled back is never updated to again, a restart is judged by the first process that stays up, the healer is not parked for ever |
| `rollback_over_repair` | 1 file, commits 0 and 1 | `NoRewriteDuringUpdate`, violated | see Findings |
| `ai_router` | 2 providers, 2 requests, errors credit, rate and other, restarts with two sets of keys | `TypeOK`, `OneRecoveryProbe`, `QuarantineEnds` | one request at a time tries a provider whose quarantine is over; one is given it, if requests keep coming and polls at last leave the probe alone |
| `task_engine` | 2 processes, 3 plans (one of them refused), limits of 1 and 2 attempts | `TypeOK`, `RepairAfterDiagnostic`, `AttemptsBounded`, `RunEnds` | a file is repaired only after a diagnosis, attempts stay bounded over all runs and deaths, every run ends |
| `message_intake` | 2 runs, a user's long message and a bot's, 4 credits, a long answer costs 3, conversations of 6 turns | `TypeOK`, `OneHandlingPerLease`, `RecentTurnsPaired`, `UsageStored`, `OvershootBounded` | one handling per lease, paired turns, no forgotten credit, a bounded overshoot of the limit |

Why the bounds are enough. Three callers make a queue of two behind an owner, which is what FIFO
order and the hand-over need, and two keys at depth two give re-entry and a lock-order cycle.
Three handler runs let two clicks race while a third run's start or settlement queues for the file;
two games let one follow the other in the same session slot, or stand beside it in another kind's;
with one coin a second start finds its player broke. The file's lock and its whole-file copies do
not look at whose record a run changes, so runs of one player with different games are to the
file what runs of several are; the theorems are about any number of players.
Two plans let one replace the other in the conversation, two presses and a text cover the pairs of handlers that can meet on a plan, and two steps give a first and a last. The
update model is checked twice. With one file both repairers can compete for it, an update and its
rollback move it, and deaths, of which there is no bound, fall into every phase; two files make batches
longer and no property is about their order. Without files (the healer then has nothing to do) three commits
fit: a newer commit arrives during an update and after a rollback, a branch is set
back, and a target that was rolled back becomes origin's head again after other updates. In the router two
requests are what one probe needs, a second provider makes lists that outlive a quarantine, and
the two keys' sets let a key disappear and come back; window and quarantines are one unit longer
than the longest request, the least that `RequestsAreShort` allows, so every late report happens.
The three errors are one of each effect (persistent state, cool-down, counted failures); the other
three differ in names and times. Two task processes give every overlap of a copy with a write;
the plans are one without and one with a repair, and one that validation must refuse; two
attempts distinguish a retry from a last try. Four credits with answers of three and one leave room for
a long and a short one to pass the check together. Two runs of the listener race on one message and
on one limit; a lease of two units outlives the set of one, as 60 s outlive 30 s; with six turns
of which four are recent, compression, truncation and two answers at a time meet. Bounds appear
in guards as `MaxNesting`, `MaxGames` (`Room`), `MaxCommit`, `MaxConsecutive`
(failures in a row beyond the threshold are not told apart) and `MaxTurns`. No symmetry is used where a liveness property
is checked.

Deadlock is checked in all of them but `task_engine`, where a finished task and no process left
is a legal end; none of the other models stops.

### Fairness

* `KeyedLock`: a resolved promise is resumed and an armed timer fires (the event loop). Nothing
  obliges a caller to lock or `fn` to return.
* `CasinoSessions`: file operations end with a result or an error; the lock's timer (15 s) and
  the clean-up timers (`setInterval`, 5 minutes) fire. Players owe nothing.
* `PlanConfirmation`: five minutes pass and the store's timer runs. Nobody has to press anything,
  and a handler may stop at any await.
* `UpdateManager`: every wait of the two flows is bounded (quiesce 2 minutes or 30 seconds, git
  and gates by the time-outs of their child processes), and the planned exit is a timer. The
  healer, pushes, deaths and starts of the process have no fairness: nothing bounds the login, and
  any number of processes may die or fail before they judge. `RestartIsJudged` therefore names its
  assumption in the formula, `SomeProcessStaysUp`: among any number of processes one at last gets
  to READY, to the end of `startDiscord` and through the fifteen seconds after it. A version none of
  whose processes does so is neither judged nor rolled back; that is the code, not the model.
  `ParkingEnds` needs no such assumption. The supervisor script starts the process again.
* `AIRouter`: a call ends with an answer or an error (`withTimeout` gives it up after fifteen
  seconds), and time passes; the latter is strong fairness, since a unit can only pass once the
  calls of the last one have ended. Requests, polls and restarts owe nothing; `QuarantineEnds` names in
  its formula what it assumes of them, that requests keep coming and that polls at last leave the
  provider's probe alone (`PollsLeaveProbes`). Without the latter it fails:
  see Further disagreements.
* `TaskEngine`: a process that is not killed goes on, and the actions it waits for end (each has
  a time limit of its own). Nobody has to start a command.
* `MessageIntake`: none; its properties are safety properties.

### Findings

Four places where a text of the repository says more than the code does, each with a run that
refutes a property:

1. *Blackjack, failed save* (`casino_stranded`). `standBlackjack` says that a failure "leaves
   the game playable instead of stranded" (`src/games/games/blackjack.ts:236-242`). When the
   save is what fails, the mutator has already deleted the session: the flag is reset on an
   object no map refers to, the bet stays debited.
2. *Two presses of Confirm* (`plan_twice`). "Mark executed BEFORE execution (prevents
   double-execution)" (`src/discord/interactions/confirmation-handler.ts:376`). The flag is read
   before three awaits and set after them without another look.
3. *Rollback over a repair* (`rollback_over_repair`). The coordination tests state that during a
   rollback the healer performs "ZERO source writes" (`scripts/test-selfheal-update-race.ts:8-11`).
   The rollback goes on after thirty seconds in any case, and the repair callback writes without
   looking at the flag again.

4. *A "no" that drops another id* (`plan_denied`). "Drop the stored confirmation plan so Confirm
   buttons die with it" (`src/discord/conversational-agent.ts:1501`). A modification that asks for
   confirmation has overwritten `pendingConfirmation` and left `unifiedPlan` in place (2829): the
   earlier plan is reported and audited as cancelled, stays pending, and its button executes it. At
   this commit the redirection of builder requests (1126-1145) stands before the handlers that
   create such plans.

### Further disagreements, without a run

Seven effects are in the models and in the hazards of `PROJECT.json`, without a run that refutes a
property:

* Asked, not stored. "Confirmation-required plans render Confirm/Cancel buttons bound to the stored
  plan id" (`src/index.ts:2056-2058`). The executor does not store the plan of a single tool
  (`src/ai/tools/executor.ts:218-257`; `AskModify`): no buttons are rendered, and a "yes" is told that
  the action has expired.
* An update over a rollback. "The update manager never runs git while a heal is in flight"
  (`scripts/test-selfheal-update-race.ts:12-13`). A rollback takes neither the lock nor `isUpdating`,
  its time limits add up to 5:15 after the start, and the first check is due at 5:00. The one of the two
  that ends first resumes the healer under the other. `QuiescedUpdate`, `RestartsWhatPassed` and
  `NoGitChangeQueued` hold in every process in which that did not happen (`~overlapped`, with which
  each new process begins) and fail without that exception; `NoRewriteDuringUpdate`, which the third
  finding refutes on a shorter way, has none.
* Probes that call nobody. "Once the quarantine expires, allow exactly one controlled recovery probe"
  (`src/ai/router.ts:567-570`). Every poll of the control plane (`src/control/control-service.ts:149`,
  `169`; `Inspect`) takes the probe that is due; under steady polling no request is ever given the
  provider.
* The builder listener never gets a message. The main one claims it and leaves it to "the
  builder handler" (`src/index.ts:1640`), which claims the same id in the same turn (2459), is
  refused, and returns. The row stays in work until its lease is over.
* A stored task can leave any status for any other: a run that read it before it was cancelled
  writes "running" over "cancelled". `upsertTask` validates nothing, although its comment says
  "with state transition validation" and the file's head "Task state machine is enforced"
  (`src/agent/tasks/sqlite-store.ts:230-233`, `7`).
* A quarantine is hidden by a later failure. Credit exhausted, then a rate limit, then a restart
  shows the provider as healthy, though its quarantine still holds (`src/ai/router.ts:111-117`,
  `143-179`). Nor does `healthState` ever return to healthy after a timeout or a rate limit.
* A task that failed for want of attempts can be run again, and fails at once: nothing resets the
  count.

## 6. Proofs

Proved for every value of the constants, from the modules' own assumptions only:

* `KeyedLockProofs`: `Typing`, `Exclusion`, `NoLeak`, `QueueExact`, `Fifo` and
  `Refinement`, for any callers, keys and nesting depth. Assumptions:
  `Nobody` is no caller, `MaxNesting` is a natural number. The inductive invariant is `TypeOK`,
  `MutualExclusion`, `NoReentry`, `ActiveIffHeld` and `QueueIsParked` together; none of them is
  inductive alone. Exclusion needs `ActiveIffHeld` (a free key has no holder), a hand-over needs
  `QueueIsParked` (its new owner is parked and holds nothing of the key), and the unlock needs
  `NoReentry` (popping the innermost key really gives it up). `Fifo` and `Refinement` follow
  from this invariant step by step, one case per action; the refinement's initial state and each
  step are mapped to a step of `KeyedMutex` or a stutter.
* `PlanConfirmationProofs`: `Typing`, `StaysDead`, `RunsItsPlan` and `SpecImplementsOneShot`, for any plans,
  presses, messages and number of steps; the two kinds of handlers have different names
  (`HandlersAssumption`). `ConsumedStaysDead` is not inductive: the proof strengthens it with
  facts about what was ever stored (a consumed plan, and the plan of a handler in flight, was
  created) and with the key one, that a consumed plan is never *pending* in the store. The latter
  is why the two guards suffice although `markPlanExecuted` does nothing on a deleted plan and
  although a handler may fail between marking and deleting. `RunsItsPlan` needs a third part: when the
  second slot names a stored plan, the first names the same one; an unstored id gets no "yes" past
  the guard, and an empty second slot stands beside an empty first. The refinement follows from the same
  invariant: deleting and marking close one plan each (`RemovedCloses`), the timer closes all
  expired ones, and each place of a handler is one of the abstract steps or a stutter.
* `AIRouterProofs`: `SpecTypeOK` and `SpecOneRecoveryProbe`, for any providers, requests, errors,
  key sets and times, from `RequestsAreShort` (a request is over before a probe window or a
  quarantine is: ninety seconds against five minutes). The inductive invariant measures a
  request by its *rest*, the attempts left less the age of the present call: of a flagged
  provider, either the window that is left covers the rest of a request that still lists it, or
  that request is the only one. A reservation sets the window above every rest, a tick lowers both,
  and a failure sets quarantine and window anew.
* `TaskEngineProofs`: `SpecTypeOK`, `SpecRepairAfterDiagnostic` and `SpecAttemptsBounded`, for any
  processes, plans and limits. Nothing is locked and nothing validated on the way into the store,
  so the invariant speaks of every copy as well as of the record: each is a valid task with the
  record's plan; whoever stands at a step, be it a copy, the record or a run, finds all steps before
  it among those that have succeeded (`PrefixDone`); and, while commands follow one another, the
  copy has the record's attempts and the call about to be made is already counted in
  them (`Counted`).
* `CasinoSessionsProofs`: `SpecTypeOK`, `SpecNoLostUpdate`, `SpecSettledOnce`,
  `SpecPaidForStake`, `SpecNoGameReplaced` and `SpecImplementsLedger`, for any handler runs, players
  and number of games. The inductive invariant `IInv` has three layers. `LockInv` is the lock manager's own invariant, taken
  from `KeyedLockProofs` by `INSTANCE`, with the place each handler run then has: one that reads or
  saves is inside the store's key, so it is alone there. `TypesInv` says that a copy about to be saved
  is the file and the run's own effect on it, which makes saving it lose nothing. `GamesInv` says that a
  game has one claimant; a claimed one is finished and not settled; and a wagered game that is in
  a session or being settled has its bet in the file, is having it debited now, or had a start that
  failed. The third layer needs the second: that a count in the file stays at
  one needs the copy to be the present file. For the refinement `LedgerInv` adds that a bet about to be
  saved is covered by the file and of a game not yet settled, and that only a quickdraw is about to
  cost coins; then `SaveSucceeds` is one step of the ledger and every other action a stutter.
* `UpdateManagerProofs`: `SpecTypeOK`, `SpecVerifiedOrRestored`, `SpecRolledBackNotRetried`,
  `SpecQuiescedUpdate`, `SpecRestartsWhatPassed` and `SpecNoGitChangeQueued` for any files, commits,
  deaths and overlap of updates with rollbacks; no assumption but the bounds of the constants. `HealerInv`:
  at most one worker mends a file, and every AI rewrite has one that will judge it, so that no
  backup is taken of an unverified rewrite. `FailedKept`: what was rolled back is among the failed targets
  of the record and of every copy of it that may still be written; a rollback begins in a process
  that has not looked for an update yet. `ParkedInv`: unless this process has begun an update
  during its rollback, the healer is parked from the wait for it to the end of an update or a
  rollback, git writes only in between, and the gates come in order. It is not merely assumed away:
  a new process has not overlapped anything, and the proof (`ParkedAnew`) shows that whatever tree,
  queue and files an overlap left, the successor starts with it true.
* `MessageIntakeProofs`: `SpecOneHandlingPerLease`, `SpecUsageStored` and `SpecOvershootBounded`, for
  any messages, runs, lease, cost of a long message and limit that covers it. The limit is checked by
  one step and counted by a later
  one; inductive is the sum of the credits counted and those that runs past the check still owe
  (`CreditsInv`; a run owes one or `LongCost`, and the debt is the cardinality of a set of pairs, one
  for each credit of each run), together with the fact that the file never has
  more credits than memory. For the lease: a message handled in its present lease is settled or
  still has one (`LeaseInv`), and neither can be claimed.
* `ConversationProofs`: `SpecRecentTurnsPaired`, `ConversationsInOrder` and `SpecTypeOK`, for any limits,
  messages and runs. `RecentTurnsPaired` is not inductive: compression filters by role, and a system
  turn between a question and its answer would put others next to each other. `Conversation` adds
  that the system turns come first, for the row in SQLite as for the conversation in memory, since a
  restart makes the one the other. A filter (`Selected`) is then a part of the conversation
  (`SelectedInterval`), which is proved without induction: the number of selected places below a
  place is another one for each place, so every rank up to their number is taken (`PlaceExists`).
  The length stays within `MaxContext` because at least one old turn gives way to the summary. For the
  types, `SeenInv`: what the set remembers is settled or has a lease.

Only model-checked: the liveness properties, `EveryWaitEnds`, `ClaimedGameEnds`, `HandlerEnds`,
`PlanLeavesStore`, `RestartIsJudged`, `ParkingEnds`, `QuarantineEnds` and `RunEnds` (fairness and
`ENABLED` are outside the prover's reach here). Every invariant, action property and refinement of
the passing runs is a theorem. There are no recursive operators.

## 7. Not modelled

See the component list in `PROJECT.json`. In short:

* Planned and still to come: the supervisors, the writers that use `updatePlayer`, the
  settlement registry, which no command calls at this commit.
* Of the components modelled in part: the single-tool half of `handleConfirm`, how a plan is
  built from a request, the rivalry's session map (ending it by channel can end a newer session),
  the score of the router, the answer cache, traces.
* World bosses, dungeons, guilds, support cases, backups, the MCP client and the control plane
  have state and protocols of their own, and are candidates for modules of their own.
* Presentation, string policies, HTTP, measurements and configuration have no protocol that a
  state model would say something about; the synchronous SQLite repositories are one atomic step
  of their callers.
