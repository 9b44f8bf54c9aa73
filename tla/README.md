# CorncrakeCI in TLA+

A formal model of the CorncrakeCI server (`src/server/src`): how a webhook
becomes a pipeline run, how its jobs are scheduled and run in containers, and
how their ends become the verdict that the forge shows on the commit. The
modules are checked with TLC; the theorems are proved with TLAPS.

Paths below are relative to `src/server/src` unless they start with another
directory.

## 1. The system

One Node.js process serves the HTTP API, runs background jobs (graphile-worker)
and drives containers on a local Docker or Podman daemon. State lives in
PostgreSQL, in the process (the scheduler's queue, the runJob calls under way,
handlers between two awaits), on the daemon (containers, volumes) and on the
forge (commit statuses, webhooks, tokens).

| component | state | operations | hard parts |
|---|---|---|---|
| webhook API `server/api/webhooks.ts` | a handler between two awaits | `handleWebhook`: check, fetch the configuration, report errors, launch, send "pending" | concurrent deliveries for one commit; "pending" is not awaited |
| launch `execution/index.ts` | rows of a run | one transaction, then `schedule` | crash or lost answer between the two; empty configurations |
| configuration parser `pipeline` | errors of a file | `parseKdlConfigs`, `V0Parser` | errors that accumulate, at any depth |
| planner `execution/planner` | ids | `planAll` | stages and jobs pass through maps by name |
| scheduler `execution/scheduler` | `readyJobs`, `workflowInfo`, runners | `schedule`, `tryScheduleNow`, callback of `runJob` | limits, jobs run twice or never, restart |
| container runner `execution/runner/container.ts` | containers, the workspace volume | `runJob` | any call may fail inside three nested `try` blocks; AutoRemove races `wait` and `remove` |
| progress reporter `execution/runner/progress.ts` | `job_run_steps` | `onStepStart`, `onStepEnd`, `onJobEnd` | which errors are raised again; a record that is committed and not acknowledged |
| job completion `execution/job-completion.ts` | — | `handleJobComplete`, `createCommitStatus` | swallows every error |
| pipeline store `db/stores/pipeline.ts` | `pipeline_runs`, `workflow_runs`, `job_runs` | `updateJobRunStatus` and its cascade | concurrent transactions, row locks, lost updates |
| webhook setup `jobs/setup-webhooks.ts`, `db/stores/repo.ts` | secret and hook of a repository | `setup_webhooks`, configure, reconfigure | job queue, retries, two jobs at once |
| forge tokens `services/forges`, `jobs/refresh-tokens.ts`, `server/routes/auth.ts` | access and refresh tokens | refresh under a mutex, login | rotation on the forge, crash, login without the mutex |
| status API `server/api/pipelines.ts` | none | `listPipelines`, `getPipeline`, `getJob` | several queries per answer while jobs go on; statuses computed beside the cascade |
| Gitea client `services/forges/gitea` | none | HTTP requests | lost or late requests |
| configuration, logging, routing | read at start-up | — | — |

How they interact: `handleWebhook` awaits `launchPipelineExecution`, which
commits the rows and calls `Scheduler.schedule` without awaiting anything;
`tryScheduleNow` calls `runJob` and lets its promise call back; `runJob` awaits
the reporter, which awaits a database transaction and, for the job that
completes the pipeline, a request to the forge.

What would make each correct is listed with the properties below; the places
where it could go wrong are the `hazards` of `PROJECT.json`.

## 2. Modules

| module | models | kind |
|---|---|---|
| `PipelineRuns` | the rows and the store's four questions about them | operators |
| `PipelineRunsProofs` | lemmas about them, for any rows: what completing a job does to columns that agree | proofs |
| `PipelineCascade` | what completing a job promises: job, workflow and pipeline in one step | abstract specification |
| `JobCompletion` | `handleJobComplete` and `updateJobRunStatus`, one SQL statement per step, all handlers at once | specification |
| `JobCompletionProofs` | theorems about `JobCompletion` | proofs |
| `JobReports` | what a runner promises about steps and reports | abstract specification |
| `ContainerRunner` | `runJob` with the `DatabaseProgressReporter`, one awaited call per step | specification |
| `ContainerRunnerProofs` | theorems about `ContainerRunner` | proofs |
| `Scheduler` | the queue, the runners, the callbacks | specification |
| `PipelineExecution` | webhook, launch, scheduler, job ends, forge, crash and restart | composition |
| `PipelineExecutionProofs` | theorems about `PipelineExecution` | proofs |
| `WebhookSetup` | configuring a repository, the `setup_webhooks` jobs, the hooks on the forge and the stored secret | specification |
| `WebhookSetupProofs` | theorems about `WebhookSetup` | proofs |
| `V0Parser` | the parser of configuration files | operators |
| `Planner` | from parsed files to planned jobs | operators |
| `ConfigurationGrammar` | what a file may hold and where it breaks this, without the parser | reference definition |
| `ConfigurationProofs` | theorems about `V0Parser` and `Planner` | proofs |
| `PipelineStatus` | one pipeline from its files to the answers of the status API | composition |
| `PipelineStatusProofs` | theorems about `PipelineStatus` | proofs |
| `ConfigurationReference` | what is reported of a configuration, and what must be kept of it | properties |
| `TokenRefresh` | a user's forge tokens: requests, logins, the `refresh_tokens` jobs | specification |
| `TokenRefreshProofs` | theorems about `TokenRefresh` | proofs |
| `MC...` | small instances of each | TLC |

`PipelineExecution` uses `Scheduler` and `PipelineCascade` through INSTANCE. It
takes the cascade as one step; that the code's interleaved statements may be
seen so is what `JobCompletion` shows (`CompletionIsAtomic`, checked and
proved). It takes a job as something that ends once with either outcome;
`ContainerRunner` shows that `runJob` implements `JobReports`
(`ReportsAsPromised`, checked and proved), and that is what
`JobCompletion!JobEnds` assumes: a success once, or a failure once or twice.
`PipelineStatus` uses `V0Parser` and `Planner` as operators and the store's
questions (`PipelineRuns`) for the cascade, again as one step.

### JobCompletion

State: the committed columns (`jobStatus`, `workflowStatus`), the statement each
handler is at (`pc`), the write its transaction has not committed yet
(`workflowWrite`; the write to its own job row is implied by `pc`), the result
it is about to return (`verdict`), the arguments of `onJobEnd` (`calls`,
`success`), what the forge shows, and `conclusion`, a history of the verdicts
that committed transactions returned. The database runs at READ COMMITTED: a
query sees `SeenJobs` / `SeenWorkflows`, the committed rows with the
transaction's own writes. A row lock is held from its statement to the end of
the transaction (`HoldsWorkflow`, `HoldsPipeline`), also by a transaction that
returns early. Faults: a statement or COMMIT fails and leaves nothing
(`Rollback`), COMMIT succeeds and its answer is lost (`CommitAckLost`), the
commit status is not posted (`ReportFails`). `faults` holds those that may happen
in a run: one of the sets that the constant `Scenarios` lists.

### ContainerRunner

`pc` names the awaited call; `catch`, `finally` and `after` are the JavaScript
control flow of the inner `try`. The daemon acts on its own: a command ends
with either exit code and its container is then removed (AutoRemove), whatever
the runner is waiting for. `removeContainer` may find the container gone (404,
`Finally`), busy being removed (409, `FinallyBusy`) or fail (`FinallyFails`).
A call that fails may have had no effect or lost its answer: a container may be
there that was not acknowledged (`CreateLost`), or run (`StartFails`), and the
transaction of `onStepStart` or `onStepEnd` may be rolled back
(`RecordStartFails`, `RecordEndFails`) or committed (`RecordStartLost`,
`RecordEndLost`). In the last case a success may be on record when the error
reaches the inner catch, whose UPDATE writes "failed" over it, or fails too and
leaves it. The constant `Scenarios` lists sets of calls that may fail; a run
picks one. `Promise` maps the state to `JobReports`: the steps on record as
succeeded, whether an error is on its way or was reported (`Failing`), the
arguments `onJobEnd` was called with, and whether `runJob` has returned.
`JobReports` lets the failure of a job take back the last step that passed, and
no other.

### Scheduler

`TryScheduleNow` is one step, because the code does not await in it. `Runners`
is what the constructor builds: one runner named "default" or none, with
`allocated` and `activeJobs` that no code writes. The limits are constants; the
three resources have equal roles and are represented by the CPU.

### PipelineExecution

`webhook[p]` is the next call of the handler of a delivery, `launched` the runs
whose rows are committed. The "pending" request is sent by `Schedule` and
arrives at any later time (`PendingArrives`), or never. `Crash` loses
everything in memory and keeps the rows and, perhaps, requests already sent.
`abandoned` is a history: the jobs whose end the database will never see,
because of a crash, a lost answer of the launch, or a failed completion.
`unshown` is another: the pipelines whose verdict will not be reported, or was
replaced by their own late "pending". `getCorncrakeciConfig` fails as a whole when
the directory cannot be read (`FetchConfigFails`); a file of it that cannot be
fetched is left out and the launch goes on (`FetchFilesFails`). A rejected delivery (signature, headers, unknown event) changes nothing and is
not modelled.

### WebhookSetup

One repository: `hooks` on the forge, each known by the secret it was given,
`secret` in the database, and the job queue. `ConfigureRepo` and
`ReconfigureRepo` are the two routes that call `createOrUpdateRepository`
(`CreateOrUpdateRepository`), which calls `add_job` with a `job_key`: a waiting job
is replaced (its attempts start again), a locked one loses the key and its
further attempts and another row is queued. `pc[j]` is the next call of
`setup_webhooks` in job `j`; `CallFails` and the actions whose answer is lost
lead to its catch (`RevokeSecret`), which clears the secret and throws, so that
the queue tries again (`Throw`) up to `MaxAttempts` times. `Crash` leaves the
running jobs locked (`stuck`) until the lock expires (`Unlock`). A second job may
run beside the first (the runner has five workers); `overlapped` is the history
of that, and the properties that agreement rests on exclude it. The queue is
graphile-worker's and external to the repository.

### V0Parser and Planner

A KDL document is nodes with arguments, properties and children, as the KDL
library gives them; a value is one of `Text`, one of `Flags`, or something else.
Each method of `V0Parser` is an operator that returns what it declares (at most
one thing, in a sequence) and the errors it adds, each known by the path of its
node and its kind. Where the code goes on after an error so does the operator.
`ConfigurationGrammar` says the same from the other end: a table of the kinds of
nodes, when a node is `Valid`, and which nodes of a file are wrong (`FaultyPlaces`,
level by level: a file is nested three deep, so no recursion is needed).
In `Planner` the code's maps are functions from names, so that declarations of
one name collapse as they do in the code, and ids come from the position.

### PipelineStatus

`Check` parses and plans, `Launch` inserts the rows, and fails if a job has no
step (an INSERT of no rows is no SQL). The runner starts and ends steps and jobs;
`StepEnds` is the UPDATE that asks for no status, with what `runJob` does with it:
a step that never started may be recorded as failed, and so may the last one that
succeeded, if the answer to that record was lost.
`GetPipeline`, `ReadWorkflows` and `ReadJobs` (one query per workflow) are one
request, `GetJob` and `ReadSteps` another, `ListPipelines` a third, with any
number of writes between their queries. `conclusion` is a history of the verdict
that the cascade returned.

### TokenRefresh

`stored` is the refresh token in the database; the forge numbers those it
issues and takes only the last (`issued`), which is the strictest reading of
OAuth's rotation. `mutex` is the user's `userTokenMutexes` entry: requests and
the job take it before they read and release it when they finish, a login does
not take it. `Store` and `Schedule` are the two transactions of `updateTokens`.
The queue is that of `WebhookSetup` with jobs that wait for `run_at`; `access` and
`refresh` stand for the two expiry times. Two histories say what no code can
mend: `spoiled` (a token was lost on its way, or a login came in between; a login
that nobody disturbs ends it) and `unscheduled` (tokens were stored and the job
was not added).

## 3. Runs

| run | instance | shows |
|---|---|---|
| `JobCompletion` | 2 jobs in a workflow, 1 in another, an empty workflow, an empty pipeline; all faults, or none | `CompletionIsAtomic` (implements `PipelineCascade`), `WorkflowsAgree`, `ConclusionsAgree`, `CommitStatusAgrees`, `VerdictsAreFinal`, `HandlersEnd`, and `ConclusionReported`: without faults a pipeline whose jobs ended gets its verdict |
| `JobCompletionForgotten` | the same, rollbacks only | **violated** `IncompleteIsInFlight` |
| `ContainerRunner` | 3 steps, 2 images, four scenarios of faults | `ReportsAsPromised` (implements `JobReports`), `RunsOnlyOnRecord`, `SuccessIsReal`, `OutcomeIsTrue`, `NoStepLeftIncomplete`, `NothingLeftBehind`, `RunEnds` |
| `ContainerRunnerRemove` | the same, only removing containers fails | **violated** `ReportedOutcomeIsTrue` |
| `SchedulerLimit` | 3 jobs, room for 2 | **violated** `LimitRespected` |
| `PipelineExecution` | 2 deliveries for one commit, 3 workflows of one job, one crash; with all faults, and without any | `IncompleteAccountedFor`, `RunsOnlyPersisted`, `SubmittedOnce`, `StatusIsTrue`, `VerdictAccountedFor`, `DroppedConfigShown`, `LaunchedConcludes`, `ConclusionShown` |
| `PipelineExecutionBare` | and a delivery without a configuration | **violated** `PipelinesHaveWorkflows` |
| `WebhookSetup` | 2 requests, 2 attempts, one crash; no faults, forge faults, all faults | `AttemptsAgree`, `NeverForgotten`, `ConfiguredWorks` |
| `WebhookSetupOverlap` | 2 requests, no faults | **violated** `OneJobPerRepo` |
| `PipelineStatus` | 7735 configurations parsed and planned, four of them run with requests | `FaultsReported`, `PlanKeepsJobs`, `AnswersAgree`, `ShownVerdictHolds`, `SettledAnswersHold` |
| `PipelineList` | the same | **violated** `ListedIsTrue` |
| `TokenRefresh` | 2 requests, a request and a login, 2 logins; each alone with every fault | `StoredIsGood`, `NoneTurnedAway`, `RefreshScheduled`, `DueIsRefreshed` |

### Bounds

- Two jobs contend for a workflow's row and the last jobs of two workflows for a
  pipeline's row: every lock has two claimants, and a third handler is there to
  overtake. More jobs add claimants of the same kind; the theorems cover them.
- Two reports of a job (`calls` up to 2) are all that `runJob` makes.
- Three steps give a first, a middle and a last one, and two images a repeated
  pull (skipped) and a fresh one. `MaxAttempts` is the code's 5. The four scenarios
  are every fault together, and three that leave out no more than what
  `OutcomeIsTrue` (both of its exceptions), `NoStepLeftIncomplete` and
  `NothingLeftBehind` except, so that none of them holds for want of faults.
- `MaxCrashes` is 1: a restart has no memory, so a second crash meets a system
  like the first did.
- In `PipelineExecution` a workflow has one job: several jobs of a workflow are
  the case of `JobCompletion`. Two workflows of the push and one of the pull
  request give a conclusion that takes several jobs, next to an unrelated one.
- `CpuLimit = 9`, `JobCpu = 4`, `NumJobs = 2` leave room for two jobs; the
  code's 999999 and 4000 leave room for 249.
- `WebhookSetup`: two requests give two jobs, which can overlap; `MaxAttempts` is
  2 (the queue's default is 25), so that a job can fail, be retried and give up.
- `PipelineStatus`: below the header a file has up to two nodes, each right or
  wrong in one way, of every kind that a level of the grammar knows; a `job` block
  and a `use` block have up to two nodes in every combination. Two are enough for
  what depends on a pair: duplicate names, an error beside a correct node, an
  option given twice. `Executed` are the four whose jobs are run and asked for:
  two workflows (one file dropped between them), a workflow with one name in two
  stages, jobs of one and two steps, and a pipeline without workflows.
- `TokenRefresh`: two actors at a time beside the jobs, because the mutex and the
  rotation are about pairs; `MaxJobs` is 5 rows of the queue, more than are ever
  live, so that `AddJob`, which takes a free one, never waits for it; `MaxAttempts` 2 (a job fails, is retried and gives up); `MaxExpiries` 2 and
  `MaxCrashes` 1 let a token come due twice, before and after a crash.

### Fairness

- `JobCompletion`: weak fairness of every handler's statements. Node.js resumes
  a handler whose query was answered, PostgreSQL answers a query that is not
  waiting for a lock. Locks are modelled as guards, so `HandlersEnd` rests on
  their order, not on the fairness. No job has to end and no fault has to occur.
- `ContainerRunner`: weak fairness of `runJob`'s calls (each is answered or
  fails) and of the end of commands. The code has no timeout, so a command that
  never ends does keep its job for ever: that it ends is an assumption.
- `PipelineExecution`: weak fairness of each delivery's and each job's own
  steps, with the same assumptions. Deliveries, faults and crashes need not
  happen.
- `WebhookSetup`: weak fairness of each job: graphile-worker polls and starts
  waiting jobs, gives up the locks of dead workers, and calls are answered.
- `TokenRefresh`: weak fairness of each handler's own steps (calls are answered,
  the mutex goes to a waiting handler) and of the queue's. Requests, logins,
  faults, crashes and the passing of time need not happen.
- `PipelineStatus` claims no liveness and assumes no fairness.

Deadlock checking is off in every run: each system may come to rest when its
finite work is done.

### What the violated runs say

Each checks a sentence of the repository that the code does not keep; they are
the `findings` of `PROJECT.json`.

- `JobCompletionForgotten`: the schema says an incomplete job was abandoned by a
  crash or is in the scheduler or runner. A failed transaction at the end of a
  job is a third way. (`IncompleteAccountedFor` is the statement that holds.)
- `ContainerRunnerRemove`: `JobEndStatus.success` is false for a job all of whose
  steps succeeded, when removing a container fails. `OutcomeIsTrue` shows that
  this, and a success whose record is not acknowledged and then not overwritten
  either, are the only ways.
- `SchedulerLimit`: the runner's limits are compared with what was never counted.
- `PipelineExecutionBare`: a run without workflows is persisted; nothing ever
  concludes it and its commit stays pending. The same holds for a run one of
  whose workflows has no job (`Completable` in the liveness properties).
- `WebhookSetupOverlap`: the `job_key` does not keep a running job and its
  replacement apart. Two jobs that overlap may delete each other's hook and store
  the secret of the one deleted.
- `PipelineList`: the list takes the status of the latest workflow for that of
  the pipeline, `getPipeline` the worst of all: a pipeline may be listed as
  completed while another of its workflows has failed or still runs.

## 4. Proofs

### JobCompletion

`JobCompletionProofs` proves, for any sets of jobs, workflows and pipelines and
any set of faults, the safety half of the `JobCompletion` run:

| theorem | property |
|---|---|
| `TypeCorrect` | `TypeOK` |
| `CascadeInvariant` | the inductive invariant `IInv`: the row locks exclude, and what was read under a lock is still so |
| `WorkflowsNeverLag`, `ConclusionsNeverLag` | `WorkflowsAgree`, `ConclusionsAgree` |
| `CommitStatusIsTrue` | `CommitStatusAgrees` |
| `Atomicity` | `CompletionIsAtomic`: the refinement of `PipelineCascade` |
| `VerdictsStay` | `VerdictsAreFinal` |

Assumptions: `ForeignKeys` (the two foreign keys are total) and
`ScenariosAssumption`. Nothing else: empty workflows and pipelines are included.

The argument. None of the properties is inductive: that a commit leaves the
rows in agreement depends on what the transaction read several statements
before. `IInv` adds that no two open transactions hold the same row
(`RowLocks`), that a job's row only gets the outcome its runner reported
(`OwnOutcome`), and that what a transaction read about its workflow, and about
its pipeline, is still so while it holds the row (`KnowsWorkflow`,
`KnowsPipeline`). The last is where the locks matter: whoever could make it
false must commit a job of the same workflow, which needs the same lock
(`CommitBystander`). A committing transaction then does exactly what
`PipelineCascade!Complete` does (`PublishEffect`, `FirstReportCompletes`), and a
second report of a failed job writes what is there already
(`SecondReportIsIdle`).

### ContainerRunner

`ContainerRunnerProofs` proves, for a job of any number of steps, any images and
any combination of calls that fail, all safety properties of the
`ContainerRunner` run:

| theorem | property |
|---|---|
| `TypeCorrect` | `TypeOK` |
| `OnRecord` | `RunsOnlyOnRecord` |
| `SuccessReal` | `SuccessIsReal` |
| `OutcomeTrue` | `OutcomeIsTrue` |
| `NoneIncomplete` | `NoStepLeftIncomplete` |
| `NothingLeft` | `NothingLeftBehind` |
| `Refinement` | `ReportsAsPromised`: the refinement of `JobReports` |

Assumption: `RunnerAssumption` (a job has at least one step, each with an image;
the scenarios are sets of the faults listed).

The argument. `IInv` cuts the job at the current step: those before it went well
(`Past`), those after it have not begun (`Future`), and the current one is as far
as the awaited call says (`Present`). To that it adds what has been reported by
the time control is somewhere (`Reported`), that an error on its way leads past
the other steps (`Aftermath`), that a failure can be blamed on the current step
(`Blamed`), that this step is on record (`Settled`), and that a container that must
go is known to the code (`Held`). `Present`, `Blamed`, `Settled` and `Held` carry the
exceptions: a success on record although an error is on its way, removing a
container that fails, a database that does not answer, a container whose creation
was not acknowledged. The lemmas follow the code:
preparing, running, what the daemon does, ending, cleaning up, reporting, closing.
For the refinement, the steps that have passed are always those up to or before
the current one (`PassedInOrder`); `RecordEnd` adds one (`EndPromise`), every way to
the catch and out of it is a failure that may take one back, or a stutter
(`FailPromise`, `LeavePromise`), the three places that call `onJobEnd` do so where
`JobReports` allows (`ReportPromise`), and everything else is a stutter (`Quiet`) or
the return.

### PipelineExecution

`PipelineExecutionProofs` proves, for any deliveries, workflows and jobs (none
included), any limits of the runner, any faults and any number of crashes, every
safety property of the `PipelineExecution` run, and three more:

| theorem | property |
|---|---|
| `TypeCorrect` | `TypeOK` |
| `IncompleteIsAccountedFor` | `IncompleteAccountedFor` |
| `OnlyPersistedJobsRun` | `RunsOnlyPersisted` |
| `JobsAreSubmittedOnce` | `SubmittedOnce` |
| `ShownStatusIsTrue` | `StatusIsTrue` |
| `VerdictIsAccountedFor` | `VerdictAccountedFor` |
| `DroppedConfigIsShown` | `DroppedConfigShown` |
| `RowsChangeByCompletions` | the composition implements `PipelineCascade` |
| `ConclusionIsFinal` | no step changes a conclusion |
| `AbandonedForGood` | an abandoned job stays incomplete and is never submitted again |

Assumptions: `ForeignKeys` and `ExecutionAssumption` (the kinds of the constants).

The argument. That no job is submitted twice is a fact about the past, and the
scheduler has no memory of it; `IInv` supplies one: until a handler reaches
`schedule` its jobs are `Untouched` (`DeliveriesAgree`), and what is queued or runs
is in one place, with a `submissions` count that matches (`SchedulerAgrees`). A
crash empties both places, and the count remains. `RowsAgree` is what
`JobCompletion` shows of the cascade, kept here by `CompletionKeepsAgreement` of
`PipelineRunsProofs`. `StatusIsTrue` needs the conclusion to be there before the
job reports it, and a late "pending" to find a run that exists (`ReportsAgree`).
It says nothing of a "pending" that is shown of a run with a verdict; what can
replace a verdict is `VerdictAccountedFor`. That one is inductive on top of `IInv`:
the call that concludes a pipeline goes on to report it (`AccountedComplete`), the
report puts the verdict where others of the commit were (`AccountedReport`), and
what then takes it away is another run, or is noted (`AccountedPending`,
`AccountedReportFails`, `AccountedCrash`).

### TokenRefresh

`TokenRefreshProofs` proves, for any requests and logins, any size of the queue,
and any numbers of attempts, expiries and crashes:

| theorem | property |
|---|---|
| `TypeCorrect` | `TypeOK` |
| `OneRefreshAtATime` | no two requests or jobs are between the read of the tokens and the end of the refresh |
| `StoredTokenIsGood` | `StoredIsGood` |
| `NobodyIsTurnedAway` | `NoneTurnedAway` |
| `RefreshIsScheduled` | `RefreshScheduled` |
| `TokensGoForward` | stored tokens are never lost, and only replaced by the pair issued last, which is newer, unless a token was spoiled |

Assumption: `TokenAssumption`: the kinds of the constants, and that requests,
logins and rows of the queue are different things (they are handlers of the HTTP
server and rows of a table).

The argument has four invariants, each resting on one before. `LocksInv`:
each kind of handler makes its own calls and the mutex is held by exactly the
one that is between them. `TokensInv`: until a token is spoiled at most one
handler has a token of its own, and it is the one issued last (`ActiveIsGood`).
The mutex alone does not give that: a login does not take it, and a handler whose
answer was lost still holds it. Both spoil the token, which is why `spoiled` is in
the statement. `KeyInv`: while tokens that have not expired are stored, a row of
the queue has the user's key, or attempts are used up (`KeyAgrees`,
`TokensHaveKey`). `OrderInv`, on `TokensInv`, is for what a step may do to the
stored tokens: whoever is about to store has tokens (`TokensAreReal`), and while the
forge's answer is under way the stored ones are older than it (`NewIsNewer`).

### WebhookSetup

`WebhookSetupProofs` proves, for any number of requests, attempts and crashes:

| theorem | property |
|---|---|
| `TypeCorrect` | `TypeOK` |
| `AttemptsLeaveAgreement` | `AttemptsAgree` |
| `RepositoryIsNotForgotten` | `NeverForgotten` |
| `OnlyTheKeyedJobStarts` | the queue starts no job but the one with the key |
| `RotationGoesForward` | until attempts overlap, a secret that is stored is the last that was made, newer than the one before, and that of a hook on the forge |
| `HooksAreBounded` | no more hooks are ever made than `MaxAttempts` for each request so far |

Assumption: `SetupAssumption` (the kinds of the constants). `OnlyTheKeyedJobStarts`
is what is left of the sentence that `OneJobPerRepo` refutes: a job that lost its key
may go on, and is never started again.

The argument. `QueueInv` is about the queue alone: only the job with the key has
attempts left (`QueueAgrees`), and, until attempts overlap, one runs (`OneRuns`).
Type correctness needs `BudgetKept`: the numbered secrets do not run out, however
often a request resets the attempts, because every request adds `MaxAttempts` to
what may be made, and what has been made, is being made and may still be made
together never exceed that; it is a count over the set of attempts under way, and
the proof uses the library's theorems on finite sets. `HooksInv` then follows an
attempt through its calls (`HooksKnown`): when it is about to create a hook there is
none, when it is about to store there is only its own. `OrderInv` adds when the
secrets were made: an attempt that is about to store has the last of them
(`NewestIsStored`). When attempts overlap this is false, and so is
`RotationGoesForward`: the slower attempt stores the older secret.

### PipelineStatus

`PipelineStatusProofs` proves, for any configurations, all invariants of the
`PipelineStatus` run but the one about faults, which is below:

| theorem | property |
|---|---|
| `AnswersAreConsistent` | `AnswersAgree` |
| `ShownVerdictStays` | `ShownVerdictHolds` |
| `TextIsKept` | `PlanKeepsJobs` |
| `RowsAreWellFormed` | `TypeOK` |
| `SettledAnswersStayTrue` | `SettledAnswersHold` |
| `StatusesSettle` | after the launch no row comes or goes, what has ended keeps its status (but for the last step to succeed, while its job runs), and the pipeline is concluded once |
| `OneWorkflowIsListedTruly` | the list is right about a pipeline of one workflow: what is left of the sentence that `ListedIsTrue` refutes |

Assumption: `FilesAreDocuments`, the same as for the parser. That the steps of a
row are numbered from 1, and that a row's workflow is one of the plan, follow from
it through parser and planner (`RowsOfPlan`).

The argument. An answer is put together from queries between which rows change,
so the invariant says what of an earlier query still holds at the next one. A
workflow that was shown as settled is so still, with that status (`PipelineShown`);
a job that was shown as completed has succeeded (`JobShown`). With what the rows
say of each other (`VerdictsAgree`, `StepsAgree`) the next query cannot contradict
the earlier one. The opposite, a job that was shown as running and whose steps are
all shown as completed, is not excluded and `AnswersAgree` does not exclude it.
For the verdict, `WorstIsWorst` shows that the worst status exists and is none
better than another, so that "completed" is about every workflow.

What is shown as settled stays true because of the rows, not of the requests:
`Settles` says of a step that it keeps every settled status, and is proved for each
step of a job (`StepSettles`, `JobSettles`, `RunSettles`). The one status that may be
taken back is the success of the last step of a job that runs (`TakenBack`); an
answer that showed it said that the job was running, and the exception of
`SettledAnswersHold` says no more: the step has failed, the job does not succeed. An answer of earlier
queries, which said the same as the rows then (`AnswersAreOfRows`), then survives the
step, and a query of now shows the rows of now (`RequestsAnswer`).

`TextIsKept` needs of the state only that the rows are those of the plan and the
plan that of the files (`RowsArePlanned`): the rest is the theorem `RowsFollowText`
about the operators. From there `TypeOK` takes that ids count the jobs of a
workflow, so that none exceeds the number of rows (`IdsAreRows`).

### V0Parser and Planner

`ConfigurationProofs` proves, for every file and workflow:

| theorem | what it says |
|---|---|
| `FaultsAreReported` | `FaultsReported`, as an invariant of `PipelineStatus` |
| `ErrorsAreFaults` | the errors of a file are about exactly the nodes that break the grammar, so that it is accepted if and only if none does |
| `AttributesAccepted` | `parseNodeAttributes` is right exactly when the arguments and properties are what the rule asks for |
| `NodesAccepted` | the same for each kind of node, with the table of `ConfigurationGrammar` |
| `IdsFollowTheText` | ids count up in the order of the text |
| `PlannedIdsDiffer` | no two planned jobs of a workflow have one id, whatever names repeat |
| `PlanFollowsText` | the plan has one workflow for each accepted file that declares a stage or a job, in order, with every job of its text and no other, under its id, name and commands |
| `RowsFollowText` | the rows to be inserted are those of the jobs that the text declares, one for each |

Assumption: `FilesAreDocuments`, on the configurations: files and the lists of a
document are numbered from 1 as deep as the parser looks, a node without a block has
no nodes, and no value is the model's "absent". The theorems about operators have the
same forms of data as hypotheses (`Documents`, `IsDocument`, `IsNode`, `AreStages`).

The argument for `ErrorsAreFaults` climbs the nesting. An error knows the node it
is about; for each kind of node, its errors are about itself, if it is wrong, and
about the wrong nodes inside it (`JobChildErrors`, `UseChildErrors`, `JobParsed`,
`StageParsed`, `UseParsed`, `TopParsed`), because the code parses the nodes of a
block even if the name of the block is wrong. A stage or job makes a declaration
exactly when it is valid, also when something inside it is not; so the name that is
reported as a duplicate is one that an earlier valid node has (`RepeatedPlaces`,
`TakenNames`). The header is the one node with a property that must be given, and
the one whose error hides all others (`HeaderParsed`).

The argument for `PlanFollowsText` is about lists. The parser makes lists of lists
and joins them (`FlattenSeq`, and `Only`, which is the selection of a list written
with it): declarations of a block, stages of a file, files of a delivery. The
library defines `FlattenSeq` by a recursive function, and the induction it needs is
made here without the library's induction theorems: a property of numbers is given
as a set, and the smallest number that is not in it is contradicted (`UpTo`, from
`SmallestOf`). With it `Joined` exists, is what `FlattenSeq` computes (`Flattened`),
and has the k-th item of the i-th list at the place that the lists before it take up
(`FlatItem`), and nothing else (`FlatOrigin`). Then each level is a statement that
two such lists are in step, text on one side and what was made of it on the other:
a step node and its command (`StepsKept`), a job (`JobKept`), a stage or a job on
its own, which the parser wraps in one (`StageKept`, `TopKept`), a file
(`FileKept`). The maps by name lose nothing because an accepted file repeats no
name (`NoRepeats`, `JobIsPlanned`), and the id of a job is its place in the text
(`IdCounts`). Last, a file that is correct but declares nothing is parsed to no
workflow, so the lists of accepted files and of plans skip the same places
(`FlatInStep`).

### How the invariants were found

Each inductive invariant was first given to TLC as an invariant of the run of its
module, and corrected where TLC found a state without it. The runs do not keep it: it
is what the proof needs, and says nothing new of the code beside the properties.

### Only model-checked

- Every liveness property (`HandlersEnd`, `ConclusionReported`, `RunEnds`,
  `LaunchedConcludes`, `ConclusionShown`, `ConfiguredWorks`, `DueIsRefreshed`):
  liveness under fairness is out of the prover's reach.

Every safety property of the passing runs is proved.

## 5. Plan

Done, in the order of importance: the cascade under concurrency; the container
runner and its abstract specification; the scheduler; the composition with
crashes; the webhook setup; parser, planner and status API; the forge tokens; and
the proofs of section 4.

Nothing of the plan is left but what the prover cannot reach (liveness) and what is
listed below.

### Not modelled

- HTTP routing, sessions, logout, the OAuth cookies and the redirect to the forge,
  error mapping: library code around the handlers, or without state of its own.
- Access checks and refused deliveries: they answer before anything is changed
  or shown.
- The read-only queries of the stores and the Gitea client that no modelled
  handler makes (lists of users, repositories and branches).
- Logging, configuration loading, generated database types.
- `ContainerRunner.initialise` (one volume, once, at start-up) and `cancelJob`
  (not implemented).
- What a job `needs`: the parser keeps it and the planner drops it, so that
  nothing in the code acts on it.
- Wording and source spans of parser errors.
