-------------------------- MODULE PipelineExecution --------------------------
(***************************************************************************)
(* From a webhook to a verdict: handleWebhook and launchPipelineExecution, *)
(* the scheduler, the jobs' ends and what the forge is told, with a server *)
(* that may crash between any two steps and start again.                   *)
(*                                                                         *)
(* A pipeline stands for one accepted delivery and the rows its launch     *)
(* inserts.  Deliveries are handled concurrently; several may be about the *)
(* same commit (a push and a pull request, a delivery sent again), and     *)
(* then their runs share the commit's status.                              *)
(*                                                                         *)
(* A job is what the rest of the system sees of runJob (ContainerRunner):  *)
(* it ends once, with either outcome.  The database transaction of its end *)
(* is one step, PipelineCascade!Complete, which JobCompletion implements.  *)
(***************************************************************************)
EXTENDS PipelineRuns, FiniteSets

CONSTANTS
    Commits,
    CommitOf,    \* the commit a delivery is about
    Invalid,     \* the deliveries for a configuration with errors in it
    Scenarios,   \* sets of faults that may happen together in a run:
                 \* "forge" requests and "db" transactions may fail
    MaxCrashes,  \* bound on the number of crashes
    HasRunner, CpuLimit, JobCpu, NumJobs

ASSUME ExecutionAssumption ==
    /\ CommitOf \in [Pipelines -> Commits]
    /\ Invalid \subseteq Pipelines
    /\ Scenarios \subseteq SUBSET { "forge", "db" }
    /\ MaxCrashes \in Nat
    /\ HasRunner \in BOOLEAN
    /\ { CpuLimit, JobCpu, NumJobs } \subseteq Nat

VARIABLES
    faults,       \* the faults that may happen in this run
    webhook,      \* the next call of a delivery's handler
    launched,     \* pipelines whose rows are in the database
    jobStatus, workflowStatus, conclusion,                \* the rows
    readyJobs, workflowInfo, runningOn, submissions,      \* the scheduler
    jobEnd,       \* how far a running job's handleJobComplete has come
    pending,      \* requests under way that set a commit to "pending"
    commitStatus, \* "corncrake/ci" on the forge: a state, and the run it links to
    validation,   \* commits with a failed "corncrake/pipeline-validation"
    crashes,
    abandoned,    \* jobs whose end the database will never see (history)
    unshown       \* pipelines whose verdict nobody will show any more, or whose
                  \* own late "pending" replaced it (history)

rows == << jobStatus, workflowStatus, conclusion >>
scheduler == << readyJobs, workflowInfo, runningOn, submissions >>
forge == << commitStatus, validation >>
history == << crashes, abandoned, unshown >>
vars == << faults, webhook, launched, rows, scheduler, jobEnd, pending, forge, history >>

Rows == INSTANCE PipelineCascade
Sched == INSTANCE Scheduler

JobsOfPipeline(p) == { j \in Jobs : PipelineOfJob(j) = p }

Incomplete(p) == { j \in JobsOfPipeline(p) : jobStatus[j] = "incomplete" }

\* The call that concluded the pipeline is about to report it.
Reporting(p) == \E j \in JobsOfPipeline(p) : jobEnd[j] = "report"

NoStatus == [state |-> "none"]

Status == [state : { "pending", "success", "failure" }, run : Pipelines]

TypeOK ==
    /\ faults \in Scenarios
    /\ webhook \in [Pipelines -> { "none", "fetchConfig", "reportErrors", "launch",
                                   "schedule", "done", "failed" }]
    /\ launched \subseteq Pipelines
    /\ Rows!TypeOK
    /\ Sched!TypeOK
    /\ jobEnd \in [Jobs -> { "none", "report", "return" }]
    /\ pending \subseteq Pipelines
    /\ commitStatus \in [Commits -> Status \cup { NoStatus }]
    /\ validation \subseteq Commits
    /\ crashes \in 0 .. MaxCrashes
    /\ abandoned \subseteq Jobs
    /\ unshown \subseteq Pipelines

Init ==
    /\ faults \in Scenarios
    /\ webhook = [p \in Pipelines |-> "none"]
    /\ launched = {}
    /\ Rows!Init
    /\ Sched!Init
    /\ jobEnd = [j \in Jobs |-> "none"]
    /\ pending = {}
    /\ commitStatus = [c \in Commits |-> NoStatus]
    /\ validation = {}
    /\ crashes = 0
    /\ abandoned = {}
    /\ unshown = {}

-----------------------------------------------------------------------------
(* A delivery.                                                             *)

Handle(p, from, to) ==
    /\ webhook[p] = from
    /\ webhook' = [webhook EXCEPT ![p] = to]

\* The signature is right, the event is a push or a pull request.
Receive(p) ==
    /\ Handle(p, "none", "fetchConfig")
    /\ UNCHANGED << launched, rows, scheduler, jobEnd, pending, forge, history >>

MutantFetchConfig(p) ==      \* goes on to the launch with what could be parsed
    /\ Handle(p, "fetchConfig", "launch")
    /\ UNCHANGED << launched, rows, scheduler, jobEnd, pending, forge, history >>

\* getCorncrakeciConfig and parseKdlConfigs.  Files with errors are dropped,
\* and the rest of the pipeline goes ahead without them.  The pipeline's rows
\* are those of the files that arrive (an empty file is left out).
FetchConfig(p) ==
    /\ Handle(p, "fetchConfig", IF p \in Invalid THEN "reportErrors" ELSE "launch")
    /\ UNCHANGED << launched, rows, scheduler, jobEnd, pending, forge, history >>

\* The directory cannot be read.
FetchConfigFails(p) ==
    /\ "forge" \in faults
    /\ Handle(p, "fetchConfig", "failed")
    /\ UNCHANGED << launched, rows, scheduler, jobEnd, pending, forge, history >>

\* Files of it cannot, among them those with errors: the others are launched.
FetchFilesFails(p) ==
    /\ "forge" \in faults
    /\ Handle(p, "fetchConfig", "launch")
    /\ UNCHANGED << launched, rows, scheduler, jobEnd, pending, forge, history >>

ReportErrors(p) ==
    /\ Handle(p, "reportErrors", "launch")
    /\ validation' = validation \cup { CommitOf[p] }
    /\ UNCHANGED << launched, rows, scheduler, jobEnd, pending, commitStatus, history >>

ReportErrorsFails(p) ==
    /\ "forge" \in faults
    /\ Handle(p, "reportErrors", "launch")
    /\ UNCHANGED << launched, rows, scheduler, jobEnd, pending, forge, history >>

\* The launch transaction commits: every row of the run, or none.
Launch(p) ==
    /\ Handle(p, "launch", "schedule")
    /\ launched' = launched \cup { p }
    /\ UNCHANGED << rows, scheduler, jobEnd, pending, forge, history >>

\* Nothing is committed and the delivery is answered with an error.
LaunchFails(p) ==
    /\ "db" \in faults
    /\ Handle(p, "launch", "failed")
    /\ UNCHANGED << launched, rows, scheduler, jobEnd, pending, forge, history >>

\* The rows are committed but the answer is lost: nothing is scheduled.
LaunchAckLost(p) ==
    /\ "db" \in faults
    /\ Handle(p, "launch", "failed")
    /\ launched' = launched \cup { p }
    /\ abandoned' = abandoned \cup JobsOfPipeline(p)
    /\ UNCHANGED << rows, scheduler, jobEnd, pending, forge, crashes, unshown >>

MutantSchedule(p) ==      \* does not wait for the launch transaction
    /\ webhook[p] \in { "launch", "schedule" }
    /\ webhook' = [webhook EXCEPT ![p] = "done"]
    /\ Sched!ScheduleAll(WorkflowsOf(p))
    /\ pending' = pending \cup { p }
    /\ UNCHANGED << launched, rows, jobEnd, forge, history >>

MutantScheduleFirst(p) ==      \* returns from within the loop
    /\ Handle(p, "schedule", "done")
    /\ Sched!ScheduleAll({ CHOOSE w \in WorkflowsOf(p) : TRUE })
    /\ pending' = pending \cup { p }
    /\ UNCHANGED << launched, rows, jobEnd, forge, history >>

\* The workflows are scheduled and the pending status is sent, not awaited.
Schedule(p) ==
    /\ Handle(p, "schedule", "done")
    /\ Sched!ScheduleAll(WorkflowsOf(p))
    /\ pending' = pending \cup { p }
    /\ UNCHANGED << launched, rows, jobEnd, forge, history >>

-----------------------------------------------------------------------------
(* The status of a commit, as the forge applies the requests.              *)

SetStatus(p, state) ==
    commitStatus' = [commitStatus EXCEPT ![CommitOf[p]] = [state |-> state, run |-> p]]

PendingArrives(p) ==
    /\ p \in pending
    /\ pending' = pending \ { p }
    /\ SetStatus(p, "pending")
    /\ unshown' = IF conclusion[p] # "incomplete" /\ ~Reporting(p)
                  THEN unshown \cup { p } ELSE unshown
    /\ UNCHANGED << webhook, launched, rows, scheduler, jobEnd, validation, crashes, abandoned >>

PendingFails(p) ==
    /\ "forge" \in faults
    /\ p \in pending
    /\ pending' = pending \ { p }
    /\ UNCHANGED << webhook, launched, rows, scheduler, jobEnd, forge, history >>

-----------------------------------------------------------------------------
(* A job, from its first step to the return of runJob.                     *)

EndJob(j, to) ==
    /\ runningOn[j] # "none" /\ jobEnd[j] = "none"
    /\ jobEnd' = [jobEnd EXCEPT ![j] = to]

MutantCompleteJob(j, success) ==      \* reports a pipeline when a workflow is done
    /\ Rows!Complete(j, success)
    /\ EndJob(j, IF workflowStatus' # workflowStatus THEN "report" ELSE "return")
    /\ UNCHANGED << webhook, launched, scheduler, pending, forge, history >>

MutantCompleteJobIfPassed(j, success) ==      \* reports only pipelines that passed
    /\ Rows!Complete(j, success)
    /\ EndJob(j, IF conclusion'[PipelineOfJob(j)] = "succeeded" THEN "report" ELSE "return")
    /\ UNCHANGED << webhook, launched, scheduler, pending, forge, history >>

\* The transaction of onJobEnd.  The call that completes the pipeline goes on
\* to report it.
CompleteJob(j, success) ==
    /\ Rows!Complete(j, success)
    /\ EndJob(j, IF conclusion' # conclusion THEN "report" ELSE "return")
    /\ UNCHANGED << webhook, launched, scheduler, pending, forge, history >>

\* It commits, but the answer is lost: nobody reports the pipeline.
CompleteJobAckLost(j, success) ==
    /\ "db" \in faults
    /\ Rows!Complete(j, success)
    /\ EndJob(j, "return")
    /\ unshown' = IF conclusion' # conclusion THEN unshown \cup { PipelineOfJob(j) } ELSE unshown
    /\ UNCHANGED << webhook, launched, scheduler, pending, forge, crashes, abandoned >>

\* It fails; handleJobComplete logs that, and the job's end is forgotten.  (Where
\* runJob reports a failure twice and only the second report is committed, that
\* one is CompleteJob.)
CompleteJobFails(j) ==
    /\ "db" \in faults
    /\ EndJob(j, "return")
    /\ abandoned' = abandoned \cup { j }
    /\ UNCHANGED << webhook, launched, rows, scheduler, pending, forge, crashes, unshown >>

MutantReportConclusion(j) ==      \* passes the database's word for it on
    /\ jobEnd[j] = "report"
    /\ jobEnd' = [jobEnd EXCEPT ![j] = "return"]
    /\ SetStatus(PipelineOfJob(j), conclusion[PipelineOfJob(j)])
    /\ UNCHANGED << webhook, launched, rows, scheduler, pending, validation, history >>

\* createCommitStatus of job-completion.ts, awaited.
ReportConclusion(j) ==
    /\ jobEnd[j] = "report"
    /\ jobEnd' = [jobEnd EXCEPT ![j] = "return"]
    /\ LET p == PipelineOfJob(j) IN
           SetStatus(p, IF conclusion[p] = "succeeded" THEN "success" ELSE "failure")
    /\ UNCHANGED << webhook, launched, rows, scheduler, pending, validation, history >>

\* The forge, or the queries for the run and the repository before it.
ReportConclusionFails(j) ==
    /\ faults # {}
    /\ jobEnd[j] = "report"
    /\ jobEnd' = [jobEnd EXCEPT ![j] = "return"]
    /\ unshown' = unshown \cup { PipelineOfJob(j) }
    /\ UNCHANGED << webhook, launched, rows, scheduler, pending, forge, crashes, abandoned >>

ReturnJob(j) ==
    /\ jobEnd[j] = "return"
    /\ jobEnd' = [jobEnd EXCEPT ![j] = "none"]
    /\ Sched!JobReturns(j)
    /\ UNCHANGED << webhook, launched, rows, pending, forge, history >>

-----------------------------------------------------------------------------
InFlight == { "fetchConfig", "reportErrors", "launch", "schedule" }

MutantCrash ==      \* a start that hands the incomplete jobs out again
    /\ crashes < MaxCrashes
    /\ crashes' = crashes + 1
    /\ webhook' = [p \in Pipelines |-> IF webhook[p] \in InFlight THEN "failed" ELSE webhook[p]]
    /\ readyJobs' = UNION { Incomplete(p) : p \in launched }
    /\ workflowInfo' = {}
    /\ runningOn' = [j \in Jobs |-> "none"]
    /\ jobEnd' = [j \in Jobs |-> "none"]
    /\ pending' \in SUBSET pending
    /\ abandoned' = UNION { Incomplete(p) : p \in launched }
    /\ unshown' = unshown \cup { p \in Pipelines : Reporting(p) }
    /\ UNCHANGED << launched, rows, submissions, forge >>

\* The process dies and startServer builds an empty scheduler.  The rows stay
\* as committed, and nothing looks for the incomplete ones.  A request that
\* was already sent may still reach the forge.
Crash ==
    /\ crashes < MaxCrashes
    /\ crashes' = crashes + 1
    /\ webhook' = [p \in Pipelines |-> IF webhook[p] \in InFlight THEN "failed" ELSE webhook[p]]
    /\ readyJobs' = {}
    /\ workflowInfo' = {}
    /\ runningOn' = [j \in Jobs |-> "none"]
    /\ jobEnd' = [j \in Jobs |-> "none"]
    /\ pending' \in SUBSET pending
    /\ abandoned' = UNION { Incomplete(p) : p \in launched }
    /\ unshown' = unshown \cup { p \in Pipelines : Reporting(p) }
    /\ UNCHANGED << launched, rows, submissions, forge >>

-----------------------------------------------------------------------------
Delivery(p) ==
    /\ UNCHANGED faults
    /\ FetchConfig(p) \/ ReportErrors(p) \/ Launch(p) \/ Schedule(p) \/ PendingArrives(p)

Job(j) ==
    /\ UNCHANGED faults
    /\ \/ \E success \in BOOLEAN : CompleteJob(j, success)
       \/ ReportConclusion(j)
       \/ ReturnJob(j)

Fault ==
    \/ \E p \in Pipelines :
           \/ FetchConfigFails(p) \/ FetchFilesFails(p) \/ ReportErrorsFails(p)
           \/ LaunchFails(p) \/ LaunchAckLost(p)
           \/ PendingFails(p)
    \/ \E j \in Jobs :
           \/ CompleteJobFails(j) \/ ReportConclusionFails(j)
           \/ \E success \in BOOLEAN : CompleteJobAckLost(j, success)

Next ==
    \/ \E p \in Pipelines : Delivery(p)
    \/ \E j \in Jobs : Job(j)
    \/ /\ UNCHANGED faults
       /\ (\E p \in Pipelines : Receive(p)) \/ Fault \/ Crash

Spec == Init /\ [][Next]_vars

\* Requests, queries and commands end; no delivery has to come.
Fairness ==
    /\ \A p \in Pipelines : WF_vars(Delivery(p))
    /\ \A j \in Jobs : WF_vars(Job(j))

FairSpec == Spec /\ Fairness

-----------------------------------------------------------------------------
(* Properties.                                                             *)

\* The server still has job j in hand: the handler is about to schedule it,
\* or it waits for a runner, or its runJob has yet to report its end.
InHand(j) ==
    \/ webhook[PipelineOfJob(j)] = "schedule"
    \/ j \in readyJobs
    \/ runningOn[j] # "none" /\ jobEnd[j] = "none"

\* migrations/002: an incomplete job was abandoned by a crash or is in the
\* scheduler or the runner.  Beyond a crash only a database error at the
\* launch or at the job's end abandons one, and an abandoned job is never
\* picked up again, whatever restarts follow.
IncompleteAccountedFor ==
    \A p \in launched : \A j \in JobsOfPipeline(p) :
        IF jobStatus[j] = "incomplete" THEN InHand(j) <=> j \notin abandoned
                                       ELSE ~InHand(j) /\ j \notin abandoned

\* schedule: "The workflow must have already been persisted to the database".
\* A runner never has a job whose rows a crash or a rollback could take away.
RunsOnlyPersisted == \A j \in Jobs : submissions[j] > 0 => PipelineOfJob(j) \in launched

\* Across deliveries, job ends and restarts, a job is run at most once.
SubmittedOnce == Sched!SubmittedOnce

\* The forge never shows a run that is not in the database, nor a verdict on
\* a run while one of its jobs is incomplete, nor the wrong one.
StatusIsTrue ==
    \A c \in Commits : commitStatus[c] # NoStatus =>
        LET p == commitStatus[c].run
            ended == \A j \in JobsOfPipeline(p) : jobStatus[j] # "incomplete"
            passed == \A j \in JobsOfPipeline(p) : jobStatus[j] = "succeeded"
        IN  /\ p \in launched
            /\ commitStatus[c].state = "success" => passed
            /\ commitStatus[c].state = "failure" => ended /\ ~passed

Verdict(p) == [state |-> IF conclusion[p] = "succeeded" THEN "success" ELSE "failure", run |-> p]

\* The verdict on a pipeline is on its way to the forge, or was shown and only
\* the status of another run has replaced it.  What can lose it is a commit or
\* a report without an answer, a crash before the report, and the pipeline's
\* own pending request, not awaited, that arrives after it.
VerdictAccountedFor ==
    \A p \in Pipelines : conclusion[p] # "incomplete" /\ ~Reporting(p) /\ p \notin unshown =>
        LET status == commitStatus[CommitOf[p]]
        IN  status # NoStatus /\ (status.run = p => status = Verdict(p))

Completable(p) ==
    /\ WorkflowsOf(p) # {}
    /\ \A w \in WorkflowsOf(p) : JobsOf(w) # {}

\* A launched pipeline is concluded in the end, unless one of its jobs is
\* abandoned; a pipeline or a workflow without jobs never is.
LaunchedConcludes ==
    \A p \in { q \in Pipelines : Completable(q) } :
        p \in launched ~> conclusion[p] # "incomplete" \/ JobsOfPipeline(p) \cap abandoned # {}

\* A configuration of which a part was dropped does not run without its commit
\* showing that, when the forge takes the requests.
DroppedConfigShown ==
    "forge" \notin faults => \A p \in launched \cap Invalid : CommitOf[p] \in validation

\* When requests and transactions succeed, the verdict on a launched pipeline
\* is shown at some time (a late "pending" may still replace it), unless the
\* server dies in between.
ConclusionShown ==
    \A p \in { q \in Pipelines : Completable(q) } :
        faults = {} /\ p \in launched /\ conclusion[p] = "incomplete" ~>
            \/ conclusion[p] # "incomplete" /\ commitStatus[CommitOf[p]] = Verdict(p)
            \/ crashes > 0

\* migrations/002: a pipeline run is a trigger "causing one or more workflows
\* to be planned and executed".
PipelinesHaveWorkflows == \A p \in launched : WorkflowsOf(p) # {}
=============================================================================
