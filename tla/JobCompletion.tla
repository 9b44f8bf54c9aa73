---------------------------- MODULE JobCompletion ----------------------------
(***************************************************************************)
(* Concurrent job completions: execution/job-completion.ts on top of       *)
(* PipelineStore.updateJobRunStatus.                                       *)
(*                                                                         *)
(* Every job that ends runs handleJobComplete, which opens a transaction,  *)
(* writes the job's row and cascades to the workflow and the pipeline.     *)
(* The runner awaits it, so a job has at most one handler at a time, but   *)
(* the handlers of different jobs overlap at every await.  A step here is  *)
(* one SQL statement (with the writes of the same transaction that follow  *)
(* it and nobody else can see).  PostgreSQL runs the transactions at READ  *)
(* COMMITTED: a statement sees the rows committed before it, plus its own  *)
(* transaction's writes; a row locked FOR UPDATE is held until the         *)
(* transaction ends.                                                       *)
(***************************************************************************)
EXTENDS PipelineRuns

CONSTANT
    Scenarios   \* sets of faults that may happen together in a run

\* rollback: a statement or the COMMIT fails and the transaction leaves no
\* trace; lostAck: the COMMIT is done but its answer is lost; forge: posting
\* the commit status, or reading the rows it needs, fails.
ASSUME ScenariosAssumption ==
    Scenarios \subseteq SUBSET { "rollback", "lostAck", "forge" }

VARIABLES
    faults,          \* the faults that may happen in this run
    jobStatus,       \* committed job_runs.status
    workflowStatus,  \* committed workflow_runs.status
    conclusion,      \* verdicts returned by committed transactions (history)
    calls,           \* how often onJobEnd was called for the job
    success,         \* the argument of the latest call
    pc,              \* next statement of the job's handler
    workflowWrite,   \* uncommitted write to the workflow row, if any
    verdict,         \* pipelineSucceeded in the pending result, if any
    commitStatus     \* the status the forge shows for the pipeline's commit

rows == << jobStatus, workflowStatus, conclusion >>
calling == << calls, success >>
vars == << faults, rows, calling, pc, workflowWrite, verdict, commitStatus >>

-----------------------------------------------------------------------------
(* Statements of a handler, and the row locks they hold.                   *)

BeforeLock == { "lockWorkflow" }

InTransaction ==
    BeforeLock \cup
    { "readJobs", "judgeWorkflow", "lockPipeline", "readWorkflows",
      "judgePipeline", "commit" }

Statements == { "idle", "report" } \cup InTransaction

\* Job j's transaction holds the row of its workflow / of its pipeline.
\* Returning early ("not all jobs are done") skips the pipeline's row.
HoldsWorkflow(j) == pc[j] \in InTransaction \ BeforeLock

HoldsPipeline(j) ==
    \/ pc[j] \in { "readWorkflows", "judgePipeline" }
    \/ pc[j] = "commit" /\ workflowWrite[j] # "none"

Written == { "none", "succeeded", "failed" }

TypeOK ==
    /\ faults \in Scenarios
    /\ jobStatus \in [Jobs -> JobRunStatus]
    /\ workflowStatus \in [Workflows -> WorkflowRunStatus]
    /\ conclusion \in [Pipelines -> { "incomplete", "succeeded", "failed" }]
    /\ calls \in [Jobs -> 0 .. 2]
    /\ success \in [Jobs -> BOOLEAN]
    /\ pc \in [Jobs -> Statements]
    /\ workflowWrite \in [Jobs -> Written]
    /\ verdict \in [Jobs -> Written]
    /\ commitStatus \in [Pipelines -> { "none", "success", "failure" }]

\* The launch transaction has committed: every row reads incomplete.
Init ==
    /\ faults \in Scenarios
    /\ jobStatus = [j \in Jobs |-> "incomplete"]
    /\ workflowStatus = [w \in Workflows |-> "incomplete"]
    /\ conclusion = [p \in Pipelines |-> "incomplete"]
    /\ calls = [j \in Jobs |-> 0]
    /\ success = [j \in Jobs |-> FALSE]
    /\ pc = [j \in Jobs |-> "idle"]
    /\ workflowWrite = [j \in Jobs |-> "none"]
    /\ verdict = [j \in Jobs |-> "none"]
    /\ commitStatus = [p \in Pipelines |-> "none"]

-----------------------------------------------------------------------------
(* The status columns as job j's transaction reads them.                   *)

SeenJobs(j) == [jobStatus EXCEPT ![j] = StatusFor(success[j])]

SeenWorkflows(j) == [workflowStatus EXCEPT ![WorkflowOf[j]] = workflowWrite[j]]

Goto(j, from, to) == /\ pc[j] = from
                     /\ pc' = [pc EXCEPT ![j] = to]

\* (Operators named Mutant... are plausible wrong versions of the definition
\* that follows them; no specification uses them.)

MutantJobEnds(j, s) ==      \* any further call, with any outcome
    /\ Goto(j, "idle", "lockWorkflow")
    /\ calls[j] < 2
    /\ calls' = [calls EXCEPT ![j] = @ + 1]
    /\ success' = [success EXCEPT ![j] = s]
    /\ UNCHANGED << faults, rows, workflowWrite, verdict, commitStatus >>

MutantJobEndsAlways(j, s) ==      \* a failed job is reported without limit
    /\ Goto(j, "idle", "lockWorkflow")
    /\ \/ calls[j] = 0
       \/ ~success[j] /\ ~s
    /\ calls' = [calls EXCEPT ![j] = @ + 1]
    /\ success' = [success EXCEPT ![j] = s]
    /\ UNCHANGED << faults, rows, workflowWrite, verdict, commitStatus >>

\* The runner calls onJobEnd, whose transaction begins with the UPDATE of
\* the job's own row.  The runner calls it again, with false, when it fails
\* to remove the container of a failed step (ContainerRunner); it never
\* reports a success and then something else.
JobEnds(j, s) ==
    /\ Goto(j, "idle", "lockWorkflow")
    /\ \/ calls[j] = 0
       \/ calls[j] = 1 /\ ~success[j] /\ ~s
    /\ calls' = [calls EXCEPT ![j] = @ + 1]
    /\ success' = [success EXCEPT ![j] = s]
    /\ UNCHANGED << faults, rows, workflowWrite, verdict, commitStatus >>

MutantLockWorkflow(j) ==      \* a plain SELECT
    /\ Goto(j, "lockWorkflow", "readJobs")
    /\ UNCHANGED << faults, rows, calling, workflowWrite, verdict, commitStatus >>

\* FOR UPDATE on the workflow's job rows: every open handler already holds
\* its own job's row.
MutantLockJobRows(j) ==
    /\ Goto(j, "lockWorkflow", "readJobs")
    /\ \A k \in Jobs \ {j} :
           pc[k] \in InTransaction => WorkflowOf[k] # WorkflowOf[j]
    /\ UNCHANGED << faults, rows, calling, workflowWrite, verdict, commitStatus >>

\* SELECT ... FROM workflow_runs ... FOR UPDATE
LockWorkflow(j) ==
    /\ Goto(j, "lockWorkflow", "readJobs")
    /\ \A k \in Jobs : HoldsWorkflow(k) => WorkflowOf[k] # WorkflowOf[j]
    /\ UNCHANGED << faults, rows, calling, workflowWrite, verdict, commitStatus >>

\* allJobsComplete; without it the cascade ends here.
ReadJobs(j) ==
    /\ IF AllJobsComplete(SeenJobs(j), WorkflowOf[j])
       THEN Goto(j, "readJobs", "judgeWorkflow")
       ELSE Goto(j, "readJobs", "commit")
    /\ UNCHANGED << faults, rows, calling, workflowWrite, verdict, commitStatus >>

\* workflowSucceeded, then updateWorkflowRunStatus and getPipelineForWorkflow.
JudgeWorkflow(j) ==
    /\ Goto(j, "judgeWorkflow", "lockPipeline")
    /\ workflowWrite' = [workflowWrite EXCEPT ![j] =
           StatusFor(WorkflowSucceeded(SeenJobs(j), WorkflowOf[j]))]
    /\ UNCHANGED << faults, rows, calling, verdict, commitStatus >>

MutantLockPipeline(j) ==      \* a plain SELECT
    /\ Goto(j, "lockPipeline", "readWorkflows")
    /\ UNCHANGED << faults, rows, calling, workflowWrite, verdict, commitStatus >>

\* SELECT ... FROM pipeline_runs ... FOR UPDATE
LockPipeline(j) ==
    /\ Goto(j, "lockPipeline", "readWorkflows")
    /\ \A k \in Jobs : HoldsPipeline(k) => PipelineOfJob(k) # PipelineOfJob(j)
    /\ UNCHANGED << faults, rows, calling, workflowWrite, verdict, commitStatus >>

MutantReadWorkflows(j) ==      \* asks outside the transaction
    /\ IF AllWorkflowsComplete(workflowStatus, PipelineOfJob(j))
       THEN Goto(j, "readWorkflows", "judgePipeline")
       ELSE Goto(j, "readWorkflows", "commit")
    /\ UNCHANGED << faults, rows, calling, workflowWrite, verdict, commitStatus >>

\* allWorkflowsComplete
ReadWorkflows(j) ==
    /\ IF AllWorkflowsComplete(SeenWorkflows(j), PipelineOfJob(j))
       THEN Goto(j, "readWorkflows", "judgePipeline")
       ELSE Goto(j, "readWorkflows", "commit")
    /\ UNCHANGED << faults, rows, calling, workflowWrite, verdict, commitStatus >>

MutantJudgePipeline(j) ==      \* the verdict of the last workflow alone
    /\ Goto(j, "judgePipeline", "commit")
    /\ verdict' = [verdict EXCEPT ![j] = workflowWrite[j]]
    /\ UNCHANGED << faults, rows, calling, workflowWrite, commitStatus >>

\* allWorkflowsSucceeded
JudgePipeline(j) ==
    /\ Goto(j, "judgePipeline", "commit")
    /\ verdict' = [verdict EXCEPT ![j] =
           StatusFor(AllWorkflowsSucceeded(SeenWorkflows(j), PipelineOfJob(j)))]
    /\ UNCHANGED << faults, rows, calling, workflowWrite, commitStatus >>

\* COMMIT makes the transaction's writes visible and releases its locks.
Publish(j) ==
    /\ jobStatus' = SeenJobs(j)
    /\ workflowStatus' = IF workflowWrite[j] = "none" THEN workflowStatus
                                                     ELSE SeenWorkflows(j)
    /\ conclusion' = IF verdict[j] = "none" THEN conclusion
                     ELSE [conclusion EXCEPT ![PipelineOfJob(j)] = verdict[j]]
    /\ workflowWrite' = [workflowWrite EXCEPT ![j] = "none"]

\* The call goes on to the commit status if this completed the pipeline.
Commit(j) ==
    /\ IF verdict[j] = "none" THEN Goto(j, "commit", "idle")
                              ELSE Goto(j, "commit", "report")
    /\ Publish(j)
    /\ UNCHANGED << faults, calling, verdict, commitStatus >>

\* handleJobComplete catches everything: the call ends, the runner goes on.
CommitAckLost(j) ==
    /\ "lostAck" \in faults
    /\ Goto(j, "commit", "idle")
    /\ Publish(j)
    /\ verdict' = [verdict EXCEPT ![j] = "none"]
    /\ UNCHANGED << faults, calling, commitStatus >>

Rollback(j) ==
    /\ "rollback" \in faults
    /\ pc[j] \in InTransaction
    /\ pc' = [pc EXCEPT ![j] = "idle"]
    /\ workflowWrite' = [workflowWrite EXCEPT ![j] = "none"]
    /\ verdict' = [verdict EXCEPT ![j] = "none"]
    /\ UNCHANGED << faults, rows, calling, commitStatus >>

MutantReport(j) ==      \* the outcome of the last job instead of the pipeline's
    /\ Goto(j, "report", "idle")
    /\ commitStatus' = [commitStatus EXCEPT ![PipelineOfJob(j)] =
           IF success[j] THEN "success" ELSE "failure"]
    /\ verdict' = [verdict EXCEPT ![j] = "none"]
    /\ UNCHANGED << faults, rows, calling, workflowWrite >>

\* createCommitStatus, after the transaction and outside any lock.
Report(j) ==
    /\ Goto(j, "report", "idle")
    /\ commitStatus' = [commitStatus EXCEPT ![PipelineOfJob(j)] =
           IF verdict[j] = "succeeded" THEN "success" ELSE "failure"]
    /\ verdict' = [verdict EXCEPT ![j] = "none"]
    /\ UNCHANGED << faults, rows, calling, workflowWrite >>

\* Reading the pipeline or the repository threw, or the forge refused.
ReportFails(j) ==
    /\ "forge" \in faults
    /\ Goto(j, "report", "idle")
    /\ verdict' = [verdict EXCEPT ![j] = "none"]
    /\ UNCHANGED << faults, rows, calling, workflowWrite, commitStatus >>

-----------------------------------------------------------------------------
Step(j) ==
    \/ LockWorkflow(j)
    \/ ReadJobs(j)
    \/ JudgeWorkflow(j)
    \/ LockPipeline(j)
    \/ ReadWorkflows(j)
    \/ JudgePipeline(j)
    \/ Commit(j)
    \/ Report(j)

Fault(j) == CommitAckLost(j) \/ Rollback(j) \/ ReportFails(j)

Next == \E j \in Jobs :
            \/ \E s \in BOOLEAN : JobEnds(j, s)
            \/ Step(j)
            \/ Fault(j)

Spec == Init /\ [][Next]_vars

\* Node.js resumes a handler whose statement was answered, and PostgreSQL
\* answers a statement that can proceed.  No job has to end and no fault has
\* to happen.
Fairness == \A j \in Jobs : WF_vars(Step(j))

FairSpec == Spec /\ Fairness

-----------------------------------------------------------------------------
(* Properties.                                                             *)

Cascade == INSTANCE PipelineCascade

\* However the statements of concurrent completions interleave and fail,
\* updateJobRunStatus has the effect of one atomic step: the job, the
\* workflow it may settle and the pipeline it may conclude, all or nothing.
\* A second call for the same failed job changes nothing.
CompletionIsAtomic == Cascade!Spec

\* No completion is lost and none is early: a workflow reads incomplete
\* exactly while one of its jobs does, and its final status is that of its
\* jobs ("lock is needed to prevent the case that the last update is lost").
WorkflowsAgree == WorkflowsFollowJobs(jobStatus, workflowStatus)

\* Some committed transaction saw the pipeline complete, exactly when all of
\* its workflows are settled, and it returned the verdict of all of them.
ConclusionsAgree == ConclusionsFollowWorkflows(workflowStatus, conclusion)

\* What the forge shows, and what a handler is about to post, is the verdict
\* of the complete pipeline: success only if every job succeeded.
CommitStatusAgrees ==
    \A p \in Pipelines :
        /\ commitStatus[p] # "none" =>
               /\ \A j \in Jobs : PipelineOfJob(j) = p => jobStatus[j] # "incomplete"
               /\ commitStatus[p] = "success" <=>
                      \A j \in Jobs : PipelineOfJob(j) = p => jobStatus[j] = "succeeded"
        /\ \A j \in Jobs : pc[j] = "report" /\ PipelineOfJob(j) = p =>
               verdict[j] = conclusion[p]

\* A verdict, once given at any level, is never taken back, not even by the
\* second onJobEnd of a failed job that finds its pipeline complete.
VerdictsAreFinal ==
    [][ /\ \A j \in Jobs :
               jobStatus[j] # "incomplete" => jobStatus'[j] = jobStatus[j]
        /\ \A w \in Workflows :
               workflowStatus[w] # "incomplete" => workflowStatus'[w] = workflowStatus[w]
        /\ \A p \in Pipelines :
               commitStatus[p] # "none" => commitStatus'[p] = commitStatus[p] ]_vars

\* The row locks never block handlers for ever: every handler ends, with or
\* without faults (job rows, then workflows, then pipelines: no cycle).
HandlersEnd == \A j \in Jobs : pc[j] # "idle" ~> pc[j] = "idle"

\* When nothing fails, a pipeline whose jobs have all ended gets its commit
\* status, provided that it has workflows and each of them has jobs.
Completable(p) ==
    /\ WorkflowsOf(p) # {}
    /\ \A w \in WorkflowsOf(p) : JobsOf(w) # {}

ConclusionReported ==
    \A p \in { q \in Pipelines : Completable(q) } :
        faults = {} /\ (\A j \in Jobs : PipelineOfJob(j) = p => calls[j] > 0)
            ~> commitStatus[p] # "none"

\* migrations/002: a job reads incomplete because the system crashed or
\* because it is still in the scheduler or the runner.  (Nothing crashes
\* here; the runner is done with a job when it has reported a success, or
\* reported a failure twice.)
IncompleteIsInFlight ==
    \A j \in Jobs : jobStatus[j] = "incomplete" =>
        \/ calls[j] = 0
        \/ pc[j] # "idle"
        \/ calls[j] = 1 /\ ~success[j]

-----------------------------------------------------------------------------
(* The inductive invariant: what holds between any two statements.         *)

\* At most one open transaction holds a row.
RowLocks ==
    \A j, k \in Jobs :
        /\ HoldsWorkflow(j) /\ HoldsWorkflow(k) /\ WorkflowOf[j] = WorkflowOf[k]
               => j = k
        /\ HoldsPipeline(j) /\ HoldsPipeline(k) /\ PipelineOfJob(j) = PipelineOfJob(k)
               => j = k

\* A job's row only ever gets the outcome its runner reported.
OwnOutcome(j) ==
    /\ jobStatus[j] \in { "incomplete", StatusFor(success[j]) }
    /\ calls[j] = 0 => jobStatus[j] = "incomplete" /\ pc[j] = "idle"

\* What a transaction has read about its workflow stays true while it holds
\* the workflow's row: nobody else can commit a job of that workflow.
KnowsWorkflow(j) ==
    LET done == AllJobsComplete(SeenJobs(j), WorkflowOf[j]) IN
    /\ pc[j] \in { "judgeWorkflow", "lockPipeline", "readWorkflows", "judgePipeline" }
           => done
    /\ pc[j] = "commit" => (done <=> workflowWrite[j] # "none")
    /\ workflowWrite[j] # "none" <=>
           \/ pc[j] \in { "lockPipeline", "readWorkflows", "judgePipeline" }
           \/ pc[j] = "commit" /\ done
    /\ workflowWrite[j] # "none" =>
           workflowWrite[j] = StatusFor(WorkflowSucceeded(SeenJobs(j), WorkflowOf[j]))

\* The same one level up, under the pipeline's row.
KnowsPipeline(j) ==
    LET done == AllWorkflowsComplete(SeenWorkflows(j), PipelineOfJob(j)) IN
    /\ pc[j] = "judgePipeline" => done
    /\ pc[j] = "commit" /\ workflowWrite[j] # "none" => (done <=> verdict[j] # "none")
    /\ pc[j] = "commit" /\ verdict[j] # "none" =>
           /\ workflowWrite[j] # "none"
           /\ verdict[j] = StatusFor(AllWorkflowsSucceeded(SeenWorkflows(j), PipelineOfJob(j)))
    /\ verdict[j] # "none" => pc[j] \in { "commit", "report" }
    /\ pc[j] = "report" =>
           verdict[j] # "none" /\ verdict[j] = conclusion[PipelineOfJob(j)]

Posted ==
    \A p \in Pipelines : commitStatus[p] # "none" =>
        \/ commitStatus[p] = "success" /\ conclusion[p] = "succeeded"
        \/ commitStatus[p] = "failure" /\ conclusion[p] = "failed"

\* Everything the cascade relies on: the row locks exclude, what a handler
\* read under a lock it still holds is still so, and the committed rows and
\* the posted statuses agree.
IInv ==
    /\ TypeOK
    /\ RowLocks
    /\ \A j \in Jobs : OwnOutcome(j) /\ KnowsWorkflow(j) /\ KnowsPipeline(j)
    /\ WorkflowsAgree
    /\ ConclusionsAgree
    /\ Posted
=============================================================================
