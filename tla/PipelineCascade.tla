--------------------------- MODULE PipelineCascade ---------------------------
(***************************************************************************)
(* What completing a job promises: the job's status, the status of its     *)
(* workflow and the conclusion of its pipeline change in one step, as if   *)
(* completions never overlapped.  JobCompletion, where every SQL statement *)
(* of updateJobRunStatus is a step of its own and several transactions are *)
(* open at once, implements this specification; PipelineExecution uses it  *)
(* as the database half of the whole system.                               *)
(***************************************************************************)
EXTENDS PipelineRuns

VARIABLES
    jobStatus,       \* committed job_runs.status
    workflowStatus,  \* committed workflow_runs.status
    conclusion       \* the verdict committed transactions returned for a
                     \* pipeline ("incomplete" while none has)

vars == << jobStatus, workflowStatus, conclusion >>

Conclusion == { "incomplete", "succeeded", "failed" }

TypeOK ==
    /\ jobStatus \in [Jobs -> JobRunStatus]
    /\ workflowStatus \in [Workflows -> WorkflowRunStatus]
    /\ conclusion \in [Pipelines -> Conclusion]

\* The rows as the launch transaction inserts them.
Init ==
    /\ jobStatus = [j \in Jobs |-> "incomplete"]
    /\ workflowStatus = [w \in Workflows |-> "incomplete"]
    /\ conclusion = [p \in Pipelines |-> "incomplete"]

\* The workflow column once the jobs read `jobs`: the last job to complete
\* settles the workflow.
Settle(workflows, jobs, w) ==
    IF AllJobsComplete(jobs, w)
    THEN [workflows EXCEPT ![w] = StatusFor(WorkflowSucceeded(jobs, w))]
    ELSE workflows

\* The conclusions once the workflows read `workflows`: the last workflow to
\* complete concludes the pipeline.
Conclude(conclusions, workflows, p) ==
    IF AllWorkflowsComplete(workflows, p)
    THEN [conclusions EXCEPT ![p] = StatusFor(AllWorkflowsSucceeded(workflows, p))]
    ELSE conclusions

Complete(j, success) ==
    /\ jobStatus[j] = "incomplete"
    /\ jobStatus' = [jobStatus EXCEPT ![j] = StatusFor(success)]
    /\ workflowStatus' = Settle(workflowStatus, jobStatus', WorkflowOf[j])
    /\ conclusion' = Conclude(conclusion, workflowStatus', PipelineOfJob(j))

Next == \E j \in Jobs, success \in BOOLEAN : Complete(j, success)

Spec == Init /\ [][Next]_vars
=============================================================================
