---------------------------- MODULE PipelineRuns ----------------------------
(***************************************************************************)
(* The rows of a pipeline run as the database stores them, and the         *)
(* questions the pipeline store asks of them.                              *)
(*                                                                         *)
(* A pipeline run contains workflow runs, a workflow run contains job      *)
(* runs.  Containment never changes once the launch transaction has        *)
(* committed, so it is a constant here; only the two status columns vary,  *)
(* and they are arguments of the operators (a query sees committed rows    *)
(* plus the writes of its own transaction, and each module says which).    *)
(***************************************************************************)
EXTENDS Naturals

CONSTANTS
    Jobs,         \* rows of job_runs
    Workflows,    \* rows of workflow_runs
    Pipelines,    \* rows of pipeline_runs
    WorkflowOf,   \* job_runs.workflow_run_id
    PipelineOf    \* workflow_runs.pipeline_run_id

\* Both columns are NOT NULL foreign keys.  A workflow may have no job and a
\* pipeline no workflow: nothing in the schema or in the launch forbids it.
ASSUME ForeignKeys ==
    /\ WorkflowOf \in [Jobs -> Workflows]
    /\ PipelineOf \in [Workflows -> Pipelines]

JobRunStatus ==
    { "incomplete", "skipped_condition", "skipped_prerequisite",
      "cancelled", "succeeded", "failed", "timed_out" }

WorkflowRunStatus ==
    { "incomplete", "cancelled", "succeeded", "failed", "timed_out" }

\* The statuses that the two "succeeded" queries look for.
Unsuccessful == { "failed", "cancelled", "timed_out" }

\* The status written for a boolean outcome.
StatusFor(success) == IF success THEN "succeeded" ELSE "failed"

JobsOf(w) == { j \in Jobs : WorkflowOf[j] = w }

WorkflowsOf(p) == { w \in Workflows : PipelineOf[w] = p }

PipelineOfJob(j) == PipelineOf[WorkflowOf[j]]

-----------------------------------------------------------------------------
(* The four queries of the cascade; jobs and workflows are status columns. *)

AllJobsComplete(jobs, w) == \A j \in JobsOf(w) : jobs[j] # "incomplete"

WorkflowSucceeded(jobs, w) == \A j \in JobsOf(w) : jobs[j] \notin Unsuccessful

AllWorkflowsComplete(workflows, p) ==
    \A w \in WorkflowsOf(p) : workflows[w] # "incomplete"

AllWorkflowsSucceeded(workflows, p) ==
    \A w \in WorkflowsOf(p) : workflows[w] \notin Unsuccessful

-----------------------------------------------------------------------------
(* When the columns agree.                                                 *)

\* A workflow is settled exactly when it has jobs and all of them are
\* complete, and then it failed exactly when one of its jobs did.
WorkflowsFollowJobs(jobs, workflows) ==
    \A w \in Workflows :
        /\ workflows[w] # "incomplete" <=> JobsOf(w) # {} /\ AllJobsComplete(jobs, w)
        /\ workflows[w] # "incomplete" =>
               workflows[w] = StatusFor(WorkflowSucceeded(jobs, w))

\* A pipeline is concluded exactly when it has workflows and all of them are
\* settled, and then it failed exactly when one of its workflows did.
ConclusionsFollowWorkflows(workflows, conclusions) ==
    \A p \in Pipelines :
        /\ conclusions[p] # "incomplete" <=>
               WorkflowsOf(p) # {} /\ AllWorkflowsComplete(workflows, p)
        /\ conclusions[p] # "incomplete" =>
               conclusions[p] = StatusFor(AllWorkflowsSucceeded(workflows, p))

=============================================================================
