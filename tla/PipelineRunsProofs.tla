-------------------------- MODULE PipelineRunsProofs --------------------------
(***************************************************************************)
(* What the rows of a pipeline run say of each other when their columns    *)
(* agree: lemmas about the queries of the pipeline store, for any columns. *)
(***************************************************************************)
EXTENDS PipelineRuns, TLAPS

\* A job belongs to its workflow, and to that workflow's pipeline.
LEMMA Containment ==
    ASSUME NEW j \in Jobs
    PROVE  /\ WorkflowOf[j] \in Workflows /\ PipelineOfJob(j) \in Pipelines
           /\ PipelineOf[WorkflowOf[j]] = PipelineOfJob(j)
           /\ j \in JobsOf(WorkflowOf[j])
           /\ WorkflowOf[j] \in WorkflowsOf(PipelineOfJob(j))
  BY ForeignKeys DEF PipelineOfJob, JobsOf, WorkflowsOf

\* Until a job completes, its workflow is not settled and its pipeline not concluded.
LEMMA OpenUntilComplete ==
    ASSUME NEW jobs, NEW workflows, NEW conclusions,
           WorkflowsFollowJobs(jobs, workflows),
           ConclusionsFollowWorkflows(workflows, conclusions),
           NEW j \in Jobs, jobs[j] = "incomplete"
    PROVE  /\ workflows[WorkflowOf[j]] = "incomplete"
           /\ conclusions[PipelineOfJob(j)] = "incomplete"
<1>1. workflows[WorkflowOf[j]] = "incomplete"
  BY Containment DEF WorkflowsFollowJobs, AllJobsComplete
<1>2. conclusions[PipelineOfJob(j)] = "incomplete"
  BY <1>1, Containment DEF ConclusionsFollowWorkflows, AllWorkflowsComplete
<1> QED
  BY <1>1, <1>2

\* Completing a job, with the cascade in one step, keeps workflows and
\* conclusions in step with the jobs.
LEMMA CompletionKeepsAgreement ==
    ASSUME NEW jobs \in [Jobs -> JobRunStatus],
           NEW workflows \in [Workflows -> WorkflowRunStatus],
           NEW conclusions \in [Pipelines -> { "incomplete", "succeeded", "failed" }],
           WorkflowsFollowJobs(jobs, workflows),
           ConclusionsFollowWorkflows(workflows, conclusions),
           NEW j \in Jobs, NEW s \in BOOLEAN, jobs[j] = "incomplete",
           NEW jobs2, NEW workflows2, NEW conclusions2,
           jobs2 = [jobs EXCEPT ![j] = StatusFor(s)],
           workflows2 =
               IF AllJobsComplete(jobs2, WorkflowOf[j])
               THEN [workflows EXCEPT ![WorkflowOf[j]] =
                        StatusFor(WorkflowSucceeded(jobs2, WorkflowOf[j]))]
               ELSE workflows,
           conclusions2 =
               IF AllWorkflowsComplete(workflows2, PipelineOfJob(j))
               THEN [conclusions EXCEPT ![PipelineOfJob(j)] =
                        StatusFor(AllWorkflowsSucceeded(workflows2, PipelineOfJob(j)))]
               ELSE conclusions
    PROVE  /\ WorkflowsFollowJobs(jobs2, workflows2)
           /\ ConclusionsFollowWorkflows(workflows2, conclusions2)
<1> DEFINE w == WorkflowOf[j]
           p == PipelineOfJob(j)
<1>0. /\ w \in Workflows /\ p \in Pipelines
      /\ PipelineOf[w] = p
      /\ w \in WorkflowsOf(p) /\ j \in JobsOf(w)
  BY Containment
<1>2. workflows[w] = "incomplete" /\ conclusions[p] = "incomplete"
  BY OpenUntilComplete
<1>3. ASSUME NEW v \in Workflows, v # w
      PROVE  /\ workflows2[v] = workflows[v]
             /\ AllJobsComplete(jobs2, v) <=> AllJobsComplete(jobs, v)
             /\ WorkflowSucceeded(jobs2, v) <=> WorkflowSucceeded(jobs, v)
  BY <1>3 DEF AllJobsComplete, WorkflowSucceeded, JobsOf
<1>4. WorkflowsFollowJobs(jobs2, workflows2)
  <2> SUFFICES ASSUME NEW v \in Workflows
               PROVE  /\ workflows2[v] # "incomplete" <=>
                             JobsOf(v) # {} /\ AllJobsComplete(jobs2, v)
                      /\ workflows2[v] # "incomplete" =>
                             workflows2[v] = StatusFor(WorkflowSucceeded(jobs2, v))
    BY DEF WorkflowsFollowJobs
  <2>1. CASE v # w
    BY <1>3, <2>1 DEF WorkflowsFollowJobs, StatusFor
  <2>2. CASE v = w
    <3>1. JobsOf(w) # {}
      BY <1>0
    <3>2. CASE AllJobsComplete(jobs2, w)
      <4>1. workflows2[w] = StatusFor(WorkflowSucceeded(jobs2, w))
        BY <1>0, <3>2
      <4> QED
        BY <2>2, <3>1, <3>2, <4>1 DEF StatusFor
    <3>3. CASE ~AllJobsComplete(jobs2, w)
      BY <1>2, <2>2, <3>3
    <3> QED
      BY <3>2, <3>3
  <2> QED
    BY <2>1, <2>2
<1>5. ASSUME NEW q \in Pipelines, q # p
      PROVE  /\ conclusions2[q] = conclusions[q]
             /\ AllWorkflowsComplete(workflows2, q) <=> AllWorkflowsComplete(workflows, q)
             /\ AllWorkflowsSucceeded(workflows2, q) <=> AllWorkflowsSucceeded(workflows, q)
  <2>1. conclusions2[q] = conclusions[q]
    BY <1>5
  <2>2. \A v \in WorkflowsOf(q) : workflows2[v] = workflows[v]
    BY <1>0, <1>3, <1>5 DEF WorkflowsOf
  <2> QED
    BY <2>1, <2>2 DEF AllWorkflowsComplete, AllWorkflowsSucceeded
<1>6. ConclusionsFollowWorkflows(workflows2, conclusions2)
  <2> SUFFICES ASSUME NEW q \in Pipelines
               PROVE  /\ conclusions2[q] # "incomplete" <=>
                             WorkflowsOf(q) # {} /\ AllWorkflowsComplete(workflows2, q)
                      /\ conclusions2[q] # "incomplete" =>
                             conclusions2[q] = StatusFor(AllWorkflowsSucceeded(workflows2, q))
    BY DEF ConclusionsFollowWorkflows
  <2>1. CASE q # p
    BY <1>5, <2>1 DEF ConclusionsFollowWorkflows, StatusFor
  <2>2. CASE q = p
    <3>1. WorkflowsOf(p) # {}
      BY <1>0
    <3>2. CASE AllWorkflowsComplete(workflows2, p)
      <4>1. conclusions2[p] = StatusFor(AllWorkflowsSucceeded(workflows2, p))
        BY <1>0, <3>2
      <4> QED
        BY <2>2, <3>1, <3>2, <4>1 DEF StatusFor
    <3>3. CASE ~AllWorkflowsComplete(workflows2, p)
      BY <1>2, <2>2, <3>3
    <3> QED
      BY <3>2, <3>3
  <2> QED
    BY <2>1, <2>2
<1> QED
  BY <1>4, <1>6

\* When the columns agree, a conclusion says of the jobs what it claims: all are
\* complete, and it is a success exactly when none of them was unsuccessful.
LEMMA ConclusionSpeaksForJobs ==
    ASSUME NEW jobs, NEW workflows, NEW conclusions,
           WorkflowsFollowJobs(jobs, workflows),
           ConclusionsFollowWorkflows(workflows, conclusions),
           NEW p \in Pipelines, conclusions[p] # "incomplete"
    PROVE  /\ \A j \in Jobs : PipelineOfJob(j) = p => jobs[j] # "incomplete"
           /\ conclusions[p] = "succeeded" <=>
                  \A j \in Jobs : PipelineOfJob(j) = p => jobs[j] \notin Unsuccessful
<1>1. /\ AllWorkflowsComplete(workflows, p)
      /\ conclusions[p] = StatusFor(AllWorkflowsSucceeded(workflows, p))
  BY DEF ConclusionsFollowWorkflows
<1>2. \A w \in WorkflowsOf(p) :
          AllJobsComplete(jobs, w) /\ workflows[w] = StatusFor(WorkflowSucceeded(jobs, w))
  BY <1>1 DEF WorkflowsFollowJobs, AllWorkflowsComplete, WorkflowsOf
<1>3. \A j \in Jobs : PipelineOfJob(j) = p => jobs[j] # "incomplete"
  BY <1>2, Containment DEF AllJobsComplete
<1>4. ASSUME conclusions[p] = "succeeded", NEW j \in Jobs, PipelineOfJob(j) = p
      PROVE  jobs[j] \notin Unsuccessful
  <2>1. workflows[WorkflowOf[j]] \notin Unsuccessful
    BY <1>1, <1>4, Containment DEF StatusFor, AllWorkflowsSucceeded
  <2>2. WorkflowSucceeded(jobs, WorkflowOf[j])
    BY <1>2, <1>4, <2>1, Containment DEF StatusFor, Unsuccessful
  <2> QED
    BY <2>2, Containment DEF WorkflowSucceeded
<1>5. ASSUME \A j \in Jobs : PipelineOfJob(j) = p => jobs[j] \notin Unsuccessful
      PROVE  conclusions[p] = "succeeded"
  <2>1. \A w \in WorkflowsOf(p) : WorkflowSucceeded(jobs, w)
    BY <1>5 DEF WorkflowSucceeded, JobsOf, WorkflowsOf, PipelineOfJob
  <2>2. AllWorkflowsSucceeded(workflows, p)
    BY <1>2, <2>1 DEF AllWorkflowsSucceeded, StatusFor, Unsuccessful
  <2> QED
    BY <1>1, <2>2 DEF StatusFor
<1> QED
  BY <1>3, <1>4, <1>5
=============================================================================
