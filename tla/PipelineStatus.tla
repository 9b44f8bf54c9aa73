--------------------------- MODULE PipelineStatus ---------------------------
(***************************************************************************)
(* One pipeline from its configuration files to what the API shows of it:  *)
(* the files are parsed and planned, the launch transaction inserts the    *)
(* rows, the runner writes them, and requests read them.                   *)
(*                                                                         *)
(* Parsing and planning do not await; a request reads with one query per   *)
(* step (a transaction at READ COMMITTED sees what is committed before     *)
(* each of its queries) while jobs go on.  The end of a job is one step,   *)
(* which JobCompletion justifies.  The scheduler may run the jobs in any   *)
(* order and all at once.                                                  *)
(***************************************************************************)
EXTENDS V0Parser, Planner

CONSTANTS
    Configurations,   \* the sequences of files that a delivery may find, each
                      \* [isKdl, nodes]
    Executed          \* bound: those whose jobs are run and asked for

PlanOf(configuration) == PlanAll(ParseKdlConfigs(configuration).configs)

VARIABLES
    files,            \* the configuration files, in order
    phase,            \* how far the delivery's handler has come
    results,          \* errors per file, as reported
    plan,             \* the planned workflows
    jobRow,           \* the inserted rows of job_runs and job_run_steps: name and
                      \* steps by << workflow, job_run_id >>
    jobStatus,        \* job_runs.status
    stepStatus,       \* job_run_steps: "started" is incomplete with a started_at
    workflowStatus,   \* workflow_runs.status
    conclusion,       \* the verdict the cascade returned (history)
    reader,           \* the next query of the request, "idle" when answered
    shownWorkflows,   \* getPipeline: workflow statuses of the answer
    shownJobs,        \* and job statuses, by workflow
    askedJob,         \* getJob: the job asked for
    shownJob,         \* its status in the answer
    shownSteps,       \* and the statuses of its steps
    listed            \* listPipelines: the status of the pipeline

handler == << files, phase, results, plan, jobRow >>
runs == << jobStatus, stepStatus, workflowStatus, conclusion >>
pipelineView == << shownWorkflows, shownJobs >>
jobView == << askedJob, shownJob, shownSteps >>
view == << pipelineView, jobView, listed >>
vars == << handler, runs, reader, view >>

Rows == DOMAIN jobRow

\* The queries of the cascade, over the rows of this pipeline.
Runs == INSTANCE PipelineRuns WITH
            Jobs <- Rows,
            Workflows <- DOMAIN workflowStatus,
            Pipelines <- { 1 },
            WorkflowOf <- [r \in Rows |-> r[1]],
            PipelineOf <- [w \in DOMAIN workflowStatus |-> 1]

StepStatus == { "pending", "started", "succeeded", "failed" }

ShownStatus == { "failed", "timed_out", "cancelled", "running", "pending",
                 "incomplete", "completed", "skipped" }

TypeOK ==
    /\ phase \in { "received", "checked", "launched", "failed" }
    /\ Len(results) \in { 0, Len(files) }
    /\ \A r \in Rows : r[1] \in DOMAIN plan /\ r[2] \in 1 .. Cardinality(Rows)
    /\ DOMAIN jobStatus = Rows
    /\ \A r \in Rows : jobStatus[r] \in { "incomplete", "succeeded", "failed" }
    /\ DOMAIN stepStatus = Rows
    /\ \A r \in Rows : stepStatus[r] \in [DOMAIN jobRow[r].steps -> StepStatus]
    /\ workflowStatus \in Seq({ "incomplete", "succeeded", "failed" })
    /\ conclusion \in { "incomplete", "succeeded", "failed" }
    /\ reader \in { "idle", "workflows", "jobs", "steps" }
    /\ shownWorkflows \in Seq(ShownStatus)
    /\ DOMAIN shownJobs \subseteq DOMAIN shownWorkflows
    /\ shownJob \in ShownStatus \cup { "none" }
    /\ shownSteps \in Seq(ShownStatus)
    /\ listed \in ShownStatus \cup { "none" }

NoView ==
    /\ shownWorkflows = << >>
    /\ shownJobs = << >>
    /\ askedJob = << >>
    /\ shownJob = "none"
    /\ shownSteps = << >>
    /\ listed = "none"

Init ==
    /\ files \in Configurations
    /\ phase = "received"
    /\ results = << >>
    /\ plan = << >>
    /\ jobRow = << >>
    /\ jobStatus = << >>
    /\ stepStatus = << >>
    /\ workflowStatus = << >>
    /\ conclusion = "incomplete"
    /\ reader = "idle"
    /\ NoView

-----------------------------------------------------------------------------
(* The handler of the delivery.                                            *)

\* parseKdlConfigs, and planAll of what it kept.
Check ==
    /\ phase = "received"
    /\ phase' = "checked"
    /\ \E parsed \in { ParseKdlConfigs(files) } :
           /\ results' = parsed.results
           /\ plan' = PlanAll(parsed.configs)
    /\ UNCHANGED << files, jobRow, runs, reader, view >>

\* Where the jobs of the plan are: workflow, name of the stage, name of the job.
Planned(workflows) ==
    UNION { UNION { { << w, s, j >> : j \in DOMAIN workflows[w][s] } :
                        s \in DOMAIN workflows[w] } : w \in DOMAIN workflows }

JobAt(workflows, p) == workflows[p[1]][p[2]][p[3]]

\* The rows that the transaction inserts: a step's row is named by its command.
RowsOf(workflows) ==
    LET key(p) == << p[1], JobAt(workflows, p).id >> IN
    [k \in { key(p) : p \in Planned(workflows) } |->
        LET p == CHOOSE p \in Planned(workflows) : key(p) = k
            steps == JobAt(workflows, p).steps
        IN  [name |-> p[3], steps |-> [i \in DOMAIN steps |-> steps[i].command]]]

\* An INSERT of no step rows is no SQL: the transaction fails, whatever else
\* it was to insert.
HasEmptyJob(workflows) ==
    \E p \in Planned(workflows) : JobAt(workflows, p).steps = << >>

Launch ==
    /\ phase = "checked"
    /\ ~HasEmptyJob(plan)
    /\ phase' = "launched"
    /\ jobRow' = RowsOf(plan)
    /\ jobStatus' = [r \in DOMAIN RowsOf(plan) |-> "incomplete"]
    /\ stepStatus' = [r \in DOMAIN RowsOf(plan) |->
                         [i \in DOMAIN RowsOf(plan)[r].steps |-> "pending"]]
    /\ workflowStatus' = [w \in DOMAIN plan |-> "incomplete"]
    /\ UNCHANGED << files, results, plan, conclusion, reader, view >>

LaunchFails ==
    /\ phase = "checked"
    /\ HasEmptyJob(plan)
    /\ phase' = "failed"
    /\ UNCHANGED << files, results, plan, jobRow, runs, reader, view >>

-----------------------------------------------------------------------------
(* The runner: every job of the pipeline is in the hands of the scheduler. *)

\* onStepStart: the next step of a job whose steps have all succeeded so far.
StepStarts(r) ==
    /\ files \in Executed
    /\ jobStatus[r] = "incomplete"
    /\ \E i \in DOMAIN stepStatus[r] :
           /\ stepStatus[r][i] = "pending"
           /\ \A k \in 1 .. i - 1 : stepStatus[r][k] = "succeeded"
           /\ stepStatus' = [stepStatus EXCEPT ![r][i] = "started"]
    /\ UNCHANGED << handler, jobStatus, workflowStatus, conclusion, reader, view >>

\* onStepEnd: the step that was started succeeds or fails; or the inner catch of
\* runJob records a failure, of a step that was not even started, or of the last
\* one to succeed if the answer to that was lost (the UPDATE asks for no status).
StepEnds(r, success) ==
    /\ files \in Executed
    /\ jobStatus[r] = "incomplete"
    /\ \E i \in DOMAIN stepStatus[r] :
           /\ \A k \in DOMAIN stepStatus[r] :
                  /\ k < i => stepStatus[r][k] = "succeeded"
                  /\ k > i => stepStatus[r][k] = "pending"
           /\ IF success THEN stepStatus[r][i] = "started" ELSE stepStatus[r][i] # "failed"
           /\ stepStatus' = [stepStatus EXCEPT ![r][i] = Runs!StatusFor(success)]
    /\ UNCHANGED << handler, jobStatus, workflowStatus, conclusion, reader, view >>

MutantJobEnds(r, success) ==      \* every end of a job settles its workflow
    /\ files \in Executed
    /\ jobStatus[r] = "incomplete"
    /\ success => \A i \in DOMAIN stepStatus[r] : stepStatus[r][i] = "succeeded"
    /\ jobStatus' = [jobStatus EXCEPT ![r] = Runs!StatusFor(success)]
    /\ workflowStatus' = [workflowStatus EXCEPT ![r[1]] =
                              Runs!StatusFor(Runs!WorkflowSucceeded(jobStatus', r[1]))]
    /\ conclusion' =
           IF Runs!AllWorkflowsComplete(workflowStatus', 1)
           THEN Runs!StatusFor(Runs!AllWorkflowsSucceeded(workflowStatus', 1))
           ELSE conclusion
    /\ UNCHANGED << handler, stepStatus, reader, view >>

\* onJobEnd, with the cascade: a success only if every step succeeded, a failure
\* at any time (a call of the runner may fail between any two steps).
JobEnds(r, success) ==
    /\ files \in Executed
    /\ jobStatus[r] = "incomplete"
    /\ success => \A i \in DOMAIN stepStatus[r] : stepStatus[r][i] = "succeeded"
    /\ jobStatus' = [jobStatus EXCEPT ![r] = Runs!StatusFor(success)]
    /\ workflowStatus' =
           IF Runs!AllJobsComplete(jobStatus', r[1])
           THEN [workflowStatus EXCEPT ![r[1]] =
                     Runs!StatusFor(Runs!WorkflowSucceeded(jobStatus', r[1]))]
           ELSE workflowStatus
    /\ conclusion' =
           IF Runs!AllWorkflowsComplete(workflowStatus', 1)
           THEN Runs!StatusFor(Runs!AllWorkflowsSucceeded(workflowStatus', 1))
           ELSE conclusion
    /\ UNCHANGED << handler, stepStatus, reader, view >>

-----------------------------------------------------------------------------
(* The status API.                                                         *)

MapJobStatus ==
    [incomplete |-> "incomplete", succeeded |-> "completed", failed |-> "failed",
     cancelled |-> "cancelled", timed_out |-> "failed",
     skipped_condition |-> "skipped", skipped_prerequisite |-> "skipped"]

MapWorkflowStatus ==
    [incomplete |-> "incomplete", succeeded |-> "completed", failed |-> "failed",
     cancelled |-> "cancelled", timed_out |-> "timed_out"]

\* The code maps a step by its status and whether it is live: incomplete, started,
\* and of a job that has not ended.
MapStepStatus(step, jobIsTerminal) ==
    CASE step = "succeeded" -> "completed"
      [] step = "failed" -> "failed"
      [] step = "started" /\ ~jobIsTerminal -> "running"
      [] OTHER -> "pending"

MutantPrecedence ==      \* from the best to the worst
    [failed |-> 0, timed_out |-> 1, cancelled |-> 2, running |-> 3, pending |-> 4,
     incomplete |-> 5, completed |-> 6, skipped |-> 7]

Precedence ==
    [failed |-> 7, timed_out |-> 6, cancelled |-> 5, running |-> 4, pending |-> 3,
     incomplete |-> 2, completed |-> 1, skipped |-> 0]

\* The status of a pipeline: the worst of its workflows'.
WorstOf(statuses) ==
    IF statuses = << >> THEN "pending"
    ELSE CHOOSE s \in ToSet(statuses) :
             \A t \in ToSet(statuses) : Precedence[s] >= Precedence[t]

\* A request starts: what the last one was answered is gone.
Asked(next) ==
    /\ phase = "launched"
    /\ files \in Executed
    /\ reader = "idle"
    /\ reader' = next
    /\ UNCHANGED << handler, runs >>

\* getPipeline: the pipeline exists and the user may read the repository.
GetPipeline ==
    /\ Asked("workflows")
    /\ shownWorkflows' = << >>
    /\ shownJobs' = << >>
    /\ UNCHANGED << jobView, listed >>

ReadWorkflows ==
    /\ reader = "workflows"
    /\ reader' = IF workflowStatus = << >> THEN "idle" ELSE "jobs"
    /\ shownWorkflows' = [w \in DOMAIN workflowStatus |-> MapWorkflowStatus[workflowStatus[w]]]
    /\ UNCHANGED << handler, runs, shownJobs, jobView, listed >>

\* The jobs of a workflow as the query finds them.
JobsShown(w) ==
    [id \in { r[2] : r \in Runs!JobsOf(w) } |-> MapJobStatus[jobStatus[<< w, id >>]]]

\* One query per workflow, the latest workflow first.
ReadJobs ==
    /\ reader = "jobs"
    /\ \E w \in DOMAIN shownWorkflows \ DOMAIN shownJobs :
           /\ \A v \in DOMAIN shownWorkflows \ DOMAIN shownJobs : v <= w
           /\ shownJobs' = [v \in DOMAIN shownJobs \cup { w } |->
                               IF v = w THEN JobsShown(w) ELSE shownJobs[v]]
           /\ reader' = IF w = 1 THEN "idle" ELSE "jobs"
    /\ UNCHANGED << handler, runs, shownWorkflows, jobView, listed >>

\* getJob: the row of the job, in the first transaction.
GetJob(r) ==
    /\ Asked("steps")
    /\ askedJob' = r
    /\ shownJob' = MapJobStatus[jobStatus[r]]
    /\ shownSteps' = << >>
    /\ UNCHANGED << pipelineView, listed >>

MutantReadSteps ==      \* whether the job has ended is not asked
    /\ reader = "steps"
    /\ reader' = "idle"
    /\ shownSteps' = [i \in DOMAIN stepStatus[askedJob] |->
                         MapStepStatus(stepStatus[askedJob][i], FALSE)]
    /\ UNCHANGED << handler, runs, pipelineView, askedJob, shownJob, listed >>

\* Its steps, after the access check, in the second.
ReadSteps ==
    /\ reader = "steps"
    /\ reader' = "idle"
    /\ shownSteps' = [i \in DOMAIN stepStatus[askedJob] |->
                         MapStepStatus(stepStatus[askedJob][i], shownJob # "incomplete")]
    /\ UNCHANGED << handler, runs, pipelineView, askedJob, shownJob, listed >>

\* listPipelines: the status of a pipeline is that of its latest workflow.
ListPipelines ==
    /\ Asked("idle")
    /\ listed' = IF workflowStatus = << >> THEN "pending"
                 ELSE MapWorkflowStatus[workflowStatus[Len(workflowStatus)]]
    /\ UNCHANGED << pipelineView, jobView >>

-----------------------------------------------------------------------------
Next ==
    \/ Check
    \/ Launch
    \/ LaunchFails
    \/ \E r \in Rows :
           \/ StepStarts(r)
           \/ \E success \in BOOLEAN : StepEnds(r, success) \/ JobEnds(r, success)
           \/ GetJob(r)
    \/ GetPipeline
    \/ ReadWorkflows
    \/ ReadJobs
    \/ ReadSteps
    \/ ListPipelines

Spec == Init /\ [][Next]_vars

-----------------------------------------------------------------------------
(* Properties of the answers to requests.                                  *)

\* An answer is consistent although it is read query by query while jobs go on.
\* getPipeline: a workflow shown as settled has all its jobs shown as ended, and
\* as failed only if one of them is.  getJob: steps are shown in the order they
\* run, all completed if the job is, and none "running" unless the job still is.
AnswersAgree ==
    /\ \A w \in DOMAIN shownJobs :
           LET jobs == { shownJobs[w][id] : id \in DOMAIN shownJobs[w] } IN
           shownWorkflows[w] # "incomplete" =>
               /\ "incomplete" \notin jobs
               /\ shownWorkflows[w] = "failed" <=> "failed" \in jobs
    /\ \A i \in DOMAIN shownSteps :
           /\ shownJob = "completed" => shownSteps[i] = "completed"
           /\ shownSteps[i] = "running" => shownJob = "incomplete"
           /\ shownSteps[i] # "pending" =>
                  \A k \in 1 .. i - 1 : shownSteps[k] = "completed"

\* "combine multiple statuses into a single status by taking the worst": a pipeline
\* shown as completed has concluded with success, and one shown as failed, maybe
\* while other workflows still run, will never conclude with success.
ShownVerdictHolds ==
    /\ shownWorkflows # << >> /\ WorstOf(shownWorkflows) = "completed" =>
           conclusion = "succeeded"
    /\ shownWorkflows # << >> /\ WorstOf(shownWorkflows) = "failed" =>
           conclusion # "succeeded"

\* A status that was shown as settled is still what the rows say, however long ago
\* they were read: of a workflow, a job, a step, and in the list the latest workflow.
\* Only one can be wrong: the last step that was shown as completed, of a job that
\* was shown as incomplete, and then that step has failed and the job will too.
SettledAnswersHold ==
    /\ \A w \in DOMAIN shownWorkflows : shownWorkflows[w] # "incomplete" =>
           shownWorkflows[w] = MapWorkflowStatus[workflowStatus[w]]
    /\ \A w \in DOMAIN shownJobs : \A id \in DOMAIN shownJobs[w] :
           shownJobs[w][id] # "incomplete" =>
               shownJobs[w][id] = MapJobStatus[jobStatus[<< w, id >>]]
    /\ shownJob \notin { "none", "incomplete" } =>
           shownJob = MapJobStatus[jobStatus[askedJob]]
    /\ \A i \in DOMAIN shownSteps : shownSteps[i] \in { "completed", "failed" } =>
           \/ shownSteps[i] = MapStepStatus(stepStatus[askedJob][i], TRUE)
           \/ /\ shownSteps[i] = "completed" /\ shownJob = "incomplete"
              /\ \A k \in DOMAIN shownSteps : k > i => shownSteps[k] = "pending"
              /\ stepStatus[askedJob][i] = "failed" /\ jobStatus[askedJob] # "succeeded"
    /\ listed \in { "completed", "failed" } =>
           listed = MapWorkflowStatus[workflowStatus[Len(workflowStatus)]]

\* api/pipelines.ts: "Most recent workflow run represents the pipeline's current
\* status".  A pipeline listed as completed is completed.
ListedIsTrue == listed = "completed" => conclusion = "succeeded"
=============================================================================
