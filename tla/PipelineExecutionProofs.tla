----------------------- MODULE PipelineExecutionProofs -----------------------
(***************************************************************************)
(* Theorems about PipelineExecution, for any deliveries, workflows, jobs,  *)
(* faults and number of crashes.                                           *)
(***************************************************************************)
EXTENDS PipelineExecution, PipelineRunsProofs

-----------------------------------------------------------------------------
(* The inductive invariant.                                                *)

\* Nothing has happened to the job but, maybe, the commit of its row.
Untouched(j) ==
    /\ jobStatus[j] = "incomplete"
    /\ submissions[j] = 0
    /\ j \notin readyJobs
    /\ runningOn[j] = "none"
    /\ j \notin abandoned

\* A delivery's handler, and the rows of its run, are as far as each other.
DeliveriesAgree ==
    \A p \in Pipelines :
        /\ webhook[p] \in { "none", "fetchConfig", "reportErrors", "launch" } => p \notin launched
        /\ webhook[p] \in { "schedule", "done" } => p \in launched
        /\ p \notin launched \/ webhook[p] = "schedule" =>
               \A j \in JobsOfPipeline(p) : Untouched(j)

\* The jobs of the scheduler and of the runner.
SchedulerAgrees ==
    \A j \in Jobs :
        /\ submissions[j] <= 1
        /\ j \in readyJobs => runningOn[j] = "none" /\ submissions[j] = 0
        /\ runningOn[j] # "none" => submissions[j] = 1
        /\ jobEnd[j] # "none" => runningOn[j] # "none"

\* Workflows follow their jobs and conclusions their workflows, and the cascade
\* knows two outcomes.
RowsAgree ==
    /\ \A j \in Jobs : jobStatus[j] \in { "incomplete", "succeeded", "failed" }
    /\ WorkflowsFollowJobs(jobStatus, workflowStatus)
    /\ ConclusionsFollowWorkflows(workflowStatus, conclusion)

\* A pipeline that a job is about to report is concluded, and one that is about
\* to be shown as pending is in the database.
ReportsAgree ==
    /\ \A j \in Jobs : jobEnd[j] = "report" => conclusion[PipelineOfJob(j)] # "incomplete"
    /\ pending \subseteq launched

\* Errors in a configuration are on the commit before the rest is launched.
ErrorsFirst ==
    "forge" \notin faults =>
        \A p \in Invalid : webhook[p] \in { "launch", "schedule" } \/ p \in launched =>
            CommitOf[p] \in validation

IInv ==
    /\ TypeOK
    /\ DeliveriesAgree
    /\ SchedulerAgrees
    /\ RowsAgree
    /\ ReportsAgree
    /\ ErrorsFirst
    /\ IncompleteAccountedFor
    /\ StatusIsTrue

-----------------------------------------------------------------------------
(* Operators.                                                              *)

\* The one runner is the only one a job can be given to.
LEMMA FirstFitIsDefault ==
    ASSUME NEW j, Sched!Fits(j) # {}
    PROVE  Sched!FirstFit(j) = "default"
<1>1. CASE ~HasRunner
  BY <1>1 DEF Sched!Fits, Sched!Runners
<1>2. CASE HasRunner
  <2>1. DOMAIN Sched!Runners = 1 .. 1 /\ Sched!Runners[1].name = "default"
    BY <1>2 DEF Sched!Runners
  <2>2. Sched!Fits(j) = { 1 }
    BY <2>1 DEF Sched!Fits
  <2>3. \A i \in Sched!Fits(j) : \A k \in Sched!Fits(j) : i <= k
    BY <2>2
  <2>4. (CHOOSE i \in Sched!Fits(j) : \A k \in Sched!Fits(j) : i <= k) = 1
    BY <2>2, <2>3
  <2> QED
    BY <2>1, <2>4 DEF Sched!FirstFit
<1> QED
  BY <1>1, <1>2

\* tryScheduleNow: a job of the queue stays there, when no runner takes it, or
\* is submitted once more; every other job is left as it was.
LEMMA TryScheduleNowEffect ==
    ASSUME NEW ready \in SUBSET Jobs, NEW running \in [Jobs -> { "none", "default" }],
           submissions \in [Jobs -> Nat],
           Sched!TryScheduleNow(ready, running)
    PROVE  /\ readyJobs' \subseteq ready
           /\ runningOn' \in [Jobs -> { "none", "default" }]
           /\ submissions' \in [Jobs -> Nat]
           /\ \A j \in Jobs :
                  \/ /\ j \in ready /\ j \notin readyJobs'
                     /\ runningOn'[j] = "default" /\ submissions'[j] = submissions[j] + 1
                  \/ /\ j \in ready <=> j \in readyJobs'
                     /\ runningOn'[j] = running[j] /\ submissions'[j] = submissions[j]
  BY FirstFitIsDefault DEF Sched!TryScheduleNow

\* An atomic completion in the vocabulary of this module
\* (the instance of PipelineCascade brings its own copies of PipelineRuns).
LEMMA CompleteDef ==
    ASSUME NEW j, NEW s
    PROVE  Rows!Complete(j, s) <=>
        /\ jobStatus[j] = "incomplete"
        /\ jobStatus' = [jobStatus EXCEPT ![j] = StatusFor(s)]
        /\ workflowStatus' =
               IF AllJobsComplete(jobStatus', WorkflowOf[j])
               THEN [workflowStatus EXCEPT ![WorkflowOf[j]] =
                        StatusFor(WorkflowSucceeded(jobStatus', WorkflowOf[j]))]
               ELSE workflowStatus
        /\ conclusion' =
               IF AllWorkflowsComplete(workflowStatus', PipelineOfJob(j))
               THEN [conclusion EXCEPT ![PipelineOfJob(j)] =
                        StatusFor(AllWorkflowsSucceeded(workflowStatus', PipelineOfJob(j)))]
               ELSE conclusion
  BY DEF Rows!Complete, Rows!Settle, Rows!Conclude,
         Rows!AllJobsComplete, AllJobsComplete, Rows!WorkflowSucceeded,
         WorkflowSucceeded, Rows!AllWorkflowsComplete, AllWorkflowsComplete,
         Rows!AllWorkflowsSucceeded, AllWorkflowsSucceeded, Rows!JobsOf, JobsOf,
         Rows!WorkflowsOf, WorkflowsOf, Rows!StatusFor, StatusFor,
         Rows!PipelineOfJob, PipelineOfJob, Rows!Unsuccessful, Unsuccessful

\* The rows' types, in the same vocabulary.
LEMMA RowTypes ==
    Rows!TypeOK <=>
        /\ jobStatus \in [Jobs -> JobRunStatus]
        /\ workflowStatus \in [Workflows -> WorkflowRunStatus]
        /\ conclusion \in [Pipelines -> { "incomplete", "succeeded", "failed" }]
  BY DEF Rows!TypeOK, Rows!JobRunStatus, JobRunStatus, Rows!WorkflowRunStatus,
         WorkflowRunStatus, Rows!Conclusion

\* What an atomic completion does to the rows.
LEMMA CompleteEffect ==
    ASSUME Rows!TypeOK, RowsAgree, NEW j \in Jobs, NEW s \in BOOLEAN, Rows!Complete(j, s)
    PROVE  /\ Rows!TypeOK' /\ RowsAgree'
           /\ jobStatus[j] = "incomplete" /\ jobStatus'[j] \in { "succeeded", "failed" }
           /\ \A k \in Jobs \ { j } : jobStatus'[k] = jobStatus[k]
           /\ \A p \in Pipelines :
                  conclusion[p] # "incomplete" => conclusion'[p] = conclusion[p]
           /\ \A p \in Pipelines : p # PipelineOfJob(j) => conclusion'[p] = conclusion[p]
           /\ conclusion' # conclusion => conclusion'[PipelineOfJob(j)] # "incomplete"
<1> DEFINE w == WorkflowOf[j]
           p == PipelineOfJob(j)
<1>0. w \in Workflows /\ p \in Pipelines
  BY Containment
<1>1. /\ jobStatus \in [Jobs -> JobRunStatus]
      /\ workflowStatus \in [Workflows -> WorkflowRunStatus]
      /\ conclusion \in [Pipelines -> { "incomplete", "succeeded", "failed" }]
  BY RowTypes
<1>2. /\ jobStatus[j] = "incomplete"
      /\ jobStatus' = [jobStatus EXCEPT ![j] = StatusFor(s)]
      /\ workflowStatus' =
             IF AllJobsComplete(jobStatus', w)
             THEN [workflowStatus EXCEPT ![w] = StatusFor(WorkflowSucceeded(jobStatus', w))]
             ELSE workflowStatus
      /\ conclusion' =
             IF AllWorkflowsComplete(workflowStatus', p)
             THEN [conclusion EXCEPT ![p] = StatusFor(AllWorkflowsSucceeded(workflowStatus', p))]
             ELSE conclusion
  BY CompleteDef
<1>3. Rows!TypeOK'
  <2>1. jobStatus' \in [Jobs -> JobRunStatus]
    BY <1>1, <1>2 DEF StatusFor, JobRunStatus
  <2>2. workflowStatus' \in [Workflows -> WorkflowRunStatus]
    BY <1>1, <1>2 DEF StatusFor, WorkflowRunStatus
  <2>3. conclusion' \in [Pipelines -> { "incomplete", "succeeded", "failed" }]
    BY <1>1, <1>2 DEF StatusFor
  <2> QED
    BY <2>1, <2>2, <2>3
       DEF Rows!TypeOK, Rows!JobRunStatus, JobRunStatus, Rows!WorkflowRunStatus,
           WorkflowRunStatus, Rows!Conclusion
<1>4. /\ jobStatus'[j] \in { "succeeded", "failed" }
      /\ \A k \in Jobs \ { j } : jobStatus'[k] = jobStatus[k]
  BY <1>1, <1>2 DEF StatusFor
<1>5. conclusion[p] = "incomplete"
  BY <1>2, OpenUntilComplete DEF RowsAgree
<1>6. /\ \A q \in Pipelines : conclusion[q] # "incomplete" => conclusion'[q] = conclusion[q]
      /\ \A q \in Pipelines : q # p => conclusion'[q] = conclusion[q]
      /\ conclusion' # conclusion => conclusion'[p] # "incomplete"
  <2>1. CASE AllWorkflowsComplete(workflowStatus', p)
    <3>1. /\ conclusion'[p] \in { "succeeded", "failed" }
          /\ \A q \in Pipelines \ { p } : conclusion'[q] = conclusion[q]
      BY <1>0, <1>1, <1>2, <2>1 DEF StatusFor
    <3> QED
      BY <1>5, <3>1
  <2>2. CASE ~AllWorkflowsComplete(workflowStatus', p)
    BY <1>2, <2>2
  <2> QED
    BY <2>1, <2>2
<1>7. /\ WorkflowsFollowJobs(jobStatus', workflowStatus')
      /\ ConclusionsFollowWorkflows(workflowStatus', conclusion')
  <2>1. /\ WorkflowsFollowJobs(jobStatus, workflowStatus)
        /\ ConclusionsFollowWorkflows(workflowStatus, conclusion)
    BY DEF RowsAgree
  <2>2. \A jobs2, workflows2, conclusions2 :
            /\ jobs2 = [jobStatus EXCEPT ![j] = StatusFor(s)]
            /\ workflows2 =
                   IF AllJobsComplete(jobs2, w)
                   THEN [workflowStatus EXCEPT ![w] = StatusFor(WorkflowSucceeded(jobs2, w))]
                   ELSE workflowStatus
            /\ conclusions2 =
                   IF AllWorkflowsComplete(workflows2, p)
                   THEN [conclusion EXCEPT ![p] = StatusFor(AllWorkflowsSucceeded(workflows2, p))]
                   ELSE conclusion
            => WorkflowsFollowJobs(jobs2, workflows2)
               /\ ConclusionsFollowWorkflows(workflows2, conclusions2)
    BY <1>1, <1>2, <2>1, CompletionKeepsAgreement
  <2> QED
    BY <1>2, <2>2
<1>8. RowsAgree'
  BY <1>4, <1>7 DEF RowsAgree
<1> QED
  BY <1>2, <1>3, <1>4, <1>6, <1>8

-----------------------------------------------------------------------------
(* It holds initially.                                                     *)

LEMMA InitIInv == Init => IInv
<1> SUFFICES ASSUME Init PROVE IInv
  OBVIOUS
<1> USE DEF Init
<1>1. Rows!TypeOK
  BY DEF Rows!Init, Rows!TypeOK, Rows!JobRunStatus, Rows!WorkflowRunStatus, Rows!Conclusion
<1>2. Sched!TypeOK
  BY DEF Sched!Init, Sched!TypeOK
<1>3. TypeOK
  <2>1. crashes \in 0 .. MaxCrashes
    BY ExecutionAssumption
  <2>2. commitStatus \in [Commits -> Status \cup { NoStatus }]
    OBVIOUS
  <2> QED
    BY <1>1, <1>2, <2>1, <2>2 DEF TypeOK
<1>4. DeliveriesAgree
  BY DEF DeliveriesAgree, Untouched, JobsOfPipeline, Rows!Init, Sched!Init
<1>5. SchedulerAgrees
  <2>1. ASSUME NEW j \in Jobs
        PROVE  /\ submissions[j] <= 1 /\ j \notin readyJobs
               /\ runningOn[j] = "none" /\ jobEnd[j] = "none"
    <3>1. submissions = [k \in Jobs |-> 0] /\ runningOn = [k \in Jobs |-> "none"]
          /\ readyJobs = {} /\ jobEnd = [k \in Jobs |-> "none"]
      BY DEF Sched!Init
    <3>2. submissions[j] = 0 /\ runningOn[j] = "none" /\ jobEnd[j] = "none"
      BY <3>1, Zenon
    <3> QED
      BY <3>1, <3>2
  <2> QED
    BY <2>1 DEF SchedulerAgrees
<1>6. RowsAgree
  <2>1. \A w \in Workflows : AllJobsComplete(jobStatus, w) => JobsOf(w) = {}
    BY DEF AllJobsComplete, JobsOf, Rows!Init
  <2>2. \A p \in Pipelines : AllWorkflowsComplete(workflowStatus, p) => WorkflowsOf(p) = {}
    BY DEF AllWorkflowsComplete, WorkflowsOf, Rows!Init
  <2> QED
    BY <2>1, <2>2 DEF RowsAgree, WorkflowsFollowJobs, ConclusionsFollowWorkflows, Rows!Init
<1>7. ReportsAgree /\ ErrorsFirst /\ IncompleteAccountedFor
  BY ExecutionAssumption DEF ReportsAgree, ErrorsFirst, IncompleteAccountedFor
<1>8. StatusIsTrue
  BY DEF StatusIsTrue
<1> QED
  BY <1>3, <1>4, <1>5, <1>6, <1>7, <1>8 DEF IInv

-----------------------------------------------------------------------------
(* What a step leaves alone stays true.                                    *)

LEMMA RowsFrame ==
    ASSUME IInv, UNCHANGED rows
    PROVE  Rows!TypeOK' /\ RowsAgree'
<1>1. Rows!TypeOK'
  BY DEF IInv, TypeOK, Rows!TypeOK, rows
<1>2. RowsAgree'
  BY DEF IInv, RowsAgree, rows
<1> QED
  BY <1>1, <1>2

LEMMA SchedulerFrame ==
    ASSUME IInv, UNCHANGED scheduler
    PROVE  Sched!TypeOK'
  BY DEF IInv, TypeOK, Sched!TypeOK, scheduler

\* A status that is true stays so while completed jobs stay as they are.
LEMMA StatusFrame ==
    ASSUME IInv, UNCHANGED commitStatus, launched \subseteq launched',
           \A j \in Jobs : jobStatus[j] # "incomplete" => jobStatus'[j] = jobStatus[j]
    PROVE  StatusIsTrue'
<1> SUFFICES ASSUME NEW c \in Commits, commitStatus'[c] # NoStatus
             PROVE  LET p == commitStatus'[c].run
                        ended == \A j \in JobsOfPipeline(p) : jobStatus'[j] # "incomplete"
                        passed == \A j \in JobsOfPipeline(p) : jobStatus'[j] = "succeeded"
                    IN  /\ p \in launched'
                        /\ commitStatus'[c].state = "success" => passed
                        /\ commitStatus'[c].state = "failure" => ended /\ ~passed
  BY DEF StatusIsTrue
<1> DEFINE p == commitStatus[c].run
<1>1. /\ p \in launched
      /\ commitStatus[c].state = "success" => \A j \in JobsOfPipeline(p) : jobStatus[j] = "succeeded"
      /\ commitStatus[c].state = "failure" =>
             /\ \A j \in JobsOfPipeline(p) : jobStatus[j] # "incomplete"
             /\ ~ \A j \in JobsOfPipeline(p) : jobStatus[j] = "succeeded"
  BY DEF IInv, StatusIsTrue
<1> QED
  BY <1>1 DEF JobsOfPipeline

-----------------------------------------------------------------------------
(* Every step keeps it: a delivery's handler.                              *)

\* Before the launch only the handler, and what it tells the forge, move.
LEMMA BeforeLaunchStep ==
    ASSUME IInv, UNCHANGED faults, NEW p \in Pipelines,
           \/ Receive(p) \/ FetchConfig(p) \/ FetchConfigFails(p) \/ FetchFilesFails(p)
           \/ ReportErrors(p) \/ ReportErrorsFails(p) \/ LaunchFails(p)
    PROVE  IInv'
<1>1. /\ UNCHANGED << launched, rows, scheduler, jobEnd, pending, commitStatus, history >>
      /\ validation \subseteq validation' /\ validation' \subseteq Commits
  BY ExecutionAssumption
     DEF Receive, FetchConfig, FetchConfigFails, FetchFilesFails, ReportErrors,
         ReportErrorsFails, LaunchFails, forge, IInv, TypeOK
<1>2. /\ webhook[p] \in { "none", "fetchConfig", "reportErrors", "launch" }
      /\ \E to \in { "fetchConfig", "reportErrors", "launch", "failed" } :
             webhook' = [webhook EXCEPT ![p] = to]
  BY DEF Receive, FetchConfig, FetchConfigFails, FetchFilesFails, ReportErrors,
         ReportErrorsFails, LaunchFails, Handle
<1>3. p \notin launched /\ \A j \in JobsOfPipeline(p) : Untouched(j)
  BY <1>2 DEF IInv, DeliveriesAgree
<1>4. TypeOK'
  <2>1. webhook' \in [Pipelines -> { "none", "fetchConfig", "reportErrors", "launch",
                                     "schedule", "done", "failed" }]
    BY <1>2 DEF IInv, TypeOK
  <2> QED
    BY <1>1, <2>1, RowsFrame, SchedulerFrame DEF IInv, TypeOK, history
<1>5. \A q \in Pipelines \ { p } : webhook'[q] = webhook[q]
  BY <1>2 DEF IInv, TypeOK
<1>6. webhook'[p] \in { "fetchConfig", "reportErrors", "launch", "failed" }
  BY <1>2 DEF IInv, TypeOK
<1>7. DeliveriesAgree'
  BY <1>1, <1>3, <1>5, <1>6
     DEF IInv, DeliveriesAgree, Untouched, rows, scheduler, history
<1>8. SchedulerAgrees' /\ ReportsAgree'
  BY <1>1 DEF IInv, SchedulerAgrees, ReportsAgree, rows, scheduler
<1>9. ErrorsFirst'
  <2> SUFFICES ASSUME "forge" \notin faults, NEW q \in Invalid,
                      webhook'[q] \in { "launch", "schedule" } \/ q \in launched
               PROVE  CommitOf[q] \in validation'
    BY <1>1 DEF ErrorsFirst
  <2>1. CASE q # p
    BY <1>1, <1>5, <2>1, ExecutionAssumption DEF IInv, ErrorsFirst
  <2>2. CASE q = p
    BY <1>1, <1>3, <1>6, <2>2
       DEF IInv, TypeOK, ErrorsFirst, Receive, FetchConfig, FetchConfigFails, FetchFilesFails,
           ReportErrors, ReportErrorsFails, LaunchFails, Handle
  <2> QED
    BY <2>1, <2>2
<1>10. IncompleteAccountedFor'
  BY <1>1, <1>2, <1>3, <1>5
     DEF IInv, IncompleteAccountedFor, InHand, JobsOfPipeline, rows, scheduler, history
<1>11. StatusIsTrue'
  BY <1>1, StatusFrame DEF rows
<1> QED
  BY <1>1, <1>4, <1>7, <1>8, <1>9, <1>10, <1>11, RowsFrame, SchedulerFrame DEF IInv

\* The rows are committed: their jobs are in hand if the answer arrives, and
\* abandoned at once if it does not.
LEMMA LaunchStep ==
    ASSUME IInv, UNCHANGED faults, NEW p \in Pipelines, Launch(p) \/ LaunchAckLost(p)
    PROVE  IInv'
<1>1. /\ UNCHANGED << rows, scheduler, jobEnd, pending, forge, crashes, unshown >>
      /\ launched' = launched \cup { p }
      /\ webhook[p] = "launch"
  BY DEF Launch, LaunchAckLost, history, Handle
<1>2. \/ webhook' = [webhook EXCEPT ![p] = "schedule"] /\ abandoned' = abandoned
      \/ webhook' = [webhook EXCEPT ![p] = "failed"] /\ abandoned' = abandoned \cup JobsOfPipeline(p)
  BY DEF Launch, LaunchAckLost, history, Handle
<1>3. p \notin launched /\ \A j \in JobsOfPipeline(p) : Untouched(j)
  BY <1>1 DEF IInv, DeliveriesAgree
<1>4. TypeOK'
  <2>1. webhook' \in [Pipelines -> { "none", "fetchConfig", "reportErrors", "launch",
                                     "schedule", "done", "failed" }]
    BY <1>2 DEF IInv, TypeOK
  <2>2. launched' \subseteq Pipelines /\ abandoned' \subseteq Jobs
    BY <1>1, <1>2 DEF IInv, TypeOK, JobsOfPipeline
  <2> QED
    BY <1>1, <2>1, <2>2, RowsFrame, SchedulerFrame DEF IInv, TypeOK, forge
<1>5. \A q \in Pipelines \ { p } : webhook'[q] = webhook[q]
  BY <1>2 DEF IInv, TypeOK
<1>6. \/ webhook'[p] = "schedule" /\ abandoned' = abandoned
      \/ webhook'[p] = "failed" /\ abandoned' = abandoned \cup JobsOfPipeline(p)
  BY <1>2 DEF IInv, TypeOK
<1>7. \A j \in Jobs : PipelineOfJob(j) # p => (j \in abandoned' <=> j \in abandoned)
  BY <1>6 DEF JobsOfPipeline
<1>8. DeliveriesAgree'
  <2> SUFFICES ASSUME NEW q \in Pipelines
               PROVE  /\ webhook'[q] \in { "none", "fetchConfig", "reportErrors", "launch" } =>
                             q \notin launched'
                      /\ webhook'[q] \in { "schedule", "done" } => q \in launched'
                      /\ q \notin launched' \/ webhook'[q] = "schedule" =>
                             \A j \in JobsOfPipeline(q) : Untouched(j)'
    BY DEF DeliveriesAgree
  <2>1. CASE q # p
    BY <1>1, <1>5, <1>7, <2>1
       DEF IInv, DeliveriesAgree, Untouched, JobsOfPipeline, rows, scheduler
  <2>2. CASE q = p
    BY <1>1, <1>3, <1>6, <2>2
       DEF IInv, DeliveriesAgree, Untouched, JobsOfPipeline, rows, scheduler
  <2> QED
    BY <2>1, <2>2
<1>9. SchedulerAgrees' /\ ReportsAgree'
  BY <1>1 DEF IInv, SchedulerAgrees, ReportsAgree, rows, scheduler
<1>10. ErrorsFirst'
  BY <1>1, <1>5, ExecutionAssumption DEF IInv, ErrorsFirst, forge
<1>11. IncompleteAccountedFor'
  <2> SUFFICES ASSUME NEW q \in launched', NEW j \in JobsOfPipeline(q)
               PROVE  IF jobStatus'[j] = "incomplete" THEN InHand(j)' <=> j \notin abandoned'
                                                      ELSE ~InHand(j)' /\ j \notin abandoned'
    BY DEF IncompleteAccountedFor
  <2>1. CASE q # p
    BY <1>1, <1>5, <1>7, <2>1
       DEF IInv, TypeOK, IncompleteAccountedFor, InHand, JobsOfPipeline, rows, scheduler
  <2>2. CASE q = p
    BY <1>1, <1>3, <1>6, <2>2 DEF Untouched, InHand, JobsOfPipeline, rows, scheduler
  <2> QED
    BY <2>1, <2>2
<1>12. StatusIsTrue'
  BY <1>1, StatusFrame DEF rows, forge
<1> QED
  BY <1>1, <1>4, <1>8, <1>9, <1>10, <1>11, <1>12, RowsFrame, SchedulerFrame DEF IInv

\* The jobs of the pipeline, and no others, enter the queue and are submitted if
\* a runner takes them.
LEMMA ScheduleStep ==
    ASSUME IInv, UNCHANGED faults, NEW p \in Pipelines, Schedule(p)
    PROVE  IInv'
<1> DEFINE ready == readyJobs \cup JobsOfPipeline(p)
<1>1. /\ UNCHANGED << launched, rows, jobEnd, forge, history >>
      /\ webhook[p] = "schedule" /\ webhook' = [webhook EXCEPT ![p] = "done"]
      /\ pending' = pending \cup { p }
      /\ workflowInfo' = workflowInfo \cup WorkflowsOf(p)
  BY DEF Schedule, Handle, Sched!ScheduleAll
<1>2. p \in launched /\ \A j \in JobsOfPipeline(p) : Untouched(j)
  BY <1>1 DEF IInv, DeliveriesAgree
<1>3. Sched!TryScheduleNow(ready, runningOn)
  <2>1. { j \in Jobs : WorkflowOf[j] \in WorkflowsOf(p) } = JobsOfPipeline(p)
    BY ForeignKeys DEF WorkflowsOf, JobsOfPipeline, PipelineOfJob
  <2> QED
    BY <2>1 DEF Schedule, Sched!ScheduleAll
<1>4. /\ ready \in SUBSET Jobs /\ runningOn \in [Jobs -> { "none", "default" }]
      /\ submissions \in [Jobs -> Nat]
  BY DEF IInv, TypeOK, Sched!TypeOK, JobsOfPipeline
<1> HIDE DEF ready
<1>5. /\ readyJobs' \subseteq ready
      /\ runningOn' \in [Jobs -> { "none", "default" }]
      /\ submissions' \in [Jobs -> Nat]
      /\ \A j \in Jobs :
             \/ /\ j \in ready /\ j \notin readyJobs'
                /\ runningOn'[j] = "default" /\ submissions'[j] = submissions[j] + 1
             \/ /\ j \in ready <=> j \in readyJobs'
                /\ runningOn'[j] = runningOn[j] /\ submissions'[j] = submissions[j]
  BY <1>3, <1>4, TryScheduleNowEffect
<1>6. webhook'[p] = "done" /\ \A q \in Pipelines \ { p } : webhook'[q] = webhook[q]
  BY <1>1 DEF IInv, TypeOK
<1>7. TypeOK'
  <2>1. webhook' \in [Pipelines -> { "none", "fetchConfig", "reportErrors", "launch",
                                     "schedule", "done", "failed" }]
    BY <1>1 DEF IInv, TypeOK
  <2>2. Sched!TypeOK'
    BY <1>1, <1>4, <1>5 DEF IInv, TypeOK, Sched!TypeOK, WorkflowsOf
  <2> QED
    BY <1>1, <2>1, <2>2, RowsFrame DEF IInv, TypeOK, forge, history
<1>8. \A j \in Jobs : PipelineOfJob(j) # p => (j \in ready <=> j \in readyJobs)
  BY DEF ready, JobsOfPipeline
<1>9. \A j \in ready : runningOn[j] = "none" /\ submissions[j] = 0 /\ jobEnd[j] = "none"
  BY <1>2, <1>4 DEF ready, Untouched, IInv, TypeOK, SchedulerAgrees
<1>10. SchedulerAgrees'
  BY <1>1, <1>4, <1>5, <1>9 DEF IInv, SchedulerAgrees
<1>11. DeliveriesAgree'
  <2> SUFFICES ASSUME NEW q \in Pipelines, q # p, NEW j \in JobsOfPipeline(q),
                      q \notin launched \/ webhook[q] = "schedule"
               PROVE  Untouched(j)'
    BY <1>1, <1>2, <1>6 DEF IInv, DeliveriesAgree
  <2>1. Untouched(j) /\ j \in Jobs /\ PipelineOfJob(j) # p
    BY DEF IInv, DeliveriesAgree, JobsOfPipeline
  <2> QED
    BY <1>1, <1>5, <1>8, <2>1 DEF Untouched, rows, history
<1>12. ReportsAgree'
  BY <1>1, <1>2 DEF IInv, ReportsAgree, rows
<1>13. ErrorsFirst'
  BY <1>1, <1>2, <1>6 DEF IInv, ErrorsFirst, forge
<1>14. IncompleteAccountedFor'
  <2> SUFFICES ASSUME NEW q \in launched, NEW j \in JobsOfPipeline(q)
               PROVE  IF jobStatus'[j] = "incomplete" THEN InHand(j)' <=> j \notin abandoned'
                                                      ELSE ~InHand(j)' /\ j \notin abandoned'
    BY <1>1 DEF IncompleteAccountedFor
  <2>1. j \in Jobs /\ PipelineOfJob(j) = q /\ q \in Pipelines
    BY DEF JobsOfPipeline, IInv, TypeOK
  <2>2. CASE q # p
    <3>1. InHand(j)' <=> InHand(j)
      BY <1>1, <1>5, <1>6, <1>8, <1>9, <2>1, <2>2 DEF InHand
    <3> QED
      BY <1>1, <3>1 DEF IInv, IncompleteAccountedFor, rows, history
  <2>3. CASE q = p
    <3>1. j \in ready
      BY <2>3 DEF ready
    <3>2. InHand(j)'
      BY <1>1, <1>5, <1>9, <2>1, <3>1 DEF InHand
    <3> QED
      BY <1>1, <1>2, <2>3, <3>2 DEF Untouched, rows, history
  <2> QED
    BY <2>2, <2>3
<1>15. StatusIsTrue'
  BY <1>1, StatusFrame DEF rows, forge
<1> QED
  BY <1>7, <1>10, <1>11, <1>12, <1>13, <1>14, <1>15, <1>1, RowsFrame DEF IInv

-----------------------------------------------------------------------------
(* Every step keeps it: the forge and the jobs.                            *)

\* A commit that is shown as pending is shown with a run of the database.
LEMMA PendingStep ==
    ASSUME IInv, UNCHANGED faults, NEW p \in Pipelines, PendingArrives(p) \/ PendingFails(p)
    PROVE  IInv'
<1>1. /\ UNCHANGED << webhook, launched, rows, scheduler, jobEnd, validation, crashes, abandoned >>
      /\ p \in pending /\ pending' = pending \ { p }
      /\ unshown' \subseteq unshown \cup { p }
  BY DEF PendingArrives, PendingFails, forge, history
<1>2. p \in launched
  BY <1>1 DEF IInv, ReportsAgree
<1>3. \/ UNCHANGED commitStatus
      \/ commitStatus' = [commitStatus EXCEPT ![CommitOf[p]] = [state |-> "pending", run |-> p]]
  BY DEF PendingArrives, PendingFails, forge, SetStatus
<1>4. TypeOK'
  <2>1. commitStatus' \in [Commits -> Status \cup { NoStatus }]
    BY <1>3 DEF IInv, TypeOK, Status
  <2>2. pending' \subseteq Pipelines /\ unshown' \subseteq Pipelines
    BY <1>1 DEF IInv, TypeOK
  <2> QED
    BY <1>1, <2>1, <2>2, RowsFrame, SchedulerFrame DEF IInv, TypeOK
<1>5. DeliveriesAgree' /\ SchedulerAgrees' /\ IncompleteAccountedFor'
  <2>1. DeliveriesAgree'
    BY <1>1 DEF IInv, DeliveriesAgree, Untouched, rows, scheduler
  <2>2. SchedulerAgrees'
    BY <1>1 DEF IInv, SchedulerAgrees, scheduler
  <2>3. IncompleteAccountedFor'
    BY <1>1 DEF IInv, IncompleteAccountedFor, InHand, rows, scheduler
  <2> QED
    BY <2>1, <2>2, <2>3
<1>6. ReportsAgree' /\ ErrorsFirst'
  BY <1>1 DEF IInv, ReportsAgree, ErrorsFirst, rows
<1>7. StatusIsTrue'
  <2>1. CASE UNCHANGED commitStatus
    BY <1>1, <2>1, StatusFrame DEF rows
  <2>2. CASE commitStatus' = [commitStatus EXCEPT ![CommitOf[p]] = [state |-> "pending", run |-> p]]
    <3> SUFFICES ASSUME NEW c \in Commits, commitStatus'[c] # NoStatus
                 PROVE  LET q == commitStatus'[c].run
                            ended == \A j \in JobsOfPipeline(q) : jobStatus[j] # "incomplete"
                            passed == \A j \in JobsOfPipeline(q) : jobStatus[j] = "succeeded"
                        IN  /\ q \in launched
                            /\ commitStatus'[c].state = "success" => passed
                            /\ commitStatus'[c].state = "failure" => ended /\ ~passed
      BY <1>1 DEF StatusIsTrue, rows
    <3>1. CASE c = CommitOf[p]
      <4>1. commitStatus'[c] = [state |-> "pending", run |-> p]
        BY <2>2, <3>1 DEF IInv, TypeOK
      <4> QED
        BY <1>2, <4>1
    <3>2. CASE c # CommitOf[p]
      <4>1. commitStatus'[c] = commitStatus[c]
        BY <2>2, <3>2 DEF IInv, TypeOK
      <4> QED
        BY <4>1 DEF IInv, StatusIsTrue
    <3> QED
      BY <3>1, <3>2
  <2> QED
    BY <1>3, <2>1, <2>2
<1> QED
  BY <1>1, <1>4, <1>5, <1>6, <1>7, RowsFrame, SchedulerFrame DEF IInv

\* A running job ends in the database: its end is on record, whoever reports it.
LEMMA CompleteStep ==
    ASSUME IInv, UNCHANGED faults, NEW j \in Jobs, NEW s \in BOOLEAN,
           CompleteJob(j, s) \/ CompleteJobAckLost(j, s)
    PROVE  IInv'
<1>1. /\ UNCHANGED << webhook, launched, scheduler, pending, forge, crashes, abandoned >>
      /\ unshown' \subseteq unshown \cup { PipelineOfJob(j) }
      /\ Rows!Complete(j, s)
      /\ runningOn[j] # "none" /\ jobEnd[j] = "none"
  BY DEF CompleteJob, CompleteJobAckLost, EndJob, history
<1>2. \/ jobEnd' = [jobEnd EXCEPT ![j] = "return"]
      \/ jobEnd' = [jobEnd EXCEPT ![j] = "report"] /\ conclusion' # conclusion
  BY DEF CompleteJob, CompleteJobAckLost, EndJob
<1>3. /\ Rows!TypeOK' /\ RowsAgree'
      /\ jobStatus[j] = "incomplete" /\ jobStatus'[j] \in { "succeeded", "failed" }
      /\ \A k \in Jobs \ { j } : jobStatus'[k] = jobStatus[k]
      /\ \A p \in Pipelines : conclusion[p] # "incomplete" => conclusion'[p] = conclusion[p]
      /\ conclusion' # conclusion => conclusion'[PipelineOfJob(j)] # "incomplete"
  BY <1>1, CompleteEffect DEF IInv, TypeOK
<1>4. /\ \A k \in Jobs \ { j } : jobEnd'[k] = jobEnd[k]
      /\ jobEnd'[j] \in { "return", "report" }
      /\ jobEnd'[j] = "report" => conclusion' # conclusion
      /\ jobEnd' \in [Jobs -> { "none", "report", "return" }]
  BY <1>2 DEF IInv, TypeOK
<1>5. TypeOK'
  <2>1. unshown' \subseteq Pipelines
    BY <1>1, Containment DEF IInv, TypeOK
  <2> QED
    BY <1>1, <1>3, <1>4, <2>1, SchedulerFrame DEF IInv, TypeOK, forge
<1>6. PipelineOfJob(j) \in launched /\ webhook[PipelineOfJob(j)] # "schedule"
  BY <1>1, Containment DEF IInv, DeliveriesAgree, Untouched, JobsOfPipeline
<1>7. j \notin readyJobs /\ j \notin abandoned
  <2>1. InHand(j)
    BY <1>1 DEF InHand
  <2> QED
    BY <1>1, <1>3, <1>6, <2>1
       DEF IInv, SchedulerAgrees, IncompleteAccountedFor, JobsOfPipeline
<1>8. DeliveriesAgree'
  <2> SUFFICES ASSUME NEW q \in Pipelines, q \notin launched \/ webhook[q] = "schedule",
                      NEW k \in JobsOfPipeline(q)
               PROVE  Untouched(k)'
    BY <1>1 DEF IInv, DeliveriesAgree
  <2>1. k # j /\ k \in Jobs
    BY <1>6 DEF JobsOfPipeline
  <2>2. Untouched(k)
    BY DEF IInv, DeliveriesAgree
  <2> QED
    BY <1>1, <1>3, <2>1, <2>2 DEF Untouched, scheduler
<1>9. SchedulerAgrees'
  BY <1>1, <1>4 DEF IInv, SchedulerAgrees, scheduler
<1>10. ReportsAgree'
  <2> SUFFICES ASSUME NEW k \in Jobs, jobEnd'[k] = "report"
               PROVE  conclusion'[PipelineOfJob(k)] # "incomplete"
    BY <1>1 DEF IInv, ReportsAgree
  <2>1. CASE k = j
    BY <1>3, <1>4, <2>1
  <2>2. CASE k # j
    BY <1>3, <1>4, <2>2, Containment DEF IInv, ReportsAgree
  <2> QED
    BY <2>1, <2>2
<1>11. ErrorsFirst'
  BY <1>1 DEF IInv, ErrorsFirst, forge
<1>12. IncompleteAccountedFor'
  <2> SUFFICES ASSUME NEW q \in launched, NEW k \in JobsOfPipeline(q)
               PROVE  IF jobStatus'[k] = "incomplete" THEN InHand(k)' <=> k \notin abandoned
                                                      ELSE ~InHand(k)' /\ k \notin abandoned
    BY <1>1 DEF IncompleteAccountedFor
  <2>1. CASE k = j
    <3>1. ~InHand(j)'
      BY <1>1, <1>4, <1>6, <1>7 DEF InHand, scheduler
    <3> QED
      BY <1>3, <1>7, <2>1, <3>1
  <2>2. CASE k # j
    <3>1. k \in Jobs
      BY DEF JobsOfPipeline
    <3>2. InHand(k)' <=> InHand(k)
      BY <1>1, <1>4, <2>2, <3>1 DEF InHand, scheduler
    <3> QED
      BY <1>3, <2>2, <3>1, <3>2 DEF IInv, IncompleteAccountedFor
  <2> QED
    BY <2>1, <2>2
<1>13. StatusIsTrue'
  BY <1>1, <1>3, StatusFrame DEF forge
<1> QED
  BY <1>1, <1>3, <1>5, <1>8, <1>9, <1>10, <1>11, <1>12, <1>13, SchedulerFrame DEF IInv

\* Or it does not: the job is abandoned.
LEMMA CompleteFailsStep ==
    ASSUME IInv, UNCHANGED faults, NEW j \in Jobs, CompleteJobFails(j)
    PROVE  IInv'
<1>1. /\ UNCHANGED << webhook, launched, rows, scheduler, pending, forge, crashes, unshown >>
      /\ runningOn[j] # "none" /\ jobEnd[j] = "none"
      /\ jobEnd' = [jobEnd EXCEPT ![j] = "return"]
      /\ abandoned' = abandoned \cup { j }
  BY DEF CompleteJobFails, EndJob
<1>2. /\ \A k \in Jobs \ { j } : jobEnd'[k] = jobEnd[k]
      /\ jobEnd'[j] = "return"
      /\ jobEnd' \in [Jobs -> { "none", "report", "return" }]
  BY <1>1 DEF IInv, TypeOK
<1>3. TypeOK'
  <2>1. abandoned' \subseteq Jobs
    BY <1>1 DEF IInv, TypeOK
  <2> QED
    BY <1>1, <1>2, <2>1, RowsFrame, SchedulerFrame DEF IInv, TypeOK, forge
<1>4. PipelineOfJob(j) \in launched /\ webhook[PipelineOfJob(j)] # "schedule"
  BY <1>1, Containment DEF IInv, DeliveriesAgree, Untouched, JobsOfPipeline
<1>5. j \notin readyJobs /\ jobStatus[j] = "incomplete"
  <2>1. InHand(j)
    BY <1>1 DEF InHand
  <2> QED
    BY <1>1, <1>4, <2>1
       DEF IInv, SchedulerAgrees, IncompleteAccountedFor, JobsOfPipeline
<1>6. DeliveriesAgree'
  <2> SUFFICES ASSUME NEW q \in Pipelines, q \notin launched \/ webhook[q] = "schedule",
                      NEW k \in JobsOfPipeline(q)
               PROVE  Untouched(k)'
    BY <1>1 DEF IInv, DeliveriesAgree
  <2>1. k # j
    BY <1>4 DEF JobsOfPipeline
  <2>2. Untouched(k)
    BY DEF IInv, DeliveriesAgree
  <2> QED
    BY <1>1, <2>1, <2>2 DEF Untouched, rows, scheduler
<1>7. SchedulerAgrees' /\ ReportsAgree'
  BY <1>1, <1>2 DEF IInv, SchedulerAgrees, ReportsAgree, rows, scheduler
<1>8. ErrorsFirst'
  BY <1>1 DEF IInv, ErrorsFirst, forge
<1>9. IncompleteAccountedFor'
  <2> SUFFICES ASSUME NEW q \in launched, NEW k \in JobsOfPipeline(q)
               PROVE  IF jobStatus[k] = "incomplete" THEN InHand(k)' <=> k \notin abandoned'
                                                     ELSE ~InHand(k)' /\ k \notin abandoned'
    BY <1>1 DEF IncompleteAccountedFor, rows
  <2>1. CASE k = j
    BY <1>1, <1>2, <1>4, <1>5, <2>1 DEF InHand, scheduler
  <2>2. CASE k # j
    <3>1. k \in Jobs
      BY DEF JobsOfPipeline
    <3>2. InHand(k)' <=> InHand(k)
      BY <1>1, <1>2, <2>2, <3>1 DEF InHand, scheduler
    <3> QED
      BY <1>1, <2>2, <3>1, <3>2 DEF IInv, IncompleteAccountedFor
  <2> QED
    BY <2>1, <2>2
<1>10. StatusIsTrue'
  BY <1>1, StatusFrame DEF rows, forge
<1> QED
  BY <1>1, <1>3, <1>6, <1>7, <1>8, <1>9, <1>10, RowsFrame, SchedulerFrame DEF IInv

\* The verdict that a job reports is the one its pipeline has.
LEMMA ReportStep ==
    ASSUME IInv, UNCHANGED faults, NEW j \in Jobs,
           ReportConclusion(j) \/ ReportConclusionFails(j)
    PROVE  IInv'
<1> DEFINE p == PipelineOfJob(j)
           verdict == IF conclusion[p] = "succeeded" THEN "success" ELSE "failure"
<1>1. /\ UNCHANGED << webhook, launched, rows, scheduler, pending, validation,
                       crashes, abandoned >>
      /\ unshown' \subseteq unshown \cup { p }
      /\ jobEnd[j] = "report"
      /\ jobEnd' = [jobEnd EXCEPT ![j] = "return"]
  BY DEF ReportConclusion, ReportConclusionFails, forge, history
<1>2. \/ UNCHANGED commitStatus
      \/ commitStatus' = [commitStatus EXCEPT ![CommitOf[p]] = [state |-> verdict, run |-> p]]
  BY DEF ReportConclusion, ReportConclusionFails, forge, SetStatus
<1>3. /\ \A k \in Jobs \ { j } : jobEnd'[k] = jobEnd[k]
      /\ jobEnd'[j] = "return"
      /\ jobEnd' \in [Jobs -> { "none", "report", "return" }]
  BY <1>1 DEF IInv, TypeOK
<1>4. TypeOK'
  <2>1. commitStatus' \in [Commits -> Status \cup { NoStatus }]
    BY <1>2, Containment DEF IInv, TypeOK, Status
  <2>2. unshown' \subseteq Pipelines
    BY <1>1, Containment DEF IInv, TypeOK
  <2> QED
    BY <1>1, <1>3, <2>1, <2>2, RowsFrame, SchedulerFrame DEF IInv, TypeOK
<1>5. DeliveriesAgree'
  BY <1>1 DEF IInv, DeliveriesAgree, Untouched, rows, scheduler
<1>6. SchedulerAgrees' /\ ReportsAgree' /\ ErrorsFirst'
  BY <1>1, <1>3 DEF IInv, SchedulerAgrees, ReportsAgree, ErrorsFirst, rows, scheduler
<1>7. IncompleteAccountedFor'
  <2>1. \A k \in Jobs : InHand(k)' <=> InHand(k)
    BY <1>1, <1>3 DEF InHand, scheduler
  <2> QED
    BY <1>1, <2>1 DEF IInv, IncompleteAccountedFor, JobsOfPipeline, rows
<1>8. StatusIsTrue'
  <2>1. CASE UNCHANGED commitStatus
    BY <1>1, <2>1, StatusFrame DEF rows
  <2>2. CASE commitStatus' = [commitStatus EXCEPT ![CommitOf[p]] = [state |-> verdict, run |-> p]]
    <3>1. p \in Pipelines /\ conclusion[p] # "incomplete"
      BY <1>1, Containment DEF IInv, ReportsAgree
    <3>2. p \in launched
      <4>1. runningOn[j] # "none"
        BY <1>1 DEF IInv, SchedulerAgrees
      <4> QED
        BY <3>1, <4>1 DEF IInv, DeliveriesAgree, Untouched, JobsOfPipeline
    <3>3. /\ \A k \in JobsOfPipeline(p) : jobStatus[k] # "incomplete"
          /\ conclusion[p] = "succeeded" <=>
                 \A k \in JobsOfPipeline(p) : jobStatus[k] \notin Unsuccessful
      BY <3>1, ConclusionSpeaksForJobs DEF IInv, RowsAgree, JobsOfPipeline
    <3>4. conclusion[p] = "succeeded" <=> \A k \in JobsOfPipeline(p) : jobStatus[k] = "succeeded"
      BY <3>3 DEF IInv, RowsAgree, JobsOfPipeline, Unsuccessful
    <3> HIDE DEF p
    <3> SUFFICES ASSUME NEW c \in Commits, commitStatus'[c] # NoStatus
                 PROVE  LET q == commitStatus'[c].run
                            ended == \A k \in JobsOfPipeline(q) : jobStatus[k] # "incomplete"
                            passed == \A k \in JobsOfPipeline(q) : jobStatus[k] = "succeeded"
                        IN  /\ q \in launched
                            /\ commitStatus'[c].state = "success" => passed
                            /\ commitStatus'[c].state = "failure" => ended /\ ~passed
      BY <1>1 DEF StatusIsTrue, rows
    <3>5. CASE c = CommitOf[p]
      <4>1. commitStatus'[c] = [state |-> verdict, run |-> p]
        BY <2>2, <3>5 DEF IInv, TypeOK
      <4> QED
        BY <3>2, <3>3, <3>4, <4>1
    <3>6. CASE c # CommitOf[p]
      <4>1. commitStatus'[c] = commitStatus[c]
        BY <2>2, <3>6 DEF IInv, TypeOK
      <4> QED
        BY <4>1 DEF IInv, StatusIsTrue
    <3> QED
      BY <3>5, <3>6
  <2> QED
    BY <1>2, <2>1, <2>2
<1> QED
  BY <1>1, <1>4, <1>5, <1>6, <1>7, <1>8, RowsFrame, SchedulerFrame DEF IInv

\* The call of runJob settles, and the queue is looked at again.
LEMMA ReturnStep ==
    ASSUME IInv, UNCHANGED faults, NEW j \in Jobs, ReturnJob(j)
    PROVE  IInv'
<1> DEFINE running == [runningOn EXCEPT ![j] = "none"]
<1>1. /\ UNCHANGED << webhook, launched, rows, pending, forge, history, workflowInfo >>
      /\ jobEnd[j] = "return" /\ jobEnd' = [jobEnd EXCEPT ![j] = "none"]
      /\ runningOn[j] # "none"
      /\ Sched!TryScheduleNow(readyJobs, running)
  BY DEF ReturnJob, Sched!JobReturns
<1>2. /\ readyJobs \in SUBSET Jobs /\ running \in [Jobs -> { "none", "default" }]
      /\ submissions \in [Jobs -> Nat]
      /\ running[j] = "none" /\ \A k \in Jobs \ { j } : running[k] = runningOn[k]
  BY DEF IInv, TypeOK, Sched!TypeOK
<1> HIDE DEF running
<1>3. /\ readyJobs' \subseteq readyJobs
      /\ runningOn' \in [Jobs -> { "none", "default" }]
      /\ submissions' \in [Jobs -> Nat]
      /\ \A k \in Jobs :
             \/ /\ k \in readyJobs /\ k \notin readyJobs'
                /\ runningOn'[k] = "default" /\ submissions'[k] = submissions[k] + 1
             \/ /\ k \in readyJobs <=> k \in readyJobs'
                /\ runningOn'[k] = running[k] /\ submissions'[k] = submissions[k]
  BY <1>1, <1>2, TryScheduleNowEffect
<1>4. /\ \A k \in Jobs \ { j } : jobEnd'[k] = jobEnd[k]
      /\ jobEnd'[j] = "none"
      /\ jobEnd' \in [Jobs -> { "none", "report", "return" }]
  BY <1>1 DEF IInv, TypeOK
<1>5. \A k \in readyJobs :
          k # j /\ runningOn[k] = "none" /\ submissions[k] = 0 /\ jobEnd[k] = "none"
  BY <1>1, <1>2 DEF IInv, TypeOK, SchedulerAgrees
<1>6. TypeOK'
  <2>1. Sched!TypeOK'
    BY <1>1, <1>2, <1>3 DEF IInv, TypeOK, Sched!TypeOK
  <2> QED
    BY <1>1, <1>4, <2>1, RowsFrame DEF IInv, TypeOK, forge, history
<1>7. SchedulerAgrees'
  <2> SUFFICES ASSUME NEW k \in Jobs
               PROVE  /\ submissions'[k] <= 1
                      /\ k \in readyJobs' => runningOn'[k] = "none" /\ submissions'[k] = 0
                      /\ runningOn'[k] # "none" => submissions'[k] = 1
                      /\ jobEnd'[k] # "none" => runningOn'[k] # "none"
    BY DEF SchedulerAgrees
  <2>1. CASE k \in readyJobs
    BY <1>2, <1>3, <1>4, <1>5, <2>1
  <2>2. CASE k \notin readyJobs
    BY <1>2, <1>3, <1>4, <2>2 DEF IInv, SchedulerAgrees
  <2> QED
    BY <2>1, <2>2
<1>8. DeliveriesAgree'
  <2> SUFFICES ASSUME NEW q \in Pipelines, q \notin launched \/ webhook[q] = "schedule",
                      NEW k \in JobsOfPipeline(q)
               PROVE  Untouched(k)'
    BY <1>1 DEF IInv, DeliveriesAgree
  <2>1. Untouched(k) /\ k \in Jobs
    BY DEF IInv, DeliveriesAgree, JobsOfPipeline
  <2> QED
    BY <1>1, <1>2, <1>3, <2>1 DEF Untouched, rows, history
<1>9. ReportsAgree' /\ ErrorsFirst'
  BY <1>1, <1>4 DEF IInv, ReportsAgree, ErrorsFirst, rows, forge
<1>10. IncompleteAccountedFor'
  <2>1. ASSUME NEW k \in Jobs
        PROVE  InHand(k)' <=> InHand(k)
    <3>1. CASE k = j
      BY <1>1, <1>2, <1>3, <1>5, <3>1 DEF InHand
    <3>2. CASE k \in readyJobs
      BY <1>1, <1>3, <1>4, <1>5, <3>2 DEF InHand
    <3>3. CASE k # j /\ k \notin readyJobs
      BY <1>1, <1>2, <1>3, <1>4, <3>3 DEF InHand
    <3> QED
      BY <3>1, <3>2, <3>3
  <2> QED
    BY <1>1, <2>1 DEF IInv, IncompleteAccountedFor, JobsOfPipeline, rows, history
<1>11. StatusIsTrue'
  BY <1>1, StatusFrame DEF rows, forge
<1> QED
  BY <1>1, <1>6, <1>7, <1>8, <1>9, <1>10, <1>11, RowsFrame DEF IInv

-----------------------------------------------------------------------------
(* Every step keeps it: crashes, and all together.                         *)

\* What was in hand is abandoned, and what was on its way to the forge may
\* arrive.
LEMMA CrashStep ==
    ASSUME IInv, UNCHANGED faults, Crash
    PROVE  IInv'
<1>1. /\ UNCHANGED << launched, rows, submissions, forge >>
      /\ readyJobs' = {} /\ workflowInfo' = {}
      /\ runningOn' = [j \in Jobs |-> "none"] /\ jobEnd' = [j \in Jobs |-> "none"]
      /\ pending' \subseteq pending
      /\ crashes < MaxCrashes /\ crashes' = crashes + 1
  BY DEF Crash
<1>2. \A p \in Pipelines :
          webhook'[p] = IF webhook[p] \in InFlight THEN "failed" ELSE webhook[p]
  BY DEF Crash
<1>3. \A j \in Jobs :
          j \in abandoned' <=> PipelineOfJob(j) \in launched /\ jobStatus[j] = "incomplete"
  BY DEF Crash, Incomplete, JobsOfPipeline
<1>4. \A j \in Jobs : ~InHand(j)'
  BY <1>1, <1>2, Containment DEF InHand, InFlight
<1>5. TypeOK'
  <2>1. webhook' \in [Pipelines -> { "none", "fetchConfig", "reportErrors", "launch",
                                     "schedule", "done", "failed" }]
    BY DEF IInv, TypeOK, Crash
  <2>2. Sched!TypeOK'
    BY <1>1 DEF IInv, TypeOK, Sched!TypeOK
  <2>3. crashes' \in 0 .. MaxCrashes
    BY <1>1, ExecutionAssumption DEF IInv, TypeOK
  <2>4. abandoned' \subseteq Jobs /\ unshown' \subseteq Pipelines
    BY DEF IInv, TypeOK, Crash, Incomplete, JobsOfPipeline
  <2>5. jobEnd' \in [Jobs -> { "none", "report", "return" }] /\ pending' \subseteq Pipelines
    BY <1>1 DEF IInv, TypeOK
  <2> QED
    BY <1>1, <2>1, <2>2, <2>3, <2>4, <2>5, RowsFrame DEF IInv, TypeOK, forge
<1>6. DeliveriesAgree'
  <2> SUFFICES ASSUME NEW p \in Pipelines
               PROVE  /\ webhook'[p] \in { "none", "fetchConfig", "reportErrors", "launch" } =>
                             p \notin launched
                      /\ webhook'[p] \in { "schedule", "done" } => p \in launched
                      /\ webhook'[p] # "schedule"
                      /\ p \notin launched => \A j \in JobsOfPipeline(p) : Untouched(j)'
    BY <1>1 DEF DeliveriesAgree
  <2>1. webhook'[p] # "schedule" /\ (webhook'[p] = webhook[p] \/ webhook'[p] = "failed")
    BY <1>2 DEF InFlight
  <2>2. ASSUME p \notin launched, NEW j \in JobsOfPipeline(p)
        PROVE  Untouched(j)'
    BY <1>1, <1>3, <2>2 DEF IInv, DeliveriesAgree, Untouched, JobsOfPipeline, rows
  <2> QED
    BY <2>1, <2>2 DEF IInv, DeliveriesAgree
<1>7. SchedulerAgrees'
  BY <1>1 DEF IInv, SchedulerAgrees
<1>8. ReportsAgree' /\ ErrorsFirst'
  <2>1. ReportsAgree'
    BY <1>1 DEF IInv, ReportsAgree
  <2>2. ErrorsFirst'
    BY <1>1, <1>2, ExecutionAssumption DEF IInv, ErrorsFirst, forge, InFlight
  <2> QED
    BY <2>1, <2>2
<1>9. IncompleteAccountedFor'
  BY <1>1, <1>3, <1>4 DEF IncompleteAccountedFor, JobsOfPipeline, rows
<1>10. StatusIsTrue'
  BY <1>1, StatusFrame DEF rows, forge
<1> QED
  BY <1>1, <1>5, <1>6, <1>7, <1>8, <1>9, <1>10, RowsFrame DEF IInv

LEMMA StutterStep ==
    ASSUME IInv, UNCHANGED vars
    PROVE  IInv'
<1>1. UNCHANGED << faults, webhook, launched, rows, scheduler, jobEnd, pending,
                   commitStatus, validation, crashes, abandoned, unshown >>
  BY DEF vars, forge, history
<1>2. TypeOK'
  BY <1>1, RowsFrame, SchedulerFrame DEF IInv, TypeOK
<1>3. DeliveriesAgree'
  BY <1>1 DEF IInv, DeliveriesAgree, Untouched, rows, scheduler
<1>4. SchedulerAgrees' /\ ReportsAgree' /\ ErrorsFirst'
  BY <1>1 DEF IInv, SchedulerAgrees, ReportsAgree, ErrorsFirst, rows, scheduler
<1>5. IncompleteAccountedFor'
  BY <1>1 DEF IInv, IncompleteAccountedFor, InHand, rows, scheduler
<1>6. StatusIsTrue'
  BY <1>1, StatusFrame DEF rows
<1> QED
  BY <1>1, <1>2, <1>3, <1>4, <1>5, <1>6, RowsFrame, SchedulerFrame DEF IInv

LEMMA IInvStep == IInv /\ [Next]_vars => IInv'
<1> SUFFICES ASSUME IInv, [Next]_vars
             PROVE  IInv'
  OBVIOUS
<1>1. CASE UNCHANGED vars
  BY <1>1, StutterStep
<1>2. ASSUME NEW p \in Pipelines, Delivery(p) PROVE IInv'
  BY <1>2, BeforeLaunchStep, LaunchStep, ScheduleStep, PendingStep DEF Delivery
<1>3. ASSUME NEW j \in Jobs, Job(j) PROVE IInv'
  BY <1>3, CompleteStep, ReportStep, ReturnStep DEF Job
<1>4. ASSUME UNCHANGED faults, NEW p \in Pipelines, Receive(p) PROVE IInv'
  BY <1>4, BeforeLaunchStep
<1>5. ASSUME UNCHANGED faults, Fault PROVE IInv'
  BY <1>5, BeforeLaunchStep, LaunchStep, PendingStep, CompleteStep, CompleteFailsStep, ReportStep
     DEF Fault
<1>6. ASSUME UNCHANGED faults, Crash PROVE IInv'
  BY <1>6, CrashStep
<1> QED
  BY <1>1, <1>2, <1>3, <1>4, <1>5, <1>6 DEF Next

LEMMA Invariance == Spec => []IInv
  BY InitIInv, IInvStep, PTL DEF Spec

-----------------------------------------------------------------------------
(* Theorems.                                                               *)

\* Every reachable state is well typed, across deliveries, ends and crashes.
THEOREM TypeCorrect == Spec => []TypeOK
<1>1. IInv => TypeOK
  BY DEF IInv
<1> QED
  BY <1>1, Invariance, PTL

\* migrations/002: an incomplete job is in the scheduler or the runner, about to
\* be, or abandoned: by a crash, or by a database error at the launch or at the
\* job's end.  A complete one is neither.
THEOREM IncompleteIsAccountedFor == Spec => []IncompleteAccountedFor
<1>1. IInv => IncompleteAccountedFor
  BY DEF IInv
<1> QED
  BY <1>1, Invariance, PTL

\* launchPipelineExecution: schedule() is only reached after the launch
\* transaction, so that a job a runner was given has its rows.
THEOREM OnlyPersistedJobsRun == Spec => []RunsOnlyPersisted
<1>1. IInv => RunsOnlyPersisted
  BY Containment
     DEF IInv, DeliveriesAgree, Untouched, JobsOfPipeline, RunsOnlyPersisted
<1> QED
  BY <1>1, Invariance, PTL

\* readyJobs.delete comes with the call of runJob, and a workflow is scheduled
\* by one handler only: a job is run at most once, whatever restarts there are.
THEOREM JobsAreSubmittedOnce == Spec => []SubmittedOnce
<1>1. IInv => SubmittedOnce
  BY DEF IInv, SchedulerAgrees, TypeOK, Sched!TypeOK, SubmittedOnce, Sched!SubmittedOnce
<1> QED
  BY <1>1, Invariance, PTL

\* createCommitStatus: what the forge shows is a run of the database, and a
\* verdict is that of its jobs, all of which have ended.  (A run that is shown
\* as pending may have ended too: that request is not awaited.)
THEOREM ShownStatusIsTrue == Spec => []StatusIsTrue
<1>1. IInv => StatusIsTrue
  BY DEF IInv
<1> QED
  BY <1>1, Invariance, PTL

\* parseKdlConfigs and what handleWebhook does with its errors: a run that lacks
\* a part of its configuration has that shown on its commit.
THEOREM DroppedConfigIsShown == Spec => []DroppedConfigShown
<1>1. IInv => DroppedConfigShown
  BY DEF IInv, ErrorsFirst, DroppedConfigShown
<1> QED
  BY <1>1, Invariance, PTL

\* The server as a whole implements the cascade's specification: whatever
\* happens, crashes included, the rows only change by whole completions.
THEOREM RowsChangeByCompletions == Spec => Rows!Spec
<1>1. Init => Rows!Init
  BY DEF Init
<1>2. [Next]_vars => [Rows!Next]_(Rows!vars)
  <2> SUFFICES ASSUME [Next]_vars
               PROVE  UNCHANGED rows \/ \E j \in Jobs, s \in BOOLEAN : Rows!Complete(j, s)
    BY DEF Rows!Next, Rows!vars, rows
  <2>1. CASE UNCHANGED vars
    BY <2>1 DEF vars
  <2>2. ASSUME NEW p \in Pipelines, Delivery(p) PROVE UNCHANGED rows
    BY <2>2 DEF Delivery, FetchConfig, ReportErrors, Launch, Schedule, PendingArrives
  <2>3. ASSUME NEW j \in Jobs, Job(j)
        PROVE  UNCHANGED rows \/ \E s \in BOOLEAN : Rows!Complete(j, s)
    BY <2>3 DEF Job, CompleteJob, ReportConclusion, ReturnJob
  <2>4. ASSUME NEW p \in Pipelines, Receive(p) PROVE UNCHANGED rows
    BY <2>4 DEF Receive
  <2>5. ASSUME Fault
        PROVE  UNCHANGED rows \/ \E j \in Jobs, s \in BOOLEAN : Rows!Complete(j, s)
    BY <2>5 DEF Fault, FetchConfigFails, FetchFilesFails, ReportErrorsFails, LaunchFails,
                LaunchAckLost, PendingFails, CompleteJobFails, ReportConclusionFails, CompleteJobAckLost
  <2>6. CASE Crash
    BY <2>6 DEF Crash
  <2> QED
    BY <2>1, <2>2, <2>3, <2>4, <2>5, <2>6 DEF Next
<1> QED
  BY <1>1, <1>2, PTL DEF Spec, Rows!Spec

\* A conclusion is final: no later job, delivery or restart changes it.
THEOREM ConclusionIsFinal ==
    Spec => [][ \A p \in Pipelines :
                    conclusion[p] # "incomplete" => conclusion'[p] = conclusion[p] ]_vars
<1> DEFINE Final ==
        \A p \in Pipelines : conclusion[p] # "incomplete" => conclusion'[p] = conclusion[p]
<1>1. IInv /\ [Rows!Next]_(Rows!vars) => Final
  BY CompleteEffect DEF IInv, TypeOK, Rows!Next, Rows!vars
<1>2. Rows!Spec => [][Rows!Next]_(Rows!vars)
  BY DEF Rows!Spec
<1> QED
  BY <1>1, <1>2, Invariance, RowsChangeByCompletions, PTL

\* An abandoned job has its row, is incomplete, and is nowhere in the server.
LEMMA AbandonedIsOut ==
    ASSUME IInv, NEW j \in abandoned
    PROVE  /\ j \in Jobs /\ PipelineOfJob(j) \in launched
           /\ jobStatus[j] = "incomplete" /\ ~InHand(j)
<1>1. j \in Jobs /\ PipelineOfJob(j) \in Pipelines /\ j \in JobsOfPipeline(PipelineOfJob(j))
  BY Containment DEF IInv, TypeOK, JobsOfPipeline
<1>2. PipelineOfJob(j) \in launched
  BY <1>1 DEF IInv, DeliveriesAgree, Untouched
<1> QED
  BY <1>1, <1>2 DEF IInv, IncompleteAccountedFor

LEMMA AbandonedLasts ==
    ASSUME IInv, [Next]_vars, NEW j \in abandoned
    PROVE  /\ j \in abandoned'
           /\ jobStatus'[j] = "incomplete"
           /\ submissions'[j] = submissions[j]
<1> DEFINE Lasts == /\ j \in abandoned'
                    /\ jobStatus'[j] = "incomplete"
                    /\ submissions'[j] = submissions[j]
<1>1. /\ j \in Jobs /\ PipelineOfJob(j) \in launched
      /\ jobStatus[j] = "incomplete" /\ ~InHand(j)
  BY AbandonedIsOut
<1>2. /\ readyJobs \in SUBSET Jobs /\ runningOn \in [Jobs -> { "none", "default" }]
      /\ submissions \in [Jobs -> Nat]
  BY DEF IInv, TypeOK, Sched!TypeOK
<1>3. ASSUME UNCHANGED << rows, scheduler >>, abandoned \subseteq abandoned'
      PROVE  Lasts
  BY <1>1, <1>3 DEF rows, scheduler
<1>4. ASSUME NEW p \in Pipelines, Schedule(p)
      PROVE  Lasts
  <2> DEFINE ready == readyJobs \cup { k \in Jobs : WorkflowOf[k] \in WorkflowsOf(p) }
  <2>1. ready \in SUBSET Jobs /\ Sched!TryScheduleNow(ready, runningOn)
    BY <1>2, <1>4 DEF Schedule, Sched!ScheduleAll
  <2>2. PipelineOfJob(j) # p
    BY <1>1, <1>4 DEF Schedule, Handle, InHand
  <2>3. j \notin ready
    BY <1>1, <2>2 DEF InHand, WorkflowsOf, PipelineOfJob
  <2> HIDE DEF ready
  <2>4. submissions'[j] = submissions[j]
    BY <1>1, <1>2, <2>1, <2>3, TryScheduleNowEffect
  <2> QED
    BY <1>1, <1>4, <2>4 DEF Schedule, rows, history
<1>5. ASSUME NEW k \in Jobs, ReturnJob(k)
      PROVE  Lasts
  <2> DEFINE running == [runningOn EXCEPT ![k] = "none"]
  <2>1. running \in [Jobs -> { "none", "default" }] /\ Sched!TryScheduleNow(readyJobs, running)
    BY <1>2, <1>5 DEF ReturnJob, Sched!JobReturns
  <2>2. j \notin readyJobs
    BY <1>1 DEF InHand
  <2> HIDE DEF running
  <2>3. submissions'[j] = submissions[j]
    BY <1>1, <1>2, <2>1, <2>2, TryScheduleNowEffect
  <2> QED
    BY <1>1, <1>5, <2>3 DEF ReturnJob, rows, history
<1>6. ASSUME NEW k \in Jobs, NEW s \in BOOLEAN, CompleteJob(k, s) \/ CompleteJobAckLost(k, s)
      PROVE  Lasts
  <2>1. /\ UNCHANGED << scheduler, abandoned >> /\ Rows!Complete(k, s)
        /\ runningOn[k] # "none" /\ jobEnd[k] = "none"
    BY <1>6 DEF CompleteJob, CompleteJobAckLost, EndJob, history
  <2>2. k # j
    BY <1>1, <2>1 DEF InHand
  <2>3. jobStatus'[j] = jobStatus[j]
    BY <1>1, <2>1, <2>2, CompleteEffect DEF IInv, TypeOK
  <2> QED
    BY <1>1, <2>1, <2>3 DEF scheduler
<1>7. ASSUME Crash
      PROVE  Lasts
  BY <1>1, <1>7 DEF Crash, Incomplete, JobsOfPipeline, rows
<1>8. ASSUME NEW p \in Pipelines,
             \/ Receive(p) \/ FetchConfig(p) \/ FetchConfigFails(p) \/ FetchFilesFails(p)
             \/ ReportErrors(p) \/ ReportErrorsFails(p) \/ LaunchFails(p)
             \/ Launch(p) \/ LaunchAckLost(p) \/ PendingArrives(p) \/ PendingFails(p)
      PROVE  Lasts
  <2>1. UNCHANGED << rows, scheduler >> /\ abandoned \subseteq abandoned'
    BY <1>8 DEF Receive, FetchConfig, FetchConfigFails, FetchFilesFails, ReportErrors,
                ReportErrorsFails, LaunchFails, Launch, LaunchAckLost, PendingArrives,
                PendingFails, history
  <2> QED
    BY <1>3, <2>1
<1>9. ASSUME NEW k \in Jobs,
             CompleteJobFails(k) \/ ReportConclusion(k) \/ ReportConclusionFails(k)
      PROVE  Lasts
  <2>1. UNCHANGED << rows, scheduler >> /\ abandoned \subseteq abandoned'
    BY <1>9 DEF CompleteJobFails, ReportConclusion, ReportConclusionFails, history
  <2> QED
    BY <1>3, <2>1
<1>10. ASSUME UNCHANGED vars
       PROVE  Lasts
  BY <1>3, <1>10 DEF vars, history
<1> HIDE DEF Lasts
<1>11. ASSUME NEW p \in Pipelines, Delivery(p) PROVE Lasts
  BY <1>4, <1>8, <1>11 DEF Delivery
<1>12. ASSUME NEW k \in Jobs, Job(k) PROVE Lasts
  BY <1>5, <1>6, <1>9, <1>12 DEF Job
<1>13. ASSUME Fault PROVE Lasts
  BY <1>6, <1>8, <1>9, <1>13 DEF Fault
<1>14. Lasts
  BY <1>7, <1>8, <1>10, <1>11, <1>12, <1>13 DEF Next
<1> QED
  BY <1>14 DEF Lasts

\* Nothing looks for the incomplete jobs of an earlier life: a job that was
\* abandoned stays incomplete and is never submitted again.
THEOREM AbandonedForGood ==
    Spec => [][ \A j \in abandoned :
                    /\ j \in abandoned'
                    /\ jobStatus'[j] = "incomplete"
                    /\ submissions'[j] = submissions[j] ]_vars
<1>1. IInv /\ [Next]_vars =>
          \A j \in abandoned :
              /\ j \in abandoned'
              /\ jobStatus'[j] = "incomplete"
              /\ submissions'[j] = submissions[j]
  BY AbandonedLasts
<1> QED
  BY <1>1, Invariance, PTL DEF Spec

-----------------------------------------------------------------------------
(* No verdict is lost.                                                     *)

\* The verdict on p needs no report any more.
Accounted(p) ==
    \/ conclusion[p] = "incomplete"
    \/ Reporting(p)
    \/ p \in unshown
    \/ /\ commitStatus[CommitOf[p]] # NoStatus
       /\ commitStatus[CommitOf[p]].run = p => commitStatus[CommitOf[p]] = Verdict(p)

LEMMA VerdictAccountedForDef == VerdictAccountedFor <=> \A p \in Pipelines : Accounted(p)
  BY DEF VerdictAccountedFor, Accounted

\* It needs none while nobody who is about to report it stops, and neither the
\* pipeline nor what its commit shows changes.
LEMMA AccountedFrame ==
    ASSUME NEW p \in Pipelines, Accounted(p),
           conclusion'[p] = conclusion[p],
           commitStatus'[CommitOf[p]] = commitStatus[CommitOf[p]],
           unshown \subseteq unshown',
           \A j \in JobsOfPipeline(p) : jobEnd[j] = "report" => jobEnd'[j] = "report"
    PROVE  Accounted(p)'
  BY DEF Accounted, Reporting, JobsOfPipeline, Verdict

\* A pending request takes the verdict of its own run away, which is noted, or
\* that of another, which another run's status has then replaced.
LEMMA AccountedPending ==
    ASSUME IInv, NEW q \in Pipelines, PendingArrives(q),
           NEW p \in Pipelines, Accounted(p)
    PROVE  Accounted(p)'
<1>1. /\ UNCHANGED << conclusion, jobEnd >>
      /\ commitStatus' = [commitStatus EXCEPT ![CommitOf[q]] = [state |-> "pending", run |-> q]]
      /\ unshown' = IF conclusion[q] # "incomplete" /\ ~Reporting(q)
                    THEN unshown \cup { q } ELSE unshown
  BY DEF PendingArrives, rows, SetStatus
<1>2. Reporting(p)' <=> Reporting(p)
  BY <1>1 DEF Reporting, JobsOfPipeline
<1>3. CASE p = q
  BY <1>1, <1>2, <1>3 DEF Accounted
<1>4. CASE p # q /\ CommitOf[p] = CommitOf[q]
  <2>1. commitStatus'[CommitOf[p]] = [state |-> "pending", run |-> q]
    BY <1>1, <1>4, ExecutionAssumption DEF IInv, TypeOK
  <2>2. commitStatus'[CommitOf[p]] # NoStatus /\ commitStatus'[CommitOf[p]].run # p
    BY <1>4, <2>1 DEF NoStatus
  <2> QED
    BY <2>2 DEF Accounted
<1>5. CASE CommitOf[p] # CommitOf[q]
  <2>1. commitStatus'[CommitOf[p]] = commitStatus[CommitOf[p]]
    BY <1>1, <1>5, ExecutionAssumption DEF IInv, TypeOK
  <2> QED
    BY <1>1, <2>1, AccountedFrame
<1> QED
  BY <1>3, <1>4, <1>5

\* The report shows the verdict of its pipeline, in the place of other runs'.
LEMMA AccountedReport ==
    ASSUME IInv, NEW j \in Jobs, ReportConclusion(j),
           NEW p \in Pipelines, Accounted(p)
    PROVE  Accounted(p)'
<1> DEFINE q == PipelineOfJob(j)
<1>1. /\ UNCHANGED << conclusion, unshown >>
      /\ jobEnd' = [jobEnd EXCEPT ![j] = "return"]
      /\ commitStatus' = [commitStatus EXCEPT ![CommitOf[q]] = Verdict(q)]
  BY DEF ReportConclusion, rows, history, SetStatus, Verdict
<1>2. q \in Pipelines
  BY Containment
<1>3. Verdict(q)' = Verdict(q)
  BY <1>1 DEF Verdict
<1>4. Verdict(q) # NoStatus /\ Verdict(q).run = q
  BY DEF Verdict, NoStatus
<1> HIDE DEF q
<1>5. CASE CommitOf[p] = CommitOf[q]
  <2>1. commitStatus'[CommitOf[p]] = Verdict(q)
    BY <1>1, <1>2, <1>5, ExecutionAssumption DEF IInv, TypeOK
  <2> QED
    BY <1>3, <1>4, <2>1 DEF Accounted
<1>6. CASE CommitOf[p] # CommitOf[q]
  <2>1. commitStatus'[CommitOf[p]] = commitStatus[CommitOf[p]]
    BY <1>1, <1>2, <1>6, ExecutionAssumption DEF IInv, TypeOK
  <2>2. \A k \in JobsOfPipeline(p) : jobEnd'[k] = jobEnd[k]
    BY <1>1, <1>6 DEF q, JobsOfPipeline, IInv, TypeOK
  <2> QED
    BY <1>1, <2>1, <2>2, AccountedFrame
<1> QED
  BY <1>5, <1>6

\* Where the report fails, that is noted.
LEMMA AccountedReportFails ==
    ASSUME IInv, NEW j \in Jobs, ReportConclusionFails(j),
           NEW p \in Pipelines, Accounted(p)
    PROVE  Accounted(p)'
<1>1. /\ UNCHANGED << conclusion, commitStatus >>
      /\ jobEnd' = [jobEnd EXCEPT ![j] = "return"]
      /\ unshown' = unshown \cup { PipelineOfJob(j) }
  BY DEF ReportConclusionFails, rows, forge
<1>2. CASE p = PipelineOfJob(j)
  BY <1>1, <1>2 DEF Accounted
<1>3. CASE p # PipelineOfJob(j)
  <2>1. \A k \in JobsOfPipeline(p) : jobEnd'[k] = jobEnd[k]
    BY <1>1, <1>3 DEF JobsOfPipeline, IInv, TypeOK
  <2> QED
    BY <1>1, <2>1, AccountedFrame
<1> QED
  BY <1>2, <1>3

\* The call that concludes a pipeline goes on to report it, or its answer is
\* lost and that is noted; other pipelines are left alone.
LEMMA AccountedComplete ==
    ASSUME IInv, NEW j \in Jobs, NEW s \in BOOLEAN,
           CompleteJob(j, s) \/ CompleteJobAckLost(j, s),
           NEW p \in Pipelines, Accounted(p)
    PROVE  Accounted(p)'
<1>1. /\ Rows!Complete(j, s) /\ jobEnd[j] = "none"
      /\ UNCHANGED commitStatus /\ unshown \subseteq unshown'
  BY DEF CompleteJob, CompleteJobAckLost, EndJob, forge, history
<1>2. \/ jobEnd' = [jobEnd EXCEPT ![j] = IF conclusion' # conclusion THEN "report" ELSE "return"]
      \/ /\ jobEnd' = [jobEnd EXCEPT ![j] = "return"]
         /\ conclusion' # conclusion => PipelineOfJob(j) \in unshown'
  BY DEF CompleteJob, CompleteJobAckLost, EndJob
<1>3. /\ \A q \in Pipelines : q # PipelineOfJob(j) => conclusion'[q] = conclusion[q]
      /\ conclusion' = conclusion \/ conclusion' # conclusion
  BY <1>1, CompleteEffect DEF IInv, TypeOK
<1>4. jobEnd \in [Jobs -> { "none", "report", "return" }]
  BY DEF IInv, TypeOK
<1>5. \A k \in JobsOfPipeline(p) : jobEnd[k] = "report" => jobEnd'[k] = "report"
  BY <1>1, <1>2, <1>4 DEF JobsOfPipeline
<1>6. CASE conclusion'[p] = conclusion[p]
  BY <1>1, <1>5, <1>6, AccountedFrame
<1>7. CASE conclusion'[p] # conclusion[p]
  <2>1. p = PipelineOfJob(j) /\ j \in JobsOfPipeline(p) /\ conclusion' # conclusion
    BY <1>3, <1>7 DEF JobsOfPipeline
  <2>2. CASE jobEnd' = [jobEnd EXCEPT ![j] = "report"]
    <3>1. jobEnd'[j] = "report"
      BY <1>4, <2>2
    <3> QED
      BY <2>1, <3>1 DEF Accounted, Reporting, JobsOfPipeline
  <2>3. CASE p \in unshown'
    BY <2>3 DEF Accounted
  <2> QED
    BY <1>2, <2>1, <2>2, <2>3
<1> QED
  BY <1>6, <1>7

\* A crash is the last that is seen of the reports under way.
LEMMA AccountedCrash ==
    ASSUME IInv, Crash, NEW p \in Pipelines, Accounted(p)
    PROVE  Accounted(p)'
<1>1. /\ UNCHANGED << conclusion, commitStatus >>
      /\ unshown' = unshown \cup { q \in Pipelines : Reporting(q) }
  BY DEF Crash, rows, forge
<1>2. CASE Reporting(p)
  BY <1>1, <1>2 DEF Accounted
<1>3. CASE ~Reporting(p)
  BY <1>1, <1>3 DEF Accounted, Verdict
<1> QED
  BY <1>2, <1>3

LEMMA AccountedStep ==
    ASSUME IInv, VerdictAccountedFor, [Next]_vars
    PROVE  VerdictAccountedFor'
<1> SUFFICES ASSUME NEW p \in Pipelines PROVE Accounted(p)'
  BY DEF VerdictAccountedFor, Accounted
<1>0. Accounted(p)
  BY VerdictAccountedForDef
<1>1. ASSUME UNCHANGED << conclusion, commitStatus, unshown >>,
             \A j \in Jobs : jobEnd[j] = "report" => jobEnd'[j] = "report"
      PROVE  Accounted(p)'
  BY <1>0, <1>1, AccountedFrame DEF JobsOfPipeline
<1>2. CASE UNCHANGED vars
  BY <1>1, <1>2 DEF vars, rows, forge, history
<1>3. ASSUME NEW q \in Pipelines,
             \/ Receive(q) \/ FetchConfig(q) \/ FetchConfigFails(q) \/ FetchFilesFails(q)
             \/ ReportErrors(q) \/ ReportErrorsFails(q) \/ Launch(q) \/ LaunchFails(q)
             \/ LaunchAckLost(q) \/ Schedule(q) \/ PendingFails(q)
      PROVE  Accounted(p)'
  <2>1. UNCHANGED << conclusion, commitStatus, unshown, jobEnd >>
    BY <1>3 DEF Receive, FetchConfig, FetchConfigFails, FetchFilesFails, ReportErrors,
                ReportErrorsFails, Launch, LaunchFails, LaunchAckLost, Schedule, PendingFails,
                rows, forge, history
  <2> QED
    BY <1>1, <2>1
<1>4. ASSUME NEW j \in Jobs, CompleteJobFails(j) \/ ReturnJob(j)
      PROVE  Accounted(p)'
  <2>1. /\ UNCHANGED << conclusion, commitStatus, unshown >>
        /\ jobEnd[j] # "report"
        /\ \E to \in { "none", "return" } : jobEnd' = [jobEnd EXCEPT ![j] = to]
    BY <1>4 DEF CompleteJobFails, ReturnJob, EndJob, rows, forge, history
  <2>2. \A k \in Jobs : jobEnd[k] = "report" => jobEnd'[k] = "report"
    BY <2>1 DEF IInv, TypeOK
  <2> QED
    BY <1>1, <2>1, <2>2
<1>5. ASSUME NEW q \in Pipelines, Delivery(q) PROVE Accounted(p)'
  BY <1>0, <1>3, <1>5, AccountedPending DEF Delivery
<1>6. ASSUME NEW j \in Jobs, Job(j) PROVE Accounted(p)'
  BY <1>0, <1>4, <1>6, AccountedComplete, AccountedReport DEF Job
<1>7. ASSUME Fault PROVE Accounted(p)'
  BY <1>0, <1>3, <1>4, <1>7, AccountedComplete, AccountedReportFails DEF Fault
<1>8. CASE Crash
  BY <1>0, <1>8, AccountedCrash
<1> QED
  BY <1>2, <1>3, <1>5, <1>6, <1>7, <1>8 DEF Next

\* handleJobComplete: the call that concludes a pipeline shows its verdict, which
\* then stays until another run of the commit is shown.  A commit or a report
\* without an answer, a crash before the report and the pipeline's own late
\* "pending" are the only ways to lose it.
THEOREM VerdictIsAccountedFor == Spec => []VerdictAccountedFor
<1>1. Init => VerdictAccountedFor
  BY DEF Init, Rows!Init, VerdictAccountedFor
<1>2. IInv /\ VerdictAccountedFor /\ [Next]_vars => VerdictAccountedFor'
  BY AccountedStep
<1> QED
  BY <1>1, <1>2, Invariance, PTL DEF Spec
=============================================================================
