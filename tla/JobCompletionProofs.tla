------------------------- MODULE JobCompletionProofs -------------------------
(***************************************************************************)
(* Theorems about JobCompletion, for any number of jobs, workflows and     *)
(* pipelines and any faults.                                               *)
(***************************************************************************)
EXTENDS JobCompletion, PipelineRunsProofs

\* A change of one handler's statement stays within the statements.
LEMMA GotoType ==
    ASSUME TypeOK, NEW j \in Jobs, NEW from, NEW to \in Statements,
           Goto(j, from, to)
    PROVE  pc' \in [Jobs -> Statements]
  BY DEF TypeOK, Goto

\* Publishing a transaction's writes respects the types of the rows.
LEMMA PublishType ==
    ASSUME TypeOK, NEW j \in Jobs, Publish(j)
    PROVE  /\ jobStatus' \in [Jobs -> JobRunStatus]
           /\ workflowStatus' \in [Workflows -> WorkflowRunStatus]
           /\ conclusion' \in [Pipelines -> { "incomplete", "succeeded", "failed" }]
           /\ workflowWrite' \in [Jobs -> Written]
<1>1. jobStatus' \in [Jobs -> JobRunStatus]
  BY DEF TypeOK, Publish, SeenJobs, StatusFor, JobRunStatus
<1>2. workflowStatus' \in [Workflows -> WorkflowRunStatus]
  BY DEF TypeOK, Publish, SeenWorkflows, Written, WorkflowRunStatus
<1>3. conclusion' \in [Pipelines -> { "incomplete", "succeeded", "failed" }]
  BY DEF TypeOK, Publish, Written
<1>4. workflowWrite' \in [Jobs -> Written]
  BY DEF TypeOK, Publish, Written
<1> QED
  BY <1>1, <1>2, <1>3, <1>4

\* One step of any handler, and of its environment, keeps the types.
LEMMA TypeStep ==
    ASSUME TypeOK, [Next]_vars
    PROVE  TypeOK'
<1> USE DEF TypeOK, rows, calling
<1>1. CASE UNCHANGED vars
  BY <1>1 DEF vars
<1>2. ASSUME NEW j \in Jobs, NEW s \in BOOLEAN, JobEnds(j, s)
      PROVE  TypeOK'
  <2>1. pc' \in [Jobs -> Statements]
    BY <1>2, GotoType DEF JobEnds, Statements, InTransaction, BeforeLock
  <2>2. calls' \in [Jobs -> 0 .. 2]
    BY <1>2 DEF JobEnds
  <2>3. success' \in [Jobs -> BOOLEAN]
    BY <1>2, Zenon DEF JobEnds
  <2> QED
    BY <1>2, <2>1, <2>2, <2>3 DEF JobEnds
<1>3. ASSUME NEW j \in Jobs, LockWorkflow(j) \/ ReadJobs(j)
      PROVE  TypeOK'
  <2>1. pc' \in [Jobs -> Statements]
    BY <1>3, GotoType DEF LockWorkflow, ReadJobs, Statements, InTransaction, BeforeLock
  <2> QED
    BY <1>3, <2>1 DEF LockWorkflow, ReadJobs
<1>4. ASSUME NEW j \in Jobs, JudgeWorkflow(j)
      PROVE  TypeOK'
  <2>1. pc' \in [Jobs -> Statements]
    BY <1>4, GotoType DEF JudgeWorkflow, Statements, InTransaction, BeforeLock
  <2> QED
    BY <1>4, <2>1 DEF JudgeWorkflow, StatusFor, Written
<1>5. ASSUME NEW j \in Jobs, LockPipeline(j) \/ ReadWorkflows(j)
      PROVE  TypeOK'
  <2>1. pc' \in [Jobs -> Statements]
    BY <1>5, GotoType DEF LockPipeline, ReadWorkflows, Statements, InTransaction, BeforeLock
  <2> QED
    BY <1>5, <2>1 DEF LockPipeline, ReadWorkflows
<1>6. ASSUME NEW j \in Jobs, JudgePipeline(j)
      PROVE  TypeOK'
  <2>1. pc' \in [Jobs -> Statements]
    BY <1>6, GotoType DEF JudgePipeline, Statements, InTransaction, BeforeLock
  <2> QED
    BY <1>6, <2>1 DEF JudgePipeline, StatusFor, Written
<1>7. ASSUME NEW j \in Jobs, Commit(j) \/ CommitAckLost(j)
      PROVE  TypeOK'
  <2>1. pc' \in [Jobs -> Statements]
    BY <1>7, GotoType DEF Commit, CommitAckLost, Statements
  <2>2. Publish(j)
    BY <1>7 DEF Commit, CommitAckLost
  <2>3. verdict' \in [Jobs -> Written]
    BY <1>7 DEF Commit, CommitAckLost, Written
  <2>4. UNCHANGED << faults, calls, success, commitStatus >>
    BY <1>7 DEF Commit, CommitAckLost
  <2> QED
    BY <2>1, <2>2, <2>3, <2>4, PublishType
<1>8. ASSUME NEW j \in Jobs, Report(j) \/ ReportFails(j)
      PROVE  TypeOK'
  <2>1. pc' \in [Jobs -> Statements]
    BY <1>8, GotoType DEF Report, ReportFails, Statements
  <2> QED
    BY <1>8, <2>1, ForeignKeys DEF Report, ReportFails, Written, PipelineOfJob
<1>9. ASSUME NEW j \in Jobs, Rollback(j)
      PROVE  TypeOK'
  BY <1>9 DEF Rollback, Written, Statements
<1> QED
  BY <1>1, <1>2, <1>3, <1>4, <1>5, <1>6, <1>7, <1>8, <1>9
     DEF Next, Step, Fault

\* Every reachable state is well typed: no statement of updateJobRunStatus or
\* of its callers leaves a row, a pending write or a result of another kind.
THEOREM TypeCorrect == Spec => []TypeOK
<1>1. Init => TypeOK
  BY DEF Init, TypeOK, JobRunStatus, WorkflowRunStatus, Written, Statements
<1>2. TypeOK /\ [Next]_vars => TypeOK'
  BY TypeStep
<1> QED
  BY <1>1, <1>2, PTL DEF Spec

-----------------------------------------------------------------------------
(* The committed rows.                                                     *)

\* An atomic completion in the vocabulary of this module
\* (the instance of PipelineCascade brings its own copies of PipelineRuns).
LEMMA CompleteDef ==
    ASSUME NEW j, NEW s
    PROVE  Cascade!Complete(j, s) <=>
        /\ jobStatus[j] = "incomplete"
        /\ jobStatus' = [jobStatus EXCEPT ![j] = StatusFor(s)]
        /\ workflowStatus' =
               IF AllJobsComplete(jobStatus', WorkflowOf[j])
               THEN [workflowStatus EXCEPT ![WorkflowOf[j]] =
                        StatusFor(WorkflowSucceeded(jobStatus', WorkflowOf[j]))]
               ELSE workflowStatus
        /\ conclusion' =
               IF AllWorkflowsComplete(workflowStatus', PipelineOfJob(j))
               THEN [conclusion EXCEPT ![PipelineOfJob(j)] =
                        StatusFor(AllWorkflowsSucceeded(workflowStatus', PipelineOfJob(j)))]
               ELSE conclusion
  BY DEF Cascade!Complete, Cascade!Settle, Cascade!Conclude,
         Cascade!AllJobsComplete, AllJobsComplete, Cascade!WorkflowSucceeded,
         WorkflowSucceeded, Cascade!AllWorkflowsComplete, AllWorkflowsComplete,
         Cascade!AllWorkflowsSucceeded, AllWorkflowsSucceeded, Cascade!JobsOf, JobsOf,
         Cascade!WorkflowsOf, WorkflowsOf, Cascade!StatusFor, StatusFor,
         Cascade!PipelineOfJob, PipelineOfJob, Cascade!Unsuccessful, Unsuccessful

\* A job that is already recorded has nothing left to change: committing its
\* second report leaves every row as it is.
LEMMA SecondReportIsIdle ==
    ASSUME IInv, NEW j \in Jobs, pc[j] = "commit", Publish(j),
           jobStatus[j] # "incomplete"
    PROVE  UNCHANGED rows
<1> DEFINE w == WorkflowOf[j]
           p == PipelineOfJob(j)
<1>0. /\ w \in Workflows /\ p \in Pipelines
      /\ PipelineOf[w] = p
  BY ForeignKeys DEF PipelineOfJob
<1>1. SeenJobs(j) = jobStatus
  BY DEF IInv, TypeOK, OwnOutcome, SeenJobs
<1>2. CASE workflowWrite[j] = "none"
  <2>1. verdict[j] = "none"
    BY <1>2 DEF IInv, KnowsPipeline
  <2> QED
    BY <1>1, <1>2, <2>1 DEF Publish, rows
<1>3. CASE workflowWrite[j] # "none"
  <2>1. /\ AllJobsComplete(jobStatus, w)
        /\ workflowWrite[j] = StatusFor(WorkflowSucceeded(jobStatus, w))
    BY <1>1, <1>3 DEF IInv, KnowsWorkflow
  <2>2. JobsOf(w) # {}
    BY DEF JobsOf
  <2>3. workflowStatus[w] = workflowWrite[j]
    BY <1>0, <2>1, <2>2 DEF IInv, WorkflowsAgree, WorkflowsFollowJobs
  <2>4. SeenWorkflows(j) = workflowStatus
    BY <2>3 DEF IInv, TypeOK, SeenWorkflows
  <2>5. CASE verdict[j] = "none"
    BY <1>1, <2>4, <2>5 DEF Publish, rows
  <2>6. CASE verdict[j] # "none"
    <3>1. /\ AllWorkflowsComplete(workflowStatus, p)
          /\ verdict[j] = StatusFor(AllWorkflowsSucceeded(workflowStatus, p))
      BY <1>3, <2>4, <2>6 DEF IInv, KnowsPipeline
    <3>2. WorkflowsOf(p) # {}
      BY <1>0 DEF WorkflowsOf
    <3>3. conclusion[p] = verdict[j]
      BY <1>0, <3>1, <3>2 DEF IInv, ConclusionsAgree, ConclusionsFollowWorkflows
    <3>4. conclusion' = conclusion
      BY <3>3, <2>6 DEF Publish, IInv, TypeOK
    <3> QED
      BY <1>1, <2>4, <3>4 DEF Publish, rows
  <2> QED
    BY <2>5, <2>6
<1> QED
  BY <1>2, <1>3

\* Committing the first report of a job is an atomic completion.
LEMMA FirstReportCompletes ==
    ASSUME IInv, NEW j \in Jobs, pc[j] = "commit", Publish(j),
           jobStatus[j] = "incomplete"
    PROVE  Cascade!Complete(j, success[j])
<1> DEFINE w == WorkflowOf[j]
           p == PipelineOfJob(j)
<1>0. /\ w \in Workflows /\ p \in Pipelines
      /\ PipelineOf[w] = p
      /\ w \in WorkflowsOf(p) /\ j \in JobsOf(w)
  BY ForeignKeys DEF PipelineOfJob, JobsOf, WorkflowsOf
<1>1. jobStatus' = SeenJobs(j)
  BY DEF Publish
<1>2. CASE workflowWrite[j] = "none"
  <2>1. ~AllJobsComplete(jobStatus', w)
    BY <1>1, <1>2 DEF IInv, KnowsWorkflow
  <2>2. verdict[j] = "none"
    BY <1>2 DEF IInv, KnowsPipeline
  <2>3. workflowStatus[w] = "incomplete"
    BY <1>0 DEF IInv, WorkflowsAgree, WorkflowsFollowJobs, AllJobsComplete
  <2>4. workflowStatus' = workflowStatus /\ conclusion' = conclusion
    BY <1>2, <2>2 DEF Publish
  <2>5. ~AllWorkflowsComplete(workflowStatus', p)
    BY <1>0, <2>3, <2>4 DEF AllWorkflowsComplete
  <2> QED
    BY <1>1, <2>1, <2>4, <2>5, CompleteDef DEF SeenJobs
<1>3. CASE workflowWrite[j] # "none"
  <2>1. /\ AllJobsComplete(jobStatus', w)
        /\ workflowWrite[j] = StatusFor(WorkflowSucceeded(jobStatus', w))
    BY <1>1, <1>3 DEF IInv, KnowsWorkflow
  <2>2. workflowStatus' = SeenWorkflows(j)
    BY <1>3 DEF Publish
  <2>3. CASE verdict[j] = "none"
    <3>1. ~AllWorkflowsComplete(workflowStatus', p)
      BY <1>3, <2>2, <2>3 DEF IInv, KnowsPipeline
    <3>2. conclusion' = conclusion
      BY <2>3 DEF Publish
    <3> QED
      BY <1>1, <2>1, <2>2, <3>1, <3>2, CompleteDef DEF SeenJobs, SeenWorkflows
  <2>4. CASE verdict[j] # "none"
    <3>1. /\ AllWorkflowsComplete(workflowStatus', p)
          /\ verdict[j] = StatusFor(AllWorkflowsSucceeded(workflowStatus', p))
      BY <1>3, <2>2, <2>4 DEF IInv, KnowsPipeline
    <3>2. conclusion' = [conclusion EXCEPT ![p] = verdict[j]]
      BY <2>4 DEF Publish
    <3> QED
      BY <1>1, <2>1, <2>2, <3>1, <3>2, CompleteDef DEF SeenJobs, SeenWorkflows
  <2> QED
    BY <2>3, <2>4
<1> QED
  BY <1>2, <1>3

\* An atomic completion keeps workflows and conclusions in step with the jobs.
LEMMA CompletionAgrees ==
    ASSUME TypeOK, WorkflowsAgree, ConclusionsAgree,
           NEW j \in Jobs, NEW s \in BOOLEAN, Cascade!Complete(j, s)
    PROVE  WorkflowsAgree' /\ ConclusionsAgree'
<1>1. /\ jobStatus \in [Jobs -> JobRunStatus]
      /\ workflowStatus \in [Workflows -> WorkflowRunStatus]
      /\ conclusion \in [Pipelines -> { "incomplete", "succeeded", "failed" }]
      /\ WorkflowsFollowJobs(jobStatus, workflowStatus)
      /\ ConclusionsFollowWorkflows(workflowStatus, conclusion)
  BY DEF TypeOK, WorkflowsAgree, ConclusionsAgree
<1>2. /\ jobStatus[j] = "incomplete"
      /\ jobStatus' = [jobStatus EXCEPT ![j] = StatusFor(s)]
      /\ workflowStatus' =
             IF AllJobsComplete(jobStatus', WorkflowOf[j])
             THEN [workflowStatus EXCEPT ![WorkflowOf[j]] =
                      StatusFor(WorkflowSucceeded(jobStatus', WorkflowOf[j]))]
             ELSE workflowStatus
      /\ conclusion' =
             IF AllWorkflowsComplete(workflowStatus', PipelineOfJob(j))
             THEN [conclusion EXCEPT ![PipelineOfJob(j)] =
                      StatusFor(AllWorkflowsSucceeded(workflowStatus', PipelineOfJob(j)))]
             ELSE conclusion
  BY CompleteDef
<1>3. \A jobs2, workflows2, conclusions2 :
          /\ jobs2 = [jobStatus EXCEPT ![j] = StatusFor(s)]
          /\ workflows2 =
                 IF AllJobsComplete(jobs2, WorkflowOf[j])
                 THEN [workflowStatus EXCEPT ![WorkflowOf[j]] =
                          StatusFor(WorkflowSucceeded(jobs2, WorkflowOf[j]))]
                 ELSE workflowStatus
          /\ conclusions2 =
                 IF AllWorkflowsComplete(workflows2, PipelineOfJob(j))
                 THEN [conclusion EXCEPT ![PipelineOfJob(j)] =
                          StatusFor(AllWorkflowsSucceeded(workflows2, PipelineOfJob(j)))]
                 ELSE conclusion
          => WorkflowsFollowJobs(jobs2, workflows2)
             /\ ConclusionsFollowWorkflows(workflows2, conclusions2)
  BY <1>1, <1>2, CompletionKeepsAgreement
<1>4. /\ WorkflowsFollowJobs(jobStatus', workflowStatus')
      /\ ConclusionsFollowWorkflows(workflowStatus', conclusion')
  BY <1>2, <1>3
<1> QED
  BY <1>4 DEF WorkflowsAgree, ConclusionsAgree

\* What a commit may change, and what it leaves alone.
LEMMA PublishEffect ==
    ASSUME IInv, NEW j \in Jobs, pc[j] = "commit", Publish(j)
    PROVE  /\ jobStatus'[j] = StatusFor(success[j])
           /\ \A k \in Jobs \ {j} : jobStatus'[k] = jobStatus[k]
           /\ \A w \in Workflows \ {WorkflowOf[j]} : workflowStatus'[w] = workflowStatus[w]
           /\ workflowWrite[j] = "none" => workflowStatus' = workflowStatus
           /\ \A p \in Pipelines :
                  conclusion[p] # "incomplete" => conclusion'[p] = conclusion[p]
           /\ verdict[j] # "none" => conclusion'[PipelineOfJob(j)] = verdict[j]
           /\ WorkflowsAgree' /\ ConclusionsAgree'
<1>0. WorkflowOf[j] \in Workflows /\ PipelineOfJob(j) \in Pipelines
  BY ForeignKeys DEF PipelineOfJob
<1>1. /\ jobStatus'[j] = StatusFor(success[j])
      /\ \A k \in Jobs \ {j} : jobStatus'[k] = jobStatus[k]
  BY DEF IInv, TypeOK, Publish, SeenJobs
<1>2. \A w \in Workflows \ {WorkflowOf[j]} : workflowStatus'[w] = workflowStatus[w]
  BY DEF IInv, TypeOK, Publish, SeenWorkflows
<1>3. workflowWrite[j] = "none" => workflowStatus' = workflowStatus
  BY DEF Publish
<1>4. verdict[j] # "none" => conclusion'[PipelineOfJob(j)] = verdict[j]
  BY <1>0 DEF IInv, TypeOK, Publish
<1>5. /\ \A p \in Pipelines : conclusion[p] # "incomplete" => conclusion'[p] = conclusion[p]
      /\ WorkflowsAgree' /\ ConclusionsAgree'
  <2>1. CASE jobStatus[j] # "incomplete"
    <3>1. UNCHANGED << jobStatus, workflowStatus, conclusion >>
      BY <2>1, SecondReportIsIdle DEF rows
    <3> QED
      BY <3>1 DEF IInv, WorkflowsAgree, ConclusionsAgree
  <2>2. CASE jobStatus[j] = "incomplete"
    <3>1. Cascade!Complete(j, success[j])
      BY <2>2, FirstReportCompletes
    <3>2. WorkflowsAgree' /\ ConclusionsAgree'
      BY <3>1, CompletionAgrees DEF IInv, TypeOK
    <3>3. /\ workflowStatus[WorkflowOf[j]] = "incomplete"
          /\ WorkflowOf[j] \in WorkflowsOf(PipelineOfJob(j))
      BY <1>0, <2>2
         DEF IInv, WorkflowsAgree, WorkflowsFollowJobs, AllJobsComplete, JobsOf,
             WorkflowsOf, PipelineOfJob
    <3>4. conclusion[PipelineOfJob(j)] = "incomplete"
      BY <1>0, <3>3
         DEF IInv, ConclusionsAgree, ConclusionsFollowWorkflows, AllWorkflowsComplete
    <3>5. \A p \in Pipelines \ {PipelineOfJob(j)} : conclusion'[p] = conclusion[p]
      BY DEF IInv, TypeOK, Publish
    <3> QED
      BY <3>2, <3>4, <3>5
  <2> QED
    BY <2>1, <2>2
<1> QED
  BY <1>1, <1>2, <1>3, <1>4, <1>5

-----------------------------------------------------------------------------
(* The inductive step.                                                     *)

\* A handler that a step leaves alone, with the rows, knows what it knew.
LEMMA Bystander ==
    ASSUME IInv, NEW k \in Jobs, UNCHANGED rows,
           pc'[k] = pc[k], calls'[k] = calls[k], success'[k] = success[k],
           workflowWrite'[k] = workflowWrite[k], verdict'[k] = verdict[k]
    PROVE  OwnOutcome(k)' /\ KnowsWorkflow(k)' /\ KnowsPipeline(k)'
<1>1. UNCHANGED << SeenJobs(k), SeenWorkflows(k), jobStatus, conclusion >>
  BY DEF rows, SeenJobs, SeenWorkflows
<1>2. OwnOutcome(k)'
  BY <1>1 DEF IInv, OwnOutcome
<1>3. KnowsWorkflow(k)'
  BY <1>1 DEF IInv, KnowsWorkflow
<1>4. KnowsPipeline(k)'
  BY <1>1 DEF IInv, KnowsPipeline
<1> QED
  BY <1>2, <1>3, <1>4

\* A step of job j's handler that changes no row keeps the invariant if it
\* keeps the locks exclusive and what j itself knows true.
LEMMA LocalStep ==
    ASSUME IInv, TypeOK', NEW j \in Jobs, UNCHANGED rows,
           \A k \in Jobs \ {j} :
               /\ pc'[k] = pc[k] /\ calls'[k] = calls[k] /\ success'[k] = success[k]
               /\ workflowWrite'[k] = workflowWrite[k] /\ verdict'[k] = verdict[k],
           RowLocks', OwnOutcome(j)', KnowsWorkflow(j)', KnowsPipeline(j)', Posted'
    PROVE  IInv'
<1>1. \A k \in Jobs : OwnOutcome(k)' /\ KnowsWorkflow(k)' /\ KnowsPipeline(k)'
  BY Bystander
<1>2. WorkflowsAgree' /\ ConclusionsAgree'
  BY DEF IInv, WorkflowsAgree, ConclusionsAgree, rows
<1> QED
  BY <1>1, <1>2 DEF IInv

\* Locks stay exclusive when nobody gains one.
LEMMA NoNewLock ==
    ASSUME IInv, \A k \in Jobs : /\ HoldsWorkflow(k)' => HoldsWorkflow(k)
                                 /\ HoldsPipeline(k)' => HoldsPipeline(k)
    PROVE  RowLocks'
  BY DEF IInv, RowLocks, PipelineOfJob

LEMMA JobEndsStep ==
    ASSUME IInv, TypeOK', NEW j \in Jobs, NEW s \in BOOLEAN, JobEnds(j, s)
    PROVE  IInv'
<1> USE DEF IInv
<1>1. /\ pc[j] = "idle" /\ pc'[j] = "lockWorkflow"
      /\ calls'[j] = calls[j] + 1
      /\ success'[j] = s
      /\ UNCHANGED << rows, workflowWrite, verdict, commitStatus >>
      /\ \A k \in Jobs \ {j} :
             pc'[k] = pc[k] /\ calls'[k] = calls[k] /\ success'[k] = success[k]
  BY DEF JobEnds, Goto, TypeOK
<1>2. workflowWrite[j] = "none" /\ verdict[j] = "none"
  BY <1>1 DEF KnowsWorkflow, KnowsPipeline
<1>3. RowLocks'
  <2>1. ~HoldsWorkflow(j)' /\ ~HoldsPipeline(j)'
    BY <1>1 DEF HoldsWorkflow, HoldsPipeline, BeforeLock
  <2> QED
    BY <1>1, <2>1, NoNewLock DEF HoldsWorkflow, HoldsPipeline
<1>4. OwnOutcome(j)'
  <2>1. calls'[j] # 0
    BY <1>1 DEF TypeOK
  <2>2. CASE calls[j] = 0
    BY <1>1, <2>1, <2>2 DEF OwnOutcome, rows
  <2>3. CASE calls[j] = 1 /\ ~success[j] /\ ~s
    BY <1>1, <2>1, <2>3 DEF OwnOutcome, StatusFor, rows
  <2> QED
    BY <2>2, <2>3 DEF JobEnds
<1>5. KnowsWorkflow(j)' /\ KnowsPipeline(j)'
  BY <1>1, <1>2 DEF KnowsWorkflow, KnowsPipeline
<1>6. Posted'
  BY <1>1 DEF Posted, rows
<1> QED
  BY <1>1, <1>3, <1>4, <1>5, <1>6, LocalStep

LEMMA LockWorkflowStep ==
    ASSUME IInv, TypeOK', NEW j \in Jobs, LockWorkflow(j)
    PROVE  IInv'
<1> USE DEF IInv
<1>1. /\ pc[j] = "lockWorkflow" /\ pc'[j] = "readJobs"
      /\ UNCHANGED << rows, calling, workflowWrite, verdict, commitStatus >>
      /\ \A k \in Jobs \ {j} : pc'[k] = pc[k]
  BY DEF LockWorkflow, Goto, TypeOK
<1>2. workflowWrite[j] = "none" /\ verdict[j] = "none"
  BY <1>1 DEF KnowsWorkflow, KnowsPipeline
<1>3. RowLocks'
  <2>1. ~HoldsPipeline(j)'
    BY <1>1 DEF HoldsPipeline
  <2>2. \A k \in Jobs \ {j} : /\ HoldsWorkflow(k)' <=> HoldsWorkflow(k)
                              /\ HoldsPipeline(k)' <=> HoldsPipeline(k)
    BY <1>1 DEF HoldsWorkflow, HoldsPipeline
  <2>3. \A k \in Jobs : HoldsWorkflow(k) => WorkflowOf[k] # WorkflowOf[j]
    BY DEF LockWorkflow
  <2> QED
    BY <2>1, <2>2, <2>3 DEF RowLocks, PipelineOfJob
<1>4. OwnOutcome(j)'
  BY <1>1 DEF OwnOutcome, rows, calling
<1>5. KnowsWorkflow(j)' /\ KnowsPipeline(j)'
  BY <1>1, <1>2 DEF KnowsWorkflow, KnowsPipeline
<1>6. Posted'
  BY <1>1 DEF Posted, rows
<1> QED
  BY <1>1, <1>3, <1>4, <1>5, <1>6, LocalStep DEF calling

LEMMA ReadJobsStep ==
    ASSUME IInv, TypeOK', NEW j \in Jobs, ReadJobs(j)
    PROVE  IInv'
<1> USE DEF IInv
<1> DEFINE done == AllJobsComplete(SeenJobs(j), WorkflowOf[j])
<1>1. /\ pc[j] = "readJobs"
      /\ done => pc'[j] = "judgeWorkflow"
      /\ ~done => pc'[j] = "commit"
      /\ UNCHANGED << rows, calling, workflowWrite, verdict, commitStatus >>
      /\ \A k \in Jobs \ {j} : pc'[k] = pc[k]
  BY DEF ReadJobs, Goto, TypeOK
<1>2. workflowWrite[j] = "none" /\ verdict[j] = "none"
  BY <1>1 DEF KnowsWorkflow, KnowsPipeline
<1>3. RowLocks'
  <2>1. /\ HoldsWorkflow(j)
        /\ ~HoldsPipeline(j)'
    BY <1>1, <1>2 DEF HoldsWorkflow, HoldsPipeline, InTransaction, BeforeLock
  <2> QED
    BY <1>1, <2>1, NoNewLock DEF HoldsWorkflow, HoldsPipeline
<1>4. OwnOutcome(j)'
  BY <1>1 DEF OwnOutcome, rows, calling
<1>5. UNCHANGED SeenJobs(j)
  BY <1>1 DEF SeenJobs, rows, calling
<1>6. KnowsWorkflow(j)' /\ KnowsPipeline(j)'
  BY <1>1, <1>2, <1>5 DEF KnowsWorkflow, KnowsPipeline
<1>7. Posted'
  BY <1>1 DEF Posted, rows
<1> QED
  BY <1>1, <1>3, <1>4, <1>6, <1>7, LocalStep DEF calling

LEMMA JudgeWorkflowStep ==
    ASSUME IInv, TypeOK', NEW j \in Jobs, JudgeWorkflow(j)
    PROVE  IInv'
<1> USE DEF IInv
<1>1. /\ pc[j] = "judgeWorkflow" /\ pc'[j] = "lockPipeline"
      /\ workflowWrite'[j] = StatusFor(WorkflowSucceeded(SeenJobs(j), WorkflowOf[j]))
      /\ UNCHANGED << rows, calling, verdict, commitStatus >>
      /\ \A k \in Jobs \ {j} : pc'[k] = pc[k] /\ workflowWrite'[k] = workflowWrite[k]
  BY DEF JudgeWorkflow, Goto, TypeOK
<1>2. verdict[j] = "none" /\ workflowWrite'[j] # "none"
  BY <1>1 DEF KnowsPipeline, StatusFor
<1>3. RowLocks'
  <2>1. /\ HoldsWorkflow(j)
        /\ ~HoldsPipeline(j)'
    BY <1>1 DEF HoldsWorkflow, HoldsPipeline, InTransaction, BeforeLock
  <2> QED
    BY <1>1, <2>1, NoNewLock DEF HoldsWorkflow, HoldsPipeline
<1>4. OwnOutcome(j)'
  BY <1>1 DEF OwnOutcome, rows, calling
<1>5. UNCHANGED SeenJobs(j)
  BY <1>1 DEF SeenJobs, rows, calling
<1>6. KnowsWorkflow(j)' /\ KnowsPipeline(j)'
  BY <1>1, <1>2, <1>5 DEF KnowsWorkflow, KnowsPipeline
<1>7. Posted'
  BY <1>1 DEF Posted, rows
<1> QED
  BY <1>1, <1>3, <1>4, <1>6, <1>7, LocalStep DEF calling

LEMMA LockPipelineStep ==
    ASSUME IInv, TypeOK', NEW j \in Jobs, LockPipeline(j)
    PROVE  IInv'
<1> USE DEF IInv
<1>1. /\ pc[j] = "lockPipeline" /\ pc'[j] = "readWorkflows"
      /\ UNCHANGED << rows, calling, workflowWrite, verdict, commitStatus >>
      /\ \A k \in Jobs \ {j} : pc'[k] = pc[k]
  BY DEF LockPipeline, Goto, TypeOK
<1>2. verdict[j] = "none" /\ workflowWrite[j] # "none"
  BY <1>1 DEF KnowsWorkflow, KnowsPipeline
<1>3. RowLocks'
  <2>1. HoldsWorkflow(j)
    BY <1>1 DEF HoldsWorkflow, InTransaction, BeforeLock
  <2>2. \A k \in Jobs \ {j} : /\ HoldsWorkflow(k)' <=> HoldsWorkflow(k)
                              /\ HoldsPipeline(k)' <=> HoldsPipeline(k)
    BY <1>1 DEF HoldsWorkflow, HoldsPipeline
  <2>3. \A k \in Jobs : HoldsPipeline(k) => PipelineOfJob(k) # PipelineOfJob(j)
    BY DEF LockPipeline
  <2> QED
    BY <2>1, <2>2, <2>3 DEF RowLocks, PipelineOfJob
<1>4. OwnOutcome(j)'
  BY <1>1 DEF OwnOutcome, rows, calling
<1>5. UNCHANGED SeenJobs(j)
  BY <1>1 DEF SeenJobs, rows, calling
<1>6. KnowsWorkflow(j)' /\ KnowsPipeline(j)'
  BY <1>1, <1>2, <1>5 DEF KnowsWorkflow, KnowsPipeline
<1>7. Posted'
  BY <1>1 DEF Posted, rows
<1> QED
  BY <1>1, <1>3, <1>4, <1>6, <1>7, LocalStep DEF calling

LEMMA ReadWorkflowsStep ==
    ASSUME IInv, TypeOK', NEW j \in Jobs, ReadWorkflows(j)
    PROVE  IInv'
<1> USE DEF IInv
<1> DEFINE done == AllWorkflowsComplete(SeenWorkflows(j), PipelineOfJob(j))
<1>1. /\ pc[j] = "readWorkflows"
      /\ done => pc'[j] = "judgePipeline"
      /\ ~done => pc'[j] = "commit"
      /\ UNCHANGED << rows, calling, workflowWrite, verdict, commitStatus >>
      /\ \A k \in Jobs \ {j} : pc'[k] = pc[k]
  BY DEF ReadWorkflows, Goto, TypeOK
<1>2. verdict[j] = "none" /\ workflowWrite[j] # "none"
  BY <1>1 DEF KnowsWorkflow, KnowsPipeline
<1>3. RowLocks'
  <2>1. HoldsWorkflow(j) /\ HoldsPipeline(j)
    BY <1>1 DEF HoldsWorkflow, HoldsPipeline, InTransaction, BeforeLock
  <2> QED
    BY <1>1, <2>1, NoNewLock DEF HoldsWorkflow, HoldsPipeline
<1>4. OwnOutcome(j)'
  BY <1>1 DEF OwnOutcome, rows, calling
<1>5. UNCHANGED << SeenJobs(j), SeenWorkflows(j) >>
  BY <1>1 DEF SeenJobs, SeenWorkflows, rows, calling
<1>6. KnowsWorkflow(j)' /\ KnowsPipeline(j)'
  BY <1>1, <1>2, <1>5 DEF KnowsWorkflow, KnowsPipeline, PipelineOfJob
<1>7. Posted'
  BY <1>1 DEF Posted, rows
<1> QED
  BY <1>1, <1>3, <1>4, <1>6, <1>7, LocalStep DEF calling

LEMMA JudgePipelineStep ==
    ASSUME IInv, TypeOK', NEW j \in Jobs, JudgePipeline(j)
    PROVE  IInv'
<1> USE DEF IInv
<1>1. /\ pc[j] = "judgePipeline" /\ pc'[j] = "commit"
      /\ verdict'[j] = StatusFor(AllWorkflowsSucceeded(SeenWorkflows(j), PipelineOfJob(j)))
      /\ UNCHANGED << rows, calling, workflowWrite, commitStatus >>
      /\ \A k \in Jobs \ {j} : pc'[k] = pc[k] /\ verdict'[k] = verdict[k]
  BY DEF JudgePipeline, Goto, TypeOK
<1>2. verdict'[j] # "none" /\ workflowWrite[j] # "none"
  BY <1>1 DEF KnowsWorkflow, StatusFor
<1>3. RowLocks'
  <2>1. HoldsWorkflow(j) /\ HoldsPipeline(j)
    BY <1>1 DEF HoldsWorkflow, HoldsPipeline, InTransaction, BeforeLock
  <2> QED
    BY <1>1, <2>1, NoNewLock DEF HoldsWorkflow, HoldsPipeline
<1>4. OwnOutcome(j)'
  BY <1>1 DEF OwnOutcome, rows, calling
<1>5. UNCHANGED << SeenJobs(j), SeenWorkflows(j) >>
  BY <1>1 DEF SeenJobs, SeenWorkflows, rows, calling
<1>6. KnowsWorkflow(j)' /\ KnowsPipeline(j)'
  BY <1>1, <1>2, <1>5 DEF KnowsWorkflow, KnowsPipeline, PipelineOfJob
<1>7. Posted'
  BY <1>1 DEF Posted, rows
<1> QED
  BY <1>1, <1>3, <1>4, <1>6, <1>7, LocalStep DEF calling

LEMMA ReportStep ==
    ASSUME IInv, TypeOK', NEW j \in Jobs, Report(j) \/ ReportFails(j)
    PROVE  IInv'
<1> USE DEF IInv
<1>0. PipelineOfJob(j) \in Pipelines
  BY ForeignKeys DEF PipelineOfJob
<1>1. /\ pc[j] = "report" /\ pc'[j] = "idle"
      /\ verdict'[j] = "none"
      /\ UNCHANGED << rows, calling, workflowWrite >>
      /\ \A k \in Jobs \ {j} : pc'[k] = pc[k] /\ verdict'[k] = verdict[k]
  BY DEF Report, ReportFails, Goto, TypeOK
<1>2. workflowWrite[j] = "none"
  BY <1>1 DEF KnowsWorkflow
<1>3. RowLocks'
  <2>1. ~HoldsWorkflow(j)' /\ ~HoldsPipeline(j)'
    BY <1>1 DEF HoldsWorkflow, HoldsPipeline, InTransaction, BeforeLock
  <2> QED
    BY <1>1, <2>1, NoNewLock DEF HoldsWorkflow, HoldsPipeline
<1>4. calls[j] # 0
  BY <1>1 DEF OwnOutcome
<1>5. OwnOutcome(j)'
  BY <1>1, <1>4 DEF OwnOutcome, rows, calling
<1>6. KnowsWorkflow(j)' /\ KnowsPipeline(j)'
  BY <1>1, <1>2 DEF KnowsWorkflow, KnowsPipeline
<1>7. Posted'
  <2>1. verdict[j] = conclusion[PipelineOfJob(j)] /\ verdict[j] # "none"
    BY <1>1 DEF KnowsPipeline
  <2>2. verdict[j] \in { "succeeded", "failed" }
    BY <2>1 DEF TypeOK, Written
  <2>3. CASE Report(j)
    <3>1. /\ commitStatus'[PipelineOfJob(j)] =
                 IF verdict[j] = "succeeded" THEN "success" ELSE "failure"
          /\ \A p \in Pipelines \ {PipelineOfJob(j)} : commitStatus'[p] = commitStatus[p]
      BY <1>0, <2>3 DEF Report, TypeOK
    <3> QED
      BY <1>0, <1>1, <2>1, <2>2, <3>1 DEF Posted, rows
  <2>4. CASE ReportFails(j)
    BY <1>1, <2>4 DEF ReportFails, Posted, rows
  <2> QED
    BY <2>3, <2>4
<1> QED
  BY <1>1, <1>3, <1>5, <1>6, <1>7, LocalStep DEF calling

LEMMA RollbackStep ==
    ASSUME IInv, TypeOK', NEW j \in Jobs, Rollback(j)
    PROVE  IInv'
<1> USE DEF IInv
<1>1. /\ pc[j] # "idle" /\ pc'[j] = "idle"
      /\ workflowWrite'[j] = "none" /\ verdict'[j] = "none"
      /\ UNCHANGED << rows, calling, commitStatus >>
      /\ \A k \in Jobs \ {j} :
             /\ pc'[k] = pc[k]
             /\ workflowWrite'[k] = workflowWrite[k] /\ verdict'[k] = verdict[k]
  BY DEF Rollback, TypeOK, InTransaction, BeforeLock
<1>2. RowLocks'
  <2>1. ~HoldsWorkflow(j)' /\ ~HoldsPipeline(j)'
    BY <1>1 DEF HoldsWorkflow, HoldsPipeline, InTransaction, BeforeLock
  <2> QED
    BY <1>1, <2>1, NoNewLock DEF HoldsWorkflow, HoldsPipeline
<1>3. OwnOutcome(j)'
  BY <1>1 DEF OwnOutcome, rows, calling
<1>4. KnowsWorkflow(j)' /\ KnowsPipeline(j)'
  BY <1>1 DEF KnowsWorkflow, KnowsPipeline
<1>5. Posted'
  BY <1>1 DEF Posted, rows
<1> QED
  BY <1>1, <1>2, <1>3, <1>4, <1>5, LocalStep DEF calling

\* While job j commits, what another handler k knows stays true: k either
\* holds no row of the same workflow or pipeline, or j changes none of them.
LEMMA CommitBystander ==
    ASSUME IInv, NEW j \in Jobs, pc[j] = "commit", Publish(j),
           UNCHANGED calling,
           NEW k \in Jobs, k # j,
           pc'[k] = pc[k], verdict'[k] = verdict[k]
    PROVE  OwnOutcome(k)' /\ KnowsWorkflow(k)' /\ KnowsPipeline(k)'
<1> USE DEF IInv
<1>0. /\ workflowWrite'[k] = workflowWrite[k]
      /\ success'[k] = success[k] /\ calls'[k] = calls[k]
      /\ WorkflowOf[k] \in Workflows /\ PipelineOfJob(k) \in Pipelines
  BY ForeignKeys DEF TypeOK, Publish, calling, PipelineOfJob
<1>1. OwnOutcome(k)'
  BY <1>0, PublishEffect DEF OwnOutcome
<1>2. HoldsWorkflow(j)
  BY DEF HoldsWorkflow, InTransaction, BeforeLock
<1>3. KnowsWorkflow(k)'
  <2>1. CASE WorkflowOf[k] = WorkflowOf[j]
    <3>1. ~HoldsWorkflow(k)
      BY <1>2, <2>1 DEF RowLocks
    <3>2. /\ pc[k] \notin { "judgeWorkflow", "lockPipeline", "readWorkflows",
                            "judgePipeline", "commit" }
      BY <3>1 DEF HoldsWorkflow, InTransaction, BeforeLock
    <3> QED
      BY <1>0, <3>2 DEF KnowsWorkflow
  <2>2. CASE WorkflowOf[k] # WorkflowOf[j]
    <3>1. \A i \in JobsOf(WorkflowOf[k]) : SeenJobs(k)'[i] = SeenJobs(k)[i]
      <4>1. ASSUME NEW i \in JobsOf(WorkflowOf[k])
            PROVE  SeenJobs(k)'[i] = SeenJobs(k)[i]
        <5>1. i \in Jobs /\ i # j
          BY <2>2 DEF JobsOf
        <5>2. jobStatus'[i] = jobStatus[i]
          BY <5>1, PublishEffect
        <5>3. jobStatus \in [Jobs -> JobRunStatus] /\ jobStatus' \in [Jobs -> JobRunStatus]
          BY PublishType DEF TypeOK
        <5> QED
          BY <1>0, <5>1, <5>2, <5>3 DEF SeenJobs
      <4> QED
        BY <4>1
    <3>2. /\ AllJobsComplete(SeenJobs(k)', WorkflowOf[k]) <=>
                 AllJobsComplete(SeenJobs(k), WorkflowOf[k])
          /\ WorkflowSucceeded(SeenJobs(k)', WorkflowOf[k]) <=>
                 WorkflowSucceeded(SeenJobs(k), WorkflowOf[k])
      BY <3>1 DEF AllJobsComplete, WorkflowSucceeded
    <3> QED
      BY <1>0, <3>2 DEF KnowsWorkflow, StatusFor
  <2> QED
    BY <2>1, <2>2
<1>4. CASE HoldsPipeline(k)
  <2>1. \A v \in WorkflowsOf(PipelineOfJob(k)) : workflowStatus'[v] = workflowStatus[v]
    <3>1. CASE workflowWrite[j] = "none"
      BY <3>1, PublishEffect
    <3>2. CASE workflowWrite[j] # "none"
      <4>1. HoldsPipeline(j)
        BY <3>2 DEF HoldsPipeline
      <4>2. PipelineOfJob(k) # PipelineOfJob(j)
        BY <1>4, <4>1 DEF RowLocks
      <4>3. \A v \in WorkflowsOf(PipelineOfJob(k)) : v \in Workflows \ {WorkflowOf[j]}
        BY <4>2 DEF WorkflowsOf, PipelineOfJob
      <4> QED
        BY <4>3, PublishEffect
    <3> QED
      BY <3>1, <3>2
  <2>2. \A v \in WorkflowsOf(PipelineOfJob(k)) : SeenWorkflows(k)'[v] = SeenWorkflows(k)[v]
    <3>1. /\ workflowStatus \in [Workflows -> WorkflowRunStatus]
          /\ workflowStatus' \in [Workflows -> WorkflowRunStatus]
      BY PublishType DEF TypeOK
    <3> QED
      BY <1>0, <2>1, <3>1 DEF SeenWorkflows, WorkflowsOf
  <2>3. /\ AllWorkflowsComplete(SeenWorkflows(k)', PipelineOfJob(k)) <=>
               AllWorkflowsComplete(SeenWorkflows(k), PipelineOfJob(k))
        /\ AllWorkflowsSucceeded(SeenWorkflows(k)', PipelineOfJob(k)) <=>
               AllWorkflowsSucceeded(SeenWorkflows(k), PipelineOfJob(k))
    BY <2>2 DEF AllWorkflowsComplete, AllWorkflowsSucceeded
  <2>4. pc[k] # "report"
    BY <1>4 DEF HoldsPipeline
  <2> QED
    BY <1>0, <1>1, <1>3, <2>3, <2>4 DEF KnowsPipeline, StatusFor, PipelineOfJob
<1>5. CASE ~HoldsPipeline(k)
  <2>1. pc[k] # "judgePipeline" /\ (pc[k] = "commit" => workflowWrite[k] = "none")
    BY <1>5 DEF HoldsPipeline
  <2>2. pc[k] = "report" =>
            conclusion'[PipelineOfJob(k)] = conclusion[PipelineOfJob(k)]
    <3>1. pc[k] = "report" => conclusion[PipelineOfJob(k)] # "incomplete"
      BY <1>0 DEF KnowsPipeline, TypeOK, Written
    <3> QED
      BY <1>0, <3>1, PublishEffect
  <2>3. KnowsPipeline(k)'
    BY <1>0, <2>1, <2>2 DEF KnowsPipeline, PipelineOfJob
  <2> QED
    BY <1>1, <1>3, <2>3
<1> QED
  BY <1>4, <1>5

LEMMA CommitStep ==
    ASSUME IInv, TypeOK', NEW j \in Jobs, Commit(j) \/ CommitAckLost(j)
    PROVE  IInv'
<1> USE DEF IInv
<1>0. PipelineOfJob(j) \in Pipelines
  BY ForeignKeys DEF PipelineOfJob
<1>1. /\ pc[j] = "commit" /\ Publish(j)
      /\ UNCHANGED << calling, commitStatus >>
      /\ \A k \in Jobs \ {j} : pc'[k] = pc[k] /\ verdict'[k] = verdict[k]
      /\ workflowWrite'[j] = "none"
      /\ \A k \in Jobs \ {j} : workflowWrite'[k] = workflowWrite[k]
  BY DEF Commit, CommitAckLost, Publish, Goto, TypeOK
<1>2. \/ pc'[j] = "idle" /\ verdict'[j] = "none"
      \/ pc'[j] = "report" /\ verdict'[j] = verdict[j] /\ verdict[j] # "none"
  BY DEF Commit, CommitAckLost, Goto, TypeOK
<1>3. RowLocks'
  <2>1. ~HoldsWorkflow(j)' /\ ~HoldsPipeline(j)'
    BY <1>2 DEF HoldsWorkflow, HoldsPipeline, InTransaction, BeforeLock
  <2> QED
    BY <1>1, <2>1, NoNewLock DEF HoldsWorkflow, HoldsPipeline
<1>4. OwnOutcome(j)'
  <2>1. calls[j] # 0 /\ UNCHANGED << calls, success >>
    BY <1>1 DEF OwnOutcome, calling
  <2>2. jobStatus'[j] = StatusFor(success[j])
    BY <1>1, PublishEffect
  <2> QED
    BY <2>1, <2>2 DEF OwnOutcome
<1>5. KnowsWorkflow(j)'
  BY <1>1, <1>2 DEF KnowsWorkflow
<1>6. KnowsPipeline(j)'
  <2>1. verdict[j] # "none" => conclusion'[PipelineOfJob(j)] = verdict[j]
    BY <1>1, PublishEffect
  <2> QED
    BY <1>2, <2>1 DEF KnowsPipeline, PipelineOfJob
<1>7. \A k \in Jobs : OwnOutcome(k)' /\ KnowsWorkflow(k)' /\ KnowsPipeline(k)'
  BY <1>1, <1>4, <1>5, <1>6, CommitBystander
<1>8. WorkflowsAgree' /\ ConclusionsAgree'
  BY <1>1, PublishEffect
<1>9. Posted'
  <2>1. \A p \in Pipelines : conclusion[p] # "incomplete" => conclusion'[p] = conclusion[p]
    BY <1>1, PublishEffect
  <2> QED
    BY <1>1, <2>1 DEF Posted
<1> QED
  BY <1>3, <1>7, <1>8, <1>9

-----------------------------------------------------------------------------
(* Theorems.                                                               *)

LEMMA InitIInv == Init => IInv
<1> SUFFICES ASSUME Init PROVE IInv
  OBVIOUS
<1>1. TypeOK
  BY DEF Init, TypeOK, JobRunStatus, WorkflowRunStatus, Written, Statements
<1>2. RowLocks
  BY DEF Init, RowLocks, HoldsWorkflow, HoldsPipeline, InTransaction, BeforeLock
<1>3. ASSUME NEW j \in Jobs
      PROVE  OwnOutcome(j) /\ KnowsWorkflow(j) /\ KnowsPipeline(j)
  BY DEF Init, OwnOutcome, KnowsWorkflow, KnowsPipeline
<1>4. WorkflowsAgree
  BY DEF Init, WorkflowsAgree, WorkflowsFollowJobs, AllJobsComplete, JobsOf
<1>5. ConclusionsAgree
  BY DEF Init, ConclusionsAgree, ConclusionsFollowWorkflows, AllWorkflowsComplete, WorkflowsOf
<1>6. Posted
  BY DEF Init, Posted
<1> QED
  BY <1>1, <1>2, <1>3, <1>4, <1>5, <1>6 DEF IInv

LEMMA IInvStep == IInv /\ [Next]_vars => IInv'
<1> SUFFICES ASSUME IInv, [Next]_vars PROVE IInv'
  OBVIOUS
<1>1. TypeOK'
  BY TypeStep DEF IInv
<1>2. CASE UNCHANGED vars
  <2>1. \A k \in Jobs : OwnOutcome(k)' /\ KnowsWorkflow(k)' /\ KnowsPipeline(k)'
    BY <1>2, Bystander DEF vars, rows, calling
  <2>2. RowLocks' /\ Posted' /\ WorkflowsAgree' /\ ConclusionsAgree'
    BY <1>2 DEF vars, rows, calling, IInv, RowLocks, HoldsWorkflow, HoldsPipeline,
                Posted, WorkflowsAgree, ConclusionsAgree
  <2> QED
    BY <1>1, <2>1, <2>2 DEF IInv
<1>3. ASSUME NEW j \in Jobs, NEW s \in BOOLEAN, JobEnds(j, s)
      PROVE  IInv'
  BY <1>1, <1>3, JobEndsStep
<1>4. ASSUME NEW j \in Jobs, Step(j)
      PROVE  IInv'
  BY <1>1, <1>4, LockWorkflowStep, ReadJobsStep, JudgeWorkflowStep, LockPipelineStep,
     ReadWorkflowsStep, JudgePipelineStep, CommitStep, ReportStep DEF Step
<1>5. ASSUME NEW j \in Jobs, Fault(j)
      PROVE  IInv'
  BY <1>1, <1>5, CommitStep, RollbackStep, ReportStep DEF Fault
<1> QED
  BY <1>2, <1>3, <1>4, <1>5 DEF Next

\* However many handlers run at once and whatever fails, the row locks are
\* exclusive, what an open transaction has read under them is still true, and
\* the committed rows agree with each other and with the forge.
THEOREM CascadeInvariant == Spec => []IInv
<1> QED
  BY InitIInv, IInvStep, PTL DEF Spec

\* No completion is lost, none is early: a workflow is settled exactly when
\* all of its jobs are, with their verdict (updateJobRunStatus's comment on
\* the lock of the workflow's row).
THEOREM WorkflowsNeverLag == Spec => []WorkflowsAgree
<1>1. IInv => WorkflowsAgree
  BY DEF IInv
<1> QED
  BY <1>1, CascadeInvariant, PTL

\* Exactly when all workflows of a pipeline are settled, some handler has been
\* told that the pipeline is complete, with the verdict of all of them.
THEOREM ConclusionsNeverLag == Spec => []ConclusionsAgree
<1>1. IInv => ConclusionsAgree
  BY DEF IInv
<1> QED
  BY <1>1, CascadeInvariant, PTL

\* The commit status on the forge is that of the whole pipeline: it is posted
\* after the last job and reads success only if every job succeeded.
THEOREM CommitStatusIsTrue == Spec => []CommitStatusAgrees
<1>1. IInv => CommitStatusAgrees
  <2> SUFFICES ASSUME IInv, NEW p \in Pipelines
               PROVE  /\ commitStatus[p] # "none" =>
                             /\ \A j \in Jobs : PipelineOfJob(j) = p =>
                                    jobStatus[j] # "incomplete"
                             /\ commitStatus[p] = "success" <=>
                                    \A j \in Jobs : PipelineOfJob(j) = p =>
                                       jobStatus[j] = "succeeded"
                      /\ \A j \in Jobs : pc[j] = "report" /\ PipelineOfJob(j) = p =>
                             verdict[j] = conclusion[p]
    BY DEF CommitStatusAgrees
  <2> USE DEF IInv
  <2>1. \A j \in Jobs : jobStatus[j] \in { "incomplete", "succeeded", "failed" }
    BY DEF OwnOutcome, StatusFor
  <2>2. CASE commitStatus[p] # "none"
    <3>1. /\ WorkflowsOf(p) # {} /\ AllWorkflowsComplete(workflowStatus, p)
          /\ conclusion[p] = StatusFor(AllWorkflowsSucceeded(workflowStatus, p))
      BY <2>2 DEF Posted, ConclusionsAgree, ConclusionsFollowWorkflows
    <3>2. \A w \in WorkflowsOf(p) :
             /\ JobsOf(w) # {} /\ AllJobsComplete(jobStatus, w)
             /\ workflowStatus[w] = StatusFor(WorkflowSucceeded(jobStatus, w))
      BY <3>1 DEF AllWorkflowsComplete, WorkflowsOf, WorkflowsAgree, WorkflowsFollowJobs
    <3>3. \A j \in Jobs : PipelineOfJob(j) = p =>
             WorkflowOf[j] \in WorkflowsOf(p) /\ j \in JobsOf(WorkflowOf[j])
      BY ForeignKeys DEF PipelineOfJob, WorkflowsOf, JobsOf
    <3>4. \A j \in Jobs : PipelineOfJob(j) = p => jobStatus[j] # "incomplete"
      BY <3>2, <3>3 DEF AllJobsComplete
    <3>5. CASE commitStatus[p] = "success"
      <4>1. AllWorkflowsSucceeded(workflowStatus, p)
        BY <3>1, <3>5 DEF Posted, StatusFor
      <4>2. \A w \in WorkflowsOf(p) : WorkflowSucceeded(jobStatus, w)
        BY <3>2, <4>1 DEF AllWorkflowsSucceeded, StatusFor, Unsuccessful
      <4>3. \A j \in Jobs : PipelineOfJob(j) = p => jobStatus[j] \notin Unsuccessful
        BY <3>3, <4>2 DEF WorkflowSucceeded
      <4> QED
        BY <2>1, <3>4, <3>5, <4>3 DEF Unsuccessful, KnowsPipeline
    <3>6. CASE commitStatus[p] # "success"
      <4>1. ~AllWorkflowsSucceeded(workflowStatus, p)
        BY <2>2, <3>1, <3>6 DEF Posted, StatusFor
      <4>2. PICK w \in WorkflowsOf(p) : ~WorkflowSucceeded(jobStatus, w)
        BY <3>2, <4>1 DEF AllWorkflowsSucceeded, StatusFor, Unsuccessful
      <4>3. PICK j \in Jobs : WorkflowOf[j] = w /\ jobStatus[j] \in Unsuccessful
        BY <4>2 DEF WorkflowSucceeded, JobsOf
      <4>4. PipelineOfJob(j) = p /\ jobStatus[j] # "succeeded"
        BY <4>2, <4>3 DEF PipelineOfJob, WorkflowsOf, Unsuccessful
      <4> QED
        BY <3>4, <3>6, <4>4 DEF KnowsPipeline
    <3> QED
      BY <3>5, <3>6
  <2>3. CASE commitStatus[p] = "none"
    BY <2>3 DEF KnowsPipeline
  <2> QED
    BY <2>2, <2>3
<1> QED
  BY <1>1, CascadeInvariant, PTL

\* Statement by statement, with rollbacks and lost answers, job completion is
\* one atomic step on the committed rows, or none.
THEOREM Atomicity == Spec => CompletionIsAtomic
<1>1. Init => Cascade!Init
  BY DEF Init, Cascade!Init
<1>2. IInv /\ [Next]_vars => [Cascade!Next]_(Cascade!vars)
  <2> SUFFICES ASSUME IInv, [Next]_vars
               PROVE  Cascade!Next \/ UNCHANGED Cascade!vars
    OBVIOUS
  <2>1. ASSUME NEW j \in Jobs, Commit(j) \/ CommitAckLost(j)
        PROVE  Cascade!Next \/ UNCHANGED Cascade!vars
    <3>1. pc[j] = "commit" /\ Publish(j)
      BY <2>1 DEF Commit, CommitAckLost, Goto
    <3>2. CASE jobStatus[j] = "incomplete"
      <4>1. Cascade!Complete(j, success[j]) /\ success[j] \in BOOLEAN
        BY <3>1, <3>2, FirstReportCompletes DEF IInv, TypeOK
      <4> QED
        BY <4>1 DEF Cascade!Next
    <3>3. CASE jobStatus[j] # "incomplete"
      BY <3>1, <3>3, SecondReportIsIdle DEF rows, Cascade!vars
    <3> QED
      BY <3>2, <3>3
  <2>2. CASE UNCHANGED rows
    BY <2>2 DEF rows, Cascade!vars
  <2>3. CASE UNCHANGED vars
    BY <2>2, <2>3 DEF vars, rows
  <2>4. ASSUME NEW j \in Jobs, NEW s \in BOOLEAN, JobEnds(j, s)
        PROVE  UNCHANGED rows
    BY <2>4 DEF JobEnds
  <2>5. ASSUME NEW j \in Jobs, Step(j), ~Commit(j)
        PROVE  UNCHANGED rows
    BY <2>5 DEF Step, LockWorkflow, ReadJobs, JudgeWorkflow, LockPipeline,
                ReadWorkflows, JudgePipeline, Report
  <2>6. ASSUME NEW j \in Jobs, Fault(j), ~CommitAckLost(j)
        PROVE  UNCHANGED rows
    BY <2>6 DEF Fault, Rollback, ReportFails
  <2> QED
    BY <2>1, <2>2, <2>3, <2>4, <2>5, <2>6 DEF Next, Step, Fault
<1> QED
  BY <1>1, <1>2, CascadeInvariant, PTL DEF Spec, CompletionIsAtomic, Cascade!Spec

\* A status once given to a job, to a workflow or to the commit never changes.
THEOREM VerdictsStay == Spec => VerdictsAreFinal
<1> DEFINE Final ==
       /\ \A j \in Jobs :
              jobStatus[j] # "incomplete" => jobStatus'[j] = jobStatus[j]
       /\ \A w \in Workflows :
              workflowStatus[w] # "incomplete" => workflowStatus'[w] = workflowStatus[w]
       /\ \A p \in Pipelines :
              commitStatus[p] # "none" => commitStatus'[p] = commitStatus[p]
<1>1. IInv /\ [Next]_vars => Final \/ UNCHANGED vars
  <2> SUFFICES ASSUME IInv, Next PROVE Final
    OBVIOUS
  <2>1. ASSUME NEW j \in Jobs, Commit(j) \/ CommitAckLost(j)
        PROVE  Final
    <3>1. pc[j] = "commit" /\ Publish(j) /\ UNCHANGED commitStatus
      BY <2>1 DEF Commit, CommitAckLost, Goto
    <3>2. CASE jobStatus[j] = "incomplete"
      <4>1. workflowStatus[WorkflowOf[j]] = "incomplete"
        BY <3>2, ForeignKeys
           DEF IInv, WorkflowsAgree, WorkflowsFollowJobs, AllJobsComplete, JobsOf
      <4> QED
        BY <3>1, <3>2, <4>1, PublishEffect
    <3>3. CASE jobStatus[j] # "incomplete"
      BY <3>1, <3>3, SecondReportIsIdle DEF rows
    <3> QED
      BY <3>2, <3>3
  <2>2. ASSUME NEW j \in Jobs, Report(j)
        PROVE  Final
    <3>1. /\ PipelineOfJob(j) \in Pipelines
          /\ verdict[j] = conclusion[PipelineOfJob(j)] /\ verdict[j] # "none"
      BY <2>2, ForeignKeys DEF Report, Goto, IInv, KnowsPipeline, PipelineOfJob
    <3>2. /\ commitStatus'[PipelineOfJob(j)] =
                 IF verdict[j] = "succeeded" THEN "success" ELSE "failure"
          /\ \A p \in Pipelines \ {PipelineOfJob(j)} : commitStatus'[p] = commitStatus[p]
          /\ UNCHANGED rows
      BY <2>2, <3>1 DEF Report, IInv, TypeOK
    <3> QED
      BY <3>1, <3>2 DEF IInv, Posted, rows
  <2>3. CASE UNCHANGED << rows, commitStatus >>
    BY <2>3 DEF rows
  <2>4. ASSUME NEW j \in Jobs, NEW s \in BOOLEAN, JobEnds(j, s)
        PROVE  UNCHANGED << rows, commitStatus >>
    BY <2>4 DEF JobEnds
  <2>5. ASSUME NEW j \in Jobs, Step(j), ~Commit(j), ~Report(j)
        PROVE  UNCHANGED << rows, commitStatus >>
    BY <2>5 DEF Step, LockWorkflow, ReadJobs, JudgeWorkflow, LockPipeline,
                ReadWorkflows, JudgePipeline
  <2>6. ASSUME NEW j \in Jobs, Fault(j), ~CommitAckLost(j)
        PROVE  UNCHANGED << rows, commitStatus >>
    BY <2>6 DEF Fault, Rollback, ReportFails
  <2> QED
    BY <2>1, <2>2, <2>3, <2>4, <2>5, <2>6 DEF Next, Step, Fault
<1> QED
  BY <1>1, CascadeInvariant, PTL DEF Spec, VerdictsAreFinal

=============================================================================
