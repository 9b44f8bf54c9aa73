------------------------- MODULE PipelineStatusProofs -------------------------
(***************************************************************************)
(* Theorems about PipelineStatus, for any configurations: what the rows of *)
(* a pipeline say of each other, and what the answers say of the rows.     *)
(***************************************************************************)
EXTENDS ConfigurationProofs

-----------------------------------------------------------------------------
(* The inductive invariant.                                                *)

Workflows == DOMAIN workflowStatus
RunStatus == { "incomplete", "succeeded", "failed" }

\* Before the launch there are no rows and nothing to ask for.
PhaseAgrees ==
    /\ files \in Configurations
    /\ phase # "received" => plan = PlanOf(files)
    /\ phase # "launched" =>
           /\ jobRow = << >> /\ jobStatus = << >> /\ stepStatus = << >>
           /\ workflowStatus = << >> /\ conclusion = "incomplete"
           /\ reader = "idle" /\ NoView

\* The rows of the runs and their columns.
RowsAreTyped ==
    /\ \A r \in Rows : r = << r[1], r[2] >> /\ r[1] \in Workflows
    /\ jobStatus \in [Rows -> RunStatus]
    /\ workflowStatus \in [Workflows -> RunStatus]
    /\ conclusion \in RunStatus
    /\ DOMAIN stepStatus = Rows
    /\ \A r \in Rows :
           /\ stepStatus[r] \in [DOMAIN stepStatus[r] -> StepStatus]
           /\ \A i \in DOMAIN stepStatus[r] : i \in Nat /\ 1 .. i \subseteq DOMAIN stepStatus[r]

\* A settled workflow and a concluded pipeline have the status that follows from
\* what they contain, and the pipeline is concluded as soon as it can be.
VerdictsAgree ==
    /\ \A w \in Workflows : workflowStatus[w] # "incomplete" =>
           /\ \A r \in Rows : r[1] = w => jobStatus[r] # "incomplete"
           /\ workflowStatus[w] = "failed" <=>
                  \E r \in Rows : r[1] = w /\ jobStatus[r] = "failed"
    /\ conclusion # "incomplete" =>
           /\ \A w \in Workflows : workflowStatus[w] # "incomplete"
           /\ conclusion = "failed" <=> \E w \in Workflows : workflowStatus[w] = "failed"
    /\ conclusion = "incomplete" =>
           Workflows = {} \/ \E w \in Workflows : workflowStatus[w] = "incomplete"

\* Steps begin in order, and all have succeeded in a job that has.
StepsAgree ==
    \A r \in Rows :
        /\ \A i \in DOMAIN stepStatus[r] : stepStatus[r][i] # "pending" =>
               \A k \in 1 .. i - 1 : stepStatus[r][k] = "succeeded"
        /\ jobStatus[r] = "succeeded" =>
               \A i \in DOMAIN stepStatus[r] : stepStatus[r][i] = "succeeded"

\* What getPipeline has read of the workflows was true then, and what was settled
\* then is so still.
PipelineShown ==
    /\ shownWorkflows # << >> =>
           /\ DOMAIN shownWorkflows = Workflows /\ Workflows # {}
           /\ \A w \in Workflows :
                  /\ shownWorkflows[w] \in ShownStatus
                  /\ shownWorkflows[w] # "incomplete" =>
                         /\ workflowStatus[w] # "incomplete"
                         /\ shownWorkflows[w] = MapWorkflowStatus[workflowStatus[w]]
    /\ reader = "workflows" => shownJobs = << >>
    /\ DOMAIN shownJobs \subseteq DOMAIN shownWorkflows

\* So is what getJob has read of the job whose steps it is about to read.
JobShown ==
    reader = "steps" =>
        /\ askedJob \in Rows
        /\ shownSteps = << >>
        /\ shownJob # "none"
        /\ shownJob = "completed" => jobStatus[askedJob] = "succeeded"

IInv ==
    /\ PhaseAgrees
    /\ RowsAreTyped
    /\ VerdictsAgree
    /\ StepsAgree
    /\ PipelineShown
    /\ JobShown
    /\ AnswersAgree

-----------------------------------------------------------------------------
(* The operators.                                                          *)

\* The statuses shown of runs, and back.
LEMMA ShownStatuses ==
    /\ \A s \in RunStatus :
           /\ MapWorkflowStatus[s] \in { "incomplete", "completed", "failed" }
           /\ MapWorkflowStatus[s] = MapJobStatus[s]
           /\ MapJobStatus[s] = "incomplete" <=> s = "incomplete"
           /\ MapJobStatus[s] = "completed" <=> s = "succeeded"
           /\ MapJobStatus[s] = "failed" <=> s = "failed"
  BY DEF MapWorkflowStatus, MapJobStatus, RunStatus

\* A finished job's steps are shown as what they are, or as pending.
LEMMA ShownStep ==
    ASSUME NEW s \in StepStatus, NEW terminal \in BOOLEAN
    PROVE  /\ MapStepStatus(s, terminal) = "completed" <=> s = "succeeded"
           /\ MapStepStatus(s, terminal) = "running" => ~terminal
           /\ MapStepStatus(s, terminal) # "pending" => s # "pending"
  BY DEF MapStepStatus, StepStatus

\* The rows of a plan name its workflows, and a row's steps are numbered.
LEMMA RowsOfPlan ==
    ASSUME NEW c \in Configurations, NEW r \in DOMAIN RowsOf(PlanOf(c))
    PROVE  /\ r = << r[1], r[2] >>
           /\ r[1] \in DOMAIN PlanOf(c)
           /\ IsList(RowsOf(PlanOf(c))[r].steps)
           /\ \A i \in DOMAIN RowsOf(PlanOf(c))[r].steps :
                  i \in Nat /\ 1 .. i \subseteq DOMAIN RowsOf(PlanOf(c))[r].steps
<1> DEFINE workflows == PlanOf(c)
           key(p) == << p[1], JobAt(workflows, p).id >>
           at == CHOOSE p \in Planned(workflows) : key(p) = r
           steps == JobAt(workflows, at).steps
<1>1. DOMAIN RowsOf(workflows) = { key(p) : p \in Planned(workflows) }
  BY DEF RowsOf
<1>2. \E p \in Planned(workflows) : key(p) = r
  BY <1>1
<1>3. at \in Planned(workflows) /\ key(at) = r
  BY <1>2
<1>4. RowsOf(workflows)[r] =
          [name |-> at[3], steps |-> [i \in DOMAIN steps |-> steps[i].command]]
  BY <1>1 DEF RowsOf
<1> HIDE DEF at, workflows
<1>5. \A p \in Planned(workflows) : p[1] \in DOMAIN workflows
  BY DEF Planned
<1>6. Len(steps) \in Nat /\ DOMAIN steps = 1 .. Len(steps)
  <2>1. Documents(c)
    BY FilesAreDocuments DEF Documents
  <2> QED
    BY <1>3, <2>1, JobFollowsText, ListDomain DEF workflows
<1>7. /\ DOMAIN RowsOf(workflows)[r].steps = 1 .. Len(steps)
      /\ IsList(RowsOf(workflows)[r].steps)
  <2> DEFINE commands == [i \in DOMAIN steps |-> steps[i].command]
  <2>1. DOMAIN commands = 1 .. Len(steps) /\ commands = [i \in 1 .. Len(steps) |-> commands[i]]
    BY <1>6
  <2>2. RowsOf(workflows)[r].steps = commands
    BY <1>4
  <2> HIDE DEF commands
  <2> QED
    BY <2>1, <2>2, <1>6, ListOf
<1>8. r = << at[1], JobAt(workflows, at).id >> /\ at[1] \in DOMAIN workflows
  BY <1>3, <1>5
<1>9. r = << r[1], r[2] >> /\ r[1] \in DOMAIN workflows
  BY <1>8
<1> QED
  BY <1>6, <1>7, <1>9 DEF workflows

-----------------------------------------------------------------------------
(* The steps.                                                              *)

LEMMA StartsInvariant == Init => IInv
<1> SUFFICES ASSUME Init PROVE IInv
  OBVIOUS
<1> USE DEF Init, NoView, Rows
<1>1. PhaseAgrees
  BY DEF PhaseAgrees
<1>2. RowsAreTyped
  BY DEF RowsAreTyped, Workflows, RunStatus
<1>3. VerdictsAgree
  BY DEF VerdictsAgree, Workflows
<1>4. StepsAgree
  BY DEF StepsAgree
<1>5. PipelineShown /\ JobShown /\ AnswersAgree
  BY DEF PipelineShown, JobShown, AnswersAgree
<1> QED
  BY <1>1, <1>2, <1>3, <1>4, <1>5 DEF IInv

\* What a step leaves alone stays as it was.
LEMMA Unchanged ==
    /\ RowsAreTyped /\ UNCHANGED << jobRow, runs >> => RowsAreTyped'
    /\ VerdictsAgree /\ UNCHANGED << jobRow, jobStatus, workflowStatus, conclusion >> =>
           VerdictsAgree'
    /\ StepsAgree /\ UNCHANGED << jobRow, runs >> => StepsAgree'
    /\ PipelineShown /\ UNCHANGED << workflowStatus, reader, pipelineView >> => PipelineShown'
    /\ JobShown /\ UNCHANGED << jobRow, jobStatus, reader, jobView >> => JobShown'
    /\ AnswersAgree /\ UNCHANGED << pipelineView, jobView >> => AnswersAgree'
<1>1. RowsAreTyped /\ UNCHANGED << jobRow, runs >> => RowsAreTyped'
  BY DEF RowsAreTyped, Rows, Workflows, runs
<1>2. VerdictsAgree /\ UNCHANGED << jobRow, jobStatus, workflowStatus, conclusion >> =>
          VerdictsAgree'
  BY DEF VerdictsAgree, Rows, Workflows
<1>3. StepsAgree /\ UNCHANGED << jobRow, runs >> => StepsAgree'
  BY DEF StepsAgree, Rows, runs
<1>4. PipelineShown /\ UNCHANGED << workflowStatus, reader, pipelineView >> => PipelineShown'
  BY DEF PipelineShown, Workflows, pipelineView
<1>5. JobShown /\ UNCHANGED << jobRow, jobStatus, reader, jobView >> => JobShown'
  BY DEF JobShown, Rows, jobView
<1>6. AnswersAgree /\ UNCHANGED << pipelineView, jobView >> => AnswersAgree'
  BY DEF AnswersAgree, pipelineView, jobView
<1> QED
  BY <1>1, <1>2, <1>3, <1>4, <1>5, <1>6

\* The handler writes nothing that a row or an answer speaks of before the launch.
LEMMA CheckStep == ASSUME IInv, Check PROVE IInv'
<1> USE DEF IInv
<1>1. UNCHANGED << files, jobRow, runs, reader, view >> /\ phase = "received" /\ phase' = "checked"
  BY DEF Check
<1>2. plan' = PlanOf(files)
  BY DEF Check, PlanOf
<1>3. PhaseAgrees'
  BY <1>1, <1>2 DEF PhaseAgrees, NoView, runs, view, pipelineView, jobView
<1> QED
  BY <1>1, <1>3, Unchanged DEF runs, view, pipelineView

LEMMA LaunchFailsStep == ASSUME IInv, LaunchFails PROVE IInv'
<1> USE DEF IInv
<1>1. /\ UNCHANGED << files, plan, jobRow, runs, reader, view >>
      /\ phase = "checked" /\ phase' = "failed"
  BY DEF LaunchFails
<1>2. PhaseAgrees'
  BY <1>1 DEF PhaseAgrees, NoView, runs, view, pipelineView, jobView
<1> QED
  BY <1>1, <1>2, Unchanged DEF runs, view, pipelineView

\* The launch inserts rows that have everything before them.
LEMMA LaunchStep == ASSUME IInv, Launch PROVE IInv'
<1> DEFINE rows == RowsOf(plan)
<1>1. /\ phase = "checked" /\ phase' = "launched"
      /\ files \in Configurations /\ plan = PlanOf(files) /\ NoView
      /\ reader = "idle" /\ conclusion = "incomplete"
  BY DEF Launch, IInv, PhaseAgrees
<1>2. /\ jobRow' = rows
      /\ jobStatus' = [r \in DOMAIN rows |-> "incomplete"]
      /\ stepStatus' = [r \in DOMAIN rows |-> [i \in DOMAIN rows[r].steps |-> "pending"]]
      /\ workflowStatus' = [w \in DOMAIN plan |-> "incomplete"]
      /\ UNCHANGED << files, plan, conclusion, reader, view >>
  BY DEF Launch
<1>3. \A r \in DOMAIN rows :
          /\ r = << r[1], r[2] >> /\ r[1] \in DOMAIN plan
          /\ \A i \in DOMAIN rows[r].steps : i \in Nat /\ 1 .. i \subseteq DOMAIN rows[r].steps
  BY <1>1, RowsOfPlan
<1> HIDE DEF rows
<1>4. PhaseAgrees'
  BY <1>1, <1>2 DEF PhaseAgrees
<1>5. RowsAreTyped'
  <2>1. Rows' = DOMAIN rows /\ Workflows' = DOMAIN plan
    BY <1>2 DEF Rows, Workflows
  <2>2. jobStatus' \in [DOMAIN rows -> RunStatus] /\ workflowStatus' \in [DOMAIN plan -> RunStatus]
    BY <1>2 DEF RunStatus
  <2>3. ASSUME NEW r \in DOMAIN rows
        PROVE  /\ DOMAIN stepStatus'[r] = DOMAIN rows[r].steps
               /\ stepStatus'[r] \in [DOMAIN rows[r].steps -> StepStatus]
    BY <1>2 DEF StepStatus
  <2>4. conclusion' \in RunStatus /\ DOMAIN stepStatus' = DOMAIN rows
    BY <1>1, <1>2 DEF RunStatus
  <2> QED
    BY <2>1, <2>2, <2>3, <2>4, <1>3 DEF RowsAreTyped
<1>6. VerdictsAgree'
  BY <1>1, <1>2 DEF VerdictsAgree, Workflows
<1>7. StepsAgree'
  BY <1>2 DEF StepsAgree, Rows
<1>8. PipelineShown' /\ JobShown' /\ AnswersAgree'
  BY <1>1, <1>2 DEF PipelineShown, JobShown, AnswersAgree, NoView, view, pipelineView, jobView
<1> QED
  BY <1>4, <1>5, <1>6, <1>7, <1>8 DEF IInv

-----------------------------------------------------------------------------
(* The runner.                                                             *)

\* There are rows only once the pipeline is launched.
LEMMA RowsOfLaunched ==
    ASSUME IInv, Rows # {}
    PROVE  phase = "launched"
  BY DEF IInv, PhaseAgrees, Rows

\* A step changes that has only successes before it, and none after it has begun.
LEMMA StepChange ==
    ASSUME IInv, NEW r \in Rows, NEW i \in DOMAIN stepStatus[r],
           jobStatus[r] = "incomplete",
           NEW s \in StepStatus,
           stepStatus' = [stepStatus EXCEPT ![r][i] = s],
           stepStatus[r][i] # "succeeded" \/
               \A k \in DOMAIN stepStatus[r] : k > i => stepStatus[r][k] = "pending",
           \A k \in 1 .. i - 1 : stepStatus[r][k] = "succeeded",
           UNCHANGED << handler, jobStatus, workflowStatus, conclusion, reader, view >>
    PROVE  IInv'
<1> USE DEF IInv, handler, view, pipelineView, jobView
<1>1. /\ DOMAIN stepStatus = Rows
      /\ \A q \in Rows : /\ stepStatus[q] \in [DOMAIN stepStatus[q] -> StepStatus]
                         /\ \A k \in DOMAIN stepStatus[q] :
                                k \in Nat /\ 1 .. k \subseteq DOMAIN stepStatus[q]
  BY DEF RowsAreTyped
<1>2. /\ DOMAIN stepStatus' = Rows
      /\ \A q \in Rows \ { r } : stepStatus'[q] = stepStatus[q]
      /\ stepStatus'[r] = [stepStatus[r] EXCEPT ![i] = s]
  BY <1>1
<1>3. /\ DOMAIN stepStatus'[r] = DOMAIN stepStatus[r]
      /\ stepStatus'[r] \in [DOMAIN stepStatus[r] -> StepStatus]
      /\ stepStatus'[r][i] = s
      /\ \A k \in DOMAIN stepStatus[r] \ { i } : stepStatus'[r][k] = stepStatus[r][k]
  BY <1>1, <1>2
<1>4. PhaseAgrees'
  BY RowsOfLaunched DEF PhaseAgrees
<1>5. RowsAreTyped'
  <2>1. ASSUME NEW q \in Rows
        PROVE  /\ stepStatus'[q] \in [DOMAIN stepStatus'[q] -> StepStatus]
               /\ \A k \in DOMAIN stepStatus'[q] :
                      k \in Nat /\ 1 .. k \subseteq DOMAIN stepStatus'[q]
    <3>1. CASE q = r
      BY <3>1, <1>1, <1>3
    <3>2. CASE q # r
      BY <3>2, <1>1, <1>2
    <3> QED
      BY <3>1, <3>2
  <2> QED
    BY <2>1, <1>2 DEF RowsAreTyped, Rows, Workflows
<1>6. StepsAgree'
  <2> SUFFICES ASSUME NEW q \in Rows
               PROVE  /\ \A k \in DOMAIN stepStatus'[q] : stepStatus'[q][k] # "pending" =>
                             \A l \in 1 .. k - 1 : stepStatus'[q][l] = "succeeded"
                      /\ jobStatus[q] = "succeeded" =>
                             \A k \in DOMAIN stepStatus'[q] : stepStatus'[q][k] = "succeeded"
    BY DEF StepsAgree, Rows
  <2>1. CASE q # r
    BY <2>1, <1>2 DEF StepsAgree
  <2>2. CASE q = r
    <3>1. ASSUME NEW k \in DOMAIN stepStatus[r], stepStatus'[r][k] # "pending",
                 NEW l \in 1 .. k - 1
          PROVE  stepStatus'[r][l] = "succeeded"
      <4>1. k \in Nat /\ l \in DOMAIN stepStatus[r] /\ i \in Nat
        BY <3>1, <1>1
      <4>2. CASE k = i
        BY <4>1, <4>2, <1>3
      <4>3. CASE k # i
        BY <4>1, <4>3, <3>1, <1>3 DEF StepsAgree
      <4> QED
        BY <4>2, <4>3
    <3> QED
      BY <2>2, <3>1, <1>3
  <2> QED
    BY <2>1, <2>2
<1>7. VerdictsAgree' /\ PipelineShown' /\ JobShown' /\ AnswersAgree'
  BY Unchanged
<1> QED
  BY <1>4, <1>5, <1>6, <1>7

LEMMA StepStartsStep == ASSUME IInv, NEW r \in Rows, StepStarts(r) PROVE IInv'
<1>1. PICK i \in DOMAIN stepStatus[r] :
          /\ stepStatus[r][i] = "pending"
          /\ \A k \in 1 .. i - 1 : stepStatus[r][k] = "succeeded"
          /\ stepStatus' = [stepStatus EXCEPT ![r][i] = "started"]
  BY DEF StepStarts
<1>2. "started" \in StepStatus
  BY DEF StepStatus
<1> QED
  BY <1>1, <1>2, StepChange DEF StepStarts

LEMMA StepEndsStep ==
    ASSUME IInv, NEW r \in Rows, NEW success \in BOOLEAN, StepEnds(r, success)
    PROVE  IInv'
<1>1. PICK i \in DOMAIN stepStatus[r] :
          /\ \A k \in DOMAIN stepStatus[r] :
                 /\ k < i => stepStatus[r][k] = "succeeded"
                 /\ k > i => stepStatus[r][k] = "pending"
          /\ stepStatus' = [stepStatus EXCEPT ![r][i] = Runs!StatusFor(success)]
  BY DEF StepEnds
<1>2. Runs!StatusFor(success) \in StepStatus
  BY DEF StepStatus, Runs!StatusFor
<1>3. ASSUME NEW k \in 1 .. i - 1 PROVE stepStatus[r][k] = "succeeded"
  <2>1. i \in Nat /\ 1 .. i \subseteq DOMAIN stepStatus[r]
    BY DEF IInv, RowsAreTyped
  <2> QED
    BY <1>1, <2>1
<1> QED
  BY <1>1, <1>2, <1>3, StepChange DEF StepEnds

\* A job's end settles its workflow if it is the last, and that the pipeline.
LEMMA JobEndsStep ==
    ASSUME IInv, NEW r \in Rows, NEW success \in BOOLEAN, JobEnds(r, success)
    PROVE  IInv'
<1> DEFINE w == r[1]
           s == Runs!StatusFor(success)
<1> USE DEF IInv, handler, view, pipelineView
<1>1. /\ jobStatus \in [Rows -> RunStatus] /\ workflowStatus \in [Workflows -> RunStatus]
      /\ conclusion \in RunStatus /\ w \in Workflows
  BY DEF RowsAreTyped
<1>2. /\ jobStatus[r] = "incomplete" /\ jobStatus' = [jobStatus EXCEPT ![r] = s]
      /\ success => \A i \in DOMAIN stepStatus[r] : stepStatus[r][i] = "succeeded"
      /\ UNCHANGED << handler, stepStatus, reader, view >>
  BY DEF JobEnds
<1>3. Rows' = Rows /\ s \in RunStatus /\ s # "incomplete" /\ (s = "succeeded" <=> success)
  BY <1>2 DEF Rows, Runs!StatusFor, RunStatus
<1>4. /\ jobStatus' \in [Rows -> RunStatus] /\ jobStatus'[r] = s
      /\ \A q \in Rows \ { r } : jobStatus'[q] = jobStatus[q]
  BY <1>1, <1>2, <1>3
<1>5. /\ Runs!AllJobsComplete(jobStatus', w) <=>
             \A q \in Rows : q[1] = w => jobStatus'[q] # "incomplete"
      /\ Runs!WorkflowSucceeded(jobStatus', w) <=>
             ~\E q \in Rows : q[1] = w /\ jobStatus'[q] = "failed"
  BY <1>4 DEF Runs!AllJobsComplete, Runs!WorkflowSucceeded, Runs!JobsOf, Runs!Unsuccessful,
        RunStatus
<1>6. PICK ended \in BOOLEAN, verdict \in { "succeeded", "failed" } :
          /\ workflowStatus' = IF ended THEN [workflowStatus EXCEPT ![w] = verdict]
                                        ELSE workflowStatus
          /\ ended <=> \A q \in Rows : q[1] = w => jobStatus'[q] # "incomplete"
          /\ verdict = "failed" <=> \E q \in Rows : q[1] = w /\ jobStatus'[q] = "failed"
  <2>1. workflowStatus' = IF Runs!AllJobsComplete(jobStatus', w)
                          THEN [workflowStatus EXCEPT ![w] =
                                    Runs!StatusFor(Runs!WorkflowSucceeded(jobStatus', w))]
                          ELSE workflowStatus
    BY DEF JobEnds
  <2> QED
    BY <2>1, <1>5 DEF Runs!StatusFor
<1>7. /\ workflowStatus' \in [Workflows -> RunStatus] /\ Workflows' = Workflows
      /\ workflowStatus'[w] = IF ended THEN verdict ELSE workflowStatus[w]
      /\ \A v \in Workflows \ { w } : workflowStatus'[v] = workflowStatus[v]
  BY <1>1, <1>6 DEF Workflows, RunStatus
<1>8. workflowStatus[w] = "incomplete" /\ conclusion = "incomplete"
  BY <1>1, <1>2 DEF VerdictsAgree, RowsAreTyped
<1>9. /\ conclusion' = IF \A v \in Workflows : workflowStatus'[v] # "incomplete"
                       THEN IF \E v \in Workflows : workflowStatus'[v] = "failed"
                            THEN "failed" ELSE "succeeded"
                       ELSE "incomplete"
  <2>1. conclusion' = IF Runs!AllWorkflowsComplete(workflowStatus', 1)
                      THEN Runs!StatusFor(Runs!AllWorkflowsSucceeded(workflowStatus', 1))
                      ELSE conclusion
    BY DEF JobEnds
  <2>2. Runs!AllWorkflowsComplete(workflowStatus', 1) <=>
            \A v \in Workflows : workflowStatus'[v] # "incomplete"
    BY DEF Runs!AllWorkflowsComplete, Runs!WorkflowsOf, Workflows
  <2>3. Runs!AllWorkflowsSucceeded(workflowStatus', 1) <=>
            ~\E v \in Workflows : workflowStatus'[v] = "failed"
    BY <1>7 DEF Runs!AllWorkflowsSucceeded, Runs!WorkflowsOf, Runs!Unsuccessful, Workflows,
          RunStatus
  <2> QED
    BY <2>1, <2>2, <2>3, <1>8 DEF Runs!StatusFor
<1>10. PhaseAgrees'
  BY RowsOfLaunched, <1>2 DEF PhaseAgrees
<1>11. RowsAreTyped'
  BY <1>2, <1>3, <1>4, <1>7, <1>9 DEF RowsAreTyped, RunStatus
<1>12. VerdictsAgree'
  <2>1. ASSUME NEW v \in Workflows, workflowStatus'[v] # "incomplete"
        PROVE  /\ \A q \in Rows : q[1] = v => jobStatus'[q] # "incomplete"
               /\ workflowStatus'[v] = "failed" <=>
                      \E q \in Rows : q[1] = v /\ jobStatus'[q] = "failed"
    <3>1. CASE v = w
      BY <3>1, <2>1, <1>6, <1>7, <1>8
    <3>2. CASE v # w
      BY <3>2, <2>1, <1>4, <1>7 DEF VerdictsAgree
    <3> QED
      BY <3>1, <3>2
  <2>2. conclusion' # "incomplete" =>
            /\ \A v \in Workflows : workflowStatus'[v] # "incomplete"
            /\ conclusion' = "failed" <=> \E v \in Workflows : workflowStatus'[v] = "failed"
    BY <1>9
  <2>3. conclusion' = "incomplete" =>
            Workflows = {} \/ \E v \in Workflows : workflowStatus'[v] = "incomplete"
    BY <1>9
  <2> QED
    BY <2>1, <2>2, <2>3, <1>3, <1>7 DEF VerdictsAgree
<1>13. StepsAgree'
  BY <1>2, <1>3, <1>4 DEF StepsAgree
<1>14. PipelineShown'
  <2>1. UNCHANGED << reader, shownWorkflows, shownJobs >>
    BY <1>2
  <2>2. \A v \in Workflows : workflowStatus[v] # "incomplete" =>
            workflowStatus'[v] = workflowStatus[v]
    BY <1>7, <1>8
  <2> QED
    BY <2>1, <2>2, <1>7 DEF PipelineShown
<1>15. JobShown'
  BY <1>2, <1>3, <1>4 DEF JobShown, jobView
<1>16. AnswersAgree'
  BY <1>2, Unchanged
<1> QED
  BY <1>10, <1>11, <1>12, <1>13, <1>14, <1>15, <1>16

-----------------------------------------------------------------------------
(* The requests.                                                           *)

LEMMA GetPipelineStep == ASSUME IInv, GetPipeline PROVE IInv'
<1> USE DEF IInv, GetPipeline, Asked
<1>1. PhaseAgrees'
  BY DEF PhaseAgrees, handler
<1>2. PipelineShown'
  BY DEF PipelineShown
<1>3. JobShown'
  BY DEF JobShown
<1>4. AnswersAgree'
  BY DEF AnswersAgree, jobView
<1> QED
  BY <1>1, <1>2, <1>3, <1>4, Unchanged DEF handler, runs

LEMMA ReadWorkflowsStep == ASSUME IInv, ReadWorkflows PROVE IInv'
<1> USE DEF IInv, ReadWorkflows
<1>1. PhaseAgrees'
  BY DEF PhaseAgrees, handler
<1>2. shownJobs = << >> /\ workflowStatus \in [Workflows -> RunStatus]
  BY DEF PipelineShown, RowsAreTyped
<1>3. PipelineShown'
  <2>1. DOMAIN shownWorkflows' = Workflows /\ Workflows' = Workflows
    BY <1>2 DEF Workflows, runs
  <2>2. ASSUME NEW w \in Workflows
        PROVE  /\ shownWorkflows'[w] = MapWorkflowStatus[workflowStatus[w]]
               /\ shownWorkflows'[w] \in ShownStatus
               /\ shownWorkflows'[w] # "incomplete" => workflowStatus[w] # "incomplete"
    <3>1. shownWorkflows'[w] = MapWorkflowStatus[workflowStatus[w]]
      BY DEF Workflows
    <3> QED
      BY <3>1, <1>2, ShownStatuses DEF ShownStatus
  <2>3. shownWorkflows' # << >> => Workflows # {}
    BY DEF Workflows
  <2>4. reader' # "workflows" /\ shownJobs' = shownJobs /\ workflowStatus' = workflowStatus
    BY DEF runs
  <2>5. DOMAIN shownJobs' = {}
    BY <2>4, <1>2
  <2> QED
    BY <2>1, <2>2, <2>3, <2>4, <2>5 DEF PipelineShown
<1>4. JobShown'
  BY DEF JobShown
<1>5. AnswersAgree'
  BY <1>2 DEF AnswersAgree, jobView
<1> QED
  BY <1>1, <1>3, <1>4, <1>5, Unchanged DEF handler, runs

\* What the query finds of the jobs of a workflow that is shown as settled.
LEMMA JobsOfSettled ==
    ASSUME RowsAreTyped, VerdictsAgree, NEW w \in Workflows,
           workflowStatus[w] # "incomplete"
    PROVE  /\ \A id \in DOMAIN JobsShown(w) : JobsShown(w)[id] # "incomplete"
           /\ MapWorkflowStatus[workflowStatus[w]] = "failed" <=>
                  \E id \in DOMAIN JobsShown(w) : JobsShown(w)[id] = "failed"
<1>1. /\ \A r \in Rows : r = << r[1], r[2] >> /\ jobStatus[r] \in RunStatus
      /\ workflowStatus[w] \in RunStatus
  BY DEF RowsAreTyped
<1>2. Runs!JobsOf(w) = { r \in Rows : r[1] = w }
  BY DEF Runs!JobsOf
<1>3. ASSUME NEW id \in DOMAIN JobsShown(w)
      PROVE  \E r \in Rows : r[1] = w /\ JobsShown(w)[id] = MapJobStatus[jobStatus[r]]
  BY <1>1, <1>2 DEF JobsShown
<1>4. ASSUME NEW r \in Rows, r[1] = w
      PROVE  r[2] \in DOMAIN JobsShown(w) /\ JobsShown(w)[r[2]] = MapJobStatus[jobStatus[r]]
  BY <1>1, <1>2, <1>4 DEF JobsShown
<1>5. /\ \A r \in Rows : r[1] = w => jobStatus[r] # "incomplete"
      /\ workflowStatus[w] = "failed" <=> \E r \in Rows : r[1] = w /\ jobStatus[r] = "failed"
  BY DEF VerdictsAgree
<1>6. \A id \in DOMAIN JobsShown(w) : JobsShown(w)[id] # "incomplete"
  BY <1>1, <1>3, <1>5, ShownStatuses
<1>7. ASSUME NEW id \in DOMAIN JobsShown(w), JobsShown(w)[id] = "failed"
      PROVE  workflowStatus[w] = "failed"
  BY <1>1, <1>3, <1>5, <1>7, ShownStatuses
<1>8. ASSUME NEW r \in Rows, r[1] = w, jobStatus[r] = "failed"
      PROVE  \E id \in DOMAIN JobsShown(w) : JobsShown(w)[id] = "failed"
  BY <1>1, <1>4, <1>8, ShownStatuses
<1>9. MapWorkflowStatus[workflowStatus[w]] = "failed" <=> workflowStatus[w] = "failed"
  BY <1>1, ShownStatuses
<1> QED
  BY <1>5, <1>6, <1>7, <1>8, <1>9

LEMMA ReadJobsStep == ASSUME IInv, ReadJobs PROVE IInv'
<1> USE DEF IInv
<1>1. PICK w \in DOMAIN shownWorkflows \ DOMAIN shownJobs :
          /\ shownJobs' = [v \in DOMAIN shownJobs \cup { w } |->
                              IF v = w THEN JobsShown(w) ELSE shownJobs[v]]
          /\ reader' = IF w = 1 THEN "idle" ELSE "jobs"
  BY DEF ReadJobs
<1>2. reader = "jobs" /\ UNCHANGED << handler, runs, shownWorkflows, jobView, listed >>
  BY DEF ReadJobs
<1>3. PhaseAgrees'
  BY <1>2 DEF PhaseAgrees, handler
<1>4. PipelineShown'
  BY <1>1, <1>2 DEF PipelineShown, Workflows, runs
<1>5. JobShown'
  BY <1>1 DEF JobShown
<1>6. AnswersAgree'
  <2>1. ASSUME NEW v \in DOMAIN shownJobs', shownWorkflows'[v] # "incomplete"
        PROVE  /\ "incomplete" \notin { shownJobs'[v][id] : id \in DOMAIN shownJobs'[v] }
               /\ shownWorkflows'[v] = "failed" <=>
                      "failed" \in { shownJobs'[v][id] : id \in DOMAIN shownJobs'[v] }
    <3>1. CASE v = w
      <4>1. /\ w \in Workflows /\ workflowStatus[w] # "incomplete"
            /\ shownWorkflows[w] = MapWorkflowStatus[workflowStatus[w]]
        BY <1>2, <2>1, <3>1 DEF PipelineShown
      <4>2. shownJobs'[v] = JobsShown(w)
        BY <1>1, <3>1
      <4> QED
        BY <1>2, <3>1, <4>1, <4>2, JobsOfSettled
    <3>2. CASE v # w
      <4>1. v \in DOMAIN shownJobs /\ shownJobs'[v] = shownJobs[v]
        BY <1>1, <2>1, <3>2
      <4> QED
        BY <1>2, <2>1, <4>1 DEF AnswersAgree
    <3> QED
      BY <3>1, <3>2
  <2>2. UNCHANGED << shownJob, shownSteps >>
    BY <1>2 DEF jobView
  <2> QED
    BY <2>1, <2>2 DEF AnswersAgree
<1> QED
  BY <1>2, <1>3, <1>4, <1>5, <1>6, Unchanged DEF handler, runs

LEMMA GetJobStep == ASSUME IInv, NEW r \in Rows, GetJob(r) PROVE IInv'
<1> USE DEF IInv, GetJob, Asked
<1>1. PhaseAgrees'
  BY DEF PhaseAgrees, handler
<1>2. PipelineShown'
  BY DEF PipelineShown, Workflows, runs, pipelineView
<1>3. JobShown'
  BY ShownStatuses DEF JobShown, RowsAreTyped, Rows, handler, runs
<1>4. AnswersAgree'
  BY DEF AnswersAgree, pipelineView
<1> QED
  BY <1>1, <1>2, <1>3, <1>4, Unchanged DEF handler, runs

LEMMA ReadStepsStep == ASSUME IInv, ReadSteps PROVE IInv'
<1> DEFINE steps == stepStatus[askedJob]
           ended == shownJob # "incomplete"
<1> USE DEF IInv
<1>1. /\ reader = "steps" /\ reader' = "idle"
      /\ shownSteps' = [i \in DOMAIN steps |-> MapStepStatus(steps[i], ended)]
      /\ UNCHANGED << handler, runs, pipelineView, askedJob, shownJob, listed >>
  BY DEF ReadSteps
<1>2. /\ askedJob \in Rows
      /\ shownJob = "completed" => jobStatus[askedJob] = "succeeded"
  BY <1>1 DEF JobShown
<1>3. /\ steps \in [DOMAIN steps -> StepStatus]
      /\ \A i \in DOMAIN steps : i \in Nat /\ 1 .. i \subseteq DOMAIN steps
  BY <1>2 DEF RowsAreTyped
<1>4. /\ \A i \in DOMAIN steps : steps[i] # "pending" =>
             \A k \in 1 .. i - 1 : steps[k] = "succeeded"
      /\ shownJob = "completed" => \A i \in DOMAIN steps : steps[i] = "succeeded"
  BY <1>2 DEF StepsAgree
<1> HIDE DEF steps, ended
<1>5. ASSUME NEW i \in DOMAIN steps
      PROVE  /\ shownSteps'[i] = "completed" <=> steps[i] = "succeeded"
             /\ shownSteps'[i] = "running" => ~ended
             /\ shownSteps'[i] # "pending" => steps[i] # "pending"
  <2>1. shownSteps'[i] = MapStepStatus(steps[i], ended) /\ steps[i] \in StepStatus
    BY <1>1, <1>3
  <2>2. ended \in BOOLEAN
    BY DEF ended
  <2> QED
    BY <2>1, <2>2, ShownStep
<1>6. PhaseAgrees'
  BY <1>1 DEF PhaseAgrees, handler
<1>7. PipelineShown'
  BY <1>1 DEF PipelineShown, Workflows, runs, pipelineView
<1>8. JobShown'
  BY <1>1 DEF JobShown
<1>9. AnswersAgree'
  <2>1. DOMAIN shownSteps' = DOMAIN steps
    BY <1>1
  <2>2. ASSUME NEW i \in DOMAIN steps
        PROVE  /\ shownJob' = "completed" => shownSteps'[i] = "completed"
               /\ shownSteps'[i] = "running" => shownJob' = "incomplete"
               /\ shownSteps'[i] # "pending" =>
                      \A k \in 1 .. i - 1 : shownSteps'[k] = "completed"
    <3>1. shownJob' = "completed" => shownSteps'[i] = "completed"
      BY <1>1, <1>4, <1>5
    <3>2. shownSteps'[i] = "running" => shownJob' = "incomplete"
      BY <1>1, <1>5 DEF ended
    <3>3. ASSUME shownSteps'[i] # "pending", NEW k \in 1 .. i - 1
          PROVE  shownSteps'[k] = "completed"
      <4>1. k \in DOMAIN steps
        BY <1>3, <3>3
      <4> QED
        BY <4>1, <3>3, <1>4, <1>5
    <3> QED
      BY <3>1, <3>2, <3>3
  <2>3. UNCHANGED << shownWorkflows, shownJobs >>
    BY <1>1 DEF pipelineView
  <2> QED
    BY <2>1, <2>2, <2>3 DEF AnswersAgree
<1> QED
  BY <1>1, <1>6, <1>7, <1>8, <1>9, Unchanged DEF handler, runs

LEMMA ListPipelinesStep == ASSUME IInv, ListPipelines PROVE IInv'
<1> USE DEF IInv, ListPipelines, Asked
<1>1. PhaseAgrees'
  BY DEF PhaseAgrees, handler
<1> QED
  BY <1>1, Unchanged DEF handler, runs, view

LEMMA StutterStep == ASSUME IInv, UNCHANGED vars PROVE IInv'
<1> USE DEF IInv, vars, handler, view
<1>1. PhaseAgrees'
  BY DEF PhaseAgrees, NoView, runs, pipelineView, jobView
<1> QED
  BY <1>1, Unchanged DEF runs

-----------------------------------------------------------------------------
(* The theorems.                                                           *)

LEMMA NextKeeps == ASSUME IInv, [Next]_vars PROVE IInv'
<1>1. CASE \E r \in Rows :
               \/ StepStarts(r)
               \/ \E success \in BOOLEAN : StepEnds(r, success) \/ JobEnds(r, success)
               \/ GetJob(r)
  BY <1>1, StepStartsStep, StepEndsStep, JobEndsStep, GetJobStep
<1>2. CASE Check \/ Launch \/ LaunchFails
  BY <1>2, CheckStep, LaunchStep, LaunchFailsStep
<1>3. CASE GetPipeline \/ ReadWorkflows \/ ReadJobs \/ ReadSteps \/ ListPipelines
  BY <1>3, GetPipelineStep, ReadWorkflowsStep, ReadJobsStep, ReadStepsStep, ListPipelinesStep
<1>4. CASE UNCHANGED vars
  BY <1>4, StutterStep
<1> QED
  BY <1>1, <1>2, <1>3, <1>4 DEF Next

LEMMA Invariance == Spec => []IInv
<1>1. IInv /\ [Next]_vars => IInv'
  BY NextKeeps
<1> QED
  BY <1>1, StartsInvariant, PTL DEF Spec

\* The worst of some statuses is one of them, and none of them is worse.
LEMMA WorstIsWorst ==
    ASSUME NEW statuses, statuses # << >>, DOMAIN statuses # {},
           \A i \in DOMAIN statuses : statuses[i] \in ShownStatus
    PROVE  /\ \E i \in DOMAIN statuses : WorstOf(statuses) = statuses[i]
           /\ \A i \in DOMAIN statuses :
                  Precedence[WorstOf(statuses)] >= Precedence[statuses[i]]
<1> DEFINE S == { statuses[i] : i \in DOMAIN statuses }
<1>1. S \subseteq ShownStatus /\ S # {}
  OBVIOUS
<1> HIDE DEF S
<1>2. \A s \in S : Precedence[s] \in 0 .. 7
  BY <1>1 DEF ShownStatus, Precedence
<1>3. \E s \in S : \A t \in S : Precedence[s] >= Precedence[t]
  <2> DEFINE reaches(n) == \E s \in S : Precedence[s] >= n
  <2> SUFFICES ASSUME \A s \in S : \E t \in S : Precedence[t] > Precedence[s]
               PROVE  FALSE
    BY <1>2
  <2>1. reaches(0)
    BY <1>1, <1>2
  <2>2. ASSUME NEW n \in 0 .. 7, reaches(n)
        PROVE  reaches(n + 1)
    <3>1. PICK s \in S : Precedence[s] >= n
      BY <2>2
    <3>2. PICK t \in S : Precedence[t] > Precedence[s]
      OBVIOUS
    <3>3. Precedence[t] >= n + 1
      BY <3>1, <3>2, <1>2
    <3> QED
      BY <3>3
  <2>3. ~reaches(8)
    BY <1>2
  <2> HIDE DEF reaches
  <2> QED
    BY <2>1, <2>2, <2>3
<1>4. WorstOf(statuses) = CHOOSE s \in S : \A t \in S : Precedence[s] >= Precedence[t]
  BY DEF WorstOf, ToSet, S
<1>5. WorstOf(statuses) \in S /\ \A t \in S : Precedence[WorstOf(statuses)] >= Precedence[t]
  BY <1>3, <1>4
<1> QED
  BY <1>5 DEF S

\* A request is answered query by query while jobs go on, and the answer agrees
\* with itself: getPipeline's statuses of workflows with those of their jobs, and
\* getJob's status of a job with those of its steps.
THEOREM AnswersAreConsistent == Spec => []AnswersAgree
<1>1. IInv => AnswersAgree
  BY DEF IInv
<1> QED
  BY <1>1, Invariance, PTL

\* A pipeline shown as completed has succeeded, and one shown as failed will never
\* be concluded with success, however long ago its workflows were read.
THEOREM ShownVerdictStays == Spec => []ShownVerdictHolds
<1>1. IInv => ShownVerdictHolds
  <2> SUFFICES ASSUME IInv, shownWorkflows # << >>
               PROVE  /\ WorstOf(shownWorkflows) = "completed" => conclusion = "succeeded"
                      /\ WorstOf(shownWorkflows) = "failed" => conclusion # "succeeded"
    BY DEF ShownVerdictHolds
  <2>1. /\ DOMAIN shownWorkflows = Workflows /\ Workflows # {}
        /\ \A w \in Workflows :
               /\ shownWorkflows[w] \in ShownStatus
               /\ workflowStatus[w] \in RunStatus
               /\ shownWorkflows[w] # "incomplete" =>
                      /\ workflowStatus[w] # "incomplete"
                      /\ shownWorkflows[w] = MapWorkflowStatus[workflowStatus[w]]
        /\ conclusion \in RunStatus
    BY DEF IInv, PipelineShown, RowsAreTyped
  <2>2. /\ \E w \in Workflows : WorstOf(shownWorkflows) = shownWorkflows[w]
        /\ \A w \in Workflows :
               Precedence[WorstOf(shownWorkflows)] >= Precedence[shownWorkflows[w]]
    BY <2>1, WorstIsWorst
  <2>3. ASSUME WorstOf(shownWorkflows) = "completed" PROVE conclusion = "succeeded"
    <3>1. ASSUME NEW w \in Workflows PROVE workflowStatus[w] = "succeeded"
      <4>1. shownWorkflows[w] \in { "completed", "skipped" }
        BY <2>1, <2>2, <2>3 DEF ShownStatus, Precedence
      <4> QED
        BY <4>1, <2>1, ShownStatuses
    <3> QED
      BY <3>1, <2>1 DEF IInv, VerdictsAgree, RunStatus
  <2>4. ASSUME WorstOf(shownWorkflows) = "failed" PROVE conclusion # "succeeded"
    <3>1. PICK w \in Workflows : shownWorkflows[w] = "failed"
      BY <2>2, <2>4
    <3>2. workflowStatus[w] = "failed"
      BY <3>1, <2>1, ShownStatuses
    <3> QED
      BY <3>2 DEF IInv, VerdictsAgree
  <2> QED
    BY <2>3, <2>4
<1> QED
  BY <1>1, Invariance, PTL

-----------------------------------------------------------------------------
(* From the files to the rows.                                             *)

\* The rows are those of the plan, each with its steps, and the plan's workflows are
\* those of the run.
RowsArePlanned ==
    /\ phase \in { "received", "checked", "launched", "failed" }
    /\ results = IF phase = "received" THEN << >> ELSE ParseKdlConfigs(files).results
    /\ phase = "launched" => jobRow = RowsOf(plan) /\ Workflows = DOMAIN plan
    /\ \A r \in Rows : DOMAIN stepStatus[r] = DOMAIN jobRow[r].steps

\* What a request has read so far is of the right kind.
AnswersAreTyped ==
    /\ reader \in { "idle", "workflows", "jobs", "steps" }
    /\ shownWorkflows \in Seq(ShownStatus)
    /\ shownJob \in ShownStatus \cup { "none" }
    /\ shownSteps \in Seq(ShownStatus)
    /\ listed \in ShownStatus \cup { "none" }

LEMMA FilesOfDelivery == ASSUME IInv PROVE files \in Configurations /\ Documents(files)
  BY FilesAreDocuments DEF IInv, PhaseAgrees, Documents

\* The files of a launched pipeline are the plan's, and so are its rows.
LEMMA RowsOfFiles ==
    ASSUME IInv, RowsArePlanned, phase = "launched"
    PROVE  /\ jobRow = RowsOf(PlanOf(files)) /\ plan = PlanOf(files)
           /\ IsList(plan) /\ IsList(Accepted(files))
           /\ Workflows = DOMAIN Accepted(files) /\ Workflows = 1 .. Len(plan)
           /\ Len(plan) \in Nat
<1>1. plan = PlanOf(files)
  BY DEF IInv, PhaseAgrees
<1>2. /\ IsList(PlanOf(files)) /\ IsList(Accepted(files))
      /\ Len(PlanOf(files)) = Len(Accepted(files))
  BY FilesOfDelivery, PlanFollowsText
<1>3. /\ DOMAIN PlanOf(files) = 1 .. Len(PlanOf(files)) /\ Len(PlanOf(files)) \in Nat
      /\ DOMAIN Accepted(files) = 1 .. Len(Accepted(files))
  BY <1>2, ListDomain
<1> QED
  BY <1>1, <1>2, <1>3 DEF RowsArePlanned

LEMMA WorkflowsAreNumbered ==
    ASSUME IInv, RowsArePlanned
    PROVE  /\ workflowStatus \in Seq(RunStatus)
           /\ \A r \in Rows : \E n \in Nat : DOMAIN stepStatus[r] = 1 .. n
<1>1. CASE phase = "launched"
  <2>1. workflowStatus \in [1 .. Len(plan) -> RunStatus] /\ Len(plan) \in Nat
    BY <1>1, RowsOfFiles DEF IInv, RowsAreTyped
  <2>2. workflowStatus \in Seq(RunStatus)
    BY <2>1
  <2>3. ASSUME NEW r \in Rows
        PROVE  \E n \in Nat : DOMAIN stepStatus[r] = 1 .. n
    <3>1. jobRow = RowsOf(PlanOf(files)) /\ files \in Configurations
      BY <1>1, RowsOfFiles, FilesOfDelivery
    <3>2. r \in DOMAIN RowsOf(PlanOf(files))
      BY <3>1 DEF Rows
    <3>3. IsList(RowsOf(PlanOf(files))[r].steps)
      BY <3>1, <3>2, RowsOfPlan
    <3>4. DOMAIN stepStatus[r] = DOMAIN RowsOf(PlanOf(files))[r].steps
      BY <3>1 DEF RowsArePlanned
    <3> QED
      BY <3>3, <3>4, ListDomain
  <2> QED
    BY <2>2, <2>3
<1>2. CASE phase # "launched"
  <2>1. workflowStatus = << >> /\ Rows = {}
    BY <1>2 DEF IInv, PhaseAgrees, Rows
  <2> QED
    BY <2>1
<1> QED
  BY <1>1, <1>2

LEMMA RowsStart == Init => RowsArePlanned /\ AnswersAreTyped
<1> SUFFICES ASSUME Init PROVE RowsArePlanned /\ AnswersAreTyped
  OBVIOUS
<1>1. RowsArePlanned
  BY DEF Init, RowsArePlanned, Rows
<1>2. AnswersAreTyped
  BY DEF Init, NoView, AnswersAreTyped
<1> QED
  BY <1>1, <1>2

\* The runner moves the statuses of rows and leaves the rows as they were launched.
LEMMA RunnerKeepsRows ==
    ASSUME IInv, RowsArePlanned, AnswersAreTyped, NEW r \in Rows, NEW success \in BOOLEAN,
           StepStarts(r) \/ StepEnds(r, success) \/ JobEnds(r, success)
    PROVE  RowsArePlanned' /\ AnswersAreTyped'
<1>1. UNCHANGED << handler, reader, view >>
  BY DEF StepStarts, StepEnds, JobEnds
<1>2. AnswersAreTyped'
  BY <1>1 DEF AnswersAreTyped, view, pipelineView, jobView
<1>3. UNCHANGED << files, phase, results, plan, jobRow >>
  BY <1>1 DEF handler
<1>4. DOMAIN stepStatus = Rows /\ workflowStatus \in [Workflows -> RunStatus]
  BY DEF IInv, RowsAreTyped
<1>5. Workflows' = Workflows
  <2>1. CASE UNCHANGED workflowStatus
    BY <2>1 DEF Workflows
  <2>2. CASE JobEnds(r, success)
    BY <2>2 DEF JobEnds, Workflows
  <2> QED
    BY <2>1, <2>2 DEF StepStarts, StepEnds
<1>6. \A q \in Rows : DOMAIN stepStatus'[q] = DOMAIN stepStatus[q]
  <2>1. CASE UNCHANGED stepStatus
    BY <2>1
  <2>2. CASE StepStarts(r)
    BY <2>2, <1>4 DEF StepStarts
  <2>3. CASE StepEnds(r, success)
    BY <2>3, <1>4 DEF StepEnds
  <2> QED
    BY <2>1, <2>2, <2>3 DEF JobEnds
<1>7. RowsArePlanned'
  BY <1>3, <1>5, <1>6 DEF RowsArePlanned, Rows
<1> QED
  BY <1>2, <1>7

\* So does the handler but for the launch, which inserts the rows of the plan.
LEMMA HandlerKeepsRows ==
    ASSUME IInv, RowsArePlanned, AnswersAreTyped, Check \/ Launch \/ LaunchFails
    PROVE  RowsArePlanned' /\ AnswersAreTyped'
<1>1. UNCHANGED << reader, view, files >>
  BY DEF Check, Launch, LaunchFails
<1>2. AnswersAreTyped'
  BY <1>1 DEF AnswersAreTyped, view, pipelineView, jobView
<1>3. CASE Check
  <2>1. /\ phase = "received" /\ phase' = "checked" /\ UNCHANGED << files, jobRow, runs >>
        /\ results' = ParseKdlConfigs(files).results
    BY <1>3 DEF Check
  <2> QED
    BY <2>1, <1>2 DEF RowsArePlanned, Rows, runs
<1>4. CASE LaunchFails
  <2>1. /\ phase = "checked" /\ phase' = "failed"
        /\ UNCHANGED << files, results, plan, jobRow, runs >>
    BY <1>4 DEF LaunchFails
  <2> QED
    BY <2>1, <1>2 DEF RowsArePlanned, Rows, runs
<1>5. CASE Launch
  <2> DEFINE rows == RowsOf(plan)
  <2>1. /\ phase = "checked" /\ phase' = "launched" /\ UNCHANGED << files, results, plan >>
        /\ jobRow' = rows
        /\ stepStatus' = [r \in DOMAIN rows |-> [i \in DOMAIN rows[r].steps |-> "pending"]]
        /\ workflowStatus' = [w \in DOMAIN plan |-> "incomplete"]
    BY <1>5 DEF Launch
  <2>2. jobRow' = RowsOf(plan')
    BY <2>1
  <2> HIDE DEF rows
  <2>3. \A r \in Rows' : DOMAIN stepStatus'[r] = DOMAIN jobRow'[r].steps
    BY <2>1 DEF Rows
  <2>4. Workflows' = DOMAIN plan'
    BY <2>1 DEF Workflows
  <2> QED
    BY <2>1, <2>2, <2>3, <2>4, <1>2 DEF RowsArePlanned
<1> QED
  BY <1>3, <1>4, <1>5

\* The statuses shown of a list of statuses.
LEMMA ShownList ==
    ASSUME NEW n \in Nat, NEW shown, shown = [i \in 1 .. n |-> shown[i]],
           \A i \in 1 .. n : shown[i] \in ShownStatus
    PROVE  shown \in Seq(ShownStatus)
OBVIOUS

LEMMA RequestsKeepRows ==
    ASSUME IInv, RowsArePlanned, AnswersAreTyped,
           \/ \E r \in Rows : GetJob(r)
           \/ GetPipeline \/ ReadWorkflows \/ ReadJobs \/ ReadSteps \/ ListPipelines
    PROVE  RowsArePlanned' /\ AnswersAreTyped'
<1>1. UNCHANGED << handler, runs >>
  BY DEF GetJob, GetPipeline, ReadWorkflows, ReadJobs, ReadSteps, ListPipelines, Asked
<1>2. RowsArePlanned'
  BY <1>1 DEF RowsArePlanned, Rows, Workflows, handler, runs
<1>3. /\ workflowStatus \in Seq(RunStatus) /\ jobStatus \in [Rows -> RunStatus]
      /\ \A r \in Rows : \E n \in Nat : DOMAIN stepStatus[r] = 1 .. n
      /\ \A r \in Rows : stepStatus[r] \in [DOMAIN stepStatus[r] -> StepStatus]
  BY WorkflowsAreNumbered DEF IInv, RowsAreTyped
<1>4. \A s \in RunStatus : MapWorkflowStatus[s] \in ShownStatus /\ MapJobStatus[s] \in ShownStatus
  BY ShownStatuses DEF ShownStatus
<1>5. CASE \E r \in Rows : GetJob(r)
  <2>1. PICK r \in Rows : GetJob(r)
    BY <1>5
  <2>2. shownJob' \in ShownStatus
    BY <2>1, <1>3, <1>4 DEF GetJob
  <2>3. /\ reader' = "steps" /\ shownSteps' = << >>
        /\ UNCHANGED << shownWorkflows, listed >>
    BY <2>1 DEF GetJob, Asked, pipelineView
  <2> QED
    BY <1>2, <2>2, <2>3 DEF AnswersAreTyped
<1>6. CASE GetPipeline
  BY <1>2, <1>6 DEF GetPipeline, Asked, AnswersAreTyped, jobView
<1>7. CASE ReadWorkflows
  <2>1. Len(workflowStatus) \in Nat /\ DOMAIN workflowStatus = 1 .. Len(workflowStatus)
    BY <1>3
  <2>2. /\ shownWorkflows'
               = [w \in 1 .. Len(workflowStatus) |-> MapWorkflowStatus[workflowStatus[w]]]
        /\ \A w \in 1 .. Len(workflowStatus) : shownWorkflows'[w] \in ShownStatus
    BY <1>3, <1>4, <1>7, <2>1 DEF ReadWorkflows
  <2>3. shownWorkflows' \in Seq(ShownStatus)
    BY <2>1, <2>2
  <2>4. reader' \in { "idle", "jobs" } /\ UNCHANGED << shownJob, shownSteps, listed >>
    BY <1>7 DEF ReadWorkflows, jobView
  <2> QED
    BY <1>2, <2>3, <2>4 DEF AnswersAreTyped
<1>8. CASE ReadJobs
  BY <1>2, <1>8 DEF ReadJobs, AnswersAreTyped, jobView
<1>9. CASE ReadSteps
  <2> DEFINE steps == stepStatus[askedJob]
  <2>1. askedJob \in Rows
    BY <1>9 DEF ReadSteps, IInv, JobShown
  <2>2. PICK n \in Nat : DOMAIN steps = 1 .. n
    BY <2>1, <1>3
  <2>3. \A i \in 1 .. n : \A ended \in BOOLEAN : MapStepStatus(steps[i], ended) \in ShownStatus
    BY DEF MapStepStatus, ShownStatus
  <2>4. shownSteps' = [i \in DOMAIN steps |-> MapStepStatus(steps[i], shownJob # "incomplete")]
    BY <1>9 DEF ReadSteps
  <2> HIDE DEF steps
  <2>5. shownSteps' = [i \in 1 .. n |-> MapStepStatus(steps[i], shownJob # "incomplete")]
    BY <2>2, <2>4
  <2>6. ASSUME NEW i \in 1 .. n PROVE shownSteps'[i] \in ShownStatus
    <3>1. (shownJob # "incomplete") \in BOOLEAN
      OBVIOUS
    <3>2. MapStepStatus(steps[i], shownJob # "incomplete") \in ShownStatus
      BY <2>3, <3>1
    <3> QED
      BY <2>5, <3>2
  <2>7. shownSteps' \in Seq(ShownStatus)
    BY <2>5, <2>6
  <2>8. reader' = "idle" /\ UNCHANGED << shownWorkflows, shownJob, listed >>
    BY <1>9 DEF ReadSteps, pipelineView
  <2> QED
    BY <1>2, <2>7, <2>8 DEF AnswersAreTyped
<1>10. CASE ListPipelines
  <2>1. workflowStatus # << >> => workflowStatus[Len(workflowStatus)] \in RunStatus
    BY <1>3
  <2>2. listed' \in ShownStatus
    BY <1>4, <1>10, <2>1 DEF ListPipelines, ShownStatus
  <2>3. reader' = "idle" /\ UNCHANGED << shownWorkflows, shownJob, shownSteps >>
    BY <1>10 DEF ListPipelines, Asked, pipelineView, jobView
  <2> QED
    BY <1>2, <2>2, <2>3 DEF AnswersAreTyped
<1> QED
  BY <1>5, <1>6, <1>7, <1>8, <1>9, <1>10

LEMMA RowsStay == Spec => [](IInv /\ RowsArePlanned /\ AnswersAreTyped)
<1>1. RowsArePlanned /\ AnswersAreTyped /\ IInv /\ [Next]_vars
          => RowsArePlanned' /\ AnswersAreTyped'
  <2> SUFFICES ASSUME RowsArePlanned, AnswersAreTyped, IInv, [Next]_vars
               PROVE  RowsArePlanned' /\ AnswersAreTyped'
    OBVIOUS
  <2>1. CASE Check \/ Launch \/ LaunchFails
    BY <2>1, HandlerKeepsRows
  <2>2. ASSUME NEW r \in Rows, NEW success \in BOOLEAN,
               StepStarts(r) \/ StepEnds(r, success) \/ JobEnds(r, success)
        PROVE  RowsArePlanned' /\ AnswersAreTyped'
    BY <2>2, RunnerKeepsRows
  <2>3. CASE \/ \E r \in Rows : GetJob(r)
             \/ GetPipeline \/ ReadWorkflows \/ ReadJobs \/ ReadSteps \/ ListPipelines
    BY <2>3, RequestsKeepRows
  <2>4. CASE UNCHANGED vars
    BY <2>4 DEF vars, handler, runs, view, pipelineView, jobView, RowsArePlanned,
                AnswersAreTyped, Rows, Workflows
  <2> QED
    BY <2>1, <2>2, <2>3, <2>4 DEF Next
<1> QED
  BY <1>1, RowsStart, Invariance, PTL DEF Spec

LEMMA Numbered ==
    ASSUME NEW w, NEW m \in Nat
    PROVE  /\ IsFiniteSet({ << w, id >> : id \in 1 .. m })
           /\ Cardinality({ << w, id >> : id \in 1 .. m }) = m
<1> DEFINE f == [id \in 1 .. m |-> << w, id >>]
           S == { << w, id >> : id \in 1 .. m }
<1>1. f \in Bijection(1 .. m, S)
  BY DEF Bijection, Injection, Surjection, IsInjective
<1>2. IsFiniteSet(1 .. m) /\ Cardinality(1 .. m) = m
  BY Interval
<1> QED
  BY <1>1, <1>2, FS_Bijection DEF ExistsBijection


\* The runs of a workflow's jobs have the ids 1, 2, ... in the order of the text, and so
\* at most as many as there are rows.
LEMMA IdsAreRows ==
    ASSUME IInv, RowsArePlanned, NEW r \in Rows
    PROVE  r[1] \in DOMAIN plan /\ r[2] \in 1 .. Cardinality(Rows)
<1> DEFINE accepted == Accepted(files)
           declared(w) == Declared(accepted[w])
           ids(w) == 1 .. Len(declared(w))
<1>1. phase = "launched"
  BY RowsOfLaunched
<1>2. /\ jobRow = RowsOf(PlanOf(files)) /\ plan = PlanOf(files)
      /\ DOMAIN plan = DOMAIN accepted /\ IsList(plan) /\ IsList(accepted)
  BY <1>1, RowsOfFiles DEF RowsArePlanned
<1>3. Documents(files)
  BY FilesOfDelivery
<1>4. Rows = DOMAIN RowsOf(PlanOf(files))
  BY <1>2 DEF Rows
<1>5. ASSUME NEW w \in DOMAIN accepted
      PROVE  /\ IsList(declared(w)) /\ Len(declared(w)) \in Nat /\ DOMAIN declared(w) = ids(w)
             /\ \A id \in ids(w) : << w, id >> \in Rows
  <2>1. PlansText(PlanOf(files)[w], declared(w))
    BY <1>3, PlanFollowsText DEF Declared
  <2>2. IsList(declared(w))
    BY <2>1 DEF PlansText
  <2> HIDE DEF declared, accepted
  <2>3. Len(declared(w)) \in Nat /\ DOMAIN declared(w) = ids(w)
    BY <2>2, ListDomain
  <2> USE DEF declared, accepted
  <2>4. \A id \in DOMAIN declared(w) : << w, id >> \in Rows
    BY <1>3, <1>4, RowsFollowText
  <2> QED
    BY <2>2, <2>3, <2>4
<1>6. \A q \in Rows : q = << q[1], q[2] >> /\ q[1] \in DOMAIN accepted /\ q[2] \in ids(q[1])
  <2>1. \A q \in Rows : /\ q = << q[1], q[2] >> /\ q[1] \in DOMAIN accepted
                        /\ q[2] \in DOMAIN declared(q[1])
    BY <1>3, <1>4, RowsFollowText
  <2> HIDE DEF declared, accepted
  <2> QED
    BY <2>1, <1>5
<1> HIDE DEF declared, accepted
<1>7. IsFiniteSet(Rows)
  <2> DEFINE rowsOf(w) == { << w, id >> : id \in ids(w) }
             all == { rowsOf(w) : w \in DOMAIN accepted }
             f == [w \in DOMAIN accepted |-> rowsOf(w)]
  <2>1. \A w \in DOMAIN accepted : IsFiniteSet(rowsOf(w))
    BY <1>5, Numbered
  <2>2. IsFiniteSet(DOMAIN accepted)
    <3>1. Len(accepted) \in Nat /\ DOMAIN accepted = 1 .. Len(accepted)
      BY <1>2, ListDomain
    <3> QED
      BY <3>1, Interval
  <2>3. f \in Surjection(DOMAIN accepted, all)
    BY DEF Surjection
  <2> HIDE DEF f
  <2>4. \A T \in all : IsFiniteSet(T)
    BY <2>1
  <2>5. IsFiniteSet(UNION all)
    <3> HIDE DEF all
    <3>1. IsFiniteSet(all)
      BY <2>2, <2>3, FS_Surjection
    <3> QED
      BY <2>4, <3>1, FS_UNION
  <2>6. Rows \in SUBSET UNION all
    BY <1>6
  <2> HIDE DEF all
  <2> QED
    BY <2>5, <2>6, FS_Subset
<1>8. r[1] \in DOMAIN accepted /\ r[2] \in ids(r[1])
  BY <1>6
<1> DEFINE w == r[1]
           mine == { << w, id >> : id \in ids(w) }
<1>9. Cardinality(mine) = Len(declared(w)) /\ mine \in SUBSET Rows
  BY <1>5, <1>8, Numbered
<1>10. Cardinality(mine) <= Cardinality(Rows) /\ Cardinality(Rows) \in Nat
  <2> HIDE DEF mine
  <2> QED
    BY <1>7, <1>9, FS_Subset, FS_CardinalityType
<1> QED
  BY <1>2, <1>5, <1>8, <1>9, <1>10

\* From what a delivery finds to what the API shows, the state is what the tables and
\* the answers hold: one list of errors per file, rows named by the workflows of the
\* plan and by ids that count the jobs, a status for every row and every step of it.
THEOREM RowsAreWellFormed == Spec => []TypeOK
<1>1. IInv /\ RowsArePlanned /\ AnswersAreTyped => TypeOK
  <2> SUFFICES ASSUME IInv, RowsArePlanned, AnswersAreTyped PROVE TypeOK
    OBVIOUS
  <2>1. phase \in { "received", "checked", "launched", "failed" }
    BY DEF RowsArePlanned
  <2>2. Len(results) \in { 0, Len(files) }
    <3>1. CASE phase = "received"
      BY <3>1 DEF RowsArePlanned
    <3>2. CASE phase # "received"
      <4>1. /\ DOMAIN results = DOMAIN files
            /\ results = [i \in DOMAIN files |-> results[i]]
        BY <3>2 DEF RowsArePlanned, ParseKdlConfigs
      <4>2. Len(files) \in Nat /\ DOMAIN files = 1 .. Len(files)
        BY FilesOfDelivery, ListDomain DEF Documents
      <4>3. Len(results) = Len(files)
        BY <4>1, <4>2, ListOf
      <4> QED
        BY <4>3
    <3> QED
      BY <3>1, <3>2
  <2>3. \A r \in Rows : r[1] \in DOMAIN plan /\ r[2] \in 1 .. Cardinality(Rows)
    BY IdsAreRows
  <2>4. /\ DOMAIN jobStatus = Rows
        /\ \A r \in Rows : jobStatus[r] \in { "incomplete", "succeeded", "failed" }
        /\ DOMAIN stepStatus = Rows
        /\ \A r \in Rows : stepStatus[r] \in [DOMAIN jobRow[r].steps -> StepStatus]
        /\ conclusion \in { "incomplete", "succeeded", "failed" }
    BY DEF IInv, RowsAreTyped, RowsArePlanned, RunStatus
  <2>5. workflowStatus \in Seq({ "incomplete", "succeeded", "failed" })
    BY WorkflowsAreNumbered DEF RunStatus
  <2>6. DOMAIN shownJobs \subseteq DOMAIN shownWorkflows
    BY DEF IInv, PipelineShown
  <2> QED
    BY <2>1, <2>2, <2>3, <2>4, <2>5, <2>6 DEF TypeOK, AnswersAreTyped
<1> QED
  BY <1>1, RowsStay, PTL

\* Nothing is lost between the text of the files and the rows: every accepted file that
\* declares a stage or a job is a workflow of the launched pipeline, and each of its
\* jobs has one row, with the name and the commands declared.
THEOREM TextIsKept == Spec => []PlanKeepsJobs
<1>1. IInv /\ RowsArePlanned => PlanKeepsJobs
  <2> SUFFICES ASSUME IInv, RowsArePlanned, phase = "launched"
               PROVE  /\ DOMAIN workflowStatus = DOMAIN Accepted(files)
                      /\ \A w \in DOMAIN Accepted(files) :
                             LET declared == Declared(Accepted(files)[w]) IN
                             /\ { r[2] : r \in { r \in Rows : r[1] = w } } = DOMAIN declared
                             /\ \A id \in DOMAIN declared :
                                    RowSays(jobRow[<< w, id >>], declared[id])
    BY DEF PlanKeepsJobs, Accepted, Declared, RowSays
  <2>1. DOMAIN workflowStatus = DOMAIN Accepted(files) /\ jobRow = RowsOf(PlanOf(files))
    BY RowsOfFiles DEF Workflows
  <2>2. Documents(files) /\ Rows = DOMAIN RowsOf(PlanOf(files))
    BY <2>1, FilesOfDelivery DEF Rows
  <2>3. ASSUME NEW w \in DOMAIN Accepted(files)
        PROVE  /\ { r[2] : r \in { r \in Rows : r[1] = w } }
                      = DOMAIN Declared(Accepted(files)[w])
               /\ \A id \in DOMAIN Declared(Accepted(files)[w]) :
                      RowSays(jobRow[<< w, id >>], Declared(Accepted(files)[w])[id])
    <3>1. \A id \in DOMAIN Declared(Accepted(files)[w]) :
              /\ << w, id >> \in Rows
              /\ RowSays(jobRow[<< w, id >>], Declared(Accepted(files)[w])[id])
      BY <2>1, <2>2, RowsFollowText
    <3>2. \A r \in Rows : r[1] = w => r[2] \in DOMAIN Declared(Accepted(files)[w])
      BY <2>2, RowsFollowText
    <3> DEFINE ids == DOMAIN Declared(Accepted(files)[w])
               mine == { r \in Rows : r[1] = w }
    <3>3. ASSUME NEW id \in ids PROVE \E r \in mine : r[2] = id
      <4>1. << w, id >> \in mine /\ << w, id >>[2] = id
        BY <3>1
      <4> HIDE DEF mine
      <4> QED
        BY <4>1
    <3>4. \A r \in mine : r[2] \in ids
      BY <3>2
    <3> HIDE DEF ids, mine
    <3>5. { r[2] : r \in mine } = ids
      BY <3>3, <3>4
    <3> QED
      BY <3>1, <3>5 DEF ids, mine
  <2> QED
    BY <2>1, <2>3
<1> QED
  BY <1>1, RowsStay, PTL
-----------------------------------------------------------------------------
(* What is settled stays.                                                  *)

\* The success of a job's last step on record is overwritten.
TakenBack(r, i) ==
    /\ jobStatus[r] = "incomplete"
    /\ stepStatus[r][i] = "succeeded" /\ stepStatus'[r][i] = "failed"
    /\ \A k \in DOMAIN stepStatus[r] : k > i => stepStatus[r][k] = "pending"

\* The rows of a launched pipeline stay, and so do the statuses that are settled,
\* but for the success of a last step; a step that has begun has.
Settles ==
    /\ jobRow' = jobRow /\ Workflows' = Workflows
    /\ \A r \in Rows : jobStatus[r] # "incomplete" => jobStatus'[r] = jobStatus[r]
    /\ \A r \in Rows :
           /\ DOMAIN stepStatus'[r] = DOMAIN stepStatus[r]
           /\ jobStatus[r] # "incomplete" => stepStatus'[r] = stepStatus[r]
           /\ \A i \in DOMAIN stepStatus[r] :
                  /\ stepStatus[r][i] \in { "succeeded", "failed" } =>
                         stepStatus'[r][i] = stepStatus[r][i] \/ TakenBack(r, i)
                  /\ stepStatus[r][i] # "pending" => stepStatus'[r][i] # "pending"
    /\ \A w \in Workflows : workflowStatus[w] # "incomplete" =>
           workflowStatus'[w] = workflowStatus[w]
    /\ conclusion # "incomplete" => conclusion' = conclusion

\* One step of a job changes its status.
LEMMA StepSettles ==
    ASSUME IInv, NEW r \in Rows, NEW i \in DOMAIN stepStatus[r], NEW s \in StepStatus,
           jobStatus[r] = "incomplete", s # "pending",
           \/ stepStatus[r][i] \notin { "succeeded", "failed" }
           \/ /\ stepStatus[r][i] = "succeeded" /\ s = "failed"
              /\ \A k \in DOMAIN stepStatus[r] : k > i => stepStatus[r][k] = "pending",
           stepStatus' = [stepStatus EXCEPT ![r][i] = s],
           UNCHANGED << handler, jobStatus, workflowStatus, conclusion >>
    PROVE  Settles
<1>1. DOMAIN stepStatus = Rows /\ stepStatus[r] \in [DOMAIN stepStatus[r] -> StepStatus]
  BY DEF IInv, RowsAreTyped
<1>2. /\ \A q \in Rows \ { r } : stepStatus'[q] = stepStatus[q]
      /\ stepStatus'[r] = [stepStatus[r] EXCEPT ![i] = s]
  BY <1>1
<1>3. /\ DOMAIN stepStatus'[r] = DOMAIN stepStatus[r] /\ stepStatus'[r][i] = s
      /\ \A k \in DOMAIN stepStatus[r] \ { i } : stepStatus'[r][k] = stepStatus[r][k]
  BY <1>1, <1>2
<1>4. ASSUME NEW q \in Rows
      PROVE  /\ DOMAIN stepStatus'[q] = DOMAIN stepStatus[q]
             /\ jobStatus[q] # "incomplete" => stepStatus'[q] = stepStatus[q]
             /\ \A k \in DOMAIN stepStatus[q] :
                    /\ stepStatus[q][k] \in { "succeeded", "failed" } =>
                           stepStatus'[q][k] = stepStatus[q][k] \/ TakenBack(q, k)
                    /\ stepStatus[q][k] # "pending" => stepStatus'[q][k] # "pending"
  <2>1. CASE q = r
    BY <2>1, <1>3 DEF TakenBack
  <2>2. CASE q # r
    BY <2>2, <1>2
  <2> QED
    BY <2>1, <2>2
<1> QED
  BY <1>4 DEF Settles, handler, Workflows

\* A job ends once, before its workflow is settled and the pipeline concluded.
LEMMA JobSettles ==
    ASSUME IInv, NEW r \in Rows, NEW success \in BOOLEAN, JobEnds(r, success)
    PROVE  Settles
<1> DEFINE w == r[1]
<1>1. /\ jobStatus \in [Rows -> RunStatus] /\ workflowStatus \in [Workflows -> RunStatus]
      /\ w \in Workflows
  BY DEF IInv, RowsAreTyped
<1>2. /\ jobStatus[r] = "incomplete"
      /\ jobStatus' = [jobStatus EXCEPT ![r] = Runs!StatusFor(success)]
      /\ UNCHANGED << handler, stepStatus >>
  BY DEF JobEnds
<1>3. workflowStatus[w] = "incomplete" /\ conclusion = "incomplete"
  BY <1>1, <1>2 DEF IInv, VerdictsAgree, RowsAreTyped
<1>4. \A q \in Rows \ { r } : jobStatus'[q] = jobStatus[q]
  BY <1>1, <1>2
<1>5. PICK verdict : workflowStatus' = workflowStatus
                     \/ workflowStatus' = [workflowStatus EXCEPT ![w] = verdict]
  BY DEF JobEnds
<1>6. Workflows' = Workflows /\ \A v \in Workflows \ { w } : workflowStatus'[v] = workflowStatus[v]
  BY <1>1, <1>5 DEF Workflows
<1> QED
  BY <1>2, <1>3, <1>4, <1>6 DEF Settles, handler

LEMMA RunSettles ==
    ASSUME IInv, [Next]_vars, phase = "launched"
    PROVE  Settles
<1>1. ASSUME UNCHANGED << handler, runs >>
      PROVE  Settles
  BY <1>1 DEF Settles, handler, runs, Workflows
<1>2. ASSUME NEW r \in Rows, StepStarts(r)
      PROVE  Settles
  <2>1. PICK i \in DOMAIN stepStatus[r] :
            /\ stepStatus[r][i] = "pending"
            /\ stepStatus' = [stepStatus EXCEPT ![r][i] = "started"]
    BY <1>2 DEF StepStarts
  <2>2. "started" \in StepStatus
    BY DEF StepStatus
  <2> QED
    BY <1>2, <2>1, <2>2, StepSettles DEF StepStarts
<1>3. ASSUME NEW r \in Rows, NEW success \in BOOLEAN, StepEnds(r, success)
      PROVE  Settles
  <2>1. PICK i \in DOMAIN stepStatus[r] :
            /\ \A k \in DOMAIN stepStatus[r] : k > i => stepStatus[r][k] = "pending"
            /\ IF success THEN stepStatus[r][i] = "started" ELSE stepStatus[r][i] # "failed"
            /\ stepStatus' = [stepStatus EXCEPT ![r][i] = Runs!StatusFor(success)]
    BY <1>3 DEF StepEnds
  <2>2. /\ Runs!StatusFor(success) \in StepStatus /\ Runs!StatusFor(success) # "pending"
        /\ ~success => Runs!StatusFor(success) = "failed"
    BY DEF StepStatus, Runs!StatusFor
  <2>3. jobStatus[r] = "incomplete" /\ UNCHANGED << handler, jobStatus, workflowStatus, conclusion >>
    BY <1>3 DEF StepEnds
  <2> QED
    BY <2>1, <2>2, <2>3, StepSettles
<1>4. CASE \/ \E r \in Rows : GetJob(r)
           \/ GetPipeline \/ ReadWorkflows \/ ReadJobs \/ ReadSteps \/ ListPipelines
           \/ UNCHANGED vars
  <2>1. UNCHANGED << handler, runs >>
    BY <1>4 DEF GetJob, GetPipeline, ReadWorkflows, ReadJobs, ReadSteps, ListPipelines,
                Asked, vars
  <2> QED
    BY <1>1, <2>1
<1>5. ~Check /\ ~Launch /\ ~LaunchFails
  BY DEF Check, Launch, LaunchFails
<1> QED
  BY <1>2, <1>3, <1>4, <1>5, JobSettles DEF Next

-----------------------------------------------------------------------------
(* What was shown as settled holds.                                        *)

\* The rows that an answer speaks of are there.
AnswersAreOfRows ==
    /\ \A w \in DOMAIN shownJobs : \A id \in DOMAIN shownJobs[w] : << w, id >> \in Rows
    /\ shownJob # "none" => askedJob \in Rows
    /\ shownSteps # << >> =>
           /\ askedJob \in Rows /\ shownJob # "none"
           /\ DOMAIN shownSteps \subseteq DOMAIN stepStatus[askedJob]
    /\ \A i \in DOMAIN shownSteps : shownSteps[i] # "pending" =>
           stepStatus[askedJob][i] # "pending"
    /\ listed \in { "completed", "failed" } => Workflows # {}

RowsInv == IInv /\ RowsArePlanned /\ AnswersAreTyped
AnswersInv == RowsInv /\ AnswersAreOfRows /\ SettledAnswersHold

\* The latest workflow stays the latest.
LEMMA LatestStays ==
    ASSUME RowsInv, RowsInv', Workflows' = Workflows
    PROVE  /\ Len(workflowStatus') = Len(workflowStatus)
           /\ Workflows = 1 .. Len(workflowStatus) /\ Len(workflowStatus) \in Nat
<1>1. workflowStatus \in Seq(RunStatus)
  BY WorkflowsAreNumbered DEF RowsInv
<1>2. Len(workflowStatus) \in Nat /\ Workflows = 1 .. Len(workflowStatus)
  BY <1>1 DEF Workflows
<1>3. workflowStatus' \in [1 .. Len(workflowStatus) -> RunStatus]
  BY <1>2 DEF RowsInv, IInv, RowsAreTyped
<1> QED
  BY <1>2, <1>3

\* A step that has ended is shown as what it is whether its job has or not.
LEMMA ShownEnded ==
    ASSUME NEW s \in StepStatus, NEW ended \in BOOLEAN,
           MapStepStatus(s, ended) \in { "completed", "failed" }
    PROVE  s \in { "succeeded", "failed" } /\ MapStepStatus(s, ended) = MapStepStatus(s, TRUE)
  BY DEF MapStepStatus, StepStatus

\* The runner leaves answers alone, and what is settled.
LEMMA RunnerKeepsAnswers ==
    ASSUME AnswersInv, RowsInv', Settles, UNCHANGED view
    PROVE  AnswersInv'
<1>1. /\ UNCHANGED << shownWorkflows, shownJobs, askedJob, shownJob, shownSteps, listed >>
      /\ Rows' = Rows /\ Workflows' = Workflows
  BY DEF view, pipelineView, jobView, Settles, Rows
<1>2. /\ \A r \in Rows : jobStatus[r] \in RunStatus
      /\ \A w \in Workflows : workflowStatus[w] \in RunStatus
      /\ \A r \in Rows : \A i \in DOMAIN stepStatus[r] : stepStatus[r][i] \in StepStatus
  BY DEF AnswersInv, RowsInv, IInv, RowsAreTyped
<1>3. AnswersAreOfRows'
  <2>1. ASSUME NEW i \in DOMAIN shownSteps, shownSteps[i] # "pending"
        PROVE  stepStatus'[askedJob][i] # "pending"
    <3>1. shownSteps # << >>
      BY <2>1
    <3>2. /\ askedJob \in Rows /\ i \in DOMAIN stepStatus[askedJob]
          /\ stepStatus[askedJob][i] # "pending"
      BY <3>1, <2>1 DEF AnswersInv, AnswersAreOfRows
    <3> QED
      BY <3>2 DEF Settles
  <2> QED
    BY <1>1, <2>1 DEF AnswersInv, AnswersAreOfRows, Settles
<1>4. ASSUME NEW w \in DOMAIN shownWorkflows, shownWorkflows[w] # "incomplete"
      PROVE  shownWorkflows[w] = MapWorkflowStatus[workflowStatus'[w]]
  <2>1. w \in Workflows /\ workflowStatus[w] # "incomplete"
    BY <1>4 DEF AnswersInv, RowsInv, IInv, PipelineShown
  <2> QED
    BY <2>1, <1>4 DEF AnswersInv, SettledAnswersHold, Settles
<1>5. ASSUME NEW w \in DOMAIN shownJobs, NEW id \in DOMAIN shownJobs[w],
             shownJobs[w][id] # "incomplete"
      PROVE  shownJobs[w][id] = MapJobStatus[jobStatus'[<< w, id >>]]
  <2> DEFINE r == << w, id >>
  <2>1. r \in Rows /\ shownJobs[w][id] = MapJobStatus[jobStatus[r]]
    BY <1>5 DEF AnswersInv, AnswersAreOfRows, SettledAnswersHold
  <2>2. jobStatus[r] # "incomplete"
    BY <2>1, <1>2, <1>5, ShownStatuses
  <2> HIDE DEF r
  <2>3. jobStatus'[r] = jobStatus[r]
    BY <2>1, <2>2 DEF Settles
  <2> QED
    BY <2>1, <2>3 DEF r
<1>6. ASSUME shownJob \notin { "none", "incomplete" }
      PROVE  shownJob = MapJobStatus[jobStatus'[askedJob]]
  <2>1. askedJob \in Rows /\ shownJob = MapJobStatus[jobStatus[askedJob]]
    BY <1>6 DEF AnswersInv, AnswersAreOfRows, SettledAnswersHold
  <2>2. jobStatus[askedJob] # "incomplete"
    BY <2>1, <1>2, <1>6, ShownStatuses
  <2> QED
    BY <2>1, <2>2 DEF Settles
<1>7. ASSUME NEW i \in DOMAIN shownSteps, shownSteps[i] \in { "completed", "failed" }
      PROVE  \/ shownSteps[i] = MapStepStatus(stepStatus'[askedJob][i], TRUE)
             \/ /\ shownSteps[i] = "completed" /\ shownJob = "incomplete"
                /\ \A k \in DOMAIN shownSteps : k > i => shownSteps[k] = "pending"
                /\ stepStatus'[askedJob][i] = "failed" /\ jobStatus'[askedJob] # "succeeded"
  <2> DEFINE step == stepStatus[askedJob][i]
             later == \A k \in DOMAIN shownSteps : k > i => shownSteps[k] = "pending"
  <2>1. askedJob \in Rows /\ i \in DOMAIN stepStatus[askedJob] /\ shownJob # "none"
    <3>1. shownSteps # << >>
      BY <1>7
    <3> QED
      BY <1>7, <3>1 DEF AnswersInv, AnswersAreOfRows
  <2>2. /\ step \in { "succeeded", "failed" }
        /\ \/ shownSteps[i] = MapStepStatus(step, TRUE)
           \/ shownSteps[i] = "completed" /\ shownJob = "incomplete" /\ later /\ step = "failed"
    <3>1. \/ shownSteps[i] = MapStepStatus(step, TRUE)
          \/ shownSteps[i] = "completed" /\ shownJob = "incomplete" /\ later /\ step = "failed"
      BY <1>7 DEF AnswersInv, SettledAnswersHold
    <3> QED
      BY <3>1, <2>1, <1>2, <1>7, ShownEnded
  <2>3. stepStatus'[askedJob][i] = step \/ TakenBack(askedJob, i)
    BY <2>1, <2>2 DEF Settles
  <2>4. stepStatus'[askedJob][i] = "failed" => jobStatus'[askedJob] # "succeeded"
    BY <2>1, <1>1 DEF RowsInv, IInv, StepsAgree, Settles
  <2>5. CASE stepStatus'[askedJob][i] = step
    BY <2>2, <2>4, <2>5
  <2>6. CASE TakenBack(askedJob, i)
    <3>1. step = "succeeded" /\ stepStatus'[askedJob][i] = "failed"
      BY <2>6 DEF TakenBack
    <3>2. shownSteps[i] = "completed"
      BY <2>2, <3>1 DEF MapStepStatus
    <3>3. shownJob = "incomplete"
      <4>1. MapJobStatus[jobStatus[askedJob]] = "incomplete"
        BY <2>1, <2>6, <1>2, ShownStatuses DEF TakenBack
      <4> QED
        BY <4>1, <2>1 DEF AnswersInv, SettledAnswersHold
    <3>4. ASSUME NEW k \in DOMAIN shownSteps, k > i
          PROVE  shownSteps[k] = "pending"
      <4>1. shownSteps # << >>
        BY <3>4
      <4>2. k \in DOMAIN stepStatus[askedJob]
        BY <4>1, <3>4 DEF AnswersInv, AnswersAreOfRows
      <4>3. stepStatus[askedJob][k] = "pending"
        BY <4>2, <3>4, <2>6 DEF TakenBack
      <4> QED
        BY <4>3, <3>4 DEF AnswersInv, AnswersAreOfRows
    <3> QED
      BY <3>1, <3>2, <3>3, <3>4, <2>4
  <2> QED
    BY <2>3, <2>5, <2>6
<1>8. ASSUME listed \in { "completed", "failed" }
      PROVE  listed = MapWorkflowStatus[workflowStatus'[Len(workflowStatus')]]
  <2> DEFINE latest == Len(workflowStatus)
  <2>1. latest \in Workflows /\ Len(workflowStatus') = latest
    <3>1. Workflows # {}
      BY <1>8 DEF AnswersInv, AnswersAreOfRows
    <3> QED
      BY <3>1, <1>1, LatestStays DEF AnswersInv
  <2>2. listed = MapWorkflowStatus[workflowStatus[latest]]
    BY <1>8 DEF AnswersInv, SettledAnswersHold
  <2> HIDE DEF latest
  <2>3. workflowStatus[latest] # "incomplete"
    BY <2>1, <2>2, <1>2, <1>8, ShownStatuses
  <2>4. workflowStatus'[latest] = workflowStatus[latest]
    BY <2>1, <2>3 DEF Settles
  <2> QED
    BY <2>1, <2>2, <2>4
<1>9. SettledAnswersHold'
  BY <1>1, <1>4, <1>5, <1>6, <1>7, <1>8 DEF SettledAnswersHold
<1> QED
  BY <1>3, <1>9 DEF AnswersInv

\* A request reads what the rows say.
LEMMA RequestsAnswer ==
    ASSUME AnswersInv, RowsInv',
           \/ \E r \in Rows : GetJob(r)
           \/ GetPipeline \/ ReadWorkflows \/ ReadJobs \/ ReadSteps \/ ListPipelines
    PROVE  AnswersInv'
<1>1. UNCHANGED << jobRow, jobStatus, stepStatus, workflowStatus >>
  BY DEF GetJob, GetPipeline, ReadWorkflows, ReadJobs, ReadSteps, ListPipelines, Asked,
         handler, runs
<1>2. /\ Rows' = Rows /\ Workflows' = Workflows
      /\ \A r \in Rows : r = << r[1], r[2] >>
      /\ \A r \in Rows : \A i \in DOMAIN stepStatus[r] : stepStatus[r][i] \in StepStatus
  BY <1>1 DEF Rows, Workflows, AnswersInv, RowsInv, IInv, RowsAreTyped
<1>3. \A w \in DOMAIN shownWorkflows' : shownWorkflows'[w] # "incomplete" =>
          shownWorkflows'[w] = MapWorkflowStatus[workflowStatus[w]]
  BY <1>1 DEF RowsInv, IInv, PipelineShown
<1>4. ASSUME NEW r \in Rows, GetJob(r)
      PROVE  AnswersInv'
  <2>1. /\ askedJob' = r /\ shownJob' = MapJobStatus[jobStatus[r]] /\ shownSteps' = << >>
        /\ UNCHANGED << shownJobs, listed >>
    BY <1>4 DEF GetJob, pipelineView
  <2> QED
    BY <2>1, <1>1, <1>2, <1>3 DEF AnswersInv, AnswersAreOfRows, SettledAnswersHold
<1>5. CASE GetPipeline \/ ReadWorkflows
  <2>1. /\ shownJobs' \in { shownJobs, << >> }
        /\ UNCHANGED << askedJob, shownJob, shownSteps, listed >>
    BY <1>5 DEF GetPipeline, ReadWorkflows, jobView
  <2>2. \A w \in DOMAIN shownJobs' : w \in DOMAIN shownJobs /\ shownJobs'[w] = shownJobs[w]
    BY <2>1
  <2>3. ASSUME NEW w \in DOMAIN shownJobs', NEW id \in DOMAIN shownJobs'[w]
        PROVE  /\ << w, id >> \in Rows
               /\ shownJobs'[w][id] # "incomplete" =>
                      shownJobs'[w][id] = MapJobStatus[jobStatus[<< w, id >>]]
    BY <2>2, <2>3 DEF AnswersInv, AnswersAreOfRows, SettledAnswersHold
  <2>4. AnswersAreOfRows'
    BY <2>1, <2>3, <1>1, <1>2 DEF AnswersInv, AnswersAreOfRows
  <2>5. SettledAnswersHold'
    BY <2>1, <2>3, <1>1, <1>3 DEF AnswersInv, SettledAnswersHold
  <2> QED
    BY <2>4, <2>5 DEF AnswersInv
<1>6. CASE ReadJobs
  <2>1. PICK w : shownJobs' = [v \in DOMAIN shownJobs \cup { w } |->
                                  IF v = w THEN JobsShown(w) ELSE shownJobs[v]]
    BY <1>6 DEF ReadJobs
  <2>2. UNCHANGED << askedJob, shownJob, shownSteps, listed >>
    BY <1>6 DEF ReadJobs, jobView
  <2>3. ASSUME NEW id \in DOMAIN JobsShown(w)
        PROVE  /\ << w, id >> \in Rows
               /\ JobsShown(w)[id] = MapJobStatus[jobStatus[<< w, id >>]]
    <3>1. Runs!JobsOf(w) = { r \in Rows : r[1] = w }
      BY DEF Runs!JobsOf
    <3>2. PICK r \in Rows : r[1] = w /\ r[2] = id
      BY <2>3, <3>1 DEF JobsShown
    <3> QED
      BY <2>3, <3>2, <1>2 DEF JobsShown
  <2>4. ASSUME NEW v \in DOMAIN shownJobs', NEW id \in DOMAIN shownJobs'[v]
        PROVE  /\ << v, id >> \in Rows
               /\ shownJobs'[v][id] # "incomplete" =>
                      shownJobs'[v][id] = MapJobStatus[jobStatus[<< v, id >>]]
    <3>1. CASE v = w
      BY <3>1, <2>1, <2>3, <2>4
    <3>2. CASE v # w
      <4>1. v \in DOMAIN shownJobs /\ shownJobs'[v] = shownJobs[v]
        BY <3>2, <2>1
      <4> QED
        BY <4>1, <2>4 DEF AnswersInv, AnswersAreOfRows, SettledAnswersHold
    <3> QED
      BY <3>1, <3>2
  <2>5. AnswersAreOfRows'
    BY <2>2, <2>4, <1>1, <1>2 DEF AnswersInv, AnswersAreOfRows
  <2>6. SettledAnswersHold'
    BY <2>2, <2>4, <1>1, <1>3 DEF AnswersInv, SettledAnswersHold
  <2> QED
    BY <2>5, <2>6 DEF AnswersInv
<1>7. CASE ReadSteps
  <2> DEFINE steps == stepStatus[askedJob]
             ended == shownJob # "incomplete"
  <2>1. askedJob \in Rows
    BY <1>7 DEF ReadSteps, AnswersInv, RowsInv, IInv, JobShown
  <2>2. /\ shownSteps' = [i \in DOMAIN steps |-> MapStepStatus(steps[i], ended)]
        /\ UNCHANGED << shownJobs, askedJob, shownJob, listed >>
    BY <1>7 DEF ReadSteps, pipelineView
  <2>3. ended \in BOOLEAN /\ \A i \in DOMAIN steps : steps[i] \in StepStatus
    BY <2>1, <1>2
  <2> HIDE DEF steps, ended
  <2>4. ASSUME NEW i \in DOMAIN steps, shownSteps'[i] \in { "completed", "failed" }
        PROVE  shownSteps'[i] = MapStepStatus(steps[i], TRUE)
    <3>1. shownSteps'[i] = MapStepStatus(steps[i], ended)
      BY <2>2
    <3> QED
      BY <2>3, <2>4, <3>1, ShownEnded
  <2>5. /\ DOMAIN shownSteps' = DOMAIN steps
        /\ \A i \in DOMAIN steps : shownSteps'[i] # "pending" => steps[i] # "pending"
    BY <2>2, <2>3, ShownStep
  <2>6. shownJob # "none"
    BY <1>7 DEF ReadSteps, AnswersInv, RowsInv, IInv, JobShown
  <2> USE DEF steps
  <2>7. AnswersAreOfRows'
    BY <2>1, <2>2, <2>5, <2>6, <1>1, <1>2 DEF AnswersInv, AnswersAreOfRows
  <2>8. SettledAnswersHold'
    BY <2>2, <2>4, <2>5, <1>1, <1>3 DEF AnswersInv, SettledAnswersHold
  <2> QED
    BY <2>7, <2>8 DEF AnswersInv
<1>8. CASE ListPipelines
  <2>1. /\ listed' = IF workflowStatus = << >> THEN "pending"
                     ELSE MapWorkflowStatus[workflowStatus[Len(workflowStatus)]]
        /\ UNCHANGED << shownJobs, askedJob, shownJob, shownSteps >>
    BY <1>8 DEF ListPipelines, pipelineView, jobView
  <2>2. workflowStatus # << >> => Workflows # {}
    <3>1. workflowStatus \in Seq(RunStatus)
      BY WorkflowsAreNumbered DEF AnswersInv, RowsInv
    <3> QED
      BY <3>1 DEF Workflows
  <2> QED
    BY <2>1, <2>2, <1>1, <1>2, <1>3 DEF AnswersInv, AnswersAreOfRows, SettledAnswersHold
<1> QED
  BY <1>4, <1>5, <1>6, <1>7, <1>8

LEMMA AnswersStay == Spec => []AnswersInv
<1>1. Init => AnswersAreOfRows /\ SettledAnswersHold
  BY DEF Init, NoView, AnswersAreOfRows, SettledAnswersHold
<1>2. AnswersInv /\ RowsInv' /\ [Next]_vars => AnswersInv'
  <2> SUFFICES ASSUME AnswersInv, RowsInv', [Next]_vars PROVE AnswersInv'
    OBVIOUS
  <2>1. CASE \/ \E r \in Rows : GetJob(r)
             \/ GetPipeline \/ ReadWorkflows \/ ReadJobs \/ ReadSteps \/ ListPipelines
    BY <2>1, RequestsAnswer
  <2>2. CASE \/ \E r \in Rows : \/ StepStarts(r)
                                \/ \E success \in BOOLEAN : StepEnds(r, success) \/ JobEnds(r, success)
             \/ Check \/ Launch \/ LaunchFails \/ UNCHANGED vars
    <3>1. UNCHANGED view
      BY <2>2 DEF StepStarts, StepEnds, JobEnds, Check, Launch, LaunchFails, vars
    <3>2. CASE phase = "launched"
      BY <3>1, <3>2, RunSettles, RunnerKeepsAnswers DEF AnswersInv, RowsInv
    <3>3. CASE phase # "launched"
      <4>1. NoView
        BY <3>3 DEF AnswersInv, RowsInv, IInv, PhaseAgrees
      <4>2. NoView'
        BY <4>1, <3>1 DEF NoView, view, pipelineView, jobView
      <4> QED
        BY <4>2 DEF NoView, AnswersInv, AnswersAreOfRows, SettledAnswersHold
    <3> QED
      BY <3>2, <3>3
  <2> QED
    BY <2>1, <2>2 DEF Next
<1>3. RowsInv /\ AnswersAreOfRows /\ SettledAnswersHold <=> AnswersInv
  BY DEF AnswersInv
<1>4. IInv /\ RowsArePlanned /\ AnswersAreTyped <=> RowsInv
  BY DEF RowsInv
<1> QED
  BY <1>1, <1>2, <1>3, <1>4, RowsStay, PTL DEF Spec

\* The rows are written towards an end, whatever the order in which jobs run: once the
\* pipeline is launched no row comes or goes, no ended job changes and no step of one,
\* no failed step recovers and no step that has begun is pending again, a success is
\* taken back only of the last step of a job that has not ended, a settled workflow
\* keeps its verdict, and the cascade concludes the pipeline once.
THEOREM StatusesSettle == Spec => [][ phase = "launched" => Settles ]_vars
<1>1. IInv /\ [Next]_vars => [ phase = "launched" => Settles ]_vars
  BY RunSettles
<1> QED
  BY <1>1, Invariance, PTL DEF Spec

\* getPipeline, getJob and listPipelines: what an answer shows as settled is still so
\* when it arrives and ever after, although it was read query by query while jobs went
\* on.  What is shown as not settled can be out of date, and so can the last step that
\* is shown as completed, if its job was shown as incomplete and has failed since.
THEOREM SettledAnswersStayTrue == Spec => []SettledAnswersHold
<1>1. AnswersInv => SettledAnswersHold
  BY DEF AnswersInv
<1> QED
  BY <1>1, AnswersStay, PTL

\* api/pipelines.ts, "Most recent workflow run represents the pipeline's current
\* status": so it does for a pipeline of one workflow, and ListedIsTrue can only be
\* broken by another one.
THEOREM OneWorkflowIsListedTruly ==
    Spec => [](Len(workflowStatus) = 1 => ListedIsTrue)
<1>1. AnswersInv => (Len(workflowStatus) = 1 => ListedIsTrue)
  <2> SUFFICES ASSUME AnswersInv, Len(workflowStatus) = 1, listed = "completed"
               PROVE  conclusion = "succeeded"
    BY DEF ListedIsTrue
  <2>1. workflowStatus \in Seq(RunStatus)
    BY WorkflowsAreNumbered DEF AnswersInv, RowsInv
  <2>2. Workflows = { 1 } /\ workflowStatus[1] \in RunStatus
    BY <2>1 DEF Workflows
  <2>3. workflowStatus[1] = "succeeded"
    <3>1. MapWorkflowStatus[workflowStatus[1]] = "completed"
      BY DEF AnswersInv, SettledAnswersHold
    <3> QED
      BY <2>2, <3>1, ShownStatuses
  <2>4. conclusion \in RunStatus
    BY DEF AnswersInv, RowsInv, IInv, RowsAreTyped
  <2> QED
    BY <2>2, <2>3, <2>4 DEF AnswersInv, RowsInv, IInv, VerdictsAgree, RunStatus
<1> QED
  BY <1>1, AnswersStay, PTL
=============================================================================
