------------------------------ MODULE Scheduler ------------------------------
(***************************************************************************)
(* execution/scheduler: the jobs that wait for a runner, and where they    *)
(* run.                                                                    *)
(*                                                                         *)
(* schedule() and tryScheduleNow() never await, so each is one step.  The  *)
(* promise of runJob is the only way back: it settles, in whatever manner, *)
(* and tryScheduleNow runs again.                                          *)
(***************************************************************************)
EXTENDS PipelineRuns, Sequences, FiniteSets

CONSTANTS
    HasRunner,   \* the constructor is given a runner (tests omit it)
    CpuLimit,    \* resourceLimit.milliCpu: 999999 in the code
    JobCpu,      \* milliCpu asked for every job: 4000 in the code
    NumJobs      \* resourceLimit.numJobs: 999999 in the code

VARIABLES
    readyJobs,     \* jobs that wait for a runner
    workflowInfo,  \* workflows known to the scheduler
    runningOn,     \* the runner whose runJob call for the job is pending
    submissions    \* how often runJob was called for a job (history)

vars == << readyJobs, workflowInfo, runningOn, submissions >>

\* Memory and disk have limits like the CPU's, and every job asks for the
\* same amount of each: one resource stands for the three.
Runners ==
    IF HasRunner
    THEN << [ name |-> "default",
              profile |-> [capabilities |-> {}, taints |-> {}],
              resourceLimit |-> [milliCpu |-> CpuLimit, numJobs |-> NumJobs],
              allocated |-> [milliCpu |-> 0],
              activeJobs |-> {} ] >>
    ELSE << >>

Constraints == [needs |-> {}, tolerates |-> {}, milliCpu |-> JobCpu]

TypeOK ==
    /\ readyJobs \subseteq Jobs
    /\ workflowInfo \subseteq Workflows
    /\ runningOn \in [Jobs -> { "none", "default" }]
    /\ submissions \in [Jobs -> Nat]

Init ==
    /\ readyJobs = {}
    /\ workflowInfo = {}
    /\ runningOn = [j \in Jobs |-> "none"]
    /\ submissions = [j \in Jobs |-> 0]

-----------------------------------------------------------------------------
CanScheduleJobOnRunner(constraints, runner) ==
    /\ constraints.needs \subseteq runner.profile.capabilities
    /\ runner.profile.taints \subseteq constraints.tolerates
    /\ runner.allocated.milliCpu + constraints.milliCpu <= runner.resourceLimit.milliCpu
    /\ Cardinality(runner.activeJobs) < runner.resourceLimit.numJobs

\* The positions of the runners that would take the job.  No decision changes
\* the runners (allocated and activeJobs are never written), so the order in
\* which the jobs are looked at is of no consequence.
Fits(j) == { i \in DOMAIN Runners : CanScheduleJobOnRunner(Constraints, Runners[i]) }

FirstFit(j) == Runners[CHOOSE i \in Fits(j) : \A k \in Fits(j) : i <= k].name

MutantTryScheduleNow(ready, running) ==      \* forgets readyJobs.delete
    LET scheduled == { j \in ready : Fits(j) # {} } IN
    /\ readyJobs' = ready
    /\ runningOn' = [j \in Jobs |-> IF j \in scheduled THEN FirstFit(j) ELSE running[j]]
    /\ submissions' =
           [j \in Jobs |-> IF j \in scheduled THEN submissions[j] + 1 ELSE submissions[j]]

\* tryScheduleNow, with the queue and the runners' calls as they stand: every
\* ready job that fits somewhere is submitted and leaves the queue.
TryScheduleNow(ready, running) ==
    LET scheduled == { j \in ready : Fits(j) # {} } IN
    /\ readyJobs' = ready \ scheduled
    /\ runningOn' = [j \in Jobs |-> IF j \in scheduled THEN FirstFit(j) ELSE running[j]]
    /\ submissions' =
           [j \in Jobs |-> IF j \in scheduled THEN submissions[j] + 1 ELSE submissions[j]]

\* schedule() of each workflow of a pipeline in turn: without an await between
\* them, one step.
ScheduleAll(workflows) ==
    /\ workflowInfo' = workflowInfo \cup workflows
    /\ TryScheduleNow(readyJobs \cup { j \in Jobs : WorkflowOf[j] \in workflows }, runningOn)

\* runJob's promise settles; its failure is logged and dropped.
JobReturns(j) ==
    /\ runningOn[j] # "none"
    /\ TryScheduleNow(readyJobs, [runningOn EXCEPT ![j] = "none"])
    /\ UNCHANGED workflowInfo

-----------------------------------------------------------------------------
\* The scheduler on its own.  A workflow is scheduled once: its id is fresh.
Next ==
    \/ \E w \in Workflows \ workflowInfo : ScheduleAll({ w })
    \/ \E j \in Jobs : JobReturns(j)

Spec == Init /\ [][Next]_vars

-----------------------------------------------------------------------------
(* Properties.                                                             *)

RunningOn(name) == { j \in Jobs : runningOn[j] = name }

\* RunnerResourceLimit: "Maximum number of CPUs to allocate to jobs",
\* "Maximum number of jobs to schedule on the runner at once".
LimitRespected ==
    \A i \in DOMAIN Runners :
        LET runner == Runners[i]
            active == Cardinality(RunningOn(runner.name))
        IN  /\ active <= runner.resourceLimit.numJobs
            /\ active * JobCpu <= runner.resourceLimit.milliCpu

\* No job is ever given to a runner twice, and none both waits and runs.
SubmittedOnce ==
    /\ \A j \in Jobs : submissions[j] <= 1
    /\ \A j \in readyJobs : runningOn[j] = "none" /\ submissions[j] = 0
=============================================================================
