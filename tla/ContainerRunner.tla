--------------------------- MODULE ContainerRunner ---------------------------
(***************************************************************************)
(* ContainerRunner.runJob with the DatabaseProgressReporter: one job, its  *)
(* steps one after the other, each in a container of its own that shares   *)
(* the job's workspace volume.                                             *)
(*                                                                         *)
(* A step of the model is one awaited call: to the Docker (or Podman)      *)
(* daemon, or to the reporter, which is a database transaction.  Between   *)
(* two of them the container runs, exits and is removed by the daemon on   *)
(* its own (AutoRemove).  A call may fail, and then it may have had no     *)
(* effect or its answer was lost; the try / catch / finally blocks of the  *)
(* code decide where the control goes, and that is pc.                     *)
(***************************************************************************)
EXTENDS Naturals, Sequences

CONSTANTS
    NSteps,    \* how many steps the planned job has
    Images,
    ImageOf,   \* the image of a step (its own, or the default container)
    Scenarios  \* sets of calls that may fail together in a run

Steps == 1 .. NSteps

AllFaults ==
    { "volume",      \* inspecting or creating the workspace volume
      "pull", "create", "attach", "start", "wait",
      "createLost",  \* the container is created but the answer is lost
      "remove",      \* removing a container, with neither 404 nor 409
      "db",          \* recording the start or end of a step: rolled back
      "dbLost",      \* the same: committed, but the answer is lost
      "removeVolume" }

\* The launch of a job without steps fails (PipelineStatus!LaunchFails).
ASSUME RunnerAssumption ==
    /\ NSteps \in Nat \ { 0 }
    /\ ImageOf \in [Steps -> Images]
    /\ Scenarios \subseteq SUBSET AllFaults

MaxAttempts == 5   \* to remove the workspace volume

VARIABLES
    faults,      \* the calls that may fail in this run
    pc,          \* the call runJob is about to await
    step,        \* the step it is at
    pulled,      \* pulledImages
    container,   \* state of each step's container on the daemon
    held,        \* `container` is defined: this iteration must remove it
    exitCode,    \* of a container's command: "none", "zero" or "nonzero"
    after,       \* where the inner finally continues
    stepStatus,  \* job_run_steps.status
    started,     \* job_run_steps.started_at is set
    reports,     \* the arguments onJobEnd was called with
    volume,      \* the workspace volume exists
    attempt      \* of removing the volume, from 0

daemon == << container, exitCode >>
database == << stepStatus, started, reports >>
local == << step, pulled, held, after, attempt >>
vars == << faults, pc, local, daemon, database, volume >>

TypeOK ==
    /\ faults \in Scenarios
    /\ pc \in { "volume", "step", "pull", "create", "attach", "recordStart", "start",
                "wait", "waiting", "recordEnd", "reportStepFailed", "catch", "finally",
                "reportFailure", "removeVolume", "done" }
    /\ step \in 1 .. NSteps + 1
    /\ pulled \subseteq Images
    /\ container \in [Steps -> { "none", "created", "running", "exited", "removed" }]
    /\ held \in BOOLEAN
    /\ exitCode \in [Steps -> { "none", "zero", "nonzero" }]
    /\ after \in { "next", "return", "throw" }
    /\ stepStatus \in [Steps -> { "incomplete", "succeeded", "failed" }]
    /\ started \in [Steps -> BOOLEAN]
    /\ reports \in Seq(BOOLEAN) /\ Len(reports) <= 2
    /\ volume \in BOOLEAN
    /\ attempt \in 0 .. MaxAttempts - 1

Init ==
    /\ faults \in Scenarios
    /\ pc = "volume"
    /\ step = 1
    /\ pulled = {}
    /\ container = [i \in Steps |-> "none"]
    /\ held = FALSE
    /\ exitCode = [i \in Steps |-> "none"]
    /\ after = "next"
    /\ stepStatus = [i \in Steps |-> "incomplete"]
    /\ started = [i \in Steps |-> FALSE]
    /\ reports = << >>
    /\ volume \in BOOLEAN     \* a run that crashed may have left it behind
    /\ attempt = 0

Goto(from, to) == pc = from /\ pc' = to

\* A call of the inner try fails: control passes to its catch.
Throw(fault, from) == fault \in faults /\ Goto(from, "catch")

SetContainer(state) == container' = [container EXCEPT ![step] = state]

-----------------------------------------------------------------------------
(* Preparing a step.                                                       *)

PrepareVolume ==
    /\ Goto("volume", "step")
    /\ volume' = TRUE
    /\ UNCHANGED << local, daemon, database >>

\* It may have been created all the same.
VolumeFails ==
    /\ "volume" \in faults
    /\ Goto("volume", "reportFailure")
    /\ volume' = TRUE \/ UNCHANGED volume
    /\ UNCHANGED << local, daemon, database >>

BeginStep ==
    /\ step <= NSteps
    /\ IF ImageOf[step] \in pulled THEN Goto("step", "create") ELSE Goto("step", "pull")
    /\ UNCHANGED << local, daemon, database, volume >>

Pull ==
    /\ Goto("pull", "create")
    /\ pulled' = pulled \cup { ImageOf[step] }
    /\ UNCHANGED << step, held, after, attempt, daemon, database, volume >>

Create ==
    /\ Goto("create", "attach")
    /\ SetContainer("created")
    /\ held' = TRUE
    /\ UNCHANGED << step, pulled, after, attempt, exitCode, database, volume >>

CreateLost ==
    /\ Throw("createLost", "create")
    /\ SetContainer("created")
    /\ UNCHANGED << local, exitCode, database, volume >>

Attach ==
    /\ Goto("attach", "recordStart")
    /\ UNCHANGED << local, daemon, database, volume >>

\* onStepStart
RecordStart ==
    /\ Goto("recordStart", "start")
    /\ started' = [started EXCEPT ![step] = TRUE]
    /\ stepStatus' = [stepStatus EXCEPT ![step] = "incomplete"]
    /\ UNCHANGED << local, daemon, reports, volume >>

MutantRecordStartFails ==     \* logs the failure but does not raise it again
    /\ "db" \in faults
    /\ Goto("recordStart", "start")
    /\ UNCHANGED << local, daemon, database, volume >>

RecordStartFails ==
    /\ Throw("db", "recordStart")
    /\ UNCHANGED << local, daemon, database, volume >>

RecordStartLost ==
    /\ Throw("dbLost", "recordStart")
    /\ started' = [started EXCEPT ![step] = TRUE]
    /\ stepStatus' = [stepStatus EXCEPT ![step] = "incomplete"]
    /\ UNCHANGED << local, daemon, reports, volume >>

CallFails ==
    /\ \/ Throw("pull", "pull")
       \/ Throw("create", "create")
       \/ Throw("attach", "attach")
       \/ Throw("wait", "wait")
       \/ Throw("wait", "waiting")
    /\ UNCHANGED << local, daemon, database, volume >>

-----------------------------------------------------------------------------
(* Running it.                                                             *)

Start ==
    /\ Goto("start", "wait")
    /\ SetContainer("running")
    /\ UNCHANGED << local, exitCode, database, volume >>

StartFails ==
    /\ Throw("start", "start")
    /\ SetContainer("running") \/ UNCHANGED container
    /\ UNCHANGED << local, exitCode, database, volume >>

\* The daemon, on its own: the command ends, then the container goes.
CommandEnds ==
    \E i \in Steps, code \in { "zero", "nonzero" } :
        /\ container[i] = "running"
        /\ container' = [container EXCEPT ![i] = "exited"]
        /\ exitCode' = [exitCode EXCEPT ![i] = code]
        /\ UNCHANGED << pc, local, database, volume >>

AutoRemove ==
    \E i \in Steps :
        /\ container[i] = "exited"
        /\ container' = [container EXCEPT ![i] = "removed"]
        /\ UNCHANGED << pc, local, exitCode, database, volume >>

\* wait() is sent after start() has answered.  A short command's container
\* may be gone by then: 404, although the command may have succeeded.
Wait ==
    /\ Goto("wait", "waiting")
    /\ container[step] # "removed"
    /\ UNCHANGED << local, daemon, database, volume >>

WaitFindsNothing ==
    /\ Goto("wait", "catch")
    /\ container[step] = "removed"
    /\ UNCHANGED << local, daemon, database, volume >>

WaitAnswers ==
    /\ Goto("waiting", "recordEnd")
    /\ container[step] \in { "exited", "removed" }
    /\ UNCHANGED << local, daemon, database, volume >>

SetOutcome ==
    stepStatus' = [stepStatus EXCEPT ![step] =
        IF exitCode[step] = "zero" THEN "succeeded" ELSE "failed"]

\* onStepEnd, after which a failed step ends the job.
RecordEnd ==
    /\ pc = "recordEnd"
    /\ SetOutcome
    /\ \/ /\ exitCode[step] = "zero"
          /\ pc' = "finally" /\ after' = "next"
       \/ /\ exitCode[step] = "nonzero"
          /\ pc' = "reportStepFailed" /\ after' = after
    /\ UNCHANGED << step, pulled, held, attempt, daemon, started, reports, volume >>

RecordEndFails ==
    /\ Throw("db", "recordEnd")
    /\ UNCHANGED << local, daemon, database, volume >>

RecordEndLost ==
    /\ Throw("dbLost", "recordEnd")
    /\ SetOutcome
    /\ UNCHANGED << local, daemon, started, reports, volume >>

MutantReportStepFailed ==     \* without the `return`
    /\ Goto("reportStepFailed", "finally")
    /\ reports' = Append(reports, FALSE)
    /\ after' = "next"
    /\ UNCHANGED << step, pulled, held, attempt, daemon, stepStatus, started, volume >>

ReportStepFailed ==
    /\ Goto("reportStepFailed", "finally")
    /\ reports' = Append(reports, FALSE)
    /\ after' = "return"
    /\ UNCHANGED << step, pulled, held, attempt, daemon, stepStatus, started, volume >>

MutantCatch ==     \* does not throw again
    /\ Goto("catch", "finally")
    /\ \/ stepStatus' = [stepStatus EXCEPT ![step] = "failed"]
       \/ "db" \in faults /\ UNCHANGED stepStatus
    /\ after' = "next"
    /\ UNCHANGED << step, pulled, held, attempt, daemon, started, reports, volume >>

MutantCatchSilently ==     \* does not record the step
    /\ Goto("catch", "finally")
    /\ after' = "throw"
    /\ UNCHANGED << step, pulled, held, attempt, daemon, database, volume >>

\* The inner catch: record the step as failed, whatever the error and whatever
\* is on record of it (the UPDATE has no condition on the status), and go on
\* with the error even when that fails too.
Catch ==
    /\ Goto("catch", "finally")
    /\ \/ stepStatus' = [stepStatus EXCEPT ![step] = "failed"]
       \/ "db" \in faults /\ UNCHANGED stepStatus
    /\ after' = "throw"
    /\ UNCHANGED << step, pulled, held, attempt, daemon, started, reports, volume >>

-----------------------------------------------------------------------------
(* Cleaning up.                                                            *)

\* Where control goes once the inner finally is through.
Leave ==
    \/ after = "next" /\ pc' = "step" /\ step' = step + 1
    \/ after = "return" /\ pc' = "removeVolume" /\ UNCHANGED step
    \/ after = "throw" /\ pc' = "reportFailure" /\ UNCHANGED step

MutantFinally ==     \* cleans up only where no error is on its way
    /\ pc = "finally"
    /\ IF held /\ after # "throw" THEN SetContainer("removed") ELSE UNCHANGED container
    /\ held' = FALSE
    /\ Leave
    /\ UNCHANGED << pulled, after, attempt, exitCode, database, volume >>

\* container?.remove({force: true}): done, or 404 because it is gone already.
Finally ==
    /\ pc = "finally"
    /\ IF held THEN SetContainer("removed") ELSE UNCHANGED container
    /\ held' = FALSE
    /\ Leave
    /\ UNCHANGED << pulled, after, attempt, exitCode, database, volume >>

\* 409: the daemon is removing it already, and will be a while.
FinallyBusy ==
    /\ pc = "finally" /\ held /\ container[step] = "exited"
    /\ held' = FALSE
    /\ Leave
    /\ UNCHANGED << pulled, after, attempt, daemon, database, volume >>

\* Any other error replaces whatever the try was about to do.
FinallyFails ==
    /\ "remove" \in faults /\ held
    /\ Goto("finally", "reportFailure")
    /\ SetContainer("removed") \/ UNCHANGED container
    /\ held' = FALSE
    /\ UNCHANGED << step, pulled, after, attempt, exitCode, database, volume >>

\* onJobEnd does not throw: handleJobComplete catches everything.
ReportSuccess ==
    /\ step > NSteps
    /\ Goto("step", "removeVolume")
    /\ reports' = Append(reports, TRUE)
    /\ UNCHANGED << local, daemon, stepStatus, started, volume >>

\* The outer catch.
ReportFailure ==
    /\ Goto("reportFailure", "removeVolume")
    /\ reports' = Append(reports, FALSE)
    /\ UNCHANGED << local, daemon, stepStatus, started, volume >>

InUse == \E i \in Steps : container[i] \in { "created", "running", "exited" }

\* The volume goes, or is not there (404).
RemoveVolume ==
    /\ ~InUse \/ ~volume
    /\ Goto("removeVolume", "done")
    /\ volume' = FALSE
    /\ UNCHANGED << local, daemon, database >>

MutantVolumeBusy ==     \* retries for ever
    /\ InUse /\ volume
    /\ Goto("removeVolume", "removeVolume")
    /\ attempt' = (attempt + 1) % MaxAttempts
    /\ UNCHANGED << step, pulled, held, after, daemon, database, volume >>

MutantVolumeRetry ==     \* one attempt more
    /\ InUse /\ volume
    /\ \/ /\ attempt < MaxAttempts
          /\ Goto("removeVolume", "removeVolume")
          /\ attempt' = attempt + 1
       \/ /\ attempt = MaxAttempts
          /\ Goto("removeVolume", "done")
          /\ UNCHANGED attempt
    /\ UNCHANGED << step, pulled, held, after, daemon, database, volume >>

\* 409: some container still uses it; try again after a pause.
VolumeBusy ==
    /\ InUse /\ volume
    /\ \/ /\ attempt < MaxAttempts - 1
          /\ Goto("removeVolume", "removeVolume")
          /\ attempt' = attempt + 1
       \/ /\ attempt = MaxAttempts - 1
          /\ Goto("removeVolume", "done")
          /\ UNCHANGED attempt
    /\ UNCHANGED << step, pulled, held, after, daemon, database, volume >>

RemoveVolumeFails ==
    /\ "removeVolume" \in faults
    /\ Goto("removeVolume", "done")
    /\ volume' = FALSE \/ UNCHANGED volume
    /\ UNCHANGED << local, daemon, database >>

-----------------------------------------------------------------------------
RunJob ==
    /\ UNCHANGED faults
    /\ \/ PrepareVolume \/ BeginStep \/ Pull \/ Create \/ Attach
       \/ RecordStart \/ Start \/ Wait \/ WaitFindsNothing \/ WaitAnswers
       \/ RecordEnd \/ ReportStepFailed \/ Catch
       \/ Finally \/ FinallyBusy
       \/ ReportSuccess \/ ReportFailure \/ RemoveVolume \/ VolumeBusy

Fault ==
    /\ UNCHANGED faults
    /\ \/ VolumeFails \/ CreateLost \/ CallFails \/ StartFails
       \/ RecordStartFails \/ RecordStartLost \/ RecordEndFails \/ RecordEndLost
       \/ FinallyFails \/ RemoveVolumeFails

Daemon == UNCHANGED faults /\ (CommandEnds \/ AutoRemove)

Next == RunJob \/ Fault \/ Daemon

Spec == Init /\ [][Next]_vars

\* Every call is answered in the end, and every command ends (runJob has no
\* timeout: a command that never ends keeps its job for ever).
Fairness == WF_vars(RunJob) /\ WF_vars(UNCHANGED faults /\ CommandEnds)

FairSpec == Spec /\ Fairness

-----------------------------------------------------------------------------
(* Properties.                                                             *)

\* onStepStart: "Re-raise so we don't run the step if we couldn't track it as
\* started".  A command starts only when the database knows of it, and in the
\* wake of successes that are all on record: after a failed, unrecorded or
\* unreported step nothing else of the job runs.
RunsOnlyOnRecord ==
    \A i \in Steps : container[i] = "running" \/ exitCode[i] # "none" =>
        /\ started[i]
        /\ \A k \in 1 .. i - 1 : exitCode[k] = "zero" /\ stepStatus[k] = "succeeded"

Passed == { i \in Steps : stepStatus[i] = "succeeded" }

\* An error is on its way to the outer catch, or has been reported.
Failing ==
    \/ after # "next"
    \/ pc \in { "reportStepFailed", "reportFailure" }
    \/ reports \notin { << >>, << TRUE >> }

Promise == INSTANCE JobReports
           WITH passed <- Passed, failing <- Failing, returned <- (pc = "done")

\* Whatever fails, runJob keeps what JobReports promises: the steps pass in
\* order, and none does once the job is failing; the failure may take back the
\* success of the last step on record, but of no other; a success is the only
\* report and comes after the last step; a failure is told once, or twice when
\* a container cannot be removed (exactly what JobCompletion!JobEnds assumes),
\* and nothing is told after the return.
ReportsAsPromised == Promise!Spec

\* A job that reports success ran every command to exit code zero and has
\* every step on record as succeeded, lost answers or not.
SuccessIsReal ==
    << TRUE >> = reports =>
        \A i \in Steps : exitCode[i] = "zero" /\ stepStatus[i] = "succeeded"

\* JobEndStatus.success: "Whether or not the job completed all steps
\* successfully", as far as the database knows.
ReportedOutcomeIsTrue ==
    reports # << >> =>
        (reports[Len(reports)] <=> \A i \in Steps : stepStatus[i] = "succeeded")

\* It takes a container that cannot be removed to break it, or two failures of
\* the database in a row: the answer to a success is lost, and the inner
\* catch, which takes it for a failure, cannot write that down.
OutcomeIsTrue ==
    "remove" \notin faults /\ ~({ "db", "dbLost" } \subseteq faults) => ReportedOutcomeIsTrue

\* The inner catch: while the database answers, a step that was begun does
\* not stay incomplete, whatever stopped it.
NoStepLeftIncomplete ==
    pc \in { "reportFailure", "removeVolume", "done" } /\ faults \cap { "db", "volume" } = {} =>
        \A i \in Steps : i <= step => stepStatus[i] # "incomplete"

\* Unless a removal fails or the daemon creates a container and does not say
\* so, nothing of the job is left to run when runJob returns, and the
\* workspace is gone unless the daemon was still busy removing a container
\* at every one of the five attempts.
NothingLeftBehind ==
    pc = "done" /\ faults \cap { "remove", "createLost", "removeVolume" } = {} =>
        /\ \A i \in Steps : container[i] \in { "none", "exited", "removed" }
        /\ volume => attempt = MaxAttempts - 1

\* Every job is reported and its runJob returns, whatever call fails, as long
\* as the commands end.
RunEnds == <>(pc = "done" /\ reports # << >>)
=============================================================================
