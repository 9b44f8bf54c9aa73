------------------------ MODULE ContainerRunnerProofs ------------------------
(***************************************************************************)
(* Theorems about ContainerRunner, for any number of steps, any images and *)
(* any combinations of calls that fail.                                    *)
(***************************************************************************)
EXTENDS ContainerRunner, SequenceTheorems, TLAPS

-----------------------------------------------------------------------------
(* The inductive invariant.                                                *)

\* The calls that belong to one step of the job.
Preparing == { "pull", "create", "attach", "recordStart", "start" }
InStep == Preparing \cup { "wait", "waiting", "recordEnd", "reportStepFailed", "catch", "finally" }

\* The steps before the current one are over, and went well.
Past ==
    \A k \in Steps : k < step =>
        /\ exitCode[k] = "zero" /\ stepStatus[k] = "succeeded"
        /\ container[k] \in { "exited", "removed" }

\* Those after it have not begun.
Future ==
    \A k \in Steps : k > step =>
        exitCode[k] = "none" /\ stepStatus[k] = "incomplete" /\ container[k] = "none"

\* The current step is as far as the call that is awaited says.
Present ==
    /\ pc \in InStep => step \in Steps
    /\ pc = "volume" => step = 1
    /\ step \in Steps =>
        /\ pc \in { "volume", "step", "pull", "create" } => container[step] = "none"
        /\ pc \in { "attach", "recordStart", "start" } => container[step] = "created"
        /\ pc = "recordEnd" => container[step] \in { "exited", "removed" }
        /\ container[step] \in { "none", "created", "running" } => exitCode[step] = "none"
        /\ pc \in { "volume", "step" } \cup (InStep \ { "reportStepFailed", "catch", "finally" }) =>
               stepStatus[step] = "incomplete"
        /\ pc = "reportStepFailed" => stepStatus[step] = "failed"
        /\ pc = "catch" /\ stepStatus[step] = "succeeded" => "dbLost" \in faults
        /\ pc = "finally" /\ after # "next" /\ stepStatus[step] = "succeeded" =>
               { "db", "dbLost" } \subseteq faults
        /\ pc = "finally" /\ after = "next" =>
               /\ exitCode[step] = "zero" /\ stepStatus[step] = "succeeded"
               /\ container[step] \in { "exited", "removed" }

\* What runs, or has run, has its start on record.
Tracked ==
    /\ \A i \in Steps : container[i] = "running" \/ exitCode[i] # "none" => started[i]
    /\ pc = "start" => started[step]

\* What has been reported, by where the control is.
Reported ==
    /\ pc \in { "volume", "step" } \cup (InStep \ { "finally" }) => reports = << >>
    /\ pc = "finally" => reports = IF after = "return" THEN << FALSE >> ELSE << >>
    /\ pc = "reportFailure" => reports \in { << >>, << FALSE >> }
    /\ pc \in { "removeVolume", "done" } =>
           reports \in { << TRUE >>, << FALSE >>, << FALSE, FALSE >> }
    /\ reports = << TRUE >> => step = NSteps + 1

\* Only an error, or the report of a failed step, leads past the other steps.
Aftermath == after # "next" => pc \in { "finally", "reportFailure", "removeVolume", "done" }

\* A failure has a step that is not on record as succeeded, if removing
\* containers works and a success without an answer can be overwritten.
Blamed ==
    /\ "remove" \notin faults /\ ~({ "db", "dbLost" } \subseteq faults)
    /\ (pc = "reportFailure" \/ reports \in { << FALSE >>, << FALSE, FALSE >> })
    => step \in Steps /\ stepStatus[step] # "succeeded"

\* While the database answers, a step that failed is on record.
Settled ==
    faults \cap { "db", "volume" } = {} /\ step \in Steps
      /\ pc \in { "reportStepFailed", "finally", "reportFailure", "removeVolume", "done" } =>
        stepStatus[step] # "incomplete"

\* A container that still needs removing is known to the code.
Held ==
    /\ faults \cap { "remove", "createLost" } = {} /\ step \in Steps
         /\ container[step] \in { "created", "running" } =>
           held /\ pc \in InStep
    /\ "removeVolume" \notin faults /\ pc = "done" /\ volume => attempt = MaxAttempts - 1

IInv ==
    /\ TypeOK /\ Past /\ Future /\ Present /\ Tracked
    /\ Reported /\ Aftermath /\ Blamed /\ Settled /\ Held

-----------------------------------------------------------------------------
(* It holds initially and every step keeps it.                             *)

\* The reports there can be: they are told apart by length and first element.
LEMMA ReportsDiffer ==
    /\ << >> # << TRUE >> /\ << >> # << FALSE >> /\ << >> # << FALSE, FALSE >>
    /\ << TRUE >> # << FALSE >> /\ << TRUE >> # << FALSE, FALSE >>
    /\ << FALSE >> # << FALSE, FALSE >>
<1>1. Len(<< >>) = 0 /\ Len(<< TRUE >>) = 1 /\ Len(<< FALSE >>) = 1 /\ Len(<< FALSE, FALSE >>) = 2
  OBVIOUS
<1>2. << TRUE >>[1] # << FALSE >>[1]
  OBVIOUS
<1> QED
  BY <1>1, <1>2

LEMMA ReportsTyped ==
    /\ << >> \in Seq(BOOLEAN) /\ Len(<< >>) <= 2
    /\ << TRUE >> \in Seq(BOOLEAN) /\ Len(<< TRUE >>) <= 2
    /\ << FALSE >> \in Seq(BOOLEAN) /\ Len(<< FALSE >>) <= 2
    /\ << FALSE, FALSE >> \in Seq(BOOLEAN) /\ Len(<< FALSE, FALSE >>) <= 2
<1>1. << >> \in Seq(BOOLEAN) /\ Len(<< >>) <= 2
  OBVIOUS
<1>2. << TRUE >> \in Seq(BOOLEAN) /\ Len(<< TRUE >>) <= 2
  OBVIOUS
<1>3. << FALSE >> \in Seq(BOOLEAN) /\ Len(<< FALSE >>) <= 2
  OBVIOUS
<1>4. << FALSE, FALSE >> \in Seq(BOOLEAN) /\ Len(<< FALSE, FALSE >>) <= 2
  OBVIOUS
<1> QED
  BY <1>1, <1>2, <1>3, <1>4

LEMMA ReportsGrow ==
    /\ Append(<< >>, TRUE) = << TRUE >>
    /\ Append(<< >>, FALSE) = << FALSE >>
    /\ Append(<< FALSE >>, FALSE) = << FALSE, FALSE >>
<1>1. Append(<< >>, TRUE) = << TRUE >>
  OBVIOUS
<1>2. Append(<< >>, FALSE) = << FALSE >>
  OBVIOUS
<1>3. Append(<< FALSE >>, FALSE) = << FALSE, FALSE >>
  <2> DEFINE both == Append(<< FALSE >>, FALSE)
  <2>1. Len(<< FALSE >>) = 1 /\ Len(<< FALSE, FALSE >>) = 2
    OBVIOUS
  <2>2. both \in Seq(BOOLEAN) /\ Len(both) = 2 /\ both[2] = FALSE /\ both[1] = << FALSE >>[1]
    BY <2>1, ReportsTyped, AppendProperties
  <2>3. << FALSE >>[1] = FALSE /\ << FALSE, FALSE >>[1] = FALSE /\ << FALSE, FALSE >>[2] = FALSE
    OBVIOUS
  <2> HIDE DEF both
  <2>4. ASSUME NEW i \in 1 .. 2 PROVE both[i] = << FALSE, FALSE >>[i]
    <3>1. CASE i = 1
      BY <3>1, <2>2, <2>3, Zenon
    <3>2. CASE i = 2
      BY <3>2, <2>2, <2>3, Zenon
    <3> QED
      BY <3>1, <3>2
  <2>5. both = << FALSE, FALSE >>
    BY <2>1, <2>2, <2>4, ReportsTyped, SeqEqual
  <2> QED
    BY <2>5 DEF both
<1> QED
  BY <1>1, <1>2, <1>3

LEMMA InitIInv == Init => IInv
<1> SUFFICES ASSUME Init PROVE IInv
  OBVIOUS
<1> USE RunnerAssumption DEF Init, Steps, InStep, Preparing, MaxAttempts
<1>1. reports \in Seq(BOOLEAN) /\ Len(reports) <= 2
  BY ReportsTyped
<1>2. TypeOK
  <2>1. faults \in Scenarios /\ pulled \subseteq Images /\ held \in BOOLEAN /\ volume \in BOOLEAN
   OBVIOUS
 <2>2. step \in 1 .. NSteps + 1 /\ attempt \in 0 .. MaxAttempts - 1
   OBVIOUS
 <2>3. container \in [Steps -> { "none", "created", "running", "exited", "removed" }]
   OBVIOUS
 <2>4. exitCode \in [Steps -> { "none", "zero", "nonzero" }]
   OBVIOUS
 <2>5. stepStatus \in [Steps -> { "incomplete", "succeeded", "failed" }] /\ started \in [Steps -> BOOLEAN]
   OBVIOUS
 <2> QED
  BY <1>1, <2>1, <2>2, <2>3, <2>4, <2>5 DEF TypeOK
<1>3. Past /\ Future /\ Present /\ Tracked
  BY DEF Past, Future, Present, Tracked
<1>4. Reported /\ Aftermath /\ Blamed /\ Settled /\ Held
  BY ReportsDiffer DEF Reported, Aftermath, Blamed, Settled, Held
<1> QED
  BY <1>2, <1>3, <1>4 DEF IInv

LEMMA PreparingStep ==
    ASSUME IInv, UNCHANGED faults,
           PrepareVolume \/ VolumeFails \/ BeginStep \/ Pull \/ Create \/ CreateLost \/ Attach
    PROVE  IInv'
<1> USE RunnerAssumption
    DEF IInv, Goto, Throw, SetContainer, local, daemon, database, Steps, InStep, Preparing,
        PrepareVolume, VolumeFails, BeginStep, Pull, Create, CreateLost, Attach
<1>1. TypeOK'
  <2>1. reports' = reports
    OBVIOUS
  <2>2. (reports \in Seq(BOOLEAN) /\ Len(reports) <= 2)'
    BY <2>1 DEF TypeOK
  <2>3. (pulled \subseteq Images)'
    BY DEF TypeOK, Present
  <2>4. (container \in [Steps -> { "none", "created", "running", "exited", "removed" }])'
    BY DEF TypeOK
  <2>5. /\ pc' \in { "step", "pull", "create", "attach", "recordStart", "reportFailure", "catch" }
        /\ UNCHANGED << faults, step, exitCode, after, stepStatus, started, attempt >>
        /\ held' \in BOOLEAN /\ volume' \in BOOLEAN
    BY DEF TypeOK
  <2> QED
    BY <2>2, <2>3, <2>4, <2>5 DEF TypeOK
<1>2. Past' /\ Future'
  BY DEF TypeOK, Past, Future, Present
<1>3. Present'
  BY DEF TypeOK, Present
<1>4. Tracked'
  BY DEF TypeOK, Tracked, Present
<1>5. Reported' /\ Aftermath'
  BY DEF TypeOK, Reported, Aftermath
<1>6. Blamed'
  <2>1. reports' = << >>
    BY DEF Reported
  <2>2. pc' = "reportFailure" => step' \in Steps /\ stepStatus'[step'] # "succeeded"
    BY DEF TypeOK, Present
  <2> QED
    BY <2>1, <2>2, ReportsDiffer DEF Blamed
<1>7. Settled'
  BY DEF TypeOK, Settled
<1>8. Held'
  BY DEF TypeOK, Held
<1> QED
  BY <1>1, <1>2, <1>3, <1>4, <1>5, <1>6, <1>7, <1>8

LEMMA RunningStep ==
    ASSUME IInv, UNCHANGED faults,
           \/ RecordStart \/ RecordStartFails \/ RecordStartLost
           \/ CallFails \/ Start \/ StartFails
           \/ Wait \/ WaitFindsNothing \/ WaitAnswers
    PROVE  IInv'
<1> USE RunnerAssumption
    DEF IInv, Goto, Throw, SetContainer, local, daemon, database, Steps, InStep, Preparing,
        RecordStart, RecordStartFails, RecordStartLost, CallFails, Start, StartFails,
        Wait, WaitFindsNothing, WaitAnswers
<1>1. /\ pc \in InStep \ { "reportStepFailed", "finally" }
      /\ pc' \in { "start", "wait", "waiting", "recordEnd", "catch" }
      /\ UNCHANGED << faults, step, pulled, held, exitCode, after, reports, volume, attempt >>
  OBVIOUS
<1>2. TypeOK'
  <2>1. (reports \in Seq(BOOLEAN) /\ Len(reports) <= 2)'
    BY <1>1 DEF TypeOK
  <2>2. (container \in [Steps -> { "none", "created", "running", "exited", "removed" }])'
    BY DEF TypeOK
  <2>3. (/\ stepStatus \in [Steps -> { "incomplete", "succeeded", "failed" }]
         /\ started \in [Steps -> BOOLEAN])'
    BY DEF TypeOK
  <2> QED
    BY <1>1, <2>1, <2>2, <2>3 DEF TypeOK
<1>3. Past' /\ Future'
  BY <1>1 DEF TypeOK, Past, Future, Present
<1>4. Present'
  BY DEF TypeOK, Present
<1>5. Tracked'
  BY DEF TypeOK, Tracked, Present
<1>6. Reported' /\ Aftermath' /\ Blamed'
  <2>1. reports' = << >>
    BY <1>1 DEF Reported
  <2> QED
    BY <1>1, <2>1, ReportsDiffer DEF Reported, Aftermath, Blamed
<1>7. Settled'
  BY <1>1 DEF Settled
<1>8. Held'
  BY DEF TypeOK, Held, Present
<1> QED
  BY <1>2, <1>3, <1>4, <1>5, <1>6, <1>7, <1>8

LEMMA DaemonStep ==
    ASSUME IInv, UNCHANGED faults, CommandEnds \/ AutoRemove
    PROVE  IInv'
<1> USE RunnerAssumption
    DEF IInv, local, database, Steps, InStep, Preparing
<1>1. UNCHANGED << faults, pc, step, pulled, held, after, stepStatus, started, reports, volume,
                  attempt >>
  BY DEF CommandEnds, AutoRemove
<1>2. PICK i \in Steps :
        \/ /\ container[i] = "running" /\ container' = [container EXCEPT ![i] = "exited"]
           /\ \E code \in { "zero", "nonzero" } : exitCode' = [exitCode EXCEPT ![i] = code]
        \/ /\ container[i] = "exited" /\ container' = [container EXCEPT ![i] = "removed"]
           /\ exitCode' = exitCode
  BY DEF CommandEnds, AutoRemove
<1>3. TypeOK'
  <2>1. (container \in [Steps -> { "none", "created", "running", "exited", "removed" }])'
    BY <1>2 DEF TypeOK
  <2>2. (exitCode \in [Steps -> { "none", "zero", "nonzero" }])'
    BY <1>2 DEF TypeOK
  <2> QED
    BY <1>1, <2>1, <2>2 DEF TypeOK
<1>4. Past' /\ Future'
  BY <1>1, <1>2 DEF TypeOK, Past, Future
<1>5. Present'
  BY <1>1, <1>2 DEF TypeOK, Present
<1>6. Tracked'
  BY <1>1, <1>2 DEF TypeOK, Tracked
<1>7. Reported' /\ Aftermath' /\ Blamed' /\ Settled'
  BY <1>1 DEF Reported, Aftermath, Blamed, Settled
<1>8. Held'
  BY <1>1, <1>2 DEF TypeOK, Held
<1> QED
  BY <1>3, <1>4, <1>5, <1>6, <1>7, <1>8

LEMMA EndingStep ==
    ASSUME IInv, UNCHANGED faults,
           RecordEnd \/ RecordEndFails \/ RecordEndLost \/ ReportStepFailed \/ Catch
    PROVE  IInv'
<1> USE RunnerAssumption
    DEF IInv, Goto, Throw, SetContainer, local, daemon, database, Steps, InStep, Preparing,
        RecordEnd, RecordEndFails, RecordEndLost, SetOutcome, ReportStepFailed, Catch
<1>1. /\ pc \in { "recordEnd", "reportStepFailed", "catch" }
      /\ pc' \in { "reportStepFailed", "finally", "catch" }
      /\ UNCHANGED << faults, step, pulled, container, held, exitCode, started, volume, attempt >>
  OBVIOUS
<1>2. reports = << >>
  BY <1>1 DEF Reported
<1>3. reports' = IF pc = "reportStepFailed" THEN << FALSE >> ELSE << >>
  BY <1>2, ReportsGrow
<1>4. TypeOK'
  <2>1. (reports \in Seq(BOOLEAN) /\ Len(reports) <= 2)'
    BY <1>3, ReportsTyped
  <2>2. (stepStatus \in [Steps -> { "incomplete", "succeeded", "failed" }])'
    BY DEF TypeOK
  <2>3. (after \in { "next", "return", "throw" })'
    BY DEF TypeOK
  <2> QED
    BY <1>1, <2>1, <2>2, <2>3 DEF TypeOK
<1>5. Past' /\ Future'
  BY <1>1 DEF TypeOK, Past, Future, Present
<1>6. Present'
  BY <1>1 DEF TypeOK, Present
<1>7. Tracked'
  BY <1>1 DEF Tracked
<1>8. Reported' /\ Aftermath'
  BY <1>1, <1>3, ReportsDiffer DEF Reported, Aftermath
<1>9. Blamed'
  BY <1>1, <1>3, ReportsDiffer DEF TypeOK, Blamed, Present
<1>10. Settled'
  BY <1>1 DEF TypeOK, Settled, Present
<1>11. Held'
  BY <1>1 DEF Held
<1> QED
  BY <1>4, <1>5, <1>6, <1>7, <1>8, <1>9, <1>10, <1>11

LEMMA CleaningStep ==
    ASSUME IInv, UNCHANGED faults, Finally \/ FinallyBusy \/ FinallyFails
    PROVE  IInv'
<1> USE RunnerAssumption
    DEF IInv, Goto, Throw, SetContainer, local, daemon, database, Steps, InStep, Preparing,
        Finally, FinallyBusy, FinallyFails, Leave
<1>1. /\ pc = "finally" /\ step \in Steps /\ held' = FALSE
      /\ UNCHANGED << faults, pulled, exitCode, after, stepStatus, started, reports, volume, attempt >>
  BY DEF Present
<1>2. \/ after = "next" /\ pc' = "step" /\ step' = step + 1
      \/ after = "return" /\ pc' = "removeVolume" /\ step' = step
      \/ after = "throw" /\ pc' = "reportFailure" /\ step' = step
      \/ "remove" \in faults /\ pc' = "reportFailure" /\ step' = step
  OBVIOUS
<1>3. /\ container' \in { container, [container EXCEPT ![step] = "removed"] }
      /\ \/ container' = [container EXCEPT ![step] = "removed"]
         \/ container' = container /\ (~held \/ container[step] = "exited" \/ "remove" \in faults)
  OBVIOUS
<1>4. TypeOK'
  <2>1. (container \in [Steps -> { "none", "created", "running", "exited", "removed" }])'
    BY <1>1, <1>3 DEF TypeOK
  <2>2. (step \in 1 .. NSteps + 1)'
    BY <1>1, <1>2
  <2> QED
    BY <1>1, <1>2, <2>1, <2>2 DEF TypeOK
<1>5. Past'
  BY <1>1, <1>2, <1>3 DEF TypeOK, Past, Present
<1>6. Future'
  BY <1>1, <1>2, <1>3 DEF TypeOK, Future
<1>7. Present'
  <2>1. CASE step' = step + 1
    BY <2>1, <1>1, <1>2, <1>3 DEF TypeOK, Present, Future
  <2>2. CASE step' = step
    BY <2>2, <1>1, <1>2, <1>3 DEF TypeOK, Present
  <2> QED
    BY <2>1, <2>2, <1>2
<1>8. Tracked'
  BY <1>1, <1>2, <1>3 DEF TypeOK, Tracked
<1>9. Reported' /\ Aftermath'
  BY <1>1, <1>2, ReportsDiffer DEF Reported, Aftermath
<1>10. Blamed'
  BY <1>1, <1>2, ReportsDiffer DEF Blamed, Present, Reported
<1>11. Settled'
  BY <1>1, <1>2 DEF Settled
<1>12. Held'
  BY <1>1, <1>2, <1>3 DEF TypeOK, Held, Future
<1> QED
  BY <1>4, <1>5, <1>6, <1>7, <1>8, <1>9, <1>10, <1>11, <1>12

LEMMA ReportingStep ==
    ASSUME IInv, UNCHANGED faults, ReportSuccess \/ ReportFailure
    PROVE  IInv'
<1> USE RunnerAssumption
    DEF IInv, Goto, Throw, SetContainer, local, daemon, database, Steps, InStep, Preparing,
        ReportSuccess, ReportFailure
<1>1. /\ pc' = "removeVolume"
      /\ UNCHANGED << faults, step, pulled, container, held, exitCode, after, stepStatus, started,
                      volume, attempt >>
      /\ pc \in { "step", "reportFailure" }
  OBVIOUS
<1>2. \/ reports' = << TRUE >> /\ step = NSteps + 1
      \/ pc = "reportFailure" /\ reports' \in { << FALSE >>, << FALSE, FALSE >> }
  <2>1. CASE ReportSuccess
    <3>1. reports' = << TRUE >>
      BY <2>1, ReportsGrow DEF Reported
    <3>2. step = NSteps + 1
      BY <2>1 DEF TypeOK
    <3> QED
      BY <3>1, <3>2
  <2>2. CASE ReportFailure
    <3>1. reports \in { << >>, << FALSE >> } /\ reports' = Append(reports, FALSE)
      BY <2>2 DEF Reported
    <3>2. reports' \in { << FALSE >>, << FALSE, FALSE >> }
      BY <3>1, ReportsGrow
    <3> QED
      BY <2>2, <3>2
  <2> QED
    BY <2>1, <2>2
<1>3. TypeOK'
  <2>1. (reports \in Seq(BOOLEAN) /\ Len(reports) <= 2)'
    BY <1>2, ReportsTyped
  <2> QED
    BY <1>1, <2>1 DEF TypeOK
<1>4. Past' /\ Future' /\ Tracked'
  BY <1>1 DEF Past, Future, Tracked
<1>5. Present'
  BY <1>1 DEF Present
<1>6. Reported' /\ Aftermath'
  BY <1>1, <1>2, ReportsDiffer DEF Reported, Aftermath
<1>7. Blamed'
  BY <1>1, <1>2, ReportsDiffer DEF Blamed
<1>8. Settled'
  <2>1. step \in Steps => pc = "reportFailure"
    <3>1. NSteps + 1 \notin Steps
      OBVIOUS
    <3> QED
      BY <1>2, <3>1
  <2> QED
    BY <1>1, <2>1 DEF Settled
<1>9. Held'
  BY <1>1 DEF Held
<1> QED
  BY <1>3, <1>4, <1>5, <1>6, <1>7, <1>8, <1>9

LEMMA ClosingStep ==
    ASSUME IInv, UNCHANGED faults, RemoveVolume \/ VolumeBusy \/ RemoveVolumeFails
    PROVE  IInv'
<1> USE RunnerAssumption
    DEF IInv, Goto, Throw, SetContainer, local, daemon, database, Steps, InStep, Preparing,
        RemoveVolume, VolumeBusy, RemoveVolumeFails
<1>1. /\ pc = "removeVolume" /\ pc' \in { "removeVolume", "done" }
      /\ UNCHANGED << faults, step, pulled, container, held, exitCode, after, stepStatus, started,
                      reports >>
  OBVIOUS
<1>2. TypeOK'
  <2>1. (volume \in BOOLEAN)'
    BY DEF TypeOK
  <2>2. attempt' \in { attempt, attempt + 1 } /\ (attempt' = attempt + 1 => attempt < MaxAttempts - 1)
    BY DEF TypeOK, MaxAttempts
  <2>3. (attempt \in 0 .. MaxAttempts - 1)'
    BY <2>2 DEF TypeOK, MaxAttempts
  <2> QED
    BY <1>1, <2>1, <2>3 DEF TypeOK
<1>3. Past' /\ Future' /\ Tracked'
  BY <1>1 DEF Past, Future, Tracked
<1>4. Present'
  BY <1>1 DEF Present
<1>5. Reported' /\ Aftermath'
  BY <1>1 DEF Reported, Aftermath
<1>6. Blamed' /\ Settled'
  BY <1>1 DEF Blamed, Settled
<1>7. Held'
  BY <1>1 DEF Held
<1> QED
  BY <1>2, <1>3, <1>4, <1>5, <1>6, <1>7

LEMMA IInvStep == IInv /\ [Next]_vars => IInv'
<1> SUFFICES ASSUME IInv, [Next]_vars PROVE IInv'
  OBVIOUS
<1>1. CASE RunJob
  BY <1>1, PreparingStep, RunningStep, EndingStep, CleaningStep, ReportingStep, ClosingStep
  DEF RunJob
<1>2. CASE Fault
  BY <1>2, PreparingStep, RunningStep, EndingStep, CleaningStep, ClosingStep DEF Fault
<1>3. CASE Daemon
  BY <1>3, DaemonStep DEF Daemon
<1>4. CASE UNCHANGED vars
  <2> USE <1>4 DEF vars, local, daemon, database, IInv
  <2>1. TypeOK'
    BY DEF TypeOK
  <2>2. Past' /\ Future' /\ Present'
    BY DEF Past, Future, Present
  <2>3. Tracked' /\ Reported' /\ Aftermath'
    BY DEF Tracked, Reported, Aftermath
  <2>4. Blamed' /\ Settled' /\ Held'
    BY DEF Blamed, Settled, Held
  <2> QED
    BY <2>1, <2>2, <2>3, <2>4
<1> QED
  BY <1>1, <1>2, <1>3, <1>4 DEF Next

LEMMA Invariance == Spec => []IInv
  BY InitIInv, IInvStep, PTL DEF Spec

-----------------------------------------------------------------------------
(* What follows from it.                                                   *)

\* Every variable has its type: runJob gives up the volume after five attempts.
THEOREM TypeCorrect == Spec => []TypeOK
<1>1. IInv => TypeOK
  BY DEF IInv
<1> QED
  BY <1>1, Invariance, PTL

\* No command starts before its start is on record and all steps before it are
\* on record as succeeded, for jobs of any length and whatever fails.
THEOREM OnRecord == Spec => []RunsOnlyOnRecord
<1>1. IInv => RunsOnlyOnRecord
  <2> SUFFICES ASSUME IInv,
                      NEW i \in Steps, container[i] = "running" \/ exitCode[i] # "none",
                      NEW k \in 1 .. i - 1
               PROVE  started[i] /\ exitCode[k] = "zero" /\ stepStatus[k] = "succeeded"
    BY DEF RunsOnlyOnRecord, IInv, Tracked
  <2>1. started[i]
    BY DEF IInv, Tracked
  <2>2. i <= step
    BY DEF IInv, Future, TypeOK, Steps
  <2>3. k \in Steps /\ k < step
    BY <2>2, RunnerAssumption DEF IInv, TypeOK, Steps
  <2> QED
    BY <2>1, <2>3 DEF IInv, Past
<1> QED
  BY <1>1, Invariance, PTL

\* The reports are the three there can be, or none yet.
LEMMA Reports == IInv => reports \in { << >>, << TRUE >>, << FALSE >>, << FALSE, FALSE >> }
  BY DEF IInv, TypeOK, Reported, InStep, Preparing

\* A job reported as successful ran every command to exit code zero and has
\* every step on record as succeeded.
THEOREM SuccessReal == Spec => []SuccessIsReal
<1>1. IInv => SuccessIsReal
  BY RunnerAssumption DEF IInv, Reported, Past, Steps, SuccessIsReal
<1> QED
  BY <1>1, Invariance, PTL

\* The last report says what the database says of the steps, unless a container
\* cannot be removed or the overwriting of a success whose answer was lost is
\* itself rolled back.
THEOREM OutcomeTrue == Spec => []OutcomeIsTrue
<1>1. IInv => OutcomeIsTrue
  <2> SUFFICES ASSUME IInv, "remove" \notin faults, ~({ "db", "dbLost" } \subseteq faults),
                      reports # << >>
               PROVE  reports[Len(reports)] <=> \A i \in Steps : stepStatus[i] = "succeeded"
    BY DEF OutcomeIsTrue, ReportedOutcomeIsTrue
  <2>1. CASE reports = << TRUE >>
    <3>1. \A i \in Steps : stepStatus[i] = "succeeded"
      BY <2>1, RunnerAssumption DEF IInv, Reported, Past, Steps
    <3>2. reports[Len(reports)] = TRUE
      BY <2>1
    <3> QED
      BY <3>1, <3>2
  <2>2. CASE reports = << FALSE >> \/ reports = << FALSE, FALSE >>
    <3>1. step \in Steps /\ stepStatus[step] # "succeeded"
      BY <2>2 DEF IInv, Blamed
    <3>2. CASE reports = << FALSE >>
      <4>1. reports[Len(reports)] = FALSE
        BY <3>2
      <4> QED
        BY <3>1, <4>1
    <3>3. CASE reports = << FALSE, FALSE >>
      <4>1. reports[Len(reports)] = FALSE
        BY <3>3
      <4> QED
        BY <3>1, <4>1
    <3> QED
      BY <2>2, <3>2, <3>3
  <2> QED
    BY <2>1, <2>2, Reports
<1> QED
  BY <1>1, Invariance, PTL

\* While the database answers, no step that was begun is left incomplete.
THEOREM NoneIncomplete == Spec => []NoStepLeftIncomplete
<1>1. IInv => NoStepLeftIncomplete
  <2> SUFFICES ASSUME IInv, pc \in { "reportFailure", "removeVolume", "done" },
                      faults \cap { "db", "volume" } = {},
                      NEW i \in Steps, i <= step
               PROVE  stepStatus[i] # "incomplete"
    BY DEF NoStepLeftIncomplete
  <2>1. CASE i < step
    BY <2>1 DEF IInv, Past
  <2>2. CASE i = step
    BY <2>2 DEF IInv, Settled
  <2> QED
    BY <2>1, <2>2 DEF IInv, TypeOK, Steps
<1> QED
  BY <1>1, Invariance, PTL

\* When runJob returns, nothing of the job is left to run and its volume is
\* gone or was in use at each of five attempts, unless removing failed or the
\* daemon lost an answer.
THEOREM NothingLeft == Spec => []NothingLeftBehind
<1>1. IInv => NothingLeftBehind
  <2> SUFFICES ASSUME IInv, pc = "done",
                      faults \cap { "remove", "createLost", "removeVolume" } = {}
               PROVE  /\ \A i \in Steps : container[i] \in { "none", "exited", "removed" }
                      /\ volume => attempt = MaxAttempts - 1
    BY DEF NothingLeftBehind
  <2>1. volume => attempt = MaxAttempts - 1
    BY DEF IInv, Held
  <2>2. ASSUME NEW i \in Steps PROVE container[i] \in { "none", "exited", "removed" }
    <3>1. CASE i < step
      BY <3>1 DEF IInv, Past
    <3>2. CASE i > step
      BY <3>2 DEF IInv, Future
    <3>3. CASE i = step
      BY <3>3 DEF IInv, Held, TypeOK, InStep, Preparing
    <3> QED
      BY <3>1, <3>2, <3>3 DEF IInv, TypeOK, Steps
  <2> QED
    BY <2>1, <2>2
<1> QED
  BY <1>1, Invariance, PTL

-----------------------------------------------------------------------------
(* ContainerRunner implements JobReports.                                  *)

\* The steps that have passed are those before the current one, which may be
\* among them.
LEMMA PassedInOrder ==
    IInv =>
        Passed = IF step \in Steps /\ stepStatus[step] = "succeeded"
                 THEN 1 .. step ELSE 1 .. step - 1
  BY RunnerAssumption DEF IInv, TypeOK, Past, Future, Passed, Steps

LEMMA Quiet ==
    ASSUME UNCHANGED << stepStatus, reports >>, Failing' <=> Failing, pc # "done", pc' # "done"
    PROVE  UNCHANGED Promise!vars
<1>1. Passed' = Passed
  BY DEF Passed
<1>2. (pc = "done")' = (pc = "done") /\ Failing' = Failing
  BY DEF Failing
<1> QED
  BY <1>1, <1>2 DEF Promise!vars

LEMMA InitPromise == Init => Promise!Init
<1> SUFFICES ASSUME Init PROVE Promise!Init
  OBVIOUS
<1>1. Passed = {}
  BY DEF Init, Passed
<1>2. Failing = FALSE
  BY DEF Init, Failing
<1> QED
  BY <1>1, <1>2 DEF Init, Promise!Init

\* The writes of a step's status: a success passes it, and the catch may take
\* that back.
LEMMA EndPromise ==
    ASSUME IInv, IInv', RecordEnd \/ RecordEndLost \/ Catch \/ RecordStart \/ RecordStartLost
    PROVE  Promise!StepPasses \/ Promise!Fails \/ UNCHANGED Promise!vars
<1>1. /\ pc \in { "recordEnd", "catch", "recordStart" } /\ step \in Steps
      /\ step' = step /\ reports' = reports /\ pc # "done" /\ pc' # "done"
      /\ pc' \in { "finally", "catch", "reportStepFailed", "start" }
  BY DEF RecordEnd, RecordEndLost, Catch, RecordStart, RecordStartLost, Throw, Goto,
         local, database, IInv, Present, InStep, Preparing
<1>2. reports = << >> /\ reports' = << >> /\ after = "next"
  BY <1>1 DEF IInv, Reported, Aftermath, InStep, Preparing
<1>3. /\ Passed = IF stepStatus[step] = "succeeded" THEN 1 .. step ELSE 1 .. step - 1
      /\ Passed' = IF stepStatus'[step] = "succeeded" THEN 1 .. step ELSE 1 .. step - 1
  <2>1. (Passed = IF step \in Steps /\ stepStatus[step] = "succeeded"
                  THEN 1 .. step ELSE 1 .. step - 1)'
    BY PassedInOrder, PTL
  <2> QED
    BY <2>1, <1>1, PassedInOrder DEF Steps
<1>4. (pc = "done")' = (pc = "done")
  BY <1>1
<1>5. Failing = FALSE /\ Failing' = (after' # "next" \/ pc' = "reportStepFailed")
  BY <1>1, <1>2, ReportsDiffer DEF Failing
<1>6. CASE Catch
  <2>1. Failing' = TRUE /\ (stepStatus'[step] = "succeeded" => stepStatus[step] = "succeeded")
    BY <1>1, <1>5, <1>6 DEF Catch, IInv, TypeOK
  <2> QED
    BY <1>1, <1>2, <1>3, <1>4, <1>5, <2>1 DEF Promise!Fails, Steps
<1>7. CASE ~Catch
  <2>1. /\ pc \in { "recordEnd", "recordStart" } /\ stepStatus[step] = "incomplete"
        /\ after' # "next" => FALSE
        /\ pc' = "reportStepFailed" => stepStatus'[step] = "failed"
    BY <1>1, <1>2, <1>7
    DEF RecordEnd, RecordEndLost, SetOutcome, RecordStart, RecordStartLost, Throw, Goto,
        local, IInv, TypeOK, Present, InStep, Preparing
  <2>2. CASE pc' = "reportStepFailed"
    BY <2>1, <2>2, <1>1, <1>2, <1>3, <1>4, <1>5 DEF Promise!Fails
  <2>3. CASE pc' # "reportStepFailed"
    BY <2>1, <2>3, <1>1, <1>2, <1>3, <1>4, <1>5 DEF Promise!StepPasses, Promise!vars, Steps
  <2> QED
    BY <2>2, <2>3
<1> QED
  BY <1>6, <1>7

\* An error that leads straight to the outer catch.
LEMMA FailPromise ==
    ASSUME IInv, VolumeFails \/ FinallyFails
    PROVE  Promise!Fails \/ UNCHANGED Promise!vars
<1>1. /\ pc \in { "volume", "finally" } /\ pc' = "reportFailure"
      /\ UNCHANGED << after, stepStatus, reports >>
  BY DEF VolumeFails, FinallyFails, Goto, local, database
<1>2. Passed' = Passed /\ Failing' = TRUE /\ (pc = "done")' = (pc = "done")
  BY <1>1 DEF Passed, Failing
<1>3. CASE Failing
  <2>1. Failing = TRUE
    BY <1>3 DEF Failing
  <2> QED
    BY <2>1, <1>1, <1>2 DEF Promise!vars
<1>4. CASE ~Failing
  <2>1. Failing = FALSE
    BY <1>4 DEF Failing
  <2>2. reports = << >>
    BY <1>1, <1>4 DEF Failing, IInv, Reported, InStep, Preparing
  <2> QED
    BY <2>1, <2>2, <1>1, <1>2 DEF Promise!Fails
<1> QED
  BY <1>3, <1>4

\* The reports are made where JobReports allows them.
LEMMA ReportPromise ==
    ASSUME IInv, ReportStepFailed \/ ReportFailure \/ ReportSuccess
    PROVE  Promise!ReportFailure \/ Promise!ReportSuccess
<1>1. pc # "done" /\ pc' # "done" /\ UNCHANGED << step, stepStatus >>
  BY DEF ReportStepFailed, ReportFailure, ReportSuccess, Goto, local
<1>2. Passed' = Passed /\ (pc = "done")' = (pc = "done") /\ (pc = "done") = FALSE
  BY <1>1 DEF Passed
<1>3. CASE ReportStepFailed \/ ReportFailure
  <2>1. reports \in { << >>, << FALSE >> } /\ reports' = Append(reports, FALSE)
    BY <1>3 DEF ReportStepFailed, ReportFailure, Goto, IInv, Reported, InStep, Preparing
  <2>2. Failing = TRUE
    BY <1>3 DEF ReportStepFailed, ReportFailure, Goto, Failing
  <2>3. reports' \in { << FALSE >>, << FALSE, FALSE >> }
    BY <2>1, ReportsGrow
  <2>4. Failing' = TRUE
    BY <2>3, ReportsDiffer DEF Failing
  <2> QED
    BY <2>1, <2>2, <2>4, <1>1, <1>2 DEF Promise!ReportFailure
<1>4. CASE ReportSuccess
  <2>1. reports = << >> /\ reports' = << TRUE >> /\ after' = after
    BY <1>4, ReportsGrow DEF ReportSuccess, Goto, local, IInv, Reported
  <2>2. pc = "step" /\ pc' = "removeVolume"
    BY <1>4 DEF ReportSuccess, Goto
  <2>3. after = "next"
    BY <2>2 DEF IInv, Aftermath
  <2>4. Failing = FALSE /\ Failing' = FALSE
    BY <2>1, <2>2, <2>3 DEF Failing
  <2>5. step = NSteps + 1
    <3>1. step \in 1 .. NSteps + 1
      BY DEF IInv, TypeOK
    <3> QED
      BY <1>4, <3>1, RunnerAssumption DEF ReportSuccess
  <2>6. Passed = 1 .. NSteps
    BY <2>5, PassedInOrder, RunnerAssumption DEF Steps
  <2> QED
    BY <2>1, <2>4, <2>6, <1>2 DEF Promise!ReportSuccess
<1> QED
  BY <1>3, <1>4

\* runJob returns after a report.
LEMMA ReturnPromise ==
    ASSUME IInv, RemoveVolume \/ VolumeBusy \/ RemoveVolumeFails
    PROVE  Promise!Return \/ UNCHANGED Promise!vars
<1>1. /\ pc = "removeVolume" /\ pc' \in { "removeVolume", "done" }
      /\ UNCHANGED << after, stepStatus, reports >>
  BY DEF RemoveVolume, VolumeBusy, RemoveVolumeFails, Goto, local, database
<1>2. Failing' = Failing
  BY <1>1 DEF Failing
<1>3. CASE pc' = "done"
  <2>1. reports # << >>
    BY <1>1, ReportsDiffer DEF IInv, Reported
  <2>2. (pc = "done") = FALSE /\ (pc = "done")' = TRUE
    BY <1>1, <1>3
  <2>3. Passed' = Passed
    BY <1>1 DEF Passed
  <2> QED
    BY <2>1, <2>2, <2>3, <1>1, <1>2, <1>3 DEF Promise!Return
<1>4. CASE pc' # "done"
  BY <1>1, <1>2, <1>4, Quiet
<1> QED
  BY <1>3, <1>4

\* A step that is over leaves the job failing or not, as it was.
LEMMA LeavePromise ==
    ASSUME IInv, Finally \/ FinallyBusy
    PROVE  UNCHANGED Promise!vars
<1>1. pc = "finally" /\ UNCHANGED << after, stepStatus, reports >>
  BY DEF Finally, FinallyBusy, database
<1>2. \/ after = "next" /\ pc' = "step"
      \/ after = "return" /\ pc' = "removeVolume"
      \/ after = "throw" /\ pc' = "reportFailure"
  BY DEF Finally, FinallyBusy, Leave
<1>3. Failing' <=> Failing
  BY <1>1, <1>2 DEF Failing
<1> QED
  BY <1>1, <1>2, <1>3, Quiet

LEMMA NextPromise == IInv /\ IInv' /\ [Next]_vars => [Promise!Next]_Promise!vars
<1> SUFFICES ASSUME IInv, IInv', [Next]_vars
             PROVE  Promise!Next \/ UNCHANGED Promise!vars
  OBVIOUS
<1>1. CASE RecordEnd \/ RecordEndLost \/ Catch \/ RecordStart \/ RecordStartLost
  BY <1>1, EndPromise DEF Promise!Next
<1>2. CASE ReportStepFailed \/ ReportFailure \/ ReportSuccess
  BY <1>2, ReportPromise DEF Promise!Next
<1>3. CASE RemoveVolume \/ VolumeBusy \/ RemoveVolumeFails
  BY <1>3, ReturnPromise DEF Promise!Next
<1>4. CASE VolumeFails \/ FinallyFails
  BY <1>4, FailPromise DEF Promise!Next
<1>5. CASE Finally \/ FinallyBusy
  BY <1>5, LeavePromise
<1>6. CASE \/ PrepareVolume \/ BeginStep \/ Pull \/ Create \/ CreateLost \/ Attach
           \/ RecordStartFails \/ CallFails \/ Start \/ StartFails
           \/ Wait \/ WaitFindsNothing \/ WaitAnswers \/ RecordEndFails
  <2>1. /\ UNCHANGED << after, stepStatus, reports >>
        /\ pc \notin { "done", "reportStepFailed", "reportFailure" }
        /\ pc' \notin { "done", "reportStepFailed", "reportFailure" }
    BY <1>6
    DEF PrepareVolume, BeginStep, Pull, Create, CreateLost, Attach,
        RecordStartFails, CallFails, Start, StartFails, Wait, WaitFindsNothing, WaitAnswers,
        RecordEndFails, Goto, Throw, local, database
  <2>2. Failing' <=> Failing
    BY <2>1 DEF Failing
  <2> QED
    BY <2>1, <2>2, Quiet
<1>7. CASE CommandEnds \/ AutoRemove \/ UNCHANGED vars
  <2>1. UNCHANGED << after, stepStatus, reports, pc >>
    BY <1>7 DEF CommandEnds, AutoRemove, vars, local, database
  <2>2. Passed' = Passed /\ (pc = "done")' = (pc = "done") /\ Failing' = Failing
    BY <2>1 DEF Passed, Failing
  <2> QED
    BY <2>1, <2>2 DEF Promise!vars
<1> QED
  BY <1>1, <1>2, <1>3, <1>4, <1>5, <1>6, <1>7 DEF Next, RunJob, Fault, Daemon

\* runJob keeps what JobReports promises, whatever fails and whatever answer is
\* lost: every run of it is one that the runner's interface allows.
THEOREM Refinement == Spec => ReportsAsPromised
<1>1. Spec => Promise!Init /\ [][Promise!Next]_Promise!vars
  BY InitPromise, NextPromise, Invariance, PTL DEF Spec
<1> QED
  BY <1>1 DEF ReportsAsPromised, Promise!Spec
=============================================================================
