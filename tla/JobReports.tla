----------------------------- MODULE JobReports -----------------------------
(***************************************************************************)
(* What a runner promises for a job it was given (execution/runner/        *)
(* interface.ts), whatever it runs it with: the steps are put on record as *)
(* successful one after the other until the job fails, which may take back *)
(* the last of them; the job is reported as successful once all of them    *)
(* are, and then not reported again, or as failed, which may be repeated   *)
(* once; and the call returns after a report.                              *)
(***************************************************************************)
EXTENDS Naturals, Sequences

CONSTANT NSteps     \* how many steps the planned job has

VARIABLES
    passed,     \* the steps on record as successful
    failing,    \* something went wrong: the job will be reported as failed
    reports,    \* the arguments onJobEnd was called with
    returned    \* runJob's promise is resolved

vars == << passed, failing, reports, returned >>

Init == passed = {} /\ failing = FALSE /\ reports = << >> /\ returned = FALSE

StepPasses ==
    /\ ~failing /\ reports = << >>
    /\ \E i \in 1 .. NSteps : passed = 1 .. i - 1 /\ passed' = 1 .. i
    /\ UNCHANGED << failing, reports, returned >>

\* A step whose success was recorded but not acknowledged fails after all.
Fails ==
    /\ ~failing /\ reports = << >>
    /\ failing' = TRUE
    /\ \/ UNCHANGED passed
       \/ \E i \in 1 .. NSteps : passed = 1 .. i /\ passed' = 1 .. i - 1
    /\ UNCHANGED << reports, returned >>

ReportSuccess ==
    /\ ~failing /\ reports = << >> /\ passed = 1 .. NSteps
    /\ reports' = << TRUE >>
    /\ UNCHANGED << passed, failing, returned >>

ReportFailure ==
    /\ failing /\ ~returned
    /\ reports \in { << >>, << FALSE >> }
    /\ reports' = Append(reports, FALSE)
    /\ UNCHANGED << passed, failing, returned >>

Return ==
    /\ ~returned /\ reports # << >>
    /\ returned' = TRUE
    /\ UNCHANGED << passed, failing, reports >>

Next == StepPasses \/ Fails \/ ReportSuccess \/ ReportFailure \/ Return

Spec == Init /\ [][Next]_vars
=============================================================================
