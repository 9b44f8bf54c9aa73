CONSTANTS
    Text <- MCText
    Flags = {"#true", "#false"}
    Configurations <- MCConfigurations
    Executed <- MCExecuted
SPECIFICATION Spec
INVARIANTS
    TypeOK
    FaultsReported
    PlanKeepsJobs
    AnswersAgree
    ShownVerdictHolds
    SettledAnswersHold
\* The system stops when nothing was launched.
CHECK_DEADLOCK FALSE
