CONSTANTS
    node = node
    alpine = alpine
    NSteps = 3
    Images <- MCImages
    ImageOf <- MCImageOf
    Scenarios <- MCScenarios
SPECIFICATION FairSpec
INVARIANTS
    TypeOK
    RunsOnlyOnRecord
    SuccessIsReal
    OutcomeIsTrue
    NoStepLeftIncomplete
    NothingLeftBehind
PROPERTIES
    ReportsAsPromised
    RunEnds
\* runJob returns.
CHECK_DEADLOCK FALSE
