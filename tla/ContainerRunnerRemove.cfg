CONSTANTS
    node = node
    alpine = alpine
    NSteps = 3
    Images <- MCImages
    ImageOf <- MCImageOf
    Scenarios = {{"remove"}}
SPECIFICATION Spec
INVARIANT ReportedOutcomeIsTrue
\* runJob returns.
CHECK_DEADLOCK FALSE
