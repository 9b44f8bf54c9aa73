CONSTANTS
    MaxRequests = 2
    MaxAttempts = 2
    MaxCrashes = 1
    Scenarios <- MCScenarios
SPECIFICATION FairSpec
INVARIANTS
    TypeOK
    AttemptsAgree
    NeverForgotten
PROPERTY ConfiguredWorks
\* The queue may be empty.
CHECK_DEADLOCK FALSE
