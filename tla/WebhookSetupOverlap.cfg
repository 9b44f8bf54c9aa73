CONSTANTS
    MaxRequests = 2
    MaxAttempts = 2
    MaxCrashes = 0
    Scenarios = {{}}
SPECIFICATION Spec
INVARIANT OneJobPerRepo
\* The queue may be empty.
CHECK_DEADLOCK FALSE
