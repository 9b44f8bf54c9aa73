CONSTANTS
    list = list
    configure = configure
    login = login
    again = again
    Requests = {list, configure}
    Logins = {login, again}
    NoOne = NoOne
    MaxJobs = 5
    MaxAttempts = 2
    MaxExpiries = 2
    MaxCrashes = 1
    Scenarios <- MCScenarios
SPECIFICATION FairSpec
INVARIANTS
    TypeOK
    StoredIsGood
    RefreshScheduled
PROPERTIES
    NoneTurnedAway
    DueIsRefreshed
\* The queue may be empty and nobody has to ask for anything.
CHECK_DEADLOCK FALSE
