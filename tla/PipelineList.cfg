CONSTANTS
    Text <- MCText
    Flags = {"#true", "#false"}
    Configurations <- MCConfigurations
    Executed <- MCExecuted
SPECIFICATION Spec
INVARIANT ListedIsTrue
\* The system stops when nothing was launched.
CHECK_DEADLOCK FALSE
