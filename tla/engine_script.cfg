\* Every combination of features on one engine, one plan for each kind of log.
\* No deadlock check: the script comes to an end.
SPECIFICATION FairSpec
CONSTANTS
    Inputs <- MCInputs
    PluginsImport = TRUE
    FailAfter = 2
    MaxUnread = 1
    MaxAhead = 1
    MaxRuns = 2
CHECK_DEADLOCK FALSE
INVARIANTS
    OnlyUnrecordedIsMisreported
    SecondStartAsPromised
    NothingCompleteBeforeFirstReady
PROPERTY
    ReadyIsReported
