\* The plugins as they are: their package does not export the classes.
\* No deadlock check: the script comes to an end.
SPECIFICATION FairSpec
CONSTANTS
    Inputs <- MCMaster
    PluginsImport = FALSE
    FailAfter = 2
    MaxUnread = 1
    MaxAhead = 1
    MaxRuns = 2
CHECK_DEADLOCK FALSE
PROPERTY
    ProgressIsWritten
