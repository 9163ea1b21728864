\* Every mode; crash threshold of 2 and backoff of at most 4 turns of the loop.
\* No deadlock check: the launcher returns.
SPECIFICATION FairSpec
CONSTANTS
    Modes = {"standalone", "peer", "master", "worker"}
    Threshold = 2
    MaxBackoff = 4
    MaxCrashes = 2
CHECK_DEADLOCK FALSE
INVARIANTS
    OneExitMiscounted
PROPERTIES
    GivesUpOnlyWhenAllDown
    RestartedOrGivenUp
