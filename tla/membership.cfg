\* The intervals of the code in units of 5 seconds, one worker. A request takes
\* up to 10 seconds; 3 of the 30 registrations.
SPECIFICATION Spec
CONSTANTS
    Node = {n1}
    CheckInterval = 6
    MaxMissed = 10
    Interval = 6
    MaxBackoff = 60
    MaxRetries = 3
    RetryInterval = 1
    RequestTime = 2
    MaxFailures = 4
INVARIANTS
    SilentNodeIsDropped
PROPERTIES
    RemovedAfterLongSilence
    SurvivesTwoLosses
