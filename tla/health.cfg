\* The intervals, time limits and thresholds of the code in units of 500 ms: 5000 and 9000 ms
\* with 10 % of jitter, each wait in full or not at all.  Scaled down: STARTUP_GRACE_MS, and
\* sglang's budget and count of time-outs.
SPECIFICATION Spec
CONSTANTS
    Engines = {"sglang", "other"}
    Pauses = {9, 11}
    LongPauses = {16, 20}
    TcpTimes = {0, 4}
    HttpTimes = {0, 20}
    HealthTimeout = 10
    StartupGrace = 20
    FailThreshold = 5
    FailGrace = 50
    SilenceMax = 120
    PidGrace = 60
    TimeoutMax = 2
    Budget = 2
    ScoreMax = 16
    AccumMax = 200
    Forever = 176
INVARIANTS
    LongSilenceIsReported
    GraceIsKeptButForJitter
    CodeAndStatusAgreeButForSglang
