\* Hold mode and early release, two slots, four task ids, two attempts. No deadlock check: with
\* every slot lost, all callers may be suspended in put(), which has no timeout.
SPECIFICATION GatewaySpec
CONSTANTS
    Task = {t1, t2, t3, t4}
    Cap <- MCCap
    Configs <- MCConfigs
    MaxOrphans = 1
    RetryTries = 2
CHECK_DEADLOCK FALSE
SYMMETRY Ids
INVARIANTS
    ConcurrencyBounded
    NoSlotFromNowhere
PROPERTY
    OwnAnswerReturnsSlot
