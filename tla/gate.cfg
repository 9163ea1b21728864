SPECIFICATION FairSpec
CONSTANTS
    Task = {t1, t2, t3, t4, t5}
    Cap <- MCCap
    Configs <- EveryConfig
INVARIANTS
    SlotConservation
    NoIdleSlotUnlessBlocking
    NoLostWaiter
    RoomIsAnnounced
    QueueBounded
PROPERTIES
    FirstComeFirstServed
    HandOversInOrder
    WaitEnds
