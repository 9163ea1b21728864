SPECIFICATION Spec
CONSTANTS
    Requests <- MCRequests
    MaxPlans = 2
INVARIANTS
    LaunchTypeOK
    RanksCover
    FitsCards
    MemoryFits
    SameCluster
    PlanStable
    AsTheScriptExpects
    StrategyFitsOffload
