\* Two workers, in lists with and without a repetition; loops cut to one or two turns.
\* No deadlock check: start-up comes to an end.
SPECIFICATION FairSpec
CONSTANTS
    m = m
    a = a
    b = b
    dns = dns
    Name = {a, b, dns}
    Address <- MCAddress
    Host = {a, b}
    NodeLists <- MCNodeLists
    MaxPolls = 1
    MaxProbes = 1
    MaxTries = 2
    MaxStarts = 2
    MaxRestarts = 1
CHECK_DEADLOCK FALSE
INVARIANTS
    OneRankPerName
    AllThereFirst
    FailuresReported
PROPERTIES
    DispatchAdvances
    DispatchEnds
