SPECIFICATION FairSpec
CONSTANTS
    Workers = {w1, w2}
    Schedules = {1, 2}
    Monthly = {2}
    Anchor <- MC_Anchor
    Interval = 1
    MaxTime = 1
    MaxRefreshes = 1
    MaxFaults = 1
INVARIANTS
    TypeOK FiredOnce NoPhantomRun IndexWaitsAreOrdered
PROPERTIES
    EveryTickServed EveryPollEnds
