SPECIFICATION FairSpec
CONSTANTS
    Threads = {w1}
    Addresses = {a1}
    Delays <- MCDelays
    MaxDelay = 1
    Floor = 1
    PipeSize = 1
    MaxCalls = 2
    MaxTimers = 2
    MaxWork = 3
    MaxTime = 1
INVARIANTS
    RunOnceInOrder
    NoLostWakeup
    NoOversleep
PROPERTIES
    Progress
