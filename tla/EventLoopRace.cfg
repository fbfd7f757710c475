SPECIFICATION Spec
CONSTANTS
    t1 = t1
    t2 = t2
    Threads <- MCThreads
    MaxFunctors = 2
    MaxTimers = 1
    PipeCapacity = 4
INVARIANT
    PushesDoNotRace
CHECK_DEADLOCK FALSE
