SPECIFICATION FairSpec
CONSTANTS
    t1 = t1
    t2 = t2
    Threads <- MCThreads
    MaxFunctors = 3
    MaxTimers = 1
    PipeCapacity = 2
INVARIANTS
    NoLostWakeUp
    ExactlyOnceInOrder
PROPERTIES
    QueuedFunctorsRun
    QuitEndsRun
\* the loop may sleep for ever, and Run may return
CHECK_DEADLOCK FALSE
