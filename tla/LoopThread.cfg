SPECIFICATION FairSpec
CONSTANTS
    loop_thread_count_ = 3
    MaxTurns = 2
INVARIANTS
    HandedOutLoopsLive
PROPERTIES
    StartReturns
\* nothing is left to do when all turns are taken
CHECK_DEADLOCK FALSE
