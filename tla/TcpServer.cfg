SPECIFICATION FairSpec
CONSTANTS
    base = base
    io = io
    Base = base
    IoLoops <- MCIoLoops
    MaxConns = 2
    Fds = {1}
    MaxInput = 1
INVARIANTS
    NoDanglingPointers
    AssertionsHold
    CallbacksPaired
    PushesDoNotMix
PROPERTIES
    ReadsInOrder
    ClosedConnectionsFreed
\* the loops may sleep for ever, and the process may abort
CHECK_DEADLOCK FALSE
