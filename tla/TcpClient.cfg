SPECIFICATION FairSpec
CONSTANTS
    InitialSize = 1
    SizeRange = 16
    MaxConns = 2
    Fds = {1}
    WriteSizes = {2}
    MaxWritten = 2
    MaxInput = 2
    FileLen = 2
INVARIANTS
    NoDanglingPointers
    AssertionsHold
    SentInOrder
    ReceivedInOrder
PROPERTIES
    EndedConnectionsFreed
\* the loop may sleep for ever, and the process may end
CHECK_DEADLOCK FALSE
