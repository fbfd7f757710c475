SPECIFICATION FairSpec
CONSTANTS
    Streams <- MCStreams
    FileSystems <- MCFileSystems
    MaxChanges = 1
INVARIANTS
    AnswersFitInput
    AnswerWritten
    ProperRequestsSurvived
PROPERTIES
    ConnectionsEnd
\* a server that has closed the connection, or waits for its client, stops
CHECK_DEADLOCK FALSE
