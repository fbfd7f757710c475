SPECIFICATION FairSpec
CONSTANTS
    Capacity = 8
    HeaderLength = 2
    Lengths <- MCLengths
    MaxBodyLength = 3
    SizeRange = 16
    MaxPushes = 5
INVARIANTS
    TypeOK
    PopsInOrder
    EmptyMeansDrained
    SizeCounts
PROPERTIES
    RecordsStay
    Delivered
\* the producer may stop, and the consumer may be lost
CHECK_DEADLOCK FALSE
