SPECIFICATION FairSpec
CONSTANTS
    Slots = 3
    MaxPushes = 4
    MaxDeaths = 2
INVARIANTS
    SurvivorsInOrder
    CheckedSegmentsWork
PROPERTY
    Redelivered
\* the bounds on pushes and deaths run out
CHECK_DEADLOCK FALSE
