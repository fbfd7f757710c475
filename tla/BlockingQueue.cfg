SPECIFICATION FairQueueSpec
CONSTANTS
    Users = {t1, t2, t3, t4}
    NoUser = NoUser
    MaxPushes = 3
INVARIANTS
    ItemsAttended
PROPERTIES
    ItemsAreTaken
\* every thread may wait for an item that is never pushed
CHECK_DEADLOCK FALSE
