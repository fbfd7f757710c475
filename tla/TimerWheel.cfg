SPECIFICATION FairSpec
CONSTANTS
    Timers <- MCTimers
    Slots <- MCSlots
    MaxTime = 5
    MaxInterval = 5
    SetupTakesTime = FALSE
INVARIANTS
    SlotsFollowHands
    QueueMatchesTimers
PROPERTIES
    ImplementsTimerService
    TimersFire
    AssertionsHold
\* the loop may sleep for ever, and the clock stops at MaxTime
CHECK_DEADLOCK FALSE
