SPECIFICATION Spec
CONSTANTS
    Timers <- MCTimers
    Slots <- MCSlots
    MaxTime = 5
    MaxInterval = 5
    SetupTakesTime = TRUE
PROPERTY
    StepHandsOutExpired
CHECK_DEADLOCK FALSE
