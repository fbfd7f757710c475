---------------------------- MODULE MCTimerWheel ----------------------------
(* Small instances of TimerWheel, for TLC. *)
EXTENDS TimerWheel

MCTimers == 1 .. 3

\* Three wheels of 2, 2 and 4 slots: the hands wrap after 16 ticks.
MCSlots == <<2, 2, 4>>
=============================================================================
