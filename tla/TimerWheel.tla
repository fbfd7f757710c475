----------------------------- MODULE TimerWheel -----------------------------
(***************************************************************************)
(* fx::TimerWheel, the hierarchical timing wheel of an EventLoop, with the   *)
(* part of Run that drives it: Poll sleeps for NextTimeout, Step moves the   *)
(* hands to the instant Poll returned and hands out the callbacks that are   *)
(* due, the loop calls them.                                                *)
(*                                                                         *)
(* Wheel 1 is the code's wheel 0.  The list of a slot is the set of the      *)
(* timers whose pos is that slot; callbacks are called in any order.         *)
(***************************************************************************)
EXTENDS Integers, Sequences, FiniteSets, FiniteSetsExt

CONSTANTS
    Timers,             \* TimerIds, given out in increasing order
    Slots,              \* kWheelSlotCount: the slots of each wheel
    MaxTime,            \* bound: last instant of the clock
    MaxInterval,        \* bound: longest interval given to RunAfter
    SetupTakesTime      \* may the clock move between the constructor and Run?

\* The ticks the first wheels hold.  All of them hold as many as an int has
\* non-negative values: the code's offsets add up to 31 bits.
Ticks[w \in 0 .. Len(Slots)] == IF w = 0 THEN 1 ELSE Ticks[w - 1] * Slots[w]
Capacity == Ticks[Len(Slots)]

\* The code masks and shifts, so its slots are powers of 2; the sums need not.
ASSUME SlotsAssumption == Slots \in Seq(Nat \ {0}) /\ Slots # <<>>
ASSUME TimeAssumption == MaxTime \in Nat /\ MaxInterval \in Nat
ASSUME IntervalAssumption == MaxTime + MaxInterval < 2 * Capacity
ASSUME SetupAssumption == SetupTakesTime \in BOOLEAN
ASSUME TimersAssumption == Timers \subseteq Nat

VARIABLES
    phase,              \* where the loop is, or "aborted"
    clock,              \* base::Now()
    pollNow,            \* the instant Poll returned, Run's now
    wakeAt,             \* in Poll: when its timeout runs out
    hands_,             \* the hand of each wheel
    last_expire_time_,
    timers_,            \* timers_[id]: the timer's expire_time and its slot
    expire_time_queue_, \* how often each instant is in the priority queue
    pending,            \* expired timers whose callback Run has yet to call
    gone                \* history: timers called or removed with RemoveTimer

vars == <<phase, clock, pollNow, wakeAt, hands_, last_expire_time_, timers_,
          expire_time_queue_, pending, gone>>
wheelVars == <<hands_, last_expire_time_, timers_, expire_time_queue_>>

UserPhases == {"setup", "events", "callback"}
Never == -1
Instants == 0 .. MaxTime + MaxInterval

Wheels == 1 .. Len(Slots)
NoWheel == 0

Active == DOMAIN timers_
Used == Active \cup pending \cup gone

Init ==
    /\ phase = "setup"
    /\ clock = 0
    /\ pollNow = 0
    /\ wakeAt = Never
    /\ hands_ = [w \in Wheels |-> 0]
    /\ last_expire_time_ = 0
    /\ timers_ = [t \in {} |-> 0]
    /\ expire_time_queue_ = [i \in Instants |-> 0]
    /\ pending = {}
    /\ gone = {}

-----------------------------------------------------------------------------
(* Broken variants of definitions below, one per property: substituted for the *)
(* definition they vary, they make the property fail.                          *)

\* FindPos hands the whole interval to the next wheel (without the shift of line 244)
RestUndivided(h, w, rest) == rest + h[w]

\* Step leaves the timers of the stop slot where they are (lines 217-225)
PlaceUnchanged(t, target, now) == timers_[t].pos

\* Step hands out the whole stop slot (without line 179)
IsDueUntested(t, now) == TRUE

\* RemoveTimer leaves expire_time_queue_ alone
WithoutNone(queue, instant) == queue

\* RemoveTimer without "and not removed" (line 111)
WithoutAny(queue, instant) == [queue EXCEPT ![instant] = 0]

-----------------------------------------------------------------------------
(* Pure functions of the wheel *)

\* Where the hand of wheel w goes, and what is left for the next wheel, carry
\* included, when rest is added to it.
NewHand(h, w, rest) == (rest + h[w]) % Slots[w]
Rest(h, w, rest) == (rest + h[w]) \div Slots[w]

\* What each wheel is handed of the interval: it adds its digit of it to its
\* hand and hands the rest to the next.
Rests(h, interval) ==
    LET rest[w \in 1 .. Len(Slots) + 1] ==
            IF w = 1 THEN interval ELSE Rest(h, w - 1, rest[w - 1])
    IN  rest

\* The slot the hands h would stand on after interval, the new hands, and
\* whether the last wheel wrapped.  The slot is on the first wheel that leaves
\* no rest.  After a wrap it is on the highest
\* wheel whose hand is not at 0; if there is none an assertion fails, as one
\* does for an interval that turns negative in the code's int.
FindPos(h, interval) ==
    LET rest == Rests(h, interval)
        new == [w \in Wheels |-> NewHand(h, w, rest[w])]
        stops == {w \in Wheels : rest[w + 1] = 0}
        nonzero == {w \in Wheels : new[w] # 0}
        wheel == IF interval < Capacity /\ stops # {} THEN Min(stops)
                 ELSE IF interval < Capacity /\ nonzero # {} THEN Max(nonzero)
                 ELSE NoWheel
    IN  [pos |-> <<wheel, IF wheel = NoWheel THEN 0 ELSE new[wheel]>>,
         hands |-> new,
         overflow |-> stops = {}]

\* The interval from last_expire_time_ on, 0 for an instant before it.
Interval(instant) == Max({0, instant - last_expire_time_})

Earliest(queue) == Min({i \in Instants : queue[i] > 0})

\* What Poll's timeout is to be, the loop being at instant now.
NextTimeout(queue, now) ==
    IF \A i \in Instants : queue[i] = 0 THEN Never
    ELSE Max({0, Earliest(queue) - now})

Deadline(timeout) == IF timeout = Never THEN Never ELSE clock + timeout

\* The queue without one of its entries for the instant.
Without(queue, instant) == [queue EXCEPT ![instant] = Max({0, @ - 1})]

IsDue(t, now) == timers_[t].expire <= now

\* The slot Step leaves timer t in: a timer of the slot the hand stops on is
\* placed anew, from where the hands are now.
Place(t, target, now) ==
    IF timers_[t].pos = target.pos
    THEN FindPos(target.hands, timers_[t].expire - now).pos
    ELSE timers_[t].pos

\* The timers Step unlinks from their slots when the hands move to target:
\* those of the lower wheels, those of the slots the hand of the stop wheel
\* passes, and of its stop slot those that are due.
Expired(target, now) ==
    LET passed(w, s) ==
            \/ target.overflow
            \/ w < target.pos[1]
            \/ w = target.pos[1] /\ s \in hands_[w] .. target.pos[2] - 1
    IN  {t \in Active : \/ passed(timers_[t].pos[1], timers_[t].pos[2])
                        \/ timers_[t].pos = target.pos /\ IsDue(t, now)}

-----------------------------------------------------------------------------
(* Time *)

Tick ==
    /\ phase # "setup" \/ SetupTakesTime
    /\ clock < MaxTime
    /\ clock' = clock + 1
    /\ UNCHANGED <<phase, pollNow, wakeAt, wheelVars, pending, gone>>

-----------------------------------------------------------------------------
(* Calls made by user code on the loop thread *)

\* EventLoop::RunAfter, TimerWheel::RunAt and TimerWheel::RunAfter.
RunAfter(interval) ==
    /\ phase \in UserPhases
    /\ Timers \ Used # {}
    /\ LET t == Min(Timers \ Used)
           ticks == Interval(clock + interval)
           target == FindPos(hands_, ticks)
           expire == ticks + last_expire_time_
       IN  /\ timers_' = [u \in Active \cup {t} |->
                             IF u = t THEN [expire |-> expire, pos |-> target.pos]
                             ELSE timers_[u]]
           /\ expire_time_queue_' = [expire_time_queue_ EXCEPT ![expire] = @ + 1]
           /\ phase' = IF target.pos[1] = NoWheel THEN "aborted" ELSE phase
    /\ UNCHANGED <<clock, pollNow, wakeAt, hands_, last_expire_time_, pending,
                   gone>>

\* RemoveTimer of a timer that has not been called yet.  One that is due, and so
\* no longer in timers_, fails the assertion.
RemoveTimer(t) ==
    /\ phase \in UserPhases
    /\ t \in Active \cup pending
    /\ IF t \in Active
       THEN /\ timers_' = [u \in Active \ {t} |-> timers_[u]]
            /\ expire_time_queue_' =
                  Without(expire_time_queue_, timers_[t].expire)
            /\ gone' = gone \cup {t}
            /\ UNCHANGED phase
       ELSE /\ phase' = "aborted"
            /\ UNCHANGED <<timers_, expire_time_queue_, gone>>
    /\ UNCHANGED <<clock, pollNow, wakeAt, hands_, last_expire_time_, pending>>

-----------------------------------------------------------------------------
(* The loop *)

\* Run: Start moves last_expire_time_ and nothing else.
Run ==
    /\ phase = "setup"
    /\ phase' = "poll"
    /\ last_expire_time_' = clock
    /\ pollNow' = clock
    /\ wakeAt' = Deadline(NextTimeout(expire_time_queue_, clock))
    /\ UNCHANGED <<clock, hands_, timers_, expire_time_queue_, pending, gone>>

PollReturns ==
    /\ phase = "poll"
    /\ phase' = "events"
    /\ pollNow' = clock
    /\ wakeAt' = Never
    /\ UNCHANGED <<clock, wheelVars, pending, gone>>

\* Some channel is ready.
PollEvent == PollReturns

\* The timeout has run out; a Poll that would outlast the model's clock
\* returns when the clock stops.
PollTimeout ==
    /\ wakeAt # Never
    /\ clock >= wakeAt \/ clock = MaxTime
    /\ PollReturns

\* Step: expired timers are handed out, the others of the slot the hand stops
\* on are placed anew, and FindPos's assertions must hold for all of them.  When
\* the wheel overflows, every timer is handed out and the code goes on to read a
\* slot of a wheel that does not exist: the process may stop there.
Step ==
    /\ phase = "events"
    /\ \E target \in {FindPos(hands_, Interval(pollNow))} :
       \E expired \in {Expired(target, pollNow)} :
           /\ hands_' = target.hands
           /\ timers_' = [t \in Active \ expired |->
                             [expire |-> timers_[t].expire,
                              pos |-> Place(t, target, pollNow)]]
           /\ pending' = expired
           /\ phase' \in
                 IF \/ target.pos[1] = NoWheel
                    \/ \E t \in DOMAIN timers_' : timers_'[t].pos[1] = NoWheel
                 THEN {"aborted"}
                 ELSE IF target.overflow THEN {"aborted", "callbacks"}
                 ELSE {"callbacks"}
    /\ expire_time_queue_' =
          [i \in Instants |-> IF i <= pollNow THEN 0 ELSE expire_time_queue_[i]]
    /\ last_expire_time_' = pollNow
    /\ UNCHANGED <<clock, pollNow, wakeAt, gone>>

\* Run calls the next callback Step handed out ...
Call(t) ==
    /\ phase = "callbacks" /\ t \in pending
    /\ phase' = "callback"
    /\ pending' = pending \ {t}
    /\ gone' = gone \cup {t}
    /\ UNCHANGED <<clock, pollNow, wakeAt, wheelVars>>

\* ... which returns ...
CallbackReturns ==
    /\ phase = "callback"
    /\ phase' = "callbacks"
    /\ UNCHANGED <<clock, pollNow, wakeAt, wheelVars, pending, gone>>

\* ... and after the last one the next timeout is computed, from the instant
\* Poll returned and not from the present.
EndIteration ==
    /\ phase = "callbacks" /\ pending = {}
    /\ phase' = "poll"
    /\ wakeAt' = Deadline(NextTimeout(expire_time_queue_, pollNow))
    /\ UNCHANGED <<clock, pollNow, wheelVars, pending, gone>>

-----------------------------------------------------------------------------
(* Specification *)

UserCode ==
    \/ \E interval \in 0 .. MaxInterval : RunAfter(interval)
    \/ \E t \in Timers : RemoveTimer(t)

LoopStep ==
    Run \/ Step \/ CallbackReturns \/ EndIteration \/ \E t \in Timers : Call(t)

Next == Tick \/ UserCode \/ LoopStep \/ PollEvent \/ PollTimeout

\* Time passes, epoll_wait honours its timeout and callbacks return; nothing
\* else need ever wake the loop.
Fairness == WF_vars(Tick) /\ WF_vars(LoopStep) /\ WF_vars(PollTimeout)

Spec == Init /\ [][Next]_vars
FairSpec == Spec /\ Fairness

-----------------------------------------------------------------------------
(* Properties *)

\* Steps and cascades never let a timer drift: its slot is always the one
\* FindPos would give it now, for the time it still has to go.
SlotsFollowHands ==
    \A t \in Active :
        timers_[t].pos =
            FindPos(hands_, timers_[t].expire - last_expire_time_).pos

\* expire_time_queue_ and the wheel are two records of the same timers, kept
\* by different code: the queue holds each expire_time as often as timers_.
QueueMatchesTimers ==
    \A i \in Instants :
        expire_time_queue_[i] = Cardinality({t \in Active : timers_[t].expire = i})

\* The wheel keeps the promises of TimerService.
Service ==
    INSTANCE TimerService WITH armed <- [t \in Active |-> timers_[t].expire]
ImplementsTimerService == Service!Spec

\* Every timer is called or removed in the end, though nothing but its own
\* timeouts wakes the loop.
TimersFire ==
    \A t \in Timers :
        (t \in Active /\ timers_[t].expire <= MaxTime)
            ~> t \in gone \/ phase = "aborted"

\* Step hands out the callbacks of all the timers that have expired
\* (fx_timer_wheel.cc:197).
StepHandsOutExpired ==
    [][phase = "events" /\ phase' = "callbacks"
          => \A t \in Active' : timers_'[t].expire > pollNow]_vars

\* No assertion of the wheel fails, and it never runs over, but for one case the
\* code leaves open: a callback removes another timer of the same Step, which
\* RemoveTimer no longer finds.
AssertionsHold ==
    [][phase # "aborted" /\ phase' = "aborted"
          => \E t \in pending : RemoveTimer(t)]_vars
=============================================================================
