------------------------------ MODULE EventLoop ------------------------------
(***************************************************************************)
(* fx::EventLoop: one thread runs Run(); it polls, runs the handlers of the *)
(* ready channels, then a batch of queued functors, then the timers that    *)
(* are due.  Any thread may hand it work with QueueInLoop and stop it with   *)
(* Quit; both wake the loop by writing an int to a pipe the loop polls.      *)
(*                                                                         *)
(* A functor is the rank of its QueueInLoop call in the order the calls'     *)
(* push_back took effect; queued[i] says where call i came from: a foreign   *)
(* thread, or the phase of the loop thread whose user code made it.          *)
(***************************************************************************)
EXTENDS Integers, Sequences, FiniteSets

CONSTANTS
    Threads,        \* the threads other than the loop's own
    MaxFunctors,    \* bound: calls of QueueInLoop
    MaxTimers,      \* bound: timers armed at one time
    PipeCapacity    \* ints the wakeup pipe holds before write() blocks

ASSUME MaxFunctorsAssumption == MaxFunctors \in Nat
ASSUME MaxTimersAssumption == MaxTimers \in Nat
ASSUME PipeCapacityAssumption == PipeCapacity \in Nat \ {0}

VARIABLES
    pc,                 \* where the loop thread is
    functors_,          \* queued functors, shared with every thread
    batch,              \* what CallPendingFunctors swapped out and has yet to run
    calling_functors_,
    started_,
    quit_,
    bytes,              \* ints written to the wakeup pipe and not read
    wakeReady,          \* Poll reported the wakeup channel, not handled yet
    timers,             \* timers armed in the wheel
    due,                \* callbacks Step returned, not called yet
    lpush,              \* the loop thread's own QueueInLoop: see PushStages
    tpc,                \* per foreign thread: the stage of its call
    raced,              \* two push_back calls on functors_ have overlapped
    queued,             \* history: origin of each functor, in push order
    ran                 \* history: functors in the order they were run

loopVars == <<pc, batch, calling_functors_, started_, wakeReady, timers, due, ran>>
vars == <<pc, functors_, batch, calling_functors_, started_, quit_, bytes,
          wakeReady, timers, due, lpush, tpc, raced, queued, ran>>

\* The phases of Run in which code of the user runs: before Run, the channel
\* handlers and the period functor, a functor, a timer callback.
UserPhases == {"init", "handle", "functor", "timer"}
Phases == UserPhases \cup {"loop", "poll", "functors", "timers", "done"}
Origins == UserPhases \cup {"foreign"}
PushStages == {"idle", "pushing", "wake"}
Functors == 1 .. MaxFunctors

Init ==
    /\ pc = "init"
    /\ functors_ = <<>>
    /\ batch = <<>>
    /\ calling_functors_ = FALSE
    /\ started_ = FALSE
    /\ quit_ = FALSE
    /\ bytes = 0
    /\ wakeReady = FALSE
    /\ timers = 0
    /\ due = 0
    /\ lpush = "idle"
    /\ tpc = [t \in Threads |-> "idle"]
    /\ raced = FALSE
    /\ queued = <<>>
    /\ ran = <<>>

-----------------------------------------------------------------------------
(* Broken variants of definitions below, one per property: substituted for the *)
(* definition they vary, they make the property fail.                          *)

\* line 125 without "or calling_functors_"
NeedsWakeUpUnlessCalling == ~started_

\* line 125 without "or not started_"
NeedsWakeUpUnlessStarted == calling_functors_

\* CallPendingFunctors copies functors_ where it should swap
CopyFunctors ==
    /\ pc = "handle" /\ lpush = "idle" /\ ~wakeReady
    /\ pc' = "functors"
    /\ calling_functors_' = TRUE
    /\ batch' = functors_
    /\ UNCHANGED <<functors_, started_, quit_, bytes, wakeReady, timers, due,
                   lpush, tpc, raced, queued, ran>>

\* Quit without its wakeup
QuitNoWakeUp(t) ==
    /\ tpc[t] = "idle" /\ ~quit_
    /\ quit_' = TRUE
    /\ UNCHANGED <<functors_, bytes, lpush, tpc, raced, queued, loopVars>>

-----------------------------------------------------------------------------
(* Helpers *)

\* call_functors_mutex_ is held by the thread inside the locked push_back.
FunctorsLocked == \E t \in Threads : tpc[t] = "pushing"

\* Calls of QueueInLoop begun but not yet in queued.
InFlight == Cardinality({t \in Threads : tpc[t] = "pushing"})
            + (IF lpush = "pushing" THEN 1 ELSE 0)

MayQueue == Len(queued) + InFlight < MaxFunctors

\* push_back takes effect.  Once two of them have overlapped the vector is in
\* an undefined state and an element may be lost.
PushBack(origin) ==
    /\ queued' = Append(queued, origin)
    /\ \/ functors_' = Append(functors_, Len(queued) + 1)
       \/ raced /\ functors_' = functors_

\* QueueInLoop's test, as the loop thread itself evaluates it.
NeedsWakeUp == calling_functors_ \/ ~started_

\* write() of one int; the pipe was left in blocking mode, so a full pipe
\* blocks the writer.
WakeUp == bytes < PipeCapacity /\ bytes' = bytes + 1

InUserCode == pc \in UserPhases /\ lpush = "idle"

-----------------------------------------------------------------------------
(* The loop thread: Run *)

Run ==
    /\ pc = "init" /\ lpush = "idle"
    /\ pc' = "loop"
    /\ started_' = TRUE
    /\ UNCHANGED <<functors_, batch, calling_functors_, quit_, bytes, wakeReady,
                   timers, due, lpush, tpc, raced, queued, ran>>

TestQuit ==
    /\ pc = "loop"
    /\ pc' = IF quit_ THEN "done" ELSE "poll"
    /\ UNCHANGED <<functors_, batch, calling_functors_, started_, quit_, bytes,
                   wakeReady, timers, due, lpush, tpc, raced, queued, ran>>

\* Poll returns: for the wakeup channel, for a timeout, for a channel of the
\* user, or interrupted by a signal.
Poll ==
    /\ pc = "poll"
    /\ pc' = "handle"
    /\ wakeReady' = (bytes > 0)
    /\ UNCHANGED <<functors_, batch, calling_functors_, started_, quit_, bytes,
                   timers, due, lpush, tpc, raced, queued, ran>>

\* One int is read, however many were written.
ProcessWakeUp ==
    /\ pc = "handle" /\ lpush = "idle"
    /\ wakeReady /\ bytes > 0
    /\ wakeReady' = FALSE
    /\ bytes' = bytes - 1
    /\ UNCHANGED <<pc, functors_, batch, calling_functors_, started_, quit_,
                   timers, due, lpush, tpc, raced, queued, ran>>

\* CallPendingFunctors: the queue is swapped out under the mutex ...
SwapFunctors ==
    /\ pc = "handle" /\ lpush = "idle" /\ ~wakeReady
    /\ ~FunctorsLocked
    /\ pc' = "functors"
    /\ calling_functors_' = TRUE
    /\ batch' = functors_
    /\ functors_' = <<>>
    /\ UNCHANGED <<started_, quit_, bytes, wakeReady, timers, due, lpush, tpc,
                   raced, queued, ran>>

\* ... and run without it.
RunFunctor ==
    /\ pc = "functors" /\ batch # <<>>
    /\ pc' = "functor"
    /\ ran' = Append(ran, Head(batch))
    /\ batch' = Tail(batch)
    /\ UNCHANGED <<functors_, calling_functors_, started_, quit_, bytes,
                   wakeReady, timers, due, lpush, tpc, raced, queued>>

FunctorReturns ==
    /\ pc = "functor" /\ lpush = "idle"
    /\ pc' = "functors"
    /\ UNCHANGED <<functors_, batch, calling_functors_, started_, quit_, bytes,
                   wakeReady, timers, due, lpush, tpc, raced, queued, ran>>

\* The last functor has run; TimerWheel::Step hands out the callbacks due.
Step ==
    /\ pc = "functors" /\ batch = <<>>
    /\ pc' = "timers"
    /\ calling_functors_' = FALSE
    /\ due' \in 0 .. timers
    /\ timers' = timers - due'
    /\ UNCHANGED <<functors_, batch, started_, quit_, bytes, wakeReady, lpush,
                   tpc, raced, queued, ran>>

FireTimer ==
    /\ pc = "timers" /\ due > 0
    /\ pc' = "timer"
    /\ due' = due - 1
    /\ UNCHANGED <<functors_, batch, calling_functors_, started_, quit_, bytes,
                   wakeReady, timers, lpush, tpc, raced, queued, ran>>

TimerReturns ==
    /\ pc = "timer" /\ lpush = "idle"
    /\ pc' = "timers"
    /\ UNCHANGED <<functors_, batch, calling_functors_, started_, quit_, bytes,
                   wakeReady, timers, due, lpush, tpc, raced, queued, ran>>

EndIteration ==
    /\ pc = "timers" /\ due = 0
    /\ pc' = "loop"
    /\ UNCHANGED <<functors_, batch, calling_functors_, started_, quit_, bytes,
                   wakeReady, timers, due, lpush, tpc, raced, queued, ran>>

-----------------------------------------------------------------------------
(* Calls made by user code on the loop thread *)

\* QueueInLoop on the loop thread: push_back without the mutex ...
BeginLoopPush ==
    /\ InUserCode /\ MayQueue
    /\ lpush' = "pushing"
    /\ raced' = (raced \/ FunctorsLocked)
    /\ UNCHANGED <<functors_, quit_, bytes, tpc, queued, loopVars>>

\* ... then a wakeup unless the batch of this iteration is still to be swapped.
EndLoopPush ==
    /\ lpush = "pushing"
    /\ PushBack(pc)
    /\ lpush' = IF NeedsWakeUp THEN "wake" ELSE "idle"
    /\ UNCHANGED <<quit_, bytes, tpc, raced, loopVars>>

LoopWakeUp ==
    /\ lpush = "wake"
    /\ WakeUp
    /\ lpush' = "idle"
    /\ UNCHANGED <<functors_, quit_, tpc, raced, queued, loopVars>>

\* Quit on the loop thread sends no wakeup.  A second Quit changes nothing.
LoopQuit ==
    /\ InUserCode /\ ~quit_
    /\ quit_' = TRUE
    /\ UNCHANGED <<functors_, bytes, lpush, tpc, raced, queued, loopVars>>

RunAfter ==
    /\ InUserCode /\ timers + due < MaxTimers
    /\ timers' = timers + 1
    /\ UNCHANGED <<pc, functors_, batch, calling_functors_, started_, quit_,
                   bytes, wakeReady, due, lpush, tpc, raced, queued, ran>>

-----------------------------------------------------------------------------
(* Calls made by the other threads *)

\* QueueInLoop (or RunInLoop) from thread t: lock and push_back ...
BeginPush(t) ==
    /\ tpc[t] = "idle" /\ ~FunctorsLocked /\ MayQueue
    /\ tpc' = [tpc EXCEPT ![t] = "pushing"]
    /\ raced' = (raced \/ lpush = "pushing")
    /\ UNCHANGED <<functors_, quit_, bytes, lpush, queued, loopVars>>

\* ... unlock ...
EndPush(t) ==
    /\ tpc[t] = "pushing"
    /\ PushBack("foreign")
    /\ tpc' = [tpc EXCEPT ![t] = "wake"]
    /\ UNCHANGED <<quit_, bytes, lpush, raced, loopVars>>

\* ... and write to the pipe, blocking while it is full.
ForeignWakeUp(t) ==
    /\ tpc[t] = "wake"
    /\ WakeUp
    /\ tpc' = [tpc EXCEPT ![t] = "idle"]
    /\ UNCHANGED <<functors_, quit_, lpush, raced, queued, loopVars>>

\* Quit from thread t: the flag first, the wakeup after it.
ForeignQuit(t) ==
    /\ tpc[t] = "idle" /\ ~quit_
    /\ quit_' = TRUE
    /\ tpc' = [tpc EXCEPT ![t] = "wake"]
    /\ UNCHANGED <<functors_, bytes, lpush, raced, queued, loopVars>>

-----------------------------------------------------------------------------
(* Specification *)

UserCode == BeginLoopPush \/ EndLoopPush \/ LoopWakeUp \/ LoopQuit \/ RunAfter

\* Everything the loop thread does but wait in Poll.
LoopStep ==
    \/ Run \/ TestQuit \/ ProcessWakeUp \/ SwapFunctors
    \/ RunFunctor \/ FunctorReturns
    \/ Step \/ FireTimer \/ TimerReturns \/ EndIteration
    \/ UserCode

ForeignStep(t) ==
    BeginPush(t) \/ EndPush(t) \/ ForeignWakeUp(t) \/ ForeignQuit(t)

Next == LoopStep \/ Poll \/ \E t \in Threads : ForeignStep(t)

\* epoll_wait has something of the loop's own to return for.
PollHasReason == Poll /\ (bytes > 0 \/ timers > 0)

\* The loop thread is scheduled and user code returns; Poll is only promised
\* to return for the wakeup pipe or a timer; a foreign thread that began a call
\* finishes it, but need not begin one.
Fairness ==
    /\ WF_vars(LoopStep)
    /\ WF_vars(PollHasReason)
    /\ \A t \in Threads : WF_vars(EndPush(t) \/ ForeignWakeUp(t))

Spec == Init /\ [][Next]_vars
FairSpec == Spec /\ Fairness

-----------------------------------------------------------------------------
(* Properties *)

\* Every variable keeps its type, and the functor queue never holds an id that
\* no QueueInLoop call was given.
TypeOK ==
    /\ pc \in Phases
    /\ functors_ \in Seq(1 .. Len(queued))
    /\ batch \in Seq(1 .. Len(queued))
    /\ ran \in Seq(1 .. Len(queued))
    /\ queued \in Seq(Origins)
    /\ calling_functors_ \in BOOLEAN /\ started_ \in BOOLEAN /\ quit_ \in BOOLEAN
    /\ wakeReady \in BOOLEAN /\ raced \in BOOLEAN
    /\ bytes \in 0 .. PipeCapacity
    /\ timers \in Nat /\ due \in Nat
    /\ lpush \in PushStages
    /\ tpc \in [Threads -> PushStages]

WakeUpComing ==
    bytes > 0 \/ lpush = "wake" \/ \E t \in Threads : tpc[t] = "wake"

\* QueueInLoop's wakeup rule (fx_event_loop.cc:125) is enough: unless the loop
\* is about to swap the queue anyway, a functor waiting in functors_ has an
\* unread byte in the pipe, or a thread about to write one.  The exception is a
\* functor queued by a timer callback, for which the code sends no wakeup.
NoLostWakeUp ==
    \A i \in 1 .. Len(functors_) :
        queued[functors_[i]] # "timer" => pc = "handle" \/ WakeUpComing

\* While push_back calls do not overlap, functors run exactly once and in the
\* order they were queued: what ran, then the batch, then the queue, is every
\* functor queued so far in order.
ExactlyOnceInOrder ==
    ~raced => ran \o batch \o functors_ = [i \in 1 .. Len(queued) |-> i]

\* The loop thread is the pipe's only reader: blocked in its own write to the
\* full pipe, it never gets out.
LoopBlocked == lpush = "wake" /\ bytes = PipeCapacity

\* A functor in the queue that was not put there by a timer callback is
\* eventually run, unless the loop quits first, blocks on its own pipe, or the
\* vector was corrupted by overlapping pushes.
QueuedFunctorsRun ==
    \A f \in Functors :
        (\E i \in 1 .. Len(functors_) : functors_[i] = f /\ queued[f] # "timer")
            ~> (\/ \E i \in 1 .. Len(ran) : ran[i] = f
                \/ pc = "done" \/ raced \/ LoopBlocked)

\* Quit, from whatever thread and in whatever phase, ends Run, unless the loop
\* is blocked on its own pipe.
QuitEndsRun == quit_ ~> (pc = "done" \/ LoopBlocked)

\* fx_event_loop.cc:121 requires pushes from other threads to take the lock;
\* that excludes concurrent pushes only if the loop thread takes it too.
PushesDoNotRace == ~raced
=============================================================================
