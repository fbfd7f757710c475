----------------------------- MODULE LoopThread -----------------------------
(***************************************************************************)
(* EventLoopThreadPool and its EventLoopThreads: a starter thread has each of *)
(* the threads create its loop, waits until the loop is there, and then hands *)
(* the loops out in turn.  A loop lives on the stack of its thread: it is     *)
(* gone when Run returns.                                                   *)
(***************************************************************************)
EXTENDS Integers, Sequences, FiniteSets

CONSTANTS
    loop_thread_count_,
    MaxTurns        \* bound: calls of NextLoop

ASSUME PoolAssumption ==
    loop_thread_count_ \in Nat \ {0} /\ MaxTurns \in Nat

Threads == 1 .. loop_thread_count_
Starter == 0
Nobody == -1

VARIABLES
    at,             \* the starter: where it is in StartLoop
    starting,       \* the thread that Start has come to
    loops_,         \* EventLoopThreadPool::loops_, NULL as 0
    next_,          \* the turn, from 0
    pc,             \* per thread: where it is in CreateLoopAndRun
    owner,          \* per thread: the owner of mutex_
    loop_,          \* per thread: EventLoopThread::loop_ is set
    quit,           \* per thread: quit_ of its loop
    turns           \* history, per thread: how often its loop was handed out

vars == <<at, starting, loops_, next_, pc, owner, loop_, quit, turns>>

\* Where a thread has a loop.
HasLoop == {"built", "storing", "stored", "running"}

Init ==
    /\ at = "start" /\ starting = 1
    /\ loops_ = <<>> /\ next_ = 0
    /\ pc = [t \in Threads |-> "none"]
    /\ owner = [t \in Threads |-> Nobody]
    /\ loop_ = [t \in Threads |-> FALSE]
    /\ quit = [t \in Threads |-> FALSE]
    /\ turns = [t \in Threads |-> 0]

Goto(t, place) == pc' = [pc EXCEPT ![t] = place]
SetOwner(t, who) == owner' = [owner EXCEPT ![t] = who]

-----------------------------------------------------------------------------
(* The starter: EventLoopThreadPool::Start and EventLoopThread::StartLoop *)

pool == <<loops_, next_, turns>>
loops == <<pc, loop_, quit>>

Spawn ==
    /\ at = "start" /\ starting <= loop_thread_count_
    /\ at' = "locking"
    /\ Goto(starting, "spawned")
    /\ UNCHANGED <<starting, pool, owner, loop_, quit>>

LockStarterOnce ==      \* mutant: if instead of while around the wait
    /\ at \in {"locking", "waking"} /\ owner[starting] = Nobody
    /\ at' = IF at = "waking" THEN "returning" ELSE "testing"
    /\ SetOwner(starting, Starter)
    /\ UNCHANGED <<starting, pool, loops>>

\* On its way in, and when wait() ends, the starter takes the mutex.
LockStarter ==
    /\ at \in {"locking", "waking"} /\ owner[starting] = Nobody
    /\ at' = "testing"
    /\ SetOwner(starting, Starter)
    /\ UNCHANGED <<starting, pool, loops>>

Test ==
    /\ at = "testing"
    /\ at' = IF loop_[starting] THEN "returning" ELSE "waiting"
    /\ UNCHANGED <<starting, pool, owner, loops>>

Wait ==
    /\ at = "waiting"
    /\ at' = "sleeping"
    /\ SetOwner(starting, Nobody)
    /\ UNCHANGED <<starting, pool, loops>>

WakeSpuriously ==
    /\ at = "sleeping"
    /\ at' = "waking"
    /\ UNCHANGED <<starting, pool, owner, loops>>

\* StartLoop unlocks and returns loop_, and Start puts it into loops_.
StartLoopReturns ==
    /\ at = "returning"
    /\ at' = "start" /\ starting' = starting + 1
    /\ SetOwner(starting, Nobody)
    /\ loops_' = Append(loops_, IF loop_[starting] THEN starting ELSE 0)
    /\ UNCHANGED <<next_, turns, loops>>

Started == at = "start" /\ starting > loop_thread_count_

\* Called for each new connection.
NextLoop ==
    /\ Started
    /\ LET t == loops_[next_ + 1] IN
          /\ turns[t] < MaxTurns
          /\ turns' = [turns EXCEPT ![t] = @ + 1]
          /\ next_' = (next_ + 1) % loop_thread_count_
    /\ UNCHANGED <<at, starting, loops_, owner, loops>>

\* Whoever was handed a loop may have it quit.
QuitLoop(t) ==
    /\ turns[t] > 0 /\ ~quit[t] /\ pc[t] \in HasLoop
    /\ quit' = [quit EXCEPT ![t] = TRUE]
    /\ UNCHANGED <<at, starting, pool, pc, owner, loop_>>

-----------------------------------------------------------------------------
(* A loop thread: EventLoopThread::CreateLoopAndRun *)

Build(t) ==
    /\ pc[t] = "spawned"
    /\ Goto(t, "built")
    /\ UNCHANGED <<at, starting, pool, owner, loop_, quit>>

LockThread(t) ==
    /\ pc[t] = "built" /\ owner[t] = Nobody
    /\ Goto(t, "storing")
    /\ SetOwner(t, t)
    /\ UNCHANGED <<at, starting, pool, loop_, quit>>

Store(t) ==
    /\ pc[t] = "storing"
    /\ loop_' = [loop_ EXCEPT ![t] = TRUE]
    /\ Goto(t, "stored")
    /\ SetOwner(t, Nobody)
    /\ UNCHANGED <<at, starting, pool, quit>>

NotifyNobody(t) ==      \* mutant: the notification is left out
    /\ pc[t] = "stored"
    /\ Goto(t, "running")
    /\ UNCHANGED <<at, starting, pool, owner, loop_, quit>>

\* notify_one: the starter sleeps on this thread's condition variable, or not.
Notify(t) ==
    /\ pc[t] = "stored"
    /\ Goto(t, "running")
    /\ at' = IF at = "sleeping" /\ starting = t THEN "waking" ELSE at
    /\ UNCHANGED <<starting, pool, owner, loop_, quit>>

RunReturns(t) ==
    /\ pc[t] = "running" /\ quit[t]
    /\ Goto(t, "dead")
    /\ UNCHANGED <<at, starting, pool, owner, loop_, quit>>

-----------------------------------------------------------------------------
(* Specification *)

StarterStep == Spawn \/ LockStarter \/ Test \/ Wait \/ StartLoopReturns

ThreadStep(t) ==
    Build(t) \/ LockThread(t) \/ Store(t) \/ Notify(t) \/ RunReturns(t)

Next ==
    \/ StarterStep \/ WakeSpuriously \/ NextLoop
    \/ \E t \in Threads : ThreadStep(t) \/ QuitLoop(t)

Spec == Init /\ [][Next]_vars

\* The starter and the threads run on, and a thread gets a mutex that is free
\* again and again: wakeups without a cause cannot keep it away for ever.
FairSpec ==
    /\ Spec /\ WF_vars(StarterStep)
    /\ \A t \in Threads : WF_vars(ThreadStep(t)) /\ SF_vars(LockThread(t))

-----------------------------------------------------------------------------
(* Properties *)

\* Every pointer the pool keeps and hands out is that of a loop which exists:
\* StartLoop returns neither NULL nor a loop that is not built.  The pool does
\* not hear of a loop that has quit, and goes on handing out its pointer.
HandedOutLoopsLive ==
    \A k \in DOMAIN loops_ :
        loops_[k] \in {t \in Threads : pc[t] \in HasLoop \/ quit[t]}

\* Start returns: the loop is not there before the starter waits, or the starter
\* is notified, also when waits end early and loops quit.
StartReturns == <>Started
=============================================================================
