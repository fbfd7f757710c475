---------------------------- MODULE BlockingQueue ----------------------------
(***************************************************************************)
(* fx::BlockingQueue: any number of threads in Push and in Pop, one mutex and *)
(* one condition variable.  Push notifies after it has unlocked, and a wait   *)
(* may end without a notification.                                          *)
(***************************************************************************)
EXTENDS Integers, FiniteSets

CONSTANTS
    Users,
    NoUser,         \* holder of a free mutex
    MaxPushes       \* bound: items pushed

ASSUME QueueAssumption ==
    IsFiniteSet(Users) /\ NoUser \notin Users /\ MaxPushes \in Nat

VARIABLES
    stage,          \* per thread: where it is
    holder,         \* of queue_op_mutex_
    size,           \* the items in internal_queue_
    pushed          \* items pushed so far

queueVars == <<stage, holder, size, pushed>>

\* testing holds the mutex; sleeping is in cond_var_.wait, which has released it;
\* waking has left it and wants the mutex back.
Places == {"idle", "popping", "testing", "sleeping", "waking",
           "pushing", "storing", "notifying"}

In(place) == {t \in Users : stage[t] = place}

TypeOK ==
    /\ stage \in [Users -> Places]
    /\ holder \in Users \cup {NoUser}
    /\ size \in Nat /\ pushed \in Nat

QueueInit ==
    /\ stage = [t \in Users |-> "idle"]
    /\ holder = NoUser
    /\ size = 0 /\ pushed = 0

Move(t, place) == stage' = [stage EXCEPT ![t] = place]

\* Thread t locks the mutex on its way from one place to another.
Lock(t, from, to) ==
    /\ stage[t] = from /\ holder = NoUser
    /\ holder' = t
    /\ Move(t, to)
    /\ UNCHANGED <<size, pushed>>

CallPop(t) ==
    /\ stage[t] = "idle"
    /\ Move(t, "popping")
    /\ UNCHANGED <<holder, size, pushed>>

LockPop(t) == Lock(t, "popping", "testing")
Relock(t) == Lock(t, "waking", "testing")

\* wait() releases the mutex and begins to sleep in one step.
WaitForItem(t) ==
    /\ stage[t] = "testing" /\ size = 0
    /\ holder' = NoUser
    /\ Move(t, "sleeping")
    /\ UNCHANGED <<size, pushed>>

WakeWithoutItem(t) ==
    /\ stage[t] = "sleeping"
    /\ Move(t, "waking")
    /\ UNCHANGED <<holder, size, pushed>>

Pop(t) ==
    /\ stage[t] = "testing" /\ size > 0
    /\ size' = size - 1
    /\ holder' = NoUser
    /\ Move(t, "idle")
    /\ UNCHANGED pushed

CallPush(t) ==
    /\ stage[t] = "idle"
    /\ pushed + Cardinality(In("pushing") \cup In("storing")) < MaxPushes
    /\ Move(t, "pushing")
    /\ UNCHANGED <<holder, size, pushed>>

LockPush(t) == Lock(t, "pushing", "storing")

PushAndNotifyFirst(t) ==      \* mutant: notifies only if the queue was empty
    /\ stage[t] = "storing"
    /\ size' = size + 1 /\ pushed' = pushed + 1
    /\ holder' = NoUser
    /\ Move(t, IF size = 0 THEN "notifying" ELSE "idle")

PushItem(t) ==
    /\ stage[t] = "storing"
    /\ size' = size + 1 /\ pushed' = pushed + 1
    /\ holder' = NoUser
    /\ Move(t, "notifying")

\* notify_one, without the mutex: some sleeper wakes, if there is one.
NotifyOne(t) ==
    /\ stage[t] = "notifying"
    /\ IF In("sleeping") = {} THEN Move(t, "idle")
       ELSE \E s \in In("sleeping") :
               stage' = [stage EXCEPT ![t] = "idle", ![s] = "waking"]
    /\ UNCHANGED <<holder, size, pushed>>

\* The steps a thread takes once it has called.
Proceed(t) ==
    \/ LockPop(t) \/ Relock(t) \/ WaitForItem(t) \/ Pop(t)
    \/ LockPush(t) \/ PushItem(t) \/ NotifyOne(t)

QueueNext == \E t \in Users :
    CallPop(t) \/ CallPush(t) \/ WakeWithoutItem(t) \/ Proceed(t)

QueueSpec == QueueInit /\ [][QueueNext]_queueVars

\* Every thread that can go on does.
FairQueueSpec == QueueSpec /\ \A t \in Users : WF_queueVars(Proceed(t))

-----------------------------------------------------------------------------
(* Properties *)

\* While a Pop sleeps, each item in the queue is accounted for: by another Pop
\* that is awake, or by a Push that is still going to notify.  An item beyond
\* those would lie there although somebody waits for it.
Attended == In("popping") \cup In("testing") \cup In("waking") \cup In("notifying")

ItemsAttended ==
    In("sleeping") # {} => size <= Cardinality(Attended)

\* A Pop does not stay asleep while there is an item nobody takes.
ItemsAreTaken ==
    (size > 0 /\ In("sleeping") # {}) ~> (size = 0 \/ In("sleeping") = {})
=============================================================================
