---------------------------- MODULE TimerService ----------------------------
(***************************************************************************)
(* What the timers of an event loop promise to the code that arms them: a    *)
(* timer may be cancelled while it is armed; it becomes due when its time    *)
(* has come and never before, and every timer whose time has come becomes    *)
(* due together; a due timer is called once.                                *)
(***************************************************************************)
EXTENDS Integers

CONSTANTS
    Timers,         \* identities of timers
    MaxTime,        \* bound: the last instant of the clock
    MaxInterval     \* bound: how far ahead a timer is armed

VARIABLES
    clock,
    armed,          \* armed[t]: when the armed timer t is to be called
    pending,        \* timers that are due and not called yet
    gone            \* timers called or cancelled

vars == <<clock, armed, pending, gone>>

Armed == DOMAIN armed

Init ==
    /\ clock = 0
    /\ armed = [t \in {} |-> 0]
    /\ pending = {}
    /\ gone = {}

Tick ==
    /\ clock < MaxTime
    /\ clock' = clock + 1
    /\ UNCHANGED <<armed, pending, gone>>

\* A timer is armed for the present or the future.
Arm(t) ==
    /\ t \notin Armed \cup pending \cup gone
    /\ \E e \in clock .. clock + MaxInterval :
          armed' = [u \in Armed \cup {t} |-> IF u = t THEN e ELSE armed[u]]
    /\ UNCHANGED <<clock, pending, gone>>

Cancel(t) ==
    /\ t \in Armed
    /\ armed' = [u \in Armed \ {t} |-> armed[u]]
    /\ gone' = gone \cup {t}
    /\ UNCHANGED <<clock, pending>>

\* At an instant the clock has reached, exactly the timers of that instant and
\* of those before it become due.
Expire(now) ==
    /\ now <= clock
    /\ pending = {}
    /\ pending' = {t \in Armed : armed[t] <= now}
    /\ armed' = [t \in Armed \ pending' |-> armed[t]]
    /\ UNCHANGED <<clock, gone>>

Call(t) ==
    /\ t \in pending
    /\ pending' = pending \ {t}
    /\ gone' = gone \cup {t}
    /\ UNCHANGED <<clock, armed>>

Next ==
    \/ Tick
    \/ \E t \in Timers : Arm(t) \/ Cancel(t) \/ Call(t)
    \/ \E now \in 0 .. MaxTime : Expire(now)

Spec == Init /\ [][Next]_vars
=============================================================================
