----------------------------- MODULE ThreadProofs -----------------------------
(***************************************************************************)
(* Theorems about the two components whose threads meet at a mutex and a      *)
(* condition variable: LoopThread, for a pool of any size, and BlockingQueue, *)
(* for any finite set of threads and any number of items.  In the queue,      *)
(* every place a thread goes to either keeps the count of items ahead of      *)
(* nobody at zero or brings a thread that attends to one.                    *)
(***************************************************************************)
EXTENDS LoopThread, BlockingQueue, FiniteSetTheorems, TLAPS

(***************************************************************************)
(* LoopThread                                                                *)
(***************************************************************************)
StarterPlaces == {"start", "locking", "testing", "waiting", "sleeping", "waking",
                  "returning"}
ThreadPlaces == {"none", "spawned", "built", "storing", "stored", "running", "dead"}

TypeInv ==
    /\ at \in StarterPlaces
    /\ starting \in 1 .. loop_thread_count_ + 1
    /\ loops_ \in Seq(Threads)
    /\ pc \in [Threads -> ThreadPlaces]
    /\ loop_ \in [Threads -> BOOLEAN]
    /\ quit \in [Threads -> BOOLEAN]

\* While the starter is in StartLoop, a thread is being started.
StarterInv == at # "start" => starting <= loop_thread_count_

\* A thread does something only once it is spawned.
SpawnInv ==
    \A t \in Threads :
        t > starting \/ (t = starting /\ at = "start") => pc[t] = "none"

\* loop_ points to the loop on the thread's stack until Run returns, and Run
\* returns only when it is told to.
LoopInv ==
    /\ \A t \in Threads : loop_[t] => pc[t] \in {"stored", "running", "dead"}
    /\ \A t \in Threads : pc[t] = "dead" => quit[t]

\* StartLoop is about to return, or has returned, only loops that are set.
ReturnInv ==
    /\ at = "returning" => loop_[starting]
    /\ \A k \in DOMAIN loops_ : loop_[loops_[k]]

IInv == TypeInv /\ StarterInv /\ SpawnInv /\ LoopInv /\ ReturnInv

LEMMA InitIInv == Init => IInv
  BY PoolAssumption
  DEF Init, IInv, TypeInv, StarterInv, SpawnInv, LoopInv, ReturnInv, StarterPlaces,
      ThreadPlaces, Threads

LEMMA StartingIsAThread ==
    ASSUME IInv, at # "start"
    PROVE  starting \in Threads
  BY PoolAssumption DEF IInv, TypeInv, StarterInv, Threads

LEMMA SpawnKeeps == IInv /\ Spawn => IInv'
<1> SUFFICES ASSUME IInv, Spawn PROVE IInv'
  OBVIOUS
<1>1. /\ at = "start" /\ at' = "locking" /\ starting \in Threads
      /\ pc' = [pc EXCEPT ![starting] = "spawned"]
      /\ UNCHANGED <<starting, loops_, loop_, quit>>
  BY PoolAssumption DEF Spawn, IInv, TypeInv, Threads, Goto, pool
<1>2. pc[starting] = "none" /\ ~loop_[starting]
  BY <1>1 DEF IInv, SpawnInv, LoopInv
<1>3. TypeInv'
  BY <1>1 DEF IInv, TypeInv, StarterPlaces, ThreadPlaces
<1>4. StarterInv' /\ SpawnInv'
  BY <1>1, PoolAssumption DEF IInv, TypeInv, StarterInv, SpawnInv, Threads
<1>5. LoopInv' /\ ReturnInv'
  BY <1>1, <1>2 DEF IInv, TypeInv, LoopInv, ReturnInv
<1> QED
  BY <1>3, <1>4, <1>5 DEF IInv

\* The steps of the starter that only move it, with or without the mutex.
LEMMA StarterMoves ==
    ASSUME IInv, at # "start", at' \in StarterPlaces \ {"start"},
           at' = "returning" => loop_[starting],
           UNCHANGED <<starting, loops_, pc, loop_, quit>>
    PROVE  IInv'
<1>1. TypeInv' /\ StarterInv' /\ SpawnInv'
  BY DEF IInv, TypeInv, StarterInv, SpawnInv
<1>2. LoopInv' /\ ReturnInv'
  BY DEF IInv, LoopInv, ReturnInv
<1> QED
  BY <1>1, <1>2 DEF IInv

LEMMA StarterKeeps == IInv /\ (LockStarter \/ Test \/ Wait \/ WakeSpuriously) => IInv'
<1>1. IInv /\ LockStarter => IInv'
  BY StarterMoves DEF LockStarter, loops, pool, StarterPlaces
<1>2. IInv /\ Test => IInv'
  BY StarterMoves DEF Test, loops, pool, StarterPlaces
<1>3. IInv /\ Wait => IInv'
  BY StarterMoves DEF Wait, loops, pool, StarterPlaces
<1>4. IInv /\ WakeSpuriously => IInv'
  BY StarterMoves DEF WakeSpuriously, loops, pool, StarterPlaces
<1> QED
  BY <1>1, <1>2, <1>3, <1>4

LEMMA StartLoopReturnsKeeps == IInv /\ StartLoopReturns => IInv'
<1> SUFFICES ASSUME IInv, StartLoopReturns PROVE IInv'
  OBVIOUS
<1>1. /\ at = "returning" /\ at' = "start" /\ starting' = starting + 1
      /\ UNCHANGED <<pc, loop_, quit>>
  BY DEF StartLoopReturns, loops
<1>2. starting \in Threads /\ loop_[starting]
  BY <1>1, StartingIsAThread DEF IInv, ReturnInv
<1>3. loops_' = Append(loops_, starting)
  BY <1>2 DEF StartLoopReturns
<1>4. TypeInv'
  BY <1>1, <1>2, <1>3, PoolAssumption DEF IInv, TypeInv, StarterPlaces, Threads
<1>5. StarterInv' /\ SpawnInv'
  BY <1>1, <1>2, PoolAssumption DEF IInv, TypeInv, StarterInv, SpawnInv, Threads
<1>6. LoopInv'
  BY <1>1 DEF IInv, LoopInv
<1>7. ReturnInv'
  BY <1>1, <1>2, <1>3 DEF IInv, TypeInv, ReturnInv
<1> QED
  BY <1>4, <1>5, <1>6, <1>7 DEF IInv

\* A thread that is spawned goes to a place where its loop_, if set, is one that
\* exists; the starter only wakes.
LEMMA ThreadMoves ==
    ASSUME IInv, NEW t \in Threads, NEW place \in ThreadPlaces, pc[t] # "none",
           Goto(t, place),
           at' = at \/ (at = "sleeping" /\ at' = "waking"),
           UNCHANGED <<starting, loops_, quit>>,
           loop_' \in [Threads -> BOOLEAN],
           \A u \in Threads : loop_[u] => loop_'[u],
           \A u \in Threads : loop_'[u] => loop_[u] \/ u = t,
           loop_'[t] => place \in {"stored", "running", "dead"},
           place = "dead" => quit[t]
    PROVE  IInv'
<1>1. pc' = [pc EXCEPT ![t] = place]
  BY DEF Goto
<1>2. TypeInv'
  BY <1>1 DEF IInv, TypeInv, StarterPlaces
<1>3. StarterInv' /\ SpawnInv'
  BY <1>1 DEF IInv, TypeInv, StarterInv, SpawnInv
<1>4. LoopInv'
  BY <1>1 DEF IInv, TypeInv, LoopInv
<1>5. ReturnInv'
  <2>1. at' = "returning" => loop_'[starting']
    <3> SUFFICES ASSUME at' = "returning" PROVE loop_'[starting']
      OBVIOUS
    <3>1. at = "returning"
      OBVIOUS
    <3> QED
      BY <3>1, StartingIsAThread DEF IInv, ReturnInv
  <2>2. ASSUME NEW k \in DOMAIN loops_
        PROVE  loop_'[loops_[k]]
    <3>1. loops_[k] \in Threads
      BY DEF IInv, TypeInv
    <3> QED
      BY <3>1 DEF IInv, ReturnInv
  <2> QED
    BY <2>1, <2>2 DEF ReturnInv
<1> QED
  BY <1>2, <1>3, <1>4, <1>5 DEF IInv

LEMMA ThreadKeeps ==
    ASSUME NEW t \in Threads
    PROVE  IInv /\ ThreadStep(t) => IInv'
<1> SUFFICES ASSUME IInv, ThreadStep(t) PROVE IInv'
  OBVIOUS
<1> USE DEF ThreadPlaces, pool, loops
<1>1. loop_ \in [Threads -> BOOLEAN] /\ pc[t] \in ThreadPlaces
      /\ (loop_[t] => pc[t] \in {"stored", "running", "dead"})
  BY DEF IInv, TypeInv, LoopInv
<1>2. CASE Build(t)
  BY <1>1, <1>2, ThreadMoves DEF Build
<1>3. CASE LockThread(t)
  BY <1>1, <1>3, ThreadMoves DEF LockThread
<1>4. CASE Store(t)
  <2>1. loop_' = [loop_ EXCEPT ![t] = TRUE]
    BY <1>4 DEF Store
  <2>2. /\ loop_' \in [Threads -> BOOLEAN]
        /\ \A u \in Threads : loop_[u] => loop_'[u]
        /\ \A u \in Threads : loop_'[u] => loop_[u] \/ u = t
    BY <1>1, <2>1
  <2> QED
    BY <1>4, <2>2, ThreadMoves DEF Store
<1>5. CASE Notify(t)
  BY <1>1, <1>5, ThreadMoves DEF Notify
<1>6. CASE RunReturns(t)
  BY <1>1, <1>6, ThreadMoves DEF RunReturns
<1> QED
  BY <1>2, <1>3, <1>4, <1>5, <1>6 DEF ThreadStep

LEMMA QuitLoopKeeps ==
    ASSUME NEW t \in Threads
    PROVE  IInv /\ QuitLoop(t) => IInv'
<1> SUFFICES ASSUME IInv, QuitLoop(t) PROVE IInv'
  OBVIOUS
<1>1. /\ quit' = [quit EXCEPT ![t] = TRUE]
      /\ UNCHANGED <<at, starting, loops_, pc, loop_>>
  BY DEF QuitLoop, pool
<1>2. TypeInv' /\ StarterInv' /\ SpawnInv'
  BY <1>1 DEF IInv, TypeInv, StarterInv, SpawnInv
<1>3. LoopInv' /\ ReturnInv'
  BY <1>1 DEF IInv, TypeInv, LoopInv, ReturnInv
<1> QED
  BY <1>2, <1>3 DEF IInv

LEMMA PoolKeeps == IInv /\ (NextLoop \/ UNCHANGED vars) => IInv'
<1> SUFFICES ASSUME IInv, NextLoop \/ UNCHANGED vars PROVE IInv'
  OBVIOUS
<1>1. UNCHANGED <<at, starting, loops_, pc, loop_, quit>>
  BY DEF NextLoop, vars, loops
<1> QED
  BY <1>1 DEF IInv, TypeInv, StarterInv, SpawnInv, LoopInv, ReturnInv

\* The handshake of StartLoop: what it returns is set, what is set exists.
THEOREM Safety == Spec => []IInv
<1>1. IInv /\ [Next]_vars => IInv'
  BY SpawnKeeps, StarterKeeps, StartLoopReturnsKeeps, ThreadKeeps, QuitLoopKeeps,
     PoolKeeps DEF Next, StarterStep
<1> QED
  BY <1>1, InitIInv, PTL DEF Spec

\* EventLoopThreadPool hands out neither NULL nor a loop that is not built, and
\* of loops that are gone only those that somebody quit, for a pool of any size.
THEOREM PoolLoopsLive == Spec => []HandedOutLoopsLive
<1>1. IInv => HandedOutLoopsLive
  <2> SUFFICES ASSUME IInv, NEW k \in DOMAIN loops_
               PROVE  loops_[k] \in {t \in Threads : pc[t] \in HasLoop \/ quit[t]}
    BY DEF HandedOutLoopsLive
  <2>1. loops_[k] \in Threads /\ loop_[loops_[k]]
    BY DEF IInv, TypeInv, ReturnInv
  <2> QED
    BY <2>1 DEF IInv, LoopInv, HasLoop
<1> QED
  BY <1>1, Safety, PTL

(***************************************************************************)
(* BlockingQueue                                                             *)
(***************************************************************************)
Awake == {"popping", "testing", "waking", "notifying"}

LEMMA AttendedAreAwake ==
    ASSUME TypeOK
    PROVE  Attended = {t \in Users : stage[t] \in Awake}
  BY DEF TypeOK, Attended, Awake, In

LEMMA AttendedIsFinite ==
    ASSUME TypeOK
    PROVE  IsFiniteSet(Attended) /\ Cardinality(Attended) \in Nat
<1>1. Attended \in SUBSET Users
  BY AttendedAreAwake
<1>2. IsFiniteSet(Attended)
  BY <1>1, QueueAssumption, FS_Subset
<1> QED
  BY <1>2, FS_CardinalityType

\* Thread t goes to a place: it attends to an item from then on, or does not.
LEMMA MoveCounts ==
    ASSUME TypeOK, TypeOK', NEW t \in Users, NEW place, Move(t, place)
    PROVE  /\ place \in Awake => Attended' = Attended \cup {t}
           /\ place \notin Awake => Attended' = Attended \ {t}
           /\ place \in Awake /\ stage[t] \in Awake =>
                 Cardinality(Attended') = Cardinality(Attended)
           /\ place \in Awake /\ stage[t] \notin Awake =>
                 Cardinality(Attended') = Cardinality(Attended) + 1
           /\ place \notin Awake /\ stage[t] \in Awake =>
                 Cardinality(Attended') = Cardinality(Attended) - 1
           /\ place \notin Awake /\ stage[t] \notin Awake =>
                 Cardinality(Attended') = Cardinality(Attended)
           /\ place # "sleeping" => In("sleeping")' \subseteq In("sleeping")
<1>1. stage' = [stage EXCEPT ![t] = place] /\ stage \in [Users -> Places]
  BY DEF Move, TypeOK
<1>2. Attended = {s \in Users : stage[s] \in Awake}
  BY AttendedAreAwake
<1>3. Attended' = {s \in Users : stage'[s] \in Awake}
  BY DEF TypeOK, Attended, Awake, In
<1>4. place \in Awake => Attended' = Attended \cup {t}
  BY <1>1, <1>2, <1>3
<1>5. place \notin Awake => Attended' = Attended \ {t}
  BY <1>1, <1>2, <1>3
<1>6. t \in Attended <=> stage[t] \in Awake
  BY <1>2
<1>7. IsFiniteSet(Attended)
  BY AttendedIsFinite
<1>8. place # "sleeping" => In("sleeping")' \subseteq In("sleeping")
  BY <1>1 DEF In
<1> QED
  BY <1>4, <1>5, <1>6, <1>7, <1>8, FS_AddElement, FS_RemoveElement

-----------------------------------------------------------------------------
(* Types *)

LEMMA QueueTypeStep == TypeOK /\ [QueueNext]_queueVars => TypeOK'
<1> SUFFICES ASSUME TypeOK, [QueueNext]_queueVars PROVE TypeOK'
  OBVIOUS
<1>1. ASSUME NEW t \in Users, NEW place \in Places, Move(t, place)
      PROVE  stage' \in [Users -> Places]
  BY <1>1 DEF TypeOK, Move
<1>2. ASSUME NEW t \in Users, NEW from, NEW to \in Places, Lock(t, from, to)
      PROVE  TypeOK'
  BY <1>1, <1>2 DEF TypeOK, Lock
<1>3. ASSUME NEW t \in Users, CallPop(t) \/ CallPush(t) \/ WakeWithoutItem(t)
      PROVE  TypeOK'
  BY <1>1, <1>3 DEF TypeOK, CallPop, CallPush, WakeWithoutItem, Places
<1>4. ASSUME NEW t \in Users, LockPop(t) \/ Relock(t) \/ LockPush(t)
      PROVE  TypeOK'
  BY <1>2, <1>4 DEF LockPop, Relock, LockPush, Places
<1>5. ASSUME NEW t \in Users, WaitForItem(t) \/ Pop(t) \/ PushItem(t)
      PROVE  TypeOK'
  BY <1>1, <1>5 DEF TypeOK, WaitForItem, Pop, PushItem, Places
<1>6. ASSUME NEW t \in Users, NotifyOne(t)
      PROVE  TypeOK'
  <2>1. stage' \in [Users -> Places]
    BY <1>1, <1>6 DEF NotifyOne, TypeOK, Places, In
  <2> QED
    BY <1>6, <2>1 DEF NotifyOne, TypeOK
<1>7. ASSUME UNCHANGED queueVars
      PROVE  TypeOK'
  BY <1>7 DEF TypeOK, queueVars
<1> QED
  BY <1>3, <1>4, <1>5, <1>6, <1>7 DEF QueueNext, Proceed

\* Every thread is at one of its places, the queue never has less than no item.
THEOREM QueueTypeCorrect == QueueSpec => []TypeOK
<1>1. QueueInit => TypeOK
  BY DEF QueueInit, TypeOK, Places
<1> QED
  BY <1>1, QueueTypeStep, PTL DEF QueueSpec

-----------------------------------------------------------------------------
(* Items are attended to *)

\* A notification passes the item on: from the thread that pushed it to one that
\* has slept, if there is one.
LEMMA NotifyOneKeeps ==
    ASSUME TypeOK, TypeOK', ItemsAttended, NEW t \in Users, NotifyOne(t)
    PROVE  ItemsAttended'
<1>1. stage[t] = "notifying" /\ size' = size
  BY DEF NotifyOne
<1>2. CASE In("sleeping") = {}
  <2>1. Move(t, "idle")
    BY <1>2 DEF NotifyOne
  <2>2. In("sleeping")' = {}
    BY <1>2, <2>1, MoveCounts
  <2> QED
    BY <2>2 DEF ItemsAttended
<1>3. CASE In("sleeping") # {}
  <2>1. PICK s \in In("sleeping") :
           stage' = [stage EXCEPT ![t] = "idle", ![s] = "waking"]
    BY <1>3 DEF NotifyOne
  <2>2. s \in Users /\ stage[s] = "sleeping" /\ s # t
    BY <1>1 DEF In
  <2>3. Attended = {r \in Users : stage[r] \in Awake}
    BY AttendedAreAwake
  <2>4. Attended' = {r \in Users : stage'[r] \in Awake}
    BY DEF TypeOK, Attended, Awake, In
  <2>5. \A r \in Users : stage'[r] = IF r = s THEN "waking"
                                     ELSE IF r = t THEN "idle" ELSE stage[r]
    BY <2>1, <2>2 DEF TypeOK
  <2>6. Attended' = (Attended \ {t}) \cup {s}
    BY <2>2, <2>3, <2>4, <2>5 DEF Awake
  <2>7. t \in Attended /\ s \notin Attended
    BY <1>1, <2>2, <2>3 DEF Awake
  <2>8. IsFiniteSet(Attended) /\ Cardinality(Attended) \in Nat
    BY AttendedIsFinite
  <2>9. /\ IsFiniteSet(Attended \ {t})
        /\ Cardinality(Attended \ {t}) = Cardinality(Attended) - 1
    BY <2>7, <2>8, FS_RemoveElement
  <2>10. Cardinality((Attended \ {t}) \cup {s}) = Cardinality(Attended \ {t}) + 1
    BY <2>7, <2>9, FS_AddElement
  <2>11. Cardinality(Attended') = Cardinality(Attended)
    BY <2>6, <2>8, <2>9, <2>10
  <2> QED
    BY <1>1, <1>3, <2>11 DEF ItemsAttended
<1> QED
  BY <1>2, <1>3

LEMMA AttendedStep == TypeOK /\ TypeOK' /\ ItemsAttended /\ [QueueNext]_queueVars => ItemsAttended'
<1> SUFFICES ASSUME TypeOK, TypeOK', ItemsAttended, [QueueNext]_queueVars
             PROVE  ItemsAttended'
  OBVIOUS
<1>1. size \in Nat /\ Cardinality(Attended) \in Nat
  BY AttendedIsFinite DEF TypeOK
<1> USE DEF ItemsAttended, Awake
\* The places a thread that does not hold an item back leaves and goes to.
<1>2. ASSUME NEW t \in Users, CallPop(t) \/ CallPush(t) \/ WakeWithoutItem(t)
      PROVE  ItemsAttended'
  BY <1>1, <1>2, MoveCounts DEF CallPop, CallPush, WakeWithoutItem
<1>3. ASSUME NEW t \in Users, LockPop(t) \/ Relock(t) \/ LockPush(t)
      PROVE  ItemsAttended'
  BY <1>1, <1>3, MoveCounts DEF LockPop, Relock, LockPush, Lock
\* A Pop goes to sleep only when there is no item.
<1>4. ASSUME NEW t \in Users, WaitForItem(t)
      PROVE  ItemsAttended'
  <2>1. size' = 0 /\ Cardinality(Attended') \in Nat
    BY <1>4, AttendedIsFinite, FS_RemoveElement, FS_CardinalityType, MoveCounts
    DEF WaitForItem
  <2> QED
    BY <2>1
\* A Pop that stops attending takes its item with it.
<1>5. ASSUME NEW t \in Users, Pop(t)
      PROVE  ItemsAttended'
  BY <1>1, <1>5, MoveCounts DEF Pop
\* A Push that adds an item attends to it.
<1>6. ASSUME NEW t \in Users, PushItem(t)
      PROVE  ItemsAttended'
  BY <1>1, <1>6, MoveCounts DEF PushItem
<1>7. ASSUME NEW t \in Users, NotifyOne(t)
      PROVE  ItemsAttended'
  BY <1>7, NotifyOneKeeps
<1>8. ASSUME UNCHANGED queueVars
      PROVE  ItemsAttended'
  BY <1>8 DEF queueVars, Attended, In
<1> QED
  BY <1>2, <1>3, <1>4, <1>5, <1>6, <1>7, <1>8 DEF QueueNext, Proceed

\* No item lies in the queue unattended while a Pop sleeps, for any number of
\* threads that push and pop, though Push notifies after it has unlocked.
THEOREM NoItemIsForgotten == QueueSpec => []ItemsAttended
<1>1. QueueInit => ItemsAttended
  BY DEF QueueInit, ItemsAttended, In
<1>2. TypeOK /\ TypeOK' /\ ItemsAttended /\ [QueueNext]_queueVars => ItemsAttended'
  BY AttendedStep
<1> QED
  BY <1>1, <1>2, QueueTypeCorrect, PTL DEF QueueSpec
=============================================================================
