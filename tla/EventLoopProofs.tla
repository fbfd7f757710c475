--------------------------- MODULE EventLoopProofs ---------------------------
(***************************************************************************)
(* The safety of EventLoop for every set of threads, every pipe capacity and *)
(* every bound: no wakeup is lost, and functors run exactly once in order.   *)
(***************************************************************************)
EXTENDS EventLoop, SequenceTheorems, TLAPS

\* How the loop thread's variables follow from its position in Run.
ControlOK ==
    /\ calling_functors_ <=> pc \in {"functors", "functor"}
    /\ started_ <=> pc # "init"
    /\ lpush # "idle" => pc \in UserPhases
    /\ pc \notin {"functors", "functor"} => batch = <<>>

\* The inductive invariant.
IInv == TypeOK /\ ControlOK /\ NoLostWakeUp /\ ExactlyOnceInOrder

-----------------------------------------------------------------------------
(* Sequences *)

\* A sequence over 1 .. m is one over 1 .. n for every larger n: functor ids
\* stay valid when QueueInLoop hands out the next one.
LEMMA IdsGrow ==
    ASSUME NEW m \in Nat, NEW n \in Nat, m <= n, NEW s \in Seq(1 .. m)
    PROVE  s \in Seq(1 .. n)
<1>1. 1 .. m \subseteq 1 .. n
  OBVIOUS
<1> QED
  BY <1>1, SeqMonotonic

\* Appending n + 1 to the ids 1 .. n in order gives the ids 1 .. n + 1.
LEMMA IdentityAppend ==
    ASSUME NEW n \in Nat
    PROVE  Append([i \in 1 .. n |-> i], n + 1) = [i \in 1 .. n + 1 |-> i]
<1> DEFINE s == [i \in 1 .. n |-> i]
           u == [i \in 1 .. n + 1 |-> i]
<1>1. s \in Seq(Nat) /\ Len(s) = n /\ u \in Seq(Nat) /\ Len(u) = n + 1
  OBVIOUS
<1>2. /\ Append(s, n + 1) \in Seq(Nat)
      /\ Len(Append(s, n + 1)) = n + 1
      /\ \A i \in 1 .. n : Append(s, n + 1)[i] = s[i]
      /\ Append(s, n + 1)[n + 1] = n + 1
  <2> HIDE DEF s
  <2> QED
    BY <1>1, AppendProperties
<1>3. \A i \in 1 .. n + 1 : Append(s, n + 1)[i] = u[i]
  BY <1>2
<1> HIDE DEF s, u
<1>4. Append(s, n + 1) = u
  BY <1>1, <1>2, <1>3, SeqEqual
<1> QED
  BY <1>4 DEF s, u

\* An element appended to the last of two sequences is appended to their
\* concatenation.
LEMMA AppendConcat ==
    ASSUME NEW S, NEW s \in Seq(S), NEW t \in Seq(S), NEW e \in S
    PROVE  s \o Append(t, e) = Append(s \o t, e)
<1>1. <<e>> \in Seq(S)
  OBVIOUS
<1>2. Append(t, e) = t \o <<e>>
  BY AppendIsConcat
<1>3. s \o t \in Seq(S)
  BY ConcatProperties
<1>4. Append(s \o t, e) = (s \o t) \o <<e>>
  BY <1>3, AppendIsConcat
<1> QED
  BY <1>1, <1>2, <1>4, ConcatAssociative

\* Moving the head of t to the end of s keeps their concatenation.
LEMMA MoveHead ==
    ASSUME NEW S, NEW s \in Seq(S), NEW t \in Seq(S), t # <<>>
    PROVE  Append(s, Head(t)) \o Tail(t) = s \o t
<1> DEFINE e == Head(t)
           r == Tail(t)
<1>1. e \in S /\ r \in Seq(S) /\ <<e>> \in Seq(S)
  BY HeadTailProperties
<1>2. <<e>> \o r = t
  <2>1. /\ <<e>> \o r \in Seq(S)
        /\ Len(<<e>> \o r) = Len(<<e>>) + Len(r)
        /\ \A i \in 1 .. Len(<<e>>) + Len(r) :
              (<<e>> \o r)[i] = IF i <= Len(<<e>>) THEN <<e>>[i] ELSE r[i - Len(<<e>>)]
    BY <1>1, ConcatProperties
  <2>2. Len(r) = Len(t) - 1 /\ \A i \in 1 .. Len(r) : r[i] = t[i + 1]
    BY HeadTailProperties
  <2>3. Len(t) \in Nat \ {0}
    BY EmptySeq
  <2>4. Len(<<e>> \o r) = Len(t)
    BY <2>1, <2>2, <2>3
  <2>5. ASSUME NEW i \in 1 .. Len(t)
        PROVE  (<<e>> \o r)[i] = t[i]
    <3>1. CASE i = 1
      BY <2>1, <2>2, <2>3, <3>1
    <3>2. CASE i > 1
      <4>1. i - 1 \in 1 .. Len(r)
        BY <2>2, <2>3, <3>2
      <4> HIDE DEF e, r
      <4>2. (<<e>> \o r)[i] = r[i - 1]
        BY <2>1, <2>2, <2>3, <3>2
      <4>3. r[i - 1] = t[i]
        BY <2>2, <4>1
      <4> QED
        BY <4>2, <4>3
    <3> QED
      BY <3>1, <3>2
  <2> HIDE DEF e, r
  <2> QED
    BY <2>1, <2>4, <2>5, SeqEqual
<1>3. Append(s, e) = s \o <<e>>
  BY <1>1, AppendIsConcat
<1>4. (s \o <<e>>) \o r = s \o (<<e>> \o r)
  BY <1>1, ConcatAssociative
<1> QED
  BY <1>2, <1>3, <1>4

-----------------------------------------------------------------------------
(* Steps *)

\* push_back keeps the functor queue well typed, and if the push that came
\* before were in order, so are they after this one.
LEMMA PushBackStep ==
    ASSUME TypeOK, NEW o \in Origins, PushBack(o),
           UNCHANGED <<batch, ran, raced>>
    PROVE  /\ queued' \in Seq(Origins) /\ Len(queued') = Len(queued) + 1
           /\ \A i \in 1 .. Len(queued) : queued'[i] = queued[i]
           /\ queued'[Len(queued) + 1] = o
           /\ functors_' \in Seq(1 .. Len(queued'))
           /\ batch' \in Seq(1 .. Len(queued'))
           /\ ran' \in Seq(1 .. Len(queued'))
           /\ \A i \in 1 .. Len(functors_') :
                 \/ functors_'[i] = Len(queued) + 1
                 \/ i \in 1 .. Len(functors_) /\ functors_'[i] = functors_[i]
           /\ ExactlyOnceInOrder => ExactlyOnceInOrder'
<1> DEFINE n == Len(queued)
<1>1. /\ queued' \in Seq(Origins) /\ Len(queued') = n + 1
      /\ \A i \in 1 .. n : queued'[i] = queued[i]
      /\ queued'[n + 1] = o
  BY AppendProperties DEF TypeOK, PushBack
<1>2. n \in Nat
  BY LenProperties DEF TypeOK
<1>3. /\ functors_ \in Seq(1 .. n + 1)
      /\ batch \in Seq(1 .. n + 1)
      /\ ran \in Seq(1 .. n + 1)
  <2>1. n <= n + 1 /\ n + 1 \in Nat
    BY <1>2
  <2> QED
    BY <1>2, <2>1, IdsGrow DEF TypeOK
<1>4. n + 1 \in 1 .. n + 1
  BY <1>2
<1>5. CASE functors_' = Append(functors_, n + 1)
  <2>1. /\ functors_' \in Seq(1 .. n + 1)
        /\ Len(functors_') = Len(functors_) + 1
        /\ \A i \in 1 .. Len(functors_) : functors_'[i] = functors_[i]
        /\ functors_'[Len(functors_) + 1] = n + 1
    <3> HIDE DEF n
    <3> QED
      BY <1>3, <1>4, <1>5, AppendProperties
  <2>2. Len(functors_) \in Nat
    BY LenProperties DEF TypeOK
  <2>3. \A i \in 1 .. Len(functors_') :
           \/ functors_'[i] = n + 1
           \/ i \in 1 .. Len(functors_) /\ functors_'[i] = functors_[i]
    <3> HIDE DEF n
    <3> QED
      BY <2>1, <2>2
  <2>4. ASSUME ExactlyOnceInOrder, ~raced
        PROVE  ran' \o batch' \o functors_' = [i \in 1 .. Len(queued') |-> i]
    <3> HIDE DEF n
    <3>1. ran \o batch \o functors_ = [i \in 1 .. n |-> i]
      BY <2>4 DEF ExactlyOnceInOrder, n
    <3>2. ran \o batch \in Seq(1 .. n + 1)
      BY <1>3, ConcatProperties
    <3>3. (ran \o batch) \o functors_' = Append((ran \o batch) \o functors_, n + 1)
      BY <1>3, <1>4, <1>5, <3>2, AppendConcat, SMTT(30)
    <3>4. (ran \o batch) \o functors_' = [i \in 1 .. n + 1 |-> i]
      BY <1>2, <3>1, <3>3, IdentityAppend
    <3> QED
      BY <1>1, <3>4
  <2> QED
    BY <1>1, <1>3, <2>1, <2>3, <2>4 DEF ExactlyOnceInOrder
<1>6. CASE raced /\ functors_' = functors_
  <2>1. \A i \in 1 .. Len(functors_') : functors_'[i] = functors_[i]
    BY <1>6
  <2> QED
    BY <1>1, <1>3, <1>6, <2>1 DEF ExactlyOnceInOrder
<1> QED
  BY <1>5, <1>6 DEF PushBack

\* A step that leaves the queue, the batch and the histories alone, and neither
\* reads the pipe nor drops a pending wakeup, keeps NoLostWakeUp as long as the
\* loop does not leave the handler phase.
LEMMA WakeUpKept ==
    ASSUME NoLostWakeUp, UNCHANGED <<functors_, queued>>,
           WakeUpComing => WakeUpComing', pc = "handle" => pc' = "handle"
    PROVE  NoLostWakeUp'
BY DEF NoLostWakeUp

\* The functor order is untouched by a step that leaves its variables alone.
LEMMA OrderKept ==
    ASSUME ExactlyOnceInOrder, UNCHANGED <<functors_, batch, ran, queued>>,
           raced => raced'
    PROVE  ExactlyOnceInOrder'
BY DEF ExactlyOnceInOrder

-----------------------------------------------------------------------------
(* The invariant *)

LEMMA InitIInv == Init => IInv
<1> SUFFICES ASSUME Init PROVE IInv
  OBVIOUS
<1>1. <<>> \in Seq(1 .. Len(<<>>)) /\ <<>> \in Seq(Origins) /\ Len(<<>>) = 0
  BY EmptySeq
<1>2. TypeOK
  <2>1. bytes \in 0 .. PipeCapacity /\ timers \in Nat /\ due \in Nat
    BY PipeCapacityAssumption DEF Init
  <2> QED
    BY <1>1, <2>1 DEF Init, TypeOK, Phases, UserPhases, PushStages
<1>3. ControlOK
  BY DEF Init, ControlOK
<1>4. NoLostWakeUp
  BY <1>1 DEF Init, NoLostWakeUp
<1>5. ExactlyOnceInOrder
  <2>1. <<>> \o <<>> \o <<>> = <<>>
    BY ConcatEmptySeq, EmptySeq
  <2>2. <<>> = [i \in 1 .. 0 |-> i]
    <3>1. [i \in 1 .. 0 |-> i] \in Seq(Nat) /\ Len([i \in 1 .. 0 |-> i]) = 0
      OBVIOUS
    <3> QED
      BY <3>1, EmptySeq
  <2> QED
    BY <1>1, <2>1, <2>2 DEF Init, ExactlyOnceInOrder
<1> QED
  BY <1>2, <1>3, <1>4, <1>5 DEF IInv

\* The steps of the loop thread between pushes.
LEMMA LoopThreadStep ==
    ASSUME IInv,
           \/ Run \/ TestQuit \/ Poll \/ ProcessWakeUp \/ SwapFunctors
           \/ RunFunctor \/ FunctorReturns
           \/ Step \/ FireTimer \/ TimerReturns \/ EndIteration
    PROVE  IInv'
<1> USE DEF IInv
<1>1. CASE Run
  <2>1. TypeOK' /\ ControlOK'
    BY <1>1 DEF Run, TypeOK, ControlOK, Phases, UserPhases
  <2>2. NoLostWakeUp' /\ ExactlyOnceInOrder'
    BY <1>1, WakeUpKept, OrderKept DEF Run, WakeUpComing
  <2> QED
    BY <2>1, <2>2
<1>2. CASE TestQuit
  <2>1. TypeOK' /\ ControlOK'
    BY <1>2 DEF TestQuit, TypeOK, ControlOK, Phases, UserPhases
  <2>2. NoLostWakeUp' /\ ExactlyOnceInOrder'
    BY <1>2, WakeUpKept, OrderKept DEF TestQuit, WakeUpComing
  <2> QED
    BY <2>1, <2>2
<1>3. CASE Poll
  <2>1. TypeOK' /\ ControlOK'
    BY <1>3 DEF Poll, TypeOK, ControlOK, Phases, UserPhases
  <2>2. NoLostWakeUp' /\ ExactlyOnceInOrder'
    BY <1>3, WakeUpKept, OrderKept DEF Poll, WakeUpComing
  <2> QED
    BY <2>1, <2>2
<1>4. CASE ProcessWakeUp
  <2>1. TypeOK' /\ ControlOK'
    <3>1. bytes' \in 0 .. PipeCapacity
      BY <1>4, PipeCapacityAssumption DEF ProcessWakeUp, TypeOK
    <3> QED
      BY <1>4, <3>1 DEF ProcessWakeUp, TypeOK, ControlOK
  <2>2. NoLostWakeUp'
    BY <1>4 DEF ProcessWakeUp, NoLostWakeUp
  <2>3. ExactlyOnceInOrder'
    BY <1>4, OrderKept DEF ProcessWakeUp
  <2> QED
    BY <2>1, <2>2, <2>3
<1>5. CASE SwapFunctors
  <2>1. batch = <<>> /\ batch' = functors_ /\ functors_' = <<>>
        /\ ran' = ran /\ queued' = queued /\ raced' = raced
    BY <1>5 DEF SwapFunctors, ControlOK
  <2>2. Len(<<>>) = 0 /\ <<>> \in Seq(1 .. Len(queued))
    BY EmptySeq
  <2>3. TypeOK'
    BY <1>5, <2>1, <2>2 DEF SwapFunctors, TypeOK, Phases, UserPhases
  <2>4. ControlOK'
    BY <1>5 DEF SwapFunctors, ControlOK
  <2>5. NoLostWakeUp'
    BY <2>1, <2>2 DEF NoLostWakeUp
  <2>6. ExactlyOnceInOrder'
    <3>1. ran \o <<>> = ran
      BY ConcatEmptySeq DEF TypeOK
    <3>2. (ran \o functors_) \o <<>> = ran \o functors_
      <4>1. ran \o functors_ \in Seq(1 .. Len(queued))
        BY ConcatProperties DEF TypeOK
      <4> QED
        BY <4>1, ConcatEmptySeq
    <3> QED
      BY <2>1, <3>1, <3>2 DEF ExactlyOnceInOrder
  <2> QED
    BY <2>3, <2>4, <2>5, <2>6
<1>6. CASE RunFunctor
  <2> DEFINE S == 1 .. Len(queued)
  <2>1. /\ batch # <<>> /\ ran' = Append(ran, Head(batch)) /\ batch' = Tail(batch)
        /\ functors_' = functors_ /\ queued' = queued /\ raced' = raced
    BY <1>6 DEF RunFunctor
  <2>2. ran \in Seq(S) /\ batch \in Seq(S) /\ functors_ \in Seq(S)
    BY DEF TypeOK
  <2>3. Head(batch) \in S /\ batch' \in Seq(S) /\ ran' \in Seq(S)
    <3> HIDE DEF S
    <3> QED
      BY <2>1, <2>2, HeadTailProperties, AppendProperties
  <2>4. TypeOK'
    BY <1>6, <2>1, <2>3 DEF RunFunctor, TypeOK, Phases, UserPhases
  <2>5. ControlOK'
    BY <1>6 DEF RunFunctor, ControlOK, UserPhases
  <2>6. NoLostWakeUp'
    BY <1>6, WakeUpKept DEF RunFunctor, WakeUpComing
  <2>7. ExactlyOnceInOrder'
    <3>1. ran' \o batch' = ran \o batch
      <4> HIDE DEF S
      <4> QED
        BY <2>1, <2>2, MoveHead
    <3> QED
      BY <2>1, <3>1 DEF ExactlyOnceInOrder
  <2> QED
    BY <2>4, <2>5, <2>6, <2>7
<1>7. CASE FunctorReturns
  <2>1. TypeOK' /\ ControlOK'
    BY <1>7 DEF FunctorReturns, TypeOK, ControlOK, Phases, UserPhases
  <2>2. NoLostWakeUp' /\ ExactlyOnceInOrder'
    BY <1>7, WakeUpKept, OrderKept DEF FunctorReturns, WakeUpComing
  <2> QED
    BY <2>1, <2>2
<1>8. CASE Step
  <2>1. TypeOK' /\ ControlOK'
    <3>1. timers' \in Nat /\ due' \in Nat
      <4>1. timers \in Nat /\ due' \in 0 .. timers /\ timers' = timers - due'
        BY <1>8 DEF Step, TypeOK
      <4>2. ASSUME NEW m \in Nat, NEW d \in 0 .. m
            PROVE  m - d \in Nat /\ d \in Nat
        OBVIOUS
      <4> QED
        BY <4>1, <4>2
    <3> QED
      BY <1>8, <3>1 DEF Step, TypeOK, ControlOK, Phases, UserPhases
  <2>2. NoLostWakeUp' /\ ExactlyOnceInOrder'
    BY <1>8, WakeUpKept, OrderKept DEF Step, WakeUpComing
  <2> QED
    BY <2>1, <2>2
<1>9. CASE FireTimer
  <2>1. TypeOK' /\ ControlOK'
    BY <1>9 DEF FireTimer, TypeOK, ControlOK, Phases, UserPhases
  <2>2. NoLostWakeUp' /\ ExactlyOnceInOrder'
    BY <1>9, WakeUpKept, OrderKept DEF FireTimer, WakeUpComing
  <2> QED
    BY <2>1, <2>2
<1>10. CASE TimerReturns
  <2>1. TypeOK' /\ ControlOK'
    BY <1>10 DEF TimerReturns, TypeOK, ControlOK, Phases, UserPhases
  <2>2. NoLostWakeUp' /\ ExactlyOnceInOrder'
    BY <1>10, WakeUpKept, OrderKept DEF TimerReturns, WakeUpComing
  <2> QED
    BY <2>1, <2>2
<1>11. CASE EndIteration
  <2>1. TypeOK' /\ ControlOK'
    BY <1>11 DEF EndIteration, TypeOK, ControlOK, Phases, UserPhases
  <2>2. NoLostWakeUp' /\ ExactlyOnceInOrder'
    BY <1>11, WakeUpKept, OrderKept DEF EndIteration, WakeUpComing
  <2> QED
    BY <2>1, <2>2
<1> QED
  BY <1>1, <1>2, <1>3, <1>4, <1>5, <1>6, <1>7, <1>8, <1>9, <1>10, <1>11

\* The steps of a QueueInLoop, Quit or RunAfter called on the loop thread.
LEMMA UserCodeStep ==
    ASSUME IInv, UserCode
    PROVE  IInv'
<1> USE DEF IInv
<1>1. CASE BeginLoopPush
  <2>1. TypeOK' /\ ControlOK'
    BY <1>1 DEF BeginLoopPush, InUserCode, TypeOK, ControlOK, PushStages, loopVars
  <2>2. NoLostWakeUp' /\ ExactlyOnceInOrder'
    BY <1>1, WakeUpKept, OrderKept
       DEF BeginLoopPush, InUserCode, WakeUpComing, loopVars
  <2> QED
    BY <2>1, <2>2
<1>2. CASE EndLoopPush
  <2>1. /\ lpush = "pushing" /\ PushBack(pc)
        /\ lpush' = IF NeedsWakeUp THEN "wake" ELSE "idle"
        /\ UNCHANGED <<quit_, bytes, tpc, raced, loopVars>>
    BY <1>2 DEF EndLoopPush
  <2>2. pc \in UserPhases /\ pc \in Origins /\ UNCHANGED <<batch, ran, raced, pc>>
    BY <2>1 DEF ControlOK, Origins, loopVars
  <2>3. /\ queued' \in Seq(Origins)
        /\ \A i \in 1 .. Len(queued) : queued'[i] = queued[i]
        /\ queued'[Len(queued) + 1] = pc
        /\ functors_' \in Seq(1 .. Len(queued'))
        /\ batch' \in Seq(1 .. Len(queued'))
        /\ ran' \in Seq(1 .. Len(queued'))
        /\ \A i \in 1 .. Len(functors_') :
              \/ functors_'[i] = Len(queued) + 1
              \/ i \in 1 .. Len(functors_) /\ functors_'[i] = functors_[i]
        /\ ExactlyOnceInOrder'
    BY <2>1, <2>2, PushBackStep
  <2>4. TypeOK'
    BY <2>1, <2>3 DEF TypeOK, PushStages, loopVars
  <2>5. ControlOK'
    BY <2>1, <2>2 DEF ControlOK, loopVars
  <2>6. NoLostWakeUp'
    <3> SUFFICES ASSUME NEW i \in 1 .. Len(functors_'),
                        queued'[functors_'[i]] # "timer", pc # "handle"
                 PROVE  WakeUpComing'
      BY <2>2 DEF NoLostWakeUp
    <3>1. CASE functors_'[i] = Len(queued) + 1
      <4>1. pc \in {"init", "functor"}
        BY <2>2, <2>3, <3>1 DEF UserPhases
      <4>2. NeedsWakeUp
        BY <4>1 DEF NeedsWakeUp, ControlOK
      <4> QED
        BY <2>1, <4>2 DEF WakeUpComing
    <3>2. CASE i \in 1 .. Len(functors_) /\ functors_'[i] = functors_[i]
      <4>1. functors_[i] \in 1 .. Len(queued)
        BY <3>2, ElementOfSeq DEF TypeOK
      <4>2. queued[functors_[i]] # "timer"
        BY <2>3, <3>2, <4>1
      <4>3. WakeUpComing
        BY <3>2, <4>2 DEF NoLostWakeUp
      <4> QED
        BY <2>1, <4>3 DEF WakeUpComing
    <3> QED
      BY <2>3, <3>1, <3>2
  <2> QED
    BY <2>3, <2>4, <2>5, <2>6
<1>3. CASE LoopWakeUp
  <2>1. bytes' \in 0 .. PipeCapacity /\ bytes' > 0
    <3>1. bytes \in 0 .. PipeCapacity /\ bytes < PipeCapacity /\ bytes' = bytes + 1
      BY <1>3 DEF LoopWakeUp, WakeUp, TypeOK
    <3> QED
      BY <3>1, PipeCapacityAssumption
  <2>2. TypeOK' /\ ControlOK'
    BY <1>3, <2>1 DEF LoopWakeUp, TypeOK, ControlOK, PushStages, loopVars
  <2>3. NoLostWakeUp' /\ ExactlyOnceInOrder'
    BY <1>3, <2>1, WakeUpKept, OrderKept DEF LoopWakeUp, WakeUpComing, loopVars
  <2> QED
    BY <2>2, <2>3
<1>4. CASE LoopQuit
  <2>1. TypeOK' /\ ControlOK'
    BY <1>4 DEF LoopQuit, InUserCode, TypeOK, ControlOK, loopVars
  <2>2. NoLostWakeUp' /\ ExactlyOnceInOrder'
    BY <1>4, WakeUpKept, OrderKept DEF LoopQuit, WakeUpComing, loopVars
  <2> QED
    BY <2>1, <2>2
<1>5. CASE RunAfter
  <2>1. TypeOK' /\ ControlOK'
    <3>1. timers' \in Nat
      BY <1>5 DEF RunAfter, TypeOK
    <3> QED
      BY <1>5, <3>1 DEF RunAfter, TypeOK, ControlOK
  <2>2. NoLostWakeUp' /\ ExactlyOnceInOrder'
    BY <1>5, WakeUpKept, OrderKept DEF RunAfter, WakeUpComing
  <2> QED
    BY <2>1, <2>2
<1> QED
  BY <1>1, <1>2, <1>3, <1>4, <1>5 DEF UserCode

\* The steps of the other threads.
LEMMA ForeignThreadStep ==
    ASSUME IInv, NEW t \in Threads, ForeignStep(t)
    PROVE  IInv'
<1> USE DEF IInv
<1>1. CASE BeginPush(t)
  <2>1. tpc[t] = "idle" /\ tpc' = [tpc EXCEPT ![t] = "pushing"]
    BY <1>1 DEF BeginPush
  <2>2. TypeOK' /\ ControlOK'
    BY <1>1, <2>1 DEF BeginPush, TypeOK, ControlOK, PushStages, loopVars
  <2>3. WakeUpComing => WakeUpComing'
    BY <1>1, <2>1 DEF BeginPush, WakeUpComing, TypeOK
  <2>4. NoLostWakeUp' /\ ExactlyOnceInOrder'
    BY <1>1, <2>3, WakeUpKept, OrderKept DEF BeginPush, loopVars
  <2> QED
    BY <2>2, <2>4
<1>2. CASE EndPush(t)
  <2>1. /\ PushBack("foreign")
        /\ tpc' = [tpc EXCEPT ![t] = "wake"]
        /\ UNCHANGED <<quit_, bytes, lpush, raced, loopVars>>
    BY <1>2 DEF EndPush
  <2>2. "foreign" \in Origins /\ UNCHANGED <<batch, ran, raced>>
    BY <2>1 DEF Origins, loopVars
  <2>3. /\ queued' \in Seq(Origins)
        /\ functors_' \in Seq(1 .. Len(queued'))
        /\ batch' \in Seq(1 .. Len(queued'))
        /\ ran' \in Seq(1 .. Len(queued'))
        /\ ExactlyOnceInOrder'
    BY <2>1, <2>2, PushBackStep
  <2>4. TypeOK' /\ ControlOK'
    BY <2>1, <2>3 DEF TypeOK, ControlOK, PushStages, loopVars
  <2>5. NoLostWakeUp'
    BY <2>1 DEF NoLostWakeUp, WakeUpComing, TypeOK
  <2> QED
    BY <2>3, <2>4, <2>5
<1>3. CASE ForeignWakeUp(t)
  <2>1. bytes' \in 0 .. PipeCapacity /\ bytes' > 0
    <3>1. bytes \in 0 .. PipeCapacity /\ bytes < PipeCapacity /\ bytes' = bytes + 1
      BY <1>3 DEF ForeignWakeUp, WakeUp, TypeOK
    <3> QED
      BY <3>1, PipeCapacityAssumption
  <2>2. TypeOK' /\ ControlOK'
    BY <1>3, <2>1 DEF ForeignWakeUp, TypeOK, ControlOK, PushStages, loopVars
  <2>3. NoLostWakeUp' /\ ExactlyOnceInOrder'
    BY <1>3, <2>1, WakeUpKept, OrderKept DEF ForeignWakeUp, WakeUpComing, loopVars
  <2> QED
    BY <2>2, <2>3
<1>4. CASE ForeignQuit(t)
  <2>1. tpc' = [tpc EXCEPT ![t] = "wake"]
    BY <1>4 DEF ForeignQuit
  <2>2. TypeOK' /\ ControlOK'
    BY <1>4, <2>1 DEF ForeignQuit, TypeOK, ControlOK, PushStages, loopVars
  <2>3. WakeUpComing => WakeUpComing'
    BY <1>4, <2>1 DEF ForeignQuit, WakeUpComing, TypeOK
  <2>4. NoLostWakeUp' /\ ExactlyOnceInOrder'
    BY <1>4, <2>3, WakeUpKept, OrderKept DEF ForeignQuit, loopVars
  <2> QED
    BY <2>2, <2>4
<1> QED
  BY <1>1, <1>2, <1>3, <1>4 DEF ForeignStep

\* IInv is inductive.
LEMMA NextIInv == IInv /\ [Next]_vars => IInv'
<1>1. ASSUME IInv, UNCHANGED vars
      PROVE  IInv'
  BY <1>1 DEF vars, IInv, TypeOK, ControlOK, NoLostWakeUp, ExactlyOnceInOrder,
              WakeUpComing
<1> QED
  BY <1>1, LoopThreadStep, UserCodeStep, ForeignThreadStep DEF Next, LoopStep

\* Every behaviour of the loop and the threads that use it satisfies IInv.
THEOREM Safety == Spec => []IInv
  BY InitIInv, NextIInv, PTL DEF Spec

\* Variables keep their types, and every id in the queue, in the batch and in
\* the history was handed out by a QueueInLoop call.
THEOREM TypeCorrect == Spec => []TypeOK
<1>1. IInv => TypeOK
  BY DEF IInv
<1> QED
  BY <1>1, Safety, PTL

\* QueueInLoop's wakeup rule (fx_event_loop.cc:125) never leaves the loop
\* asleep on a queued functor, whatever the number of threads and the size of
\* the pipe; functors queued by timer callbacks are the exception.
THEOREM WakeUpsAreNotLost == Spec => []NoLostWakeUp
<1>1. IInv => NoLostWakeUp
  BY DEF IInv
<1> QED
  BY <1>1, Safety, PTL

\* CallPendingFunctors runs each functor once, in the order of the pushes, as
\* long as no two pushes overlap.
THEOREM FunctorsRunInOrder == Spec => []ExactlyOnceInOrder
<1>1. IInv => ExactlyOnceInOrder
  BY DEF IInv
<1> QED
  BY <1>1, Safety, PTL
=============================================================================
