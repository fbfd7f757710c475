--------------------------- MODULE TcpServerProofs ---------------------------
(***************************************************************************)
(* Theorems about TcpServer, for any number of IO loops, connections and     *)
(* descriptors: which loops push functors to which, that no pointer a loop    *)
(* keeps outlives its connection, that no assertion can fail, that the two    *)
(* callbacks of a connection both run, and what is read when.                *)
(***************************************************************************)
EXTENDS TcpServer, SequenceTheorems, TLAPS

-----------------------------------------------------------------------------
(* The invariant: every call is in the thread where it belongs *)

\* What the base loop does for a connection, and what the connection's own does.
ServerOps == {"startReading", "handleClose", "notifyClosed", "queueDestroy",
              "closeReturns"}
ConnOps == {"nccb", "cccb", "destroy", "enableReading", "write", "activeClose",
            "readFromPeer", "writeToPeer"}
AllCalls == [op : ServerOps \cup ConnOps, c : Conns]
States == {"none", "connected", "disconnected", "freed"}

\* The calls that may be on loop l.
Proper(l) ==
    {call \in AllCalls :
        /\ state_[call.c] # "none"
        /\ l = IF call.op \in ServerOps THEN Base ELSE loop_[call.c]}

\* The connections that may be in loop l's poller.
Local(l) == {c \in Conns : state_[c] # "none" /\ loop_[c] = l}

\* The loops that serve connections, and those that may push to loop l.
Home == IF threads = <<>> THEN {Base} ELSE Range(threads)
PushersOf(l) == IF l = Base THEN Home ELSE {Base}

ConnInv ==
    /\ state_ \in [Conns -> States] /\ loop_ \in [Conns -> Loops]
    /\ \A c \in Conns : state_[c] # "none" => loop_[c] \in Home
ThreadsInv ==
    /\ threads \in {<<>>, IoLoops}
    /\ threads # <<>> => next_ \in 1 .. Len(threads)
StackInv ==
    stack \in [Loops -> Seq(AllCalls)] /\ \A l \in Loops : stack[l] \in Seq(Proper(l))
QueueInv ==
    queue \in [Loops -> Seq(AllCalls)] /\ \A l \in Loops : queue[l] \in Seq(Proper(l))
BatchInv ==
    batch \in [Loops -> Seq(AllCalls)] /\ \A l \in Loops : batch[l] \in Seq(Proper(l))
ActiveInv ==
    /\ active \in [Loops -> SUBSET [c : Conns, in : BOOLEAN, out : BOOLEAN]]
    /\ \A l \in Loops : \A a \in active[l] : a.c \in Local(l)
PollerInv ==
    /\ poller \in [Loops -> [Fds -> Conns \cup {NoConn}]]
    /\ \A l \in Loops, f \in Fds : poller[l][f] # NoConn => poller[l][f] \in Local(l)
MapInv == connections_ \subseteq {c \in Conns : state_[c] # "none"}
PushInv ==
    pushes \in [Loops -> SUBSET Loops] /\ \A l \in Loops : pushes[l] \subseteq PushersOf(l)

IInv ==
    /\ ConnInv /\ ThreadsInv /\ StackInv /\ QueueInv /\ BatchInv
    /\ ActiveInv /\ PollerInv /\ MapInv /\ PushInv

-----------------------------------------------------------------------------
(* What a step that moves no connection preserves *)

\* A connection that was accepted stays so, on its loop.
Stable ==
    /\ ConnInv' /\ UNCHANGED threads
    /\ \A c \in Conns : state_[c] # "none" => state_'[c] # "none" /\ loop_'[c] = loop_[c]

LEMMA Unmoved ==
    ASSUME ConnInv, UNCHANGED <<threads, state_, loop_>>
    PROVE  Stable
  BY DEF Stable, ConnInv, Home

LEMMA SeqSubset ==
    ASSUME NEW S, NEW T, S \subseteq T, NEW s \in Seq(S)
    PROVE  s \in Seq(T)
  OBVIOUS

LEMMA ProperStays ==
    ASSUME Stable, NEW l \in Loops
    PROVE  Proper(l) \subseteq Proper(l)' /\ Local(l) \subseteq Local(l)'
  BY DEF Stable, Proper, Local, AllCalls

LEMMA Frame ==
    ASSUME IInv, Stable
    PROVE  /\ UNCHANGED stack => StackInv'
           /\ UNCHANGED queue => QueueInv'
           /\ UNCHANGED batch => BatchInv'
           /\ UNCHANGED active => ActiveInv'
           /\ UNCHANGED poller => PollerInv'
           /\ UNCHANGED connections_ => MapInv'
           /\ UNCHANGED pushes => PushInv'
           /\ UNCHANGED next_ => ThreadsInv'
<1>1. ASSUME NEW l \in Loops, NEW s \in Seq(Proper(l)) PROVE s \in Seq(Proper(l)')
  BY <1>1, ProperStays, SeqSubset
<1>2. UNCHANGED stack => StackInv'
  BY <1>1 DEF IInv, StackInv
<1>3. UNCHANGED queue => QueueInv'
  BY <1>1 DEF IInv, QueueInv
<1>4. UNCHANGED batch => BatchInv'
  BY <1>1 DEF IInv, BatchInv
<1>5. UNCHANGED active => ActiveInv'
  BY ProperStays DEF IInv, ActiveInv
<1>6. UNCHANGED poller => PollerInv'
  BY ProperStays DEF IInv, PollerInv
<1>7. UNCHANGED connections_ => MapInv'
  BY DEF IInv, MapInv, Stable
<1>8. UNCHANGED pushes => PushInv'
  BY DEF IInv, PushInv, Stable, PushersOf, Home
<1>9. UNCHANGED next_ => ThreadsInv'
  BY DEF IInv, ThreadsInv, Stable
<1> QED
  BY <1>2, <1>3, <1>4, <1>5, <1>6, <1>7, <1>8, <1>9

\* The innermost call of loop l is replaced by calls that belong there.
LEMMA ContinueKeeps ==
    ASSUME IInv, Stable, NEW l \in Loops, stack[l] # <<>>,
           NEW calls, calls \in Seq(Proper(l)'), Continue(l, calls)
    PROVE  StackInv'
<1>1. \A m \in Loops : stack[m] \in Seq(Proper(m)')
  BY ProperStays, SeqSubset DEF IInv, StackInv
<1>2. Tail(stack[l]) \in Seq(Proper(l)')
  BY <1>1
<1>3. calls \o Tail(stack[l]) \in Seq(Proper(l)')
  BY <1>2
<1>4. Proper(l)' \subseteq AllCalls
  BY DEF Proper
<1>5. calls \o Tail(stack[l]) \in Seq(AllCalls)
  BY <1>3, <1>4, SeqSubset
<1>6. /\ stack' \in [Loops -> Seq(AllCalls)]
      /\ stack'[l] = calls \o Tail(stack[l])
      /\ \A m \in Loops : m # l => stack'[m] = stack[m]
  BY <1>5 DEF Continue, IInv, StackInv
<1> QED
  BY <1>1, <1>3, <1>6 DEF StackInv

\* Loop l pushes a call that belongs to loop m.
LEMMA QueueKeeps ==
    ASSUME IInv, Stable, NEW l \in Loops, NEW m \in Loops, l \in PushersOf(m)',
           NEW call, call \in Proper(m)',
           queue' = [queue EXCEPT ![m] = Append(@, call)],
           pushes' = [pushes EXCEPT ![m] = @ \cup {l}]
    PROVE  QueueInv' /\ PushInv'
<1>1. \A k \in Loops : queue[k] \in Seq(Proper(k)')
  BY ProperStays, SeqSubset DEF IInv, QueueInv
<1>2. Append(queue[m], call) \in Seq(Proper(m)')
  BY <1>1
<1>3. Proper(m)' \subseteq AllCalls
  BY DEF Proper
<1>4. Append(queue[m], call) \in Seq(AllCalls)
  BY <1>2, <1>3, SeqSubset
<1>5. QueueInv'
  <2>1. /\ queue' \in [Loops -> Seq(AllCalls)]
        /\ queue'[m] = Append(queue[m], call)
        /\ \A k \in Loops : k # m => queue'[k] = queue[k]
    BY <1>4 DEF IInv, QueueInv
  <2> QED
    BY <1>1, <1>2, <2>1 DEF QueueInv
<1>6. PushInv'
  <2>1. \A k \in Loops : PushersOf(k)' = PushersOf(k)
    BY DEF PushersOf, Home, Stable
  <2>2. /\ pushes' \in [Loops -> SUBSET Loops]
        /\ pushes'[m] = pushes[m] \cup {l}
        /\ \A k \in Loops : k # m => pushes'[k] = pushes[k]
    BY DEF IInv, PushInv
  <2> QED
    BY <2>1, <2>2 DEF IInv, PushInv
<1> QED
  BY <1>5, <1>6

LEMMA RunInLoopKeeps ==
    ASSUME IInv, Stable, NEW l \in Loops, NEW m \in Loops, stack[l] # <<>>,
           l # m => l \in PushersOf(m)',
           NEW call, call \in Proper(m)', RunInLoop(l, m, call, <<>>)
    PROVE  StackInv' /\ QueueInv' /\ PushInv'
<1>1. CASE l = m
  <2>1. <<call>> \o <<>> \in Seq(Proper(l)')
    BY <1>1
  <2>2. StackInv'
    BY <1>1, <2>1, ContinueKeeps DEF RunInLoop
  <2> QED
    BY <1>1, <2>2, Frame DEF RunInLoop
<1>2. CASE l # m
  <2>1. <<>> \in Seq(Proper(l)')
    OBVIOUS
  <2>2. StackInv'
    BY <1>2, <2>1, ContinueKeeps DEF RunInLoop, QueueInLoop
  <2>3. QueueInv' /\ PushInv'
    BY <1>2, QueueKeeps DEF RunInLoop, QueueInLoop
  <2> QED
    BY <2>2, <2>3
<1> QED
  BY <1>1, <1>2

\* A channel enters the poller of its connection's loop.
LEMMA UpdateKeeps ==
    ASSUME IInv, Stable, NEW c \in Conns, state_[c] # "none", NEW events,
           Update(c, events)
    PROVE  PollerInv'
<1>1. /\ poller' \in [Loops -> [Fds -> Conns \cup {NoConn}]]
      /\ \A l \in Loops, f \in Fds :
            \/ poller'[l][f] = poller[l][f]
            \/ poller'[l][f] = c /\ l = loop_[c]
  <2> DEFINE row == [poller[loop_[c]] EXCEPT ![fd_[c]] = IF @ = NoConn THEN c ELSE @]
  <2>1. poller \in [Loops -> [Fds -> Conns \cup {NoConn}]] /\ loop_[c] \in Loops
    BY DEF IInv, PollerInv, ConnInv
  <2>2. row \in [Fds -> Conns \cup {NoConn}]
    BY <2>1
  <2>3. \A f \in Fds : row[f] = poller[loop_[c]][f] \/ row[f] = c
    BY <2>1
  <2>4. poller' = [poller EXCEPT ![loop_[c]] = row]
    BY DEF Update
  <2> HIDE DEF row
  <2> QED
    BY <2>1, <2>2, <2>3, <2>4
<1>2. \A l \in Loops : l = loop_[c] => c \in Local(l)'
  BY DEF Stable, Local, IInv, ConnInv
<1>3. ASSUME NEW l \in Loops, NEW f \in Fds, poller'[l][f] # NoConn
      PROVE  poller'[l][f] \in Local(l)'
  <2>1. CASE poller'[l][f] = poller[l][f]
    <3>1. poller[l][f] \in Local(l)
      BY <1>3, <2>1 DEF IInv, PollerInv
    <3> QED
      BY <2>1, <3>1, ProperStays
  <2>2. CASE poller'[l][f] = c /\ l = loop_[c]
    BY <1>2, <2>2
  <2> QED
    BY <1>1, <2>1, <2>2
<1> QED
  BY <1>1, <1>3 DEF PollerInv

\* The connection of the innermost call, and where the call is.
LEMMA CallIsProper ==
    ASSUME IInv, NEW l \in Loops, NEW op, NEW c, Calls(l, op, c)
    PROVE  /\ stack[l] # <<>> /\ c \in Conns /\ state_[c] # "none"
           /\ loop_[c] \in Home /\ loop_[c] \in Loops
           /\ l = IF op \in ServerOps THEN Base ELSE loop_[c]
<1>1. stack[l] # <<>> /\ Call(op, c) \in Proper(l)
  BY DEF IInv, StackInv, Calls
<1> QED
  BY <1>1 DEF Proper, AllCalls, Call, IInv, ConnInv

\* A call of connection c belongs to loop l.
LEMMA CallBelongs ==
    ASSUME Stable, NEW l \in Loops, NEW op \in ServerOps \cup ConnOps,
           NEW c \in Conns, state_[c] # "none",
           l = IF op \in ServerOps THEN Base ELSE loop_[c]
    PROVE  Call(op, c) \in Proper(l)'
  BY DEF Stable, Proper, AllCalls, Call

-----------------------------------------------------------------------------
(* The steps *)

\* Steps of the environment, and of a loop between two calls.
LEMMA PeerKeeps ==
    ASSUME IInv, (\E c \in Conns : PeerStep(c)) \/ AcceptLost \/ AcceptFails
    PROVE  IInv'
<1>1. UNCHANGED <<active, batch, queue, pushes, stack, threads, next_, connections_,
                  state_, loop_, poller>>
  BY DEF PeerStep, PeerSends, PeerCloses, PeerResets, AcceptLost, AcceptFails, loopVars, queueVars,
         serverVars, connVars, channelVars
<1> QED
  BY <1>1, Unmoved, Frame DEF IInv, Stable

LEMMA ReleaseIsStable ==
    ASSUME IInv, Release, UNCHANGED <<threads, loop_>>
    PROVE  Stable
<1>1. \A c \in Conns : state_'[c] \in {state_[c], "freed"} /\ (state_[c] = "none" => state_'[c] = "none")
  BY DEF Release, Reset, Alive
<1>2. state_' \in [Conns -> States]
  BY <1>1 DEF Release, Reset, IInv, ConnInv, States
<1> QED
  BY <1>1, <1>2 DEF Stable, IInv, ConnInv, Home

LEMMA PollKeeps ==
    ASSUME IInv, NEW l \in Loops, NEW writable, Poll(l, writable)
    PROVE  IInv'
<1>1. UNCHANGED <<batch, queue, pushes, stack, threads, next_, connections_, state_,
                  loop_, poller>>
  BY DEF Poll, serverVars, connVars, channelVars
<1>2. Stable
  BY <1>1, Unmoved DEF IInv
<1>3. ActiveInv'
  <2>1. Registered(l) \subseteq Local(l)
    BY DEF Registered, IInv, PollerInv
  <2>2. Local(l) \subseteq Local(l)' /\ Local(l) \subseteq Conns
    BY <1>2, ProperStays DEF Local
  <2> DEFINE reported == {[c |-> c, in |-> InputReady(c), out |-> c \in writable] :
                             c \in {d \in Registered(l) : InputReady(d) \/ d \in writable}}
  <2>3. \A c : InputReady(c) \in BOOLEAN
    BY Zenon DEF InputReady
  <2>4. reported \subseteq [c : Conns, in : BOOLEAN, out : BOOLEAN]
    <3>1. ASSUME NEW c \in Registered(l)
          PROVE  [c |-> c, in |-> InputReady(c), out |-> c \in writable]
                    \in [c : Conns, in : BOOLEAN, out : BOOLEAN]
      <4>1. c \in Conns /\ InputReady(c) \in BOOLEAN /\ (c \in writable) \in BOOLEAN
        BY <2>1, <2>2, <2>3
      <4> QED
        BY <4>1, Zenon
    <3> QED
      BY <3>1
  <2>5. \A a \in reported : a.c \in Local(l)'
    BY <2>1, <2>2
  <2>6. active' = [active EXCEPT ![l] = reported]
    BY DEF Poll
  <2> HIDE DEF reported
  <2>7. /\ active' \in [Loops -> SUBSET [c : Conns, in : BOOLEAN, out : BOOLEAN]]
        /\ active'[l] = reported
        /\ \A m \in Loops : m # l => active'[m] = active[m]
    BY <2>4, <2>6 DEF IInv, ActiveInv
  <2>8. \A m \in Loops : Local(m) \subseteq Local(m)'
    BY <1>2, ProperStays
  <2> QED
    BY <2>5, <2>7, <2>8 DEF IInv, ActiveInv
<1> QED
  BY <1>1, <1>2, <1>3, Frame DEF IInv, Stable

LEMMA HandleEventsKeeps ==
    ASSUME IInv, NEW l \in Loops, HandleEvents(l)
    PROVE  IInv'
<1>1. UNCHANGED <<batch, queue, pushes, threads, next_, connections_, state_, loop_,
                  poller>>
  BY DEF HandleEvents, queueVars, serverVars, connVars, channelVars
<1>2. Stable
  BY <1>1, Unmoved DEF IInv
<1>3. PICK a \in active[l] :
          /\ active' = [active EXCEPT ![l] = @ \ {a}]
          /\ stack' = [stack EXCEPT ![l] =
                (IF a.out THEN <<Call("writeToPeer", a.c)>> ELSE <<>>)
                \o (IF a.in THEN <<Call("readFromPeer", a.c)>> ELSE <<>>)]
  BY DEF HandleEvents
<1>4. a.c \in Conns /\ state_[a.c] # "none" /\ loop_[a.c] = l
  BY <1>3 DEF IInv, ActiveInv, Local
<1>5. Call("writeToPeer", a.c) \in Proper(l)' /\ Call("readFromPeer", a.c) \in Proper(l)'
  BY <1>2, <1>4, CallBelongs DEF ConnOps, ServerOps
<1>6. StackInv'
  <2> DEFINE calls == (IF a.out THEN <<Call("writeToPeer", a.c)>> ELSE <<>>)
                      \o (IF a.in THEN <<Call("readFromPeer", a.c)>> ELSE <<>>)
  <2>1. calls \in Seq(Proper(l)')
    BY <1>5
  <2> HIDE DEF calls
  <2>2. calls \in Seq(AllCalls)
    BY <2>1, SeqSubset DEF Proper
  <2>3. stack' = [stack EXCEPT ![l] = calls]
    BY <1>3 DEF calls
  <2>4. \A m \in Loops : stack[m] \in Seq(Proper(m)')
    BY <1>2, ProperStays, SeqSubset DEF IInv, StackInv
  <2> QED
    BY <2>1, <2>2, <2>3, <2>4 DEF IInv, StackInv
<1>7. ActiveInv'
  <2>1. \A m \in Loops : active'[m] \subseteq active[m]
    BY <1>3 DEF IInv, ActiveInv
  <2>2. active' \in [Loops -> SUBSET [c : Conns, in : BOOLEAN, out : BOOLEAN]]
    BY <1>3 DEF IInv, ActiveInv
  <2> QED
    BY <1>2, <2>1, <2>2, ProperStays DEF IInv, ActiveInv
<1> QED
  BY <1>1, <1>2, <1>6, <1>7, Frame DEF IInv, Stable

LEMMA FunctorsKeep ==
    ASSUME IInv, NEW l \in Loops,
           SwapFunctors(l) \/ RunFunctor(l) \/ EndFunctors(l) \/ EndIteration(l)
    PROVE  IInv'
<1>1. CASE SwapFunctors(l)
  <2>1. /\ UNCHANGED <<active, pushes, stack, threads, next_, connections_, state_, loop_,
                       poller>>
        /\ batch' = [batch EXCEPT ![l] = queue[l]]
        /\ queue' = [queue EXCEPT ![l] = <<>>]
    BY <1>1 DEF SwapFunctors, serverVars, connVars, channelVars
  <2>2. Stable
    BY <2>1, Unmoved DEF IInv
  <2>3. \A m \in Loops : queue[m] \in Seq(Proper(m)') /\ batch[m] \in Seq(Proper(m)')
    BY <2>2, ProperStays, SeqSubset DEF IInv, QueueInv, BatchInv
  <2>4. BatchInv'
    BY <2>1, <2>3 DEF IInv, BatchInv, QueueInv
  <2>5. QueueInv'
    <3>1. queue' \in [Loops -> Seq(AllCalls)]
      BY <2>1 DEF IInv, QueueInv
    <3> QED
      BY <2>1, <2>3, <3>1 DEF IInv, QueueInv
  <2> QED
    BY <2>1, <2>2, <2>4, <2>5, Frame DEF IInv, Stable
<1>2. CASE RunFunctor(l)
  <2>1. /\ UNCHANGED <<active, queue, pushes, threads, next_, connections_, state_, loop_,
                       poller>>
        /\ stack' = [stack EXCEPT ![l] = <<Head(batch[l])>>]
        /\ batch' = [batch EXCEPT ![l] = Tail(@)] /\ batch[l] # <<>>
    BY <1>2 DEF RunFunctor, queueVars, serverVars, connVars, channelVars
  <2>2. Stable
    BY <2>1, Unmoved DEF IInv
  <2>3. \A m \in Loops : stack[m] \in Seq(Proper(m)') /\ batch[m] \in Seq(Proper(m)')
    BY <2>2, ProperStays, SeqSubset DEF IInv, StackInv, BatchInv
  <2>4. Head(batch[l]) \in Proper(l)' /\ Tail(batch[l]) \in Seq(Proper(l)')
    BY <2>1, <2>3
  <2>5. <<Head(batch[l])>> \in Seq(Proper(l)')
    BY <2>4
  <2>6. Tail(batch[l]) \in Seq(AllCalls) /\ <<Head(batch[l])>> \in Seq(AllCalls)
    BY <2>4, <2>5, SeqSubset DEF Proper
  <2>7. BatchInv'
    BY <2>1, <2>3, <2>4, <2>6 DEF IInv, BatchInv
  <2>8. StackInv'
    BY <2>1, <2>3, <2>5, <2>6 DEF IInv, StackInv
  <2> QED
    BY <2>1, <2>2, <2>7, <2>8, Frame DEF IInv, Stable
<1>3. CASE EndFunctors(l)
  <2>1. /\ UNCHANGED <<active, batch, queue, pushes, stack, threads, next_, connections_,
                       loop_, poller>>
        /\ Release
    BY <1>3 DEF EndFunctors, queueVars, serverVars
  <2> QED
    BY <2>1, ReleaseIsStable, Frame DEF IInv, Stable
<1>4. CASE EndIteration(l)
  <2>1. UNCHANGED <<active, batch, queue, pushes, stack, threads, next_, connections_,
                    state_, loop_, poller>>
    BY <1>4 DEF EndIteration, queueVars, serverVars, connVars, channelVars
  <2> QED
    BY <2>1, Unmoved, Frame DEF IInv, Stable
<1> QED
  BY <1>1, <1>2, <1>3, <1>4

LEMMA TimerKeeps ==
    ASSUME IInv, NEW l \in Loops, NEW c \in Conns, TimerFires(l, c)
    PROVE  IInv'
<1>1. /\ UNCHANGED <<active, batch, queue, pushes, threads, next_, connections_, state_,
                     loop_, poller>>
      /\ loop_[c] = l /\ state_[c] # "none"
  BY DEF TimerFires, loopVars, queueVars, serverVars, channelVars
<1>2. Stable
  BY <1>1, Unmoved DEF IInv
<1>3. Call("write", c) \in Proper(l)' /\ Call("activeClose", c) \in Proper(l)'
  BY <1>1, <1>2, CallBelongs DEF ConnOps, ServerOps
<1>4. PICK last \in {<<>>, <<Call("write", c)>>} :
          stack' = [stack EXCEPT ![l] = last \o <<Call("activeClose", c)>>]
  BY DEF TimerFires
<1>5. last \o <<Call("activeClose", c)>> \in Seq(Proper(l)')
  <2>1. <<Call("activeClose", c)>> \in Seq(Proper(l)')
    BY <1>3
  <2>2. <<>> \in Seq(Proper(l)') /\ <<Call("write", c)>> \in Seq(Proper(l)')
    BY <1>3
  <2>3. last \in Seq(Proper(l)')
    BY <2>2
  <2> QED
    BY <2>1, <2>3
<1>6. last \o <<Call("activeClose", c)>> \in Seq(AllCalls)
  BY <1>5, SeqSubset DEF Proper
<1>7. \A m \in Loops : stack[m] \in Seq(Proper(m)')
  BY <1>2, ProperStays, SeqSubset DEF IInv, StackInv
<1>8. StackInv'
  BY <1>4, <1>5, <1>6, <1>7 DEF IInv, StackInv
<1> QED
  BY <1>1, <1>2, <1>8, Frame DEF IInv, Stable

\* NextLoop gives a loop of the server, and keeps the turn within the pool.
LEMMA NextLoopIsHome ==
    ASSUME ThreadsInv
    PROVE  /\ NextLoop \in Home /\ NextLoop \in Loops
           /\ threads # <<>> => NextTurn \in 1 .. Len(threads)
<1>1. CASE threads = <<>>
  BY <1>1 DEF NextLoop, Home, Loops
<1>2. CASE threads # <<>>
  <2>1. /\ threads = IoLoops /\ threads \in Seq(Range(IoLoops))
        /\ next_ \in 1 .. Len(threads)
    BY <1>2, LoopsAssumption DEF ThreadsInv
  <2>2. Len(threads) \in Nat \ {0}
    BY <2>1
  <2>3. next_ % Len(threads) \in 0 .. Len(threads) - 1
    BY <2>1, <2>2
  <2>4. NextLoop \in Range(IoLoops)
    BY <1>2, <2>1 DEF NextLoop
  <2> QED
    BY <1>2, <2>1, <2>2, <2>3, <2>4 DEF NextTurn, Home, Loops
<1> QED
  BY <1>1, <1>2

\* Without a pool the base loop serves the connections, with one it does not.
LEMMA HomeIs ==
    ASSUME ThreadsInv
    PROVE  /\ Home \subseteq Loops
           /\ threads = <<>> => Home = {Base}
           /\ threads # <<>> => Base \notin Home
  BY LoopsAssumption DEF Home, ThreadsInv, Loops

LEMMA AcceptKeeps ==
    ASSUME IInv, Accept
    PROVE  IInv'
<1>1. PICK c \in Conns, l \in Loops :
          /\ state_[c] = "none"
          /\ l = NextLoop /\ next_' = NextTurn
          /\ state_' = [state_ EXCEPT ![c] = "connected"]
          /\ loop_' = [loop_ EXCEPT ![c] = l]
          /\ connections_' = connections_ \cup {c}
          /\ IF l = Base
             THEN /\ stack' = [stack EXCEPT ![l] =
                                  <<Call("nccb", c), Call("startReading", c)>>]
                  /\ UNCHANGED queueVars
             ELSE /\ stack' = [stack EXCEPT ![Base] = <<Call("startReading", c)>>]
                  /\ queue' = [queue EXCEPT ![l] = Append(@, Call("nccb", c))]
                  /\ wake' = [wake EXCEPT ![l] = TRUE]
                  /\ pushes' = [pushes EXCEPT ![l] = @ \cup {Base}]
  BY DEF Accept, IsLeast
<1>2. UNCHANGED <<active, batch, threads, poller>>
  BY DEF Accept, loopVars, channelVars
<1>3. l \in Home /\ (threads # <<>> => next_' \in 1 .. Len(threads))
  BY <1>1, NextLoopIsHome DEF IInv
<1>4. Stable
  BY <1>1, <1>2, <1>3 DEF Stable, IInv, ConnInv, States, Home
<1>5. /\ Call("nccb", c) \in Proper(l)' /\ Call("startReading", c) \in Proper(Base)'
      /\ Base \in Loops
  BY <1>1 DEF Proper, AllCalls, Call, ServerOps, ConnOps, IInv, ConnInv, Loops
<1>6. \A m \in Loops : stack[m] \in Seq(Proper(m)')
  BY <1>4, ProperStays, SeqSubset DEF IInv, StackInv
<1>7. ThreadsInv' /\ MapInv'
  BY <1>1, <1>2, <1>3, <1>4 DEF ThreadsInv, MapInv, IInv, ConnInv, Stable
<1>8. CASE l = Base
  <2>1. <<Call("nccb", c), Call("startReading", c)>> \in Seq(Proper(Base)')
    BY <1>5, <1>8
  <2>2. <<Call("nccb", c), Call("startReading", c)>> \in Seq(AllCalls)
    BY <2>1, SeqSubset DEF Proper
  <2>3. StackInv'
    BY <1>1, <1>6, <1>8, <2>1, <2>2 DEF IInv, StackInv
  <2> QED
    BY <1>1, <1>2, <1>4, <1>7, <1>8, <2>3, Frame DEF IInv, Stable, queueVars
<1>9. CASE l # Base
  <2>1. <<Call("startReading", c)>> \in Seq(Proper(Base)')
    BY <1>5
  <2>2. <<Call("startReading", c)>> \in Seq(AllCalls)
    BY <2>1, SeqSubset DEF Proper
  <2>3. StackInv'
    BY <1>1, <1>5, <1>6, <1>9, <2>1, <2>2 DEF IInv, StackInv
  <2>4. Base \in PushersOf(l)'
    BY <1>9 DEF PushersOf
  <2>5. QueueInv' /\ PushInv'
    BY <1>1, <1>4, <1>5, <1>9, <2>4, QueueKeeps
  <2> QED
    BY <1>1, <1>2, <1>4, <1>7, <2>3, <2>5, Frame DEF IInv, Stable
<1> QED
  BY <1>8, <1>9

\* A call that ends, or makes calls on its own loop, and moves no connection.
LEMMA LocalCallKeeps ==
    ASSUME IInv, Stable, NEW l \in Loops, stack[l] # <<>>,
           NEW calls, calls \in Seq(Proper(l)'), Continue(l, calls), PollerInv',
           UNCHANGED <<active, batch, queue, pushes, next_>>, MapInv'
    PROVE  IInv'
  BY ContinueKeeps, Frame DEF IInv, Stable

\* What user code does for a connection on its own loop.
LEMMA ReactIsProper ==
    ASSUME IInv, Stable, NEW l \in Loops, NEW c \in Conns, stack[l] # <<>>,
           state_[c] # "none", loop_[c] = l, NEW name, React(l, c, name)
    PROVE  \E calls \in Seq(Proper(l)') : Continue(l, calls)
<1>1. Call("write", c) \in Proper(l)' /\ Call("activeClose", c) \in Proper(l)'
  BY CallBelongs DEF ConnOps, ServerOps
<1>2. PICK writes \in BOOLEAN, closes \in BOOLEAN :
          Continue(l, (IF writes THEN <<Call("write", c)>> ELSE <<>>)
                      \o (IF closes THEN <<Call("activeClose", c)>> ELSE <<>>))
  BY DEF React
<1> DEFINE first == IF writes THEN <<Call("write", c)>> ELSE <<>>
           second == IF closes THEN <<Call("activeClose", c)>> ELSE <<>>
<1>3. first \in Seq(Proper(l)') /\ second \in Seq(Proper(l)')
  BY <1>1
<1>4. Continue(l, first \o second)
  BY <1>2
<1> HIDE DEF first, second
<1>5. first \o second \in Seq(Proper(l)')
  BY <1>3
<1> QED
  BY <1>4, <1>5

\* An ended connection was there before, and stays on its loop.
LEMMA EndIsStable ==
    ASSUME IInv, NEW c \in Conns, state_[c] # "none",
           state_' = [state_ EXCEPT ![c] = "disconnected"], UNCHANGED <<threads, loop_>>
    PROVE  Stable
  BY DEF Stable, IInv, ConnInv, States, Home

\* The call to the base loop when the connection ends.
LEMMA ClosingKeeps ==
    ASSUME IInv, Stable, NEW l \in Loops, NEW c \in Conns, stack[l] # <<>>,
           state_[c] # "none", loop_[c] = l, OnConnectionClosed(l, c),
           NEW events, Update(c, events), UNCHANGED <<active, batch, connections_, next_>>
    PROVE  IInv'
<1>1. l \in PushersOf(Base)' /\ Base \in Loops
  BY DEF PushersOf, Home, Stable, IInv, ConnInv, Loops
<1>2. Call("handleClose", c) \in Proper(Base)'
  BY <1>1, CallBelongs DEF ServerOps
<1>3. StackInv' /\ QueueInv' /\ PushInv'
  BY <1>1, <1>2, RunInLoopKeeps DEF OnConnectionClosed
<1> QED
  BY <1>3, UpdateKeeps, Frame DEF IInv, Stable

\* The server's calls for a connection.
LEMMA ServerCallsKeep ==
    ASSUME IInv, NEW l \in Loops, NEW c \in Conns,
           \/ StartReading(l, c) \/ NotifyClosed(l, c) \/ QueueDestroy(l, c)
           \/ HandleConnectionClose(l, c) \/ CloseReturns(l, c)
    PROVE  IInv'
<1>1. PICK m \in Loops : m = loop_[c]
  BY DEF IInv, ConnInv
<1>2. CASE StartReading(l, c) \/ NotifyClosed(l, c)
  <2>1. UNCHANGED <<active, batch, threads, next_, connections_, state_, loop_, poller>>
    BY <1>2 DEF StartReading, NotifyClosed, loopVars, serverVars, connVars, channelVars
  <2>2. Stable
    BY <2>1, Unmoved DEF IInv
  <2>3. stack[l] # <<>> /\ state_[c] # "none" /\ l = Base
    BY <1>2, CallIsProper DEF StartReading, NotifyClosed, ServerOps
  <2>4. l # m => l \in PushersOf(m)'
    BY <2>3 DEF PushersOf
  <2>5. Call("enableReading", c) \in Proper(m)' /\ Call("cccb", c) \in Proper(m)'
    BY <1>1, <2>2, <2>3, CallBelongs DEF ConnOps, ServerOps
  <2>6. StackInv' /\ QueueInv' /\ PushInv'
    <3>1. CASE StartReading(l, c)
      <4>1. RunInLoop(l, m, Call("enableReading", c), <<>>)
        BY <1>1, <3>1 DEF StartReading
      <4> QED
        BY <2>2, <2>3, <2>4, <2>5, <4>1, RunInLoopKeeps
    <3>2. CASE NotifyClosed(l, c)
      <4>1. RunInLoop(l, m, Call("cccb", c), <<>>)
        BY <1>1, <3>2 DEF NotifyClosed
      <4> QED
        BY <2>2, <2>3, <2>4, <2>5, <4>1, RunInLoopKeeps
    <3> QED
      BY <1>2, <3>1, <3>2
  <2> QED
    BY <2>1, <2>2, <2>6, Frame DEF IInv, Stable
<1>3. CASE QueueDestroy(l, c)
  <2>1. UNCHANGED <<active, batch, threads, next_, connections_, state_, loop_, poller>>
    BY <1>3 DEF QueueDestroy, loopVars, serverVars, connVars, channelVars
  <2>2. Stable
    BY <2>1, Unmoved DEF IInv
  <2>3. stack[l] # <<>> /\ state_[c] # "none" /\ l = Base /\ m \in Home
    BY <1>1, <1>3, CallIsProper DEF QueueDestroy, ServerOps
  <2>4. l \in PushersOf(m)'
    BY <2>1, <2>3 DEF PushersOf, Home
  <2>5. Call("destroy", c) \in Proper(m)'
    BY <1>1, <2>2, <2>3, CallBelongs DEF ConnOps, ServerOps
  <2>6. QueueInLoop(l, m, Call("destroy", c), <<>>)
    BY <1>1, <1>3 DEF QueueDestroy
  <2>7. QueueInv' /\ PushInv'
    BY <2>2, <2>4, <2>5, <2>6, QueueKeeps DEF QueueInLoop
  <2>8. <<>> \in Seq(Proper(l)')
    OBVIOUS
  <2>9. StackInv'
    BY <2>2, <2>3, <2>6, <2>8, ContinueKeeps DEF QueueInLoop
  <2> QED
    BY <2>1, <2>2, <2>7, <2>9, Frame DEF IInv, Stable
<1>4. CASE HandleConnectionClose(l, c)
  <2>1. UNCHANGED <<active, batch, queue, pushes, threads, next_, state_, loop_, poller>>
    BY <1>4 DEF HandleConnectionClose, loopVars, queueVars, connVars, channelVars
  <2>2. Stable
    BY <2>1, Unmoved DEF IInv
  <2>3. PollerInv'
    BY <2>1, <2>2, Frame
  <2>4. stack[l] # <<>> /\ l = Base
    BY <1>4, CallIsProper DEF HandleConnectionClose, ServerOps
  <2>5. CASE UNCHANGED <<connections_, stack>>
    BY <2>1, <2>2, <2>5, Frame DEF IInv, Stable
  <2>6. ASSUME NEW d \in connections_, connections_' = connections_ \ {d},
               Continue(l, TakeDown(d))
        PROVE  IInv'
    <3>1. d \in Conns /\ state_[d] # "none"
      BY <2>6 DEF IInv, MapInv
    <3>2. /\ Call("notifyClosed", d) \in Proper(l)' /\ Call("queueDestroy", d) \in Proper(l)'
          /\ Call("closeReturns", d) \in Proper(l)'
      BY <2>2, <2>4, <3>1, CallBelongs DEF ServerOps
    <3>3. TakeDown(d) \in Seq(Proper(l)')
      BY <3>2 DEF TakeDown
    <3>4. MapInv'
      BY <2>1, <2>6 DEF IInv, MapInv
    <3> QED
      BY <2>1, <2>2, <2>3, <2>4, <2>6, <3>3, <3>4, LocalCallKeeps
  <2> QED
    BY <1>4, <2>5, <2>6 DEF HandleConnectionClose
<1>5. CASE CloseReturns(l, c)
  <2>1. /\ UNCHANGED <<active, batch, queue, pushes, threads, next_, connections_, loop_,
                       poller>>
        /\ Release /\ Continue(l, <<>>)
    BY <1>5 DEF CloseReturns, loopVars, queueVars, serverVars
  <2>2. Stable
    BY <2>1, ReleaseIsStable
  <2>3. stack[l] # <<>>
    BY <1>5, CallIsProper DEF CloseReturns
  <2>4. <<>> \in Seq(Proper(l)')
    OBVIOUS
  <2> QED
    BY <2>1, <2>2, <2>3, <2>4, LocalCallKeeps, Frame
<1> QED
  BY <1>2, <1>3, <1>4, <1>5

\* The calls of user code, and the ends of calls, on the connection's loop.
LEMMA UserCallsKeep ==
    ASSUME IInv, NEW l \in Loops, NEW c \in Conns,
           \/ NewConnectionCallback(l, c) \/ CloseCallback(l, c) \/ ReadData(l, c)
           \/ WriteWouldBlock(l, c) \/ WriteFails(l, c)
    PROVE  IInv'
<1>1. UNCHANGED <<active, batch, queue, pushes, threads, next_, connections_, state_, loop_,
                  poller>>
  BY DEF NewConnectionCallback, CloseCallback, ReadData, WriteWouldBlock, WriteFails,
         loopVars, queueVars, serverVars, connVars, channelVars
<1>2. Stable
  BY <1>1, Unmoved DEF IInv
<1>3. stack[l] # <<>> /\ state_[c] # "none" /\ loop_[c] = l
  BY CallIsProper DEF NewConnectionCallback, CloseCallback, ReadData, WriteWouldBlock,
                      WriteFails, ServerOps
<1>4. \E calls \in Seq(Proper(l)') : Continue(l, calls)
  <2>1. CASE NewConnectionCallback(l, c) \/ ReadData(l, c)
    <3>1. \E name : React(l, c, name)
      BY <2>1 DEF NewConnectionCallback, ReadData
    <3> QED
      BY <1>2, <1>3, <3>1, ReactIsProper
  <2>2. CASE CloseCallback(l, c) \/ WriteWouldBlock(l, c)
    <3>1. Continue(l, <<>>) /\ <<>> \in Seq(Proper(l)')
      BY <2>2 DEF CloseCallback, WriteWouldBlock
    <3> QED
      BY <3>1
  <2>3. CASE WriteFails(l, c)
    <3>1. Call("activeClose", c) \in Proper(l)'
      BY <1>2, <1>3, CallBelongs DEF ConnOps, ServerOps
    <3>2. <<>> \in Seq(Proper(l)') /\ <<Call("activeClose", c)>> \in Seq(Proper(l)')
      BY <3>1
    <3>3. \/ Continue(l, <<>>)
          \/ Continue(l, <<Call("activeClose", c)>>)
      BY <2>3 DEF WriteFails
    <3> QED
      BY <3>2, <3>3
  <2> QED
    BY <2>1, <2>2, <2>3
<1> QED
  BY <1>1, <1>2, <1>3, <1>4, LocalCallKeeps, Frame

\* The calls that change what the channel listens to, and Destroy.
LEMMA ChannelCallsKeep ==
    ASSUME IInv, NEW l \in Loops, NEW c \in Conns,
           EnableReading(l, c) \/ Write(l, c) \/ WriteAll(l, c) \/ Destroy(l, c)
    PROVE  IInv'
<1>1. UNCHANGED <<active, batch, queue, pushes, threads, next_, connections_, state_, loop_>>
  BY DEF EnableReading, Write, WriteAll, Destroy, loopVars, queueVars, serverVars, connVars
<1>2. Stable
  BY <1>1, Unmoved DEF IInv
<1>3. stack[l] # <<>> /\ state_[c] # "none" /\ loop_[c] = l
  BY CallIsProper DEF EnableReading, Write, WriteAll, Destroy, ServerOps
<1>5. <<>> \in Seq(Proper(l)')
  OBVIOUS
<1>6. CASE EnableReading(l, c) \/ Write(l, c) \/ WriteAll(l, c)
  <2>1. \E events : Update(c, events)
    BY <1>6 DEF EnableReading, Write, WriteAll
  <2>2. PollerInv'
    BY <1>2, <1>3, <2>1, UpdateKeeps
  <2>3. \E calls \in Seq(Proper(l)') : Continue(l, calls)
    <3>1. CASE EnableReading(l, c) \/ Write(l, c)
      BY <1>5, <3>1 DEF EnableReading, Write
    <3>2. CASE WriteAll(l, c)
      <4>1. React(l, c, "writer")
        BY <3>2 DEF WriteAll
      <4> QED
        BY <1>2, <1>3, <4>1, ReactIsProper
    <3> QED
      BY <1>6, <3>1, <3>2
  <2> QED
    BY <1>1, <1>2, <1>3, <1>5, <2>2, <2>3, LocalCallKeeps, Frame
<1>7. CASE Destroy(l, c)
  <2>1. CASE UNCHANGED <<stack, poller>>
    BY <1>1, <1>2, <2>1, Frame DEF IInv, Stable
  <2>2. CASE Continue(l, <<>>) /\ poller' = [poller EXCEPT ![l][fd_[c]] = NoConn]
    <3>1. /\ poller' \in [Loops -> [Fds -> Conns \cup {NoConn}]]
          /\ \A m \in Loops, f \in Fds : poller'[m][f] \in {poller[m][f], NoConn}
      BY <2>2 DEF IInv, PollerInv
    <3>2. PollerInv'
      BY <1>2, <3>1, ProperStays DEF IInv, PollerInv
    <3> QED
      BY <1>1, <1>2, <1>3, <1>5, <2>2, <3>2, LocalCallKeeps, Frame
  <2> QED
    BY <1>7, <2>1, <2>2 DEF Destroy
<1> QED
  BY <1>6, <1>7

\* The two ways in which a connection ends.
LEMMA ClosesKeep ==
    ASSUME IInv, NEW l \in Loops, NEW c \in Conns, ActiveClose(l, c) \/ ReadEnd(l, c)
    PROVE  IInv'
<1>1. UNCHANGED <<active, batch, threads, next_, connections_, loop_>>
  BY DEF ActiveClose, ReadEnd, loopVars, serverVars
<1>2. stack[l] # <<>> /\ state_[c] # "none" /\ loop_[c] = l
  BY CallIsProper DEF ActiveClose, ReadEnd, ServerOps
<1>3. CASE UNCHANGED <<queueVars, state_, channelVars>> /\ (UNCHANGED stack \/ Continue(l, <<>>))
  <2>1. Stable
    BY <1>1, <1>3, Unmoved DEF IInv
  <2>2. UNCHANGED <<queue, pushes, poller>>
    BY <1>3 DEF queueVars, channelVars
  <2>3. CASE UNCHANGED stack
    BY <1>1, <2>1, <2>2, <2>3, Frame DEF IInv, Stable
  <2>4. CASE Continue(l, <<>>)
    <3>1. <<>> \in Seq(Proper(l)')
      OBVIOUS
    <3> QED
      BY <1>1, <1>2, <2>1, <2>2, <2>4, <3>1, LocalCallKeeps, Frame
  <2> QED
    BY <1>3, <2>3, <2>4
<1>4. ASSUME NEW events, Update(c, events), OnConnectionClosed(l, c),
             state_' = [state_ EXCEPT ![c] = "disconnected"]
      PROVE  IInv'
  <2>1. Stable
    BY <1>1, <1>2, <1>4, EndIsStable
  <2> QED
    BY <1>1, <1>2, <1>4, <2>1, ClosingKeeps
<1> QED
  BY <1>3, <1>4 DEF ActiveClose, ReadEnd, PassiveClose

-----------------------------------------------------------------------------
(* The invariant holds, and implies the property *)

LEMMA InitIInv == Init => IInv
<1> SUFFICES ASSUME Init PROVE IInv
  OBVIOUS
<1>1. ConnInv /\ MapInv
  BY DEF Init, ConnInv, MapInv, States, Loops
<1>2. ThreadsInv
  BY LoopsAssumption DEF Init, ThreadsInv
<1>3. StackInv /\ QueueInv /\ BatchInv
  BY DEF Init, StackInv, QueueInv, BatchInv
<1>4. ActiveInv /\ PollerInv /\ PushInv
  BY DEF Init, ActiveInv, PollerInv, PushInv
<1> QED
  BY <1>1, <1>2, <1>3, <1>4 DEF IInv

LEMMA NextIInv == IInv /\ [Next]_vars => IInv'
<1> SUFFICES ASSUME IInv, [Next]_vars PROVE IInv'
  OBVIOUS
<1>1. CASE Accept
  BY <1>1, AcceptKeeps
<1>2. CASE AcceptLost \/ AcceptFails \/ \E c \in Conns : PeerStep(c)
  BY <1>2, PeerKeeps
<1>3. ASSUME NEW l \in Loops, PollReturns(l) PROVE IInv'
  BY <1>3, PollKeeps DEF PollReturns
<1>4. ASSUME NEW l \in Loops, NEW c \in Conns, TimerFires(l, c) PROVE IInv'
  BY <1>4, TimerKeeps
<1>5. ASSUME NEW l \in Loops, NEW c \in Conns, CallStep(l, c) PROVE IInv'
  BY <1>5, ServerCallsKeep, UserCallsKeep, ChannelCallsKeep, ClosesKeep DEF CallStep
<1>6. ASSUME NEW l \in Loops, LoopStep(l) PROVE IInv'
  BY <1>5, <1>6, HandleEventsKeeps, FunctorsKeep DEF LoopStep
<1>7. CASE UNCHANGED vars
  <2>1. UNCHANGED <<active, batch, queue, pushes, stack, threads, next_, connections_,
                    state_, loop_, poller>>
    BY <1>7 DEF vars, loopVars, queueVars, serverVars, connVars, channelVars
  <2> QED
    BY <2>1, Unmoved, Frame DEF IInv, Stable
<1> QED
  BY <1>1, <1>2, <1>3, <1>4, <1>6, <1>7 DEF Next

\* QueueInLoop takes the queue's lock only when called from another thread, so
\* a loop that got functors both from its own thread and from another would
\* have two threads in functors_ at once.  With a pool the IO loops get theirs
\* from the base loop and the base loop from them; without one the base loop is
\* alone.
THEOREM ThreadsDoNotShareQueues == Spec => []PushesDoNotMix
<1>1. IInv => PushesDoNotMix
  <2> SUFFICES ASSUME IInv, NEW l \in Loops, l \in pushes[l]
               PROVE  pushes[l] = {l}
    BY DEF PushesDoNotMix
  <2>1. pushes[l] \subseteq PushersOf(l)
    BY DEF IInv, PushInv
  <2>2. l = Base
    BY <2>1 DEF PushersOf
  <2>3. Home = {Base}
    BY <2>1, <2>2, HomeIs DEF PushersOf, IInv
  <2> QED
    BY <2>1, <2>2, <2>3 DEF PushersOf
<1> QED
  BY <1>1, InitIInv, NextIInv, PTL DEF Spec

-----------------------------------------------------------------------------
(* The life of a connection: what is still to be called for it *)

\* What loop l is in the middle of and what it has yet to run, in order.
Work(l) == stack[l] \o batch[l] \o queue[l]

At(l, i, op, c) == i \in 1 .. Len(Work(l)) /\ Work(l)[i].op = op /\ Work(l)[i].c = c
Has(l, op, c) == \E i \in 1 .. Len(Work(l)) : At(l, i, op, c)

\* The channel is in the poller of its loop.
InPoller(c) == poller[loop_[c]][fd_[c]] = c

FunctorOps == {"nccb", "cccb", "destroy", "enableReading", "handleClose"}
TakenOps == {"notifyClosed", "queueDestroy", "closeReturns", "cccb", "destroy"}
Phases == {"poll", "handlers", "functors", "timers"}

\* What is where in each phase.
PhaseInv ==
    /\ phase \in [Loops -> Phases] /\ held \in [Loops -> SUBSET Conns]
    /\ \A l \in Loops :
        /\ phase[l] = "poll" => stack[l] = <<>>
        /\ phase[l] # "handlers" => active[l] = {}
        /\ phase[l] # "functors" => batch[l] = <<>>
        /\ \A i \in 1 .. Len(stack[l]) : stack[l][i].op = "destroy" => phase[l] = "functors"
        /\ \A i \in 1 .. Len(queue[l]) : queue[l][i].op \in FunctorOps
        /\ \A i \in 1 .. Len(batch[l]) :
              /\ batch[l][i].op \in FunctorOps
              /\ batch[l][i].op \in SharedOps => batch[l][i].c \in held[l]

\* A descriptor belongs to one connection at a time, and the poller has only
\* channels of connections that exist, whose callback has run.
FdInv ==
    /\ fd_ \in [Conns -> Nat]
    /\ \A c \in Alive : fd_[c] \in Fds
    /\ \A c, d \in Alive : fd_[c] = fd_[d] => c = d
ChannelInv ==
    /\ \A l \in Loops, f \in Fds, c \in Conns :
          poller[l][f] = c => c \in Alive /\ c \in nccbRun /\ fd_[c] = f
    /\ \A l \in Loops : \A a \in active[l] : \A c \in Conns :
          a.c = c => c \in Alive /\ InPoller(c)

\* Calls are for connections that exist; connected ones are in the map.
LiveInv ==
    /\ \A l \in Loops : \A i \in 1 .. Len(Work(l)) : Work(l)[i].c \in Alive
    /\ \A c \in Conns : state_[c] = "connected" => c \in connections_
    /\ connections_ \subseteq Alive

\* The new-connection callback comes first on its loop.
NccbInv ==
    \A l \in Loops, c \in Conns : l = loop_[c] /\ c \notin nccbRun =>
        /\ c \in Alive => Has(l, "nccb", c)
        /\ \A i \in 1 .. Len(Work(l)) :
              Work(l)[i].c = c /\ Work(l)[i].op # "nccb"
                  => \E j \in 1 .. i - 1 : At(l, j, "nccb", c)

\* ActiveClose is called on a connection that is not closed, and nothing but
\* Write comes between the decision and the call.
ActiveCloseInv ==
    \A l \in Loops, c \in Conns : \A i \in 1 .. Len(Work(l)) :
        At(l, i, "activeClose", c) =>
            /\ state_[c] = "connected"
            /\ \A j \in 1 .. i - 1 : Work(l)[j].op = "write"

\* One HandleConnectionClose is on its way at most, and then the connection is
\* closed and in the map.
HandleCloseInv ==
    \A c \in Conns : \A i \in 1 .. Len(Work(Base)) :
        At(Base, i, "handleClose", c) =>
            /\ c \in connections_ /\ state_[c] = "disconnected"
            /\ \A j \in 1 .. Len(Work(Base)) : At(Base, j, "handleClose", c) => i = j

\* While a connection is in the map nothing of its end has begun, and it is in
\* the poller as soon as it is closed.
ServedInv ==
    \A c \in connections_ :
        /\ \A l \in Loops : \A i \in 1 .. Len(Work(l)) :
              Work(l)[i].c = c => Work(l)[i].op \notin TakenOps
        /\ state_[c] = "disconnected" => InPoller(c)

\* When it is no more, its close callback and its Destroy have run or are due.
TakenInv ==
    \A c \in Conns, l \in Loops : c \in Alive /\ c \notin connections_ /\ l = loop_[c] =>
        /\ c \in cccbRun \/ Has(Base, "notifyClosed", c) \/ Has(l, "cccb", c)
        /\ ~InPoller(c) \/ Has(Base, "queueDestroy", c) \/ Has(l, "destroy", c)
NotifyInv ==
    \A c \in Conns : \A i \in 1 .. Len(Work(Base)) :
        At(Base, i, "notifyClosed", c)
            => \E j \in i + 1 .. Len(Work(Base)) : At(Base, j, "queueDestroy", c)
QueueDestroyInv ==
    \A c \in Conns, l \in Loops : l = loop_[c] => \A i \in 1 .. Len(Work(Base)) :
        At(Base, i, "queueDestroy", c) =>
            /\ InPoller(c) /\ ~Has(l, "destroy", c)
            /\ \A j \in 1 .. Len(Work(Base)) : At(Base, j, "queueDestroy", c) => i = j

\* Destroy comes last of all that is called for a connection on its loop, and
\* nothing is called for it there afterwards.
DestroyInv ==
    \A c \in Conns, l \in Loops : \A i \in 1 .. Len(Work(l)) :
        At(l, i, "destroy", c) =>
            /\ InPoller(c)
            /\ \A j \in 1 .. Len(Work(l)) : Work(l)[j].c = c => j <= i
GoneInv ==
    \A c \in Conns, l \in Loops : state_[c] = "disconnected" /\ ~InPoller(c) =>
        \A i \in 1 .. Len(Work(l)) : Work(l)[i].c = c => Work(l)[i].op = "closeReturns"

\* With a pool, the base loop starts the reading before it learns of the end.
StartInv ==
    \A c \in Conns : loop_[c] # Base => \A i \in 1 .. Len(Work(Base)) :
        At(Base, i, "startReading", c) =>
            /\ c \in connections_
            /\ \A j \in 1 .. Len(Work(Base)) : At(Base, j, "handleClose", c) => i < j

LInv ==
    /\ PhaseInv /\ FdInv /\ ChannelInv /\ LiveInv /\ NccbInv /\ ActiveCloseInv
    /\ HandleCloseInv /\ ServedInv /\ TakenInv /\ NotifyInv /\ QueueDestroyInv
    /\ DestroyInv /\ GoneInv /\ StartInv

-----------------------------------------------------------------------------
(* What a step does to the calls *)

\* Loop l drops its first n calls for those of front; loop m gets those of rest.
Moves(l, n, front, m, rest) ==
    \A k \in Loops :
        LET shift == IF k = l THEN Len(front) - n ELSE 0
            kept == Len(Work(k)) + shift
        IN  /\ Len(Work(k)') = IF k = m THEN kept + Len(rest) ELSE kept
            /\ \A i \in 1 .. Len(Work(k)') :
                  Work(k)'[i] = IF k = l /\ i <= Len(front) THEN front[i]
                                ELSE IF i <= kept THEN Work(k)[i - shift]
                                ELSE rest[i - kept]

\* The call that ends is op of connection c.
Ends(l, n, op, c) == n = 1 /\ At(l, 1, op, c)

\* How the connections may change with it ...
ConnLaw(l, n, front, m, rest) ==
    /\ Stable /\ nccbRun \subseteq nccbRun' /\ cccbRun \subseteq cccbRun'
    /\ \A k \in Loops : \A i \in 1 .. Len(Work(k)') : Work(k)'[i].c \in Alive'
    /\ \A c \in Conns :
        /\ state_[c] # "none" => fd_'[c] = fd_[c]
        /\ \/ state_'[c] = state_[c]
           \/ /\ state_[c] = "none" /\ state_'[c] = "connected" /\ c \in connections_'
              /\ \A k \in Loops : k = loop_'[c] => Has(k, "nccb", c)'
           \/ /\ state_[c] = "connected" /\ state_'[c] = "disconnected"
              /\ loop_[c] = l /\ InPoller(c)'
              /\ Ends(l, n, "activeClose", c) \/ Ends(l, n, "readFromPeer", c)
           \/ state_[c] = "disconnected" /\ state_'[c] = "freed" /\ c \notin connections_
        /\ c \in connections_' /\ c \notin connections_ => state_[c] = "none"
        /\ c \in connections_ /\ c \notin connections_' =>
              /\ l = Base /\ Ends(l, n, "handleClose", c)
              /\ front = TakeDown(c) /\ rest = <<>>
        /\ c \in Alive /\ InPoller(c)' /\ ~InPoller(c) =>
              n = 1 /\ Work(l)[1].c = c /\ Work(l)[1].op # "closeReturns"
        /\ c \in Alive /\ ~InPoller(c)' /\ InPoller(c) =>
              l = loop_[c] /\ Ends(l, n, "destroy", c)

\* ... what the end of a call leaves behind ...
EndLaw(l, n, front, m, rest) ==
    \A c \in Conns :
        /\ Ends(l, n, "nccb", c) => c \in nccbRun'
        /\ Ends(l, n, "cccb", c) => c \in cccbRun'
        /\ Ends(l, n, "destroy", c) => ~InPoller(c)'
        /\ Ends(l, n, "notifyClosed", c) => \A k \in Loops : k = loop_[c] => Has(k, "cccb", c)'
        /\ Ends(l, n, "queueDestroy", c) => \A k \in Loops : k = loop_[c] => Has(k, "destroy", c)'

\* ... and which calls may be new.
NewLaw(l, n, front, m, rest, op, c) ==
    /\ state_'[c] # "disconnected" \/ InPoller(c)'
    /\ c \in connections_' => op \notin TakenOps
    /\ op = "handleClose" =>
          /\ state_[c] = "connected" /\ state_'[c] = "disconnected" /\ c \in connections_'
          /\ Len(front) + Len(rest) = 1
FrontLaw(l, n, front, m, rest) ==
    /\ front = <<>> \/ (n = 1 /\ Work(l)[1].op # "write") \/ stack[l] = <<>>
    /\ \A i \in 1 .. Len(front), c \in Conns : front[i].c = c =>
        /\ NewLaw(l, n, front, m, rest, front[i].op, c)
        /\ front[i].op # "destroy"
        /\ l = loop_'[c] /\ front[i].op # "nccb" /\ c \notin nccbRun' =>
              \E j \in 1 .. i - 1 : front[j].op = "nccb" /\ front[j].c = c
        /\ front[i].op = "activeClose" =>
              state_'[c] = "connected" /\ \A j \in 1 .. i - 1 : front[j].op = "write"
        /\ front[i].op = "handleClose" => loop_[c] = Base
        /\ front[i].op \in {"notifyClosed", "queueDestroy"} =>
              front = TakeDown(c) /\ l = Base /\ Ends(l, n, "handleClose", c)
        /\ front[i].op = "startReading" => state_[c] = "none" /\ c \in connections_'
RestLaw(l, n, front, m, rest) ==
    \A i \in 1 .. Len(rest), c \in Conns : rest[i].c = c =>
        /\ NewLaw(l, n, front, m, rest, rest[i].op, c)
        /\ rest[i].op \in FunctorOps /\ ~Has(m, "destroy", c)
        /\ rest[i].op = "nccb" \/ c \in Alive
        /\ rest[i].op = "destroy" => l = Base /\ Ends(l, n, "queueDestroy", c)

Lawful(l, n, front, m, rest) ==
    /\ Moves(l, n, front, m, rest)
    /\ ConnLaw(l, n, front, m, rest) /\ EndLaw(l, n, front, m, rest)
    /\ FrontLaw(l, n, front, m, rest) /\ RestLaw(l, n, front, m, rest)

\* The types of what a step moves.
Moved(l, n, front, m, rest) ==
    /\ l \in Loops /\ m \in Loops /\ n \in 0 .. 1
    /\ front \in Seq(AllCalls) /\ rest \in Seq(AllCalls) /\ Len(rest) <= 1
    /\ n <= Len(Work(l))

\* What a loop has to run are calls that belong on it.
LEMMA WorkTypes ==
    ASSUME IInv, NEW l \in Loops
    PROVE  /\ Work(l) \in Seq(AllCalls) /\ Len(Work(l)) \in Nat
           /\ \A i \in 1 .. Len(Work(l)) : Work(l)[i] \in Proper(l) /\ Work(l)[i] \in AllCalls
  BY DEF IInv, StackInv, QueueInv, BatchInv, Work

\* Where the calls of a loop are after a step.
LEMMA Places ==
    ASSUME IInv, NEW l, NEW n, NEW front, NEW m, NEW rest, Moved(l, n, front, m, rest),
           Moves(l, n, front, m, rest), NEW k \in Loops
    PROVE  LET kept == Len(Work(k)) + (IF k = l THEN Len(front) - n ELSE 0)
           IN  /\ Len(Work(k)) \in Nat /\ Len(Work(k)') \in Nat /\ Len(front) \in Nat
               /\ n \in 0 .. 1 /\ (k = l => n <= Len(Work(k)))
               /\ Len(rest) \in Nat /\ Len(rest) <= 1 /\ (Len(rest) # 0 => rest # <<>>)
               /\ Len(Work(k)') = IF k = m THEN kept + Len(rest) ELSE kept
               /\ \A i \in 1 .. Len(Work(k)') :
                     /\ i <= kept /\ ~(k = l /\ i <= Len(front)) =>
                           Work(k)'[i] = Work(k)[i - IF k = l THEN Len(front) - n ELSE 0]
                     /\ k = l /\ i <= Len(front) => Work(k)'[i] = front[i]
                     /\ i > kept => Work(k)'[i] = rest[i - kept]
<1>1. /\ Len(Work(k)) \in Nat /\ Len(front) \in Nat /\ n \in 0 .. 1
      /\ Len(rest) \in Nat /\ Len(rest) <= 1 /\ (Len(rest) # 0 => rest # <<>>)
      /\ k = l => n <= Len(Work(k))
  BY WorkTypes DEF Moved
<1> DEFINE shift == IF k = l THEN Len(front) - n ELSE 0
           kept == Len(Work(k)) + shift
<1>2. /\ Len(Work(k)') = IF k = m THEN kept + Len(rest) ELSE kept
      /\ \A i \in 1 .. Len(Work(k)') :
            Work(k)'[i] = IF k = l /\ i <= Len(front) THEN front[i]
                          ELSE IF i <= kept THEN Work(k)[i - shift]
                          ELSE rest[i - kept]
  BY DEF Moves
<1>3. shift \in Int /\ kept \in Nat /\ (k = l => kept >= Len(front))
  BY <1>1
<1>4. Len(Work(k)') \in Nat
  BY <1>1, <1>2, <1>3
<1>5. ASSUME NEW i \in 1 .. Len(Work(k)')
      PROVE  /\ i <= kept /\ ~(k = l /\ i <= Len(front)) => Work(k)'[i] = Work(k)[i - shift]
             /\ k = l /\ i <= Len(front) => Work(k)'[i] = front[i]
             /\ i > kept => Work(k)'[i] = rest[i - kept]
  <2> HIDE DEF kept, shift
  <2>1. Work(k)'[i] = IF k = l /\ i <= Len(front) THEN front[i]
                     ELSE IF i <= kept THEN Work(k)[i - shift] ELSE rest[i - kept]
    BY <1>2, <1>5
  <2>2. i > kept => ~(k = l /\ i <= Len(front))
    BY <1>1, <1>3, <1>4
  <2>3. i > kept => ~(i <= kept)
    BY <1>3, <1>4
  <2> QED
    BY <2>1, <2>2, <2>3
<1> QED
  BY <1>1, <1>2, <1>4, <1>5

\* A call that does not end is still there, and comes no sooner before another.
LEMMA CallsStay ==
    ASSUME IInv, NEW l, NEW n, NEW front, NEW m, NEW rest, Moved(l, n, front, m, rest),
           Moves(l, n, front, m, rest), NEW k \in Loops, NEW i \in 1 .. Len(Work(k)),
           k = l => i > n
    PROVE  LET j == IF k = l THEN i + Len(front) - n ELSE i
           IN  j \in 1 .. Len(Work(k)') /\ Work(k)'[j] = Work(k)[i]
<1>1. CASE k = l
  <2>1. i + Len(front) - n \in 1 .. Len(Work(k)')
    BY <1>1, Places
  <2> DEFINE j == i + Len(front) - n
  <2>2. j <= Len(Work(k)) + (Len(front) - n) /\ ~(j <= Len(front)) /\ j - (Len(front) - n) = i
    BY <1>1, Places
  <2> HIDE DEF j
  <2>3. Work(k)'[j] = Work(k)[i]
    BY <1>1, <2>1, <2>2, Places DEF j
  <2> QED
    BY <1>1, <2>1, <2>3 DEF j
<1>2. CASE k # l
  <2>1. i \in 1 .. Len(Work(k)')
    BY <1>2, Places
  <2> QED
    BY <1>2, <2>1, Places
<1> QED
  BY <1>1, <1>2

\* A call that is due stays due unless it is the one that ends.
LEMMA HasStays ==
    ASSUME IInv, NEW l, NEW n, NEW front, NEW m, NEW rest, Moved(l, n, front, m, rest),
           Moves(l, n, front, m, rest), NEW k \in Loops, NEW op, NEW c, Has(k, op, c)
    PROVE  Has(k, op, c)' \/ (k = l /\ Ends(l, n, op, c))
<1>1. PICK i \in 1 .. Len(Work(k)) : At(k, i, op, c)
  BY DEF Has
<1>2. CASE k = l => i > n
  BY <1>1, <1>2, CallsStay DEF Has, At
<1>3. CASE k = l /\ i <= n
  BY <1>1, <1>3 DEF Ends, At, Moved
<1>4. Len(Work(k)) \in Nat /\ n \in 0 .. 1
  BY WorkTypes DEF Moved
<1> QED
  BY <1>2, <1>3, <1>4

\* Where a call comes from.
LEMMA Origin ==
    ASSUME IInv, NEW l, NEW n, NEW front, NEW m, NEW rest, Moved(l, n, front, m, rest),
           Moves(l, n, front, m, rest), NEW k \in Loops, NEW i \in 1 .. Len(Work(k)')
    PROVE  \/ k = l /\ i \in 1 .. Len(front) /\ Work(k)'[i] = front[i]
           \/ /\ k = m /\ i = Len(Work(k)') /\ rest # <<>>
              /\ 1 \in 1 .. Len(rest) /\ Work(k)'[i] = rest[1]
              /\ i > Len(Work(k)) + (IF k = l THEN Len(front) - n ELSE 0)
           \/ LET j == IF k = l THEN i - Len(front) + n ELSE i
              IN  /\ j \in 1 .. Len(Work(k)) /\ Work(k)'[i] = Work(k)[j]
                  /\ k = l => j > n
<1>1. CASE k = l
  <2>1. CASE i <= Len(front)
    BY <1>1, <2>1, Places
  <2>2. CASE i > Len(front) /\ i <= Len(Work(k)) + Len(front) - n
    BY <1>1, <2>2, Places
  <2>3. CASE i > Len(front) /\ i > Len(Work(k)) + Len(front) - n
    <3> DEFINE kept == Len(Work(k)) + (Len(front) - n)
    <3>n. /\ Len(Work(k)) \in Nat /\ Len(front) \in Nat /\ n \in 0 .. 1 /\ n <= Len(Work(k))
          /\ Len(rest) \in Nat /\ Len(rest) <= 1 /\ Len(Work(k)') \in Nat
      BY <1>1, Places
    <3>k. Len(Work(k)') = IF k = m THEN kept + Len(rest) ELSE kept
      BY <1>1, Places
    <3>i. kept \in Nat /\ i > kept /\ i \in Nat /\ i <= Len(Work(k)')
      BY <2>3, <3>n
    <3> HIDE DEF kept
    <3>0. /\ kept \in Nat /\ i > kept /\ i \in Nat /\ i <= Len(Work(k)')
          /\ Len(Work(k)') = IF k = m THEN kept + Len(rest) ELSE kept
          /\ Len(rest) \in Nat /\ Len(rest) <= 1 /\ Len(Work(k)') \in Nat
      BY <3>n, <3>k, <3>i
    <3>a. ASSUME k = m PROVE i = Len(Work(k)') /\ Len(rest) = 1 /\ i - kept = 1
      <4>1. \A r \in Nat, len \in Nat : r <= 1 /\ len = kept + r /\ i <= len
                                          => i = len /\ r = 1 /\ i - kept = 1
        BY <3>0
      <4>2. Len(Work(k)') = kept + Len(rest)
        BY <3>0, <3>a
      <4> QED
        BY <3>0, <4>1, <4>2
    <3>b. ASSUME k # m PROVE FALSE
      BY <3>0, <3>b
    <3>1. k = m /\ i = Len(Work(k)') /\ Len(rest) = 1 /\ i - kept = 1
      BY <3>a, <3>b
    <3> USE DEF kept
    <3>2. Work(k)'[i] = rest[1]
      BY <1>1, <2>3, <3>1, Places
    <3> QED
      BY <1>1, <2>3, <3>1, <3>2, Places
  <2> QED
    BY <1>1, <2>1, <2>2, <2>3, Places
<1>2. CASE k # l
  <2>1. CASE i <= Len(Work(k))
    BY <1>2, <2>1, Places
  <2>2. CASE i > Len(Work(k))
    BY <1>2, <2>2, Places
  <2> QED
    BY <1>2, <2>1, <2>2, Places
<1> QED
  BY <1>1, <1>2

\* The calls that were begun come first.
LEMMA FrontPlaces ==
    ASSUME IInv, NEW l, NEW n, NEW front, NEW m, NEW rest, Moved(l, n, front, m, rest),
           Moves(l, n, front, m, rest), NEW i \in 1 .. Len(front)
    PROVE  i \in 1 .. Len(Work(l)') /\ Work(l)'[i] = front[i]
<1>0. l \in Loops /\ Len(front) \in Nat /\ n \in 0 .. 1
  BY DEF Moved
<1>1. Len(Work(l)') \in Nat /\ Len(Work(l)') >= Len(front)
  BY <1>0, Places
<1>2. i \in 1 .. Len(Work(l)')
  BY <1>0, <1>1
<1> QED
  BY <1>0, <1>2, Places

Step(l, n, front, m, rest) ==
    Moved(l, n, front, m, rest) /\ Lawful(l, n, front, m, rest)

\* What is known of a call that is in progress or waits.
LEMMA Known ==
    ASSUME IInv, LiveInv, Stable, NEW k \in Loops, NEW i \in 1 .. Len(Work(k))
    PROVE  /\ Work(k)[i].c \in Conns /\ Work(k)[i].c \in Alive
           /\ state_[Work(k)[i].c] # "none"
           /\ loop_'[Work(k)[i].c] = loop_[Work(k)[i].c]
           /\ Work(k)[i].op \in ServerOps \cup ConnOps
           /\ k = IF Work(k)[i].op \in ServerOps THEN Base ELSE loop_[Work(k)[i].c]
<1>1. Work(k)[i] \in Proper(k) /\ Work(k)[i].c \in Alive
  BY WorkTypes DEF LiveInv
<1> QED
  BY <1>1 DEF Proper, AllCalls, Stable

\* A connection that exists after a step existed before, or is new.
LEMMA Survives ==
    ASSUME IInv, LiveInv, NEW l, NEW n, NEW front, NEW m, NEW rest,
           Step(l, n, front, m, rest), NEW c \in Alive'
    PROVE  /\ c \in Conns
           /\ \/ c \in Alive /\ state_[c] # "none" /\ loop_'[c] = loop_[c]
              \/ state_[c] = "none" /\ state_'[c] = "connected" /\ c \in connections_'
<1>1. c \in Conns
  BY DEF Alive
<1>2. /\ state_'[c] \in {"connected", "disconnected"}
      /\ \/ state_'[c] = state_[c]
         \/ state_[c] = "none" /\ state_'[c] = "connected" /\ c \in connections_'
         \/ state_[c] = "connected" /\ state_'[c] = "disconnected"
         \/ state_[c] = "disconnected" /\ state_'[c] = "freed"
  BY <1>1 DEF Alive, Step, Lawful, ConnLaw
<1>3. state_[c] # "none" => loop_'[c] = loop_[c]
  BY <1>1 DEF Step, Lawful, ConnLaw, Stable
<1> QED
  BY <1>1, <1>2, <1>3 DEF Alive

\* Each part of the invariant is kept by every lawful step.  Calls stay with
\* connections that exist.
LEMMA LiveStays ==
    ASSUME IInv, IInv', LInv, NEW l, NEW n, NEW front, NEW m, NEW rest,
           Step(l, n, front, m, rest)
    PROVE  LiveInv'
<1>1. \A k \in Loops : \A i \in 1 .. Len(Work(k)') : Work(k)'[i].c \in Alive'
  BY DEF Step, Lawful, ConnLaw
<1>2. ASSUME NEW c \in Conns, state_'[c] = "connected" PROVE c \in connections_'
  <2>1. \/ state_[c] = "connected"
        \/ c \in connections_'
    BY <1>2 DEF Step, Lawful, ConnLaw
  <2>2. CASE state_[c] = "connected" /\ c \notin connections_'
    <3>1. l = Base /\ Ends(l, n, "handleClose", c)
      BY <2>2 DEF Step, Lawful, ConnLaw, LInv, LiveInv
    <3> QED
      BY <2>2, <3>1 DEF Ends, LInv, HandleCloseInv, At
  <2> QED
    BY <2>1, <2>2
<1>3. ASSUME NEW c \in connections_' PROVE c \in Alive'
  <2>1. c \in Conns /\ state_'[c] # "none" /\ state_'[c] \in States
    BY <1>3 DEF IInv, MapInv, ConnInv
  <2>2. c \in connections_ => c \in Alive
    BY DEF LInv, LiveInv
  <2>3. state_'[c] # "freed"
    BY <1>3, <2>1, <2>2 DEF Step, Lawful, ConnLaw, Alive
  <2> QED
    BY <2>1, <2>3 DEF Alive, States
<1> QED
  BY <1>1, <1>2, <1>3 DEF LiveInv

\* The new-connection callback stays first.
LEMMA NccbStays ==
    ASSUME IInv, IInv', LInv, NEW l, NEW n, NEW front, NEW m, NEW rest,
           Step(l, n, front, m, rest)
    PROVE  NccbInv'
<1> USE DEF Step, Lawful
<1> SUFFICES ASSUME NEW k \in Loops, NEW c \in Conns, k = loop_'[c], c \notin nccbRun'
             PROVE  /\ c \in Alive' => Has(k, "nccb", c)'
                    /\ \A i \in 1 .. Len(Work(k)') :
                          Work(k)'[i].c = c /\ Work(k)'[i].op # "nccb"
                             => \E j \in 1 .. i - 1 : At(k, j, "nccb", c)'
  BY Zenon DEF NccbInv
<1>1. c \notin nccbRun /\ ~Ends(l, n, "nccb", c) /\ Stable
  BY DEF ConnLaw, EndLaw
<1>2. ASSUME c \in Alive, loop_[c] = k PROVE Has(k, "nccb", c)'
  <2>1. Has(k, "nccb", c)
    BY <1>1, <1>2 DEF LInv, NccbInv
  <2> QED
    BY <1>1, <2>1, HasStays
<1>3. ASSUME c \in Alive' PROVE Has(k, "nccb", c)'
  <2>1. CASE c \in Alive /\ loop_'[c] = loop_[c]
    BY <1>2, <2>1
  <2>2. CASE state_[c] = "none" /\ state_'[c] = "connected"
    BY <2>2 DEF ConnLaw
  <2> QED
    BY <1>3, <2>1, <2>2, Survives DEF LInv
<1>4. ASSUME NEW i \in 1 .. Len(Work(k)'), Work(k)'[i].c = c, Work(k)'[i].op # "nccb"
      PROVE  \E j \in 1 .. i - 1 : At(k, j, "nccb", c)'
  <2>0. i \in Nat /\ Len(Work(k)') \in Nat
    BY Places
  <2>1. CASE k = l /\ i \in 1 .. Len(front) /\ Work(k)'[i] = front[i]
    <3>1. PICK j \in 1 .. i - 1 : front[j].op = "nccb" /\ front[j].c = c
      <4>1. front[i].c = c /\ front[i].op # "nccb" /\ l = loop_'[c]
        BY <1>4, <2>1
      <4>2. FrontLaw(l, n, front, m, rest)
        OBVIOUS
      <4> QED
        BY <2>1, <4>1, <4>2, ZenonT(60) DEF FrontLaw
    <3>2. j \in 1 .. Len(Work(k)') /\ j <= Len(front) /\ Len(front) \in Nat
      BY <2>0, <2>1, <3>1, Places
    <3>3. Work(k)'[j] = front[j]
      BY <2>1, <3>2, Places
    <3> QED
      BY <3>1, <3>2, <3>3 DEF At
  <2>2. CASE /\ k = m /\ i = Len(Work(k)') /\ 1 \in 1 .. Len(rest)
             /\ Work(k)'[i] = rest[1]
    <3>1. c \in Alive
      BY <1>4, <2>2 DEF RestLaw
    <3>2. loop_[c] = k
      BY <1>1, <3>1 DEF Alive, Stable
    <3>3. PICK j \in 1 .. Len(Work(k)') : At(k, j, "nccb", c)'
      BY <1>2, <3>1, <3>2 DEF Has
    <3>4. j # i
      BY <1>4, <3>3 DEF At
    <3> QED
      BY <2>0, <2>2, <3>3, <3>4
  <2>3. ASSUME NEW h \in 1 .. Len(Work(k)), Work(k)'[i] = Work(k)[h],
               h = IF k = l THEN i - Len(front) + n ELSE i, k = l => h > n
        PROVE  \E j \in 1 .. i - 1 : At(k, j, "nccb", c)'
    <3>1. loop_[c] = k
      BY <1>1, <1>4, <2>3, Known DEF LInv
    <3>2. PICK j \in 1 .. h - 1 : At(k, j, "nccb", c)
      BY <1>1, <1>4, <2>3, <3>1 DEF LInv, NccbInv
    <3>3. j \in 1 .. Len(Work(k)) /\ (k = l => j > n)
      BY <1>1, <3>2 DEF At, Ends, Moved
    <3> DEFINE jj == IF k = l THEN j + Len(front) - n ELSE j
    <3>4. jj \in 1 .. Len(Work(k)') /\ Work(k)'[jj] = Work(k)[j]
      BY <3>3, CallsStay
    <3>5. jj < i
      BY <2>0, <2>3, <3>2, <3>3, Places
    <3> QED
      BY <2>0, <3>2, <3>4, <3>5 DEF At
  <2> QED
    BY <2>1, <2>2, <2>3, Origin
<1> QED
  BY <1>3, <1>4

\* While loop l is between two calls, only functors wait for it.
LEMMA IdleWork ==
    ASSUME IInv, PhaseInv, NEW k \in Loops, stack[k] = <<>>, NEW i \in 1 .. Len(Work(k))
    PROVE  Work(k)[i].op \in FunctorOps
<1>1. queue[k] \in Seq(AllCalls) /\ batch[k] \in Seq(AllCalls) /\ stack[k] \in Seq(AllCalls)
  BY DEF IInv, QueueInv, BatchInv, StackInv
<1>2. /\ \A j \in 1 .. Len(queue[k]) : queue[k][j].op \in FunctorOps
      /\ \A j \in 1 .. Len(batch[k]) : batch[k][j].op \in FunctorOps
  BY DEF PhaseInv
<1>3. Work(k) = batch[k] \o queue[k]
  BY <1>1 DEF Work
<1>6. /\ Len(batch[k]) \in Nat /\ Len(queue[k]) \in Nat
      /\ Len(Work(k)) = Len(batch[k]) + Len(queue[k])
  BY <1>1, <1>3
<1>4. CASE i <= Len(batch[k])
  BY <1>1, <1>2, <1>3, <1>4
<1>5. CASE i > Len(batch[k])
  <2>0. i \in 1 .. Len(batch[k]) + Len(queue[k])
    BY <1>6
  <2>1. i - Len(batch[k]) \in 1 .. Len(queue[k])
    <3>1. \A a \in Nat, b \in Nat, x \in Int : x \in 1 .. a + b /\ x > a => x - a \in 1 .. b
      OBVIOUS
    <3> QED
      <4>1. i \in Int
        BY <2>0
      <4>2. i > Len(batch[k])
        BY <1>5
      <4> QED
        BY <1>6, <2>0, <3>1, <4>1, <4>2, Zenon
  <2>2. Work(k)[i] = queue[k][i - Len(batch[k])]
    BY <1>1, <1>3, <1>5, <2>0
  <2> QED
    BY <1>2, <2>1, <2>2
<1> QED
  BY <1>1, <1>4, <1>5, WorkTypes

\* An ActiveClose that is due finds its connection open.
LEMMA ActiveCloseStays ==
    ASSUME IInv, IInv', LInv, NEW l, NEW n, NEW front, NEW m, NEW rest,
           Step(l, n, front, m, rest)
    PROVE  ActiveCloseInv'
<1> USE DEF Step, Lawful
<1> SUFFICES ASSUME NEW k \in Loops, NEW c \in Conns, NEW i \in 1 .. Len(Work(k)'),
                    At(k, i, "activeClose", c)'
             PROVE  /\ state_'[c] = "connected"
                    /\ \A j \in 1 .. i - 1 : Work(k)'[j].op = "write"
  BY Zenon DEF ActiveCloseInv
<1>0. i \in Nat /\ Len(Work(k)') \in Nat /\ Stable
  BY Places DEF ConnLaw
<1>1. CASE k = l /\ i \in 1 .. Len(front) /\ Work(k)'[i] = front[i]
  <2>1. front[i].c = c /\ front[i].op = "activeClose"
    BY <1>1 DEF At
  <2>2. FrontLaw(l, n, front, m, rest)
    OBVIOUS
  <2>3. state_'[c] = "connected" /\ \A j \in 1 .. i - 1 : front[j].op = "write"
    BY <1>1, <2>1, <2>2, ZenonT(60) DEF FrontLaw
  <2>4. \A j \in 1 .. i - 1 : Work(k)'[j] = front[j]
    BY <1>0, <1>1, Places
  <2> QED
    BY <2>3, <2>4
<1>2. CASE /\ k = m /\ i = Len(Work(k)') /\ 1 \in 1 .. Len(rest)
           /\ Work(k)'[i] = rest[1]
  <2>1. rest[1].op = "activeClose" /\ rest[1].c = c
    BY <1>2 DEF At
  <2>2. rest[1].op \in FunctorOps
    BY <1>2, <2>1 DEF RestLaw
  <2> QED
    BY <2>1, <2>2 DEF FunctorOps
<1>3. ASSUME NEW h \in 1 .. Len(Work(k)), Work(k)'[i] = Work(k)[h],
             h = IF k = l THEN i - Len(front) + n ELSE i, k = l => h > n
      PROVE  /\ state_'[c] = "connected"
             /\ \A j \in 1 .. i - 1 : Work(k)'[j].op = "write"
  <2>1. Work(k)[h].op = "activeClose" /\ Work(k)[h].c = c
    BY <1>3 DEF At
  <2>2. At(k, h, "activeClose", c)
    BY <2>1 DEF At
  <2>3. state_[c] = "connected" /\ \A j \in 1 .. h - 1 : Work(k)[j].op = "write"
    BY <2>2 DEF LInv, ActiveCloseInv
  <2>4. k = loop_[c]
    BY <1>0, <2>1, Known DEF LInv, ServerOps
  <2>5. k = l /\ n = 1 => Work(l)[1].op = "write"
    BY <1>3, <2>3
  <2>6. state_'[c] = "connected"
    <3>1. loop_[c] = l => ~Ends(l, n, "activeClose", c) /\ ~Ends(l, n, "readFromPeer", c)
      BY <2>4, <2>5 DEF Ends, At
    <3> QED
      BY <2>3, <3>1 DEF ConnLaw
  <2>7. k = l => front = <<>>
    <3>1. stack[k] # <<>>
      BY <2>1, IdleWork DEF LInv, FunctorOps
    <3> QED
      BY <2>5, <3>1 DEF FrontLaw
  <2>8. ASSUME NEW j \in 1 .. i - 1 PROVE Work(k)'[j].op = "write"
    <3>1. j \in 1 .. Len(Work(k)') /\ j < i /\ j \in Nat
      BY <1>0
    <3>2. ~(k = l /\ j \in 1 .. Len(front))
      BY <2>7
    <3>3. j # Len(Work(k)')
      BY <1>0, <3>1
    <3>4. PICK g \in 1 .. Len(Work(k)) :
             Work(k)'[j] = Work(k)[g] /\ g = IF k = l THEN j - Len(front) + n ELSE j
      BY <3>1, <3>2, <3>3, Origin
    <3>5. g < h
      BY <1>0, <1>3, <3>1, <3>4, Places
    <3> QED
      BY <2>3, <3>4, <3>5
  <2> QED
    BY <2>6, <2>8
<1> QED
  BY <1>1, <1>2, <1>3, Origin

\* A handleClose that is new is alone, of a connection that was not closed.
LEMMA NewHandleClose ==
    ASSUME IInv, IInv', LInv, NEW l, NEW n, NEW front, NEW m, NEW rest,
           Step(l, n, front, m, rest), NEW k \in Loops, NEW c \in Conns,
           NEW i \in 1 .. Len(Work(k)'), At(k, i, "handleClose", c)'
    PROVE  \/ /\ state_[c] = "connected" /\ state_'[c] = "disconnected"
              /\ c \in connections_'
              /\ \/ k = l /\ Len(front) = 1 /\ rest = <<>> /\ i = 1 /\ loop_[c] = Base
                 \/ k = m /\ front = <<>> /\ i = Len(Work(k)')
           \/ \E h \in 1 .. Len(Work(k)) :
                 /\ At(k, h, "handleClose", c) /\ (k = l => h > n)
                 /\ h = IF k = l THEN i - Len(front) + n ELSE i
<1> USE DEF Step, Lawful
<1>0. Len(front) \in Nat /\ Len(rest) \in Nat /\ (Len(rest) = 0 => rest = <<>>)
      /\ (Len(front) = 0 => front = <<>>)
  BY DEF Moved
<1>1. CASE k = l /\ i \in 1 .. Len(front) /\ Work(k)'[i] = front[i]
  <2>1. front[i].c = c /\ front[i].op = "handleClose"
    BY <1>1 DEF At
  <2>2. FrontLaw(l, n, front, m, rest)
    OBVIOUS
  <2>3. NewLaw(l, n, front, m, rest, "handleClose", c) /\ loop_[c] = Base
    BY <1>1, <2>1, <2>2, ZenonT(60) DEF FrontLaw
  <2>4. Len(front) + Len(rest) = 1
    BY <2>3 DEF NewLaw
  <2>5. Len(front) = 1 /\ rest = <<>> /\ i = 1
    <3>1. \A a \in Nat, b \in Nat : a + b = 1 /\ i \in 1 .. a => a = 1 /\ b = 0 /\ i = 1
      OBVIOUS
    <3> QED
      BY <1>0, <1>1, <2>4, <3>1
  <2> QED
    BY <1>1, <2>3, <2>5 DEF NewLaw
<1>2. CASE /\ k = m /\ i = Len(Work(k)') /\ 1 \in 1 .. Len(rest)
           /\ Work(k)'[i] = rest[1]
  <2>1. rest[1].op = "handleClose" /\ rest[1].c = c
    BY <1>2 DEF At
  <2>2. NewLaw(l, n, front, m, rest, "handleClose", c)
    BY <1>2, <2>1 DEF RestLaw
  <2>3. front = <<>>
    BY <1>0, <1>2, <2>2 DEF NewLaw
  <2> QED
    BY <1>2, <2>2, <2>3 DEF NewLaw
<1>3. ASSUME NEW h \in 1 .. Len(Work(k)), Work(k)'[i] = Work(k)[h],
             h = IF k = l THEN i - Len(front) + n ELSE i, k = l => h > n
      PROVE  /\ At(k, h, "handleClose", c) /\ (k = l => h > n)
             /\ h = IF k = l THEN i - Len(front) + n ELSE i
  BY <1>3 DEF At
<1> QED
  BY <1>1, <1>2, <1>3, Origin

\* HandleConnectionClose is on its way once, before the connection leaves the map.
LEMMA HandleCloseStays ==
    ASSUME IInv, IInv', LInv, NEW l, NEW n, NEW front, NEW m, NEW rest,
           Step(l, n, front, m, rest)
    PROVE  HandleCloseInv'
<1> USE DEF Step, Lawful
<1>0. Base \in Loops /\ Len(front) \in Nat /\ n \in 0 .. 1 /\ Len(Work(Base)') \in Nat
  BY Places DEF Loops, Moved
<1> SUFFICES ASSUME NEW c \in Conns, NEW i \in 1 .. Len(Work(Base)'),
                    At(Base, i, "handleClose", c)'
             PROVE  /\ c \in connections_' /\ state_'[c] = "disconnected"
                    /\ \A j \in 1 .. Len(Work(Base)') :
                          At(Base, j, "handleClose", c)' => i = j
  BY Zenon DEF HandleCloseInv
<1>1. ASSUME NEW h \in 1 .. Len(Work(Base)), At(Base, h, "handleClose", c),
             Base = l => h > n
      PROVE  c \in connections_' /\ state_'[c] = "disconnected"
  <2>1. /\ c \in connections_ /\ state_[c] = "disconnected"
        /\ \A j \in 1 .. Len(Work(Base)) : At(Base, j, "handleClose", c) => h = j
    BY <1>1 DEF LInv, HandleCloseInv
  <2>2. Base = l => ~Ends(l, n, "handleClose", c)
    BY <1>1, <2>1 DEF Ends, At
  <2> QED
    BY <2>1, <2>2 DEF ConnLaw
<1>2. ASSUME NEW j \in 1 .. Len(Work(Base)'), At(Base, j, "handleClose", c)'
      PROVE  i = j
  <2>1. CASE state_[c] = "connected"
    <3>1. \A h \in 1 .. Len(Work(Base)) : ~At(Base, h, "handleClose", c)
      BY <2>1 DEF LInv, HandleCloseInv
    <3>2. /\ \/ Len(front) = 1 /\ rest = <<>> /\ i = 1
             \/ front = <<>> /\ i = Len(Work(Base)')
          /\ \/ Len(front) = 1 /\ rest = <<>> /\ j = 1
             \/ front = <<>> /\ j = Len(Work(Base)')
      BY <1>0, <1>2, <3>1, NewHandleClose
    <3> QED
      BY <3>2
  <2>2. CASE state_[c] # "connected"
    <3>1. PICK h \in 1 .. Len(Work(Base)) :
             /\ At(Base, h, "handleClose", c)
             /\ h = IF Base = l THEN i - Len(front) + n ELSE i
      BY <1>0, <2>2, NewHandleClose
    <3>2. PICK g \in 1 .. Len(Work(Base)) :
             /\ At(Base, g, "handleClose", c)
             /\ g = IF Base = l THEN j - Len(front) + n ELSE j
      <4>1. At(Base, j, "handleClose", c)' /\ Base \in Loops
        BY <1>0, <1>2
      <4> QED
        BY <2>2, <4>1, NewHandleClose
    <3>3. g = h
      BY <3>1, <3>2 DEF LInv, HandleCloseInv
    <3> QED
      BY <1>0, <3>1, <3>2, <3>3
  <2> QED
    BY <2>1, <2>2
<1> QED
  BY <1>0, <1>1, <1>2, NewHandleClose

\* Nothing of the end begins before the connection leaves the map.
LEMMA ServedStays ==
    ASSUME IInv, IInv', LInv, NEW l, NEW n, NEW front, NEW m, NEW rest,
           Step(l, n, front, m, rest)
    PROVE  ServedInv'
<1> USE DEF Step, Lawful
<1> SUFFICES ASSUME NEW c \in connections_'
             PROVE  /\ \A k \in Loops : \A i \in 1 .. Len(Work(k)') :
                          Work(k)'[i].c = c => Work(k)'[i].op \notin TakenOps
                    /\ state_'[c] = "disconnected" => InPoller(c)'
  BY Zenon DEF ServedInv
<1>0. c \in Conns /\ Stable
  BY DEF IInv, MapInv, ConnLaw
<1>1. c \in connections_ \/ state_[c] = "none"
  BY <1>0 DEF ConnLaw
<1>2. ASSUME NEW k \in Loops, NEW i \in 1 .. Len(Work(k)'), Work(k)'[i].c = c
      PROVE  Work(k)'[i].op \notin TakenOps
  <2>1. CASE k = l /\ i \in 1 .. Len(front) /\ Work(k)'[i] = front[i]
    <3>1. NewLaw(l, n, front, m, rest, front[i].op, c)
      BY <1>0, <1>2, <2>1 DEF FrontLaw
    <3> QED
      BY <2>1, <3>1 DEF NewLaw
  <2>2. CASE k = m /\ 1 \in 1 .. Len(rest) /\ Work(k)'[i] = rest[1]
    <3>1. NewLaw(l, n, front, m, rest, rest[1].op, c)
      BY <1>0, <1>2, <2>2 DEF RestLaw
    <3> QED
      BY <2>2, <3>1 DEF NewLaw
  <2>3. ASSUME NEW h \in 1 .. Len(Work(k)), Work(k)'[i] = Work(k)[h]
        PROVE  Work(k)'[i].op \notin TakenOps
    <3>1. Work(k)[h].c = c /\ state_[c] # "none"
      BY <1>0, <1>2, <2>3, Known DEF LInv
    <3> QED
      BY <1>1, <2>3, <3>1 DEF LInv, ServedInv
  <2> QED
    BY <2>1, <2>2, <2>3, Origin
<1>3. ASSUME state_'[c] = "disconnected" PROVE InPoller(c)'
  <2>1. CASE state_[c] = "disconnected"
    <3>1. c \in connections_ /\ InPoller(c) /\ c \in Alive
      BY <1>0, <1>1, <2>1 DEF LInv, ServedInv, Alive
    <3>2. ASSUME Ends(l, n, "destroy", c) PROVE FALSE
      <4>1. Work(l)[1].c = c /\ Work(l)[1].op = "destroy" /\ 1 \in 1 .. Len(Work(l)) /\ l \in Loops
        BY <3>2 DEF Ends, At, Moved
      <4> QED
        BY <3>1, <4>1 DEF LInv, ServedInv, TakenOps
    <3> QED
      BY <1>0, <3>1, <3>2 DEF ConnLaw
  <2>2. CASE state_[c] # "disconnected"
    BY <1>0, <1>3, <2>2 DEF ConnLaw
  <2> QED
    BY <2>1, <2>2
<1> QED
  BY <1>2, <1>3

\* What happens to a connection when it leaves the map.
LEMMA Leaves ==
    ASSUME LInv, NEW l, NEW n, NEW front, NEW m, NEW rest,
           Step(l, n, front, m, rest), NEW c \in connections_, c \in Conns, c \notin connections_'
    PROVE  /\ l = Base /\ Ends(l, n, "handleClose", c) /\ front = TakeDown(c) /\ rest = <<>>
           /\ state_[c] = "disconnected" /\ InPoller(c)
<1>1. l = Base /\ Ends(l, n, "handleClose", c) /\ front = TakeDown(c) /\ rest = <<>>
  BY DEF Step, Lawful, ConnLaw
<1>2. state_[c] = "disconnected"
  BY <1>1 DEF Ends, At, LInv, HandleCloseInv
<1> QED
  BY <1>1, <1>2 DEF LInv, ServedInv

\* Where a call that is new comes from.
LEMMA NewTakeDown ==
    ASSUME LInv, NEW l, NEW n, NEW front, NEW m, NEW rest,
           Step(l, n, front, m, rest), NEW i \in 1 .. Len(front), NEW c \in Conns,
           front[i].c = c, front[i].op \in {"notifyClosed", "queueDestroy"}
    PROVE  /\ c \in connections_ /\ c \notin connections_'
           /\ i = IF front[i].op = "notifyClosed" THEN 1 ELSE 2
<1>1. front = TakeDown(c) /\ l = Base /\ Ends(l, n, "handleClose", c)
      /\ NewLaw(l, n, front, m, rest, front[i].op, c)
  BY DEF Step, Lawful, FrontLaw
<1>2. c \in connections_
  BY <1>1 DEF Ends, At, LInv, HandleCloseInv
<1>3. c \notin connections_'
  BY <1>1 DEF NewLaw, TakenOps
<1>4. i = IF front[i].op = "notifyClosed" THEN 1 ELSE 2
  BY <1>1 DEF TakeDown, Call
<1> QED
  BY <1>2, <1>3, <1>4

\* Once it has left, the close callback and Destroy are due or done.
LEMMA TakenStays ==
    ASSUME IInv, IInv', LInv, NEW l, NEW n, NEW front, NEW m, NEW rest,
           Step(l, n, front, m, rest)
    PROVE  TakenInv'
<1> USE DEF Step, Lawful
<1> SUFFICES ASSUME NEW c \in Conns, NEW k \in Loops, c \in Alive', c \notin connections_',
                    k = loop_'[c]
             PROVE  /\ c \in cccbRun' \/ Has(Base, "notifyClosed", c)' \/ Has(k, "cccb", c)'
                    /\ ~InPoller(c)' \/ Has(Base, "queueDestroy", c)' \/ Has(k, "destroy", c)'
  BY Zenon DEF TakenInv
<1>0. Base \in Loops /\ Stable /\ cccbRun \subseteq cccbRun'
  BY DEF Loops, ConnLaw
<1>1. c \in Alive /\ loop_[c] = k /\ state_[c] # "none"
  BY Survives DEF LInv
<1>2. CASE c \notin connections_
  <2>1. /\ c \in cccbRun \/ Has(Base, "notifyClosed", c) \/ Has(k, "cccb", c)
        /\ ~InPoller(c) \/ Has(Base, "queueDestroy", c) \/ Has(k, "destroy", c)
    BY <1>1, <1>2 DEF LInv, TakenInv
  <2>2. ASSUME Has(Base, "notifyClosed", c)
        PROVE  Has(Base, "notifyClosed", c)' \/ Has(k, "cccb", c)'
    <3>1. Has(Base, "notifyClosed", c)' \/ Ends(l, n, "notifyClosed", c)
      BY <1>0, <2>2, HasStays
    <3>2. EndLaw(l, n, front, m, rest)
      OBVIOUS
    <3> QED
      BY <1>1, <3>1, <3>2, Zenon DEF EndLaw
  <2>3. ASSUME Has(k, "cccb", c)
        PROVE  c \in cccbRun' \/ Has(k, "cccb", c)'
    BY <2>3, HasStays DEF EndLaw
  <2>4. ASSUME Has(Base, "queueDestroy", c)
        PROVE  Has(Base, "queueDestroy", c)' \/ Has(k, "destroy", c)'
    <3>1. Has(Base, "queueDestroy", c)' \/ Ends(l, n, "queueDestroy", c)
      BY <1>0, <2>4, HasStays
    <3>2. EndLaw(l, n, front, m, rest)
      OBVIOUS
    <3> QED
      BY <1>1, <3>1, <3>2, Zenon DEF EndLaw
  <2>5. ASSUME Has(k, "destroy", c)
        PROVE  ~InPoller(c)' \/ Has(k, "destroy", c)'
    BY <2>5, HasStays DEF EndLaw
  <2>6. ASSUME ~InPoller(c), InPoller(c)' PROVE FALSE
    <3>1. n = 1 /\ Work(l)[1].c = c /\ Work(l)[1].op # "closeReturns"
      BY <1>1, <2>6 DEF ConnLaw
    <3>2. state_[c] = "disconnected"
      BY <1>1, <1>2 DEF Alive, LInv, LiveInv
    <3>3. 1 \in 1 .. Len(Work(l)) /\ l \in Loops
      BY <3>1, WorkTypes DEF Moved
    <3> QED
      BY <2>6, <3>1, <3>2, <3>3 DEF LInv, GoneInv
  <2> QED
    BY <1>0, <2>1, <2>2, <2>3, <2>4, <2>5, <2>6
<1>3. CASE c \in connections_
  <2>1. l = Base /\ n = 1 /\ front = TakeDown(c) /\ rest = <<>>
    BY <1>3, Leaves DEF Ends
  <2>2. front[1] = Call("notifyClosed", c) /\ front[2] = Call("queueDestroy", c)
        /\ Len(front) = 3
    BY <2>1 DEF TakeDown
  <2>3. 1 \in 1 .. Len(front) /\ 2 \in 1 .. Len(front)
    BY <2>2
  <2>4. /\ 1 \in 1 .. Len(Work(Base)') /\ Work(Base)'[1] = front[1]
        /\ 2 \in 1 .. Len(Work(Base)') /\ Work(Base)'[2] = front[2]
    BY <2>1, <2>3, FrontPlaces
  <2> QED
    BY <2>2, <2>4 DEF Has, At, Call
<1> QED
  BY <1>2, <1>3

\* Destroy is queued after the close callback.
LEMMA NotifyStays ==
    ASSUME IInv, IInv', LInv, NEW l, NEW n, NEW front, NEW m, NEW rest,
           Step(l, n, front, m, rest)
    PROVE  NotifyInv'
<1> USE DEF Step, Lawful
<1>0. Base \in Loops /\ Stable
  BY DEF Loops, ConnLaw
<1> SUFFICES ASSUME NEW c \in Conns, NEW i \in 1 .. Len(Work(Base)'),
                    At(Base, i, "notifyClosed", c)'
             PROVE  \E j \in i + 1 .. Len(Work(Base)') : At(Base, j, "queueDestroy", c)'
  BY Zenon DEF NotifyInv
<1>4. Len(Work(Base)') \in Nat /\ i \in Nat
  BY <1>0, Places
<1>1. CASE Base = l /\ i \in 1 .. Len(front) /\ Work(Base)'[i] = front[i]
  <2>1. front[i].op = "notifyClosed" /\ front[i].c = c
    BY <1>1 DEF At
  <2>2. c \in connections_ /\ c \notin connections_' /\ i = 1
    BY <1>1, <2>1, NewTakeDown
  <2>3. front = TakeDown(c) /\ rest = <<>> /\ n = 1
    BY <2>2, Leaves DEF Ends
  <2>4. front[2] = Call("queueDestroy", c) /\ Len(front) = 3
    BY <2>3 DEF TakeDown
  <2>5. 2 \in 1 .. Len(front)
    BY <2>4
  <2>6. 2 \in 1 .. Len(Work(Base)') /\ Work(Base)'[2] = front[2]
    BY <1>1, <2>5, FrontPlaces
  <2>7. At(Base, 2, "queueDestroy", c)'
    BY <2>4, <2>6 DEF At, Call
  <2>8. 2 \in i + 1 .. Len(Work(Base)')
    BY <2>2, <2>6, <1>4
  <2> QED
    BY <2>7, <2>8
<1>2. CASE Base = m /\ 1 \in 1 .. Len(rest) /\ Work(Base)'[i] = rest[1]
  <2>1. rest[1].op = "notifyClosed" /\ rest[1].c = c
    BY <1>2 DEF At
  <2>2. rest[1].op \in FunctorOps
    BY <1>2, <2>1 DEF RestLaw
  <2> QED
    BY <2>1, <2>2 DEF FunctorOps
<1>3. ASSUME NEW h \in 1 .. Len(Work(Base)), Work(Base)'[i] = Work(Base)[h],
             h = IF Base = l THEN i - Len(front) + n ELSE i, Base = l => h > n
      PROVE  \E j \in i + 1 .. Len(Work(Base)') : At(Base, j, "queueDestroy", c)'
  <2>1. At(Base, h, "notifyClosed", c)
    BY <1>3 DEF At
  <2>2. PICK j \in h + 1 .. Len(Work(Base)) : At(Base, j, "queueDestroy", c)
    BY <2>1 DEF LInv, NotifyInv
  <2>3. j \in 1 .. Len(Work(Base)) /\ j > h /\ (Base = l => j > n) /\ h \in Nat
    BY <1>0, <1>3, <2>2, Places, SMTT(30)
  <2> DEFINE jj == IF Base = l THEN j + Len(front) - n ELSE j
  <2>4. jj \in 1 .. Len(Work(Base)') /\ Work(Base)'[jj] = Work(Base)[j]
    BY <1>0, <2>3, CallsStay
  <2>5. jj \in i + 1 .. Len(Work(Base)')
    <3>1. CASE Base = l
      BY <1>0, <1>3, <1>4, <2>3, <2>4, <3>1, Places, SMTT(60)
    <3>2. CASE Base # l
      BY <1>0, <1>3, <1>4, <2>3, <2>4, <3>2, Places
    <3> QED
      BY <3>1, <3>2
  <2>6. At(Base, jj, "queueDestroy", c)'
    BY <2>2, <2>4 DEF At
  <2> QED
    BY <2>5, <2>6
<1> QED
  BY <1>0, <1>1, <1>2, <1>3, Origin

\* Destroy is queued once, for a connection that is still polled.
LEMMA QueueDestroyStays ==
    ASSUME IInv, IInv', LInv, NEW l, NEW n, NEW front, NEW m, NEW rest,
           Step(l, n, front, m, rest)
    PROVE  QueueDestroyInv'
<1> USE DEF Step, Lawful
<1>0. Base \in Loops /\ Stable /\ Len(front) \in Nat /\ n \in 0 .. 1
  BY DEF Loops, ConnLaw, Moved
<1> SUFFICES ASSUME NEW c \in Conns, NEW k \in Loops, k = loop_'[c],
                    NEW i \in 1 .. Len(Work(Base)'), At(Base, i, "queueDestroy", c)'
             PROVE  /\ InPoller(c)' /\ ~Has(k, "destroy", c)'
                    /\ \A j \in 1 .. Len(Work(Base)') :
                          At(Base, j, "queueDestroy", c)' => i = j
  BY Zenon DEF QueueDestroyInv
<1>1. ASSUME Base = l, NEW j \in 1 .. Len(front), front[j].c = c, front[j].op = "queueDestroy"
      PROVE  c \in connections_ /\ c \notin connections_' /\ j = 2
  BY <1>1, NewTakeDown
<1>2. ASSUME NEW j \in 1 .. Len(rest), rest[j].c = c PROVE rest[j].op # "queueDestroy"
  BY <1>2 DEF RestLaw, FunctorOps
<1>3. ASSUME c \in connections_
      PROVE  \A g \in Loops : \A h \in 1 .. Len(Work(g)) :
                Work(g)[h].c = c => Work(g)[h].op \notin {"queueDestroy", "destroy"}
  BY <1>3 DEF LInv, ServedInv, TakenOps
<1>4. ASSUME NEW j \in 1 .. Len(Work(Base)'), At(Base, j, "queueDestroy", c)'
      PROVE  \/ l = Base /\ j = 2 /\ c \in connections_ /\ c \notin connections_'
             \/ \E h \in 1 .. Len(Work(Base)) :
                   /\ At(Base, h, "queueDestroy", c) /\ (Base = l => h > n)
                   /\ h = IF Base = l THEN j - Len(front) + n ELSE j
  <2>1. Work(Base)'[j].op = "queueDestroy" /\ Work(Base)'[j].c = c
    BY <1>4 DEF At
  <2>2. CASE Base = l /\ j \in 1 .. Len(front) /\ Work(Base)'[j] = front[j]
    BY <1>1, <2>1, <2>2
  <2>3. CASE 1 \in 1 .. Len(rest) /\ Work(Base)'[j] = rest[1]
    BY <1>2, <2>1, <2>3
  <2>4. ASSUME NEW h \in 1 .. Len(Work(Base)), Work(Base)'[j] = Work(Base)[h]
        PROVE  At(Base, h, "queueDestroy", c)
    BY <2>1, <2>4 DEF At
  <2> QED
    BY <1>0, <2>2, <2>3, <2>4, Origin
<1>5. CASE l = Base /\ i = 2 /\ c \in connections_ /\ c \notin connections_'
  <2>1. /\ Ends(l, n, "handleClose", c) /\ rest = <<>>
        /\ state_[c] = "disconnected" /\ InPoller(c) /\ c \in Alive
    BY <1>5, Leaves DEF Alive
  <2>2. InPoller(c)'
    <3>1. ~Ends(l, n, "destroy", c)
      BY <2>1 DEF Ends, At
    <3> QED
      BY <2>1, <3>1 DEF ConnLaw
  <2>3. ASSUME NEW j \in 1 .. Len(Work(k)'), At(k, j, "destroy", c)' PROVE FALSE
    <3>1. Work(k)'[j].op = "destroy" /\ Work(k)'[j].c = c
      BY <2>3 DEF At
    <3>2. CASE j \in 1 .. Len(front) /\ Work(k)'[j] = front[j]
      BY <3>1, <3>2 DEF FrontLaw
    <3>3. CASE 1 \in 1 .. Len(rest) /\ Work(k)'[j] = rest[1]
      BY <2>1, <3>3
    <3>4. ASSUME NEW h \in 1 .. Len(Work(k)), Work(k)'[j] = Work(k)[h] PROVE FALSE
      BY <1>3, <1>5, <3>1, <3>4
    <3> QED
      BY <3>2, <3>3, <3>4, Origin
  <2>4. ASSUME NEW j \in 1 .. Len(Work(Base)'), At(Base, j, "queueDestroy", c)' PROVE i = j
    <3>1. \A h \in 1 .. Len(Work(Base)) : ~At(Base, h, "queueDestroy", c)
      BY <1>0, <1>3, <1>5 DEF At
    <3> QED
      BY <1>4, <1>5, <2>4, <3>1
  <2> QED
    BY <2>2, <2>3, <2>4 DEF Has
<1>6. ASSUME NEW h \in 1 .. Len(Work(Base)), At(Base, h, "queueDestroy", c),
             Base = l => h > n, h = IF Base = l THEN i - Len(front) + n ELSE i
      PROVE  /\ InPoller(c)' /\ ~Has(k, "destroy", c)'
             /\ \A j \in 1 .. Len(Work(Base)') :
                   At(Base, j, "queueDestroy", c)' => i = j
  <2>1. c \in Alive /\ loop_[c] = k
    BY <1>0, <1>6, Known DEF At, LInv
  <2>2. /\ InPoller(c) /\ ~Has(k, "destroy", c)
        /\ \A j \in 1 .. Len(Work(Base)) : At(Base, j, "queueDestroy", c) => h = j
    BY <1>6, <2>1 DEF LInv, QueueDestroyInv
  <2>3. c \notin connections_
    BY <1>0, <1>3, <1>6 DEF At
  <2>4. InPoller(c)'
    <3>1. ~(l = k /\ Ends(l, n, "destroy", c))
      BY <2>2 DEF Ends, At, Has
    <3> QED
      BY <2>1, <2>2, <3>1 DEF ConnLaw
  <2>5. ASSUME NEW j \in 1 .. Len(Work(k)'), At(k, j, "destroy", c)' PROVE FALSE
    <3>1. Work(k)'[j].op = "destroy" /\ Work(k)'[j].c = c
      BY <2>5 DEF At
    <3>2. CASE j \in 1 .. Len(front) /\ Work(k)'[j] = front[j]
      BY <3>1, <3>2 DEF FrontLaw
    <3>3. CASE 1 \in 1 .. Len(rest) /\ Work(k)'[j] = rest[1]
      <4>1. l = Base /\ Ends(l, n, "queueDestroy", c)
        BY <3>1, <3>3 DEF RestLaw
      <4> QED
        BY <1>6, <2>2, <4>1 DEF Ends, At
    <3>4. ASSUME NEW g \in 1 .. Len(Work(k)), Work(k)'[j] = Work(k)[g] PROVE FALSE
      BY <2>2, <3>1, <3>4 DEF Has, At
    <3>5. k \in Loops /\ j \in 1 .. Len(Work(k)') /\ Moved(l, n, front, m, rest)
          /\ Moves(l, n, front, m, rest)
      OBVIOUS
    <3>6. \/ j \in 1 .. Len(front) /\ Work(k)'[j] = front[j]
          \/ 1 \in 1 .. Len(rest) /\ Work(k)'[j] = rest[1]
          \/ \E g \in 1 .. Len(Work(k)) : Work(k)'[j] = Work(k)[g]
      BY <3>5, Origin
    <3> QED
      BY <3>2, <3>3, <3>4, <3>6
  <2>6. ASSUME NEW j \in 1 .. Len(Work(Base)'), At(Base, j, "queueDestroy", c)' PROVE i = j
    <3>1. PICK g \in 1 .. Len(Work(Base)) :
             /\ At(Base, g, "queueDestroy", c)
             /\ g = IF Base = l THEN j - Len(front) + n ELSE j
      BY <1>4, <2>3, <2>6
    <3>2. g = h
      BY <2>2, <3>1
    <3>3. i \in Nat /\ j \in Nat
      BY <1>0, Places
    <3> QED
      BY <1>0, <1>6, <3>1, <3>2, <3>3
  <2> QED
    BY <2>4, <2>5, <2>6 DEF Has
<1> QED
  BY <1>4, <1>5, <1>6

\* Nothing is called on the connection's loop after Destroy.
LEMMA DestroyStays ==
    ASSUME IInv, IInv', LInv, NEW l, NEW n, NEW front, NEW m, NEW rest,
           Step(l, n, front, m, rest)
    PROVE  DestroyInv'
<1> USE DEF Step, Lawful
<1> SUFFICES ASSUME NEW c \in Conns, NEW k \in Loops, NEW i \in 1 .. Len(Work(k)'),
                    At(k, i, "destroy", c)'
             PROVE  /\ InPoller(c)'
                    /\ \A j \in 1 .. Len(Work(k)') : Work(k)'[j].c = c => j <= i
  BY Zenon DEF DestroyInv
<1>0. /\ Len(Work(k)') \in Nat /\ i \in Nat /\ Stable /\ l \in Loops /\ n \in 0 .. 1
      /\ Len(front) \in Nat
  BY Places DEF ConnLaw, Moved
<1>1. Work(k)'[i].op = "destroy" /\ Work(k)'[i].c = c
  BY DEF At
<1>2. CASE k = l /\ i \in 1 .. Len(front) /\ Work(k)'[i] = front[i]
  BY <1>1, <1>2 DEF FrontLaw
<1>3. CASE k = m /\ i = Len(Work(k)') /\ 1 \in 1 .. Len(rest) /\ Work(k)'[i] = rest[1]
  <2>1. l = Base /\ Ends(l, n, "queueDestroy", c)
    BY <1>1, <1>3 DEF RestLaw
  <2>2. InPoller(c) /\ c \in Alive
    <3>1. 1 \in 1 .. Len(Work(Base)) /\ At(Base, 1, "queueDestroy", c) /\ Base \in Loops
      BY <2>1 DEF Ends, At, Loops
    <3>2. c \in Alive
      BY <1>0, <3>1, Known DEF At, LInv
    <3>3. loop_[c] \in Loops
      BY DEF IInv, ConnInv
    <3> QED
      BY <3>1, <3>2, <3>3 DEF LInv, QueueDestroyInv
  <2>3. ~Ends(l, n, "destroy", c)
    BY <2>1 DEF Ends, At
  <2> QED
    BY <1>0, <1>3, <2>2, <2>3 DEF ConnLaw
<1>4. ASSUME NEW h \in 1 .. Len(Work(k)), Work(k)'[i] = Work(k)[h],
             h = IF k = l THEN i - Len(front) + n ELSE i, k = l => h > n
      PROVE  /\ InPoller(c)'
             /\ \A j \in 1 .. Len(Work(k)') : Work(k)'[j].c = c => j <= i
  <2>1. At(k, h, "destroy", c)
    BY <1>1, <1>4 DEF At
  <2>2. InPoller(c) /\ \A j \in 1 .. Len(Work(k)) : Work(k)[j].c = c => j <= h
    BY <2>1 DEF LInv, DestroyInv
  <2>3. c \in Alive /\ k = loop_[c]
    BY <1>0, <1>1, <1>4, Known DEF LInv, ServerOps
  <2>4. InPoller(c)'
    <3>1. ASSUME l = k, Ends(l, n, "destroy", c) PROVE FALSE
      <4>1. At(k, 1, "destroy", c) /\ n = 1
        BY <3>1 DEF Ends
      <4>2. 1 \in 1 .. Len(Work(k))
        BY <4>1 DEF At
      <4>3. h <= 1
        BY <1>1, <1>4, <4>1, <4>2 DEF LInv, DestroyInv
      <4> QED
        BY <1>4, <3>1, <4>1, <4>3
    <3> QED
      BY <2>2, <2>3, <3>1 DEF ConnLaw
  <2>5. ASSUME NEW j \in 1 .. Len(Work(k)'), Work(k)'[j].c = c PROVE j <= i
    <3>1. CASE k = l /\ j \in 1 .. Len(front)
      BY <1>0, <1>4, <3>1
    <3>2. CASE k = m /\ 1 \in 1 .. Len(rest) /\ Work(k)'[j] = rest[1]
      <4>1. ~Has(k, "destroy", c)
        BY <2>5, <3>2 DEF RestLaw
      <4> QED
        BY <2>1, <4>1 DEF Has
    <3>3. ASSUME NEW g \in 1 .. Len(Work(k)), Work(k)'[j] = Work(k)[g],
                 g = IF k = l THEN j - Len(front) + n ELSE j
          PROVE  j <= i
      <4>1. g <= h
        BY <2>2, <2>5, <3>3
      <4>2. j \in Nat /\ g \in Nat /\ h \in Nat
        BY <1>0, Places
      <4>3. CASE k = l
        BY <1>0, <1>4, <3>3, <4>1, <4>2, <4>3
      <4>4. CASE k # l
        BY <1>0, <1>4, <3>3, <4>1, <4>2, <4>4
      <4> QED
        BY <4>3, <4>4
    <3> QED
      BY <3>1, <3>2, <3>3, Origin
  <2> QED
    BY <2>4, <2>5
<1> QED
  BY <1>2, <1>3, <1>4, Origin

\* Only the end of HandleConnectionClose outlasts Destroy.
LEMMA GoneStays ==
    ASSUME IInv, IInv', LInv, NEW l, NEW n, NEW front, NEW m, NEW rest,
           Step(l, n, front, m, rest)
    PROVE  GoneInv'
<1> USE DEF Step, Lawful
<1> SUFFICES ASSUME NEW c \in Conns, NEW k \in Loops, state_'[c] = "disconnected",
                    ~InPoller(c)', NEW i \in 1 .. Len(Work(k)'), Work(k)'[i].c = c
             PROVE  Work(k)'[i].op = "closeReturns"
  BY Zenon DEF GoneInv
<1>0. Stable /\ l \in Loops /\ n \in 0 .. 1
  BY DEF ConnLaw, Moved
<1>1. CASE k = l /\ i \in 1 .. Len(front) /\ Work(k)'[i] = front[i]
  BY <1>1 DEF FrontLaw, NewLaw
<1>2. CASE 1 \in 1 .. Len(rest) /\ Work(k)'[i] = rest[1]
  BY <1>2 DEF RestLaw, NewLaw
<1>3. ASSUME NEW h \in 1 .. Len(Work(k)), Work(k)'[i] = Work(k)[h], k = l => h > n
      PROVE  Work(k)'[i].op = "closeReturns"
  <2>1. /\ Work(k)[h].c = c /\ c \in Alive
        /\ k = IF Work(k)[h].op \in ServerOps THEN Base ELSE loop_[c]
    BY <1>0, <1>3, Known DEF LInv
  <2>2. state_[c] = "disconnected"
    BY <2>1 DEF ConnLaw, Alive
  <2>3. CASE ~InPoller(c)
    BY <1>3, <2>1, <2>2, <2>3 DEF LInv, GoneInv
  <2>4. CASE InPoller(c)
    <3>1. l = loop_[c] /\ n = 1 /\ At(l, 1, "destroy", c)
      BY <2>1, <2>4 DEF ConnLaw, Ends
    <3>2. 1 \in 1 .. Len(Work(l)) /\ Has(l, "destroy", c)
      BY <3>1 DEF At, Has
    <3>3. k # l
      <4>1. CASE k = l
        <5>1. h <= 1
          BY <1>0, <2>1, <3>1, <3>2, <4>1 DEF LInv, DestroyInv
        <5> QED
          BY <1>3, <3>1, <4>1, <5>1
      <4> QED
        BY <4>1
    <3>4. k = Base /\ loop_[c] # Base /\ Work(k)[h].op \in ServerOps
      BY <2>1, <3>1, <3>3
    <3>5. c \notin connections_
      BY <1>0, <3>1, <3>2 DEF LInv, ServedInv, TakenOps, At
    <3>6. Work(k)[h].op # "startReading"
      BY <2>1, <3>4, <3>5 DEF LInv, StartInv, At
    <3>7. Work(k)[h].op # "handleClose"
      BY <2>1, <3>4, <3>5 DEF LInv, HandleCloseInv, At
    <3>8. \A g \in 1 .. Len(Work(Base)) : ~At(Base, g, "queueDestroy", c)
      BY <1>0, <3>1, <3>2 DEF LInv, QueueDestroyInv
    <3>9. Work(k)[h].op # "queueDestroy" /\ Work(k)[h].op # "notifyClosed"
      <4>1. Work(k)[h].op # "queueDestroy"
        BY <2>1, <3>4, <3>8 DEF At
      <4>2. ASSUME Work(k)[h].op = "notifyClosed" PROVE FALSE
        <5>1. At(Base, h, "notifyClosed", c) /\ h \in 1 .. Len(Work(Base))
          BY <2>1, <3>4, <4>2 DEF At
        <5>2. PICK g \in h + 1 .. Len(Work(Base)) : At(Base, g, "queueDestroy", c)
          BY <5>1 DEF LInv, NotifyInv
        <5>3. g \in 1 .. Len(Work(Base))
          BY <5>2 DEF At
        <5> QED
          BY <3>8, <5>2, <5>3
      <4> QED
        BY <4>1, <4>2
    <3> QED
      BY <1>3, <3>4, <3>6, <3>7, <3>9 DEF ServerOps
  <2> QED
    BY <2>3, <2>4
<1> QED
  BY <1>1, <1>2, <1>3, Origin

\* With a pool, the reading is started before the end is handled.
LEMMA StartStays ==
    ASSUME IInv, IInv', LInv, NEW l, NEW n, NEW front, NEW m, NEW rest,
           Step(l, n, front, m, rest)
    PROVE  StartInv'
<1> USE DEF Step, Lawful
<1> SUFFICES ASSUME NEW c \in Conns, loop_'[c] # Base, NEW i \in 1 .. Len(Work(Base)'),
                    At(Base, i, "startReading", c)'
             PROVE  /\ c \in connections_'
                    /\ \A j \in 1 .. Len(Work(Base)') :
                          At(Base, j, "handleClose", c)' => i < j
  BY Zenon DEF StartInv
<1>0. /\ Stable /\ Base \in Loops /\ n \in 0 .. 1 /\ Len(front) \in Nat
      /\ Len(Work(Base)') \in Nat /\ i \in Nat
  BY Places DEF ConnLaw, Moved, Loops
<1>1. Work(Base)'[i].op = "startReading" /\ Work(Base)'[i].c = c
  BY DEF At
<1>2. CASE Base = l /\ i \in 1 .. Len(front) /\ Work(Base)'[i] = front[i]
  <2>1. state_[c] = "none" /\ c \in connections_'
    BY <1>1, <1>2 DEF FrontLaw
  <2>2. ASSUME NEW j \in 1 .. Len(Work(Base)'), At(Base, j, "handleClose", c)' PROVE FALSE
    <3>1. PICK h \in 1 .. Len(Work(Base)) : At(Base, h, "handleClose", c)
      BY <1>0, <2>1, <2>2, NewHandleClose
    <3> QED
      BY <2>1, <3>1 DEF LInv, HandleCloseInv
  <2> QED
    BY <2>1, <2>2
<1>3. CASE 1 \in 1 .. Len(rest) /\ Work(Base)'[i] = rest[1]
  BY <1>1, <1>3 DEF RestLaw, FunctorOps
<1>4. ASSUME NEW h \in 1 .. Len(Work(Base)), Work(Base)'[i] = Work(Base)[h],
             h = IF Base = l THEN i - Len(front) + n ELSE i, Base = l => h > n
      PROVE  /\ c \in connections_'
             /\ \A j \in 1 .. Len(Work(Base)') :
                   At(Base, j, "handleClose", c)' => i < j
  <2>1. At(Base, h, "startReading", c) /\ loop_[c] # Base
    BY <1>0, <1>1, <1>4, Known DEF LInv, At
  <2>2. /\ c \in connections_
        /\ \A j \in 1 .. Len(Work(Base)) : At(Base, j, "handleClose", c) => h < j
    BY <2>1 DEF LInv, StartInv
  <2>3. c \in connections_'
    <3>1. ASSUME c \notin connections_' PROVE FALSE
      <4>1. l = Base /\ Ends(l, n, "handleClose", c)
        BY <2>2, <3>1 DEF ConnLaw
      <4>2. 1 \in 1 .. Len(Work(Base)) /\ At(Base, 1, "handleClose", c)
        BY <4>1 DEF Ends, At
      <4>3. h < 1
        BY <2>2, <4>2
      <4> QED
        BY <1>4, <4>1, <4>3
    <3> QED
      BY <3>1
  <2>4. ASSUME NEW j \in 1 .. Len(Work(Base)'), At(Base, j, "handleClose", c)' PROVE i < j
    <3>1. i # j /\ j \in Nat
      BY <1>0, <1>1, <2>4 DEF At
    <3>2. CASE j = Len(Work(Base)')
      BY <1>0, <3>1, <3>2
    <3>3. ASSUME NEW g \in 1 .. Len(Work(Base)), At(Base, g, "handleClose", c),
                 g = IF Base = l THEN j - Len(front) + n ELSE j
          PROVE  i < j
      <4>1. h < g /\ h \in Int /\ g \in Int
        BY <2>2, <3>3
      <4>2. CASE Base = l
        BY <1>0, <1>4, <3>1, <3>3, <4>1, <4>2
      <4>3. CASE Base # l
        BY <1>0, <1>4, <3>1, <3>3, <4>1, <4>3
      <4> QED
        BY <4>2, <4>3
    <3>4. CASE loop_[c] = Base
      BY <2>1, <3>4
    <3> QED
      BY <1>0, <2>4, <3>2, <3>3, <3>4, NewHandleClose
  <2> QED
    BY <2>3, <2>4
<1> QED
  BY <1>0, <1>2, <1>3, <1>4, Origin, SMTT(30)

\* A lawful step keeps the parts that are about calls.
LEMMA LifeKeeps ==
    ASSUME IInv, IInv', LInv, NEW l, NEW n, NEW front, NEW m, NEW rest,
           Step(l, n, front, m, rest), PhaseInv', FdInv', ChannelInv'
    PROVE  LInv'
  BY LiveStays, NccbStays, ActiveCloseStays, HandleCloseStays, ServedStays, TakenStays,
     NotifyStays, QueueDestroyStays, DestroyStays, GoneStays, StartStays DEF LInv

-----------------------------------------------------------------------------
(* The moves of the steps *)

\* A sequence that loses its first element ...
LEMMA Drop ==
    ASSUME NEW S, NEW s \in Seq(S), s # <<>>, NEW r \in Seq(S)
    PROVE  /\ Tail(s) \o r \in Seq(S) /\ Len(Tail(s) \o r) = Len(s \o r) - 1
           /\ Len(Tail(s) \o r) \in Nat
           /\ \A i \in 1 .. Len(Tail(s) \o r) : (Tail(s) \o r)[i] = (s \o r)[i + 1]
<1> DEFINE t == Tail(s)
<1>1. t \in Seq(S) /\ Len(t) = Len(s) - 1 /\ \A i \in 1 .. Len(t) : t[i] = s[i + 1]
  BY HeadTailProperties
<1> HIDE DEF t
<1>2. /\ t \o r \in Seq(S) /\ Len(t \o r) = Len(t) + Len(r)
      /\ \A i \in 1 .. Len(t) + Len(r) :
            (t \o r)[i] = IF i <= Len(t) THEN t[i] ELSE r[i - Len(t)]
  BY <1>1, ConcatProperties
<1>3. /\ Len(s \o r) = Len(s) + Len(r)
      /\ \A i \in 1 .. Len(s) + Len(r) :
            (s \o r)[i] = IF i <= Len(s) THEN s[i] ELSE r[i - Len(s)]
  BY ConcatProperties
<1>4. Len(s) \in Nat /\ Len(r) \in Nat /\ Len(t) \in Nat
  BY <1>1
<1>5. Len(t \o r) = Len(s \o r) - 1 /\ Len(t \o r) \in Nat
  BY <1>1, <1>2, <1>3, <1>4
<1>6. ASSUME NEW i \in 1 .. Len(t \o r) PROVE (t \o r)[i] = (s \o r)[i + 1]
  <2>0. i \in 1 .. Len(t) + Len(r) /\ i + 1 \in 1 .. Len(s) + Len(r)
    BY <1>1, <1>2, <1>4
  <2>1. CASE i <= Len(t)
    <3>1. i \in 1 .. Len(t) /\ i + 1 <= Len(s)
      BY <1>1, <1>4, <2>1
    <3>2. (t \o r)[i] = t[i]
      BY <1>2, <2>0, <2>1
    <3>3. (s \o r)[i + 1] = s[i + 1]
      BY <1>3, <2>0, <3>1
    <3> QED
      BY <1>1, <3>1, <3>2, <3>3
  <2>2. CASE ~(i <= Len(t))
    <3>1. ~(i + 1 <= Len(s)) /\ i - Len(t) = (i + 1) - Len(s)
      BY <1>1, <1>4, <2>2
    <3>2. (t \o r)[i] = r[i - Len(t)]
      BY <1>2, <2>0, <2>2
    <3>3. (s \o r)[i + 1] = r[(i + 1) - Len(s)]
      BY <1>3, <2>0, <3>1
    <3> QED
      BY <3>1, <3>2, <3>3
  <2> QED
    BY <2>1, <2>2
<1> QED
  BY <1>2, <1>5, <1>6 DEF t

\* ... and gets others at both ends.
LEMMA Around ==
    ASSUME NEW S, NEW calls \in Seq(S), NEW u \in Seq(S), NEW rest \in Seq(S)
    PROVE  /\ calls \o (u \o rest) \in Seq(S)
           /\ Len(calls \o (u \o rest)) = Len(calls) + Len(u) + Len(rest)
           /\ \A i \in 1 .. Len(calls \o (u \o rest)) :
                 /\ i <= Len(calls) => (calls \o (u \o rest))[i] = calls[i]
                 /\ i > Len(calls) /\ i <= Len(calls) + Len(u)
                       => (calls \o (u \o rest))[i] = u[i - Len(calls)]
                 /\ i > Len(calls) + Len(u)
                       => (calls \o (u \o rest))[i] = rest[i - (Len(calls) + Len(u))]
<1> DEFINE x == u \o rest
<1>1. /\ x \in Seq(S) /\ Len(x) = Len(u) + Len(rest)
      /\ \A i \in 1 .. Len(u) + Len(rest) :
            x[i] = IF i <= Len(u) THEN u[i] ELSE rest[i - Len(u)]
  BY ConcatProperties
<1> HIDE DEF x
<1> DEFINE v == calls \o x
<1>0. x \in Seq(S)
  BY <1>1
<1>2. /\ v \in Seq(S) /\ Len(v) = Len(calls) + Len(x)
      /\ \A i \in 1 .. Len(calls) + Len(x) :
            v[i] = IF i <= Len(calls) THEN calls[i] ELSE x[i - Len(calls)]
  BY <1>0, ConcatProperties, SMTT(30)
<1> HIDE DEF v
<1>3. Len(calls) \in Nat /\ Len(u) \in Nat /\ Len(rest) \in Nat
  OBVIOUS
<1>4. ASSUME NEW i \in 1 .. Len(v)
      PROVE  /\ i <= Len(calls) => v[i] = calls[i]
             /\ i > Len(calls) /\ i <= Len(calls) + Len(u) => v[i] = u[i - Len(calls)]
             /\ i > Len(calls) + Len(u) => v[i] = rest[i - (Len(calls) + Len(u))]
  <2>1. i <= Len(calls) => v[i] = calls[i]
    BY <1>1, <1>2, <1>3
  <2>2. ASSUME i > Len(calls) PROVE i - Len(calls) \in 1 .. Len(x) /\ v[i] = x[i - Len(calls)]
    BY <1>1, <1>2, <1>3, <2>2
  <2>3. ASSUME i > Len(calls), i <= Len(calls) + Len(u) PROVE v[i] = u[i - Len(calls)]
    BY <1>1, <1>3, <2>2, <2>3
  <2>4. ASSUME i > Len(calls) + Len(u) PROVE v[i] = rest[i - (Len(calls) + Len(u))]
    <3>1. i > Len(calls) /\ i \in Nat
      BY <1>3, <2>4
    <3>2. (i - Len(calls)) - Len(u) = i - (Len(calls) + Len(u)) /\ ~(i - Len(calls) <= Len(u))
      BY <1>3, <2>4, <3>1
    <3> QED
      BY <1>1, <2>2, <3>1, <3>2
  <2> QED
    BY <2>1, <2>3, <2>4
<1> QED
  BY <1>1, <1>2, <1>3, <1>4 DEF v, x

\* Sequence v is w without its first n elements, between those of calls and rest.
Spliced(v, w, calls, n, rest) ==
    /\ Len(w) \in Nat /\ Len(calls) \in Nat /\ Len(rest) \in Nat /\ n <= Len(w)
    /\ Len(v) = (Len(w) + (Len(calls) - n)) + Len(rest)
    /\ \A i \in 1 .. Len(v) :
          /\ i <= Len(calls) => v[i] = calls[i]
          /\ i > Len(calls) /\ i <= Len(w) + (Len(calls) - n) => v[i] = w[i - (Len(calls) - n)]
          /\ i > Len(w) + (Len(calls) - n) => v[i] = rest[i - (Len(w) + (Len(calls) - n))]

\* Calls at the innermost end, a call at the end of the queue.
LEMMA Splice ==
    ASSUME NEW s \in Seq(AllCalls), NEW b \in Seq(AllCalls), NEW q \in Seq(AllCalls),
           NEW calls \in Seq(AllCalls), NEW rest \in Seq(AllCalls), NEW t \in Seq(AllCalls),
           t = s \/ (s # <<>> /\ t = Tail(s))
    PROVE  Spliced(((calls \o t) \o b) \o (q \o rest), (s \o b) \o q, calls,
                   Len(s) - Len(t), rest)
<1> DEFINE n == Len(s) - Len(t)
           w == s \o (b \o q)
           u == t \o (b \o q)
           v == calls \o (u \o rest)
<1>1. /\ b \o q \in Seq(AllCalls) /\ q \o rest \in Seq(AllCalls)
      /\ n \in 0 .. 1 /\ (n = 1 => s # <<>> /\ t = Tail(s)) /\ (n = 0 => t = s)
  <2>1. CASE t = s
    BY <2>1, ConcatProperties
  <2>2. CASE s # <<>> /\ t = Tail(s)
    BY <2>2, HeadTailProperties, ConcatProperties
  <2> QED
    BY <2>1, <2>2
<1> HIDE DEF n
<1>2. /\ u \in Seq(AllCalls) /\ Len(u) = Len(w) - n /\ Len(u) \in Nat
      /\ \A i \in 1 .. Len(u) : u[i] = w[i + n]
  <2> DEFINE r == b \o q
  <2>1. r \in Seq(AllCalls)
    BY <1>1
  <2> HIDE DEF r
  <2>2. CASE n = 1
    <3>1. /\ Tail(s) \o r \in Seq(AllCalls) /\ Len(Tail(s) \o r) = Len(s \o r) - 1
          /\ Len(Tail(s) \o r) \in Nat
          /\ \A i \in 1 .. Len(Tail(s) \o r) : (Tail(s) \o r)[i] = (s \o r)[i + 1]
      BY <1>1, <2>1, <2>2, Drop, SMTT(30)
    <3> QED
      BY <1>1, <2>2, <3>1 DEF r
  <2>3. CASE n = 0
    <3>1. u = w
      BY <1>1, <2>3
    <3>2. w \in Seq(AllCalls)
      BY <2>1, ConcatProperties DEF r
    <3> HIDE DEF u, w
    <3> QED
      BY <2>3, <3>1, <3>2
  <2> HIDE DEF u, w
  <2> QED
    BY <1>1, <2>2, <2>3
<1>3. /\ Len(v) = Len(calls) + Len(u) + Len(rest)
      /\ \A i \in 1 .. Len(v) :
            /\ i <= Len(calls) => v[i] = calls[i]
            /\ i > Len(calls) /\ i <= Len(calls) + Len(u) => v[i] = u[i - Len(calls)]
            /\ i > Len(calls) + Len(u) => v[i] = rest[i - (Len(calls) + Len(u))]
  <2>1. u \in Seq(AllCalls)
    BY <1>2
  <2> HIDE DEF u
  <2> QED
    BY <2>1, Around, SMTT(90)
<1>4. s \o b \o q = w
  BY ConcatAssociative, SMTT(90)
<1>5. (calls \o t) \o b \o (q \o rest) = v
  <2>1. (calls \o t) \o b = calls \o (t \o b) /\ t \o b \in Seq(AllCalls)
    BY <1>1, ConcatAssociative, ConcatProperties, SMTT(90)
  <2>2. \A x \in Seq(AllCalls) :
           /\ (calls \o x) \o (q \o rest) = calls \o (x \o (q \o rest))
           /\ x \o (q \o rest) = (x \o q) \o rest
    <3>1. ASSUME NEW x \in Seq(AllCalls), NEW y \in Seq(AllCalls)
          PROVE  (calls \o x) \o y = calls \o (x \o y)
      BY ConcatAssociative, SMTT(90)
    <3>2. ASSUME NEW x \in Seq(AllCalls) PROVE x \o (q \o rest) = (x \o q) \o rest
      BY ConcatAssociative, SMTT(90)
    <3> QED
      BY <1>1, <3>1, <3>2, Zenon
  <2>3. /\ (calls \o (t \o b)) \o (q \o rest) = calls \o ((t \o b) \o (q \o rest))
        /\ (t \o b) \o (q \o rest) = ((t \o b) \o q) \o rest
    BY <2>1, <2>2, Zenon
  <2>4. (t \o b) \o q = u
    BY <1>1, ConcatAssociative, SMTT(90)
  <2> QED
    BY <2>1, <2>2, <2>3, <2>4
<1>6. Len(calls) \in Nat /\ Len(rest) \in Nat /\ Len(w) \in Nat /\ n <= Len(w)
  <2>1. Len(w) = Len(s) + Len(b \o q)
    BY <1>1, ConcatProperties
  <2>2. n <= Len(s)
    BY DEF n
  <2> HIDE DEF w
  <2> QED
    BY <1>1, <2>1, <2>2
<1> HIDE DEF u, v, w
<1>7. ASSUME NEW i \in 1 .. Len(v)
      PROVE  /\ i <= Len(calls) => v[i] = calls[i]
             /\ i > Len(calls) /\ i <= Len(w) + (Len(calls) - n)
                   => v[i] = w[i - (Len(calls) - n)]
             /\ i > Len(w) + (Len(calls) - n)
                   => v[i] = rest[i - (Len(w) + (Len(calls) - n))]
  <2>1. Len(calls) + Len(u) = Len(w) + (Len(calls) - n) /\ i \in Nat
    BY <1>1, <1>2, <1>3, <1>6
  <2>2. ASSUME i > Len(calls), i <= Len(w) + (Len(calls) - n)
        PROVE  v[i] = w[i - (Len(calls) - n)]
    <3>1. v[i] = u[i - Len(calls)]
      BY <1>3, <2>1, <2>2
    <3>2. i - Len(calls) \in 1 .. Len(u) /\ (i - Len(calls)) + n = i - (Len(calls) - n)
      BY <1>1, <1>2, <1>6, <2>1, <2>2
    <3> QED
      BY <1>2, <3>1, <3>2
  <2> QED
    BY <1>3, <2>1, <2>2
<1>8. Len(v) = (Len(w) + (Len(calls) - n)) + Len(rest)
  BY <1>1, <1>2, <1>3, <1>6
<1> QED
  <2>1. Spliced(v, w, calls, n, rest)
    BY <1>6, <1>7, <1>8 DEF Spliced
  <2> QED
    BY <1>4, <1>5, <2>1 DEF n

\* The calls of loop l are replaced by others, and loop m gets those of rest.
LEMMA MovesAre ==
    ASSUME IInv, NEW l \in Loops, NEW m \in Loops, NEW n \in 0 .. 1, n <= Len(stack[l]),
           NEW calls \in Seq(AllCalls), NEW rest \in Seq(AllCalls), Len(rest) <= 1,
           stack' = [stack EXCEPT ![l] = calls \o IF n = 1 THEN Tail(stack[l]) ELSE stack[l]],
           queue' = [queue EXCEPT ![m] = queue[m] \o rest],
           UNCHANGED batch
    PROVE  Moved(l, n, calls, m, rest) /\ Moves(l, n, calls, m, rest)
<1>1. /\ \A k \in Loops : /\ stack[k] \in Seq(AllCalls) /\ batch[k] \in Seq(AllCalls)
                          /\ queue[k] \in Seq(AllCalls)
      /\ stack \in [Loops -> Seq(AllCalls)] /\ queue \in [Loops -> Seq(AllCalls)]
  BY DEF IInv, StackInv, BatchInv, QueueInv
<1>2. n <= Len(Work(l))
  <2>1. Len(stack[l]) <= Len(stack[l] \o batch[l] \o queue[l])
        /\ Len(stack[l]) \in Nat /\ Len(stack[l] \o batch[l] \o queue[l]) \in Nat
    BY <1>1
  <2>2. n <= Len(stack[l] \o batch[l] \o queue[l])
    <3>1. \A x \in Nat, y \in Nat : n <= x /\ x <= y => n <= y
      OBVIOUS
    <3> QED
      BY <2>1, <3>1
  <2> QED
    BY <2>2, Zenon DEF Work
<1>3. Moved(l, n, calls, m, rest)
  BY <1>2 DEF Moved
<1>4. ASSUME NEW k \in Loops
      PROVE  LET shift == IF k = l THEN Len(calls) - n ELSE 0
                 kept == Len(Work(k)) + shift
             IN  /\ Len(Work(k)') = IF k = m THEN kept + Len(rest) ELSE kept
                 /\ \A i \in 1 .. Len(Work(k)') :
                       Work(k)'[i] = IF k = l /\ i <= Len(calls) THEN calls[i]
                                     ELSE IF i <= kept THEN Work(k)[i - shift]
                                     ELSE rest[i - kept]
  <2> DEFINE s == stack[k]
             b == batch[k]
             q == queue[k]
             f == IF k = l THEN calls ELSE <<>>
             d == IF k = l THEN n ELSE 0
             r == IF k = m THEN rest ELSE <<>>
             t == IF d = 1 THEN Tail(s) ELSE s
             w == (s \o b) \o q
             v == ((f \o t) \o b) \o (q \o r)
  <2>1. stack'[k] = f \o t
    <3>1. CASE k = l
      BY <1>1, <3>1
    <3>2. CASE k # l
      <4>1. <<>> \o stack[k] = stack[k]
        BY <1>1, ConcatEmptySeq
      <4> QED
        BY <1>1, <3>2, <4>1
    <3> QED
      BY <3>1, <3>2
  <2>2. queue'[k] = q \o r
    <3>1. CASE k = m
      BY <1>1, <3>1
    <3>2. CASE k # m
      <4>1. queue[k] \o <<>> = queue[k]
        BY <1>1, ConcatEmptySeq
      <4> QED
        BY <1>1, <3>2, <4>1
    <3> QED
      BY <3>1, <3>2
  <2>3. Work(k)' = v /\ Work(k) = w
    BY <2>1, <2>2, Zenon DEF Work
  <2>4. /\ s \in Seq(AllCalls) /\ b \in Seq(AllCalls) /\ q \in Seq(AllCalls)
        /\ f \in Seq(AllCalls) /\ r \in Seq(AllCalls) /\ d \in 0 .. 1 /\ d <= Len(s)
        /\ Len(f) = (IF k = l THEN Len(calls) ELSE 0)
        /\ Len(r) = (IF k = m THEN Len(rest) ELSE 0) /\ d = IF k = l THEN n ELSE 0
    <3>1. <<>> \in Seq(AllCalls) /\ Len(<<>>) = 0 /\ Len(s) \in Nat
      BY <1>1
    <3> QED
      BY <1>1, <3>1
  <2>9. t \in Seq(AllCalls) /\ (t = s \/ (s # <<>> /\ t = Tail(s))) /\ Len(s) - Len(t) = d
    <3>1. \A x \in Seq(AllCalls) : 1 <= Len(x) => x # <<>> /\ Tail(x) \in Seq(AllCalls)
                                                 /\ Len(x) - Len(Tail(x)) = 1
      BY HeadTailProperties
    <3>2. \A x \in Seq(AllCalls) : Len(x) - Len(x) = 0
      OBVIOUS
    <3>3. t = IF d = 1 THEN Tail(s) ELSE s
      OBVIOUS
    <3> HIDE DEF s, d, t
    <3>4. CASE d = 1
      BY <2>4, <3>1, <3>3, <3>4
    <3>5. CASE d = 0
      <4>1. t = s /\ s \in Seq(AllCalls)
        BY <2>4, <3>3, <3>5
      <4> QED
        BY <3>2, <3>5, <4>1
    <3> QED
      BY <2>4, <3>4, <3>5
  <2> HIDE DEF s, b, q, f, r, d, t
  <2>5. /\ Len(w) \in Nat /\ Len(f) \in Nat /\ Len(r) \in Nat /\ d <= Len(w)
        /\ Len(v) = (Len(w) + (Len(f) - d)) + Len(r)
        /\ \A i \in 1 .. Len(v) :
              /\ i <= Len(f) => v[i] = f[i]
              /\ i > Len(f) /\ i <= Len(w) + (Len(f) - d) => v[i] = w[i - (Len(f) - d)]
              /\ i > Len(w) + (Len(f) - d) => v[i] = r[i - (Len(w) + (Len(f) - d))]
    <3>1. Spliced(v, w, f, Len(s) - Len(t), r)
      BY <2>4, <2>9, Splice
    <3>2. Spliced(v, w, f, d, r)
      BY <2>9, <3>1
    <3> HIDE DEF v, w
    <3> QED
      BY <2>4, <3>2 DEF Spliced
  <2> HIDE DEF v, w
  <2> DEFINE shift == IF k = l THEN Len(calls) - n ELSE 0
             kept == Len(w) + shift
  <2>6. /\ shift = Len(f) - d /\ kept \in Nat /\ Len(f) \in Nat /\ Len(v) \in Nat
        /\ Len(v) = kept + Len(r) /\ (k # l => Len(f) = 0) /\ (k = l => f = calls)
        /\ (k # m => Len(r) = 0) /\ (k = m => r = rest) /\ kept >= Len(f)
    <3>1. CASE k = l
      BY <2>4, <2>5, <3>1 DEF f, r
    <3>2. CASE k # l
      BY <2>4, <2>5, <3>2 DEF f, r
    <3> QED
      BY <3>1, <3>2
  <2> HIDE DEF shift
  <2>7. ASSUME NEW i \in 1 .. Len(v)
        PROVE  v[i] = IF k = l /\ i <= Len(calls) THEN calls[i]
                      ELSE IF i <= kept THEN w[i - shift] ELSE rest[i - kept]
    <3>1. CASE k = l /\ i <= Len(calls)
      BY <2>5, <2>6, <3>1
    <3>2. CASE ~(k = l /\ i <= Len(calls)) /\ i <= kept
      <4>1. i > Len(f)
        BY <2>4, <2>6, <3>2
      <4> QED
        BY <2>5, <2>6, <3>2, <4>1
    <3>3. CASE ~(k = l /\ i <= Len(calls)) /\ ~(i <= kept)
      <4>1. k = m
        BY <2>6, <3>3
      <4>2. r[i - kept] = rest[i - kept]
        BY <2>6, <4>1
      <4>3. kept = Len(w) + (Len(f) - d) /\ i > kept
        BY <2>6, <3>3
      <4> HIDE DEF kept
      <4> QED
        BY <2>5, <3>3, <4>2, <4>3
    <3> QED
      BY <3>1, <3>2, <3>3
  <2>8. Len(v) = IF k = m THEN kept + Len(rest) ELSE kept
    <3> HIDE DEF kept
    <3>1. CASE k = m
      BY <2>4, <2>6, <3>1
    <3>2. CASE k # m
      BY <2>4, <2>6, <3>2
    <3> QED
      BY <3>1, <3>2
  <2> QED
    BY <2>3, <2>7, <2>8 DEF shift
<1>5. Moves(l, n, calls, m, rest)
  BY <1>4 DEF Moves
<1> QED
  BY <1>3, <1>5

\* Steps that leave all calls where they are.
LEMMA NothingMoves ==
    ASSUME IInv, NEW l \in Loops, \A k \in Loops : Work(k)' = Work(k)
    PROVE  Moved(l, 0, <<>>, l, <<>>) /\ Moves(l, 0, <<>>, l, <<>>)
<1>1. Moved(l, 0, <<>>, l, <<>>)
  BY WorkTypes DEF Moved
<1>2. ASSUME NEW k \in Loops
      PROVE  LET shift == IF k = l THEN Len(<<>>) - 0 ELSE 0
                 kept == Len(Work(k)) + shift
             IN  /\ Len(Work(k)') = IF k = l THEN kept + Len(<<>>) ELSE kept
                 /\ \A i \in 1 .. Len(Work(k)') :
                       Work(k)'[i] = IF k = l /\ i <= Len(<<>>) THEN <<>>[i]
                                     ELSE IF i <= kept THEN Work(k)[i - shift]
                                     ELSE <<>>[i - kept]
  <2>1. Len(Work(k)) \in Nat /\ Work(k)' = Work(k) /\ Len(<<>>) = 0
    BY WorkTypes
  <2> QED
    BY <2>1
<1> QED
  BY <1>1, <1>2 DEF Moves

\* The call of loop l that ends.
LEMMA HeadCall ==
    ASSUME IInv, LInv, NEW l \in Loops, NEW op, NEW c, Calls(l, op, c)
    PROVE  /\ At(l, 1, op, c) /\ Ends(l, 1, op, c) /\ 1 \in 1 .. Len(Work(l)) /\ 1 <= Len(stack[l])
           /\ stack[l] # <<>> /\ c \in Conns /\ c \in Alive /\ state_[c] # "none" /\ loop_[c] \in Loops
           /\ op \in ServerOps \cup ConnOps /\ l = IF op \in ServerOps THEN Base ELSE loop_[c]
           /\ \A p, d : Ends(l, 1, p, d) => p = op /\ d = c
           /\ ~aborted
<1>1. stack[l] \in Seq(AllCalls) /\ batch[l] \in Seq(AllCalls) /\ queue[l] \in Seq(AllCalls)
  BY DEF IInv, StackInv, BatchInv, QueueInv
<1>2. stack[l] # <<>> /\ Head(stack[l]) = Call(op, c) /\ ~aborted
  BY DEF Calls
<1>3. 1 <= Len(stack[l]) /\ stack[l][1] = Call(op, c)
  BY <1>1, <1>2
<1>4. /\ 1 \in 1 .. Len((stack[l] \o batch[l]) \o queue[l])
      /\ ((stack[l] \o batch[l]) \o queue[l])[1] = stack[l][1]
  <2>1. \A x \in Seq(AllCalls), y \in Seq(AllCalls) :
           1 <= Len(x) => /\ x \o y \in Seq(AllCalls) /\ 1 <= Len(x \o y)
                          /\ (x \o y)[1] = x[1]
    OBVIOUS
  <2>2. \A x \in Seq(AllCalls) : 1 <= Len(x) => 1 \in 1 .. Len(x)
    OBVIOUS
  <2>3. /\ stack[l] \o batch[l] \in Seq(AllCalls) /\ 1 <= Len(stack[l] \o batch[l])
        /\ (stack[l] \o batch[l])[1] = stack[l][1]
    BY <1>1, <1>3, <2>1, Zenon
  <2>4. /\ (stack[l] \o batch[l]) \o queue[l] \in Seq(AllCalls)
        /\ 1 <= Len((stack[l] \o batch[l]) \o queue[l])
        /\ ((stack[l] \o batch[l]) \o queue[l])[1] = (stack[l] \o batch[l])[1]
    BY <1>1, <2>1, <2>3, Zenon
  <2> QED
    BY <2>2, <2>3, <2>4, Zenon
<1>5. 1 \in 1 .. Len(Work(l)) /\ Work(l)[1] = Call(op, c)
  BY <1>3, <1>4, Zenon DEF Work
<1>6. At(l, 1, op, c) /\ Ends(l, 1, op, c) /\ \A p, d : Ends(l, 1, p, d) => p = op /\ d = c
  BY <1>5 DEF At, Ends, Call
<1>7. Call(op, c) \in AllCalls /\ c \in Alive
  BY <1>5, WorkTypes DEF LInv, LiveInv, Call
<1>8. c \in Conns /\ state_[c] # "none" /\ op \in ServerOps \cup ConnOps
  BY <1>7 DEF AllCalls, Call, Alive
<1> QED
  BY <1>2, <1>3, <1>5, <1>6, <1>7, <1>8, CallIsProper

\* A call that is not the last return of HandleConnectionClose is of a connection
\* that is open, or in its poller; and it comes after the new-connection callback.
LEMMA HeadFacts ==
    ASSUME IInv, LInv, NEW l \in Loops, NEW op, NEW c, Calls(l, op, c)
    PROVE  /\ op # "closeReturns" /\ state_[c] = "disconnected" => InPoller(c)
           /\ op # "nccb" /\ l = loop_[c] => c \in nccbRun
           /\ op \in TakenOps => c \notin connections_
           /\ op = "activeClose" => state_[c] = "connected"
           /\ state_[c] = "connected" => c \in connections_
<1>1. /\ At(l, 1, op, c) /\ 1 \in 1 .. Len(Work(l)) /\ c \in Conns
      /\ Work(l)[1].op = op /\ Work(l)[1].c = c
  BY HeadCall DEF At
<1>2. op # "closeReturns" /\ state_[c] = "disconnected" => InPoller(c)
  BY <1>1 DEF LInv, GoneInv
<1>3. ASSUME op # "nccb", l = loop_[c], c \notin nccbRun PROVE FALSE
  BY <1>1, <1>3 DEF LInv, NccbInv
<1>4. op \in TakenOps => c \notin connections_
  BY <1>1 DEF LInv, ServedInv
<1>5. op = "activeClose" => state_[c] = "connected"
  BY <1>1 DEF LInv, ActiveCloseInv
<1> QED
  BY <1>1, <1>2, <1>3, <1>4, <1>5 DEF LInv, LiveInv

\* Continue, QueueInLoop and RunInLoop as moves of calls.
LEMMA ContinueMoves ==
    ASSUME IInv, NEW l \in Loops, 1 <= Len(stack[l]), NEW calls \in Seq(AllCalls),
           Continue(l, calls), UNCHANGED <<batch, queue>>
    PROVE  Moved(l, 1, calls, l, <<>>) /\ Moves(l, 1, calls, l, <<>>)
<1>1. stack' = [stack EXCEPT ![l] = calls \o IF 1 = 1 THEN Tail(stack[l]) ELSE stack[l]]
  BY DEF Continue
<1>2. queue' = [queue EXCEPT ![l] = queue[l] \o <<>>]
  <2>1. queue \in [Loops -> Seq(AllCalls)]
    BY DEF IInv, QueueInv
  <2>2. queue[l] \o <<>> = queue[l]
    BY <2>1, ConcatEmptySeq
  <2> QED
    BY <2>1, <2>2
<1>3. 1 \in 0 .. 1 /\ <<>> \in Seq(AllCalls) /\ Len(<<>>) <= 1 /\ UNCHANGED batch
  OBVIOUS
<1> QED
  BY <1>1, <1>2, <1>3, MovesAre

\* The innermost call of loop l queues one on loop m and ends.
LEMMA QueueMoves ==
    ASSUME IInv, NEW l \in Loops, NEW m \in Loops, 1 <= Len(stack[l]), NEW call \in AllCalls,
           QueueInLoop(l, m, call, <<>>), UNCHANGED batch
    PROVE  Moved(l, 1, <<>>, m, <<call>>) /\ Moves(l, 1, <<>>, m, <<call>>)
<1>1. stack' = [stack EXCEPT ![l] = <<>> \o IF 1 = 1 THEN Tail(stack[l]) ELSE stack[l]]
  BY DEF QueueInLoop, Continue
<1>2. queue' = [queue EXCEPT ![m] = queue[m] \o <<call>>]
  <2>1. queue[m] \in Seq(AllCalls)
    BY DEF IInv, QueueInv
  <2>2. Append(queue[m], call) = queue[m] \o <<call>>
    BY <2>1, AppendIsConcat
  <2> QED
    BY <2>2 DEF QueueInLoop
<1>3. 1 \in 0 .. 1 /\ <<>> \in Seq(AllCalls) /\ <<call>> \in Seq(AllCalls) /\ Len(<<call>>) <= 1
  OBVIOUS
<1> QED
  BY <1>1, <1>2, <1>3, MovesAre

\* ... or calls it at once when the loop is its own.
LEMMA RunInLoopMoves ==
    ASSUME IInv, NEW l \in Loops, NEW m \in Loops, 1 <= Len(stack[l]), NEW call \in AllCalls,
           RunInLoop(l, m, call, <<>>), UNCHANGED batch
    PROVE  \/ /\ l = m /\ UNCHANGED queue /\ Continue(l, <<call>>)
              /\ Moved(l, 1, <<call>>, l, <<>>) /\ Moves(l, 1, <<call>>, l, <<>>)
           \/ /\ l # m /\ Continue(l, <<>>) /\ queue' = [queue EXCEPT ![m] = Append(queue[m], call)]
              /\ Moved(l, 1, <<>>, m, <<call>>) /\ Moves(l, 1, <<>>, m, <<call>>)
<1>1. CASE l = m
  <2>1. <<call>> \o <<>> = <<call>> /\ <<call>> \in Seq(AllCalls)
    OBVIOUS
  <2>2. Continue(l, <<call>>) /\ UNCHANGED <<batch, queue>>
    BY <1>1, <2>1 DEF RunInLoop
  <2> QED
    BY <1>1, <2>1, <2>2, ContinueMoves
<1>2. CASE l # m
  BY <1>2, QueueMoves DEF RunInLoop, QueueInLoop
<1> QED
  BY <1>1, <1>2

\* Loop l, between two calls, begins some.
LEMMA BeginMoves ==
    ASSUME IInv, NEW l \in Loops, stack[l] = <<>>, NEW calls \in Seq(AllCalls),
           stack' = [stack EXCEPT ![l] = calls], UNCHANGED <<batch, queue>>
    PROVE  Moved(l, 0, calls, l, <<>>) /\ Moves(l, 0, calls, l, <<>>)
<1>1. stack' = [stack EXCEPT ![l] = calls \o IF 0 = 1 THEN Tail(stack[l]) ELSE stack[l]]
  <2>1. calls \o <<>> = calls
    BY ConcatEmptySeq
  <2> QED
    BY <2>1
<1>2. queue' = [queue EXCEPT ![l] = queue[l] \o <<>>]
  <2>1. queue \in [Loops -> Seq(AllCalls)]
    BY DEF IInv, QueueInv
  <2>2. queue[l] \o <<>> = queue[l]
    BY <2>1, ConcatEmptySeq
  <2> QED
    BY <2>1, <2>2
<1>3. 0 \in 0 .. 1 /\ 0 <= Len(stack[l]) /\ <<>> \in Seq(AllCalls) /\ Len(<<>>) <= 1
      /\ UNCHANGED batch
  OBVIOUS
<1> QED
  BY <1>1, <1>2, <1>3, MovesAre

-----------------------------------------------------------------------------
(* The laws, for the steps that change no connection's state *)

\* Every call of a step is for a connection that exists.
LEMMA CallsAlive ==
    ASSUME IInv, LInv, NEW l, NEW n, NEW front, NEW m, NEW rest, Moved(l, n, front, m, rest),
           Moves(l, n, front, m, rest), Alive \subseteq Alive',
           \A i \in 1 .. Len(front) : front[i].c \in Alive',
           \A i \in 1 .. Len(rest) : rest[i].c \in Alive'
    PROVE  \A k \in Loops : \A i \in 1 .. Len(Work(k)') : Work(k)'[i].c \in Alive'
<1> SUFFICES ASSUME NEW k \in Loops, NEW i \in 1 .. Len(Work(k)')
             PROVE  Work(k)'[i].c \in Alive'
  OBVIOUS
<1>1. ASSUME NEW h \in 1 .. Len(Work(k)), Work(k)'[i] = Work(k)[h]
      PROVE  Work(k)'[i].c \in Alive'
  BY <1>1 DEF LInv, LiveInv
<1>2. CASE i \in 1 .. Len(front) /\ Work(k)'[i] = front[i]
  BY <1>2
<1>3. CASE 1 \in 1 .. Len(rest) /\ Work(k)'[i] = rest[1]
  BY <1>3
<1> QED
  BY <1>1, <1>2, <1>3, Origin

SameConns == UNCHANGED <<threads, state_, loop_, fd_, connections_>>

\* The law of connections, when no connection changes its state.
LEMMA SameConnLaw ==
    ASSUME IInv, LInv, NEW l, NEW n, NEW front, NEW m, NEW rest, Moved(l, n, front, m, rest),
           Moves(l, n, front, m, rest), SameConns,
           nccbRun \subseteq nccbRun', cccbRun \subseteq cccbRun',
           \A c \in Alive : InPoller(c)' /\ ~InPoller(c) =>
               n = 1 /\ Work(l)[1].c = c /\ Work(l)[1].op # "closeReturns",
           \A c \in Alive : ~InPoller(c)' /\ InPoller(c) =>
               l = loop_[c] /\ Ends(l, n, "destroy", c),
           \A i \in 1 .. Len(front) : front[i].c \in Alive,
           \A i \in 1 .. Len(rest) : rest[i].c \in Alive
    PROVE  ConnLaw(l, n, front, m, rest)
<1>1. Stable
  BY Unmoved DEF IInv, SameConns
<1>2. Alive' = Alive
  BY DEF SameConns, Alive
<1>3. \A k \in Loops : \A i \in 1 .. Len(Work(k)') : Work(k)'[i].c \in Alive'
  BY <1>2, CallsAlive
<1>4. ASSUME NEW c \in Conns
      PROVE  /\ state_'[c] = state_[c] /\ fd_'[c] = fd_[c]
             /\ c \in connections_' <=> c \in connections_
  BY DEF SameConns
<1> QED
  BY <1>1, <1>3, <1>4 DEF ConnLaw

\* Descriptors stay apart when none is given out.
LEMMA SameFds ==
    ASSUME IInv, FdInv, UNCHANGED fd_, Alive' \subseteq Alive
    PROVE  FdInv'
  BY DEF FdInv

\* Channel::Update puts the channel in the poller, and only this one.
LEMMA UpdateLaw ==
    ASSUME IInv, LInv, NEW c \in Alive, NEW events, Update(c, events), UNCHANGED <<loop_, fd_>>
    PROVE  /\ InPoller(c)'
           /\ \A d \in Alive : d # c => (InPoller(d)' <=> InPoller(d))
           /\ \A k \in Loops, f \in Fds : \/ poller'[k][f] = poller[k][f]
                                          \/ k = loop_[c] /\ f = fd_[c] /\ poller'[k][f] = c
<1> DEFINE r == loop_[c]
           p == fd_[c]
<1>1. /\ poller \in [Loops -> [Fds -> Conns \cup {NoConn}]]
      /\ r \in Loops /\ p \in Fds /\ c \in Conns /\ Alive \subseteq Conns
      /\ \A d \in Alive : loop_[d] \in Loops /\ fd_[d] \in Fds
  BY DEF IInv, PollerInv, ConnInv, LInv, FdInv, Alive
<1>2. poller[r][p] # NoConn => poller[r][p] = c
  <2>1. ASSUME NEW d \in Conns, poller[r][p] = d PROVE d = c
    <3>1. d \in Alive /\ fd_[d] = p
      BY <1>1, <2>1 DEF LInv, ChannelInv
    <3> QED
      BY <3>1 DEF LInv, FdInv
  <2> QED
    BY <1>1, <2>1
<1>3. /\ poller'[r][p] = c
      /\ \A k \in Loops, f \in Fds : (k = r /\ f = p) \/ poller'[k][f] = poller[k][f]
  <2> HIDE DEF r, p
  <2>1. poller' = [poller EXCEPT ![r][p] = IF poller[r][p] = NoConn THEN c ELSE poller[r][p]]
    BY DEF Update, r, p
  <2> QED
    BY <1>1, <1>2, <2>1
<1>4. InPoller(c)'
  BY <1>3 DEF InPoller
<1>5. ASSUME NEW d \in Alive, d # c PROVE InPoller(d)' <=> InPoller(d)
  <2>1. fd_[d] # p
    BY <1>5 DEF LInv, FdInv
  <2>2. poller'[loop_[d]][fd_[d]] = poller[loop_[d]][fd_[d]]
    BY <1>1, <1>3, <2>1
  <2> QED
    BY <2>2 DEF InPoller
<1> QED
  BY <1>3, <1>4, <1>5

\* The channels, when one is put in the poller or none.
LEMMA ChannelsKeep ==
    ASSUME IInv, LInv, UNCHANGED <<loop_, fd_>>, Alive' = Alive, nccbRun \subseteq nccbRun',
           \A l \in Loops : active'[l] \subseteq active[l],
           \/ UNCHANGED poller
           \/ \E c \in Alive : \E events : Update(c, events) /\ c \in nccbRun'
    PROVE  ChannelInv'
<1>1. CASE UNCHANGED poller
  <2>1. \A c \in Conns : InPoller(c)' <=> InPoller(c)
    BY <1>1 DEF InPoller
  <2>2. \A l \in Loops, f \in Fds, c \in Conns :
           poller'[l][f] = c => c \in Alive' /\ c \in nccbRun' /\ fd_'[c] = f
    BY <1>1 DEF LInv, ChannelInv
  <2>3. \A l \in Loops : \A a \in active'[l] : \A c \in Conns :
           a.c = c => c \in Alive' /\ InPoller(c)'
    BY <2>1 DEF LInv, ChannelInv
  <2> QED
    BY <2>2, <2>3 DEF ChannelInv
<1>2. ASSUME NEW c \in Alive, NEW events, Update(c, events), c \in nccbRun'
      PROVE  ChannelInv'
  <2>1. /\ InPoller(c)'
        /\ \A d \in Alive : d # c => (InPoller(d)' <=> InPoller(d))
        /\ \A k \in Loops, f \in Fds : \/ poller'[k][f] = poller[k][f]
                                       \/ k = loop_[c] /\ f = fd_[c] /\ poller'[k][f] = c
    BY <1>2, UpdateLaw
  <2>2. \A l \in Loops, f \in Fds, d \in Conns :
           poller'[l][f] = d => d \in Alive' /\ d \in nccbRun' /\ fd_'[d] = f
    BY <1>2, <2>1 DEF LInv, ChannelInv
  <2>3. \A l \in Loops : \A a \in active'[l] : \A d \in Conns :
           a.c = d => d \in Alive' /\ InPoller(d)'
    BY <2>1 DEF LInv, ChannelInv
  <2> QED
    BY <2>2, <2>3 DEF ChannelInv
<1> QED
  BY <1>1, <1>2

\* The phases, when loop l goes on with other calls and may queue one.
LEMMA PhaseKeeps ==
    ASSUME IInv, PhaseInv, NEW l \in Loops, stack[l] # <<>>, NEW calls \in Seq(AllCalls),
           Continue(l, calls), UNCHANGED <<phase, active, batch, held>>,
           \A i \in 1 .. Len(calls) : calls[i].op # "destroy",
           \/ UNCHANGED queue
           \/ \E m \in Loops, call \in AllCalls :
                 call.op \in FunctorOps /\ queue' = [queue EXCEPT ![m] = Append(queue[m], call)]
    PROVE  PhaseInv'
<1>1. /\ stack \in [Loops -> Seq(AllCalls)] /\ stack[l] \in Seq(AllCalls)
      /\ queue \in [Loops -> Seq(AllCalls)]
  BY DEF IInv, StackInv, QueueInv
<1>2. /\ \A k \in Loops : k # l => stack'[k] = stack[k]
      /\ stack'[l] = calls \o Tail(stack[l])
  BY <1>1 DEF Continue
<1>3. ASSUME NEW i \in 1 .. Len(calls \o Tail(stack[l])), (calls \o Tail(stack[l]))[i].op = "destroy"
      PROVE  phase[l] = "functors"
  <2> DEFINE t == Tail(stack[l])
  <2>1. /\ t \in Seq(AllCalls)
        /\ \A j \in 1 .. Len(t) : t[j] = stack[l][j + 1] /\ j + 1 \in 1 .. Len(stack[l])
    BY <1>1, HeadTailProperties
  <2> HIDE DEF t
  <2>2. \A j \in 1 .. Len(t) : t[j].op = "destroy" => phase[l] = "functors"
    BY <2>1 DEF PhaseInv
  <2>3. CASE i <= Len(calls)
    BY <1>3, <2>1, <2>3 DEF t
  <2>4. CASE i > Len(calls)
    <3>1. i - Len(calls) \in 1 .. Len(t) /\ (calls \o t)[i] = t[i - Len(calls)]
      BY <2>1, <2>4 DEF t
    <3> QED
      BY <1>3, <2>2, <3>1 DEF t
  <2> QED
    BY <2>3, <2>4
<1>4. ASSUME NEW k \in Loops PROVE \A i \in 1 .. Len(queue'[k]) : queue'[k][i].op \in FunctorOps
  <2>1. CASE UNCHANGED queue
    BY <2>1 DEF PhaseInv
  <2>2. ASSUME NEW m \in Loops, NEW call \in AllCalls, call.op \in FunctorOps,
               queue' = [queue EXCEPT ![m] = Append(queue[m], call)]
        PROVE  \A i \in 1 .. Len(queue'[k]) : queue'[k][i].op \in FunctorOps
    <3>1. CASE k # m
      BY <1>1, <2>2, <3>1 DEF PhaseInv
    <3>2. CASE k = m
      <4>1. queue'[k] = Append(queue[m], call) /\ queue[m] \in Seq(AllCalls)
        BY <1>1, <2>2, <3>2
      <4>2. \A i \in 1 .. Len(queue[m]) : queue[m][i].op \in FunctorOps
        BY DEF PhaseInv
      <4>3. /\ Len(queue'[k]) = Len(queue[m]) + 1
            /\ \A i \in 1 .. Len(queue[m]) : queue'[k][i] = queue[m][i]
            /\ queue'[k][Len(queue[m]) + 1] = call
        BY <4>1, AppendProperties
      <4>4. \A i \in 1 .. Len(queue[m]) + 1 : i \in 1 .. Len(queue[m]) \/ i = Len(queue[m]) + 1
        BY <4>1
      <4> QED
        BY <2>2, <4>2, <4>3, <4>4
    <3> QED
      BY <3>1, <3>2
  <2> QED
    BY <2>1, <2>2
<1>5. ASSUME NEW k \in Loops
      PROVE  /\ phase'[k] = "poll" => stack'[k] = <<>>
             /\ \A i \in 1 .. Len(stack'[k]) :
                   stack'[k][i].op = "destroy" => phase'[k] = "functors"
  <2>1. CASE k = l
    BY <1>2, <1>3, <2>1 DEF PhaseInv
  <2>2. CASE k # l
    BY <1>2, <2>2 DEF PhaseInv
  <2> QED
    BY <2>1, <2>2
<1> QED
  BY <1>4, <1>5 DEF PhaseInv

-----------------------------------------------------------------------------
(* The steps *)

UserOps == {"nccb", "cccb", "enableReading", "write", "readFromPeer", "writeToPeer"}

\* What user code, and the code of the connection itself, goes on with.
UserCalls(c) ==
    {<<>>, <<Call("write", c)>>, <<Call("activeClose", c)>>,
     <<Call("write", c), Call("activeClose", c)>>}

\* What is in these sequences.
LEMMA UserCallsAre ==
    ASSUME NEW c \in Conns, NEW calls \in UserCalls(c)
    PROVE  /\ calls \in Seq(AllCalls) /\ Len(calls) \in Nat
           /\ \A i \in 1 .. Len(calls) :
                 /\ calls[i].c = c /\ calls[i].op \in {"write", "activeClose"}
                 /\ \A j \in 1 .. i - 1 : calls[j].op = "write"
                 /\ calls[i].op = "activeClose" => calls \notin {<<>>, <<Call("write", c)>>}
<1>1. Call("write", c) \in AllCalls /\ Call("activeClose", c) \in AllCalls
  BY DEF Call, AllCalls, ServerOps, ConnOps
<1>2. CASE calls = <<>>
  BY <1>2
<1>3. CASE calls = <<Call("write", c)>>
  BY <1>1, <1>3 DEF Call
<1>4. CASE calls = <<Call("activeClose", c)>>
  BY <1>1, <1>4 DEF Call
<1>5. CASE calls = <<Call("write", c), Call("activeClose", c)>>
  BY <1>1, <1>5 DEF Call
<1> QED
  BY <1>2, <1>3, <1>4, <1>5 DEF UserCalls

\* A call of user code or of the connection ends, and others of the connection
\* take its place; the channel may have been put in the poller.
LEMMA UserStep ==
    ASSUME IInv, IInv', LInv, NEW l \in Loops, NEW op \in UserOps, NEW c, Calls(l, op, c),
           NEW calls \in UserCalls(c), Continue(l, calls),
           calls \in {<<>>, <<Call("write", c)>>} \/ state_[c] = "connected",
           op = "write" => calls = <<>>,
           UNCHANGED <<phase, active, batch, held, queue>>, SameConns,
           nccbRun' = nccbRun \cup {d \in {c} : op = "nccb"},
           cccbRun' = cccbRun \cup {d \in {c} : op = "cccb"},
           UNCHANGED poller \/ \E events : Update(c, events)
    PROVE  LInv'
<1> DEFINE none == <<>>
<1>1. /\ At(l, 1, op, c) /\ 1 \in 1 .. Len(Work(l)) /\ 1 <= Len(stack[l])
      /\ stack[l] # <<>> /\ c \in Conns /\ c \in Alive /\ state_[c] # "none" /\ l = loop_[c]
      /\ Work(l)[1].op = op /\ Work(l)[1].c = c
      /\ \A p, d : Ends(l, 1, p, d) => p = op /\ d = c
  BY HeadCall DEF UserOps, ServerOps, At
<1>2. /\ state_[c] = "disconnected" => InPoller(c)
      /\ c \in nccbRun' /\ nccbRun \subseteq nccbRun' /\ cccbRun \subseteq cccbRun'
  BY <1>1, HeadFacts DEF UserOps
<1>3. /\ calls \in Seq(AllCalls) /\ Len(calls) \in Nat
      /\ \A i \in 1 .. Len(calls) :
            /\ calls[i].c = c /\ calls[i].op \in {"write", "activeClose"}
            /\ \A j \in 1 .. i - 1 : calls[j].op = "write"
            /\ calls[i].op = "activeClose" => state_[c] = "connected"
  BY <1>1, UserCallsAre
<1>4. Moved(l, 1, calls, l, none) /\ Moves(l, 1, calls, l, none)
  BY <1>1, <1>3, ContinueMoves
<1>5. /\ InPoller(c) => InPoller(c)'
      /\ \A d \in Alive : d # c => (InPoller(d)' <=> InPoller(d))
  <2>1. CASE UNCHANGED poller
    BY <2>1 DEF InPoller, SameConns
  <2>2. ASSUME NEW events, Update(c, events)
        PROVE  /\ InPoller(c)'
               /\ \A d \in Alive : d # c => (InPoller(d)' <=> InPoller(d))
    BY <1>1, <2>2, UpdateLaw DEF SameConns
  <2> QED
    BY <2>1, <2>2
<1>6. ConnLaw(l, 1, calls, l, none)
  <2>1. \A i \in 1 .. Len(calls) : calls[i].c \in Alive
    BY <1>1, <1>3
  <2>2. \A i \in 1 .. Len(none) : none[i].c \in Alive
    OBVIOUS
  <2>3. \A d \in Alive : InPoller(d)' /\ ~InPoller(d) =>
               1 = 1 /\ Work(l)[1].c = d /\ Work(l)[1].op # "closeReturns"
    BY <1>1, <1>5 DEF UserOps
  <2>4. \A d \in Alive : ~InPoller(d)' /\ InPoller(d) =>
               l = loop_[d] /\ Ends(l, 1, "destroy", d)
    BY <1>5
  <2> HIDE DEF none
  <2> QED
    BY <1>2, <1>4, <2>1, <2>2, <2>3, <2>4, SameConnLaw
<1>7. EndLaw(l, 1, calls, l, none)
  BY <1>1 DEF EndLaw, UserOps
<1>8. FrontLaw(l, 1, calls, l, none)
  <2>1. calls = <<>> \/ Work(l)[1].op # "write"
    BY <1>1
  <2>2. ASSUME NEW i \in 1 .. Len(calls), NEW d \in Conns, calls[i].c = d
        PROVE  /\ NewLaw(l, 1, calls, l, none, calls[i].op, d)
               /\ calls[i].op \in {"write", "activeClose"}
               /\ d \in nccbRun'
               /\ calls[i].op = "activeClose" =>
                     state_'[d] = "connected" /\ \A j \in 1 .. i - 1 : calls[j].op = "write"
    <3>1. d = c /\ calls[i].op \in {"write", "activeClose"} /\ state_'[c] = state_[c]
      BY <1>3, <2>2 DEF SameConns
    <3>2. NewLaw(l, 1, calls, l, none, calls[i].op, c)
      BY <1>1, <1>2, <1>5, <3>1 DEF NewLaw, TakenOps
    <3> QED
      BY <1>2, <1>3, <3>1, <3>2
  <2> QED
    BY <2>1, <2>2 DEF FrontLaw
<1>9. RestLaw(l, 1, calls, l, none)
  BY DEF RestLaw
<1>10. Step(l, 1, calls, l, none)
  BY <1>4, <1>6, <1>7, <1>8, <1>9 DEF Step, Lawful
<1>11. PhaseInv'
  <2>1. \A i \in 1 .. Len(calls) : calls[i].op # "destroy"
    BY <1>3
  <2> QED
    BY <1>1, <1>3, <2>1, PhaseKeeps DEF LInv
<1>12. Alive' = Alive
  BY DEF Alive, SameConns
<1>13. FdInv'
  BY <1>12, SameFds DEF SameConns, LInv
<1>14. ChannelInv'
  <2>0. active' = active
    OBVIOUS
  <2>1. \A k \in Loops : active'[k] \subseteq active[k]
    BY <2>0, Zenon
  <2> QED
    BY <1>1, <1>2, <1>12, <2>1, ChannelsKeep DEF SameConns
<1> QED
  BY <1>10, <1>11, <1>13, <1>14, LifeKeeps

\* Short sequences put together.
LEMMA Joined ==
    ASSUME NEW S, NEW x \in S, NEW y \in S
    PROVE  /\ <<>> \o <<>> = <<>> /\ <<x>> \o <<>> = <<x>> /\ <<>> \o <<y>> = <<y>>
           /\ <<x>> \o <<y>> = <<x, y>>
<1>1. <<>> \o <<>> = <<>>
  OBVIOUS
<1>2. <<x>> \o <<>> = <<x>>
  OBVIOUS
<1>3. <<>> \o <<y>> = <<y>>
  OBVIOUS
<1>4. <<x>> \o <<y>> = <<x, y>>
  <2> DEFINE s == <<x>> \o <<y>>
             t == <<x, y>>
  <2>1. /\ <<x>> \in Seq(S) /\ <<y>> \in Seq(S) /\ Len(<<x>>) = 1 /\ Len(<<y>>) = 1
        /\ <<x>>[1] = x /\ <<y>>[1] = y
    OBVIOUS
  <2>2. s \in Seq(S) /\ Len(s) = 2 /\ s[1] = x /\ s[2] = y
    BY <2>1, ConcatProperties
  <2>3. t \in Seq(S) /\ Len(t) = 2 /\ t[1] = x /\ t[2] = y
    OBVIOUS
  <2> HIDE DEF s, t
  <2>4. \A i \in 1 .. Len(s) : s[i] = t[i]
    BY <2>2, <2>3
  <2>5. s = t
    BY <2>2, <2>3, <2>4, SeqEqual
  <2> QED
    BY <2>5, Zenon DEF s, t
<1> QED
  BY <1>1, <1>2, <1>3, <1>4, Zenon

\* What a callback goes on with, and that it leaves word where it closed.
LEMMA ReactIs ==
    ASSUME NEW l \in Loops, NEW c \in Conns, NEW name, React(l, c, name)
    PROVE  \E calls \in UserCalls(c) :
              /\ Continue(l, calls)
              /\ \/ /\ calls \in {<<>>, <<Call("write", c)>>}
                    /\ closedIn' = [closedIn EXCEPT ![c] = closedIn[c]]
                 \/ /\ state_[c] = "connected"
                    /\ closedIn' = [closedIn EXCEPT ![c] = name]
<1>1. PICK writes \in BOOLEAN, closes \in BOOLEAN :
         /\ closes => state_[c] = "connected"
         /\ Continue(l, (IF writes THEN <<Call("write", c)>> ELSE <<>>)
                        \o (IF closes THEN <<Call("activeClose", c)>> ELSE <<>>))
         /\ closedIn' = [closedIn EXCEPT ![c] = IF closes THEN name ELSE closedIn[c]]
  BY DEF React
<1> DEFINE x == Call("write", c)
           y == Call("activeClose", c)
<1> HIDE DEF x, y
<1>2. /\ <<>> \o <<>> = <<>> /\ <<x>> \o <<>> = <<x>> /\ <<>> \o <<y>> = <<y>>
      /\ <<x>> \o <<y>> = <<x, y>>
  <2>1. x \in AllCalls /\ y \in AllCalls
    BY DEF x, y, Call, AllCalls, ServerOps, ConnOps
  <2> QED
    BY <2>1, Joined, Zenon
<1>3. CASE writes /\ closes
  BY <1>1, <1>2, <1>3 DEF UserCalls, x, y
<1>4. CASE writes /\ ~closes
  BY <1>1, <1>2, <1>4 DEF UserCalls, x, y
<1>5. CASE ~writes /\ closes
  BY <1>1, <1>2, <1>5 DEF UserCalls, x, y
<1>6. CASE ~writes /\ ~closes
  BY <1>1, <1>2, <1>6 DEF UserCalls, x, y
<1> QED
  BY <1>3, <1>4, <1>5, <1>6

\* Callbacks, and the calls of the connection that end none.
LEMMA UserStepsLive ==
    ASSUME IInv, IInv', LInv, NEW l \in Loops, NEW c \in Conns,
           \/ NewConnectionCallback(l, c) \/ CloseCallback(l, c) \/ ReadData(l, c)
           \/ WriteWouldBlock(l, c) \/ WriteFails(l, c) \/ EnableReading(l, c)
           \/ Write(l, c) \/ WriteAll(l, c)
    PROVE  LInv'
<1>1. UNCHANGED <<phase, active, batch, held, queue>> /\ SameConns
  BY DEF NewConnectionCallback, CloseCallback, ReadData, WriteWouldBlock, WriteFails,
         EnableReading, Write, WriteAll, loopVars, queueVars, serverVars, connVars, SameConns
<1>2. ASSUME NEW name, React(l, c, name)
      PROVE  \E calls \in UserCalls(c) :
                /\ Continue(l, calls)
                /\ calls \in {<<>>, <<Call("write", c)>>} \/ state_[c] = "connected"
  BY <1>2, ReactIs
<1>3. /\ <<>> \in UserCalls(c) /\ <<Call("activeClose", c)>> \in UserCalls(c)
      /\ <<>> \in {<<>>, <<Call("write", c)>>}
  BY DEF UserCalls
<1>4. CASE NewConnectionCallback(l, c)
  <2>1. /\ Calls(l, "nccb", c) /\ React(l, c, "nccb")
        /\ nccbRun' = nccbRun \cup {c} /\ UNCHANGED <<poller, cccbRun>>
    BY <1>4 DEF NewConnectionCallback, channelVars
  <2>2. /\ nccbRun' = nccbRun \cup {d \in {c} : "nccb" = "nccb"}
        /\ cccbRun' = cccbRun \cup {d \in {c} : "nccb" = "cccb"}
    BY <2>1
  <2> QED
    BY <1>1, <1>2, <2>1, <2>2, UserStep DEF UserOps
<1>5. CASE ReadData(l, c)
  <2>1. /\ Calls(l, "readFromPeer", c) /\ React(l, c, "reader")
        /\ UNCHANGED <<poller, nccbRun, cccbRun>>
    BY <1>5 DEF ReadData, channelVars, history
  <2>2. /\ nccbRun' = nccbRun \cup {d \in {c} : "readFromPeer" = "nccb"}
        /\ cccbRun' = cccbRun \cup {d \in {c} : "readFromPeer" = "cccb"}
    BY <2>1
  <2> QED
    BY <1>1, <1>2, <2>1, <2>2, UserStep DEF UserOps
<1>6. CASE CloseCallback(l, c)
  <2>1. /\ Calls(l, "cccb", c) /\ Continue(l, <<>>)
        /\ cccbRun' = cccbRun \cup {c} /\ UNCHANGED <<poller, nccbRun>>
    BY <1>6 DEF CloseCallback, channelVars
  <2>2. /\ nccbRun' = nccbRun \cup {d \in {c} : "cccb" = "nccb"}
        /\ cccbRun' = cccbRun \cup {d \in {c} : "cccb" = "cccb"}
    BY <2>1
  <2> QED
    BY <1>1, <1>3, <2>1, <2>2, UserStep DEF UserOps
<1>7. CASE WriteWouldBlock(l, c) \/ WriteFails(l, c) \/ WriteAll(l, c)
  <2>1. /\ Calls(l, "writeToPeer", c) /\ UNCHANGED <<nccbRun, cccbRun>>
        /\ \E calls \in UserCalls(c) :
              /\ Continue(l, calls)
              /\ calls \in {<<>>, <<Call("write", c)>>} \/ state_[c] = "connected"
        /\ UNCHANGED poller \/ \E events : Update(c, events)
    <3>1. CASE WriteWouldBlock(l, c) \/ WriteFails(l, c)
      <4>1. Calls(l, "writeToPeer", c)
        BY <3>1 DEF WriteWouldBlock, WriteFails
      <4>2. state_[c] \in {"connected", "disconnected"}
        BY <4>1, HeadCall DEF Alive
      <4> QED
        BY <1>3, <3>1, <4>1, <4>2 DEF WriteWouldBlock, WriteFails, channelVars, history
    <3>2. CASE WriteAll(l, c)
      <4>1. /\ Calls(l, "writeToPeer", c) /\ UNCHANGED <<nccbRun, cccbRun>>
            /\ React(l, c, "writer") /\ \E events : Update(c, events)
        BY <3>2 DEF WriteAll, history
      <4> QED
        BY <1>2, <4>1
    <3> QED
      BY <1>7, <3>1, <3>2
  <2>2. /\ nccbRun' = nccbRun \cup {d \in {c} : "writeToPeer" = "nccb"}
        /\ cccbRun' = cccbRun \cup {d \in {c} : "writeToPeer" = "cccb"}
    BY <2>1
  <2> QED
    BY <1>1, <1>3, <2>1, <2>2, UserStep DEF UserOps
<1>8. CASE EnableReading(l, c)
  <2>1. /\ Calls(l, "enableReading", c) /\ Continue(l, <<>>)
        /\ UNCHANGED <<nccbRun, cccbRun>> /\ \E events : Update(c, events)
    BY <1>8 DEF EnableReading
  <2>2. /\ nccbRun' = nccbRun \cup {d \in {c} : "enableReading" = "nccb"}
        /\ cccbRun' = cccbRun \cup {d \in {c} : "enableReading" = "cccb"}
    BY <2>1
  <2> QED
    BY <1>1, <1>3, <2>1, <2>2, UserStep DEF UserOps
<1>9. CASE Write(l, c)
  <2>1. /\ Calls(l, "write", c) /\ Continue(l, <<>>)
        /\ UNCHANGED <<nccbRun, cccbRun>> /\ \E events : Update(c, events)
    BY <1>9 DEF Write, history
  <2>2. /\ nccbRun' = nccbRun \cup {d \in {c} : "write" = "nccb"}
        /\ cccbRun' = cccbRun \cup {d \in {c} : "write" = "cccb"}
    BY <2>1
  <2> QED
    BY <1>1, <1>3, <2>1, <2>2, UserStep DEF UserOps
<1> QED
  BY <1>4, <1>5, <1>6, <1>7, <1>8, <1>9

\* A step that calls nothing and ends no call.
LEMMA StillStep ==
    ASSUME IInv, IInv', LInv, \A k \in Loops : Work(k)' = Work(k),
           SameConns, UNCHANGED <<poller, nccbRun, cccbRun>>, PhaseInv',
           \A k \in Loops : \A a \in active'[k] : a \in active[k] \/ a.c \in Registered(k)
    PROVE  LInv'
<1> DEFINE none == <<>>
<1>1. PICK l \in Loops : l = Base
  BY DEF Loops
<1>2. Moved(l, 0, none, l, none) /\ Moves(l, 0, none, l, none)
  BY NothingMoves
<1>3. Alive' = Alive
  BY DEF Alive, SameConns
<1>4. \A c \in Conns : InPoller(c)' <=> InPoller(c)
  BY DEF InPoller, SameConns
<1>5. ConnLaw(l, 0, none, l, none)
  <2>1. \A i \in 1 .. Len(none) : none[i].c \in Alive
    OBVIOUS
  <2>2. \A d \in Alive : InPoller(d)' /\ ~InPoller(d) =>
               0 = 1 /\ Work(l)[1].c = d /\ Work(l)[1].op # "closeReturns"
    BY <1>4 DEF Alive
  <2>3. \A d \in Alive : ~InPoller(d)' /\ InPoller(d) =>
               l = loop_[d] /\ Ends(l, 0, "destroy", d)
    BY <1>4 DEF Alive
  <2>4. nccbRun \subseteq nccbRun' /\ cccbRun \subseteq cccbRun'
    OBVIOUS
  <2> HIDE DEF none
  <2> QED
    BY <1>2, <2>1, <2>2, <2>3, <2>4, SameConnLaw
<1>6. /\ EndLaw(l, 0, none, l, none) /\ FrontLaw(l, 0, none, l, none)
      /\ RestLaw(l, 0, none, l, none)
  <2>1. EndLaw(l, 0, none, l, none)
    BY DEF EndLaw, Ends
  <2>2. FrontLaw(l, 0, none, l, none)
    BY DEF FrontLaw
  <2>3. RestLaw(l, 0, none, l, none)
    BY DEF RestLaw
  <2> QED
    BY <2>1, <2>2, <2>3
<1>7. Step(l, 0, none, l, none)
  BY <1>2, <1>5, <1>6 DEF Step, Lawful
<1>8. FdInv'
  BY <1>3, SameFds DEF SameConns, LInv
<1>9. ChannelInv'
  <2>1. \A k \in Loops, f \in Fds, c \in Conns :
           poller'[k][f] = c => c \in Alive' /\ c \in nccbRun' /\ fd_'[c] = f
    BY <1>3 DEF LInv, ChannelInv, SameConns
  <2>2. ASSUME NEW k \in Loops, NEW a \in active'[k], NEW c \in Conns, a.c = c
        PROVE  c \in Alive /\ InPoller(c)
    <3>1. CASE a \in active[k]
      BY <2>2, <3>1 DEF LInv, ChannelInv
    <3>2. CASE a.c \in Registered(k)
      <4>1. PICK f \in Fds : poller[k][f] = c /\ c # NoConn
        BY <2>2, <3>2 DEF Registered
      <4>2. c \in Alive /\ fd_[c] = f
        BY <4>1 DEF LInv, ChannelInv
      <4>3. loop_[c] = k
        BY <4>1 DEF IInv, PollerInv, Local
      <4> QED
        BY <4>1, <4>2, <4>3 DEF InPoller
    <3> QED
      BY <2>2, <3>1, <3>2
  <2> QED
    BY <1>3, <1>4, <2>1, <2>2 DEF ChannelInv
<1> QED
  BY <1>7, <1>8, <1>9, LifeKeeps

\* The calls and the functors of the loops, when they do not change.
LEMMA SameWork ==
    ASSUME UNCHANGED <<stack, batch, queue>>
    PROVE  \A k \in Loops : Work(k)' = Work(k)
  BY DEF Work

\* The peers, and steps that end the process.
LEMMA PeersLive ==
    ASSUME IInv, IInv', LInv,
           \/ \E c \in Conns : PeerStep(c)
           \/ AcceptLost \/ AcceptFails
           \/ UNCHANGED vars
           \/ \E l \in Loops, c \in Conns :
                 /\ HandleConnectionClose(l, c) \/ ActiveClose(l, c) \/ Destroy(l, c)
                 /\ UNCHANGED <<stack, queue, connections_, state_, poller>>
    PROVE  LInv'
<1>1. /\ UNCHANGED <<phase, active, batch, held, stack, queue, poller, nccbRun, cccbRun>>
      /\ SameConns
  BY DEF PeerStep, PeerSends, PeerCloses, PeerResets, AcceptLost, AcceptFails, vars, loopVars, queueVars,
         serverVars, connVars, channelVars, history, SameConns,
         HandleConnectionClose, ActiveClose, Destroy
<1>2. PhaseInv'
  BY <1>1 DEF LInv, PhaseInv
<1>3. \A k \in Loops : \A a \in active'[k] : a \in active[k]
  BY <1>1
<1> QED
  BY <1>1, <1>2, <1>3, SameWork, StillStep

\* Poll reports only registered channels.
LEMMA PollLives ==
    ASSUME IInv, IInv', LInv, NEW l \in Loops, NEW writable, Poll(l, writable)
    PROVE  LInv'
<1>1. /\ UNCHANGED <<batch, held, stack, queue, poller, nccbRun, cccbRun>> /\ SameConns
      /\ phase[l] = "poll" /\ phase' = [phase EXCEPT ![l] = "handlers"]
  BY DEF Poll, serverVars, connVars, channelVars, history, SameConns
<1> DEFINE report == {[c |-> c, in |-> InputReady(c), out |-> c \in writable] :
                          c \in {d \in Registered(l) : InputReady(d) \/ d \in writable}}
<1>2. /\ active' = [active EXCEPT ![l] = report]
      /\ \A a \in report : a.c \in Registered(l)
  BY DEF Poll
<1> HIDE DEF report
<1>3. /\ active'[l] = report
      /\ \A k \in Loops : k # l => active'[k] = active[k]
  BY <1>2 DEF IInv, ActiveInv
<1>4. \A k \in Loops : \A a \in active'[k] : a \in active[k] \/ a.c \in Registered(k)
  BY <1>2, <1>3
<1>5. PhaseInv'
  BY <1>1, <1>3 DEF LInv, PhaseInv, Phases
<1> QED
  BY <1>1, <1>4, <1>5, SameWork, StillStep

\* The batch takes over the queue, with the references.
LEMMA SwapLives ==
    ASSUME IInv, IInv', LInv, NEW l \in Loops, SwapFunctors(l)
    PROVE  LInv'
<1>1. /\ UNCHANGED <<active, stack, poller, nccbRun, cccbRun>> /\ SameConns
      /\ phase[l] = "handlers" /\ stack[l] = <<>> /\ active[l] = {}
      /\ phase' = [phase EXCEPT ![l] = "functors"]
      /\ batch' = [batch EXCEPT ![l] = queue[l]] /\ queue' = [queue EXCEPT ![l] = <<>>]
      /\ held' = [held EXCEPT ![l] =
                     {call.c : call \in {k \in Range(queue[l]) : k.op \in SharedOps}}]
  BY DEF SwapFunctors, Idle, serverVars, connVars, channelVars, history, SameConns
<1>2. /\ batch \in [Loops -> Seq(AllCalls)] /\ queue \in [Loops -> Seq(AllCalls)]
      /\ phase \in [Loops -> Phases] /\ held \in [Loops -> SUBSET Conns]
  BY DEF IInv, BatchInv, QueueInv, LInv, PhaseInv
<1>3. batch[l] = <<>>
  <2>1. phase[l] # "functors" => batch[l] = <<>>
    BY DEF LInv, PhaseInv
  <2> QED
    BY <1>1, <2>1
<1>4. /\ batch'[l] = queue[l] /\ queue'[l] = <<>> /\ phase'[l] = "functors"
      /\ held'[l] = {call.c : call \in {k \in Range(queue[l]) : k.op \in SharedOps}}
      /\ \A k \in Loops : k # l => /\ batch'[k] = batch[k] /\ queue'[k] = queue[k]
                                   /\ phase'[k] = phase[k] /\ held'[k] = held[k]
  BY <1>1, <1>2
<1>5. ASSUME NEW k \in Loops PROVE Work(k)' = Work(k)
  <2>1. CASE k # l
    BY <1>1, <1>4, <2>1 DEF Work
  <2>2. CASE k = l
    <3>1. <<>> \o <<>> = <<>> /\ <<>> \o queue[l] = queue[l] /\ queue[l] \o <<>> = queue[l]
      BY <1>2, ConcatEmptySeq
    <3>2. Work(k) = (<<>> \o <<>>) \o queue[l] /\ Work(k)' = (<<>> \o queue[l]) \o <<>>
      BY <1>1, <1>3, <1>4, <2>2, Zenon DEF Work
    <3> QED
      BY <3>1, <3>2, Zenon
  <2> QED
    BY <2>1, <2>2
<1>6. PhaseInv'
  <2>1. \A call \in Range(queue[l]) : call.c \in Conns
    <3>1. \A i \in DOMAIN queue[l] : queue[l][i] \in AllCalls
      BY <1>2
    <3> QED
      BY <3>1 DEF Range, AllCalls
  <2>2. phase' \in [Loops -> Phases] /\ held' \in [Loops -> SUBSET Conns]
    BY <1>1, <1>2, <1>4, <2>1 DEF Phases
  <2>3. \A i \in 1 .. Len(queue[l]) :
           /\ queue[l][i].op \in FunctorOps
           /\ queue[l][i].op \in SharedOps => queue[l][i].c \in held'[l]
    <3>1. \A i \in 1 .. Len(queue[l]) : queue[l][i].op \in FunctorOps
      BY DEF LInv, PhaseInv
    <3>2. \A i \in 1 .. Len(queue[l]) : queue[l][i] \in Range(queue[l])
      BY <1>2 DEF Range
    <3> QED
      BY <1>4, <3>1, <3>2
  <2>4. ASSUME NEW k \in Loops
        PROVE  /\ phase'[k] = "poll" => stack'[k] = <<>>
               /\ phase'[k] # "handlers" => active'[k] = {}
               /\ phase'[k] # "functors" => batch'[k] = <<>>
               /\ \A i \in 1 .. Len(stack'[k]) :
                     stack'[k][i].op = "destroy" => phase'[k] = "functors"
               /\ \A i \in 1 .. Len(queue'[k]) : queue'[k][i].op \in FunctorOps
               /\ \A i \in 1 .. Len(batch'[k]) :
                     /\ batch'[k][i].op \in FunctorOps
                     /\ batch'[k][i].op \in SharedOps => batch'[k][i].c \in held'[k]
    <3>1. CASE k = l
      <4>1. /\ phase'[k] = "functors" /\ stack'[k] = <<>> /\ active'[k] = {}
            /\ queue'[k] = <<>> /\ batch'[k] = queue[l]
        BY <1>1, <1>4, <3>1
      <4>2. \A i \in 1 .. Len(queue'[k]) : queue'[k][i].op \in FunctorOps
        BY <4>1
      <4>3. \A i \in 1 .. Len(stack'[k]) :
               stack'[k][i].op = "destroy" => phase'[k] = "functors"
        BY <4>1
      <4> QED
        BY <2>3, <3>1, <4>1, <4>2, <4>3
    <3>2. CASE k # l
      BY <1>1, <1>4, <3>2 DEF LInv, PhaseInv
    <3> QED
      BY <3>1, <3>2
  <2> QED
    BY <2>2, <2>4 DEF PhaseInv
<1>7. \A k \in Loops : \A a \in active'[k] : a \in active[k]
  BY <1>1
<1>8. (\A k \in Loops : Work(k)' = Work(k)) /\ SameConns /\ UNCHANGED <<poller, nccbRun, cccbRun>>
  BY <1>1, <1>5
<1> QED
  BY <1>6, <1>7, <1>8, StillStep

\* A functor of the batch becomes a call.
LEMMA RunFunctorLives ==
    ASSUME IInv, IInv', LInv, NEW l \in Loops, RunFunctor(l)
    PROVE  LInv'
<1>1. /\ UNCHANGED <<phase, active, held, queue, poller, nccbRun, cccbRun>> /\ SameConns
      /\ phase[l] = "functors" /\ stack[l] = <<>> /\ batch[l] # <<>>
      /\ stack' = [stack EXCEPT ![l] = <<Head(batch[l])>>]
      /\ batch' = [batch EXCEPT ![l] = Tail(batch[l])]
  BY DEF RunFunctor, Idle, queueVars, serverVars, connVars, channelVars, history, SameConns
<1>2. /\ batch \in [Loops -> Seq(AllCalls)] /\ queue \in [Loops -> Seq(AllCalls)]
      /\ stack \in [Loops -> Seq(AllCalls)] /\ batch[l] \in Seq(AllCalls)
  BY DEF IInv, BatchInv, QueueInv, StackInv
<1>3. /\ stack'[l] = <<Head(batch[l])>> /\ batch'[l] = Tail(batch[l])
      /\ \A k \in Loops : k # l => batch'[k] = batch[k] /\ stack'[k] = stack[k]
  BY <1>1, <1>2
<1>4. ASSUME NEW k \in Loops PROVE Work(k)' = Work(k)
  <2>1. CASE k # l
    BY <1>1, <1>3, <2>1 DEF Work
  <2>2. CASE k = l
    <3>1. <<>> \o batch[l] = batch[l] /\ <<Head(batch[l])>> \o Tail(batch[l]) = batch[l]
      <4>1. <<Head(batch[l])>> \o Tail(batch[l]) = batch[l]
        BY <1>1, <1>2
      <4> QED
        BY <1>2, <4>1, ConcatEmptySeq
    <3>2. /\ Work(k) = (<<>> \o batch[l]) \o queue[l]
          /\ Work(k)' = (<<Head(batch[l])>> \o Tail(batch[l])) \o queue[l]
      BY <1>1, <1>3, <2>2, Zenon DEF Work
    <3> QED
      BY <3>1, <3>2, Zenon
  <2> QED
    BY <2>1, <2>2
<1>5. PhaseInv'
  <2>1. \A i \in 1 .. Len(Tail(batch[l])) :
           /\ Tail(batch[l])[i].op \in FunctorOps
           /\ Tail(batch[l])[i].op \in SharedOps => Tail(batch[l])[i].c \in held[l]
    <3>1. \A i \in 1 .. Len(Tail(batch[l])) :
             Tail(batch[l])[i] = batch[l][i + 1] /\ i + 1 \in 1 .. Len(batch[l])
      BY <1>1, <1>2, HeadTailProperties
    <3>2. \A i \in 1 .. Len(batch[l]) :
             /\ batch[l][i].op \in FunctorOps
             /\ batch[l][i].op \in SharedOps => batch[l][i].c \in held[l]
      BY DEF LInv, PhaseInv
    <3> QED
      BY <3>1, <3>2
  <2>2. ASSUME NEW k \in Loops
        PROVE  /\ phase'[k] = "poll" => stack'[k] = <<>>
               /\ phase'[k] # "handlers" => active'[k] = {}
               /\ phase'[k] # "functors" => batch'[k] = <<>>
               /\ \A i \in 1 .. Len(stack'[k]) :
                     stack'[k][i].op = "destroy" => phase'[k] = "functors"
               /\ \A i \in 1 .. Len(queue'[k]) : queue'[k][i].op \in FunctorOps
               /\ \A i \in 1 .. Len(batch'[k]) :
                     /\ batch'[k][i].op \in FunctorOps
                     /\ batch'[k][i].op \in SharedOps => batch'[k][i].c \in held'[k]
    <3>1. CASE k = l
      <4>1. phase'[k] = "functors" /\ active'[k] = {}
        BY <1>1, <3>1 DEF LInv, PhaseInv
      <4>2. \A i \in 1 .. Len(queue'[k]) : queue'[k][i].op \in FunctorOps
        BY <1>1 DEF LInv, PhaseInv
      <4> QED
        BY <1>1, <1>3, <2>1, <3>1, <4>1, <4>2
    <3>2. CASE k # l
      BY <1>1, <1>3, <3>2 DEF LInv, PhaseInv
    <3> QED
      BY <3>1, <3>2
  <2> QED
    BY <1>1, <2>2 DEF PhaseInv, LInv
<1>6. \A k \in Loops : \A a \in active'[k] : a \in active[k]
  BY <1>1
<1> QED
  BY <1>1, <1>4, <1>5, <1>6, StillStep

\* The loop goes back to Poll.
LEMMA EndIterationLives ==
    ASSUME IInv, IInv', LInv, NEW l \in Loops, EndIteration(l)
    PROVE  LInv'
<1>1. /\ UNCHANGED <<active, batch, held, stack, queue, poller, nccbRun, cccbRun>>
      /\ SameConns /\ phase[l] = "timers" /\ stack[l] = <<>>
      /\ phase' = [phase EXCEPT ![l] = "poll"]
  BY DEF EndIteration, Idle, queueVars, serverVars, connVars, channelVars, history, SameConns
<1>2. PhaseInv'
  BY <1>1 DEF LInv, PhaseInv, Phases
<1>3. \A k \in Loops : \A a \in active'[k] : a \in active[k]
  BY <1>1
<1> QED
  BY <1>1, <1>2, <1>3, SameWork, StillStep

\* Loop l begins calls of a connection that it serves.
LEMMA BeginStep ==
    ASSUME IInv, IInv', LInv, NEW l \in Loops, stack[l] = <<>>, phase[l] # "poll",
           NEW c \in Alive, loop_[c] = l, c \in nccbRun, state_[c] = "connected" \/ InPoller(c),
           NEW calls \in Seq(AllCalls), stack' = [stack EXCEPT ![l] = calls],
           \A i \in 1 .. Len(calls) :
              /\ calls[i].c = c
              /\ calls[i].op \in {"write", "activeClose", "readFromPeer", "writeToPeer"}
              /\ calls[i].op = "activeClose" =>
                    state_[c] = "connected" /\ \A j \in 1 .. i - 1 : calls[j].op = "write",
           UNCHANGED <<phase, batch, held, queue, poller, nccbRun, cccbRun>>, SameConns,
           \A k \in Loops : active'[k] \subseteq active[k]
    PROVE  LInv'
<1> DEFINE none == <<>>
<1>1. Moved(l, 0, calls, l, none) /\ Moves(l, 0, calls, l, none)
  BY BeginMoves
<1>2. Alive' = Alive /\ \A d \in Conns : InPoller(d)' <=> InPoller(d)
  BY DEF Alive, InPoller, SameConns
<1>3. c \in Conns
  BY DEF Alive
<1>4. ConnLaw(l, 0, calls, l, none)
  <2>1. \A i \in 1 .. Len(calls) : calls[i].c \in Alive
    OBVIOUS
  <2>2. \A i \in 1 .. Len(none) : none[i].c \in Alive
    OBVIOUS
  <2>3. \A d \in Alive : InPoller(d)' /\ ~InPoller(d) =>
               0 = 1 /\ Work(l)[1].c = d /\ Work(l)[1].op # "closeReturns"
    BY <1>2 DEF Alive
  <2>4. \A d \in Alive : ~InPoller(d)' /\ InPoller(d) =>
               l = loop_[d] /\ Ends(l, 0, "destroy", d)
    BY <1>2 DEF Alive
  <2>5. nccbRun \subseteq nccbRun' /\ cccbRun \subseteq cccbRun'
    OBVIOUS
  <2> HIDE DEF none
  <2> QED
    BY <1>1, <2>1, <2>2, <2>3, <2>4, <2>5, SameConnLaw
<1>5. EndLaw(l, 0, calls, l, none)
  BY DEF EndLaw, Ends
<1>6. FrontLaw(l, 0, calls, l, none)
  <2>1. ASSUME NEW i \in 1 .. Len(calls), NEW d \in Conns, calls[i].c = d
        PROVE  /\ NewLaw(l, 0, calls, l, none, calls[i].op, d)
               /\ calls[i].op \in {"write", "activeClose", "readFromPeer", "writeToPeer"}
               /\ d \in nccbRun'
               /\ calls[i].op = "activeClose" =>
                     state_'[d] = "connected" /\ \A j \in 1 .. i - 1 : calls[j].op = "write"
    <3>1. d = c /\ state_'[c] = state_[c]
      BY <2>1 DEF SameConns
    <3>2. NewLaw(l, 0, calls, l, none, calls[i].op, c)
      BY <1>2, <1>3, <3>1 DEF NewLaw, TakenOps
    <3> QED
      BY <3>1, <3>2
  <2> QED
    BY <2>1 DEF FrontLaw
<1>7. RestLaw(l, 0, calls, l, none)
  BY DEF RestLaw
<1>8. Step(l, 0, calls, l, none)
  BY <1>1, <1>4, <1>5, <1>6, <1>7 DEF Step, Lawful
<1>9. PhaseInv'
  <2>1. stack'[l] = calls /\ \A k \in Loops : k # l => stack'[k] = stack[k]
    BY DEF IInv, StackInv
  <2>2. \A k \in Loops : phase[k] # "handlers" => active'[k] = {}
    BY DEF LInv, PhaseInv
  <2>3. ASSUME NEW k \in Loops
        PROVE  /\ phase'[k] = "poll" => stack'[k] = <<>>
               /\ \A i \in 1 .. Len(stack'[k]) :
                     stack'[k][i].op = "destroy" => phase'[k] = "functors"
    <3>1. CASE k = l
      BY <2>1, <3>1
    <3>2. CASE k # l
      BY <2>1, <3>2 DEF LInv, PhaseInv
    <3> QED
      BY <3>1, <3>2
  <2> QED
    BY <2>2, <2>3 DEF LInv, PhaseInv
<1>10. FdInv'
  BY <1>2, SameFds DEF SameConns, LInv
<1>11. ChannelInv'
  BY <1>2, ChannelsKeep DEF SameConns
<1> QED
  BY <1>8, <1>9, <1>10, <1>11, LifeKeeps

\* A reported channel has its calls begun ...
LEMMA HandleEventsLives ==
    ASSUME IInv, IInv', LInv, NEW l \in Loops, HandleEvents(l)
    PROVE  LInv'
<1>1. PICK a \in active[l] :
          /\ active' = [active EXCEPT ![l] = @ \ {a}]
          /\ stack' = [stack EXCEPT ![l] =
                (IF a.out THEN <<Call("writeToPeer", a.c)>> ELSE <<>>)
                \o (IF a.in THEN <<Call("readFromPeer", a.c)>> ELSE <<>>)]
  BY DEF HandleEvents
<1>2. /\ UNCHANGED <<phase, batch, held, queue, poller, nccbRun, cccbRun>> /\ SameConns
      /\ phase[l] = "handlers" /\ stack[l] = <<>>
  BY DEF HandleEvents, Idle, queueVars, serverVars, connVars, channelVars, history, SameConns
<1>3. PICK c \in Conns : c = a.c
  BY DEF IInv, ActiveInv
<1>4. c \in Alive /\ loop_[c] = l /\ InPoller(c) /\ c \in nccbRun
  <2>1. c \in Alive /\ InPoller(c) /\ loop_[c] = l
    BY <1>3 DEF LInv, ChannelInv, IInv, ActiveInv, Local
  <2>2. fd_[c] \in Fds
    BY <2>1 DEF LInv, FdInv
  <2> QED
    BY <2>1, <2>2 DEF LInv, ChannelInv, InPoller
<1> DEFINE x == Call("writeToPeer", c)
           y == Call("readFromPeer", c)
<1>5. x \in AllCalls /\ y \in AllCalls
  BY DEF Call, AllCalls, ServerOps, ConnOps
<1>6. x.c = c /\ x.op = "writeToPeer" /\ y.c = c /\ y.op = "readFromPeer"
  BY DEF Call
<1>7. PICK calls \in {<<>>, <<x>>, <<y>>, <<x, y>>} : stack' = [stack EXCEPT ![l] = calls]
  <2> HIDE DEF x, y
  <2>1. /\ <<>> \o <<>> = <<>> /\ <<x>> \o <<>> = <<x>> /\ <<>> \o <<y>> = <<y>>
        /\ <<x>> \o <<y>> = <<x, y>>
    BY <1>5, Joined, Zenon
  <2>2. CASE a.out /\ a.in
    BY <1>1, <1>3, <2>1, <2>2 DEF x, y
  <2>3. CASE a.out /\ ~a.in
    BY <1>1, <1>3, <2>1, <2>3 DEF x, y
  <2>4. CASE ~a.out /\ a.in
    BY <1>1, <1>3, <2>1, <2>4 DEF x, y
  <2>5. CASE ~a.out /\ ~a.in
    BY <1>1, <1>3, <2>1, <2>5 DEF x, y
  <2> QED
    BY <2>2, <2>3, <2>4, <2>5
<1>8. /\ calls \in Seq(AllCalls)
      /\ \A i \in 1 .. Len(calls) :
            calls[i].c = c /\ calls[i].op \in {"readFromPeer", "writeToPeer"}
  <2> HIDE DEF x, y
  <2>1. CASE calls = <<>>
    BY <2>1
  <2>2. CASE calls = <<x>>
    BY <1>5, <1>6, <2>2
  <2>3. CASE calls = <<y>>
    BY <1>5, <1>6, <2>3
  <2>4. CASE calls = <<x, y>>
    BY <1>5, <1>6, <2>4
  <2> QED
    BY <1>7, <2>1, <2>2, <2>3, <2>4
<1>9. \A k \in Loops : active'[k] \subseteq active[k]
  BY <1>1 DEF IInv, ActiveInv
<1> HIDE DEF x, y
<1>10. /\ calls \in Seq(AllCalls)
       /\ \A i \in 1 .. Len(calls) :
             /\ calls[i].c = c
             /\ calls[i].op \in {"write", "activeClose", "readFromPeer", "writeToPeer"}
             /\ calls[i].op = "activeClose" =>
                   state_[c] = "connected" /\ \A j \in 1 .. i - 1 : calls[j].op = "write"
  BY <1>8
<1>11. phase[l] # "poll" /\ (state_[c] = "connected" \/ InPoller(c))
  BY <1>2, <1>4
<1> QED
  BY <1>2, <1>4, <1>7, <1>9, <1>10, <1>11, BeginStep

\* ... or a timer of the user closes a connection.
LEMMA TimerLives ==
    ASSUME IInv, IInv', LInv, NEW l \in Loops, NEW c \in Conns, TimerFires(l, c)
    PROVE  LInv'
<1>1. /\ UNCHANGED <<phase, active, batch, held, queue, poller, nccbRun, cccbRun>> /\ SameConns
      /\ phase[l] = "timers" /\ stack[l] = <<>>
      /\ loop_[c] = l /\ state_[c] = "connected" /\ c \in nccbRun
  BY DEF TimerFires, Idle, loopVars, queueVars, serverVars, channelVars, history, SameConns
<1>2. c \in Alive
  BY <1>1 DEF Alive
<1> DEFINE x == Call("write", c)
           y == Call("activeClose", c)
<1>3. x \in AllCalls /\ y \in AllCalls
  BY DEF Call, AllCalls, ServerOps, ConnOps
<1>4. x.c = c /\ x.op = "write" /\ y.c = c /\ y.op = "activeClose"
  BY DEF Call
<1>5. PICK calls \in {<<y>>, <<x, y>>} : stack' = [stack EXCEPT ![l] = calls]
  <2>1. PICK last \in {<<>>, <<x>>} : stack' = [stack EXCEPT ![l] = last \o <<y>>]
    BY Zenon DEF TimerFires
  <2> HIDE DEF x, y
  <2>2. <<>> \o <<y>> = <<y>> /\ <<x>> \o <<y>> = <<x, y>>
    BY <1>3, Joined, Zenon
  <2> QED
    BY <2>1, <2>2
<1>6. /\ calls \in Seq(AllCalls)
      /\ \A i \in 1 .. Len(calls) :
            /\ calls[i].c = c /\ calls[i].op \in {"write", "activeClose"}
            /\ \A j \in 1 .. i - 1 : calls[j].op = "write"
  <2> HIDE DEF x, y
  <2>1. CASE calls = <<y>>
    BY <1>3, <1>4, <2>1
  <2>2. CASE calls = <<x, y>>
    BY <1>3, <1>4, <2>2
  <2> QED
    BY <1>5, <2>1, <2>2
<1>7. \A k \in Loops : active'[k] \subseteq active[k]
  BY <1>1
<1> HIDE DEF x, y
<1>8. /\ calls \in Seq(AllCalls)
      /\ \A i \in 1 .. Len(calls) :
            /\ calls[i].c = c
            /\ calls[i].op \in {"write", "activeClose", "readFromPeer", "writeToPeer"}
            /\ calls[i].op = "activeClose" =>
                  state_[c] = "connected" /\ \A j \in 1 .. i - 1 : calls[j].op = "write"
  BY <1>1, <1>6
<1>9. phase[l] # "poll" /\ (state_[c] = "connected" \/ InPoller(c))
  BY <1>1
<1> QED
  BY <1>1, <1>2, <1>5, <1>7, <1>8, <1>9, BeginStep

\* A call that was queued is there.
LEMMA RestPlaces ==
    ASSUME IInv, NEW l, NEW n, NEW front, NEW m, NEW rest, Moved(l, n, front, m, rest),
           Moves(l, n, front, m, rest), Len(rest) = 1
    PROVE  Has(m, rest[1].op, rest[1].c)'
<1>1. m \in Loops
  BY DEF Moved
<1> DEFINE kept == Len(Work(m)) + (IF m = l THEN Len(front) - n ELSE 0)
<1>2. /\ Len(Work(m)) \in Nat /\ Len(front) \in Nat /\ n \in 0 .. 1
      /\ (m = l => n <= Len(Work(m)))
  BY <1>1, Places
<1>3. kept \in Nat
  BY <1>2
<1>7. Len(Work(m)') = kept + Len(rest)
  <2>1. Len(Work(m)') = IF m = m THEN kept + Len(rest) ELSE kept
    BY <1>1 DEF Moves
  <2> QED
    BY <2>1
<1>4. \A i \in 1 .. Len(Work(m)') : i > kept => Work(m)'[i] = rest[i - kept]
  BY <1>1, Places
<1> HIDE DEF kept
<1>5. kept + 1 \in 1 .. Len(Work(m)') /\ kept + 1 > kept /\ (kept + 1) - kept = 1
  BY <1>2, <1>3, <1>7
<1>6. Work(m)'[kept + 1] = rest[1]
  BY <1>4, <1>5
<1> QED
  BY <1>5, <1>6 DEF Has, At

\* HandleConnectionClose and OnNewConnection hand a call to the connection's loop.
HandedOn(op) ==
    IF op = "startReading" THEN "enableReading"
    ELSE IF op = "notifyClosed" THEN "cccb" ELSE "destroy"

\* The base loop passes a call on to the connection's loop.
LEMMA HandStep ==
    ASSUME IInv, IInv', LInv, NEW l \in Loops,
           NEW op \in {"startReading", "notifyClosed", "queueDestroy"}, NEW c, Calls(l, op, c),
           NEW m \in Loops, m = loop_[c], NEW call \in AllCalls, call.c = c,
           call.op = HandedOn(op),
           \/ op # "queueDestroy" /\ RunInLoop(l, m, call, <<>>)
           \/ op = "queueDestroy" /\ QueueInLoop(l, m, call, <<>>),
           UNCHANGED <<phase, active, batch, held, poller, nccbRun, cccbRun>>, SameConns
    PROVE  LInv'
<1>1. /\ At(l, 1, op, c) /\ 1 \in 1 .. Len(Work(l)) /\ 1 <= Len(stack[l])
      /\ stack[l] # <<>> /\ c \in Conns /\ c \in Alive /\ l = Base
      /\ Ends(l, 1, op, c) /\ Work(l)[1].op = op /\ Work(l)[1].c = c
      /\ \A p, d : Ends(l, 1, p, d) => p = op /\ d = c
  BY HeadCall DEF ServerOps, At
<1>2. /\ state_[c] = "disconnected" => InPoller(c)
      /\ l = m => c \in nccbRun
      /\ op \in TakenOps => c \notin connections_
  BY HeadFacts
<1>3. call.op = "enableReading" \/ call.op = "cccb" \/ call.op = "destroy"
  BY DEF HandedOn
<1>4. PICK front \in {<<>>, <<call>>}, rest \in {<<>>, <<call>>} :
         /\ Moved(l, 1, front, m, rest) /\ Moves(l, 1, front, m, rest) /\ Continue(l, front)
         /\ \/ /\ front = <<call>> /\ rest = <<>> /\ l = m /\ op # "queueDestroy"
               /\ UNCHANGED queue
            \/ /\ front = <<>> /\ rest = <<call>> /\ (l # m \/ op = "queueDestroy")
               /\ queue' = [queue EXCEPT ![m] = Append(queue[m], call)]
  <2>1. CASE op # "queueDestroy" /\ RunInLoop(l, m, call, <<>>)
    BY <1>1, <2>1, RunInLoopMoves
  <2>2. CASE op = "queueDestroy" /\ QueueInLoop(l, m, call, <<>>)
    <3>1. Continue(l, <<>>) /\ queue' = [queue EXCEPT ![m] = Append(queue[m], call)]
      BY <2>2 DEF QueueInLoop
    <3>2. Moved(l, 1, <<>>, m, <<call>>) /\ Moves(l, 1, <<>>, m, <<call>>)
      BY <1>1, <2>2, QueueMoves
    <3> QED
      BY <2>2, <3>1, <3>2
  <2> QED
    BY <2>1, <2>2
<1>5. /\ front \in Seq(AllCalls) /\ Len(front) \in Nat
      /\ \A i \in 1 .. Len(front) : front[i] = call
      /\ \A i \in 1 .. Len(rest) : rest[i] = call
      /\ rest # <<>> => Len(rest) = 1 /\ rest[1] = call
      /\ front # <<>> => 1 \in 1 .. Len(front) /\ front[1] = call
      /\ <<call>> # <<>>
  <2>1. /\ <<call>> \in Seq(AllCalls) /\ Len(<<call>>) = 1 /\ <<call>>[1] = call
        /\ <<>> \in Seq(AllCalls) /\ Len(<<>>) = 0
    OBVIOUS
  <2>2. CASE front = <<call>> /\ rest = <<>>
    BY <2>1, <2>2
  <2>3. CASE front = <<>> /\ rest = <<call>>
    BY <2>1, <2>3
  <2> QED
    BY <1>4, <2>2, <2>3
<1>6. Alive' = Alive /\ \A d \in Conns : InPoller(d)' <=> InPoller(d)
  BY DEF Alive, InPoller, SameConns
<1>7. rest # <<>> => ~Has(m, "destroy", c)
  <2>1. CASE op = "startReading"
    <3>1. ASSUME rest # <<>> PROVE c \in connections_
      <4>1. loop_[c] # Base
        BY <1>1, <1>4, <2>1, <3>1
      <4> QED
        BY <1>1, <2>1, <4>1 DEF LInv, StartInv
    <3> QED
      BY <3>1 DEF LInv, ServedInv, Has, At, TakenOps
  <2>2. CASE op = "notifyClosed"
    <3>1. PICK j \in 2 .. Len(Work(Base)) : At(Base, j, "queueDestroy", c)
      BY <1>1, <2>2 DEF LInv, NotifyInv
    <3>2. j \in 1 .. Len(Work(Base))
      BY <3>1 DEF At
    <3> QED
      BY <1>1, <3>1, <3>2 DEF LInv, QueueDestroyInv
  <2>3. CASE op = "queueDestroy"
    BY <1>1, <2>3 DEF LInv, QueueDestroyInv
  <2> QED
    BY <2>1, <2>2, <2>3
<1>8. ConnLaw(l, 1, front, m, rest)
  <2>1. \A i \in 1 .. Len(front) : front[i].c \in Alive
    BY <1>1, <1>5
  <2>2. \A i \in 1 .. Len(rest) : rest[i].c \in Alive
    BY <1>1, <1>5
  <2>3. \A d \in Alive : InPoller(d)' /\ ~InPoller(d) =>
               1 = 1 /\ Work(l)[1].c = d /\ Work(l)[1].op # "closeReturns"
    BY <1>6 DEF Alive
  <2>4. \A d \in Alive : ~InPoller(d)' /\ InPoller(d) =>
               l = loop_[d] /\ Ends(l, 1, "destroy", d)
    BY <1>6 DEF Alive
  <2>5. nccbRun \subseteq nccbRun' /\ cccbRun \subseteq cccbRun'
    OBVIOUS
  <2> QED
    BY <1>4, <2>1, <2>2, <2>3, <2>4, <2>5, SameConnLaw
<1>9. EndLaw(l, 1, front, m, rest)
  <2>1. Has(m, call.op, c)'
    <3>1. CASE rest # <<>>
      <4>1. Has(m, rest[1].op, rest[1].c)'
        BY <1>4, <1>5, <3>1, RestPlaces
      <4> QED
        BY <1>5, <3>1, <4>1
    <3>2. CASE rest = <<>>
      <4>1. l = m /\ 1 \in 1 .. Len(front) /\ front[1] = call
        BY <1>4, <1>5, <3>2
      <4>2. 1 \in 1 .. Len(Work(l)') /\ Work(l)'[1] = call
        BY <1>4, <4>1, FrontPlaces
      <4> QED
        BY <4>1, <4>2 DEF Has, At
    <3> QED
      BY <3>1, <3>2
  <2>2. ASSUME NEW d \in Conns
        PROVE  /\ Ends(l, 1, "nccb", d) => d \in nccbRun'
               /\ Ends(l, 1, "cccb", d) => d \in cccbRun'
               /\ Ends(l, 1, "destroy", d) => ~InPoller(d)'
               /\ Ends(l, 1, "notifyClosed", d) =>
                     \A k \in Loops : k = loop_[d] => Has(k, "cccb", d)'
               /\ Ends(l, 1, "queueDestroy", d) =>
                     \A k \in Loops : k = loop_[d] => Has(k, "destroy", d)'
    <3>1. op = "notifyClosed" => call.op = "cccb"
      BY DEF HandedOn
    <3>2. op = "queueDestroy" => call.op = "destroy"
      BY DEF HandedOn
    <3> QED
      BY <1>1, <2>1, <3>1, <3>2
  <2> QED
    BY <2>2 DEF EndLaw
<1>10. ASSUME NEW d \in Conns, call.c = d
       PROVE  /\ NewLaw(l, 1, front, m, rest, call.op, d) /\ d = c
  <2>1. call.op = "enableReading" \/ c \notin connections_'
    BY <1>2 DEF HandedOn, TakenOps, SameConns
  <2> QED
    BY <1>1, <1>2, <1>3, <1>6, <1>10, <2>1 DEF NewLaw, TakenOps, SameConns
<1>11. FrontLaw(l, 1, front, m, rest)
  <2>1. Work(l)[1].op # "write"
    BY <1>1
  <2>2. ASSUME NEW i \in 1 .. Len(front), NEW d \in Conns, front[i].c = d
        PROVE  /\ NewLaw(l, 1, front, m, rest, front[i].op, d)
               /\ front[i].op \in {"enableReading", "cccb"}
               /\ d \in nccbRun'
    <3>1. front[i] = call /\ l = m /\ op # "queueDestroy"
      BY <1>4, <1>5, <2>2
    <3>2. call.op \in {"enableReading", "cccb"}
      BY <3>1 DEF HandedOn
    <3> QED
      BY <1>2, <1>10, <2>2, <3>1, <3>2
  <2> QED
    BY <2>1, <2>2 DEF FrontLaw
<1>12. RestLaw(l, 1, front, m, rest)
  <2>1. ASSUME NEW i \in 1 .. Len(rest), NEW d \in Conns, rest[i].c = d
        PROVE  /\ NewLaw(l, 1, front, m, rest, rest[i].op, d)
               /\ rest[i].op \in FunctorOps /\ ~Has(m, "destroy", d)
               /\ rest[i].op = "nccb" \/ d \in Alive
               /\ rest[i].op = "destroy" => l = Base /\ Ends(l, 1, "queueDestroy", d)
    <3>1. rest[i] = call /\ d = c /\ rest # <<>>
      BY <1>5, <1>10, <2>1
    <3>2. call.op = "destroy" => op = "queueDestroy"
      BY DEF HandedOn
    <3> QED
      BY <1>1, <1>3, <1>7, <1>10, <3>1, <3>2 DEF FunctorOps
  <2> QED
    BY <2>1 DEF RestLaw
<1>13. Step(l, 1, front, m, rest)
  BY <1>4, <1>8, <1>9, <1>11, <1>12 DEF Step, Lawful
<1>14. PhaseInv'
  <2>1. \A i \in 1 .. Len(front) : front[i].op # "destroy"
    <3>1. ASSUME NEW i \in 1 .. Len(front) PROVE front[i].op # "destroy"
      <4>1. front[i] = call /\ op # "queueDestroy"
        BY <1>4, <1>5, <3>1
      <4> QED
        BY <4>1 DEF HandedOn
    <3> QED
      BY <3>1
  <2>2. call.op \in FunctorOps
    BY <1>3 DEF FunctorOps
  <2> QED
    BY <1>1, <1>4, <1>5, <2>1, <2>2, PhaseKeeps DEF LInv
<1>15. FdInv'
  BY <1>6, SameFds DEF SameConns, LInv
<1>16. ChannelInv'
  <2>0. active' = active
    OBVIOUS
  <2>1. \A k \in Loops : active'[k] \subseteq active[k]
    BY <2>0, Zenon
  <2> QED
    BY <1>6, <2>1, ChannelsKeep DEF SameConns
<1> QED
  BY <1>13, <1>14, <1>15, <1>16, LifeKeeps

\* StartReading, the close callback and Destroy are passed on.
LEMMA HandOnLives ==
    ASSUME IInv, IInv', LInv, NEW l \in Loops, NEW c \in Conns,
           StartReading(l, c) \/ NotifyClosed(l, c) \/ QueueDestroy(l, c)
    PROVE  LInv'
<1>1. /\ UNCHANGED <<phase, active, batch, held, poller, nccbRun, cccbRun>> /\ SameConns
  BY DEF StartReading, NotifyClosed, QueueDestroy, loopVars, serverVars, connVars, channelVars,
         history, SameConns
<1>2. PICK m \in Loops : m = loop_[c]
  BY DEF IInv, ConnInv
<1>3. /\ Call("enableReading", c) \in AllCalls /\ Call("cccb", c) \in AllCalls
      /\ Call("destroy", c) \in AllCalls
      /\ \A op : Call(op, c).op = op /\ Call(op, c).c = c
  BY DEF Call, AllCalls, ServerOps, ConnOps
<1>4. CASE StartReading(l, c)
  <2>1. Calls(l, "startReading", c) /\ RunInLoop(l, m, Call("enableReading", c), <<>>)
    BY <1>2, <1>4 DEF StartReading
  <2>2. HandedOn("startReading") = "enableReading"
    BY DEF HandedOn
  <2> QED
    BY <1>1, <1>2, <1>3, <2>1, <2>2, HandStep
<1>5. CASE NotifyClosed(l, c)
  <2>1. Calls(l, "notifyClosed", c) /\ RunInLoop(l, m, Call("cccb", c), <<>>)
    BY <1>2, <1>5 DEF NotifyClosed
  <2>2. HandedOn("notifyClosed") = "cccb"
    BY DEF HandedOn
  <2> QED
    BY <1>1, <1>2, <1>3, <2>1, <2>2, HandStep
<1>6. CASE QueueDestroy(l, c)
  <2>1. Calls(l, "queueDestroy", c) /\ QueueInLoop(l, m, Call("destroy", c), <<>>)
    BY <1>2, <1>6 DEF QueueDestroy
  <2>2. HandedOn("queueDestroy") = "destroy"
    BY DEF HandedOn
  <2> QED
    BY <1>1, <1>2, <1>3, <2>1, <2>2, HandStep
<1> QED
  BY <1>4, <1>5, <1>6

\* HandleConnectionClose finds the connection of its descriptor in the map.
LEMMA CloseFinds ==
    ASSUME IInv, LInv, NEW l \in Loops, NEW c \in Conns, HandleConnectionClose(l, c)
    PROVE  /\ Calls(l, "handleClose", c) /\ c \in connections_ /\ state_[c] = "disconnected"
           /\ connections_' = connections_ \ {c} /\ Continue(l, TakeDown(c)) /\ UNCHANGED aborted
<1>1. Calls(l, "handleClose", c)
  BY DEF HandleConnectionClose
<1>2. At(l, 1, "handleClose", c) /\ 1 \in 1 .. Len(Work(l)) /\ l = Base
  BY <1>1, HeadCall DEF ServerOps
<1>3. c \in connections_ /\ state_[c] = "disconnected" /\ connections_ \subseteq Alive
  BY <1>2 DEF LInv, HandleCloseInv, LiveInv
<1>4. \A d \in connections_ : fd_[d] = fd_[c] => d = c
  BY <1>3 DEF LInv, FdInv
<1>5. PICK d \in connections_ :
         /\ fd_[d] = fd_[c]
         /\ connections_' = connections_ \ {d} /\ Continue(l, TakeDown(d)) /\ UNCHANGED aborted
  BY <1>3 DEF HandleConnectionClose
<1> QED
  BY <1>1, <1>3, <1>4, <1>5

\* HandleConnectionClose takes the connection out of the map.
LEMMA HandleCloseLives ==
    ASSUME IInv, IInv', LInv, NEW l \in Loops, NEW c \in Conns, HandleConnectionClose(l, c)
    PROVE  LInv'
<1> DEFINE none == <<>>
           calls == TakeDown(c)
<1>1. /\ Calls(l, "handleClose", c) /\ c \in connections_ /\ state_[c] = "disconnected"
      /\ connections_' = connections_ \ {c} /\ Continue(l, calls)
  BY CloseFinds
<1>2. /\ UNCHANGED <<phase, active, batch, held, queue, threads, state_, loop_, fd_, poller,
                     nccbRun, cccbRun>>
  BY DEF HandleConnectionClose, loopVars, queueVars, connVars, channelVars, history
<1>3. /\ At(l, 1, "handleClose", c) /\ 1 \in 1 .. Len(Work(l)) /\ 1 <= Len(stack[l])
      /\ stack[l] # <<>> /\ c \in Alive /\ l = Base
      /\ Ends(l, 1, "handleClose", c) /\ Work(l)[1].op = "handleClose"
      /\ \A p, d : Ends(l, 1, p, d) => p = "handleClose" /\ d = c
  BY <1>1, HeadCall DEF ServerOps, At
<1>4. InPoller(c) /\ (l = loop_[c] => c \in nccbRun)
  BY <1>1, HeadFacts
<1>5. /\ calls \in Seq(AllCalls) /\ Len(calls) \in Nat
      /\ \A i \in 1 .. Len(calls) :
            calls[i].c = c /\ calls[i].op \in {"notifyClosed", "queueDestroy", "closeReturns"}
  <2>1. /\ Call("notifyClosed", c) \in AllCalls /\ Call("queueDestroy", c) \in AllCalls
        /\ Call("closeReturns", c) \in AllCalls
    BY DEF Call, AllCalls, ServerOps
  <2> QED
    BY <2>1 DEF TakeDown, Call
<1> HIDE DEF calls
<1>6. Moved(l, 1, calls, l, none) /\ Moves(l, 1, calls, l, none)
  BY <1>1, <1>2, <1>3, <1>5, ContinueMoves
<1>7. Stable /\ Alive' = Alive /\ \A d \in Conns : InPoller(d)' <=> InPoller(d)
  BY <1>2, Unmoved DEF IInv, Alive, InPoller
<1>8. ConnLaw(l, 1, calls, l, none)
  <2>1. \A k \in Loops : \A i \in 1 .. Len(Work(k)') : Work(k)'[i].c \in Alive'
    <3>1. \A i \in 1 .. Len(calls) : calls[i].c \in Alive'
      BY <1>3, <1>5, <1>7
    <3>2. \A i \in 1 .. Len(none) : none[i].c \in Alive'
      OBVIOUS
    <3> HIDE DEF none
    <3> QED
      BY <1>6, <1>7, <3>1, <3>2, CallsAlive
  <2>2. nccbRun \subseteq nccbRun' /\ cccbRun \subseteq cccbRun'
    BY <1>2
  <2>3. ASSUME NEW d \in Conns
        PROVE  /\ state_'[d] = state_[d] /\ fd_'[d] = fd_[d]
               /\ d \in connections_' => d \in connections_
               /\ d \in connections_ /\ d \notin connections_' =>
                     /\ l = Base /\ Ends(l, 1, "handleClose", d)
                     /\ calls = TakeDown(d) /\ none = <<>>
               /\ d \in Alive => (InPoller(d)' <=> InPoller(d))
    BY <1>1, <1>2, <1>3, <1>7, <2>3 DEF calls
  <2> HIDE DEF none
  <2> QED
    BY <1>7, <2>1, <2>2, <2>3 DEF ConnLaw
<1>9. EndLaw(l, 1, calls, l, none)
  BY <1>3 DEF EndLaw
<1>10. FrontLaw(l, 1, calls, l, none)
  <2>1. Work(l)[1].op # "write"
    BY <1>3
  <2>2. ASSUME NEW i \in 1 .. Len(calls), NEW d \in Conns, calls[i].c = d
        PROVE  /\ NewLaw(l, 1, calls, l, none, calls[i].op, d)
               /\ calls[i].op \in {"notifyClosed", "queueDestroy", "closeReturns"}
               /\ l = loop_'[d] => d \in nccbRun'
               /\ calls = TakeDown(d) /\ l = Base /\ Ends(l, 1, "handleClose", d)
    <3>1. d = c /\ calls[i].op \in {"notifyClosed", "queueDestroy", "closeReturns"}
      BY <1>5, <2>2
    <3>2. c \notin connections_' /\ InPoller(c)' /\ (l = loop_'[c] => c \in nccbRun')
      BY <1>1, <1>2, <1>4, <1>7
    <3>3. NewLaw(l, 1, calls, l, none, calls[i].op, d)
      BY <3>1, <3>2 DEF NewLaw
    <3> QED
      BY <1>3, <3>1, <3>2, <3>3 DEF calls
  <2> QED
    BY <2>1, <2>2 DEF FrontLaw
<1>11. RestLaw(l, 1, calls, l, none)
  BY DEF RestLaw
<1>12. Step(l, 1, calls, l, none)
  BY <1>6, <1>8, <1>9, <1>10, <1>11 DEF Step, Lawful
<1>13. PhaseInv'
  <2>1. \A i \in 1 .. Len(calls) : calls[i].op # "destroy"
    BY <1>5
  <2> QED
    BY <1>1, <1>2, <1>3, <1>5, <2>1, PhaseKeeps DEF LInv
<1>14. FdInv'
  BY <1>2, <1>7, SameFds DEF LInv
<1>15. ChannelInv'
  <2>1. \A k \in Loops : active'[k] \subseteq active[k]
    BY <1>2
  <2> QED
    BY <1>2, <1>7, <2>1, ChannelsKeep
<1> QED
  BY <1>12, <1>13, <1>14, <1>15, LifeKeeps

\* A connection ends, and the base loop is told.
LEMMA EndingStep ==
    ASSUME IInv, IInv', LInv, NEW l \in Loops, NEW op \in {"activeClose", "readFromPeer"},
           NEW c, Calls(l, op, c), state_[c] = "connected",
           state_' = [state_ EXCEPT ![c] = "disconnected"], NEW events, Update(c, events),
           OnConnectionClosed(l, c),
           UNCHANGED <<phase, active, batch, held, threads, loop_, fd_, connections_, nccbRun,
                       cccbRun>>
    PROVE  LInv'
<1> DEFINE call == Call("handleClose", c)
<1>1. /\ At(l, 1, op, c) /\ 1 \in 1 .. Len(Work(l)) /\ 1 <= Len(stack[l])
      /\ stack[l] # <<>> /\ c \in Conns /\ c \in Alive /\ l = loop_[c]
      /\ Ends(l, 1, op, c) /\ Work(l)[1].op = op /\ Work(l)[1].c = c
      /\ \A p, d : Ends(l, 1, p, d) => p = op /\ d = c
  BY HeadCall DEF ServerOps, At
<1>2. c \in nccbRun /\ c \in connections_
  BY <1>1, HeadFacts
<1>3. call \in AllCalls /\ call.op = "handleClose" /\ call.c = c /\ Base \in Loops
  BY <1>1 DEF Call, AllCalls, ServerOps, Loops
<1>a. RunInLoop(l, Base, call, <<>>)
  BY DEF OnConnectionClosed
<1> HIDE DEF call
<1>4. PICK front \in {<<>>, <<call>>}, rest \in {<<>>, <<call>>} :
         /\ Moved(l, 1, front, Base, rest) /\ Moves(l, 1, front, Base, rest)
         /\ Continue(l, front)
         /\ \/ front = <<call>> /\ rest = <<>> /\ l = Base /\ UNCHANGED queue
            \/ /\ front = <<>> /\ rest = <<call>> /\ l # Base
               /\ queue' = [queue EXCEPT ![Base] = Append(queue[Base], call)]
  BY <1>1, <1>3, <1>a, RunInLoopMoves
<1>5. /\ front \in Seq(AllCalls) /\ Len(front) + Len(rest) = 1
      /\ \A i \in 1 .. Len(front) : front[i] = call /\ l = Base
      /\ \A i \in 1 .. Len(rest) : rest[i] = call
  <2>1. /\ <<call>> \in Seq(AllCalls) /\ Len(<<call>>) = 1 /\ <<call>>[1] = call
        /\ <<>> \in Seq(AllCalls) /\ Len(<<>>) = 0
    BY <1>3
  <2>2. CASE front = <<call>> /\ rest = <<>> /\ l = Base
    BY <2>1, <2>2
  <2>3. CASE front = <<>> /\ rest = <<call>>
    BY <2>1, <2>3
  <2> QED
    BY <1>4, <2>2, <2>3
<1>6. Stable /\ nccbRun' = nccbRun /\ connections_' = connections_
  BY <1>1, EndIsStable
<1>7. /\ state_'[c] = "disconnected" /\ \A d \in Conns : d # c => state_'[d] = state_[d]
      /\ Alive' = Alive
  BY <1>1 DEF IInv, ConnInv, Alive
<1>8. /\ InPoller(c)' /\ \A d \in Alive : d # c => (InPoller(d)' <=> InPoller(d))
  BY <1>1, UpdateLaw
<1>9. ConnLaw(l, 1, front, Base, rest)
  <2>1. \A k \in Loops : \A i \in 1 .. Len(Work(k)') : Work(k)'[i].c \in Alive'
    <3>1. \A i \in 1 .. Len(front) : front[i].c \in Alive'
      BY <1>1, <1>3, <1>5, <1>7
    <3>2. \A i \in 1 .. Len(rest) : rest[i].c \in Alive'
      BY <1>1, <1>3, <1>5, <1>7
    <3> QED
      BY <1>4, <1>7, <3>1, <3>2, CallsAlive
  <2>2. nccbRun \subseteq nccbRun' /\ cccbRun \subseteq cccbRun' /\ connections_' = connections_
    OBVIOUS
  <2>3. ASSUME NEW d \in Conns
        PROVE  /\ fd_'[d] = fd_[d]
               /\ \/ state_'[d] = state_[d]
                  \/ /\ state_[d] = "connected" /\ state_'[d] = "disconnected"
                     /\ loop_[d] = l /\ InPoller(d)'
                     /\ Ends(l, 1, "activeClose", d) \/ Ends(l, 1, "readFromPeer", d)
               /\ d \in Alive /\ InPoller(d)' /\ ~InPoller(d) =>
                     1 = 1 /\ Work(l)[1].c = d /\ Work(l)[1].op # "closeReturns"
               /\ ~(d \in Alive /\ ~InPoller(d)' /\ InPoller(d))
    BY <1>1, <1>7, <1>8
  <2> QED
    BY <1>6, <2>1, <2>2, <2>3 DEF ConnLaw
<1>10. EndLaw(l, 1, front, Base, rest)
  BY <1>1 DEF EndLaw
<1>11. \A d \in Conns : call.c = d =>
          d = c /\ NewLaw(l, 1, front, Base, rest, call.op, d)
  BY <1>2, <1>3, <1>5, <1>6, <1>7, <1>8 DEF NewLaw, TakenOps
<1>12. FrontLaw(l, 1, front, Base, rest)
  <2>1. Work(l)[1].op # "write"
    BY <1>1
  <2>2. ASSUME NEW i \in 1 .. Len(front), NEW d \in Conns, front[i].c = d
        PROVE  /\ NewLaw(l, 1, front, Base, rest, front[i].op, d)
               /\ front[i].op = "handleClose" /\ d \in nccbRun' /\ loop_[d] = Base
    <3>1. front[i] = call /\ l = Base
      BY <1>5, <2>2
    <3>2. d = c /\ NewLaw(l, 1, front, Base, rest, call.op, d)
      BY <1>11, <2>2, <3>1
    <3> QED
      BY <1>1, <1>2, <1>3, <3>1, <3>2
  <2> QED
    BY <2>1, <2>2 DEF FrontLaw
<1>13. RestLaw(l, 1, front, Base, rest)
  <2>1. ASSUME Has(Base, "destroy", c) PROVE FALSE
    BY <1>2, <1>3, <2>1 DEF LInv, ServedInv, Has, At, TakenOps
  <2>2. ASSUME NEW i \in 1 .. Len(rest), NEW d \in Conns, rest[i].c = d
        PROVE  /\ NewLaw(l, 1, front, Base, rest, rest[i].op, d)
               /\ rest[i].op = "handleClose" /\ ~Has(Base, "destroy", d) /\ d \in Alive
    <3>1. rest[i] = call
      BY <1>5, <2>2
    <3>2. d = c /\ NewLaw(l, 1, front, Base, rest, call.op, d)
      BY <1>11, <2>2, <3>1
    <3> QED
      BY <1>1, <1>3, <2>1, <3>1, <3>2
  <2> QED
    BY <2>2 DEF RestLaw, FunctorOps
<1>14. Step(l, 1, front, Base, rest)
  BY <1>4, <1>9, <1>10, <1>12, <1>13 DEF Step, Lawful
<1>15. PhaseInv'
  <2>1. \A i \in 1 .. Len(front) : front[i].op # "destroy"
    BY <1>3, <1>5
  <2>2. call.op \in FunctorOps
    BY <1>3 DEF FunctorOps
  <2> QED
    BY <1>1, <1>3, <1>4, <1>5, <2>1, <2>2, PhaseKeeps DEF LInv
<1>16. FdInv'
  BY <1>7, SameFds DEF LInv
<1>17. ChannelInv'
  <2>0. active' = active
    OBVIOUS
  <2>1. \A k \in Loops : active'[k] \subseteq active[k]
    BY <2>0, Zenon
  <2> QED
    BY <1>1, <1>2, <1>6, <1>7, <2>1, ChannelsKeep
<1> QED
  BY <1>14, <1>15, <1>16, <1>17, LifeKeeps

\* A connection is closed by its user or its peer.
LEMMA ClosesLive ==
    ASSUME IInv, IInv', LInv, NEW l \in Loops, NEW c \in Conns, ActiveClose(l, c) \/ ReadEnd(l, c)
    PROVE  LInv'
<1>1. /\ UNCHANGED <<phase, active, batch, held, threads, loop_, fd_, connections_, nccbRun,
                     cccbRun>>
  BY DEF ActiveClose, ReadEnd, loopVars, serverVars, history
<1>2. CASE ActiveClose(l, c)
  <2>1. Calls(l, "activeClose", c)
    BY <1>2 DEF ActiveClose
  <2>2. state_[c] = "connected"
    BY <2>1, HeadFacts
  <2>3. CASE reset[c]
    <3>1. UNCHANGED <<stack, queue, connections_, state_, poller>>
      BY <1>2, <2>3 DEF ActiveClose, queueVars, channelVars, serverVars
    <3> QED
      BY <1>2, <3>1, PeersLive
  <2>4. CASE ~reset[c]
    <3>1. /\ Update(c, events_[c] \ {"in"}) /\ OnConnectionClosed(l, c)
          /\ state_' = [state_ EXCEPT ![c] = "disconnected"]
      BY <1>2, <2>2, <2>4 DEF ActiveClose
    <3> QED
      BY <1>1, <2>1, <2>2, <3>1, EndingStep
  <2> QED
    BY <2>3, <2>4
<1>3. CASE ReadEnd(l, c)
  <2>1. Calls(l, "readFromPeer", c) /\ PassiveClose(l, c) /\ UNCHANGED closedIn
    BY <1>3 DEF ReadEnd
  <2>2. CASE state_[c] = "disconnected"
    <3>1. Continue(l, <<>>) /\ UNCHANGED <<queue, state_, poller>>
      BY <2>1, <2>2 DEF PassiveClose, queueVars, channelVars
    <3>2. /\ nccbRun' = nccbRun \cup {d \in {c} : "readFromPeer" = "nccb"}
          /\ cccbRun' = cccbRun \cup {d \in {c} : "readFromPeer" = "cccb"}
      BY <1>1
    <3>3. <<>> \in UserCalls(c) /\ <<>> \in {<<>>, <<Call("write", c)>>}
      BY DEF UserCalls
    <3>4. SameConns
      BY <1>1, <3>1 DEF SameConns
    <3> QED
      BY <1>1, <2>1, <3>1, <3>2, <3>3, <3>4, UserStep DEF UserOps
  <2>3. CASE state_[c] # "disconnected"
    <3>1. state_[c] = "connected"
      BY <2>1, <2>3, HeadCall DEF Alive
    <3>2. /\ Update(c, {}) /\ OnConnectionClosed(l, c)
          /\ state_' = [state_ EXCEPT ![c] = "disconnected"]
      BY <2>1, <2>3 DEF PassiveClose
    <3> QED
      BY <1>1, <2>1, <3>1, <3>2, EndingStep
  <2> QED
    BY <2>2, <2>3
<1> QED
  BY <1>2, <1>3

\* Destroy takes the channel out of the poller.
LEMMA DestroyLives ==
    ASSUME IInv, IInv', LInv, NEW l \in Loops, NEW c \in Conns, Destroy(l, c)
    PROVE  LInv'
<1> DEFINE none == <<>>
           f == fd_[c]
<1>1. /\ UNCHANGED <<phase, active, batch, held, queue, nccbRun, cccbRun>> /\ SameConns
      /\ Calls(l, "destroy", c)
  BY DEF Destroy, loopVars, queueVars, serverVars, connVars, history, SameConns
<1>2. CASE aborted'
  <2>1. ~aborted
    BY <1>1 DEF Calls
  <2>2. UNCHANGED <<stack, poller>>
    BY <1>2, <2>1 DEF Destroy
  <2>3. UNCHANGED <<stack, queue, connections_, state_, poller>>
    BY <1>1, <2>2 DEF SameConns
  <2> QED
    BY <2>3, PeersLive
<1>3. CASE ~aborted'
  <2>1. /\ state_[c] = "disconnected" /\ Continue(l, none)
        /\ poller' = [poller EXCEPT ![l][f] = NoConn]
    BY <1>3 DEF Destroy
  <2>2. /\ At(l, 1, "destroy", c) /\ 1 \in 1 .. Len(Work(l)) /\ 1 <= Len(stack[l])
        /\ stack[l] # <<>> /\ c \in Alive /\ l = loop_[c]
        /\ Ends(l, 1, "destroy", c) /\ Work(l)[1].op = "destroy"
        /\ \A p, d : Ends(l, 1, p, d) => p = "destroy" /\ d = c
    BY <1>1, HeadCall DEF ServerOps, At
  <2>3. InPoller(c)
    BY <1>1, <2>1, HeadFacts
  <2>4. poller \in [Loops -> [Fds -> Conns \cup {NoConn}]] /\ f \in Fds
    BY <2>2 DEF IInv, PollerInv, LInv, FdInv
  <2> HIDE DEF f
  <2>5. /\ poller'[l][f] = NoConn
        /\ \A k \in Loops, g \in Fds : (k = l /\ g = f) \/ poller'[k][g] = poller[k][g]
    BY <2>1, <2>4
  <2> USE DEF f
  <2>6. ~InPoller(c)'
    BY <1>1, <2>2, <2>5 DEF InPoller, SameConns, NoConn, Conns
  <2>7. \A d \in Alive : d # c => (InPoller(d)' <=> InPoller(d))
    <3>1. ASSUME NEW d \in Alive, d # c PROVE InPoller(d)' <=> InPoller(d)
      <4>1. fd_[d] # f /\ fd_[d] \in Fds /\ loop_[d] \in Loops
        BY <2>2, <3>1 DEF LInv, FdInv, IInv, ConnInv, Alive
      <4>2. poller'[loop_[d]][fd_[d]] = poller[loop_[d]][fd_[d]]
        BY <2>5, <4>1
      <4> QED
        BY <1>1, <4>2 DEF InPoller, SameConns
    <3> QED
      BY <3>1
  <2>8. Alive' = Alive
    BY <1>1 DEF Alive, SameConns
  <2>9. none \in Seq(AllCalls)
    OBVIOUS
  <2>10. Moved(l, 1, none, l, none) /\ Moves(l, 1, none, l, none)
    BY <1>1, <2>1, <2>2, <2>9, ContinueMoves
  <2>11. ConnLaw(l, 1, none, l, none)
    <3>1. \A i \in 1 .. Len(none) : none[i].c \in Alive
      OBVIOUS
    <3>2. \A d \in Alive : InPoller(d)' /\ ~InPoller(d) =>
                 1 = 1 /\ Work(l)[1].c = d /\ Work(l)[1].op # "closeReturns"
      BY <2>3, <2>7
    <3>3. \A d \in Alive : ~InPoller(d)' /\ InPoller(d) =>
                 l = loop_[d] /\ Ends(l, 1, "destroy", d)
      BY <2>2, <2>7
    <3>4. nccbRun \subseteq nccbRun' /\ cccbRun \subseteq cccbRun'
      BY <1>1
    <3> HIDE DEF none
    <3> QED
      BY <1>1, <2>10, <3>1, <3>2, <3>3, <3>4, SameConnLaw
  <2>12. EndLaw(l, 1, none, l, none)
    BY <2>2, <2>6 DEF EndLaw
  <2>13. FrontLaw(l, 1, none, l, none)
    BY DEF FrontLaw
  <2>14. RestLaw(l, 1, none, l, none)
    BY DEF RestLaw
  <2>15. Step(l, 1, none, l, none)
    BY <2>10, <2>11, <2>12, <2>13, <2>14 DEF Step, Lawful
  <2>16. PhaseInv'
    <3>1. \A i \in 1 .. Len(none) : none[i].op # "destroy"
      OBVIOUS
    <3> HIDE DEF none
    <3> QED
      BY <1>1, <2>1, <2>2, <2>9, <3>1, PhaseKeeps DEF LInv
  <2>17. FdInv'
    BY <1>1, <2>8, SameFds DEF SameConns, LInv
  <2>18. ChannelInv'
    <3>1. \A k \in Loops, g \in Fds, d \in Conns :
             poller'[k][g] = d => d \in Alive' /\ d \in nccbRun' /\ fd_'[d] = g
      BY <1>1, <2>5, <2>8 DEF LInv, ChannelInv, SameConns, NoConn, Conns
    <3>2. active[l] = {}
      <4>1. stack[l][1].op = "destroy" /\ 1 \in 1 .. Len(stack[l])
        BY <1>1, <2>2 DEF Calls, Call, IInv, StackInv
      <4>2. phase[l] = "functors"
        BY <4>1 DEF LInv, PhaseInv
      <4> QED
        BY <4>2 DEF LInv, PhaseInv
    <3>3. ASSUME NEW k \in Loops, NEW a \in active'[k], NEW d \in Conns, a.c = d
          PROVE  d \in Alive' /\ InPoller(d)'
      <4>1. a \in active[k]
        BY <1>1
      <4>2. d \in Alive /\ InPoller(d) /\ loop_[d] = k
        BY <3>3, <4>1 DEF LInv, ChannelInv, IInv, ActiveInv, Local
      <4>3. d # c
        BY <2>2, <3>2, <4>1, <4>2
      <4> QED
        BY <2>7, <2>8, <4>2, <4>3
    <3> QED
      BY <3>1, <3>3 DEF ChannelInv
  <2> QED
    BY <2>15, <2>16, <2>17, <2>18, LifeKeeps
<1> QED
  BY <1>2, <1>3

-----------------------------------------------------------------------------
(* The steps after which a connection may be deleted *)

\* What is in three sequences put together.
LEMMA Parts ==
    ASSUME NEW S, NEW s \in Seq(S), NEW b \in Seq(S), NEW q \in Seq(S),
           NEW i \in 1 .. Len(s \o b \o q)
    PROVE  \/ \E j \in 1 .. Len(s) : (s \o b \o q)[i] = s[j]
           \/ \E j \in 1 .. Len(b) : (s \o b \o q)[i] = b[j]
           \/ \E j \in 1 .. Len(q) : (s \o b \o q)[i] = q[j]
<1>1. /\ s \o b \in Seq(S) /\ Len(s \o b) = Len(s) + Len(b)
      /\ Len(s) \in Nat /\ Len(b) \in Nat /\ Len(q) \in Nat
      /\ \A j \in 1 .. Len(s) + Len(b) :
            (s \o b)[j] = IF j <= Len(s) THEN s[j] ELSE b[j - Len(s)]
  BY ConcatProperties
<1> DEFINE t == s \o b
<1> HIDE DEF t
<1>2. /\ Len(t \o q) = Len(t) + Len(q)
      /\ \A j \in 1 .. Len(t) + Len(q) :
            (t \o q)[j] = IF j <= Len(t) THEN t[j] ELSE q[j - Len(t)]
  BY <1>1, ConcatProperties DEF t
<1>3. i \in 1 .. Len(t) + Len(q) /\ Len(t) \in Nat
  BY <1>1, <1>2 DEF t
<1>4. CASE i > Len(t)
  <2>1. (t \o q)[i] = q[i - Len(t)] /\ i - Len(t) \in 1 .. Len(q)
    BY <1>1, <1>2, <1>3, <1>4
  <2> QED
    BY <2>1 DEF t
<1>5. CASE i <= Len(t)
  <2>1. (t \o q)[i] = t[i] /\ i \in 1 .. Len(s) + Len(b)
    BY <1>1, <1>2, <1>3, <1>5 DEF t
  <2>2. CASE i <= Len(s)
    <3>1. t[i] = s[i] /\ i \in 1 .. Len(s)
      BY <1>1, <2>1, <2>2 DEF t
    <3> QED
      BY <2>1, <3>1 DEF t
  <2>3. CASE i > Len(s)
    <3>1. t[i] = b[i - Len(s)] /\ i - Len(s) \in 1 .. Len(b)
      BY <1>1, <2>1, <2>3 DEF t
    <3> QED
      BY <2>1, <3>1 DEF t
  <2> QED
    BY <1>1, <2>1, <2>2, <2>3
<1> QED
  BY <1>3, <1>4, <1>5, SMTT(30)

\* What no reference keeps alive has been told of its end, is in no poller, and
\* nothing is left to be called for it.
LEMMA GoneFacts ==
    ASSUME IInv, IInv', LInv, PhaseInv', NEW l, NEW n, NEW none, none = <<>>,
           Moved(l, n, none, l, none), Moves(l, n, none, l, none),
           \A p, d : Ends(l, n, p, d) => p = "closeReturns",
           UNCHANGED <<connections_, loop_, fd_, poller, nccbRun, cccbRun>>,
           NEW c \in Alive, ~Referenced(c)'
    PROVE  /\ state_[c] = "disconnected" /\ c \notin connections_ /\ c \in cccbRun
           /\ ~InPoller(c)
           /\ \A k \in Loops : \A i \in 1 .. Len(Work(k)') : Work(k)'[i].c # c
<1>1. /\ c \notin connections_ /\ c \in Conns
      /\ \A k \in Loops :
            /\ c \notin held'[k]
            /\ \A call \in Range(queue'[k]) \cup Range(stack'[k]) :
                  ~(call.c = c /\ call.op \in SharedOps)
  BY DEF Referenced, Alive
<1>2. ASSUME NEW k \in Loops, NEW i \in 1 .. Len(Work(k)'), Work(k)'[i].c = c
      PROVE  Work(k)'[i].op \notin SharedOps
  <2> DEFINE s == stack'[k]
             b == batch'[k]
             q == queue'[k]
  <2>1. s \in Seq(AllCalls) /\ b \in Seq(AllCalls) /\ q \in Seq(AllCalls)
    BY DEF IInv, StackInv, BatchInv, QueueInv
  <2>2. Work(k)' = s \o b \o q
    BY DEF Work
  <2>3. \A j \in 1 .. Len(b) : b[j].op \in SharedOps => b[j].c # c
    BY <1>1 DEF PhaseInv
  <2>4. \A j \in 1 .. Len(s) : s[j].op \in SharedOps => s[j].c # c
    <3>1. \A j \in 1 .. Len(s) : s[j] \in Range(stack'[k])
      BY <2>1 DEF Range
    <3> QED
      BY <1>1, <3>1
  <2>5. \A j \in 1 .. Len(q) : q[j].op \in SharedOps => q[j].c # c
    <3>1. \A j \in 1 .. Len(q) : q[j] \in Range(queue'[k])
      BY <2>1 DEF Range
    <3> QED
      BY <1>1, <3>1
  <2> HIDE DEF s, b, q
  <2>6. \/ \E j \in 1 .. Len(s) : Work(k)'[i] = s[j]
        \/ \E j \in 1 .. Len(b) : Work(k)'[i] = b[j]
        \/ \E j \in 1 .. Len(q) : Work(k)'[i] = q[j]
    <3>1. i \in 1 .. Len(s \o b \o q)
      BY <2>2
    <3>2. \/ \E j \in 1 .. Len(s) : (s \o b \o q)[i] = s[j]
          \/ \E j \in 1 .. Len(b) : (s \o b \o q)[i] = b[j]
          \/ \E j \in 1 .. Len(q) : (s \o b \o q)[i] = q[j]
      BY <2>1, <3>1, Parts
    <3> QED
      BY <2>2, <3>2
  <2> QED
    BY <1>2, <2>3, <2>4, <2>5, <2>6
<1>3. state_[c] = "disconnected"
  BY <1>1 DEF LInv, LiveInv, Alive
<1>4. ASSUME NEW k \in Loops, NEW op \in SharedOps \ {"closeReturns"} PROVE ~Has(k, op, c)
  <2>1. SUFFICES ASSUME Has(k, op, c) PROVE FALSE
    OBVIOUS
  <2>2. Has(k, op, c)'
    BY <2>1, HasStays
  <2> QED
    BY <1>2, <2>2 DEF Has, At
<1>5. PICK k \in Loops : k = loop_[c]
  BY <1>1 DEF IInv, ConnInv
<1>6. c \in cccbRun /\ ~InPoller(c)
  <2>1. Base \in Loops
    BY DEF Loops
  <2>2. /\ ~Has(Base, "notifyClosed", c) /\ ~Has(k, "cccb", c)
        /\ ~Has(Base, "queueDestroy", c) /\ ~Has(k, "destroy", c)
    BY <1>4, <2>1 DEF SharedOps
  <2> QED
    BY <1>1, <1>5, <2>2 DEF LInv, TakenInv
<1>7. ASSUME NEW h \in Loops, NEW i \in 1 .. Len(Work(h)'), Work(h)'[i].c = c
      PROVE  FALSE
  <2>1. PICK j \in 1 .. Len(Work(h)) : Work(h)'[i] = Work(h)[j]
    <3>1. ~(1 \in 1 .. Len(none))
      OBVIOUS
    <3>2. ~(i \in 1 .. Len(none))
      OBVIOUS
    <3> QED
      BY <3>1, <3>2, Origin
  <2>2. Work(h)[j].op = "closeReturns"
    BY <1>1, <1>3, <1>6, <1>7, <2>1 DEF LInv, GoneInv
  <2> QED
    BY <1>2, <1>7, <2>1, <2>2 DEF SharedOps
<1> QED
  BY <1>1, <1>3, <1>6, <1>7

\* A step that ends the last return of HandleConnectionClose, or no call.
LEMMA ReleaseStep ==
    ASSUME IInv, IInv', LInv, PhaseInv', NEW l, NEW n, NEW none, none = <<>>,
           Moved(l, n, none, l, none), Moves(l, n, none, l, none),
           \A p, d : Ends(l, n, p, d) => p = "closeReturns", Release,
           UNCHANGED <<threads, connections_, loop_, fd_, poller, nccbRun, cccbRun>>,
           \A k \in Loops : active'[k] \subseteq active[k]
    PROVE  LInv'
<1>1. \A c \in Alive : ~Referenced(c)' =>
          /\ state_[c] = "disconnected" /\ c \notin connections_ /\ c \in cccbRun
          /\ ~InPoller(c)
          /\ \A k \in Loops : \A i \in 1 .. Len(Work(k)') : Work(k)'[i].c # c
  BY GoneFacts
<1>2. \A c \in Conns :
         \/ state_'[c] = state_[c]
         \/ c \in Alive /\ ~Referenced(c)' /\ state_'[c] = "freed"
  BY DEF Release, Reset
<1>3. Stable
  BY ReleaseIsStable
<1>4. /\ Alive' \subseteq Alive
      /\ \A c \in Alive : ~Referenced(c)' \/ c \in Alive'
      /\ \A c \in Conns : InPoller(c)' <=> InPoller(c)
  BY <1>2 DEF Alive, InPoller
<1>5. ConnLaw(l, n, none, l, none)
  <2>1. ASSUME NEW k \in Loops, NEW i \in 1 .. Len(Work(k)') PROVE Work(k)'[i].c \in Alive'
    <3>1. PICK j \in 1 .. Len(Work(k)) : Work(k)'[i] = Work(k)[j]
      <4>1. ~(1 \in 1 .. Len(none)) /\ ~(i \in 1 .. Len(none))
        OBVIOUS
      <4> QED
        BY <4>1, Origin, SMTT(30)
    <3>2. Work(k)'[i].c \in Alive
      BY <3>1 DEF LInv, LiveInv
    <3> QED
      BY <1>1, <1>4, <3>2
  <2>2. ASSUME NEW c \in Conns
        PROVE  /\ fd_'[c] = fd_[c] /\ (c \in connections_' <=> c \in connections_)
               /\ \/ state_'[c] = state_[c]
                  \/ state_[c] = "disconnected" /\ state_'[c] = "freed" /\ c \notin connections_
               /\ InPoller(c)' <=> InPoller(c)
    BY <1>1, <1>2, <1>4
  <2>3. nccbRun \subseteq nccbRun' /\ cccbRun \subseteq cccbRun'
    OBVIOUS
  <2> QED
    BY <1>3, <2>1, <2>2, <2>3 DEF ConnLaw
<1>6. EndLaw(l, n, none, l, none) /\ FrontLaw(l, n, none, l, none) /\ RestLaw(l, n, none, l, none)
  <2>1. EndLaw(l, n, none, l, none)
    BY DEF EndLaw
  <2>2. \A i : ~(i \in 1 .. Len(none))
    OBVIOUS
  <2>3. FrontLaw(l, n, none, l, none)
    BY <2>2 DEF FrontLaw
  <2>4. RestLaw(l, n, none, l, none)
    BY <2>2 DEF RestLaw
  <2> QED
    BY <2>1, <2>3, <2>4
<1>7. Step(l, n, none, l, none)
  BY <1>5, <1>6 DEF Step, Lawful
<1>8. FdInv'
  BY <1>4, SameFds DEF LInv
<1>9. ChannelInv'
  <2>1. ASSUME NEW k \in Loops, NEW f \in Fds, NEW c \in Conns, poller'[k][f] = c
        PROVE  c \in Alive' /\ c \in nccbRun' /\ fd_'[c] = f
    <3>1. c \in Alive /\ c \in nccbRun /\ fd_[c] = f
      BY <2>1 DEF LInv, ChannelInv
    <3>2. loop_[c] = k
      BY <2>1 DEF IInv, PollerInv, Local, NoConn, Conns
    <3>3. InPoller(c)
      BY <2>1, <3>1, <3>2 DEF InPoller
    <3> QED
      BY <1>1, <1>4, <3>1, <3>3
  <2>2. ASSUME NEW k \in Loops, NEW a \in active'[k], NEW c \in Conns, a.c = c
        PROVE  c \in Alive' /\ InPoller(c)'
    <3>1. c \in Alive /\ InPoller(c)
      BY <2>2 DEF LInv, ChannelInv
    <3> QED
      BY <1>1, <1>4, <3>1
  <2> QED
    BY <2>1, <2>2 DEF ChannelInv
<1> QED
  BY <1>7, <1>8, <1>9, LifeKeeps

\* A connection is deleted only after its close callback.
LEMMA ReleasesLive ==
    ASSUME IInv, IInv', LInv, NEW l \in Loops,
           EndFunctors(l) \/ \E c \in Conns : CloseReturns(l, c)
    PROVE  LInv' /\ \A c \in Alive : c \notin Alive' => c \in cccbRun
<1> DEFINE none == <<>>
<1>1. /\ UNCHANGED <<active, batch, queue, threads, connections_, loop_, fd_, poller, nccbRun,
                     cccbRun>>
      /\ Release
  BY DEF EndFunctors, CloseReturns, loopVars, queueVars, serverVars, history
<1>2. \A k \in Loops : active'[k] \subseteq active[k]
  BY <1>1
<1>3. none \in Seq(AllCalls) /\ none = <<>>
  OBVIOUS
<1>4. ASSUME NEW n, Moved(l, n, none, l, none), Moves(l, n, none, l, none), PhaseInv',
             \A p, d : Ends(l, n, p, d) => p = "closeReturns"
      PROVE  LInv' /\ \A c \in Alive : c \notin Alive' => c \in cccbRun
  <2> HIDE DEF none
  <2>1. LInv'
    BY <1>1, <1>2, <1>3, <1>4, ReleaseStep
  <2>2. ASSUME NEW c \in Alive, c \notin Alive' PROVE c \in cccbRun
    <3>1. ~Referenced(c)'
      BY <1>1, <2>2 DEF Release, Reset, Alive
    <3> QED
      BY <1>1, <1>3, <1>4, <3>1, GoneFacts
  <2> QED
    BY <2>1, <2>2
<1>5. CASE EndFunctors(l)
  <2>1. /\ phase[l] = "functors" /\ stack[l] = <<>> /\ batch[l] = <<>>
        /\ phase' = [phase EXCEPT ![l] = "timers"] /\ held' = [held EXCEPT ![l] = {}]
        /\ UNCHANGED stack
    BY <1>5 DEF EndFunctors, Idle
  <2>2. Moved(l, 0, none, l, none) /\ Moves(l, 0, none, l, none)
    BY <1>1, <2>1, SameWork, NothingMoves
  <2>3. PhaseInv'
    <3>1. /\ phase' \in [Loops -> Phases] /\ held' \in [Loops -> SUBSET Conns]
          /\ phase'[l] = "timers" /\ active[l] = {}
          /\ \A k \in Loops : k # l => phase'[k] = phase[k] /\ held'[k] = held[k]
      BY <2>1 DEF LInv, PhaseInv, Phases
    <3>2. ASSUME NEW k \in Loops
          PROVE  /\ phase'[k] = "poll" => stack'[k] = <<>>
                 /\ phase'[k] # "handlers" => active'[k] = {}
                 /\ phase'[k] # "functors" => batch'[k] = <<>>
                 /\ \A i \in 1 .. Len(stack'[k]) :
                       stack'[k][i].op = "destroy" => phase'[k] = "functors"
                 /\ \A i \in 1 .. Len(queue'[k]) : queue'[k][i].op \in FunctorOps
                 /\ \A i \in 1 .. Len(batch'[k]) :
                       /\ batch'[k][i].op \in FunctorOps
                       /\ batch'[k][i].op \in SharedOps => batch'[k][i].c \in held'[k]
      <4>1. CASE k = l
        <5>1. batch'[k] = <<>> /\ stack'[k] = <<>> /\ active'[k] = {} /\ queue'[k] = queue[k]
          BY <1>1, <2>1, <3>1, <4>1
        <5>2. \A i \in 1 .. Len(queue[k]) : queue[k][i].op \in FunctorOps
          BY DEF LInv, PhaseInv
        <5> QED
          BY <3>1, <4>1, <5>1, <5>2
      <4>2. CASE k # l
        BY <1>1, <2>1, <3>1, <4>2 DEF LInv, PhaseInv
      <4> QED
        BY <4>1, <4>2
    <3> QED
      BY <3>1, <3>2 DEF PhaseInv
  <2>4. \A p, d : Ends(l, 0, p, d) => p = "closeReturns"
    BY DEF Ends
  <2> QED
    BY <1>4, <2>2, <2>3, <2>4
<1>6. ASSUME NEW c \in Conns, CloseReturns(l, c)
      PROVE  LInv' /\ \A d \in Alive : d \notin Alive' => d \in cccbRun
  <2>1. /\ Calls(l, "closeReturns", c) /\ Continue(l, none)
        /\ UNCHANGED <<phase, active, batch, held, queue>>
    BY <1>6 DEF CloseReturns, loopVars, queueVars
  <2>2. /\ 1 <= Len(stack[l]) /\ stack[l] # <<>>
        /\ \A p, d : Ends(l, 1, p, d) => p = "closeReturns"
    BY <2>1, HeadCall
  <2>3. Moved(l, 1, none, l, none) /\ Moves(l, 1, none, l, none)
    BY <1>3, <2>1, <2>2, ContinueMoves
  <2>4. PhaseInv'
    <3>1. \A i \in 1 .. Len(none) : none[i].op # "destroy"
      OBVIOUS
    <3> HIDE DEF none
    <3> QED
      BY <1>3, <2>1, <2>2, <3>1, PhaseKeeps DEF LInv
  <2> QED
    BY <1>4, <2>2, <2>3, <2>4
<1> QED
  BY <1>5, <1>6

-----------------------------------------------------------------------------
(* Accept *)

\* A new connection gets a descriptor no other has.
LEMMA AcceptLives ==
    ASSUME IInv, IInv', LInv, Accept
    PROVE  LInv' /\ ~aborted'
<1>1. PICK c \in Conns, m \in Loops, f \in Fds :
          /\ IsLeast(c, {d \in Conns : state_[d] = "none"})
          /\ IsLeast(f, Fds \ {fd_[d] : d \in Alive})
          /\ state_' = [state_ EXCEPT ![c] = "connected"]
          /\ loop_' = [loop_ EXCEPT ![c] = m]
          /\ fd_' = [fd_ EXCEPT ![c] = f]
          /\ aborted' = \E d \in connections_ : fd_[d] = f
          /\ connections_' = connections_ \cup {c}
          /\ IF m = Base
             THEN /\ stack' = [stack EXCEPT ![m] =
                                  <<Call("nccb", c), Call("startReading", c)>>]
                  /\ UNCHANGED queueVars
             ELSE /\ stack' = [stack EXCEPT ![Base] = <<Call("startReading", c)>>]
                  /\ queue' = [queue EXCEPT ![m] = Append(@, Call("nccb", c))]
  BY DEF Accept
<1>2. /\ UNCHANGED <<phase, active, batch, held, threads, poller, nccbRun, cccbRun>>
      /\ phase[Base] = "handlers" /\ stack[Base] = <<>> /\ Base \in Loops
  BY DEF Accept, Idle, loopVars, channelVars, history, Loops
<1> DEFINE x == Call("nccb", c)
           y == Call("startReading", c)
<1>3. /\ x \in AllCalls /\ x.op = "nccb" /\ x.c = c
      /\ y \in AllCalls /\ y.op = "startReading" /\ y.c = c
  BY DEF Call, AllCalls, ServerOps, ConnOps
<1> HIDE DEF x, y
<1>4. /\ state_[c] = "none" /\ c \notin Alive /\ f \in Nat
      /\ \A d \in Alive : fd_[d] # f
  BY <1>1, BoundsAssumption DEF IsLeast, Alive
<1>5. /\ state_'[c] = "connected" /\ loop_'[c] = m /\ fd_'[c] = f
      /\ \A d \in Conns : d # c => /\ state_'[d] = state_[d] /\ loop_'[d] = loop_[d]
                                   /\ fd_'[d] = fd_[d]
      /\ fd_' \in [Conns -> Nat]
  BY <1>1, <1>4 DEF IInv, ConnInv, LInv, FdInv
<1>6. /\ Alive' = Alive \cup {c} /\ c \in Alive'
      /\ \A d \in Alive : d \in Conns /\ d # c /\ (InPoller(d)' <=> InPoller(d))
  BY <1>2, <1>4, <1>5 DEF Alive, InPoller
<1>7. Stable
  BY <1>2, <1>4, <1>5 DEF Stable, IInv
<1>8. ~aborted'
  BY <1>1, <1>4 DEF LInv, LiveInv
<1>9. \A k \in Loops : \A op : ~Has(k, op, c)
  BY <1>4 DEF LInv, LiveInv, Has, At
<1>10. PICK front \in {<<x, y>>, <<y>>}, rest \in {<<>>, <<x>>} :
          /\ Moved(Base, 0, front, m, rest) /\ Moves(Base, 0, front, m, rest)
          /\ stack' = [stack EXCEPT ![Base] = front]
          /\ \/ front = <<x, y>> /\ rest = <<>> /\ m = Base /\ UNCHANGED queue
             \/ /\ front = <<y>> /\ rest = <<x>> /\ m # Base
                /\ queue' = [queue EXCEPT ![m] = Append(queue[m], x)]
  <2>1. CASE m = Base
    <3>1. stack' = [stack EXCEPT ![Base] = <<x, y>>] /\ UNCHANGED queue
      BY <1>1, <2>1 DEF queueVars, x, y
    <3>2. <<x, y>> \in Seq(AllCalls)
      BY <1>3
    <3>3. Moved(Base, 0, <<x, y>>, Base, <<>>) /\ Moves(Base, 0, <<x, y>>, Base, <<>>)
      BY <1>2, <3>1, <3>2, BeginMoves
    <3> QED
      BY <2>1, <3>1, <3>3
  <2>2. CASE m # Base
    <3>1. /\ stack' = [stack EXCEPT ![Base] = <<y>>]
          /\ queue' = [queue EXCEPT ![m] = Append(queue[m], x)]
      BY <1>1, <2>2 DEF x, y
    <3>2. /\ stack \in [Loops -> Seq(AllCalls)] /\ queue \in [Loops -> Seq(AllCalls)]
          /\ queue[m] \in Seq(AllCalls)
      BY DEF IInv, StackInv, QueueInv
    <3>3. <<y>> \in Seq(AllCalls) /\ <<x>> \in Seq(AllCalls) /\ Len(<<x>>) <= 1
          /\ 0 \in 0 .. 1 /\ 0 <= Len(stack[Base])
      BY <1>2, <1>3
    <3>4. stack' = [stack EXCEPT ![Base] = <<y>> \o IF 0 = 1 THEN Tail(stack[Base])
                                                    ELSE stack[Base]]
      <4>1. <<y>> \o <<>> = <<y>>
        BY <3>3, ConcatEmptySeq
      <4>2. (IF 0 = 1 THEN Tail(stack[Base]) ELSE stack[Base]) = <<>>
        BY <1>2
      <4> QED
        BY <3>1, <4>1, <4>2
    <3>5. queue' = [queue EXCEPT ![m] = queue[m] \o <<x>>]
      <4>1. Append(queue[m], x) = queue[m] \o <<x>>
        BY <1>3, <3>2, AppendIsConcat
      <4> QED
        BY <3>1, <4>1
    <3>6. Moved(Base, 0, <<y>>, m, <<x>>) /\ Moves(Base, 0, <<y>>, m, <<x>>)
      BY <1>2, <3>3, <3>4, <3>5, MovesAre
    <3> QED
      BY <2>2, <3>1, <3>6
  <2> QED
    BY <2>1, <2>2
<1>11. /\ front \in Seq(AllCalls) /\ Len(front) \in Nat
       /\ \A i \in 1 .. Len(front) :
             /\ front[i] = y \/ (front[i] = x /\ m = Base)
             /\ m = Base /\ front[i] = y => 1 \in 1 .. i - 1 /\ front[1] = x
       /\ m = Base => 1 \in 1 .. Len(front) /\ front[1] = x
       /\ m # Base => Len(rest) = 1 /\ rest[1] = x
       /\ \A i \in 1 .. Len(rest) : rest[i] = x /\ m # Base
  <2>1. CASE front = <<x, y>> /\ rest = <<>> /\ m = Base
    <3>1. /\ front \in Seq(AllCalls) /\ Len(front) = 2 /\ front[1] = x /\ front[2] = y
          /\ Len(rest) = 0 /\ x # y
      BY <1>3, <2>1
    <3> QED
      BY <2>1, <3>1
  <2>2. CASE front = <<y>> /\ rest = <<x>> /\ m # Base
    <3>1. /\ front \in Seq(AllCalls) /\ Len(front) = 1 /\ front[1] = y
          /\ Len(rest) = 1 /\ rest[1] = x
      BY <1>3, <2>2
    <3> QED
      BY <2>2, <3>1
  <2> QED
    BY <1>10, <2>1, <2>2
<1>12. Has(m, "nccb", c)'
  <2>1. CASE m = Base
    <3>1. 1 \in 1 .. Len(Work(Base)') /\ Work(Base)'[1] = x
      BY <1>10, <1>11, <2>1, FrontPlaces
    <3> QED
      BY <1>3, <2>1, <3>1 DEF Has, At
  <2>2. CASE m # Base
    <3>1. Has(m, rest[1].op, rest[1].c)'
      BY <1>10, <1>11, <2>2, RestPlaces
    <3> QED
      BY <1>3, <1>11, <2>2, <3>1
  <2> QED
    BY <2>1, <2>2
<1>13. ConnLaw(Base, 0, front, m, rest)
  <2>1. \A k \in Loops : \A i \in 1 .. Len(Work(k)') : Work(k)'[i].c \in Alive'
    <3>1. \A i \in 1 .. Len(front) : front[i].c \in Alive'
      BY <1>3, <1>6, <1>11
    <3>2. \A i \in 1 .. Len(rest) : rest[i].c \in Alive'
      BY <1>3, <1>6, <1>11
    <3> QED
      BY <1>6, <1>10, <3>1, <3>2, CallsAlive
  <2>2. nccbRun \subseteq nccbRun' /\ cccbRun \subseteq cccbRun'
    BY <1>2
  <2>3. \A k \in Loops : k = loop_'[c] => Has(k, "nccb", c)'
    BY <1>5, <1>12
  <2>4. ASSUME NEW d \in Conns
        PROVE  /\ state_[d] # "none" => fd_'[d] = fd_[d]
               /\ \/ state_'[d] = state_[d]
                  \/ /\ state_[d] = "none" /\ state_'[d] = "connected" /\ d \in connections_'
                     /\ \A k \in Loops : k = loop_'[d] => Has(k, "nccb", d)'
               /\ d \in connections_' /\ d \notin connections_ => state_[d] = "none"
               /\ d \in connections_ => d \in connections_'
               /\ d \in Alive => (InPoller(d)' <=> InPoller(d))
    BY <1>1, <1>4, <1>5, <1>6, <2>3
  <2> QED
    BY <1>7, <2>1, <2>2, <2>4 DEF ConnLaw
<1>14. EndLaw(Base, 0, front, m, rest)
  BY DEF EndLaw, Ends
<1>15. FrontLaw(Base, 0, front, m, rest)
  <2>1. ASSUME NEW i \in 1 .. Len(front), NEW d \in Conns, front[i].c = d
        PROVE  /\ NewLaw(Base, 0, front, m, rest, front[i].op, d)
               /\ front[i].op \in {"nccb", "startReading"}
               /\ Base = loop_'[d] /\ front[i].op # "nccb" =>
                     \E j \in 1 .. i - 1 : front[j].op = "nccb" /\ front[j].c = d
               /\ state_[d] = "none" /\ d \in connections_'
    <3>1. d = c /\ front[i].op \in {"nccb", "startReading"}
      BY <1>3, <1>11, <2>1
    <3>2. NewLaw(Base, 0, front, m, rest, front[i].op, c)
      BY <1>5, <3>1 DEF NewLaw, TakenOps
    <3>3. Base = loop_'[c] /\ front[i].op # "nccb" =>
             \E j \in 1 .. i - 1 : front[j].op = "nccb" /\ front[j].c = c
      BY <1>3, <1>5, <1>11
    <3> QED
      BY <1>1, <1>4, <3>1, <3>2, <3>3
  <2> QED
    BY <1>2, <2>1 DEF FrontLaw
<1>16. RestLaw(Base, 0, front, m, rest)
  <2>1. ASSUME NEW i \in 1 .. Len(rest), NEW d \in Conns, rest[i].c = d
        PROVE  /\ NewLaw(Base, 0, front, m, rest, rest[i].op, d)
               /\ rest[i].op = "nccb" /\ ~Has(m, "destroy", d)
    <3>1. d = c /\ rest[i].op = "nccb"
      BY <1>3, <1>11, <2>1
    <3>2. NewLaw(Base, 0, front, m, rest, rest[i].op, c)
      BY <1>5, <3>1 DEF NewLaw, TakenOps
    <3> QED
      BY <1>9, <3>1, <3>2
  <2> QED
    BY <2>1 DEF RestLaw, FunctorOps
<1>17. Step(Base, 0, front, m, rest)
  BY <1>10, <1>13, <1>14, <1>15, <1>16 DEF Step, Lawful
<1>18. PhaseInv'
  <2>1. /\ stack'[Base] = front /\ \A k \in Loops : k # Base => stack'[k] = stack[k]
        /\ queue \in [Loops -> Seq(AllCalls)]
    BY <1>10 DEF IInv, StackInv, QueueInv
  <2>2. \A i \in 1 .. Len(front) : front[i].op # "destroy"
    BY <1>3, <1>11
  <2>3. ASSUME NEW k \in Loops PROVE \A i \in 1 .. Len(queue'[k]) : queue'[k][i].op \in FunctorOps
    <3>1. CASE queue'[k] = queue[k]
      BY <3>1 DEF LInv, PhaseInv
    <3>2. CASE queue'[k] = Append(queue[k], x)
      <4>1. \A i \in 1 .. Len(queue[k]) : queue[k][i].op \in FunctorOps
        BY DEF LInv, PhaseInv
      <4>2. /\ Len(queue'[k]) = Len(queue[k]) + 1
            /\ \A i \in 1 .. Len(queue[k]) : queue'[k][i] = queue[k][i]
            /\ queue'[k][Len(queue[k]) + 1] = x /\ Len(queue[k]) \in Nat
        BY <1>3, <2>1, <3>2, AppendProperties
      <4>3. \A i \in 1 .. Len(queue[k]) + 1 : i \in 1 .. Len(queue[k]) \/ i = Len(queue[k]) + 1
        BY <4>2
      <4>4. x.op \in FunctorOps
        BY <1>3 DEF FunctorOps
      <4> QED
        BY <4>1, <4>2, <4>3, <4>4
    <3> QED
      BY <1>10, <2>1, <3>1, <3>2
  <2>4. ASSUME NEW k \in Loops
        PROVE  /\ phase'[k] = "poll" => stack'[k] = <<>>
               /\ \A i \in 1 .. Len(stack'[k]) :
                     stack'[k][i].op = "destroy" => phase'[k] = "functors"
    <3>1. CASE k = Base
      BY <1>2, <2>1, <2>2, <3>1
    <3>2. CASE k # Base
      BY <1>2, <2>1, <3>2 DEF LInv, PhaseInv
    <3> QED
      BY <3>1, <3>2
  <2> QED
    BY <1>2, <2>3, <2>4 DEF LInv, PhaseInv
<1>19. FdInv'
  BY <1>4, <1>5, <1>6 DEF LInv, FdInv
<1>20. ChannelInv'
  <2>1. \A k \in Loops, g \in Fds, d \in Conns :
           poller'[k][g] = d => d \in Alive' /\ d \in nccbRun' /\ fd_'[d] = g
    BY <1>2, <1>5, <1>6 DEF LInv, ChannelInv
  <2>2. \A k \in Loops : \A a \in active'[k] : \A d \in Conns :
           a.c = d => d \in Alive' /\ InPoller(d)'
    BY <1>2, <1>6 DEF LInv, ChannelInv
  <2> QED
    BY <2>1, <2>2 DEF ChannelInv
<1> QED
  BY <1>8, <1>17, <1>18, <1>19, <1>20, LifeKeeps

-----------------------------------------------------------------------------
(* The invariant holds *)

\* The invariant holds at first, and every step keeps it.
LEMMA InitLInv == Init => LInv
<1> SUFFICES ASSUME Init PROVE LInv
  OBVIOUS
<1>1. Alive = {} /\ \A l \in Loops, f \in Fds, c \in Conns : poller[l][f] # c
  BY DEF Init, Alive, NoConn, Conns
<1>2. ASSUME NEW l \in Loops
      PROVE  stack[l] = <<>> /\ batch[l] = <<>> /\ queue[l] = <<>> /\ Work(l) = <<>>
  <2>1. <<>> \o <<>> = <<>>
    OBVIOUS
  <2>2. stack[l] = <<>> /\ batch[l] = <<>> /\ queue[l] = <<>>
    BY DEF Init
  <2> QED
    BY <2>1, <2>2, Zenon DEF Work
<1>3. \A l \in Loops : \A i : ~(i \in 1 .. Len(Work(l)))
  BY <1>2
<1>4. Base \in Loops /\ \A op, c : ~Has(Base, op, c)
  BY <1>3 DEF Has, Loops
<1>5. PhaseInv
  BY <1>2 DEF Init, PhaseInv, Phases
<1>6. FdInv
  BY <1>1 DEF Init, FdInv
<1>7. ChannelInv
  BY <1>1 DEF Init, ChannelInv
<1>8. connections_ = {} /\ \A c \in Conns : state_[c] = "none"
  BY DEF Init
<1>9. LiveInv /\ NccbInv /\ ActiveCloseInv /\ HandleCloseInv /\ ServedInv
  BY <1>1, <1>3, <1>4, <1>8 DEF LiveInv, NccbInv, ActiveCloseInv, HandleCloseInv, ServedInv
<1>10. TakenInv /\ NotifyInv /\ QueueDestroyInv /\ DestroyInv /\ GoneInv /\ StartInv
  BY <1>1, <1>3, <1>4, <1>8 DEF TakenInv, NotifyInv, QueueDestroyInv, DestroyInv, GoneInv, StartInv
<1> QED
  BY <1>5, <1>6, <1>7, <1>9, <1>10 DEF LInv

\* Every step keeps the invariant.
LEMMA NextLInv == IInv /\ IInv' /\ LInv /\ [Next]_vars => LInv'
<1> SUFFICES ASSUME IInv, IInv', LInv, [Next]_vars PROVE LInv'
  OBVIOUS
<1>1. CASE Accept
  BY <1>1, AcceptLives
<1>2. CASE AcceptLost \/ AcceptFails \/ (\E c \in Conns : PeerStep(c)) \/ UNCHANGED vars
  BY <1>2, PeersLive
<1>3. ASSUME NEW l \in Loops, PollReturns(l) PROVE LInv'
  BY <1>3, PollLives DEF PollReturns
<1>4. ASSUME NEW l \in Loops, NEW c \in Conns, TimerFires(l, c) PROVE LInv'
  BY <1>4, TimerLives
<1>5. ASSUME NEW l \in Loops, NEW c \in Conns, CallStep(l, c) PROVE LInv'
  <2>1. CASE StartReading(l, c) \/ NotifyClosed(l, c) \/ QueueDestroy(l, c)
    BY <2>1, HandOnLives
  <2>2. CASE \/ NewConnectionCallback(l, c) \/ CloseCallback(l, c) \/ ReadData(l, c)
             \/ WriteWouldBlock(l, c) \/ WriteFails(l, c) \/ EnableReading(l, c)
             \/ Write(l, c) \/ WriteAll(l, c)
    BY <2>2, UserStepsLive
  <2>3. CASE HandleConnectionClose(l, c)
    BY <2>3, HandleCloseLives
  <2>4. CASE CloseReturns(l, c)
    BY <2>4, ReleasesLive
  <2>5. CASE ActiveClose(l, c) \/ ReadEnd(l, c)
    BY <2>5, ClosesLive
  <2>6. CASE Destroy(l, c)
    BY <2>6, DestroyLives
  <2> QED
    BY <1>5, <2>1, <2>2, <2>3, <2>4, <2>5, <2>6 DEF CallStep
<1>6. ASSUME NEW l \in Loops, LoopStep(l) PROVE LInv'
  BY <1>5, <1>6, HandleEventsLives, SwapLives, RunFunctorLives, ReleasesLive, EndIterationLives
     DEF LoopStep
<1> QED
  BY <1>1, <1>2, <1>3, <1>4, <1>6 DEF Next

-----------------------------------------------------------------------------
(* The theorems *)

\* Every element of s is one of w.
Within(s, w) == \A j \in 1 .. Len(s) : \E i \in 1 .. Len(w) : w[i] = s[j]

\* The three parts of a loop's work.
LEMMA Whole ==
    ASSUME NEW S, NEW s \in Seq(S), NEW b \in Seq(S), NEW q \in Seq(S)
    PROVE  Within(s, s \o b \o q) /\ Within(b, s \o b \o q) /\ Within(q, s \o b \o q)
<1>1. /\ s \o b \in Seq(S) /\ Len(s \o b) = Len(s) + Len(b)
      /\ Len(s) \in Nat /\ Len(b) \in Nat /\ Len(q) \in Nat
      /\ \A j \in 1 .. Len(s) + Len(b) :
            (s \o b)[j] = IF j <= Len(s) THEN s[j] ELSE b[j - Len(s)]
  BY ConcatProperties
<1> DEFINE t == s \o b
<1> HIDE DEF t
<1>2. /\ Len(t \o q) = Len(t) + Len(q) /\ Len(t) \in Nat
      /\ \A j \in 1 .. Len(t) + Len(q) :
            (t \o q)[j] = IF j <= Len(t) THEN t[j] ELSE q[j - Len(t)]
  BY <1>1, ConcatProperties DEF t
<1>3. ASSUME NEW j \in 1 .. Len(t) PROVE \E i \in 1 .. Len(t \o q) : (t \o q)[i] = t[j]
  BY <1>2
<1>4. ASSUME NEW j \in 1 .. Len(q) PROVE \E i \in 1 .. Len(t \o q) : (t \o q)[i] = q[j]
  <2>1. Len(t) + j \in 1 .. Len(t \o q) /\ (t \o q)[Len(t) + j] = q[j]
    BY <1>1, <1>2
  <2> QED
    BY <2>1
<1>5. ASSUME NEW j \in 1 .. Len(s) PROVE \E i \in 1 .. Len(t \o q) : (t \o q)[i] = s[j]
  <2>1. j \in 1 .. Len(t) /\ t[j] = s[j]
    BY <1>1 DEF t
  <2> QED
    BY <1>3, <2>1
<1>6. ASSUME NEW j \in 1 .. Len(b) PROVE \E i \in 1 .. Len(t \o q) : (t \o q)[i] = b[j]
  <2>1. Len(s) + j \in 1 .. Len(t) /\ t[Len(s) + j] = b[j]
    BY <1>1 DEF t
  <2> QED
    BY <1>3, <2>1
<1>7. Within(s, t \o q) /\ Within(b, t \o q) /\ Within(q, t \o q)
  BY <1>4, <1>5, <1>6 DEF Within
<1> QED
  BY <1>7 DEF t

\* What is called, polled or reported exists.
LEMMA LInvImplies ==
    ASSUME IInv, LInv
    PROVE  NoDanglingPointers
<1> SUFFICES ASSUME NEW l \in Loops
             PROVE  /\ Registered(l) \subseteq Alive
                    /\ {a.c : a \in active[l]} \subseteq Alive
                    /\ {call.c : call \in Range(queue[l] \o batch[l] \o stack[l])} \subseteq Alive
  BY DEF NoDanglingPointers
<1>1. Registered(l) \subseteq Alive
  BY DEF Registered, IInv, PollerInv, LInv, ChannelInv
<1>2. {a.c : a \in active[l]} \subseteq Alive
  BY DEF IInv, ActiveInv, LInv, ChannelInv
<1>3. ASSUME NEW call \in Range(queue[l] \o batch[l] \o stack[l]) PROVE call.c \in Alive
  <2> DEFINE s == stack[l]
             b == batch[l]
             q == queue[l]
  <2>1. s \in Seq(AllCalls) /\ b \in Seq(AllCalls) /\ q \in Seq(AllCalls)
    BY DEF IInv, StackInv, BatchInv, QueueInv
  <2>2. Work(l) = s \o b \o q
    BY DEF Work
  <2>3. \E i \in DOMAIN (q \o b \o s) : call = (q \o b \o s)[i]
    BY DEF Range
  <2> HIDE DEF s, b, q
  <2>4. DOMAIN (q \o b \o s) = 1 .. Len(q \o b \o s)
    BY <2>1
  <2>5. \/ \E j \in 1 .. Len(q) : call = q[j]
        \/ \E j \in 1 .. Len(b) : call = b[j]
        \/ \E j \in 1 .. Len(s) : call = s[j]
    BY <2>1, <2>3, <2>4, Parts
  <2>6. \E i \in 1 .. Len(s \o b \o q) : call = (s \o b \o q)[i]
    <3>1. Within(s, s \o b \o q) /\ Within(b, s \o b \o q) /\ Within(q, s \o b \o q)
      BY <2>1, Whole, Zenon
    <3> QED
      BY <2>5, <3>1 DEF Within
  <2> QED
    BY <2>2, <2>6 DEF LInv, LiveInv
<1> QED
  BY <1>1, <1>2, <1>3

\* A loop keeps bare Channel pointers in its poller and among the channels that
\* Poll returned, and EnableReading is queued with one; calls and functors hold
\* a connection by reference or by descriptor.  None of them outlives the
\* connection, whatever the order in which the two loops, the user's callbacks
\* and the peers end it.
THEOREM NothingDangles == Spec => []NoDanglingPointers
<1>1. Init => IInv /\ LInv
  BY InitIInv, InitLInv
<1>2. (IInv /\ LInv) /\ [Next]_vars => (IInv /\ LInv)'
  BY NextIInv, NextLInv
<1>3. IInv /\ LInv => NoDanglingPointers
  BY LInvImplies
<1> QED
  BY <1>1, <1>2, <1>3, PTL DEF Spec

\* What a step changes that the assertions and the callbacks are about.
LEMMA AssertionsStay ==
    ASSUME IInv, IInv', LInv, AssertionsHold, [Next]_vars
    PROVE  AssertionsHold'
<1>1. CASE UNCHANGED vars
  BY <1>1 DEF AssertionsHold, vars, serverVars, sockets
<1>2. CASE UNCHANGED aborted /\ ~aborted
  BY <1>2 DEF AssertionsHold
<1>3. CASE Accept
  BY <1>3, AcceptLives DEF AssertionsHold
<1>4. CASE AcceptLost \/ AcceptFails
  BY <1>4 DEF AcceptLost, AcceptFails, AssertionsHold, Reset
<1>5. ASSUME NEW l \in Loops, NEW c \in Conns, HandleConnectionClose(l, c)
      PROVE  UNCHANGED aborted /\ ~aborted
  BY <1>5, CloseFinds DEF Calls
<1>6. ASSUME NEW l \in Loops, NEW c \in Conns, ActiveClose(l, c) \/ Destroy(l, c)
      PROVE  AssertionsHold'
  <2>1. CASE ActiveClose(l, c)
    <3>1. Calls(l, "activeClose", c)
      BY <2>1 DEF ActiveClose
    <3>2. state_[c] = "connected"
      BY <3>1, HeadFacts
    <3> QED
      BY <2>1, <3>1, <3>2 DEF ActiveClose, Calls, AssertionsHold, sockets
  <2>2. CASE Destroy(l, c)
    <3>1. Calls(l, "destroy", c)
      BY <2>2 DEF Destroy
    <3>2. state_[c] = "disconnected" /\ l = loop_[c]
      BY <3>1, HeadCall, HeadFacts DEF TakenOps, Alive, ServerOps
    <3>3. poller[l][fd_[c]] = c /\ c # NoConn
      BY <3>1, <3>2, HeadFacts DEF InPoller, NoConn, Conns
    <3> QED
      BY <2>2, <3>1, <3>2, <3>3 DEF Destroy, Calls, AssertionsHold, sockets
  <2> QED
    BY <1>6, <2>1, <2>2
<1>7. ASSUME NEW l \in Loops, NEW c \in Conns, CallStep(l, c)
      PROVE  (UNCHANGED aborted /\ ~aborted) \/ AssertionsHold'
  <2>1. CASE \/ StartReading(l, c) \/ EnableReading(l, c) \/ NotifyClosed(l, c)
             \/ QueueDestroy(l, c) \/ CloseReturns(l, c) \/ NewConnectionCallback(l, c)
             \/ CloseCallback(l, c) \/ Write(l, c)
    BY <2>1 DEF StartReading, EnableReading, NotifyClosed, QueueDestroy, CloseReturns,
                NewConnectionCallback, CloseCallback, Write, Calls
  <2>2. CASE \/ ReadData(l, c) \/ ReadEnd(l, c) \/ WriteAll(l, c) \/ WriteWouldBlock(l, c)
             \/ WriteFails(l, c)
    BY <2>2 DEF ReadData, ReadEnd, WriteAll, WriteWouldBlock, WriteFails, Calls
  <2> QED
    BY <1>5, <1>6, <1>7, <2>1, <2>2 DEF CallStep
<1>8. ASSUME NEW l \in Loops,
             \/ HandleEvents(l) \/ SwapFunctors(l) \/ RunFunctor(l) \/ EndFunctors(l)
             \/ EndIteration(l) \/ PollReturns(l) \/ \E c \in Conns : TimerFires(l, c)
      PROVE  UNCHANGED aborted /\ ~aborted
  BY <1>8 DEF HandleEvents, SwapFunctors, RunFunctor, EndFunctors, EndIteration, PollReturns,
              Poll, TimerFires, Idle
<1>9. ASSUME NEW c \in Conns, PeerStep(c) PROVE UNCHANGED aborted /\ ~aborted
  BY <1>9 DEF PeerStep, PeerSends, PeerCloses, PeerResets
<1>10. CASE Next
  BY <1>2, <1>3, <1>4, <1>7, <1>8, <1>9, <1>10 DEF Next, LoopStep
<1> QED
  BY <1>1, <1>10

\* The PCHECKs of shutdown and of the poller, and the assertions on the state,
\* the map and its keys, hold at every call, but for the two that the network
\* can make fail.
THEOREM NoAssertionFails == Spec => []AssertionsHold
<1>1. Init => IInv /\ LInv /\ AssertionsHold
  BY InitIInv, InitLInv DEF Init, AssertionsHold
<1>2. (IInv /\ LInv /\ AssertionsHold) /\ [Next]_vars => (IInv /\ LInv /\ AssertionsHold)'
  BY NextIInv, NextLInv, AssertionsStay
<1> QED
  BY <1>1, <1>2, PTL DEF Spec

\* The callbacks stay paired.
LEMMA CallbacksStay ==
    ASSUME IInv, IInv', LInv, CallbacksPaired, [Next]_vars
    PROVE  CallbacksPaired'
<1>1. ASSUME nccbRun \subseteq nccbRun', UNCHANGED cccbRun,
             \A c \in Conns : state_'[c] = "freed" => state_[c] = "freed"
      PROVE  CallbacksPaired'
  BY <1>1 DEF CallbacksPaired
<1>2. ASSUME UNCHANGED <<nccbRun, cccbRun, state_>> PROVE CallbacksPaired'
  BY <1>1, <1>2
<1>3. CASE UNCHANGED vars
  BY <1>2, <1>3 DEF vars, history, connVars
<1>4. CASE Accept
  <2>1. UNCHANGED <<nccbRun, cccbRun>> /\ \E c \in Conns : state_' = [state_ EXCEPT ![c] = "connected"]
    BY <1>4 DEF Accept, history
  <2>2. \A c \in Conns : state_'[c] = "freed" => state_[c] = "freed"
    BY <2>1 DEF IInv, ConnInv
  <2> QED
    BY <1>1, <2>1, <2>2
<1>5. CASE AcceptLost \/ AcceptFails \/ \E c \in Conns : PeerStep(c)
  BY <1>2, <1>5 DEF AcceptLost, AcceptFails, PeerStep, PeerSends, PeerCloses, PeerResets, history, connVars
<1>6. ASSUME NEW l \in Loops, EndFunctors(l) \/ \E c \in Conns : CloseReturns(l, c)
      PROVE  CallbacksPaired'
  <2>1. UNCHANGED <<nccbRun, cccbRun>> /\ Release
    BY <1>6 DEF EndFunctors, CloseReturns, history
  <2>2. \A c \in Alive : c \notin Alive' => c \in cccbRun
    BY <1>6, ReleasesLive
  <2>3. ASSUME NEW c \in Conns, state_'[c] = "freed" PROVE state_[c] = "freed" \/ c \in cccbRun
    BY <2>1, <2>2, <2>3 DEF Release, Reset, Alive
  <2> QED
    BY <2>1, <2>3 DEF CallbacksPaired
<1>7. ASSUME NEW l \in Loops, NEW c \in Conns, CallStep(l, c), ~CloseReturns(l, c)
      PROVE  CallbacksPaired'
  <2>1. CASE CloseCallback(l, c)
    <3>1. /\ Calls(l, "cccb", c) /\ cccbRun' = cccbRun \cup {c}
          /\ UNCHANGED <<nccbRun, state_>>
      BY <2>1 DEF CloseCallback, connVars
    <3>2. c \in nccbRun
      BY <3>1, HeadCall, HeadFacts DEF ServerOps
    <3> QED
      BY <3>1, <3>2 DEF CallbacksPaired
  <2>2. CASE NewConnectionCallback(l, c)
    BY <1>1, <2>2 DEF NewConnectionCallback
  <2>3. CASE ActiveClose(l, c) \/ ReadEnd(l, c)
    <3>1. /\ UNCHANGED <<nccbRun, cccbRun>>
          /\ UNCHANGED state_ \/ state_' = [state_ EXCEPT ![c] = "disconnected"]
      BY <2>3 DEF ActiveClose, ReadEnd, PassiveClose, history
    <3>2. \A d \in Conns : state_'[d] = "freed" => state_[d] = "freed"
      BY <3>1 DEF IInv, ConnInv
    <3> QED
      BY <1>1, <3>1, <3>2
  <2>4. CASE \/ StartReading(l, c) \/ EnableReading(l, c) \/ NotifyClosed(l, c)
             \/ QueueDestroy(l, c) \/ HandleConnectionClose(l, c) \/ Destroy(l, c)
    BY <1>2, <2>4 DEF StartReading, EnableReading, NotifyClosed, QueueDestroy,
                      HandleConnectionClose, Destroy, history, connVars
  <2>5. CASE \/ Write(l, c) \/ ReadData(l, c) \/ WriteAll(l, c) \/ WriteWouldBlock(l, c)
             \/ WriteFails(l, c)
    BY <1>2, <2>5 DEF Write, ReadData, WriteAll, WriteWouldBlock, WriteFails, history, connVars
  <2> QED
    BY <1>7, <2>1, <2>2, <2>3, <2>4, <2>5 DEF CallStep
<1>8. ASSUME NEW l \in Loops,
             \/ HandleEvents(l) \/ SwapFunctors(l) \/ RunFunctor(l)
             \/ EndIteration(l) \/ PollReturns(l) \/ \E c \in Conns : TimerFires(l, c)
      PROVE  CallbacksPaired'
  BY <1>2, <1>8 DEF HandleEvents, SwapFunctors, RunFunctor, EndIteration, PollReturns,
                    Poll, TimerFires, history, connVars
<1>9. CASE Next
  BY <1>4, <1>5, <1>6, <1>7, <1>8, <1>9 DEF Next, LoopStep
<1> QED
  BY <1>3, <1>9

\* OnConnectionClosed's chain - the map, the close callback, Destroy, the last
\* reference - keeps its order over two loops: no connection is deleted before
\* its close callback ran, and none hears of its end before its beginning.
THEOREM BothCallbacksRun == Spec => []CallbacksPaired
<1>1. Init => IInv /\ LInv /\ CallbacksPaired
  BY InitIInv, InitLInv DEF Init, CallbacksPaired
<1>2. (IInv /\ LInv /\ CallbacksPaired) /\ [Next]_vars => (IInv /\ LInv /\ CallbacksPaired)'
  BY NextIInv, NextLInv, CallbacksStay
<1> QED
  BY <1>1, <1>2, PTL DEF Spec

-----------------------------------------------------------------------------
(* What is read, and when *)

Open(c) == state_[c] = "connected" \/ c \in reopened

SocketTypes ==
    /\ events_ \in [Conns -> SUBSET {"in", "out"}] /\ reset \in [Conns -> BOOLEAN]
    /\ closedIn \in [Conns -> {"none", "nccb", "reader", "writer", "timer"}]

\* A closed connection is not listened to, unless reading was enabled after the
\* close.
ListenInv == \A c \in Alive : "in" \in events_[c] => Open(c)

\* Channels that Poll returned are reported once, are not of closed connections,
\* and are not of those that are being called.
ApartInv ==
    \A l \in Loops : \A a \in active[l] :
        /\ a.in => Open(a.c)
        /\ \A b \in active[l] : a.c = b.c => a = b
        /\ \A i \in 1 .. Len(stack[l]) : stack[l][i].c # a.c

\* Nothing that comes before a ReadFromPeer of the same HandleEvents closes the
\* connection but a write-done callback, or the failure of the write.
ReadInv ==
    \A l \in Loops, c \in Conns : \A i \in 1 .. Len(stack[l]) :
        stack[l][i].op = "readFromPeer" /\ stack[l][i].c = c =>
            /\ Open(c) \/ closedIn[c] = "writer"
            /\ \A j \in 1 .. i - 1 : stack[l][j].c = c =>
                  /\ stack[l][j].op \notin {"nccb", "readFromPeer"}
                  /\ stack[l][j].op = "activeClose" =>
                        reset[c] \/ c \in reopened \/ closedIn[c] = "writer"

ReadsInv == SocketTypes /\ ListenInv /\ ApartInv /\ ReadInv

\* The calls after the innermost one has been replaced by others.
LEMMA Replaced ==
    ASSUME NEW S, NEW s \in Seq(S), s # <<>>, NEW calls \in Seq(S),
           NEW i \in 1 .. Len(calls \o Tail(s))
    PROVE  LET k == i - Len(calls) + 1
           IN  /\ Len(calls) \in Nat
               /\ i <= Len(calls) => i \in 1 .. Len(calls) /\ (calls \o Tail(s))[i] = calls[i]
               /\ i > Len(calls) => k \in 2 .. Len(s) /\ (calls \o Tail(s))[i] = s[k]
<1> DEFINE t == Tail(s)
<1>1. /\ t \in Seq(S) /\ Len(t) = Len(s) - 1 /\ Len(s) \in Nat /\ Len(t) \in Nat
      /\ \A j \in 1 .. Len(t) : t[j] = s[j + 1]
  <2>1. t \in Seq(S) /\ Len(t) = Len(s) - 1 /\ \A j \in 1 .. Len(t) : t[j] = s[j + 1]
    BY HeadTailProperties
  <2>2. Len(s) \in Nat /\ (t \in Seq(S) => Len(t) \in Nat)
    BY LenProperties
  <2> QED
    BY <2>1, <2>2
<1> HIDE DEF t
<1>2. /\ Len(calls) \in Nat /\ Len(t) \in Nat /\ Len(calls \o t) = Len(calls) + Len(t)
      /\ \A j \in 1 .. Len(calls) + Len(t) :
            (calls \o t)[j] = IF j <= Len(calls) THEN calls[j] ELSE t[j - Len(calls)]
  <2>1. Len(calls) \in Nat
    BY LenProperties
  <2>2. /\ Len(calls \o t) = Len(calls) + Len(t)
        /\ \A j \in 1 .. Len(calls) + Len(t) :
              (calls \o t)[j] = IF j <= Len(calls) THEN calls[j] ELSE t[j - Len(calls)]
    BY <1>1, ConcatProperties
  <2> QED
    BY <1>1, <2>1, <2>2
<1>3. i \in 1 .. Len(calls) + Len(t)
  BY <1>2 DEF t
<1>4. ASSUME i <= Len(calls)
      PROVE  i \in 1 .. Len(calls) /\ (calls \o t)[i] = calls[i]
  BY <1>2, <1>3, <1>4
<1>5. ASSUME i > Len(calls)
      PROVE  /\ i - Len(calls) + 1 \in 2 .. Len(s)
             /\ (calls \o t)[i] = s[i - Len(calls) + 1]
  <2>1. i - Len(calls) \in 1 .. Len(t) /\ (calls \o t)[i] = t[i - Len(calls)]
    BY <1>2, <1>3, <1>5
  <2>2. t[i - Len(calls)] = s[i - Len(calls) + 1]
    BY <1>1, <2>1
  <2> QED
    BY <1>1, <1>2, <2>1, <2>2
<1> QED
  BY <1>2, <1>4, <1>5 DEF t

\* A call ends, of op and connection c, and others of c take its place.
LEMMA ReadsStep ==
    ASSUME IInv, IInv', LInv, ReadsInv, NEW l \in Loops, NEW op, NEW c, Calls(l, op, c),
           NEW calls \in Seq(AllCalls), Continue(l, calls), UNCHANGED <<active, loop_, reset>>,
           \A i \in 1 .. Len(calls) :
              /\ calls[i].c = c /\ calls[i].op \notin {"nccb", "readFromPeer"}
              /\ calls[i].op = "activeClose" =>
                    op \in {"nccb", "readFromPeer"} \/ reset[c] \/ closedIn'[c] = "writer",
           reopened \subseteq reopened', SocketTypes',
           \A d \in Conns : d # c => /\ state_'[d] = state_[d] /\ events_'[d] = events_[d]
                                     /\ closedIn'[d] = closedIn[d],
           state_'[c] \in {"connected", "disconnected"}, "in" \in events_'[c] => Open(c)',
           \/ state_'[c] = state_[c]
           \/ op = "activeClose" /\ ~reset[c]
           \/ op = "readFromPeer",
           \/ closedIn'[c] = closedIn[c]
           \/ closedIn'[c] = "writer"
           \/ op \in {"nccb", "readFromPeer"}
    PROVE  ReadsInv'
<1>1. /\ stack[l] # <<>> /\ c \in Conns /\ c \in Alive
      /\ op \in ConnOps => l = loop_[c]
  BY HeadCall DEF ServerOps, ConnOps
<1>2. /\ stack[l] \in Seq(AllCalls) /\ 1 \in 1 .. Len(stack[l])
      /\ stack[l][1].op = op /\ stack[l][1].c = c
  BY <1>1 DEF Calls, Call, IInv, StackInv
<1>3. /\ stack'[l] = calls \o Tail(stack[l])
      /\ \A k \in Loops : k # l => stack'[k] = stack[k]
  BY DEF Continue, IInv, StackInv
<1>4. \A d \in Conns : d # c => (Open(d) => Open(d)')
  BY DEF Open
<1>5. state_'[c] = state_[c] => (Open(c) => Open(c)')
  BY DEF Open
<1>6. \A i \in 1 .. Len(stack'[l]) :
         /\ Len(calls) \in Nat
         /\ i <= Len(calls) => i \in 1 .. Len(calls) /\ stack'[l][i] = calls[i]
         /\ i > Len(calls) => /\ i - Len(calls) + 1 \in 2 .. Len(stack[l])
                              /\ stack'[l][i] = stack[l][i - Len(calls) + 1]
  BY <1>1, <1>2, <1>3, Replaced
<1>7. ListenInv'
  <2>1. Alive' \ {c} \subseteq Alive /\ Alive' \subseteq Conns
    BY DEF Alive
  <2> QED
    BY <1>4, <2>1 DEF ReadsInv, ListenInv
<1>8. ApartInv'
  <2>1. ASSUME NEW k \in Loops, NEW a \in active[k], a.in PROVE Open(a.c)'
    <3>1. Open(a.c) /\ a.c \in Conns /\ loop_[a.c] = k
      BY <2>1 DEF ReadsInv, ApartInv, IInv, ActiveInv, Local
    <3>2. CASE a.c = c
      <4>1. k # l
        BY <1>1, <1>2, <3>1, <3>2, <2>1 DEF ReadsInv, ApartInv
      <4>2. state_'[c] = state_[c]
        BY <1>1, <3>1, <3>2, <4>1 DEF ConnOps
      <4> QED
        BY <1>5, <3>1, <3>2, <4>2
    <3> QED
      BY <1>4, <3>1, <3>2
  <2>2. ASSUME NEW k \in Loops, NEW a \in active[k], NEW i \in 1 .. Len(stack'[k])
        PROVE  stack'[k][i].c # a.c
    <3>1. \A j \in 1 .. Len(stack[k]) : stack[k][j].c # a.c
      BY DEF ReadsInv, ApartInv
    <3>2. CASE k = l
      <4>1. CASE i <= Len(calls)
        BY <1>2, <1>6, <2>2, <3>1, <3>2, <4>1
      <4>2. CASE i > Len(calls)
        <5> DEFINE h == i - Len(calls) + 1
        <5>1. h \in 2 .. Len(stack[l]) /\ stack'[l][i] = stack[l][h]
          BY <1>6, <2>2, <3>2, <4>2
        <5>2. h \in 1 .. Len(stack[l])
          BY <5>1
        <5> HIDE DEF h
        <5> QED
          BY <3>1, <3>2, <5>1, <5>2
      <4>3. i \in Nat /\ Len(calls) \in Nat
        BY <2>2
      <4> QED
        BY <4>1, <4>2, <4>3
    <3> QED
      BY <1>3, <3>1, <3>2
  <2>3. \A k \in Loops : \A a, b \in active[k] : a.c = b.c => a = b
    BY DEF ReadsInv, ApartInv
  <2> QED
    BY <2>1, <2>2, <2>3 DEF ApartInv
<1>9. ASSUME NEW k \in Loops, NEW d \in Conns, NEW i \in 1 .. Len(stack'[k]),
             stack'[k][i].op = "readFromPeer", stack'[k][i].c = d
      PROVE  /\ Open(d)' \/ closedIn'[d] = "writer"
             /\ \A j \in 1 .. i - 1 : stack'[k][j].c = d =>
                   /\ stack'[k][j].op \notin {"nccb", "readFromPeer"}
                   /\ stack'[k][j].op = "activeClose" =>
                         reset'[d] \/ d \in reopened' \/ closedIn'[d] = "writer"
  <2>1. CASE k # l
    <3>1. /\ i \in 1 .. Len(stack[k]) /\ stack'[k] = stack[k]
          /\ stack[k][i].op = "readFromPeer" /\ stack[k][i].c = d
      BY <1>3, <1>9, <2>1
    <3>2. /\ Open(d) \/ closedIn[d] = "writer"
          /\ \A j \in 1 .. i - 1 : stack[k][j].c = d =>
                /\ stack[k][j].op \notin {"nccb", "readFromPeer"}
                /\ stack[k][j].op = "activeClose" =>
                      reset[d] \/ d \in reopened \/ closedIn[d] = "writer"
      BY <3>1 DEF ReadsInv, ReadInv
    <3>3. d = c => op \notin ConnOps
      <4>1. stack[k][i] \in Proper(k)
        BY <3>1 DEF IInv, StackInv
      <4>2. loop_[d] = k
        BY <3>1, <4>1 DEF Proper, ServerOps
      <4> QED
        BY <1>1, <2>1, <4>2
    <3>4. d = c => /\ state_'[c] = state_[c]
                   /\ closedIn'[c] = closedIn[c] \/ closedIn'[c] = "writer"
      BY <3>3 DEF ConnOps
    <3> QED
      BY <1>4, <1>5, <3>1, <3>2, <3>4
  <2>2. CASE k = l
    <3> DEFINE h == i - Len(calls) + 1
    <3>1. i > Len(calls)
      <4>1. i \in Nat /\ Len(calls) \in Nat
        BY <1>9
      <4>2. ~(i <= Len(calls))
        BY <1>6, <1>9, <2>2
      <4> QED
        BY <4>1, <4>2
    <3>2. h \in 2 .. Len(stack[l]) /\ stack'[l][i] = stack[l][h]
      BY <1>6, <1>9, <2>2, <3>1
    <3>3. /\ h \in 1 .. Len(stack[l]) /\ 1 \in 1 .. h - 1
      BY <1>2, <3>2
    <3> HIDE DEF h
    <3>4. /\ Open(d) \/ closedIn[d] = "writer"
          /\ \A j \in 1 .. h - 1 : stack[l][j].c = d =>
                /\ stack[l][j].op \notin {"nccb", "readFromPeer"}
                /\ stack[l][j].op = "activeClose" =>
                      reset[d] \/ d \in reopened \/ closedIn[d] = "writer"
      BY <1>9, <2>2, <3>2, <3>3 DEF ReadsInv, ReadInv
    <3>5. d = c => /\ op \notin {"nccb", "readFromPeer"}
                   /\ op = "activeClose" => reset[d] \/ d \in reopened \/ closedIn[d] = "writer"
      BY <1>2, <3>3, <3>4
    <3>6. /\ closedIn'[d] = closedIn[d] \/ closedIn'[d] = "writer"
          /\ Open(d)' \/ closedIn'[d] = "writer"
      BY <1>4, <1>5, <3>4, <3>5 DEF Open
    <3>7. ASSUME NEW j \in 1 .. i - 1, stack'[l][j].c = d
          PROVE  /\ stack'[l][j].op \notin {"nccb", "readFromPeer"}
                 /\ stack'[l][j].op = "activeClose" =>
                       reset'[d] \/ d \in reopened' \/ closedIn'[d] = "writer"
      <4>1. j \in 1 .. Len(stack'[l]) /\ j \in Nat /\ Len(calls) \in Nat
        BY <1>9, <2>2, <3>7
      <4>2. CASE j <= Len(calls)
        BY <1>6, <3>5, <3>7, <4>1, <4>2
      <4>3. CASE j > Len(calls)
        <5> DEFINE g == j - Len(calls) + 1
        <5>1. g \in 2 .. Len(stack[l]) /\ stack'[l][j] = stack[l][g]
          BY <1>6, <4>1, <4>3
        <5>2. g \in 1 .. h - 1
          BY <1>9, <3>7, <4>1, <5>1 DEF h
        <5> HIDE DEF g
        <5> QED
          BY <3>4, <3>6, <3>7, <5>1, <5>2
      <4> QED
        BY <4>1, <4>2, <4>3
    <3> QED
      BY <2>2, <3>6, <3>7
  <2> QED
    BY <2>1, <2>2
<1> QED
  BY <1>7, <1>8, <1>9 DEF ReadsInv, ReadInv

\* A call that closes nothing and reads nothing ends.
LEMMA ReadsQuiet ==
    ASSUME IInv, IInv', LInv, ReadsInv, NEW l \in Loops, NEW op, NEW c, Calls(l, op, c),
           NEW calls \in Seq(AllCalls), Continue(l, calls),
           \A i \in 1 .. Len(calls) :
              /\ calls[i].c = c /\ calls[i].op \notin {"nccb", "readFromPeer"}
              /\ calls[i].op = "activeClose" => reset[c],
           UNCHANGED <<active, loop_, state_, closedIn, events_, reset, reopened>>
    PROVE  ReadsInv'
<1>1. c \in Conns /\ c \in Alive
  BY HeadCall
<1>2. state_[c] \in {"connected", "disconnected"}
  BY <1>1 DEF Alive
<1>3. "in" \in events_[c] => Open(c)
  BY <1>1 DEF ReadsInv, ListenInv
<1>4. SocketTypes'
  BY DEF ReadsInv, SocketTypes
<1>5. "in" \in events_'[c] => Open(c)'
  BY <1>3 DEF Open
<1> QED
  BY <1>2, <1>4, <1>5, ReadsStep

\* A loop that was between two calls begins calls of a connection.
LEMMA ReadsBegin ==
    ASSUME IInv, IInv', ReadsInv, NEW l \in Loops, stack[l] = <<>>,
           NEW calls \in Seq(AllCalls), stack' = [stack EXCEPT ![l] = calls],
           NEW c \in Conns,
           \A i \in 1 .. Len(calls) :
              /\ calls[i].c = c
              /\ calls[i].op = "readFromPeer" =>
                    /\ Open(c)'
                    /\ \A j \in 1 .. i - 1 :
                          calls[j].op \notin {"nccb", "readFromPeer", "activeClose"},
           \A k \in Loops : active'[k] \subseteq active[k],
           \A a \in active'[l] : a.c # c,
           \A d \in Conns : \/ state_'[d] = state_[d]
                            \/ state_[d] = "none" /\ state_'[d] = "connected",
           UNCHANGED <<events_, reset, reopened>>, SocketTypes',
           \A d \in Conns :
              \/ closedIn'[d] = closedIn[d]
              \/ loop_[d] = l /\ \A i \in 1 .. Len(calls) : calls[i].op # "readFromPeer"
    PROVE  ReadsInv'
<1>1. stack'[l] = calls /\ \A k \in Loops : k # l => stack'[k] = stack[k]
  BY DEF IInv, StackInv
<1>2. \A d \in Conns : Open(d) => Open(d)'
  BY DEF Open
<1>3. ListenInv'
  <2>1. ASSUME NEW d \in Alive', "in" \in events_'[d] PROVE Open(d)'
    <3>1. d \in Conns
      BY <2>1 DEF Alive
    <3>2. state_'[d] = "connected" \/ d \in Alive
      BY <2>1, <3>1 DEF Alive
    <3> QED
      BY <1>2, <2>1, <3>1, <3>2 DEF ReadsInv, ListenInv, Open
  <2> QED
    BY <2>1 DEF ListenInv
<1>4. ApartInv'
  <2>1. ASSUME NEW k \in Loops, NEW a \in active'[k]
        PROVE  a \in active[k] /\ a.c \in Conns
    BY <2>1 DEF IInv, ActiveInv
  <2>2. ASSUME NEW k \in Loops, NEW a \in active'[k]
        PROVE  /\ a.in => Open(a.c)'
               /\ \A b \in active'[k] : a.c = b.c => a = b
    BY <1>2, <2>1 DEF ReadsInv, ApartInv
  <2>3. ASSUME NEW k \in Loops, NEW a \in active'[k], NEW i \in 1 .. Len(stack'[k])
        PROVE  stack'[k][i].c # a.c
    BY <1>1, <2>1 DEF ReadsInv, ApartInv
  <2> QED
    BY <2>2, <2>3 DEF ApartInv
<1>5. ASSUME NEW k \in Loops, NEW d \in Conns, NEW i \in 1 .. Len(stack'[k]),
             stack'[k][i].op = "readFromPeer", stack'[k][i].c = d
      PROVE  /\ Open(d)' \/ closedIn'[d] = "writer"
             /\ \A j \in 1 .. i - 1 : stack'[k][j].c = d =>
                   /\ stack'[k][j].op \notin {"nccb", "readFromPeer"}
                   /\ stack'[k][j].op = "activeClose" =>
                         reset'[d] \/ d \in reopened' \/ closedIn'[d] = "writer"
  <2>1. CASE k # l
    <3>1. /\ i \in 1 .. Len(stack[k]) /\ stack'[k] = stack[k]
          /\ stack[k][i].op = "readFromPeer" /\ stack[k][i].c = d
      BY <1>1, <1>5, <2>1
    <3>2. /\ Open(d) \/ closedIn[d] = "writer"
          /\ \A j \in 1 .. i - 1 : stack[k][j].c = d =>
                /\ stack[k][j].op \notin {"nccb", "readFromPeer"}
                /\ stack[k][j].op = "activeClose" =>
                      reset[d] \/ d \in reopened \/ closedIn[d] = "writer"
      BY <3>1 DEF ReadsInv, ReadInv
    <3>3. loop_[d] = k
      <4>1. stack[k][i] \in Proper(k)
        BY <3>1 DEF IInv, StackInv
      <4> QED
        BY <3>1, <4>1 DEF Proper, ServerOps
    <3>4. closedIn'[d] = closedIn[d]
      BY <2>1, <3>3
    <3> QED
      BY <1>2, <3>1, <3>2, <3>4
  <2>2. CASE k = l
    <3>1. i \in 1 .. Len(calls) /\ calls[i].op = "readFromPeer" /\ d = c
      BY <1>1, <1>5, <2>2
    <3>2. /\ Open(c)'
          /\ \A j \in 1 .. i - 1 : calls[j].op \notin {"nccb", "readFromPeer", "activeClose"}
      BY <3>1
    <3> QED
      BY <1>1, <2>2, <3>1, <3>2
  <2> QED
    BY <2>1, <2>2
<1> QED
  BY <1>3, <1>4, <1>5 DEF ReadsInv, ReadInv

\* No call begins or ends; Poll may have reported channels.
LEMMA ReadsStill ==
    ASSUME IInv, IInv', ReadsInv,
           UNCHANGED <<stack, state_, closedIn, events_, reopened>>, SocketTypes',
           \A d \in Conns : reset[d] => reset'[d],
           \A k \in Loops :
              \/ active'[k] = active[k]
              \/ /\ stack[k] = <<>>
                 /\ \A a \in active'[k] :
                       /\ a.in => Open(a.c)
                       /\ \A b \in active'[k] : a.c = b.c => a = b
    PROVE  ReadsInv'
<1>1. \A d \in Conns : Open(d)' <=> Open(d)
  BY DEF Open
<1>2. ListenInv'
  <2>1. Alive' = Alive /\ Alive \subseteq Conns
    BY DEF Alive
  <2> QED
    BY <1>1, <2>1 DEF ReadsInv, ListenInv
<1>3. ApartInv'
  <2>1. ASSUME NEW k \in Loops, NEW a \in active'[k]
        PROVE  /\ a.in => Open(a.c)'
               /\ \A b \in active'[k] : a.c = b.c => a = b
               /\ \A i \in 1 .. Len(stack'[k]) : stack'[k][i].c # a.c
    <3>1. a.c \in Conns
      BY <2>1 DEF IInv, ActiveInv
    <3>2. CASE active'[k] = active[k]
      BY <1>1, <3>1, <3>2 DEF ReadsInv, ApartInv
    <3>3. CASE active'[k] # active[k]
      <4>1. stack'[k] = <<>> /\ Len(stack'[k]) = 0
        BY <3>3
      <4> QED
        BY <1>1, <3>1, <3>3, <4>1
    <3> QED
      BY <3>2, <3>3
  <2> QED
    BY <2>1 DEF ApartInv
<1>4. ReadInv'
  <2>1. ASSUME NEW k \in Loops, NEW d \in Conns, NEW i \in 1 .. Len(stack[k]),
               stack[k][i].op = "readFromPeer", stack[k][i].c = d
        PROVE  /\ Open(d)' \/ closedIn[d] = "writer"
               /\ \A j \in 1 .. i - 1 : stack[k][j].c = d =>
                     /\ stack[k][j].op \notin {"nccb", "readFromPeer"}
                     /\ stack[k][j].op = "activeClose" =>
                           reset'[d] \/ d \in reopened \/ closedIn[d] = "writer"
    BY <1>1, <2>1 DEF ReadsInv, ReadInv
  <2> QED
    BY <2>1 DEF ReadInv
<1> QED
  BY <1>2, <1>3, <1>4 DEF ReadsInv

\* The elements of t are the last ones of s.
Remains(t, s) ==
    \E n \in Nat : \A i \in 1 .. Len(t) : i + n \in 1 .. Len(s) /\ t[i] = s[i + n]

\* A sequence, or what follows its first element.
LEMMA WhatRemains ==
    ASSUME NEW S, NEW s \in Seq(S)
    PROVE  Remains(s, s) /\ (s # <<>> => Remains(<<>> \o Tail(s), s))
<1>1. Remains(s, s)
  <2>1. \A i \in 1 .. Len(s) : i + 0 \in 1 .. Len(s) /\ s[i] = s[i + 0]
    OBVIOUS
  <2> QED
    BY <2>1 DEF Remains
<1>2. ASSUME s # <<>> PROVE Remains(<<>> \o Tail(s), s)
  <2>1. /\ Tail(s) \in Seq(S) /\ Len(Tail(s)) = Len(s) - 1
        /\ \A j \in 1 .. Len(Tail(s)) : Tail(s)[j] = s[j + 1]
    BY <1>2, HeadTailProperties
  <2>2. Len(s) \in Nat
    BY LenProperties
  <2>3. <<>> \o Tail(s) = Tail(s)
    BY <2>1, ConcatEmptySeq
  <2>4. \A i \in 1 .. Len(Tail(s)) : i + 1 \in 1 .. Len(s) /\ Tail(s)[i] = s[i + 1]
    BY <2>1, <2>2
  <2> QED
    BY <2>3, <2>4 DEF Remains
<1> QED
  BY <1>1, <1>2

\* References are dropped: what remains to be called is of connections that
\* stay, and these are as they were.
LEMMA ReadsRelease ==
    ASSUME IInv, IInv', LInv', ReadsInv, Release, UNCHANGED <<active, reopened>>,
           \A k \in Loops : Remains(stack'[k], stack[k])
    PROVE  ReadsInv'
<1>1. \A d \in Alive' : /\ d \in Conns /\ d \in Alive /\ state_'[d] = state_[d]
                        /\ events_'[d] = events_[d] /\ reset'[d] = reset[d]
                        /\ closedIn'[d] = closedIn[d]
  BY DEF Release, Reset, Alive
<1>2. \A d \in Alive' : Open(d) => Open(d)'
  BY <1>1 DEF Open
<1>3. SocketTypes'
  BY DEF ReadsInv, SocketTypes, Release, Reset
<1>4. ListenInv'
  BY <1>1, <1>2 DEF ReadsInv, ListenInv
<1>5. ASSUME NEW k \in Loops, NEW i \in 1 .. Len(stack'[k])
      PROVE  stack'[k][i].c \in Alive'
  <2>1. Within(stack'[k], Work(k)')
    BY Whole DEF IInv, StackInv, BatchInv, QueueInv, Work
  <2> QED
    BY <2>1 DEF Within, LInv, LiveInv
<1>6. ApartInv'
  <2>1. ASSUME NEW k \in Loops, NEW a \in active'[k]
        PROVE  /\ a.in => Open(a.c)'
               /\ \A b \in active'[k] : a.c = b.c => a = b
               /\ \A i \in 1 .. Len(stack'[k]) : stack'[k][i].c # a.c
    <3>1. a.c \in Alive'
      BY <2>1 DEF LInv, ChannelInv, IInv, ActiveInv
    <3> QED
      BY <1>2, <2>1, <3>1 DEF ReadsInv, ApartInv, Remains
  <2> QED
    BY <2>1 DEF ApartInv
<1>7. ASSUME NEW k \in Loops, NEW d \in Conns, NEW i \in 1 .. Len(stack'[k]),
             stack'[k][i].op = "readFromPeer", stack'[k][i].c = d
      PROVE  /\ Open(d)' \/ closedIn'[d] = "writer"
             /\ \A j \in 1 .. i - 1 : stack'[k][j].c = d =>
                   /\ stack'[k][j].op \notin {"nccb", "readFromPeer"}
                   /\ stack'[k][j].op = "activeClose" =>
                         reset'[d] \/ d \in reopened' \/ closedIn'[d] = "writer"
  <2>1. d \in Alive'
    BY <1>5, <1>7
  <2>2. PICK n \in Nat : \A j \in 1 .. Len(stack'[k]) :
           j + n \in 1 .. Len(stack[k]) /\ stack'[k][j] = stack[k][j + n]
    BY DEF Remains
  <2>3. /\ Open(d) \/ closedIn[d] = "writer"
        /\ \A j \in 1 .. (i + n) - 1 : stack[k][j].c = d =>
              /\ stack[k][j].op \notin {"nccb", "readFromPeer"}
              /\ stack[k][j].op = "activeClose" =>
                    reset[d] \/ d \in reopened \/ closedIn[d] = "writer"
    BY <1>7, <2>2 DEF ReadsInv, ReadInv
  <2>4. ASSUME NEW j \in 1 .. i - 1
        PROVE  j + n \in 1 .. (i + n) - 1 /\ stack'[k][j] = stack[k][j + n]
    <3>1. j \in 1 .. Len(stack'[k])
      BY <1>7
    <3> QED
      BY <2>2, <3>1
  <2> QED
    BY <1>1, <1>2, <2>1, <2>3, <2>4
<1> QED
  BY <1>3, <1>4, <1>6, <1>7 DEF ReadsInv, ReadInv

\* The calls after which nothing about reading has changed.
LEMMA QuietStepsRead ==
    ASSUME IInv, IInv', LInv, ReadsInv, NEW l \in Loops, NEW c \in Conns, ~aborted',
           \/ StartReading(l, c) \/ NotifyClosed(l, c) \/ QueueDestroy(l, c)
           \/ HandleConnectionClose(l, c) \/ CloseCallback(l, c) \/ WriteWouldBlock(l, c)
           \/ WriteFails(l, c) \/ Destroy(l, c)
    PROVE  ReadsInv'
<1> DEFINE Quiet(calls) ==
        /\ calls \in Seq(AllCalls)
        /\ \A i \in 1 .. Len(calls) :
              /\ calls[i].c = c /\ calls[i].op \notin {"nccb", "readFromPeer"}
              /\ calls[i].op = "activeClose" => reset[c]
<1>1. UNCHANGED <<active, loop_, state_, closedIn, events_, reset, reopened>>
  BY DEF StartReading, NotifyClosed, QueueDestroy, HandleConnectionClose, CloseCallback,
         WriteWouldBlock, WriteFails, Destroy, loopVars, connVars, channelVars, sockets, history
<1>2. Quiet(<<>>)
  OBVIOUS
<1>3. ASSUME NEW op \in ServerOps \cup ConnOps, op \notin {"nccb", "readFromPeer"},
             op = "activeClose" => reset[c]
      PROVE  Quiet(<<Call(op, c)>>)
  <2>1. Call(op, c) \in AllCalls /\ Call(op, c).op = op /\ Call(op, c).c = c
    BY DEF Call, AllCalls
  <2> DEFINE x == Call(op, c)
  <2> HIDE DEF x
  <2>2. Len(<<x>>) = 1 /\ <<x>>[1] = x
    OBVIOUS
  <2>3. <<x>> \in Seq(AllCalls)
    BY <2>1 DEF x
  <2> QED
    BY <1>3, <2>1, <2>2, <2>3 DEF x
<1>4. Quiet(TakeDown(c))
  <2> DEFINE x == Call("notifyClosed", c)
             y == Call("queueDestroy", c)
             z == Call("closeReturns", c)
  <2>1. /\ x \in AllCalls /\ x.op = "notifyClosed" /\ x.c = c
        /\ y \in AllCalls /\ y.op = "queueDestroy" /\ y.c = c
        /\ z \in AllCalls /\ z.op = "closeReturns" /\ z.c = c
    BY DEF Call, AllCalls, ServerOps
  <2> HIDE DEF x, y, z
  <2>2. Quiet(<<x, y, z>>)
    BY <2>1
  <2> QED
    BY <2>2 DEF TakeDown, x, y, z
<1> HIDE DEF Quiet
<1>5. ASSUME NEW op, NEW calls, Calls(l, op, c), Quiet(calls), Continue(l, calls)
      PROVE  ReadsInv'
  BY <1>1, <1>5, ReadsQuiet DEF Quiet
<1>6. CASE StartReading(l, c)
  <2>1. Quiet(<<Call("enableReading", c)>>)
    BY <1>3 DEF ConnOps
  <2>2. <<Call("enableReading", c)>> \o <<>> = <<Call("enableReading", c)>>
    OBVIOUS
  <2> QED
    BY <1>2, <1>5, <1>6, <2>1, <2>2 DEF StartReading, RunInLoop, QueueInLoop
<1>7. CASE NotifyClosed(l, c)
  <2>1. Quiet(<<Call("cccb", c)>>)
    BY <1>3 DEF ConnOps
  <2>2. <<Call("cccb", c)>> \o <<>> = <<Call("cccb", c)>>
    OBVIOUS
  <2> QED
    BY <1>2, <1>5, <1>7, <2>1, <2>2 DEF NotifyClosed, RunInLoop, QueueInLoop
<1>8. CASE QueueDestroy(l, c)
  BY <1>2, <1>5, <1>8 DEF QueueDestroy, QueueInLoop
<1>9. CASE HandleConnectionClose(l, c)
  BY <1>4, <1>5, <1>9, CloseFinds
<1>10. CASE CloseCallback(l, c)
  BY <1>2, <1>5, <1>10 DEF CloseCallback
<1>11. CASE WriteWouldBlock(l, c)
  BY <1>2, <1>5, <1>11 DEF WriteWouldBlock
<1>12. CASE WriteFails(l, c)
  <2>1. reset[c] /\ Calls(l, "writeToPeer", c)
    BY <1>12 DEF WriteFails
  <2>2. Quiet(<<Call("activeClose", c)>>)
    BY <1>3, <2>1 DEF ConnOps
  <2> QED
    BY <1>2, <1>5, <1>12, <2>1, <2>2 DEF WriteFails
<1>13. CASE Destroy(l, c)
  BY <1>2, <1>5, <1>13 DEF Destroy
<1> QED
  BY <1>6, <1>7, <1>8, <1>9, <1>10, <1>11, <1>12, <1>13

\* Callbacks that may write and close.
LEMMA CallbacksRead ==
    ASSUME IInv, IInv', LInv, ReadsInv, NEW l \in Loops, NEW c \in Conns,
           NewConnectionCallback(l, c) \/ ReadData(l, c)
    PROVE  ReadsInv'
<1>1. PICK op \in {"nccb", "readFromPeer"}, name \in {"nccb", "reader"} :
         Calls(l, op, c) /\ React(l, c, name)
  BY DEF NewConnectionCallback, ReadData
<1>2. UNCHANGED <<active, loop_, state_, events_, reset, reopened>>
  BY DEF NewConnectionCallback, ReadData, loopVars, channelVars, sockets, history
<1>3. PICK writes \in BOOLEAN, closes \in BOOLEAN :
         /\ Continue(l, (IF writes THEN <<Call("write", c)>> ELSE <<>>)
                        \o (IF closes THEN <<Call("activeClose", c)>> ELSE <<>>))
         /\ closedIn' = [closedIn EXCEPT ![c] = IF closes THEN name ELSE closedIn[c]]
  BY <1>1 DEF React
<1> DEFINE x == Call("write", c)
           y == Call("activeClose", c)
<1>4. PICK calls \in UserCalls(c) : Continue(l, calls)
  <2> HIDE DEF x, y
  <2>1. /\ <<>> \o <<>> = <<>> /\ <<x>> \o <<>> = <<x>> /\ <<>> \o <<y>> = <<y>>
        /\ <<x>> \o <<y>> = <<x, y>>
    <3>1. x \in AllCalls /\ y \in AllCalls
      BY DEF x, y, Call, AllCalls, ServerOps, ConnOps
    <3> QED
      BY <3>1, Joined, Zenon
  <2>2. CASE writes /\ closes
    BY <1>3, <2>1, <2>2 DEF UserCalls, x, y
  <2>3. CASE writes /\ ~closes
    BY <1>3, <2>1, <2>3 DEF UserCalls, x, y
  <2>4. CASE ~writes /\ closes
    BY <1>3, <2>1, <2>4 DEF UserCalls, x, y
  <2>5. CASE ~writes /\ ~closes
    BY <1>3, <2>1, <2>5 DEF UserCalls, x, y
  <2> QED
    BY <2>2, <2>3, <2>4, <2>5
<1>5. /\ calls \in Seq(AllCalls)
      /\ \A i \in 1 .. Len(calls) :
            /\ calls[i].c = c /\ calls[i].op \notin {"nccb", "readFromPeer"}
            /\ calls[i].op = "activeClose" =>
                  op \in {"nccb", "readFromPeer"} \/ reset[c] \/ closedIn'[c] = "writer"
  BY UserCallsAre
<1>6. /\ SocketTypes'
      /\ \A d \in Conns : d # c => closedIn'[d] = closedIn[d]
  BY <1>2, <1>3 DEF ReadsInv, SocketTypes
<1>7. c \in Alive /\ state_[c] \in {"connected", "disconnected"}
  BY <1>1, HeadCall DEF Alive
<1>8. "in" \in events_'[c] => Open(c)'
  BY <1>2, <1>7 DEF ReadsInv, ListenInv, Open
<1> HIDE DEF x, y
<1> QED
  BY <1>1, <1>2, <1>4, <1>5, <1>6, <1>7, <1>8, ReadsStep

\* Calls that change what the channel listens to.
LEMMA ChannelStepsRead ==
    ASSUME IInv, IInv', LInv, ReadsInv, NEW l \in Loops, NEW c \in Conns,
           EnableReading(l, c) \/ Write(l, c) \/ WriteAll(l, c)
    PROVE  ReadsInv'
<1>1. PICK op \in {"enableReading", "write", "writeToPeer"} : Calls(l, op, c)
  BY DEF EnableReading, Write, WriteAll
<1>2. c \in Alive /\ state_[c] \in {"connected", "disconnected"}
  BY <1>1, HeadCall DEF Alive
<1>3. UNCHANGED <<active, loop_, state_, reset>>
  BY DEF EnableReading, Write, WriteAll, loopVars, connVars, sockets
<1>4. PICK events \in SUBSET {"in", "out"} :
         /\ events_' = [events_ EXCEPT ![c] = events]
         /\ "in" \in events => "in" \in events_[c] \/ EnableReading(l, c)
  <2>1. events_[c] \in SUBSET {"in", "out"}
    BY DEF ReadsInv, SocketTypes
  <2>2. CASE EnableReading(l, c)
    <3>1. events_' = [events_ EXCEPT ![c] = events_[c] \cup {"in"}]
      BY <2>2 DEF EnableReading, Update
    <3> QED
      BY <2>1, <2>2, <3>1
  <2>3. CASE Write(l, c)
    <3>1. events_' = [events_ EXCEPT ![c] = events_[c] \cup {"out"}]
      BY <2>3 DEF Write, Update
    <3> QED
      BY <2>1, <3>1
  <2>4. CASE WriteAll(l, c)
    <3>1. events_' = [events_ EXCEPT ![c] = events_[c] \ {"out"}]
      BY <2>4 DEF WriteAll, Update
    <3> QED
      BY <2>1, <3>1
  <2> QED
    BY <2>2, <2>3, <2>4
<1>5. /\ reopened \subseteq reopened'
      /\ EnableReading(l, c) => Open(c)'
  BY <1>2, <1>3 DEF EnableReading, Write, WriteAll, history, Open
<1>6. PICK calls \in UserCalls(c) :
         /\ Continue(l, calls)
         /\ \/ calls \in {<<>>, <<Call("write", c)>>} /\ closedIn' = closedIn
            \/ closedIn' = [closedIn EXCEPT ![c] = "writer"]
  <2>1. CASE EnableReading(l, c) \/ Write(l, c)
    BY <2>1 DEF EnableReading, Write, connVars, UserCalls
  <2>2. CASE WriteAll(l, c)
    <3>1. React(l, c, "writer") /\ closedIn = [closedIn EXCEPT ![c] = closedIn[c]]
      BY <2>2 DEF WriteAll, ReadsInv, SocketTypes
    <3> QED
      BY <3>1, ReactIs
  <2> QED
    BY <2>1, <2>2
<1>7. /\ \A d \in Conns : d # c => closedIn'[d] = closedIn[d]
      /\ calls \in {<<>>, <<Call("write", c)>>} \/ closedIn'[c] = "writer"
      /\ closedIn' \in [Conns -> {"none", "nccb", "reader", "writer", "timer"}]
  BY <1>6 DEF ReadsInv, SocketTypes
<1>8. /\ calls \in Seq(AllCalls)
      /\ \A i \in 1 .. Len(calls) :
            /\ calls[i].c = c /\ calls[i].op \notin {"nccb", "readFromPeer"}
            /\ calls[i].op = "activeClose" =>
                  op \in {"nccb", "readFromPeer"} \/ reset[c] \/ closedIn'[c] = "writer"
  BY <1>7, UserCallsAre
<1>9. /\ SocketTypes'
      /\ \A d \in Conns : d # c => events_'[d] = events_[d]
      /\ events_'[c] = events
  BY <1>3, <1>4, <1>7 DEF ReadsInv, SocketTypes
<1>10. "in" \in events_'[c] => Open(c)'
  BY <1>2, <1>3, <1>4, <1>5, <1>9 DEF ReadsInv, ListenInv, Open
<1>11. \A d \in Conns : d # c => /\ state_'[d] = state_[d] /\ events_'[d] = events_[d]
                                 /\ closedIn'[d] = closedIn[d]
  BY <1>3, <1>7, <1>9
<1> QED
  BY <1>1, <1>2, <1>3, <1>5, <1>6, <1>7, <1>8, <1>9, <1>10, <1>11, ReadsStep

\* ActiveClose and the end of the stream.
LEMMA ClosesRead ==
    ASSUME IInv, IInv', LInv, ReadsInv, NEW l \in Loops, NEW c \in Conns, ~aborted',
           ActiveClose(l, c) \/ ReadEnd(l, c)
    PROVE  ReadsInv'
<1>1. PICK op \in {"activeClose", "readFromPeer"} :
         /\ Calls(l, op, c)
         /\ op = "activeClose" => ~reset[c] /\ state_[c] # "disconnected"
         /\ op = "activeClose" <=> ActiveClose(l, c)
  <2>1. CASE ActiveClose(l, c)
    BY <2>1 DEF ActiveClose
  <2>2. CASE ~ActiveClose(l, c)
    BY <2>2 DEF ReadEnd
  <2> QED
    BY <2>1, <2>2
<1>2. c \in Alive /\ state_[c] \in {"connected", "disconnected"}
  BY <1>1, HeadCall DEF Alive
<1>3. UNCHANGED <<active, loop_, closedIn, reset, reopened>>
  BY DEF ActiveClose, ReadEnd, loopVars, sockets, history
<1>4. CASE op = "readFromPeer" /\ state_[c] = "disconnected"
  <2>1. Continue(l, <<>>) /\ UNCHANGED <<state_, events_>>
    BY <1>1, <1>4 DEF ReadEnd, PassiveClose, channelVars
  <2>2. <<>> \in Seq(AllCalls) /\ 1 .. Len(<<>>) = {}
    OBVIOUS
  <2> QED
    BY <1>1, <1>3, <2>1, <2>2, ReadsQuiet
<1>5. CASE ~(op = "readFromPeer" /\ state_[c] = "disconnected")
  <2>1. PICK events \in {{}, events_[c] \ {"in"}} :
           /\ Update(c, events) /\ state_' = [state_ EXCEPT ![c] = "disconnected"]
           /\ OnConnectionClosed(l, c)
    <3>1. CASE op = "activeClose"
      BY <1>1, <3>1 DEF ActiveClose
    <3>2. CASE op = "readFromPeer"
      BY <1>1, <1>5, <3>2 DEF ReadEnd, PassiveClose
    <3> QED
      BY <3>1, <3>2
  <2>2. /\ \A d \in Conns : d # c => /\ state_'[d] = state_[d] /\ events_'[d] = events_[d]
                                     /\ closedIn'[d] = closedIn[d]
        /\ state_'[c] = "disconnected" /\ events_'[c] = events /\ "in" \notin events
        /\ SocketTypes'
    BY <1>3, <2>1 DEF Update, IInv, ConnInv, ReadsInv, SocketTypes
  <2>3. PICK calls \in {<<>>, <<Call("handleClose", c)>>} : Continue(l, calls)
    <3>1. <<Call("handleClose", c)>> \o <<>> = <<Call("handleClose", c)>>
      OBVIOUS
    <3> QED
      BY <2>1, <3>1 DEF OnConnectionClosed, RunInLoop, QueueInLoop
  <2>4. /\ calls \in Seq(AllCalls)
        /\ \A i \in 1 .. Len(calls) : calls[i].c = c /\ calls[i].op = "handleClose"
    <3>1. CASE calls = <<>>
      BY <3>1
    <3>2. CASE calls = <<Call("handleClose", c)>>
      <4> DEFINE y == Call("handleClose", c)
      <4>1. y \in AllCalls /\ y.op = "handleClose" /\ y.c = c
        BY DEF Call, AllCalls, ServerOps
      <4>2. calls = <<y>>
        BY <3>2
      <4> HIDE DEF y
      <4> QED
        BY <4>1, <4>2
    <3> QED
      BY <3>1, <3>2
  <2>5. \A i \in 1 .. Len(calls) :
           /\ calls[i].c = c /\ calls[i].op \notin {"nccb", "readFromPeer"}
           /\ calls[i].op = "activeClose" =>
                 op \in {"nccb", "readFromPeer"} \/ reset[c] \/ closedIn'[c] = "writer"
    BY <2>4
  <2> QED
    BY <1>1, <1>3, <2>2, <2>3, <2>4, <2>5, ReadsStep
<1> QED
  BY <1>4, <1>5

\* Poll reports each channel once, and as readable only if it is open.
LEMMA PollRead ==
    ASSUME IInv, IInv', LInv, ReadsInv, NEW l \in Loops, NEW writable, Poll(l, writable)
    PROVE  ReadsInv'
<1>1. /\ stack[l] = <<>> /\ UNCHANGED <<stack, state_, closedIn, events_, reset, reopened>>
  BY DEF Poll, connVars, channelVars, sockets, history, LInv, PhaseInv
<1>2. \A k \in Loops : k # l => active'[k] = active[k]
  BY DEF Poll, IInv, ActiveInv
<1>3. ASSUME NEW a \in active'[l]
      PROVE  a = [c |-> a.c, in |-> InputReady(a.c), out |-> a.c \in writable]
             /\ a.c \in Registered(l)
  <2>1. active'[l] = {[c |-> c, in |-> InputReady(c), out |-> c \in writable] :
                         c \in {d \in Registered(l) : InputReady(d) \/ d \in writable}}
    BY DEF Poll, IInv, ActiveInv
  <2>2. PICK c \in Registered(l) :
           a = [c |-> c, in |-> InputReady(c), out |-> c \in writable]
    BY <2>1
  <2> QED
    BY <2>2
<1>4. ASSUME NEW a \in active'[l]
      PROVE  /\ a.in => Open(a.c)
             /\ \A b \in active'[l] : a.c = b.c => a = b
  <2>1. a.c \in Alive
    BY <1>3, LInvImplies DEF NoDanglingPointers
  <2>2. a.in => "in" \in events_[a.c]
    <3>1. a.in = InputReady(a.c)
      BY <1>3
    <3> QED
      BY <3>1 DEF InputReady
  <2>3. \A b \in active'[l] : a.c = b.c => a = b
    <3> SUFFICES ASSUME NEW b \in active'[l], a.c = b.c PROVE a = b
      OBVIOUS
    <3>1. /\ a = [c |-> a.c, in |-> InputReady(a.c), out |-> a.c \in writable]
          /\ b = [c |-> b.c, in |-> InputReady(b.c), out |-> b.c \in writable]
      BY <1>3, Zenon
    <3> QED
      BY <3>1, Zenon
  <2> QED
    BY <2>1, <2>2, <2>3 DEF ReadsInv, ListenInv
<1>5. SocketTypes'
  BY <1>1 DEF ReadsInv, SocketTypes
<1> QED
  BY <1>1, <1>2, <1>4, <1>5, ReadsStill

\* The write callback of a channel comes before its read callback.
LEMMA HandleEventsRead ==
    ASSUME IInv, IInv', LInv, ReadsInv, NEW l \in Loops, HandleEvents(l)
    PROVE  ReadsInv'
<1>1. PICK a \in active[l] :
          /\ active' = [active EXCEPT ![l] = @ \ {a}]
          /\ stack' = [stack EXCEPT ![l] =
                (IF a.out THEN <<Call("writeToPeer", a.c)>> ELSE <<>>)
                \o (IF a.in THEN <<Call("readFromPeer", a.c)>> ELSE <<>>)]
  BY DEF HandleEvents
<1>2. UNCHANGED <<state_, events_, reset, reopened, closedIn>> /\ stack[l] = <<>>
  BY DEF HandleEvents, Idle, connVars, channelVars, sockets, history
<1>3. PICK c \in Conns : c = a.c
  BY DEF IInv, ActiveInv
<1>4. a.in => Open(c)'
  BY <1>2, <1>3 DEF ReadsInv, ApartInv, Open
<1>5. /\ \A k \in Loops : active'[k] \subseteq active[k]
      /\ \A b \in active'[l] : b.c # c
  BY <1>1, <1>3 DEF IInv, ActiveInv, ReadsInv, ApartInv
<1> DEFINE x == Call("writeToPeer", c)
           y == Call("readFromPeer", c)
<1>6. /\ x \in AllCalls /\ x.c = c /\ x.op = "writeToPeer"
      /\ y \in AllCalls /\ y.c = c /\ y.op = "readFromPeer"
  BY DEF Call, AllCalls, ConnOps
<1>7. PICK calls \in {<<>>, <<x>>, <<y>>, <<x, y>>} :
         stack' = [stack EXCEPT ![l] = calls] /\ (a.in \/ calls \in {<<>>, <<x>>})
  <2> HIDE DEF x, y
  <2>1. /\ <<>> \o <<>> = <<>> /\ <<x>> \o <<>> = <<x>> /\ <<>> \o <<y>> = <<y>>
        /\ <<x>> \o <<y>> = <<x, y>>
    BY <1>6, Joined, Zenon
  <2>2. CASE a.out /\ a.in
    BY <1>1, <1>3, <2>1, <2>2 DEF x, y
  <2>3. CASE a.out /\ ~a.in
    BY <1>1, <1>3, <2>1, <2>3 DEF x, y
  <2>4. CASE ~a.out /\ a.in
    BY <1>1, <1>3, <2>1, <2>4 DEF x, y
  <2>5. CASE ~a.out /\ ~a.in
    BY <1>1, <1>3, <2>1, <2>5 DEF x, y
  <2> QED
    BY <2>2, <2>3, <2>4, <2>5
<1> HIDE DEF x, y
<1>8. /\ calls \in Seq(AllCalls)
      /\ \A i \in 1 .. Len(calls) :
            /\ calls[i].c = c
            /\ calls[i].op = "readFromPeer" =>
                  /\ Open(c)'
                  /\ \A j \in 1 .. i - 1 :
                        calls[j].op \notin {"nccb", "readFromPeer", "activeClose"}
  <2>1. CASE calls = <<>>
    BY <2>1
  <2>2. CASE calls = <<x>>
    BY <1>6, <2>2
  <2>3. CASE calls = <<y>> /\ a.in
    BY <1>4, <1>6, <2>3
  <2>4. CASE calls = <<x, y>> /\ a.in
    BY <1>4, <1>6, <2>4
  <2>5. x.op # y.op
    BY <1>6
  <2>6. <<y>> \notin {<<>>, <<x>>} /\ <<x, y>> \notin {<<>>, <<x>>}
    BY <2>5
  <2> QED
    BY <1>7, <2>1, <2>2, <2>3, <2>4, <2>6
<1>9. SocketTypes'
  BY <1>2 DEF ReadsInv, SocketTypes
<1>10. \A d \in Conns : state_'[d] = state_[d] /\ closedIn'[d] = closedIn[d]
  BY <1>2
<1> QED
  BY <1>2, <1>5, <1>7, <1>8, <1>9, <1>10, ReadsBegin

\* The same for calls that read nothing.
LEMMA ReadsBeginOther ==
    ASSUME IInv, IInv', ReadsInv, NEW l \in Loops, stack[l] = <<>>,
           NEW calls \in Seq(AllCalls), stack' = [stack EXCEPT ![l] = calls],
           NEW c \in Conns,
           \A i \in 1 .. Len(calls) : calls[i].c = c /\ calls[i].op # "readFromPeer",
           \A k \in Loops : active'[k] \subseteq active[k],
           \A a \in active'[l] : a.c # c,
           \A d \in Conns : \/ state_'[d] = state_[d]
                            \/ state_[d] = "none" /\ state_'[d] = "connected",
           UNCHANGED <<events_, reset, reopened>>, SocketTypes',
           \A d \in Conns : closedIn'[d] = closedIn[d] \/ loop_[d] = l
    PROVE  ReadsInv'
<1>1. \A i \in 1 .. Len(calls) :
         /\ calls[i].c = c
         /\ calls[i].op = "readFromPeer" =>
               /\ Open(c)'
               /\ \A j \in 1 .. i - 1 :
                     calls[j].op \notin {"nccb", "readFromPeer", "activeClose"}
  OBVIOUS
<1>2. \A d \in Conns :
         \/ closedIn'[d] = closedIn[d]
         \/ loop_[d] = l /\ \A i \in 1 .. Len(calls) : calls[i].op # "readFromPeer"
  OBVIOUS
<1> QED
  BY <1>1, <1>2, ReadsBegin

\* Nothing reported is left when functors or timers run.
LEMMA BeginsRead ==
    ASSUME IInv, IInv', LInv, ReadsInv, NEW l \in Loops,
           RunFunctor(l) \/ \E c \in Conns : TimerFires(l, c)
    PROVE  ReadsInv'
<1>1. CASE RunFunctor(l)
  <2>1. /\ phase[l] = "functors" /\ stack[l] = <<>> /\ batch[l] # <<>>
        /\ stack' = [stack EXCEPT ![l] = <<Head(batch[l])>>]
        /\ UNCHANGED <<active, state_, events_, reset, reopened, closedIn>>
    BY <1>1 DEF RunFunctor, Idle, connVars, channelVars, sockets, history
  <2> DEFINE x == Head(batch[l])
  <2>2. x \in AllCalls /\ x.c \in Conns /\ x.op # "readFromPeer"
    <3>1. batch[l] \in Seq(AllCalls) /\ 1 \in 1 .. Len(batch[l]) /\ x = batch[l][1]
      BY <2>1 DEF IInv, BatchInv
    <3>2. batch[l][1].op \in FunctorOps
      BY <3>1 DEF LInv, PhaseInv
    <3>3. batch[l][1] \in AllCalls
      BY <3>1
    <3>4. x \in AllCalls /\ x.op # "readFromPeer"
      BY <3>1, <3>2, <3>3 DEF FunctorOps
    <3> QED
      BY <3>4 DEF AllCalls
  <2>3. active'[l] = {} /\ \A k \in Loops : active'[k] \subseteq active[k]
    BY <2>1 DEF LInv, PhaseInv
  <2>4. SocketTypes' /\ \A d \in Conns : state_'[d] = state_[d] /\ closedIn'[d] = closedIn[d]
    BY <2>1 DEF ReadsInv, SocketTypes
  <2> HIDE DEF x
  <2> DEFINE calls == <<x>>
  <2>5. /\ calls \in Seq(AllCalls)
        /\ \A i \in 1 .. Len(calls) : calls[i].c = x.c /\ calls[i].op # "readFromPeer"
    BY <2>2
  <2>6. stack' = [stack EXCEPT ![l] = calls]
    BY <2>1 DEF x
  <2> HIDE DEF calls
  <2> QED
    BY <2>1, <2>2, <2>3, <2>4, <2>5, <2>6, ReadsBeginOther
<1>2. ASSUME NEW c \in Conns, TimerFires(l, c) PROVE ReadsInv'
  <2>1. /\ phase[l] = "timers" /\ stack[l] = <<>> /\ loop_[c] = l
        /\ UNCHANGED <<active, state_, events_, reset, reopened>>
        /\ closedIn' = [closedIn EXCEPT ![c] = "timer"]
    BY <1>2 DEF TimerFires, Idle, loopVars, channelVars, sockets, history
  <2> DEFINE x == Call("write", c)
             y == Call("activeClose", c)
  <2>2. /\ x \in AllCalls /\ x.op = "write" /\ x.c = c
        /\ y \in AllCalls /\ y.op = "activeClose" /\ y.c = c
    BY DEF Call, AllCalls, ConnOps
  <2>3. PICK last \in {<<>>, <<x>>} : stack' = [stack EXCEPT ![l] = last \o <<y>>]
    BY <1>2, Zenon DEF TimerFires
  <2> HIDE DEF x, y
  <2>4. PICK calls \in Seq(AllCalls) :
           /\ stack' = [stack EXCEPT ![l] = calls]
           /\ \A i \in 1 .. Len(calls) : calls[i].c = c /\ calls[i].op # "readFromPeer"
    <3>1. <<>> \o <<y>> = <<y>> /\ <<x>> \o <<y>> = <<x, y>>
      BY <2>2, Joined, Zenon
    <3>2. CASE last = <<>>
      <4>1. /\ <<y>> \in Seq(AllCalls)
            /\ \A i \in 1 .. Len(<<y>>) : <<y>>[i].c = c /\ <<y>>[i].op # "readFromPeer"
        BY <2>2
      <4> QED
        BY <2>3, <3>1, <3>2, <4>1, Zenon
    <3>3. CASE last = <<x>>
      <4>1. /\ <<x, y>> \in Seq(AllCalls)
            /\ \A i \in 1 .. Len(<<x, y>>) :
                  <<x, y>>[i].c = c /\ <<x, y>>[i].op # "readFromPeer"
        BY <2>2
      <4> QED
        BY <2>3, <3>1, <3>3, <4>1, Zenon
    <3> QED
      BY <3>2, <3>3
  <2>5. active'[l] = {} /\ \A k \in Loops : active'[k] \subseteq active[k]
    BY <2>1 DEF LInv, PhaseInv
  <2>6. /\ SocketTypes'
        /\ \A d \in Conns : \/ state_'[d] = state_[d]
                            \/ state_[d] = "none" /\ state_'[d] = "connected"
        /\ \A d \in Conns : closedIn'[d] = closedIn[d] \/ loop_[d] = l
    BY <2>1 DEF ReadsInv, SocketTypes
  <2>7. /\ \A a \in active'[l] : a.c # c
        /\ \A k \in Loops : active'[k] \subseteq active[k]
        /\ stack[l] = <<>> /\ UNCHANGED <<events_, reset, reopened>>
    BY <2>1, <2>5
  <2> QED
    BY <2>4, <2>6, <2>7, ReadsBeginOther, Zenon
<1> QED
  BY <1>1, <1>2

\* A new connection has nothing to read.
LEMMA AcceptRead ==
    ASSUME IInv, IInv', LInv, ReadsInv, Accept
    PROVE  ReadsInv'
<1>1. PICK c \in Conns, m \in Loops :
          /\ IsLeast(c, {d \in Conns : state_[d] = "none"})
          /\ state_' = [state_ EXCEPT ![c] = "connected"]
          /\ IF m = Base
             THEN stack' = [stack EXCEPT ![m] = <<Call("nccb", c), Call("startReading", c)>>]
             ELSE stack' = [stack EXCEPT ![Base] = <<Call("startReading", c)>>]
  BY DEF Accept
<1>2. /\ UNCHANGED <<active, events_, reset, reopened, closedIn>>
      /\ stack[Base] = <<>> /\ Base \in Loops
  BY DEF Accept, Idle, loopVars, channelVars, sockets, history, Loops
<1>3. /\ state_[c] = "none" /\ state_'[c] = "connected"
      /\ \A d \in Conns : d # c => state_'[d] = state_[d]
  BY <1>1 DEF IsLeast, IInv, ConnInv
<1>4. /\ \A k \in Loops : active'[k] \subseteq active[k]
      /\ \A a \in active'[Base] : a.c # c
  BY <1>2, <1>3 DEF IInv, ActiveInv, Local
<1> DEFINE x == Call("nccb", c)
           y == Call("startReading", c)
<1>5. /\ x \in AllCalls /\ x.op = "nccb" /\ x.c = c
      /\ y \in AllCalls /\ y.op = "startReading" /\ y.c = c
  BY DEF Call, AllCalls, ServerOps, ConnOps
<1>6. stack' = [stack EXCEPT ![Base] = <<y>>] \/ stack' = [stack EXCEPT ![Base] = <<x, y>>]
  BY <1>1
<1> HIDE DEF x, y
<1>7. PICK calls \in Seq(AllCalls) :
         /\ stack' = [stack EXCEPT ![Base] = calls]
         /\ \A i \in 1 .. Len(calls) : calls[i].c = c /\ calls[i].op # "readFromPeer"
  <2>1. /\ <<y>> \in Seq(AllCalls)
        /\ \A i \in 1 .. Len(<<y>>) : <<y>>[i].c = c /\ <<y>>[i].op # "readFromPeer"
    BY <1>5
  <2>2. /\ <<x, y>> \in Seq(AllCalls)
        /\ \A i \in 1 .. Len(<<x, y>>) : <<x, y>>[i].c = c /\ <<x, y>>[i].op # "readFromPeer"
    BY <1>5
  <2> QED
    BY <1>6, <2>1, <2>2, Zenon
<1>8. SocketTypes'
  BY <1>2 DEF ReadsInv, SocketTypes
<1>9. /\ \A d \in Conns : \/ state_'[d] = state_[d]
                          \/ state_[d] = "none" /\ state_'[d] = "connected"
      /\ \A d \in Conns : closedIn'[d] = closedIn[d] \/ loop_[d] = Base
  BY <1>2, <1>3
<1> QED
  BY <1>2, <1>4, <1>7, <1>8, <1>9, ReadsBeginOther, ZenonT(60)

\* References are dropped.
LEMMA ReleasesRead ==
    ASSUME IInv, IInv', LInv, LInv', ReadsInv, NEW l \in Loops,
           EndFunctors(l) \/ \E c \in Conns : CloseReturns(l, c)
    PROVE  ReadsInv'
<1>1. Release /\ UNCHANGED <<active, reopened>>
  BY DEF EndFunctors, CloseReturns, loopVars, history
<1>2. ASSUME NEW k \in Loops PROVE Remains(stack'[k], stack[k])
  <2>1. /\ Remains(stack[k], stack[k])
        /\ stack[k] # <<>> => Remains(<<>> \o Tail(stack[k]), stack[k])
    BY WhatRemains DEF IInv, StackInv
  <2>2. \/ UNCHANGED stack
        \/ stack[l] # <<>> /\ stack' = [stack EXCEPT ![l] = <<>> \o Tail(stack[l])]
    BY DEF EndFunctors, CloseReturns, Calls, Continue
  <2>3. \/ stack'[k] = stack[k]
        \/ stack[k] # <<>> /\ stack'[k] = <<>> \o Tail(stack[k])
    BY <2>2 DEF IInv, StackInv
  <2> QED
    BY <2>1, <2>3
<1> QED
  BY <1>1, <1>2, ReadsRelease

\* Steps of the peers and the loops that call nothing, and those that end the
\* process.
LEMMA StillRead ==
    ASSUME IInv, IInv', ReadsInv,
           \/ UNCHANGED vars
           \/ AcceptLost \/ AcceptFails
           \/ \E c \in Conns : PeerStep(c)
           \/ \E l \in Loops : SwapFunctors(l) \/ EndIteration(l)
           \/ /\ aborted'
              /\ \E l \in Loops, c \in Conns :
                    HandleConnectionClose(l, c) \/ ActiveClose(l, c) \/ Destroy(l, c)
    PROVE  ReadsInv'
<1>1. /\ UNCHANGED <<stack, state_, closedIn, events_, reopened, active>>
      /\ UNCHANGED reset \/ \E c \in Conns : reset' = [reset EXCEPT ![c] = TRUE]
  <2>1. CASE UNCHANGED vars
    BY <2>1 DEF vars, connVars, channelVars, history, loopVars, sockets
  <2>2. CASE AcceptLost
    <3>1. UNCHANGED <<stack, state_, closedIn, events_, reopened, active>>
      BY <2>2 DEF AcceptLost, connVars, channelVars, history, loopVars
    <3>2. PICK c \in Conns : reset' = Reset(reset, {c}, TRUE)
      BY <2>2 DEF AcceptLost
    <3>3. reset' = [reset EXCEPT ![c] = TRUE]
      BY <3>2 DEF Reset, ReadsInv, SocketTypes
    <3> QED
      BY <3>1, <3>3
  <2>6. CASE AcceptFails
    BY <2>6 DEF AcceptFails, connVars, channelVars, history, loopVars, sockets
  <2>3. CASE \E c \in Conns : PeerStep(c)
    BY <2>3 DEF PeerStep, PeerSends, PeerCloses, PeerResets, connVars, channelVars, history,
                loopVars, sockets
  <2>4. CASE \E l \in Loops : SwapFunctors(l) \/ EndIteration(l)
    BY <2>4 DEF SwapFunctors, EndIteration, connVars, channelVars, history, loopVars, sockets
  <2>5. ASSUME aborted', NEW l \in Loops, NEW c \in Conns,
               HandleConnectionClose(l, c) \/ ActiveClose(l, c) \/ Destroy(l, c)
        PROVE  UNCHANGED <<stack, state_, closedIn, events_, reopened, active, reset>>
    BY <2>5 DEF HandleConnectionClose, ActiveClose, Destroy, Calls, connVars, channelVars,
                history, loopVars, sockets
  <2> QED
    BY <2>1, <2>2, <2>3, <2>4, <2>5, <2>6
<1>2. SocketTypes' /\ \A d \in Conns : reset[d] => reset'[d]
  BY <1>1 DEF ReadsInv, SocketTypes
<1> QED
  BY <1>1, <1>2, ReadsStill

\* The invariant about reading holds at first.
LEMMA InitReads == Init => ReadsInv
<1> SUFFICES ASSUME Init PROVE ReadsInv
  OBVIOUS
<1>1. /\ SocketTypes /\ ListenInv
      /\ \A l \in Loops : active[l] = {} /\ stack[l] = <<>>
  BY DEF Init, SocketTypes, ListenInv, Alive
<1>2. 1 .. Len(<<>>) = {}
  OBVIOUS
<1> QED
  BY <1>1, <1>2 DEF ReadsInv, ApartInv, ReadInv

\* Every step keeps the invariant about reading.
LEMMA NextReads == IInv /\ IInv' /\ LInv /\ LInv' /\ ReadsInv /\ [Next]_vars => ReadsInv'
<1> SUFFICES ASSUME IInv, IInv', LInv, LInv', ReadsInv, [Next]_vars PROVE ReadsInv'
  BY Zenon
<1>1. CASE UNCHANGED vars \/ AcceptLost \/ AcceptFails \/ \E c \in Conns : PeerStep(c)
  BY <1>1, StillRead
<1>2. CASE Accept
  BY <1>2, AcceptRead
<1>3. ASSUME NEW l \in Loops, PollReturns(l) \/ \E c \in Conns : TimerFires(l, c)
      PROVE  ReadsInv'
  BY <1>3, PollRead, BeginsRead DEF PollReturns
<1>4. ASSUME NEW l \in Loops, NEW c \in Conns, CallStep(l, c) PROVE ReadsInv'
  <2>1. CASE \/ StartReading(l, c) \/ NotifyClosed(l, c) \/ QueueDestroy(l, c)
             \/ CloseCallback(l, c) \/ WriteWouldBlock(l, c) \/ WriteFails(l, c)
    <3>1. ~aborted'
      BY <2>1 DEF StartReading, NotifyClosed, QueueDestroy, CloseCallback, WriteWouldBlock,
                  WriteFails, Calls
    <3> QED
      BY <2>1, <3>1, QuietStepsRead
  <2>2. CASE HandleConnectionClose(l, c) \/ ActiveClose(l, c) \/ Destroy(l, c)
    BY <2>2, StillRead, QuietStepsRead, ClosesRead
  <2>3. CASE ReadEnd(l, c)
    <3>1. ~aborted'
      BY <2>3 DEF ReadEnd, Calls
    <3> QED
      BY <2>3, <3>1, ClosesRead
  <2>4. CASE NewConnectionCallback(l, c) \/ ReadData(l, c)
    BY <2>4, CallbacksRead
  <2>5. CASE EnableReading(l, c) \/ Write(l, c) \/ WriteAll(l, c)
    BY <2>5, ChannelStepsRead
  <2>6. CASE CloseReturns(l, c)
    BY <2>6, ReleasesRead
  <2> QED
    BY <1>4, <2>1, <2>2, <2>3, <2>4, <2>5, <2>6 DEF CallStep
<1>5. ASSUME NEW l \in Loops, LoopStep(l) PROVE ReadsInv'
  BY <1>4, <1>5, HandleEventsRead, BeginsRead, ReleasesRead, StillRead DEF LoopStep
<1> QED
  BY <1>1, <1>2, <1>3, <1>5 DEF Next

\* What user code may count on between its own callbacks: no data before the
\* new-connection callback, and none once the connection is closed, but for a
\* close that came before the reading was enabled and for one in a write-done
\* callback.
THEOREM NothingReadOutOfOrder == Spec => ReadsInOrder
<1>1. Init => IInv /\ LInv /\ ReadsInv
  BY InitIInv, InitLInv, InitReads
<1>2. (IInv /\ LInv /\ ReadsInv) /\ [Next]_vars => (IInv /\ LInv /\ ReadsInv)'
  BY NextIInv, NextLInv, NextReads
<1>3. IInv /\ LInv /\ ReadsInv =>
         \A l \in Loops, c \in Conns :
            ReadData(l, c) =>
                /\ c \in nccbRun
                /\ \/ state_[c] = "connected"
                   \/ c \in reopened
                   \/ closedIn[c] = "writer"
  <2> SUFFICES ASSUME IInv, LInv, ReadsInv, NEW l \in Loops, NEW c \in Conns, ReadData(l, c)
               PROVE  /\ c \in nccbRun
                      /\ state_[c] = "connected" \/ c \in reopened \/ closedIn[c] = "writer"
    OBVIOUS
  <2>1. Calls(l, "readFromPeer", c)
    BY DEF ReadData
  <2>2. c \in nccbRun
    BY <2>1, HeadCall, HeadFacts DEF ServerOps
  <2>3. /\ 1 \in 1 .. Len(stack[l]) /\ stack[l][1].op = "readFromPeer" /\ stack[l][1].c = c
    BY <2>1 DEF Calls, Call, IInv, StackInv
  <2> QED
    BY <2>2, <2>3 DEF ReadsInv, ReadInv, Open
<1> QED
  BY <1>1, <1>2, <1>3, PTL DEF Spec, ReadsInOrder

=============================================================================
