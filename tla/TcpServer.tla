------------------------------ MODULE TcpServer ------------------------------
(***************************************************************************)
(* The life of the connections of a fx::TcpServer.  The base loop accepts;   *)
(* each connection is handed to an IO loop (or stays on the base loop when    *)
(* there are none), is read and written there, and is taken down by calls    *)
(* that go back and forth between the two loops: OnConnectionClosed to the    *)
(* base loop, the close callback and Destroy to the IO loop.                 *)
(*                                                                         *)
(* A loop is a FIFO of functors and the phases of EventLoop::Run.  What a     *)
(* thread is in the middle of is its stack of calls: RunInLoop on the own    *)
(* loop puts a call on the stack, on another loop in that loop's queue.      *)
(***************************************************************************)
EXTENDS Integers, Sequences, FiniteSets, FiniteSetsExt, SequencesExt

CONSTANTS
    Base,           \* the loop that accepts
    IoLoops,        \* the loops of the thread pool, a sequence
    MaxConns,       \* bound: connections accepted
    Fds,            \* descriptors accept() can return
    MaxInput        \* bound: chunks a peer sends

ASSUME LoopsAssumption ==
    IoLoops \in Seq(Range(IoLoops)) /\ IsInjective(IoLoops) /\ Base \notin Range(IoLoops)
ASSUME BoundsAssumption == MaxConns \in Nat /\ Fds \subseteq Nat /\ MaxInput \in Nat

Loops == {Base} \cup Range(IoLoops)
Conns == 1 .. MaxConns
NoConn == 0

VARIABLES
    threads,        \* the loops of the pool that were started
    next_,          \* EventLoopThreadPool's turn
    phase,          \* per loop: the phase of Run
    active,         \* per loop: channels Poll returned, with their revents
    queue,          \* per loop: functors_
    batch,          \* per loop: functors still to run in this iteration
    held,           \* per loop: connections the functors of the batch keep alive
    stack,          \* per loop: calls in progress, innermost first
    wake,           \* per loop: unread bytes in the wakeup pipe
    poller,         \* per loop: Poller::channels_, from descriptor to channel
    connections_,   \* TcpServer::connections_
    state_,         \* per connection: its TcpConnectionState, or where it is not
    loop_,          \* per connection: its loop
    fd_,            \* per connection: its descriptor
    closedIn,       \* per connection: the user callback that called ActiveClose
    events_,        \* per connection: Channel::events_
    unsent,         \* per connection: write_buf_ is not empty
    input,          \* per connection: chunks in the socket's receive buffer
    sent,           \* per connection: chunks the peer has sent
    fin,            \* per connection: the peer has closed its end
    reset,          \* per connection: the peer has reset the connection
    acceptFailed,   \* accept() has returned -1
    aborted,        \* an assertion or PCHECK has ended the process
    nccbRun,        \* history: connections whose new-connection callback ran
    cccbRun,        \* history: connections whose close callback ran
    reopened,       \* history: reading enabled when already closed
    pushes          \* history, per loop: loops that have called QueueInLoop on it

loopVars == <<phase, active, batch, held>>
queueVars == <<queue, wake, pushes>>
serverVars == <<threads, next_, connections_, acceptFailed>>
connVars == <<state_, loop_, fd_, closedIn>>
channelVars == <<events_, poller>>
sockets == <<input, sent, fin, reset>>
history == <<nccbRun, cccbRun, reopened>>
vars == <<loopVars, queueVars, stack, serverVars, connVars, channelVars, unsent,
          sockets, aborted, history>>

Alive == {c \in Conns : state_[c] \in {"connected", "disconnected"}}

Call(op, c) == [op |-> op, c |-> c]

\* The functors and calls that hold a TcpConnectionPtr; the others hold a raw
\* Channel or TcpConnection pointer, or only a descriptor.
RawDestroyOps == {"nccb", "cccb", "startReading", "notifyClosed", "queueDestroy",
                  "closeReturns"}   \* mutant: Destroy bound to a raw pointer

SharedOps == {"nccb", "cccb", "destroy", "startReading", "notifyClosed",
              "queueDestroy", "closeReturns"}

Init ==
    /\ threads \in {<<>>, IoLoops}
    /\ next_ = 1
    /\ phase = [l \in Loops |-> "poll"]
    /\ active = [l \in Loops |-> {}]
    /\ queue = [l \in Loops |-> <<>>]
    /\ batch = [l \in Loops |-> <<>>]
    /\ held = [l \in Loops |-> {}]
    /\ stack = [l \in Loops |-> <<>>]
    /\ wake = [l \in Loops |-> FALSE]
    /\ poller = [l \in Loops |-> [f \in Fds |-> NoConn]]
    /\ connections_ = {}
    /\ state_ = [c \in Conns |-> "none"]
    /\ loop_ = [c \in Conns |-> Base]
    /\ fd_ = [c \in Conns |-> 0]
    /\ events_ = [c \in Conns |-> {}]
    /\ unsent = [c \in Conns |-> FALSE]
    /\ input = [c \in Conns |-> 0]
    /\ sent = [c \in Conns |-> 0]
    /\ fin = [c \in Conns |-> FALSE]
    /\ reset = [c \in Conns |-> FALSE]
    /\ aborted = FALSE /\ acceptFailed = FALSE
    /\ closedIn = [c \in Conns |-> "none"]
    /\ nccbRun = {}
    /\ cccbRun = {}
    /\ reopened = {}
    /\ pushes = [l \in Loops |-> {}]

-----------------------------------------------------------------------------
(* Loops *)

\* The innermost call of loop l is replaced by the calls it makes.
Continue(l, calls) == stack' = [stack EXCEPT ![l] = calls \o Tail(@)]

\* QueueInLoop, called on loop l for loop m, while l goes on with calls.  The
\* loop itself sends a wakeup only while it runs functors.
QueueInLoopUnwoken(l, m, call, calls) ==      \* mutant: no wakeup from outside
    /\ Continue(l, calls)
    /\ queue' = [queue EXCEPT ![m] = Append(@, call)]
    /\ wake' = [wake EXCEPT ![m] = @ \/ phase[l] = "functors"]
    /\ pushes' = [pushes EXCEPT ![m] = @ \cup {l}]

QueueInLoop(l, m, call, calls) ==
    /\ Continue(l, calls)
    /\ queue' = [queue EXCEPT ![m] = Append(@, call)]
    /\ wake' = [wake EXCEPT ![m] = @ \/ l # m \/ phase[l] = "functors"]
    /\ pushes' = [pushes EXCEPT ![m] = @ \cup {l}]

RunInLoop(l, m, call, calls) ==
    IF l = m
    THEN Continue(l, <<call>> \o calls) /\ UNCHANGED <<queue, wake, pushes>>
    ELSE QueueInLoop(l, m, call, calls)

\* Channel::Update: the poller maps the descriptor to the channel.
Update(c, events) ==
    /\ events_' = [events_ EXCEPT ![c] = events]
    /\ poller' = [poller EXCEPT ![loop_[c]][fd_[c]] =
                     IF @ = NoConn THEN c ELSE @]

\* Connections some reference still keeps alive.
Referenced(c) ==
    \/ c \in connections_
    \/ \E l \in Loops :
          \/ c \in held[l]
          \/ \E call \in Range(queue[l]) \cup Range(stack[l]) :
                call.c = c /\ call.op \in SharedOps

Reset(f, S, v) == [c \in Conns |-> IF c \in S THEN v ELSE f[c]]

\* The last TcpConnectionPtr is gone: ~TcpConnection closes the descriptor, and
\* nothing is left of the buffers, the channel and the socket.
Release ==
    LET gone == {c \in Alive : ~Referenced(c)'} IN
        /\ state_' = Reset(state_, gone, "freed")
        /\ closedIn' = Reset(closedIn, gone, "none")
        /\ events_' = Reset(events_, gone, {})
        /\ unsent' = Reset(unsent, gone, FALSE)
        /\ input' = Reset(input, gone, 0)
        /\ sent' = Reset(sent, gone, 0)
        /\ fin' = Reset(fin, gone, FALSE)
        /\ reset' = Reset(reset, gone, FALSE)

-----------------------------------------------------------------------------
(* The phases of a loop *)

InputReady(c) ==
    "in" \in events_[c] /\ (input[c] > 0 \/ fin[c] \/ reset[c] \/ closedIn[c] # "none")

Registered(l) == {poller[l][f] : f \in Fds} \ {NoConn}

\* Poll reports every readable channel and those writable ones the environment
\* picks.
Poll(l, writable) ==
    /\ ~aborted /\ phase[l] = "poll"
    /\ phase' = [phase EXCEPT ![l] = "handlers"]
    /\ wake' = [wake EXCEPT ![l] = FALSE]
    /\ active' = [active EXCEPT ![l] =
          {[c |-> c, in |-> InputReady(c), out |-> c \in writable] :
              c \in {d \in Registered(l) : InputReady(d) \/ d \in writable}}]
    /\ UNCHANGED <<batch, held, queue, pushes, stack, serverVars, connVars,
                   channelVars, unsent, sockets, aborted, history>>

\* Loop l is between two calls, in the given phase.
Idle(l, p) == ~aborted /\ phase[l] = p /\ stack[l] = <<>>

\* Channel::HandleEvents: the write callback, then the read callback.
HandleEvents(l) ==
    /\ Idle(l, "handlers")
    /\ \E a \in active[l] :
          /\ active' = [active EXCEPT ![l] = @ \ {a}]
          /\ stack' = [stack EXCEPT ![l] =
                (IF a.out THEN <<Call("writeToPeer", a.c)>> ELSE <<>>)
                \o (IF a.in THEN <<Call("readFromPeer", a.c)>> ELSE <<>>)]
    /\ UNCHANGED <<phase, batch, held, queueVars, serverVars, connVars,
                   channelVars, unsent, sockets, aborted, history>>

\* CallPendingFunctors swaps the queue; the batch keeps its functors, and what
\* they point to, alive until the last of them has run.
SwapFunctors(l) ==
    /\ Idle(l, "handlers") /\ active[l] = {}
    /\ phase' = [phase EXCEPT ![l] = "functors"]
    /\ batch' = [batch EXCEPT ![l] = queue[l]]
    /\ queue' = [queue EXCEPT ![l] = <<>>]
    /\ held' = [held EXCEPT ![l] =
                   {call.c : call \in {k \in Range(queue[l]) : k.op \in SharedOps}}]
    /\ UNCHANGED <<active, wake, pushes, stack, serverVars, connVars,
                   channelVars, unsent, sockets, aborted, history>>

RunFunctor(l) ==
    /\ Idle(l, "functors") /\ batch[l] # <<>>
    /\ stack' = [stack EXCEPT ![l] = <<Head(batch[l])>>]
    /\ batch' = [batch EXCEPT ![l] = Tail(@)]
    /\ UNCHANGED <<phase, active, held, queueVars, serverVars, connVars,
                   channelVars, unsent, sockets, aborted, history>>

EndFunctors(l) ==
    /\ Idle(l, "functors") /\ batch[l] = <<>>
    /\ phase' = [phase EXCEPT ![l] = "timers"]
    /\ held' = [held EXCEPT ![l] = {}]
    /\ UNCHANGED <<active, batch, queueVars, stack, serverVars, loop_, fd_,
                   poller, aborted, history>>
    /\ Release

\* A timer of the user closes a connection that is not closed yet, with or
\* without a last message.
TimerFires(l, c) ==
    /\ Idle(l, "timers")
    /\ loop_[c] = l /\ state_[c] = "connected" /\ c \in nccbRun
    /\ \E last \in {<<>>, <<Call("write", c)>>} :
          stack' = [stack EXCEPT ![l] = last \o <<Call("activeClose", c)>>]
    /\ closedIn' = [closedIn EXCEPT ![c] = "timer"]
    /\ UNCHANGED <<loopVars, queueVars, serverVars, state_, loop_, fd_,
                   channelVars, unsent, sockets, aborted, history>>

EndIteration(l) ==
    /\ Idle(l, "timers")
    /\ phase' = [phase EXCEPT ![l] = "poll"]
    /\ UNCHANGED <<active, batch, held, queueVars, stack, serverVars, connVars,
                   channelVars, unsent, sockets, aborted, history>>

-----------------------------------------------------------------------------
(* The server: accepting and taking down *)

\* EventLoopThreadPool::NextLoop takes the loops in turn; the base loop when
\* there are none.
NextLoop == IF threads = <<>> THEN Base ELSE threads[next_]

NextTurn == IF threads = <<>> THEN next_ ELSE (next_ % Len(threads)) + 1

IsLeast(x, S) == x \in S /\ \A y \in S : x <= y

\* OnNewConnection, on the base loop: the connection enters the map, its
\* new-connection callback and then StartReading go to its loop.
Accept ==
    /\ Idle(Base, "handlers")
    /\ \E c \in Conns, l \in Loops, f \in Fds :
          /\ IsLeast(c, {d \in Conns : state_[d] = "none"})
          /\ IsLeast(f, Fds \ {fd_[d] : d \in Alive})
          /\ l = NextLoop /\ next_' = NextTurn
          /\ state_' = [state_ EXCEPT ![c] = "connected"]
          /\ loop_' = [loop_ EXCEPT ![c] = l]
          /\ fd_' = [fd_ EXCEPT ![c] = f]
          /\ aborted' = \E d \in connections_ : fd_[d] = f
          /\ connections_' = connections_ \cup {c}
          /\ IF l = Base
             THEN /\ stack' = [stack EXCEPT ![l] =
                                  <<Call("nccb", c), Call("startReading", c)>>]
                  /\ UNCHANGED queueVars
             ELSE /\ stack' = [stack EXCEPT ![Base] = <<Call("startReading", c)>>]
                  /\ queue' = [queue EXCEPT ![l] = Append(@, Call("nccb", c))]
                  /\ wake' = [wake EXCEPT ![l] = TRUE]
                  /\ pushes' = [pushes EXCEPT ![l] = @ \cup {Base}]
    /\ UNCHANGED <<loopVars, threads, acceptFailed, closedIn, channelVars, unsent,
                   sockets, history>>

\* The peer resets the connection before the constructor of TcpConnection asks
\* for its name: the PCHECK on getpeername() ends the process.
AcceptLost ==
    /\ Idle(Base, "handlers")
    /\ Fds \ {fd_[d] : d \in Alive} # {}
    /\ \E c \in Conns : state_[c] = "none" /\ reset' = Reset(reset, {c}, TRUE)
    /\ aborted' = TRUE
    /\ UNCHANGED <<loopVars, queueVars, stack, serverVars, connVars, channelVars,
                   unsent, input, sent, fin, history>>

\* accept() fails, as the peer is gone again or there is no descriptor left: -1
\* goes on to SetNonblocking, whose PCHECK ends the process.
AcceptFails ==
    /\ Idle(Base, "handlers")
    /\ acceptFailed' = TRUE /\ aborted' = TRUE
    /\ UNCHANGED <<loopVars, queueVars, stack, threads, next_, connections_,
                   connVars, channelVars, unsent, sockets, history>>

\* Call op of connection c is the innermost call of loop l.
Calls(l, op, c) == ~aborted /\ stack[l] # <<>> /\ Head(stack[l]) = Call(op, c)

StartReadingHere(l, c) ==      \* mutant: reading enabled in the base thread
    /\ Calls(l, "startReading", c)
    /\ Continue(l, <<Call("enableReading", c)>>)
    /\ UNCHANGED <<loopVars, queueVars, serverVars, connVars, channelVars, unsent,
                   sockets, aborted, history>>

\* EnableReading is left to the connection's own loop.
StartReading(l, c) ==
    /\ Calls(l, "startReading", c)
    /\ RunInLoop(l, loop_[c], Call("enableReading", c), <<>>)
    /\ UNCHANGED <<loopVars, serverVars, connVars, channelVars, unsent, sockets,
                   aborted, history>>

EnableReading(l, c) ==
    /\ Calls(l, "enableReading", c)
    /\ Update(c, events_[c] \cup {"in"})
    /\ Continue(l, <<>>)
    /\ reopened' = IF state_[c] = "connected" THEN reopened ELSE reopened \cup {c}
    /\ UNCHANGED <<loopVars, queueVars, serverVars, connVars, unsent, sockets,
                   aborted, nccbRun, cccbRun>>

OnConnectionClosedHere(l, c) ==      \* mutant: taken down by the calling thread
    Continue(l, <<Call("handleClose", c)>>) /\ UNCHANGED queueVars

\* OnConnectionClosed, called by ActiveClose and PassiveClose.
OnConnectionClosed(l, c) == RunInLoop(l, Base, Call("handleClose", c), <<>>)

SilentTakeDown(c) == <<Call("queueDestroy", c), Call("closeReturns", c)>>  \* mutant

TakeDown(c) == <<Call("notifyClosed", c), Call("queueDestroy", c),
                 Call("closeReturns", c)>>

\* HandleConnectionClose, on the base loop: it is given a descriptor, takes the
\* connection of that descriptor out of the map, has its close callback called
\* and queues its Destroy.
HandleConnectionClose(l, c) ==
    /\ Calls(l, "handleClose", c)
    /\ IF \E d \in connections_ : fd_[d] = fd_[c]
       THEN \E d \in connections_ :
               /\ fd_[d] = fd_[c]
               /\ connections_' = connections_ \ {d}
               /\ Continue(l, TakeDown(d))
               /\ UNCHANGED aborted
       ELSE aborted' = TRUE /\ UNCHANGED <<connections_, stack>>
    /\ UNCHANGED <<loopVars, queueVars, threads, next_, acceptFailed, connVars,
                   channelVars, unsent, sockets, history>>

NotifyClosed(l, c) ==
    /\ Calls(l, "notifyClosed", c)
    /\ RunInLoop(l, loop_[c], Call("cccb", c), <<>>)
    /\ UNCHANGED <<loopVars, serverVars, connVars, channelVars, unsent, sockets,
                   aborted, history>>

QueueDestroy(l, c) ==
    /\ Calls(l, "queueDestroy", c)
    /\ QueueInLoop(l, loop_[c], Call("destroy", c), <<>>)
    /\ UNCHANGED <<loopVars, serverVars, connVars, channelVars, unsent, sockets,
                   aborted, history>>

\* Only now does HandleConnectionClose drop its own TcpConnectionPtr.
CloseReturns(l, c) ==
    /\ Calls(l, "closeReturns", c)
    /\ Continue(l, <<>>)
    /\ UNCHANGED <<loopVars, queueVars, serverVars, loop_, fd_, poller, aborted,
                   history>>
    /\ Release

-----------------------------------------------------------------------------
(* The connection, on its own loop *)

\* A callback of the user writes, closes a connection that is not closed yet,
\* does both or neither.
React(l, c, name) ==
    \E writes \in BOOLEAN, closes \in BOOLEAN :
        /\ closes => state_[c] = "connected"
        /\ Continue(l, (IF writes THEN <<Call("write", c)>> ELSE <<>>)
                       \o (IF closes THEN <<Call("activeClose", c)>> ELSE <<>>))
        /\ closedIn' = [closedIn EXCEPT ![c] = IF closes THEN name ELSE @]

NewConnectionCallback(l, c) ==
    /\ Calls(l, "nccb", c)
    /\ React(l, c, "nccb")
    /\ nccbRun' = nccbRun \cup {c}
    /\ UNCHANGED <<loopVars, queueVars, serverVars, state_, loop_, fd_,
                   channelVars, unsent, sockets, aborted, cccbRun, reopened>>

CloseCallback(l, c) ==
    /\ Calls(l, "cccb", c)
    /\ Continue(l, <<>>)
    /\ cccbRun' = cccbRun \cup {c}
    /\ UNCHANGED <<loopVars, queueVars, serverVars, connVars, channelVars,
                   unsent, sockets, aborted, nccbRun, reopened>>

Write(l, c) ==
    /\ Calls(l, "write", c)
    /\ unsent' = [unsent EXCEPT ![c] = TRUE]
    /\ Update(c, events_[c] \cup {"out"})
    /\ Continue(l, <<>>)
    /\ UNCHANGED <<loopVars, queueVars, serverVars, connVars, sockets, aborted,
                   history>>

\* The socket is shut down for reading; on a connection the peer has reset,
\* shutdown() fails and PCHECK ends the process.
ActiveClose(l, c) ==
    /\ Calls(l, "activeClose", c)
    /\ IF state_[c] = "disconnected" \/ reset[c]
       THEN aborted' = TRUE /\ UNCHANGED <<stack, queueVars, state_, channelVars>>
       ELSE /\ Update(c, events_[c] \ {"in"})
            /\ state_' = [state_ EXCEPT ![c] = "disconnected"]
            /\ OnConnectionClosed(l, c)
            /\ UNCHANGED aborted
    /\ UNCHANGED <<loopVars, serverVars, loop_, fd_, closedIn, unsent, sockets,
                   history>>

\* ReadFromPeer finds data and runs the user's read callback ...
ReadData(l, c) ==
    /\ Calls(l, "readFromPeer", c) /\ input[c] > 0
    /\ input' = [input EXCEPT ![c] = 0]
    /\ React(l, c, "reader")
    /\ UNCHANGED <<loopVars, queueVars, serverVars, state_, loop_, fd_,
                   channelVars, unsent, sent, fin, reset, aborted, history>>

PassiveCloseAlways(l, c) ==      \* mutant: no early return
    /\ state_' = [state_ EXCEPT ![c] = "disconnected"]
    /\ Update(c, {})
    /\ OnConnectionClosed(l, c)

PassiveClose(l, c) ==
    IF state_[c] = "disconnected"
    THEN Continue(l, <<>>) /\ UNCHANGED <<queueVars, state_, channelVars>>
    ELSE /\ state_' = [state_ EXCEPT ![c] = "disconnected"]
         /\ Update(c, {})
         /\ OnConnectionClosed(l, c)

\* ... or the end of the stream, or an error.
ReadEnd(l, c) ==
    /\ Calls(l, "readFromPeer", c) /\ input[c] = 0
    /\ PassiveClose(l, c)
    /\ UNCHANGED <<loopVars, serverVars, loop_, fd_, closedIn, unsent, sockets,
                   aborted, history>>

\* WriteToPeer empties write_buf_ and runs the user's write-done callback ...
WriteAll(l, c) ==
    /\ Calls(l, "writeToPeer", c)
    /\ unsent[c] => ~reset[c]
    /\ unsent' = [unsent EXCEPT ![c] = FALSE]
    /\ Update(c, events_[c] \ {"out"})
    /\ React(l, c, "writer")
    /\ UNCHANGED <<loopVars, queueVars, serverVars, state_, loop_, fd_, sockets,
                   aborted, history>>

\* ... or the socket takes no more ...
WriteWouldBlock(l, c) ==
    /\ Calls(l, "writeToPeer", c) /\ unsent[c] /\ ~reset[c]
    /\ Continue(l, <<>>)
    /\ UNCHANGED <<loopVars, queueVars, serverVars, connVars, channelVars,
                   unsent, sockets, aborted, history>>

\* ... or the peer has reset the connection, and it is closed.
WriteFails(l, c) ==
    /\ Calls(l, "writeToPeer", c) /\ unsent[c] /\ reset[c]
    /\ Continue(l, IF state_[c] = "disconnected" THEN <<>>
                   ELSE <<Call("activeClose", c)>>)
    /\ UNCHANGED <<loopVars, queueVars, serverVars, connVars, channelVars,
                   unsent, sockets, aborted, history>>

\* Destroy: shut down for writing, and out of the poller.
Destroy(l, c) ==
    /\ Calls(l, "destroy", c)
    /\ IF state_[c] # "disconnected" \/ reset[c] \/ poller[l][fd_[c]] = NoConn
       THEN aborted' = TRUE /\ UNCHANGED <<stack, poller>>
       ELSE /\ poller' = [poller EXCEPT ![l][fd_[c]] = NoConn]
            /\ Continue(l, <<>>)
            /\ UNCHANGED aborted
    /\ UNCHANGED <<loopVars, queueVars, serverVars, connVars, events_, unsent,
                   sockets, history>>

-----------------------------------------------------------------------------
(* The peers *)

PeerSends(c) ==
    /\ ~aborted /\ c \in Alive /\ ~fin[c] /\ ~reset[c] /\ sent[c] < MaxInput
    /\ sent' = [sent EXCEPT ![c] = @ + 1]
    /\ input' = [input EXCEPT ![c] = @ + 1]
    /\ UNCHANGED <<loopVars, queueVars, stack, serverVars, connVars, channelVars,
                   unsent, fin, reset, aborted, history>>

PeerCloses(c) ==
    /\ ~aborted /\ c \in Alive /\ ~fin[c] /\ ~reset[c]
    /\ fin' = [fin EXCEPT ![c] = TRUE]
    /\ UNCHANGED <<loopVars, queueVars, stack, serverVars, connVars, channelVars,
                   unsent, input, sent, reset, aborted, history>>

PeerResets(c) ==
    /\ ~aborted /\ c \in Alive /\ ~reset[c]
    /\ reset' = [reset EXCEPT ![c] = TRUE]
    /\ UNCHANGED <<loopVars, queueVars, stack, serverVars, connVars, channelVars,
                   unsent, input, sent, fin, aborted, history>>

-----------------------------------------------------------------------------
(* Specification *)

CallStep(l, c) ==
    \/ StartReading(l, c) \/ EnableReading(l, c)
    \/ HandleConnectionClose(l, c) \/ NotifyClosed(l, c)
    \/ QueueDestroy(l, c) \/ CloseReturns(l, c)
    \/ NewConnectionCallback(l, c) \/ CloseCallback(l, c)
    \/ Write(l, c) \/ ActiveClose(l, c)
    \/ ReadData(l, c) \/ ReadEnd(l, c)
    \/ WriteAll(l, c) \/ WriteWouldBlock(l, c) \/ WriteFails(l, c)
    \/ Destroy(l, c)

LoopStep(l) ==
    \/ HandleEvents(l) \/ SwapFunctors(l) \/ RunFunctor(l)
    \/ EndFunctors(l) \/ EndIteration(l)
    \/ \E c \in Conns : CallStep(l, c)

Writable(l) == {c \in Registered(l) : "out" \in events_[c]}

PollReturns(l) == \E writable \in SUBSET Writable(l) : Poll(l, writable)

PeerStep(c) == PeerSends(c) \/ PeerCloses(c) \/ PeerResets(c)

Next ==
    \/ Accept \/ AcceptLost \/ AcceptFails
    \/ \E l \in Loops :
          LoopStep(l) \/ PollReturns(l) \/ \E c \in Conns : TimerFires(l, c)
    \/ \E c \in Conns : PeerStep(c)

PollHasReason(l) ==
    /\ wake[l] \/ \E c \in Registered(l) : InputReady(c)
    /\ PollReturns(l)

\* Every loop thread is scheduled; nothing but a wakeup or input is promised to
\* end a Poll, and no peer, timer or socket buffer is promised to do anything.
Fairness ==
    \A l \in Loops : WF_vars(LoopStep(l)) /\ WF_vars(PollHasReason(l))

Spec == Init /\ [][Next]_vars
FairSpec == Spec /\ Fairness

-----------------------------------------------------------------------------
(* Properties *)

\* Nothing a loop is going to touch belongs to a connection that was deleted:
\* no channel in its poller or among those Poll returned, and no functor or
\* call, though EnableReading is queued with a bare Channel pointer.
NoDanglingPointers ==
    \A l \in Loops :
        /\ Registered(l) \subseteq Alive
        /\ {a.c : a \in active[l]} \subseteq Alive
        /\ {call.c : call \in Range(queue[l] \o batch[l] \o stack[l])} \subseteq Alive

\* No assertion of the server, the connection or the poller can fail, and no
\* descriptor is mapped twice, unless a peer resets its connection or accept()
\* fails.
AssertionsHold == aborted => acceptFailed \/ \E c \in Conns : reset[c]

\* StartReading is split from the constructor to keep the order of callbacks:
\* nothing is read before the new-connection callback.  Nor is anything read on
\* a connection that is closed, but for two cases the code leaves open: it was
\* closed before its EnableReading ran, or the write-done callback closed it,
\* just before the read callback of the same HandleEvents.
ReadsInOrder ==
    [][\A l \in Loops, c \in Conns :
          ReadData(l, c) =>
              /\ c \in nccbRun
              /\ \/ state_[c] = "connected"
                 \/ c \in reopened
                 \/ closedIn[c] = "writer"]_vars

\* The user hears of the end of exactly the connections it heard of, and before
\* they are deleted.
CallbacksPaired ==
    /\ cccbRun \subseteq nccbRun
    /\ \A c \in Conns : state_[c] = "freed" => c \in cccbRun

\* The server itself never pushes to a loop both from the loop's own thread,
\* which takes no lock, and from another.
PushesDoNotMix ==
    \A l \in Loops : l \in pushes[l] => pushes[l] = {l}

\* A closed connection is deleted in the end, whatever its peer does.  The
\* exception is one that a timer callback closes on the base loop itself: the
\* loop is not woken for its Destroy.
ClosedConnectionsFreed ==
    \A c \in Conns :
        (state_[c] = "disconnected" /\ ~(closedIn[c] = "timer" /\ loop_[c] = Base))
            ~> (state_[c] = "freed" \/ aborted)

=============================================================================
