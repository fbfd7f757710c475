------------------------------ MODULE TcpClient ------------------------------
(***************************************************************************)
(* A fx::TcpClient on its loop: ConnectTo from any thread, the Connector,     *)
(* and the connections with their buffers and their zero-copy writes.  A      *)
(* handler of a connection runs on the loop's thread without a break, so each *)
(* is one step: from the record of the connection to one of the records the   *)
(* socket and the user's callbacks can make of it.                           *)
(***************************************************************************)
EXTENDS Buffer, FiniteSets, SequencesExt

CONSTANTS
    MaxConns,       \* bound: calls of ConnectTo
    Fds,            \* descriptors socket() can return
    WriteSizes,     \* lengths of a Write
    MaxWritten,     \* bound: bytes written on a connection
    MaxInput,       \* bound: bytes a peer sends
    FileLen         \* length of a zero-copy write

ASSUME ClientAssumption ==
    /\ MaxConns \in Nat /\ Fds \subseteq Nat /\ WriteSizes \subseteq Nat \ {0}
    /\ MaxWritten \in Nat /\ MaxInput \in Nat /\ FileLen \in Nat \ {0}

\* Memory ends long before a size_t does: no vector's size wraps.
ASSUME SizesFit ==
    InitialSize < SizeRange /\ 2 * MaxWritten < SizeRange /\ 2 * MaxInput < SizeRange

Conns == 1 .. MaxConns

VARIABLES
    phase,          \* the phase of EventLoop::Run, or how the process ended
    active,         \* channels Poll returned, with their revents
    todo,           \* handlers HandleEvents is still to call
    queue,          \* functors_
    batch,          \* functors still to run in this iteration
    wake,           \* unread bytes in the wakeup pipe
    channels_,      \* connections whose channel the poller knows
    connections_,   \* TcpClient::connections_
    conn,           \* the connections
    truncated,      \* the file of the zero-copy writes was truncated
    spurious        \* history: epoll reported input that was not there

vars == <<phase, active, todo, queue, batch, wake, channels_, connections_,
          conn, truncated, spurious>>

\* sock, fin, input, sent and wire are the socket and its peer; got, written,
\* filed, mark, done, overtaken and closedIn are history.
Unconnected == [
    state |-> "none", fd |-> 0, events |-> {}, rbuf |-> NewBuffer,
    wbuf |-> NewBuffer,
    zdone |-> -1,           \* zero_copy_writed_len_, -1 without a file
    filed |-> 0,            \* bytes given to ZeroCopyWrite
    mark |-> 0,             \* bytes written before the file
    immediate |-> FALSE,    \* connect() succeeded at once
    sock |-> "none",        \* pending, up, or down: refused or reset
    fin |-> FALSE,          \* the peer has closed its end
    input |-> <<>>,         \* bytes in the receive buffer
    sent |-> 0,             \* bytes the peer has sent
    wire |-> <<>>,          \* bytes the socket has taken, -k for the file's k-th
    got |-> 0,              \* bytes the read callback has consumed
    written |-> 0,          \* bytes given to Write
    done |-> FALSE,         \* the write-done callback ran since the last Write
    overtaken |-> FALSE,    \* sendfile made progress while write_buf_ was not empty
    closedIn |-> "none"]    \* the user callback that called ActiveClose

Alive == {c \in Conns : conn[c].state \notin {"none", "freed"}}

Init ==
    /\ phase = "poll"
    /\ active = <<>> /\ todo = <<>> /\ queue = <<>> /\ batch = <<>>
    /\ wake = FALSE
    /\ channels_ = {} /\ connections_ = {}
    /\ conn = [c \in Conns |-> Unconnected]
    /\ truncated = FALSE /\ spurious = FALSE

-----------------------------------------------------------------------------
(* Operations of a connection *)

\* An assertion or PCHECK ends the process.
Fails(r) == [r EXCEPT !.state = "failed"]

\* From kConnected, shutdown() fails on a socket the peer has reset.
ActiveClose(r) ==
    IF r.state = "disconnected" \/ (r.state = "connected" /\ r.sock = "down")
    THEN Fails(r)
    ELSE [r EXCEPT !.state = "disconnected",
                   !.events = @ \ {IF r.state = "connected" THEN "in" ELSE "out"}]

PassiveCloseAlways(r) ==      \* mutant: no early return
    [r EXCEPT !.state = IF @ = "disconnected" THEN "failed" ELSE "disconnected",
              !.events = {}]

PassiveClose(r) ==
    IF r.state = "disconnected" THEN r
    ELSE [r EXCEPT !.state = "disconnected", !.events = {}]

\* Write(buf, n): the bytes of a connection are numbered as they are written.
Write(r, n) ==
    IF ~Appends(r.wbuf, n) THEN Fails(r)
    ELSE [r EXCEPT !.wbuf = AppendBytes(@, [i \in 1 .. n |-> r.written + i]),
                   !.events = @ \cup {"out"},
                   !.written = @ + n, !.done = FALSE]

ZeroCopyWrite(r) ==
    [r EXCEPT !.zdone = 0, !.filed = FileLen, !.mark = r.written, !.done = FALSE]

\* A callback of the user writes, with or without a file behind it, closes the
\* connection unless it is closed, does both or neither.
React(r, name) ==
    LET writes == {Write(r, n) : n \in {k \in WriteSizes : r.written + k <= MaxWritten}}
        files == {ZeroCopyWrite(w) : w \in {v \in writes : v.filed = 0}}
        open == {r} \cup writes \cup files
    IN  open \cup {ActiveClose([w EXCEPT !.closedIn = name]) :
                      w \in {v \in open : v.state = "connected"}}

\* readv fills the buffer's free space, then the array on the stack.
ReadData(r) ==
    LET room == BytesCanWrite(r.rbuf)
        n == Min({room, Len(r.input)})
        filled == AddBytes(r.rbuf, SubSeq(r.input, 1, n))
        rest == SubSeq(r.input, n + 1, Len(r.input))
        read == AppendBytes(filled, rest)
        consumed(k) == [r EXCEPT !.input = <<>>, !.got = @ + k,
                           !.rbuf = IF k = 0 THEN read ELSE ConsumeBytes(read, k)]
    IN  IF ~Appends(filled, Len(rest)) THEN {Fails(r)}
        ELSE UNION {React(consumed(k), "reader") : k \in 0 .. BytesToRead(read)}

\* readv fails with EAGAIN: -1 is converted to a size_t and taken for a length.
ReadNothing(r) ==
    LET room == BytesCanWrite(r.rbuf)
        filled == [r.rbuf EXCEPT !.write = @ + room]
    IN  {IF Appends(filled, SizeRange - 1 - room) THEN r ELSE Fails(r)}

ReadFromPeer(r) ==
    IF r.input # <<>> THEN ReadData(r)
    ELSE IF r.fin \/ r.sock = "down" \/ r.state = "disconnected"
    THEN {PassiveClose(r)}
    ELSE ReadNothing(r)

\* A write or sendfile that fails closes the connection, unless it is closed.
SendFailed(r) == IF r.state = "disconnected" THEN r ELSE ActiveClose(r)

\* The loop around write(): all of write_buf_, or until it would block.
SendBuffer(r) ==
    IF BytesToRead(r.wbuf) = 0 THEN {r}
    ELSE IF r.sock = "down" THEN {SendFailed(r)}
    ELSE {[r EXCEPT !.wbuf = IF n = 0 THEN @ ELSE ConsumeBytes(@, n),
                    !.wire = @ \o SubSeq(Content(r.wbuf), 1, n)] :
             n \in 0 .. BytesToRead(r.wbuf)}

\* sendfile() takes m more bytes of the file.
FileTakes(r, m) ==
    [r EXCEPT !.zdone = @ + m,
              !.wire = @ \o [i \in 1 .. m |-> -(r.zdone + i)],
              !.overtaken = @ \/ (m > 0 /\ BytesToRead(r.wbuf) > 0)]

\* sendfile() returns 0 at the end of the file, and the loop never ends.
Spins(r) == [r EXCEPT !.state = "spinning"]

\* The loop around sendfile() runs even if write() would block: all of a file
\* that has n bytes left, or until it would block.
SendUpTo(r, n) ==
    IF n > 0 /\ r.sock = "down" THEN {SendFailed(r)}
    ELSE {FileTakes(r, m) : m \in 0 .. n - 1}
         \cup {LET x == FileTakes(r, n) IN IF x.zdone = FileLen THEN x ELSE Spins(x)}

\* A truncated file has less left than is still to be sent of it.
SendFile(r) ==
    IF r.state = "failed" \/ r.zdone \in {-1, FileLen} THEN {r}
    ELSE LET left == FileLen - r.zdone
         IN  UNION {SendUpTo(r, n) : n \in IF truncated THEN 0 .. left - 1 ELSE {left}}

AllWrittenButFile(r) == BytesToRead(r.wbuf) = 0      \* mutant: the file is forgotten
AllWritten(r) == BytesToRead(r.wbuf) = 0 /\ r.zdone \in {-1, FileLen}

WriteToPeer(r) ==
    LET done(x) == [x EXCEPT !.zdone = -1, !.events = @ \ {"out"}, !.done = TRUE]
        sent == UNION {SendFile(x) : x \in SendBuffer(r)}
    IN  UNION {IF x.state \in {"failed", "spinning"} \/ ~AllWritten(x) THEN {x}
               ELSE React(done(x), "writer") : x \in sent}

\* The peer resets the connection before GetAddress: getpeername() fails.
AddressLost(r) == Fails([r EXCEPT !.sock = "down", !.input = <<>>])

ConnectedToPeerUnread(r) ==      \* mutant: EnableReading is forgotten
    IF r.state # "connecting" THEN {Fails(r)}
    ELSE IF r.sock = "down" THEN {ActiveClose(r)}
    ELSE React([r EXCEPT !.state = "connected", !.events = {}], "connected")
         \cup {AddressLost(r)}

\* Called when the socket of a connect() in progress becomes writable.
ConnectedToPeer(r) ==
    IF r.state # "connecting" THEN {Fails(r)}
    ELSE IF r.sock = "down" THEN {ActiveClose(r)}
    ELSE React([r EXCEPT !.state = "connected", !.events = {"in"}], "connected")
         \cup {AddressLost(r)}

Handle(op, r) ==
    CASE op = "connected" -> ConnectedToPeer(r)
      [] op = "write" -> WriteToPeer(r)
      [] op = "read" -> ReadFromPeer(r)

-----------------------------------------------------------------------------
(* The client and its loop *)

\* Connection c is now r.  Update has told the poller of its channel; if r is
\* closed, OnCloseConnection takes it out of the map and queues its Destroy.
Becomes(c, r, map) ==
    LET closing == r.state = "disconnected" /\ conn[c].state # "disconnected"
        destroy == [op |-> "destroy", c |-> c]
        ended == {"failed", "spinning"}
    IN  /\ conn' = [conn EXCEPT ![c] = r]
        /\ phase' = IF r.state \in ended THEN r.state
                    ELSE IF closing /\ c \notin map THEN "failed" ELSE phase
        /\ channels_' = IF r.events = {} /\ r.state = "connected"
                        THEN channels_ ELSE channels_ \cup {c}
        /\ connections_' = IF closing THEN map \ {c} ELSE map
        /\ queue' = IF closing THEN Append(queue, destroy) ELSE queue
        /\ wake' = (wake \/ (closing /\ phase = "functors"))

Running == phase \notin {"failed", "spinning", "noSocket", "badAddress"}

IsLeast(x, S) == x \in S /\ \A y \in S : x <= y

\* QueueInLoop, which wakes the loop unless one of its own handlers or timers
\* has called it.
ConnectTo(c) ==
    /\ Running
    /\ IsLeast(c, {d \in Conns : conn[d].state = "none"})
    /\ conn' = [conn EXCEPT ![c].state = "requested"]
    /\ queue' = Append(queue, [op |-> "connect", c |-> c])
    /\ wake' \in {TRUE} \cup (IF phase \in {"handlers", "timers"} THEN {wake} ELSE {})
    /\ UNCHANGED <<phase, active, todo, batch, channels_, connections_,
                   truncated, spurious>>

InputReady(r) == "in" \in r.events /\ (r.input # <<>> \/ r.fin \/ r.sock = "down")
Connectable(r) == r.state = "connecting" /\ r.sock # "pending"

\* What Poll reports: input, the end of a connect, and whatever the environment
\* finds writable; in a rare case, input that is gone when it is to be read.
Poll(writable, phantom) ==
    LET in == {c \in channels_ : InputReady(conn[c])} \cup phantom
        out == {c \in channels_ : Connectable(conn[c])} \cup writable
    IN  /\ phase = "poll"
        /\ phase' = "handlers"
        /\ wake' = FALSE
        /\ active' = [c \in in \cup out |-> [in |-> c \in in, out |-> c \in out]]
        /\ spurious' = (spurious \/ \E c \in phantom : ~InputReady(conn[c]))
        /\ UNCHANGED <<todo, queue, batch, channels_, connections_, conn, truncated>>

\* Channel::HandleEvents: the write callback, then the read callback.
HandleEvents ==
    /\ phase = "handlers" /\ todo = <<>>
    /\ \E c \in DOMAIN active :
          LET writer == IF conn[c].state = "connecting" THEN "connected" ELSE "write"
          IN  /\ active' = [d \in DOMAIN active \ {c} |-> active[d]]
              /\ todo' = (IF active[c].out THEN <<[op |-> writer, c |-> c]>> ELSE <<>>)
                         \o (IF active[c].in THEN <<[op |-> "read", c |-> c]>> ELSE <<>>)
    /\ UNCHANGED <<phase, queue, batch, wake, channels_, connections_, conn,
                   truncated, spurious>>

RunHandler ==
    /\ phase = "handlers" /\ todo # <<>>
    /\ todo' = Tail(todo)
    /\ LET call == Head(todo) IN
          \E r \in Handle(call.op, conn[call.c]) : Becomes(call.c, r, connections_)
    /\ UNCHANGED <<active, batch, truncated, spurious>>

SwapFunctors ==
    /\ phase = "handlers" /\ todo = <<>> /\ active = <<>>
    /\ phase' = "functors"
    /\ batch' = queue /\ queue' = <<>>
    /\ UNCHANGED <<active, todo, wake, channels_, connections_, conn, truncated,
                   spurious>>

\* Functor op of connection c is next.
Functor(op, c) ==
    /\ phase = "functors" /\ batch # <<>>
    /\ Head(batch) = [op |-> op, c |-> c]
    /\ batch' = Tail(batch)
    /\ UNCHANGED <<active, todo, truncated, spurious>>

FreeFds(c) == Fds \ {conn[d].fd : d \in Alive \ {c}}

\* Connector::ConnectTo and OnConnect: the connect is over at once, and the
\* connected callback runs but nothing enables reading; or it is in progress.
Connect(c) ==
    /\ Functor("connect", c)
    /\ \E f \in Fds :
          /\ IsLeast(f, FreeFds(c))
          /\ LET new == [Unconnected EXCEPT !.fd = f]
                 connected == [new EXCEPT !.state = "connected", !.sock = "up",
                                          !.immediate = TRUE]
                 connecting == [new EXCEPT !.state = "connecting",
                                    !.sock = "pending", !.events = {"out"}]
             IN  IF \E d \in connections_ : conn[d].fd = f
                 THEN /\ phase' = "failed"
                      /\ UNCHANGED <<queue, wake, channels_, connections_, conn>>
                 ELSE \E r \in React(connected, "connected")
                                \cup {AddressLost(connected), connecting} :
                         Becomes(c, r, connections_ \cup {c})

\* connect() fails at once: the descriptor is closed again.
ConnectFails(c) ==
    /\ Functor("connect", c) /\ FreeFds(c) # {}
    /\ conn' = [conn EXCEPT ![c].state = "freed"]
    /\ UNCHANGED <<phase, queue, wake, channels_, connections_>>

\* The PCHECKs before connect(): socket() has no descriptor to return, because
\* the process or the system is out of them; or it has, and the address given to
\* ConnectTo is none that inet_pton() accepts.
ConnectEnds(c) ==
    /\ Functor("connect", c)
    /\ \/ phase' = "noSocket"
       \/ phase' = "badAddress" /\ FreeFds(c) # {}
    /\ UNCHANGED <<queue, wake, channels_, connections_, conn>>

DestroyKeepingChannel(c) ==      \* mutant: the channel stays in the poller
    /\ Functor("destroy", c)
    /\ UNCHANGED <<phase, queue, wake, channels_, connections_, conn>>

\* shutdown() fails on a socket that was refused or reset.
Destroy(c) ==
    /\ Functor("destroy", c)
    /\ IF conn[c].state # "disconnected" \/ conn[c].sock = "down" \/ c \notin channels_
       THEN phase' = "failed" /\ UNCHANGED channels_
       ELSE channels_' = channels_ \ {c} /\ UNCHANGED phase
    /\ UNCHANGED <<queue, wake, connections_, conn>>

\* The functors that have run drop the connections they kept alive.
EndFunctors ==
    LET kept == connections_ \cup {call.c : call \in Range(queue)} IN
        /\ phase = "functors" /\ batch = <<>>
        /\ phase' = "timers"
        /\ conn' = [c \in Conns |->
                      IF conn[c].state = "disconnected" /\ c \notin kept
                      THEN [Unconnected EXCEPT !.state = "freed"] ELSE conn[c]]
        /\ UNCHANGED <<active, todo, queue, batch, wake, channels_, connections_,
                       truncated, spurious>>

\* A timer of the user closes a connection.
TimerFires(c) ==
    /\ phase = "timers" /\ conn[c].state = "connected"
    /\ Becomes(c, ActiveClose([conn[c] EXCEPT !.closedIn = "timer"]), connections_)
    /\ UNCHANGED <<active, todo, batch, truncated, spurious>>

EndIteration ==
    /\ phase = "timers"
    /\ phase' = "poll"
    /\ UNCHANGED <<active, todo, queue, batch, wake, channels_, connections_,
                   conn, truncated, spurious>>

-----------------------------------------------------------------------------
(* The peers and the file *)

PeerDoes(c, r) ==
    /\ Running /\ conn[c].sock \in {"pending", "up"}
    /\ conn' = [conn EXCEPT ![c] = r]
    /\ UNCHANGED <<phase, active, todo, queue, batch, wake, channels_,
                   connections_, truncated, spurious>>

Establish(c) ==
    conn[c].sock = "pending" /\ PeerDoes(c, [conn[c] EXCEPT !.sock = "up"])

PeerSends(c) ==
    /\ conn[c].sock = "up" /\ ~conn[c].fin /\ conn[c].sent < MaxInput
    /\ PeerDoes(c, [conn[c] EXCEPT !.input = Append(@, conn[c].sent + 1), !.sent = @ + 1])

PeerCloses(c) ==
    /\ conn[c].sock = "up" /\ ~conn[c].fin
    /\ PeerDoes(c, [conn[c] EXCEPT !.fin = TRUE])

\* The connect is refused, or the connection reset, with what was not read.
PeerRefuses(c) == PeerDoes(c, [conn[c] EXCEPT !.sock = "down", !.input = <<>>])

Truncate ==
    /\ Running /\ ~truncated
    /\ truncated' = TRUE
    /\ UNCHANGED <<phase, active, todo, queue, batch, wake, channels_,
                   connections_, conn, spurious>>

-----------------------------------------------------------------------------
(* Specification *)

LoopStep ==
    \/ HandleEvents \/ RunHandler \/ SwapFunctors \/ EndFunctors \/ EndIteration
    \/ \E c \in Conns : Connect(c) \/ ConnectFails(c) \/ ConnectEnds(c)
                         \/ Destroy(c)

PollReturns ==
    \E writable \in SUBSET {c \in channels_ : "out" \in conn[c].events
                                              /\ conn[c].state # "connecting"},
       phantom \in SUBSET {c \in channels_ : "in" \in conn[c].events} :
          Poll(writable, phantom)

Environment ==
    \/ Truncate
    \/ \E c \in Conns :
          \/ ConnectTo(c) \/ TimerFires(c)
          \/ Establish(c) \/ PeerSends(c) \/ PeerCloses(c) \/ PeerRefuses(c)

Next == LoopStep \/ PollReturns \/ Environment

PollHasReason ==
    /\ wake \/ \E c \in channels_ : InputReady(conn[c]) \/ Connectable(conn[c])
    /\ PollReturns

\* The loop's thread is scheduled, and Poll returns when there is something.
Spec == Init /\ [][Next]_vars
FairSpec == Spec /\ WF_vars(LoopStep) /\ WF_vars(PollHasReason)

-----------------------------------------------------------------------------
(* Properties *)

\* No channel that the poller, a list of active channels or a functor still
\* knows belongs to a connection that was deleted.
NoDanglingPointers ==
    /\ channels_ \cup DOMAIN active \subseteq Alive
    /\ {call.c : call \in Range(todo \o queue \o batch)} \subseteq Alive

\* The assertions and PCHECKs of the connector, the connections and their
\* buffers end the process for one of five reasons: a connection is shut down,
\* or asked for its peer's name, that was refused or reset; epoll reports input
\* that is not there; a file is truncated while it is sent; socket() has no
\* descriptor to return; the address given to ConnectTo is malformed.
AssertionsHold ==
    \/ Running
    \/ phase \in {"noSocket", "badAddress"}
    \/ phase = "spinning" /\ truncated
    \/ phase = "failed"
       /\ \/ spurious
          \/ \E c \in Conns : /\ conn[c].sock = "down"
                              /\ conn[c].state \in {"failed", "disconnected"}

\* A peer is sent the bytes of Write in order, and those written before a file
\* ahead of the file, unless the socket made room between a write that would
\* block and the sendfile behind it; what was not sent is in write_buf_; the
\* write-done callback finds everything sent.
SentInOrder ==
    \A c \in Alive :
        LET r == conn[c]
            unsent == BytesToRead(r.wbuf)
        IN  /\ Content(r.wbuf) = [k \in 1 .. unsent |-> r.written - unsent + k]
            /\ \E file \in 0 .. r.filed :
                  /\ Range(r.wire) = (1 .. r.written - unsent) \cup (-file .. -1)
                  /\ r.done => unsent = 0 /\ file = r.filed
            /\ \A i, j \in DOMAIN r.wire :
                  i < j => /\ r.wire[i] > 0 /\ r.wire[j] > 0 => r.wire[i] < r.wire[j]
                           /\ r.wire[i] < 0 /\ r.wire[j] < 0 => r.wire[i] > r.wire[j]
                           /\ r.wire[i] < 0 /\ r.wire[j] \in 1 .. r.mark => r.overtaken

\* The read callback sees what the peer has sent, each byte once and in order,
\* however the buffer was filled and emptied; what it has not seen is in the
\* buffer or the socket, unless the connection was reset.
ReceivedInOrder ==
    \A c \in Alive :
        LET r == conn[c] IN
            r.sock = "down"
            \/ Content(r.rbuf) \o r.input = [i \in 1 .. r.sent - r.got |-> r.got + i]

\* A peer that closes or resets its connection, or refuses it, is noticed, and
\* the connection deleted, or the process ends.  Exceptions: a connect that
\* succeeded at once is never read, and one that a timer closed is deleted when
\* the loop is next woken.
EndedConnectionsFreed ==
    \A c \in Conns :
        ((conn[c].fin \/ conn[c].sock = "down") /\ ~conn[c].immediate)
            ~> (conn[c].state = "freed" \/ ~Running \/ conn[c].closedIn = "timer")
=============================================================================
