# A TLA+ development of fxserver

fxserver is a small C++ network library in the reactor style: an event loop per
thread, a timer wheel, TCP servers and clients on top, an HTTP server as an
example, and, apart from it, a message bus between processes over shared memory.
This directory models its concurrent core, its clients and servers, the message bus
with its crashes, and the sequential code where a wrong index matters; it checks the
models with TLC and proves, with TLAPS, what is safe about them: every safety property that
a run finds to hold is a theorem for every value of the constants, under the assumptions
named below (the timer wheel's within the range of its wheels). Liveness is left to TLC.

## The system

| Component | State | Operations | Interacts with |
|---|---|---|---|
| `EventLoop` | queue of functors and its mutex, `calling_functors_`, `started_`, `quit_`, the wakeup pipe, `Run`'s position | `Run`, `RunInLoop`, `QueueInLoop`, `Quit`, `RunAfter`, `RemoveTimer`, `SetPeriodFunctor`, `Update/RemoveChannel` | owns a `Poller` and a `TimerWheel`; called by every thread |
| `TimerWheel` | five wheels of slots, one hand each, `last_expire_time_`, `timers_`, `expire_time_queue_` | `Start`, `RunAt`/`RunAfter`, `RemoveTimer`, `NextTimeout`, `Step` | called by `EventLoop::Run` and by user code on the loop thread |
| `Poller`, `Channel` | descriptor to channel; a channel's events and callbacks | `Poll`, `UpdateChannel`, `RemoveChannel`; `HandleEvents`, `Enable/Disable...` | `Poll` fills the loop's list of active channels |
| `EventLoopThread`, `...Pool` | thread, its loop, whose turn it is | `StartLoop`, `NextLoop` | a loop lives on its thread's stack |
| `TcpServer` | `connections_` by descriptor | `OnNewConnection`, `OnConnectionClosed`, `HandleConnectionClose` | base loop accepts, IO loops serve; functors go both ways |
| `TcpConnection` | `state_`, read and write buffers, channel, pending `sendfile` | `StartReading`, `Write`, `ZeroCopyWrite`, `ActiveClose`, `PassiveClose`, `Destroy`, `Read/WriteToPeer`, `ConnectedToPeer` | held by `TcpConnectionPtr`s in the map and in functors, by bare pointers in its channel |
| `Acceptor`, `TcpClient`, `Connector` | listening or connecting socket | accept, connect, close | hand descriptors to a server or client |
| `RingBuffer` | front, back and size in shared memory, bytes | `Push`, `Pop` | one process pushes, one pops |
| `ProcessBus`, `...Manager` | two ring buffers in a mapped file | `Listen`, `Connect`, `TryRecover`, `Read`, `Write` | two processes that start and die independently |
| `BlockingQueue` | queue, mutex, condition variable | `Push`, `Pop` | any threads |
| `PidFile` | a file | create, check, remove | other instances of the program |
| `Buffer`, `Slice`, `ObjectPool`, `NetAddress`, `socket_op` | sequential data | | helpers of the above |
| HTTP example | parser state per connection | `OnMessage`, `OnRequest`, `WriteResponseAndClose` | an application of `TcpServer` |

What is hard about it:

* **Event loop.** Every thread may push functors, and only some of the pushes are
  followed by a wakeup (`fx_event_loop.cc:125`); one that is missing is a loop
  asleep on its work. Correct: no lost wakeup, each functor once and in order,
  `Quit` always ends `Run`.
* **Timer wheel.** Carries from wheel to wheel, cascades, and two books about the
  same timers. Correct: a timer becomes due at its time and never before, is called
  once, and the loop never sleeps past it.
* **Server.** A connection is shared by a thread that accepts and deletes it and a
  thread that reads, writes and closes it; callbacks close it from inside its own
  handlers; functors hold it, some by a bare pointer; descriptors are reused.
  Correct: nothing dangles, callbacks come in order and in pairs, closed
  connections are deleted.
* **Client.** A connect succeeds at once, later, or not; what is read and written goes
  through buffers that grow, and a file is sent behind them. Correct: bytes in order,
  none lost or doubled, and every connection that ends is deleted.
* **HTTP.** A request arrives in any pieces and is parsed by a saved state; the answer is
  written later, and the write-done callback closes. Correct: what is answered depends
  on the bytes and not on the pieces, and all of it is written.
* **Bus.** Two processes, no locks, crashes. Correct: a FIFO that survives them.
* **Threads.** Condition variables with spurious wakeups and a notification outside the
  lock. Correct: nobody sleeps on what is there; a loop exists before it is handed out.
* **Search.** A failure table with corner cases. Correct: what is found is there, and is
  the first.

`PROJECT.json` lists each of these hazards at its line, with the properties that
watch it.

## Modules

| Module | Is |
|---|---|
| `EventLoop` | `fx::EventLoop` and the threads that call it |
| `MCEventLoop`, `EventLoop.cfg`, `EventLoopRace.cfg` | its instances for TLC |
| `EventLoopProofs` | theorems about `EventLoop` |
| `LoopThread` | `EventLoopThreadPool` and its threads, up to `NextLoop` |
| `MCLoopThread`, `LoopThread.cfg` | its instance |
| `ThreadProofs` | theorems about `LoopThread` and `BlockingQueue` |
| `TimerService` | what timers promise (the abstract specification) |
| `TimerWheel` | `fx::TimerWheel` in the loop that drives it; implements `TimerService` |
| `TimerWheelProofs` | theorems about `TimerWheel`, among them that it implements `TimerService` |
| `MCTimerWheel`, `TimerWheel.cfg`, `TimersBeforeRun.cfg` | its instances |
| `TcpServer` | `fx::TcpServer` and its connections over several loops |
| `TcpServerProofs` | theorems about `TcpServer` |
| `MCTcpServer`, `TcpServer.cfg` | its instance |
| `Buffer` | `fx::Buffer`, as operators |
| `TcpClient` | `fx::TcpClient`, its connector and its connections with their bytes; extends `Buffer` |
| `TcpClientProofs` | theorems about `TcpClient` |
| `MCTcpClient`, `TcpClient.cfg` | its instance |
| `RingBuffer` | `fx::base::RingBuffer` between two processes, byte by byte |
| `RingBufferProofs` | theorems about `RingBuffer` |
| `MCRingBuffer`, `RingBuffer.cfg` | its instance |
| `ProcessBus` | `fx::base::ProcessBus`: attaching to a ring, using it, dying |
| `ProcessBusProofs` | theorems about `ProcessBus` |
| `MCProcessBus`, `ProcessBus.cfg` | its instance |
| `BlockingQueue` | `fx::BlockingQueue` |
| `MCBlockingQueue`, `BlockingQueue.cfg` | its instance |
| `SliceFind` | `fx::Slice::find` round by round, and `InternalFind` as an operator |
| `MCSliceFind`, `SliceFind.cfg` | its instance |
| `HttpCodec` | the request parser of the HTTP example, as operators, and the grammar it is compared with |
| `HttpServer` | one connection of the HTTP example; extends `HttpCodec` |
| `HttpProofs` | theorems about `HttpServer` and about `SliceFind` |
| `MCHttpServer`, `HttpServer.cfg` | its instance |

`ThreadProofs` and `HttpProofs` extend two specifications each, so `BlockingQueue` and
`SliceFind` name theirs `QueueSpec` and `FindSpec`.

Each module holds, next to the definitions, the broken variants ("mutants") that
show a property can fail: e.g. `NeedsWakeUpUnlessCalling` for `NeedsWakeUp`.
`PROJECT.json` pairs each with the property it breaks; the specifications do not
use them.

### EventLoop

`pc` is the position of the loop thread in `Run`; user code runs in four of the
positions (before `Run`, in a channel handler, in a functor, in a timer callback)
and may there call `QueueInLoop`, `Quit` and `RunAfter`. A call of `QueueInLoop` is
two or three steps, lock and begin of the `push_back`, its end, the write to the
pipe, so that two calls can overlap; `lpush` and `tpc` are the stage of the loop
thread's and of each other thread's call. A functor is its rank in the order of
the pushes, which makes "once and in order" the equation `ExactlyOnceInOrder`.
The loop thread's own push takes no lock (line 117). When it overlaps another
one the vector is undefined; `raced` records it, and a push after it may lose its
element. The pipe is a counter with a capacity and blocks its writers when full: the
constructor sets `O_NONBLOCK` with `F_SETFD`, which has no such effect. The timer
wheel is abstracted to how many timers are armed and due.

The period functor runs in the same phase as the handlers and is covered by them.

### LoopThread

`Start` goes through the threads one by one: spawn, then lock, test `loop_` and wait
until it is set. The thread builds its loop, stores its address under the mutex and
notifies after it has unlocked; `wait` may end without a notification. `NextLoop` hands
the pointers out in turn, and whoever has one may have the loop quit: `Run` returns, and
the loop, which lives on the thread's stack, is gone while the pool still has its
pointer. The pool is started once, by one thread, as `TcpServer::Start` does.

### TimerWheel and TimerService

`TimerService` says: a timer is armed for now or later, may be cancelled while it is
armed, and at `Expire(now)`, `now` not after the clock, exactly the timers of `now`
and before it become due and are then called, once each. `TimerWheel` has the
wheels' hands, the slot and time of every timer, the queue of expire times, and
the loop: `Run` (with `Start`), `Poll` with its timeout, `Step`, callbacks, the next
timeout from the instant `Poll` returned. The number of wheels and the slots of each
are a parameter, `Slots`. `FindPos` goes through the wheels with what is left of the
interval: that is `Rests`, a recursive *function*, so that theorems can be stated about it. A
slot's list is the set of its timers: `Step` hands out what has expired in the
order of the slots, and the model lets the callbacks come in any order.

`base::Now()` is a clock that `Tick` moves. The model counts the ticks of the wheel
and does not let the clock move backwards (the code does not cope with that:
line 227). `Capacity` is also the first value that is negative in the code's `int`;
`FindPos` of such an interval ends the process by its first assertion, in `RunAfter` and in
`Step`, whether it moves the hands or places a timer anew, and an overflow of the last wheel may end it too; within the range of the wheel neither happens, which is
`AssertionsHold`. `RemoveTimer` of a timer that is due, and no longer in `timers_`, fails
an assertion as well: it is the one exception that property makes.

### TcpServer

A loop is a queue of functors and four phases of an iteration, poll, handlers,
functors, timers: what `EventLoop` says of a loop, without the pipe's capacity and
without the race of pushes, of which `PushesDoNotMix` shows that the server never
exposes itself to it. What a thread is in the middle of is a stack of calls;
`RunInLoop` on the own loop puts the call on the stack, otherwise at the end of the
other loop's queue. So `HandleConnectionClose` is nested in `ActiveClose` when there
are no IO loops and comes from the queue when there are. Each call is one step,
hence everything between two calls is atomic, which is sound as each
connection's fields are touched by its own loop only, and `connections_` by the base
loop only.

Which references keep a connection alive is explicit (`SharedOps`, `Referenced`):
the map, functors that bind a `TcpConnectionPtr`, `HandleConnectionClose`'s local
pointer. A batch keeps what its functors bind until the whole batch has run
(`held`). When no reference is left the connection is freed, and its descriptor can
be returned by `accept` again.

User code may write and close in the new-connection, read and write-done callbacks
and in timers; it checks `closed()` before it closes and writes only while the
connection lives. The peer sends, closes and resets. A reset makes `shutdown()`
fail with `ENOTCONN`, and `PCHECK` then ends the process (`aborted`). `accept` returns
the least free descriptor; when it fails, -1 is handed to `SetNonblocking`, whose `PCHECK`
ends the process too (`AcceptFails`), and so does `getpeername` in the connection's constructor
when the peer has reset in the meantime (`AcceptLost`). Here `Poll` reports only input that is
there, so `readv` does not fail with `EAGAIN`; `TcpClient` has that branch. Buffers are abstracted to whether there is something
in them. `SO_ERROR`, `EPOLLHUP` and the error callback, which only logs, are left out.

### Buffer and TcpClient

`TcpServer` is about whose step comes when; `TcpClient` is about what passes through a
connection. A `Buffer` is its size, its two indices and its bytes, with the growth of
`EnsureSpace` in the arithmetic of `size_t`. A client has one loop, and a handler of a
connection runs on it without a break: each handler is an operator from the record of a
connection to the set of records it can end in, by what the socket does and what the
user's callbacks do (`React`: write, write with a file, close, all or none of them). `Becomes` is
what such a change means to the poller, the map and the queue.

`ConnectTo` comes from any thread; it wakes the loop unless it comes from one of
the loop's own handlers, which the functors follow, or timer callbacks, and then it may wait
like every functor queued there. `connect()` succeeds at
once, goes on and ends in `kConnecting`'s `ConnectedToPeer`, is refused, or fails
(`ConnectFails`). On the way to it the process may end (`ConnectEnds`): by the `PCHECK` on
`socket()` when there is no descriptor left (`fx_connector.cc:42`, phase `noSocket`), by the one on
`inet_pton` when the address is malformed (`fx_net_address.cc:66`, phase `badAddress`). A
connection that is reset before it has asked for its peer's address fails the `PCHECK` on
`getpeername` (`AddressLost`). The peer sends, closes and
resets. A socket takes any part of what it is given. Bytes are numbered in the order in
which they were written, a file's are negative, so `SentInOrder` and `ReceivedInOrder`
say which byte is where; `overtaken` records the one way a file gets ahead of the bytes
before it. `Truncate` shortens the file while it is sent: `sendfile` takes what is left of it, or would block
before, and then spins at the end. `spurious` is input that epoll
reports and `readv` does not find. `SizesFit` says that memory ends before a `size_t` does.

### RingBuffer

The memory is modelled byte by byte, because what goes wrong in this code goes
wrong between bytes: `mem` maps each address to the byte of the record written there
(`<<m, k>>` is byte `k` of record `m`), so a torn, overwritten or misread record shows.
`front` and `back` may rest at the end of the ring, as in the code, and the next record
then starts at the beginning. `Push` is four steps (copy, `set_back`, load and store
of `element_size`), `Pop` likewise, and the steps of the two processes interleave in
every way. Stores become visible in the order of the program, which is what x86 and
the `volatile` members give. One copy is a single step: in the runs where copies
overlap in the same bytes the record is lost whatever the order.

Three things in the code break the queue, and the history variable `sound` is TRUE
until the first of them happens: a record pushed into less space than it needs
(line 40 compares the length without the header), a record whose header reaches
beyond the end (line 176: `Read` moves `front` behind the header only), and a message longer than
`kMaxBufferBodyLength` (`MaxBodyLength`), which `Push` takes and of which `Read`'s assertion ends
the consumer (line 167, `PopFails`). A pushed record is assumed not to be
longer than the whole ring (`LengthsAssumption`), as it would be written outside.
`overlapped` is TRUE once both processes have been between the load and the
store of `element_size`; from then on the count may be wrong for good. It counts
modulo `SizeRange`, the width of `size_t`: a `Pop` that overtakes the count of its `Push`
takes it below 0 for a moment.

### ProcessBus

Here the ring is abstracted to records of one slot, and the processes come and go. Each
attaches by `Listen` (create, `ftruncate`, map, construct the ring, which discards what is in
it in two stores), by `Connect` (map what is there, of whatever size, or create it with
`O_EXCL`) or by `TryRecover` (only if the file has its full size). Each of these is as many
steps as it has effects on the file, so that either process can die, and the other one run,
between any two. The producer's `Write` and the consumer's `Read` copy, then store an
offset, then return. `Die` may come anywhere; `Fault` is the signal that an access to a
page the file does not have brings.

A file is `absent`, `empty` or `full`. The ring is told a length that is one header larger
than what is left of the mapping, so the last record lies in part beyond it, and is only
`Reachable` where the rest of a page makes up for that (`padded`). `disturbed` is TRUE from
the moment a `Listen` was cut in two, or discarded while its peer was copying: from then on
the code promises nothing, and neither does the model.

### BlockingQueue

Threads call `Push` and `Pop`; `WaitForItem` releases the mutex and sleeps in one step,
`NotifyOne` comes after the unlock and wakes any one sleeper, `WakeWithoutItem` needs no reason. Items
are counted, as `std::queue` keeps their order under the mutex.

### SliceFind

The arguments, the table and the four indices are the state, and each round of one of
the loops is a step, so that an invariant can speak of a table half built. `Texts` and
`Patterns` are any sets of sequences. `next[1]` stays 0 and a fallback to 0 does not compare
again (lines 97 to 119): the table's entries are borders, but not always the longest. `InternalFind` is its automaton as
two recursive functions.

### HttpCodec and HttpServer

A client's stream is a sequence of symbols: CR, LF and texts, where a text is a record
of what matters of a request line (version, method, path) or a header line (key,
value), or any other bytes (`Symbols`; `Streams` is any set of sequences of them). The pieces may break anywhere, also between CR and LF. Each
`ReadXxx` of `HTTPCodec` is an operator from the parser's state and the buffer to its
result, its new state and what is left of the buffer; of a header that comes twice
`AddHeader` keeps the first value; `ParseRound` is one round of
`OnMessage`'s loop. `Verdict` says what a request is without a parser: by its lines, the
blank one and the length; `AnswersFitInput` compares the two in every state in which the
loop is in `Poll`, which is what makes pieces irrelevant.

`HttpServer` is the connection around it: `Poll` reports input and room, `WriteToPeer`
comes before `ReadFromPeer` in one `HandleEvents`, `Destroy` comes from the functors
after `HandleConnectionClose` has run at once (`sameLoop`) or on the base loop. A file
may change between the two looks the file accessor takes at it, or be cut between the second
one and the reading (`ReadCutFile`: line 112 asserts that all of it was read). The client may send
more than one request, and end its stream; that it resets its connection, with what
follows from a failing write, is in `TcpServer`. All assertions are taken as enabled.
Other connections are not in the model, so neither is the one thing besides the files that
connections share: `status_to_reason_`, which `EncodeResponse` reads with `operator[]`
(`http_codec.cc:114`). It has no entry for 200, so the first answers insert one, and IO threads
that do so at once change the map without a lock.

## Runs

| Run | Instance | Shows |
|---|---|---|
| `EventLoop` | 2 threads, 3 functors, 1 timer, pipe of 2 | `NoLostWakeUp`; `ExactlyOnceInOrder`; `QueuedFunctorsRun`; `QuitEndsRun` |
| `EventLoopRace` | same, 2 functors | violation: pushes race |
| `LoopThread` | 3 threads, 2 turns each | `HandedOutLoopsLive`; `StartReturns` |
| `TimerWheel` | 3 timers, wheels of 2, 2 and 4 slots, clock to 5 | slots agree with the hands; the queue agrees with the timers; `TimerService` is implemented; timers fire; assertions hold |
| `TimersBeforeRun` | the clock may move before `Run` | violation: an expired timer stays in its slot |
| `TcpServer` | base and one IO loop, or base only; 2 connections on 1 descriptor | `NoDanglingPointers`; `AssertionsHold`; `CallbacksPaired`; `PushesDoNotMix`; `ReadsInOrder`; `ClosedConnectionsFreed` |
| `TcpClient` | 2 connections on 1 descriptor, 2 bytes each way, file of 2, buffer of 1 byte | `NoDanglingPointers`; `AssertionsHold`; `SentInOrder`; `ReceivedInOrder`; `EndedConnectionsFreed` |
| `HttpServer` | 14 streams of up to 13 symbols, 4 document roots, 1 change of a file | `AnswersFitInput`; `AnswerWritten`; `ProperRequestsSurvived`; `ConnectionsEnd` |
| `RingBuffer` | ring of 8 bytes, headers of 2, messages of 1, 3 and 4, of which 4 is too long for `Read`, 5 pushes | types; while `sound`: `PopsInOrder`, `EmptyMeansDrained`, `RecordsStay`, `SizeCounts`, `Delivered` |
| `ProcessBus` | ring of 3 slots, 4 messages, 2 deaths | `SurvivorsInOrder`; `CheckedSegmentsWork`; `Redelivered` |
| `BlockingQueue` | 4 threads, 3 pushes | `ItemsAttended`; `ItemsAreTaken` |
| `SliceFind` | texts of up to 6, patterns of up to 5 characters, 2 letters | `FoundIsOccurrence`; `FindsFirst`; `InternalFindsFirst` |

The exceptions in the properties that hold are themselves results:

* `NoLostWakeUp`, `QueuedFunctorsRun`: a functor queued by a **timer callback** gets
  no wakeup. It waits for the next event, which may never come.
* `QueuedFunctorsRun`, `QuitEndsRun`: a loop thread blocked on its own full pipe stays
  there.
* `ReadsInOrder`: the read callback may run on a connection that is already
  closed, if it was closed before `EnableReading` ran or by the write-done callback
  of the same `HandleEvents`.
* `ClosedConnectionsFreed`: a connection closed by a timer callback on the base loop
  waits for the next event before it is deleted.
* `AssertionsHold` of `TcpServer`: as soon as a peer resets its connection (a failed `shutdown`,
  or a failed `getpeername` when it is built), or `accept` fails (`fx_acceptor.cc:88`), the process
  may end.
* `AssertionsHold` of `TcpClient` names five ends of the process: a refused or reset socket
  likewise; input that `readv` does not find, as its -1 is taken for a length and fails
  `Append`'s assertion (`fx_tcp_connection.cc:153`); a file truncated while it is sent, on which
  `sendfile` returns 0 and the loop around it never ends (line 220); no descriptor left for
  `socket()` (`fx_connector.cc:42`); and a malformed address (`fx_net_address.cc:66`).
* `AssertionsHold` of `TimerWheel`: a callback that removes another timer of the same `Step`
  ends the process. An interval from which the last wheel overflows is outside the range
  that `RunAfter` is given here (`IntervalAssumption`, `MaxInterval`).
* `SentInOrder`: when `write` would block and `sendfile`, called right behind it, would not,
  the file overtakes the bytes written before it (`fx_tcp_connection.cc:198`).
* `EndedConnectionsFreed`: a connect that succeeds at once never starts reading
  (`fx_tcp_client.cc:44`), so nothing is noticed on it; and a connection that a timer closed
  is deleted at the next wakeup, which may never come.
* `ActiveClose` drops what is still in `write_buf_`: `Destroy` shuts the socket down first
  (`fx_tcp_connection.cc:121`). No property of the code can be stated against that.
* `FindsFirst`: `find` misses the occurrence of some patterns whose first character comes again
  in them, such as `aab` in `aaab`, and then fails its own comparison with `std::string`
  where assertions are on (`fx_slice.cc:152`, `157`; the model goes on); of an empty pattern it returns the length of the text.
* `HandedOutLoopsLive`: the pool goes on handing out the pointer of a loop that has quit.
* `SurvivorsInOrder`, `Redelivered`: a `Listen` discards, and one that dies in the middle or
  meets its peer at work leaves a ring nobody can rely on. Without the rest of a page behind
  the mapping the process ends at the last slot.
* `CheckedSegmentsWork`: holds of who created or recovered the segment. `Connect` maps a file
  without looking at its size, and dies of one whose creator died before `ftruncate`. A
  `TryRecover` that found such a file keeps its descriptor, and cannot be called again.
* `ProperRequestsSurvived`: the process ends, for all connections, when a client sends
  `Content-Length: 0` (`http_codec.cc:282`), bytes after its request that arrive before the
  answer is written (line 81), a version above 1 (the warning in
  `http_module_request_validator.cc:39` uses a null response), or an empty path; when a file
  vanishes or is cut between the checks and the reading; and, with IO threads, when a request in error arrives in
  two pieces: the second one is answered too, after the connection was closed, and if
  `Destroy` has not come yet the write-done callback closes a second time
  (`fx_tcp_connection.cc:89`).
* A file of 1 MB and more is answered with 200 and no body, as nobody sets its length
  (`ReadFile`, `http_module_file_accessor.cc:94`).
* `RingBuffer`: all of it holds only while every record fits with its header, no header
  reaches beyond the end and no message is too long for `Read`, and the size only while no two
  updates overlap.

### Bounds

* `EventLoop`: three functors put one in the batch, one in the queue and one in the
  hands of a second thread; two threads give the mutex a contender beside the loop
  thread; a pipe of two ints can be full after two pushes of one batch, which is
  the loop's self-deadlock. Proofs need none of these bounds.
* `TimerWheel`: with wheels of 2, 2 and 4 slots every instant up to 5 is a different
  state of the hands, the first wheel wraps twice and the second once; timers of
  up to 5 ticks start on each of the three wheels and cascade down both. Three
  timers can share a slot, an instant, or neither. Instants beyond `MaxTime` exist
  only as timeouts.
  `IntervalAssumption` keeps sums below twice the capacity, as the code's are below 2^32.
* `TcpServer`: the connections' interaction is through the descriptor and the map,
  for which two connections on one descriptor are the worst case; one chunk of
  input lets data, end of stream and close meet in one iteration. Initially the pool
  is either empty or started, so both nestings of calls are covered by one run.
* `HttpServer`: each stream takes one path through the parser or the modules (`MCStreams`
  names them), and every way to cut it into pieces is explored. One connection is enough for
  what is stated: of the parser, the buffers and the closing, connections share nothing.
* `RingBuffer`: records of 3 and 5 bytes in 8 reach every offset within five pushes: a
  message that wraps in its middle, one that starts at the beginning, a record that
  ends at the end, a full ring, one byte too few, and a header in two parts. A
  message of 4 is beyond `MaxBodyLength`.
* `TcpClient`: a buffer of one byte grows at its second, and `readv` fills both its parts; two
  bytes, and a file of two, can be sent and read in parts; the second connection takes over the descriptor of the
  first. `SizeRange` of 16 is beyond every size the buffer reaches, so that only a converted -1
  wraps.
* `ProcessBus`: with three slots, two of which can be filled, four messages go round the
  ring and one slot further; two deaths are one of each process, or two of one while it attaches.
* `BlockingQueue`: two Pops asleep and two Pushes between store and notification need four
  threads. The proofs need none of these bounds.
* `SliceFind`: six and five characters are enough for each branch of the table, the shortest
  missed occurrence, and a fallback within a fallback; two letters, as a comparison only
  tells equal from different.
* `LoopThread`: threads are started one by one, and the third is handed out again after the
  first.

### Fairness

* `EventLoop`: the loop thread is scheduled (`WF` of everything but `Poll`) and user
  code returns; `Poll` returns when the pipe has bytes or a timer is armed, and
  need not otherwise; a thread that began a call finishes it, and need not begin one.
* `TimerWheel`: the clock moves, `epoll_wait` honours its timeout, and the loop runs.
  Nothing else ever has to wake it.
* `TcpServer`: each loop runs; `Poll` returns for a wakeup or for input. No peer, timer,
  or writable socket is promised. Deadlock is not checked: a server with nothing to do
  stops.
* `HttpServer`: the loops run. Strong fairness of `Poll(TRUE)`: the client reads its answer,
  so there is room in the socket again and again. No client has to send.
* `TcpClient`: the loop runs; `Poll` returns for a wakeup, for input, or when a connect is
  over. Nothing else is promised.
* `LoopThread`: the starter and each thread go on, and a thread that waits for a mutex which is
  free again and again gets it (`SF`), as spurious wakeups could keep it away for ever.
* `BlockingQueue`: a thread that can go on does. Nobody has to call `Push` or `Pop`.
* `ProcessBus`: the consumer is started again whenever it died, attaches somehow, and polls;
  the producer owes nothing.
* `SliceFind` has no fairness: nothing temporal is said of it.
* `RingBuffer`: the consumer polls, as the loop in its test does; a push that has begun
  is finished. Nobody has to push.

## Proofs

`EventLoopProofs` proves for every set of threads and every value of the bounds:

* `TypeCorrect`: `Spec => []TypeOK`;
* `WakeUpsAreNotLost`: `Spec => []NoLostWakeUp`;
* `FunctorsRunInOrder`: `Spec => []ExactlyOnceInOrder`.

All three follow from `Safety: Spec => []IInv`, where `IInv` adds `ControlOK` to them:
`calling_functors_` and `started_` are functions of the loop thread's position, a
push of the loop thread is in progress only where user code runs, and there is no
batch outside the functor phase. Without it none is inductive:
`NoLostWakeUp` needs `calling_functors_` in the phase `functor` and `started_` before
`Run` to know that line 125 sends a wakeup, and that only a timer callback can push
without one after the swap. `ExactlyOnceInOrder` needs the empty batch when the
queue is swapped. The proof has one step for each action, grouped into the loop
thread's own steps, the calls of its user code, and the other threads' steps
(`LoopThreadStep`, `UserCodeStep`, `ForeignThreadStep`), and rests on four lemmas on
sequences. Assumptions: `PipeCapacity` is positive and the bounds are naturals.

`TimerWheelProofs` proves for any number of wheels, slots and timers, under the hypothesis
`InRange`:

* `TimersInTheirSlots`: `Spec => []SlotsFollowHands`;
* `QueueIsRight`: `Spec => []QueueMatchesTimers`;
* `OnlyRemovalAborts`: `Spec => AssertionsHold`, so `Step` never overflows;
* `ExpiredAreHandedOut`: `Spec => StepHandsOutExpired`, what the run `TimersBeforeRun`
  refutes where the hypothesis does not hold;
* `WheelImplementsService`: `Spec => ImplementsTimerService`.

`InRange` says that every instant of the run is below `Capacity` ticks of the loop's start,
which for the code's wheels is 2^31 of them, and that the clock does not move before `Run`.
Both are needed: behind the last wheel `FindPos` overflows and the process may end, and
a timer that expired before `Run` is the finding of `TimersBeforeRun`.

`IInv` adds to the two invariants that the hands are where `last_expire_time_` has moved them,
and that no timer of the wheel is overdue. `SlotsFollowHands` is what is hard: `Step` moves the
hands and places the timers of one slot anew, and then every *other* timer must still be
where `FindPos` would put it from the new hands. The proof has no position of the hands as one
number in mixed radices. It goes wheel by wheel on what the wheels below leave of
an interval: moving the hands by `a` and then by `b` is moving them by `a + b`
(`MoveTwice`); so a timer stands, after `Step`, either in the slot it had, when the hand of
its wheel has not reached it, or in the slot the hand stops at, whose timers are handed
out or placed anew (`Cascade`, `SlotOfLater`, `StepIsExact`). That from the origin exactly
the intervals below `Capacity` fit is `FitsIs`. For the refinement, `Step` is `Expire` as the
timers at which the hands stop are exactly those of the instant; `RunAfter`, `RemoveTimer` and
the callbacks map to `TimerService`'s actions, everything else is a stutter.

`RingBufferProofs` proves for every ring, header, set of lengths and width of the size:

* `TypeCorrect`: `Spec => []TypeOK`. It needs that a record is not longer than the ring:
  then `Wrap` and `FrontAfter` never leave it, sound or not.
* `SizeIsRight`: `Spec => []SizeCounts`, from `SizeInv`: as long as no updates have
  overlapped, at most one process is between its load and its store, it has loaded the
  present value, and the value is the difference of the updates stored so far. The
  difference is taken modulo `SizeRange`, which needs the lemmas on remainders.
* `PoppedInOrder`: `Spec => []PopsInOrder`; `EmptyIsDrained`: `Spec => []EmptyMeansDrained`;
  `NothingOverwritten`: `Spec => RecordsStay`.

The last three follow from `RingInv`: while `sound`, there are distances `off` from `front`, one
for each record not yet released and one for the end, such that the records lie in a row without
a gap and end before the ring does, each byte of each is in memory at its address, modulo
the ring, each header is before the end of the ring, and `back`, `newBack` and `newFront` are at
the distances the positions of the two processes say. The distances are the witness: `PushCopy`
appends one, `PopRelease` drops the first and subtracts it from the others, and no step
compares addresses on the two sides of the end. That the new record overwrites none is
that `space_left` is the ring without the row (`SpaceLeftIs`). The FIFO alone is not inductive,
as `Pop` finds its next record by the length in the bytes of the header.

`HttpProofs` proves of `SliceFind`, for all texts and patterns, of any length:

* `FoundIsThere`: `FindSpec => []FoundIsOccurrence`;
* `FirstIsFound`: `FindSpec => []FindsFirst`;
* `AutomatonRight`: `FindSpec => []InternalFindsFirst`.

The first two follow from `FindSafety: FindSpec => []FindInv`. For the first it says that every entry of the
table is the length of a border of the pattern's prefix, though not always of the longest,
and that the matched characters match; a shift by a border keeps the match. For the second,
where the first character is unique in the pattern, that the table is all 0 and no occurrence
lies before `m`: an occurrence between `m` and `m + i` would need the first character a second
time. `FindInv` is about the table while it is built, so no induction over data is needed.

`AutomatonRight` needs one, as `Column` and `StateAfter` are recursive functions. By induction on
the columns, a character leads in column `k` to the longest prefix of the pattern that ends the
first `k` characters with that one behind them, and the state a column is copied from is the
longest proper border (`NextColumnIsGood`); by induction on the text, the state is the longest prefix of the
pattern that ends what was read, until the whole pattern is (`NextStateIsGood`). That the functions exist,
which `CHOOSE` in their definition does not give, is proved first (`AllColumns`, `AllStates`):
a column is copied from an earlier one only because that one is good.

`HttpProofs` proves of `HttpServer`, for any set of streams over `Symbols`, any files and any
number of changes to them:

* `AnswersFit`: `Spec => []AnswersFitInput`: the parser and the grammar agree on streams of
  any length, whatever the pieces they arrive in;
* `AnswersWritten`: `Spec => []AnswerWritten`;
* `RequestsSurvive`: `Spec => []ProperRequestsSurvived`.

All three follow from `Safety: Spec => []IInv`, whose parts are:

| Part | Says |
|---|---|
| `ParsedInv` | `read_buf_` is the rest of what was read behind the first `Taken` symbols, and these are what the parser's state says (`ParserFits`: no line, so many good lines, a whole head), or are the request it has handed over (`RequestFits`) |
| `AnswersInv` | with the parser there is an answer exactly when its next call would be an error, and it is 400; with a request there is one answer, from the moment its modules are through |
| `CloseInv` | a connection is closed once, is not read any more then, and has nothing left to write unless it is in error; `Destroy` comes last |

`AnswersFitInput` is not inductive, as it speaks of states in which the loop waits, and of
`Verdict`, which is defined on the whole of `received` at once. The proof goes in two parts. One is
about sequences: a longer sequence has the same lines where the shorter one had them
(`LineExtended`, `HeadExtended`, `RequestExtended`), so what the parser knows of a prefix stays true
when a read adds to it, an error stays one (`ErrorStays`), and a request that is complete is
the request of the whole stream (`RequestKnown`). The other is about one call of `state->func`:
`FuncSteps` says that it leaves everything as it is, for a reason that the grammar gives too,
or takes a whole line, head or body and the prefix grows by it. `find` on the rest of the
buffer is the next line end of the stream because the parser always stands behind one
(`FindIsNext`). That at most one answer is given to a request, and
`ProperRequestsSurvived`, then only need the order of the steps of an iteration: the
second call of `any_cast` needs bytes behind the request, and the second close needs an
error. Assumption: streams consist of `Symbols`, so that the value of a header is a number or
`NotANumber`.

`ThreadProofs` proves of `BlockingQueue`, for every finite set of threads and number of pushes:

* `NoItemIsForgotten`: `QueueSpec => []ItemsAttended`, with `QueueTypeCorrect`. The inductive part adds
  that who tests or stores owns the mutex, so that nobody is between test and sleep when an
  item is stored. The counting is by the cardinalities of the sets of threads at each place.

and of `LoopThread`, for a pool of any size:

* `PoolLoopsLive`: `Spec => []HandedOutLoopsLive`, from `Safety: Spec => []IInv`: `loop_` is set
  only from the store on, the starter returns only with `loop_` set, and what is in `loops_`
  are the threads before the one being started.

`ProcessBusProofs` proves for a ring of any size and any number of deaths:

* `CheckedAreSafe`: `Spec => []CheckedSegmentsWork`: a file never shrinks, and whoever is behind
  its `ftruncate` or has compared its size relies on nothing else.
* `MessagesSurvive`: `Spec => []SurvivorsInOrder`, from `RingInv`, which says of a ring that
  nothing has disturbed: a `Listen` between its two stores has `front` at 0; a record that `Push`
  has copied but not shown lies in the free slot behind the shown ones, and one that `Pop` has
  copied but not released is still the first of them; shown records are in order and newer than
  what was popped, unless a reset is half done; and every message pushed is popped, in the
  consumer's hand, shown, or lost to a `Listen` or a death. The property alone is not inductive:
  that `Push` shows its record last and overwrites none needs to know what is in the slots,
  not only which numbers. The lemmas on `Used` and `Advance` turn remainders into cases.

`TcpServerProofs` proves for any number of IO loops, connections and descriptors:

* `ThreadsDoNotShareQueues`: `Spec => []PushesDoNotMix`. `IInv` says that every call, in
  progress or queued, is on the loop where it belongs (`Proper`): the server's on the base
  loop, the connection's on `loop_`, which is set once; so are the channels in the pollers and
  among those `Poll` returned. What a loop is pushed then comes from `PushersOf` it only: the
  base loop pushes to the IO loops, the IO loops to the base loop. It needs that the base loop
  is not in its own pool (`LoopsAssumption`).
* `NothingDangles`: `Spec => []NoDanglingPointers`; `NoAssertionFails`: `Spec => []AssertionsHold`;
  `BothCallbacksRun`: `Spec => []CallbacksPaired`.
* `NothingReadOutOfOrder`: `Spec => ReadsInOrder`.

The middle three follow from `IInv /\ LInv`. `LInv` follows a connection through its life by
what is still to be done for it: `Work(l)` is the calls in progress on loop `l`, then its batch,
then its queue, and the parts of `LInv` say of each kind of call what it finds when its turn comes.

| Parts | Say |
|---|---|
| `LiveInv`, `ServedInv` | work is only for connections that exist; one that is connected is in the map, and one in the map has no step of its own end behind it |
| `NccbInv`, `StartInv` | the new-connection callback is before all other work of its loop, and `StartReading` before the end of the connection |
| `ActiveCloseInv`, `HandleCloseInv` | `ActiveClose` finds the connection connected, with nothing but writes before it; `HandleConnectionClose` finds it disconnected and in the map, and is there once |
| `TakenInv`, `NotifyInv`, `QueueDestroyInv` | a connection out of the map has its close callback and its `Destroy` done or to be done, in that order, once |
| `DestroyInv`, `GoneInv` | `Destroy` is the last work for its connection on its loop; behind it only the return of `HandleConnectionClose` is left |
| `FdInv`, `ChannelInv` | no two connections that exist have the same descriptor; a channel in a poller or among the active ones is of a connection that exists |
| `PhaseInv` | which calls come in which phase, and that a batch holds what its functors bind |

None of them is inductive without the others: that nothing dangles in a poller needs that
`Destroy` is still to come, that it comes last needs that the connection was closed once, and
that needs the state and the order of the calls on two loops. All steps of `Next` change
work in one way (`Moves`: the innermost call of one loop is replaced by others, and at most
one call is put at the end of a queue), so that facts about the order of calls are proved once and
not for every action.

`ReadsInOrder` needs `ReadsInv` as well: a closed connection is not listened to unless `EnableReading` came
after the close, each channel is reported once and not while its connection is being called,
and before a `ReadFromPeer` nothing closes its connection but the write in the same
`HandleEvents`.

`TcpClientProofs` proves for any number of connections and descriptors, with writes and input
of any size and a buffer that grows:

* `NothingDangles`: `Spec => []NoDanglingPointers`; `KnownEnds`: `Spec => []AssertionsHold`;
* `SendsInOrder`: `Spec => []SentInOrder`; `ReceivesInOrder`: `Spec => []ReceivedInOrder`.

They follow from `Safety: Spec => []IInv`, in which every connection is `Good`, that is

* `Sending`: `write_buf_` holds the numbers of the bytes not sent, in order, with its indices
  in order and below the size of its vector; the wire holds the others, each once; what is on it
  of the file is its first `zdone` bytes, or all of it once nothing of it is pending; and the bytes written before the file are ahead of it
  on the wire unless it has overtaken them;
* `Receiving`: what was consumed, what is in `read_buf_` and what is in the socket are the bytes
  the peer sent, and none is missing while the socket works;

and, while the process runs, the map holds the connections that are connecting or connected
(`MapInv`), `Connect` and `Destroy` are queued once each, for connections in the right state
(`WorkInv`), and a channel is in the list of active ones or among the handlers still to be
called, but not both, with its input still there (`ActiveInv`, `TodoInv`), so that `readv` takes
something unless the input was spurious. `KnownEnds` needs all of it: each assertion of the
connector, the connections and the buffers is tested where the code has it, `Append`'s in `Write` too,
and none can fail but in the five ways above. A handler changes one connection: that the record
it ends with is `Good` and has moved to no state it may not (`Handled`) is proved once for each of `Write`,
`ZeroCopyWrite`, `WriteToPeer`, `ReadFromPeer` and the user's callbacks, and what `Becomes` makes
of that in the poller, the map and the queue once for all. What a buffer is asked to hold
is bounded by what is written or sent in all, so under `SizesFit` the size `EnsureSpace` gives it, at
most twice that, does not wrap, and its assertions hold.

Not provable here and left to TLC: liveness (`QueuedFunctorsRun`, `QuitEndsRun`,
`TimersFire`, `ClosedConnectionsFreed`, `EndedConnectionsFreed`, `Delivered`, `Redelivered`,
`ItemsAreTaken`, `StartReturns`, `ConnectionsEnd`), which needs fairness and `ENABLED`. Where a recursive
function had to be reasoned about, the induction is on a *set* of numbers (`Induct`,
`InductUpTo`), by the least one outside of it, since a rule of induction over a formula cannot be
instantiated.

## Not modelled, and the plan

In this order:

1. The clock set back (`fx_timer_wheel.cc:227`): a `Tick` that goes backwards, and which
   promises of `TimerService` survive it.
2. A user that keeps a `TcpConnectionPtr` and writes after `Destroy` (`fx_poller.cc:64`), and
   the failures of `epoll_ctl`.
3. Two IO threads answering at once, for the race on `status_to_reason_` (`http_codec.cc:114`).
4. `Acceptor::BindOrAbort` and `Listen`; the echo example's `OnMessage`, which cancels and
   renews the timer in the connection's context.

Not worth a model: `PidFile` (one check and one creation, before anything else runs),
`ObjectPool` (a wrapper of `boost::object_pool`), `NetAddress` and `socket_op` (wrappers of
system calls, whose failures are in the actions that call them), `ProcessBusManager::Init`
(reads a configuration file), `InitMMap` (has no caller), the growth of the `Poller`'s event
array, and the constructors and accessors of `Slice`.

Theorems to come: that `TcpServer`'s loops implement what `EventLoop` says of one, and
that `RingBuffer` implements the records of one slot in `ProcessBus`.

Outside the scope: wording of logs, address formatting, dates, the build.
