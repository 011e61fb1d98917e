# moony: TLA+ models, checks and proofs

moony is a C++ network library of the reactor kind ("one loop per thread"): a
`tcp_server` accepts connections on its main loop and deals them out to io
loops, each of which runs in a thread of its own. Nearly everything it promises
rests on a few agreements between threads, none of which a lock enforces:

* a loop is touched by its own thread only; other threads queue functors on it
  and wake it through an eventfd;
* a connection lives as long as a `shared_ptr` to it does, while epoll and the
  list of active channels refer to it by raw pointer;
* a loop that is told to quit does quit, so that its thread can be joined.

The modules here model these agreements from the code and TLC checks them on small
instances. TLAPS proves every safety property that a run finds to hold, and the four
refinements, for every number of threads, loops and connections and every size,
each under the hypotheses that section 5 names; the liveness properties rest on TLC
alone.

1. [Inventory](#1-inventory) 2. [Modules](#2-modules) 3. [Runs](#3-runs)
4. [Fairness](#4-fairness) 5. [Proofs](#5-proofs) 6. [Disagreements](#6-disagreements-between-the-code-and-its-documentation)
7. [What is not modelled](#7-what-is-not-modelled) 8. [Plan](#8-plan)

To check everything by hand: `tlc -config X.cfg M` for the pairs of the table of
runs, and `tlapm` on the modules whose names end in `Proofs`.

## 1. Inventory

Paths are relative to `src/`; `net/x` stands for `net/x/x.h` and `net/x/x.cc`.

| component | state | operations | talks to |
|---|---|---|---|
| `net/event_loop` | `looping_`, `quit_`, `calling_pending_functors_`, `pending_functors_` (under `mutex_`), `active_channels_`, eventfd | `loop`, `quit`, `run_in_loop`, `queue_in_loop`, `wakeup`, `handle_read`, `do_pending_functions` | poller (calls), every other thread (queue, eventfd) |
| `net/poller` (`epoll_poller`) | `channels_`, the epoll instance | `poll_wait`, `update_channel`, `remove_channel`, `fill_active_channels` | channels by raw pointer |
| `net/channel` | `events_`, `revents_`, `idx_`, `tie_` | `enable_*`, `disable_*`, `handle_event`, `remove` | loop, and its owner through four callbacks |
| `net/buffer` | vector, reader and writer index | `append`, `retrieve*`, `read_fd`, `write_fd`, `make_space` | none |
| `net/tcp_connection` | `state_`, socket, channel, two buffers, user callbacks | `send`, `shutdown`, `connection_established`, `connection_destroyed`, `handle_read/write/close/error` | its loop, the server (close callback), user code |
| `net/acceptor` | listening socket and channel | `listen`, `handle_read` | server (`new_connection`) |
| `net/tcp_server` | `connections_` (main loop only), `started_`, acceptor, pool | `start`, `new_connection`, `remove_connection`, `remove_connection_in_loop`, destructor | main loop, io loops (both queues) |
| `net/event_loop_thread` | `loop_` (under `mutex_`), `exiting_` | `start_loop`, `thread_func`, destructor | base_thread, its loop |
| `net/event_loop_thread_pool` | threads, `loops_`, `next_` | `start`, `get_next_loop`, destructor | event_loop_thread |
| `base/base_thread` | `started_`, `joined_` | `start` (semaphore), `join` | OS |
| `net/socket`, `net/inetaddress`, `base/time_stamp`, `base/current_thread`, `base/logger`, `sample` | a descriptor, an address, a time, a cached id, a level | system calls and formatting | OS |

How they interact: user threads call `send`, `shutdown`, `run_in_loop`, `quit`;
the loop thread alternates between `poll_wait`, the callbacks of the active
channels, and the queued functors; `tcp_server` moves a connection from the main
loop to an io loop and, when it closes, back and forth once more
(`handle_close` on the io loop, `remove_connection_in_loop` on the main loop,
`connection_destroyed` on the io loop).

What is hard, and which property looks at it:

| behaviour | properties |
|---|---|
| a functor is pushed while the loop drains or falls asleep; `queue_in_loop` leaves out the wakeup in cases it believes safe | `NoLostWakeup`, `WakeInv`, `QueuedRuns` |
| functors queued while a batch runs | `RunsInOrder` |
| `quit` between the test of `quit_` and `poll_wait`; before `loop` | `QuitStops`, `DtorReturns`, `CalmDtorReturns` |
| raw channel pointers in `active_channels_` and in epoll while `shared_ptr`s go away on other threads | `ActiveAlive`, `RegisteredAlive` |
| a close that travels through two queues, with hangups reported meanwhile | `CloseInFlight`, `LivesInOrder`, `DownOnce`, `PeerCloseFrees` |
| no lock around the poller and `connections_` | `OwnThread` |
| ADD and MOD failures of epoll_ctl end the process | `NoFatal` |
| `shutdown` with output in flight | `NoDataAfterFin`, `ShutdownSends` |
| several threads send while the socket takes parts of the output | `StreamInOrder`, `QueuedLeaves` |
| EPOLLOUT switched on in one place and off in another | `WritingIffOutput`, `QueuedLeaves` |
| write-complete and high-water callbacks, reported from several places | `CompletionTold`, `HighWaterOnCrossing` |
| the test and the use of `state_` on different threads; functors bound to a raw `this` | `StreamInOrder`, `ShutdownSends`, `AliveWhenRun` |
| `accept` that fails | `PeerCloseFrees`, `CloseInFlight` |
| `~tcp_server` against io loops that still run | `RegisteredAlive`, `DtorTerminates` |
| a thread that starts, publishes its loop, and is joined | `StartReturns`, `LoopsValid` |
| unsigned index arithmetic in the buffer | `IndicesInOrder`, `NoCorruption`, `StreamIntact` |

## 2. Modules

```
FunctorQueue        abstract: what a loop promises            <--- EventLoop <--- EventLoopProofs
ConnectionLife      abstract: what a server promises          <--- TcpServer  (EXTENDS Channel)
OutputStream        abstract: what a connection promises      <--- TcpConnection (EXTENDS Channel)
ByteQueue           abstract: what a buffer promises          <--- Buffer    <--- BufferProofs
                                                                   EventLoopThreadPool <--- EventLoopThreadPoolProofs

ChannelProofs (EXTENDS Channel), BatchProofs     lemmas, EXTENDed by the next two:
TcpServer     <--- TcpServerProofs
TcpConnection <--- TcpConnectionProofs <--- TcpStreamProofs
```

An arrow to an abstract module is a refinement, checked as a property
(`RunsInOrder`, `LivesInOrder`, `StreamInOrder`, `StreamIntact`). The `MC*` modules are what TLC
runs on.

### EventLoop

One `event_loop`, its owner thread and any number of other threads. `pc` is
where the owner is in `loop()`; user code (a functor, a channel callback, or the
code around `loop()`) is an arbitrary sequence of calls made while `pc` is
`funcb`, `iocb` or `idle`. `queue_in_loop` and `quit` are two actions each,
`QueueInLoop`/`QueueWakeup` and `Quit`/`QuitWakeup`, because the write to the
eventfd comes after the critical section (or after the atomic store) and the
owner can do anything in between; `op[th]` says which half a thread still owes.
`DrainBegin` is the flag and the swap of `do_pending_functions`, `RunFunctor` and
`DrainEnd` the rest. A functor is an element of `Tasks`, submitted at most once.
`executed` and `early` are history variables; `early` holds the functors the
owner queued before `loop()`, for which the code writes no eventfd.

`wakeup_fd` is a number in `Nat`; what is read off it is only whether it is
positive. epoll_wait is external: it returns some readable descriptors, or
nothing after the timeout or a signal (`PollTimeout`). Descriptors other than the
eventfd are one element, `io`, readable whenever they please.

### Channel, TcpServer

`Channel` is the record of one channel and of what epoll knows of it, with the
operations of `channel` and `epoll_poller` as operators from record to record.
`is_none_event` is `FALSE` because the code computes `events_ & 0`; a failed ADD
or MOD sets `fatal`.

`TcpServer` is a server after `start()`, which only guarantees that the io loops
are published: `Init` has them in front of `loop()`, and `LoopEnter` is the way in,
with its `quit_ = false`. `conn[c]` is the `tcp_connection` with
the part of its socket that decides what epoll reports: unread data, the peer's
FIN and RST, `SO_ERROR`, our own shutdown. Each operation of `tcp_connection` is
an operator on that record (`SendInLoop`, `HandleRead`, ...), a set of records
where the kernel or the user decides the outcome; `HandleEventWithGuard` puts
them in the order of `channel::handle_event_with_guard`. Each loop is taken one
level up from `EventLoop`: poll, one action per active channel, one action per
functor, with the queue and the batch. Loops share only their queues, so that a
callback is one step; what makes that sound inside a callback is that all it
touches belongs to its own loop, which is the property `OwnThread`, and that its
calls on other loops are one push each. The exception is `state_`, which a `shutdown`
on another thread may store: it does so before or after a callback, not inside one.

A functor stays in `batch` after it has run and dies with the batch, as in
`do_pending_functions`, where the vector is destroyed at the end: this is what
keeps a connection alive through its own last callback. `Served` says that the
server has a `shared_ptr` to the connection, in its map or in a functor; `Held` is the
use count compared with zero, the pointers of the users included.

Every callback hands the user a `tcp_connection_ptr` (`Given`), and any of the
`Users`, threads and functors of the user, may keep it. While one does, it may call `send`
and `shutdown` from another thread, each split as in `TcpConnection` below: `Call` is
the test of `state_`, `ShutdownSet` the store, `SendQueue` and `ShutdownQueue` the push
of a functor that binds the raw `this`, `RunSend` and `RunShutdown` its execution.
`ShutdownSet` overwrites whatever `state_` has become. `ForeignCalls` says which of the
two calls the other threads make. `RunCallback` is user code on the loop of a connection
outside its own events: a write-complete or high-water callback or a functor with a
pointer bound into it. The users are careful in one respect, `Release`: the last one
to hold a pointer waits for the raw functors of the connection to run; `conn_raw` shows
what happens otherwise. A user also does not queue on an io loop that has ended.
A step on a dead connection is undefined behaviour and is not continued.

`reports[c]` counts the calls of `connection_callback_`, which are what the user hears:
the first is UP, every later one DOWN. `ConnectionLife`, `DownOnce`,
`CloseInFlight` and `NoDataAfterFin` read this count and not `state_`, which a late
`shutdown` may overwrite.

`DtorBegin` to `DtorEnd` are
`~tcp_server` and its members in the order of their destruction: `~event_loop_thread`
for each io thread, then `~acceptor`. `accept_channel_` is the channel of the
acceptor; its `handle_read` has three outcomes, `Accept` with `new_connection`,
`AcceptFails` (EMFILE: nothing changes and the socket stays readable) and
`AcceptAborted` (the peer has given up in the backlog).

Three conventions: `Poll` delivers all that is ready, as epoll_wait does when its array
(16 events at first, doubled when full) is long enough; the raw `this` of the server in
`remove_connection` is always good, because the main loop never runs again after
`DtorBegin`; and a descriptor number is not reused while its connection is in the model.

### TcpConnection

One established connection, closer: its bytes, and the threads of the user. Where
`TcpServer` takes a whole `handle_event` as one step, here each callback is one
(`EventHup`, `EventErr`, `EventIn`, `EventOut`), and a call from a user thread is
split where the code is not atomic: `Call` is the test of `state_` at the head of
`send` or `shutdown`, `ShutdownSet` the store in `shutdown`, `SendQueue` and
`ShutdownQueue` the push of the functor. `ShutdownSet` overwrites whatever the loop
has put into `state_` meanwhile, as the code does. A callback on the loop is one
step, because within it `state_` is read once and nothing else of the connection is
shared; what it queues is in the order of the code.

The record `conn` holds `state_`, the channel, `output_buffer_`, the pending functors
of the loop, and the socket: `room` in its send buffer, unread data, FIN and RST of
the peer, `SO_ERROR`, and our own FIN (`shut`). A byte is the message it belongs to,
so that a torn, swapped or doubled message shows on `wire`. `SendInLoop` and
`HandleWrite` take as many bytes as there is room for; a write to a socket that is
reset or shut down fails. `told` and `highs` are history variables.

`Held` is again the use count compared with zero: the server's map, the functor that
`handle_close` has left with the main loop (`owed`), the users (`holders`), and
the functors that bind a `shared_ptr`, until their batch dies. The functors of `send`
and `shutdown` (`Raw`) do not. With `Careful` a user keeps its pointer until its
functors have run; without, it may drop it as soon as the call has returned. The
server is two actions, `ServerAnswers` (what `TcpServer` shows to follow a close) and
`ServerDtor`; the end of the loop itself is left to `TcpServer`.

`OutputStream` is the promise: messages are put whole behind the stream, those of one
thread in its order, the stream reaches the wire in order, and the FIN comes last.
Once the connection is down nothing is promised but the order.

### EventLoopThreadPool

`start()` of the pool and, for each thread in turn, `base_thread::start` with its
semaphore, `thread_func` on the other side, and the wait in `start_loop`; then
`get_next_loop`; then the destructors, at any moment. The critical sections of
`event_loop_thread::mutex_` are one step each, and `notify_one` moves an owner
that waits back to the test in its `while`. The destructor reads `loop_` without
the lock (`DtorTest`) and calls `quit` in two steps (`DtorQuit`, `DtorWakeup`).
`LoopEnter` is the `quit_ = false` at the top of `loop()`.

### Buffer

The members of `buffer` on a record of vector and indices, with `size_t`
differences taken modulo `SizeT`. Bytes are numbered in the order in which they
are put in, so that a lost, doubled or misplaced byte shows in `StreamIntact`. A
write outside the vector is undefined behaviour: the model sets `corrupt` and
stops.

## 3. Runs

| run | instance | shows |
|---|---|---|
| `loop` | 2 outside threads, 2 functors, 2 quits | `TypeOK`, `NoLostWakeup`, `WakeInv`; `RunsInOrder`; `QueuedRuns` and `QuitStops` without the poll timeout |
| `server_single` | no io loop, 2 connections, destructor, 1 user with 1 `send` from another thread | `RegisteredAlive`, `NoFatal`, `DownOnce` |
| `server_pool` | 1 io loop, 1 connection, 2 users with 1 `send` each from other threads | `TypeOK`, `RegisteredAlive`, `ActiveAlive`, `OwnThread`, `CloseInFlight`, `LivesInOrder` |
| `server_live` | 1 io loop, 1 connection, destructor, 1 user with 2 `shutdown`s from another thread | `NoDataAfterFin`, `PeerCloseFrees`, `DtorTerminates` |
| `conn` | 1 user thread with 2 calls, 1 message from callbacks, 2-byte messages, 1 byte of room, mark at 2 | `TypeOK`, `WritingIffOutput`, `CompletionTold`, `HighWaterOnCrossing`, `StreamInOrder`, `QueuedLeaves`, `ShutdownSends` |
| `pool` | 3 io threads | `TypeOK`, `LoopsValid`, `Balanced`, `StartReturns`, `CalmDtorReturns` |
| `buffer` | 6-byte vector, 14 bytes, chunks up to 7 | `TypeOK`, `IndicesInOrder`, `NoCorruption`, `StreamIntact` |
| `server_down` | 1 io loop, 1 connection | `DownOnce` is violated |
| `server_destroy` | 1 io loop, 1 connection, destructor | `RegisteredAlive` is violated |
| `conn_raw` | the same with 1 call, and a user that drops its pointer early | `AliveWhenRun` is violated |
| `pool_early_quit` | 2 io threads | `DtorReturns` is violated |
| `buffer_burst` | reads larger than the room | `NoCorruption` is violated |

Why the bounds are enough:

* `loop`. Two outside threads are needed for one to be between push and wakeup
  while the other's wakeup has already been consumed; more threads add no new
  relation of a thread to the loop. Two functors make an order; a functor queued
  by a functor, by a callback, by the owner before `loop()` and by both other
  threads all occur. Two calls of `quit` allow `loop` to be entered again after
  one and to be stopped from two sides. The safety part is proved without bounds.
* `server_*`. Connections meet each other in `connections_`, in the queues and in the
  batches of a shared loop; `server_single` has two of them on one loop, `server_pool`
  one with two queues, and two users, so that a pointer can be dropped by one while
  the other is inside a call and while functors of both wait (127,347 states; the
  512,906 of `server_single` are those up to the symmetry of its two connections). That
  connections do not disturb each other, whatever their number, is what the proofs add.
  `server_live` and the two violations show what they have to with one connection. The
  users' calls are limited by `MaxCalls`: with two `shutdown`s the second meets each
  state the first can leave. `MaxReports` = 3 lets the repeated hangup be reported once
  more than it should (`DownOnce` tells two reports from three), and stops it there:
  a connection reported that often is not polled again, which a further report would not
  make different.
  The other threads of a run call `send` or `shutdown`, not both; section 6 shows why.
* `conn`. The user thread and the loop are the two senders and the two that shut
  down; two calls give send-send, send-shutdown and shutdown alone, with the loop's
  message before, between and after them. Messages of 2 bytes over 1 byte of room
  leave in parts, by the direct write and by `handle_write`; they are also buffered
  behind each other, and with the mark at 2 the buffer reaches it exactly, jumps over
  it and reaches it again after it has drained. A second user thread was tried for the
  safety properties (1 call each, 1.6 million states, no error); it adds no case that
  the callbacks on the loop do not already give.
* `pool`. Three threads: one running, one starting, one not created. `MaxCalls`
  = 2 turns of `get_next_loop` per loop make `next_` wrap more than once.
* `buffer`. `k_cheap_prepend` = 2 and 6 bytes give 4 bytes of room, extrabuf 5;
  14 bytes in chunks of up to 7 fill, move down, grow, and grow again from every
  position of the two indices. `SizeT` = 64 is far above every index, and a
  difference that wraps is seen as such.

`CHECK_DEADLOCK FALSE` stands where the system may really stop: a destroyed
server or pool, connections that are all gone, a corrupt buffer. `loop` and
`buffer` are checked for deadlock.

## 4. Fairness

* `EventLoop`: weak fairness of the steps of `loop()`, poll included only if the
  eventfd is readable, and of the second halves of calls. The threads run; that is
  all. In particular the timeout of 10 s and traffic on other descriptors are never
  counted on, so that liveness shows the wakeups to be sufficient by themselves. User
  callbacks are assumed to return (`CallbackReturn` is a step of the loop).
* `TcpServer`: weak fairness per loop thread and of the thread in the destructor.
  epoll is level triggered, so that what is ready stays ready; that a queued functor
  wakes the loop is what `EventLoop` shows. Peers, users and user code on the loop are
  free, except that liveness speaks of peers that have closed: a user may keep its pointer
  for ever, so that `PeerCloseFrees` promises that the server lets go (`~Served`).
  `DtorTerminates` speaks of a destructor that begins when every io loop has come to
  `loop()`; a worker that has only published its loop may erase the quit, as
  `pool_early_quit` shows, and the join then waits for ever.
* `TcpConnection`: weak fairness of the loop, of a user thread inside a call, of the
  server's answer to a close (`PeerCloseFrees` of `TcpServer`), and of the peer's
  reading: `QueuedLeaves` and `ShutdownSends` speak of a peer that takes what it is
  sent, or resets or closes. Calls, callbacks' choices and the peer's FIN are free.
* `EventLoopThreadPool`: weak fairness per thread. Calls of the pool's user and
  returns of poll without the eventfd are not assumed.

## 5. Proofs

`EventLoopProofs` proves, for any set of threads and functors:

* `TypeCorrect`: `Spec => []TypeOK`. `TypeOK` also says that `looping_` is up
  exactly inside `loop()` and `calling_pending_functors_` exactly while the batch
  runs; the later proofs need both, because `queue_in_loop` decides by the flag.
* `WakeCorrect` and `NoWakeupLost`: `NoLostWakeup` is not inductive, since it only
  speaks of a loop that sleeps. `WakeInv` says what holds at every other moment: a
  functor in the queue that was not put there before `loop()` has a readable
  eventfd, or a thread that is about to write it, or an owner that passes
  `do_pending_functions` before it polls again. The interesting step is
  `QueueWakeup` of the owner itself without a write: it is covered because the owner
  is then in a channel callback, before the drain, or in a functor, where the flag
  makes it write.
* `Fifo`: `Spec => RunsInOrder`. The refinement maps the abstract queue to
  `functors \o pending_functors`. `DrainBegin` is a stutter because the batch is
  empty when it starts (a conjunct of `TypeOK`), `RunFunctor` takes the head.

`EventLoopThreadPoolProofs` proves, for any number of threads and of calls:

* `TypeCorrect`: `Spec => []TypeOK`. That `next_` stays below the number of loops
  needs `LoopsCount`, a bound of the cardinality of `loops_`.
* `PointersGood`: `Spec => []LoopsValid`. The inductive invariant `Inv` adds, for the
  start (`StartInv`), that `loops_` is `1..cur-1` and the threads behind `cur` do not
  exist yet, and for the workers (`WorkerInv`), that `loop_` is set exactly between its
  publication and the end of the thread, and that a loop only ends, or is only told to,
  when a destructor has passed its thread (`Passed`). Without the last part a worker
  could be imagined to leave `loop()` by itself.
* `RoundRobin`: `Spec => []Balanced`. `DealInv` says exactly which loops are one call
  ahead: those below `next_`.
* `NoMissedNotification`: an owner inside `cond_.wait` always has a worker that has not
  published yet. This is the part of `StartReturns` that is not fairness.

`BufferProofs` proves, for all sizes of the vector, of the prepend area, of
`extrabuf` and of the calls, if no read brings more than there is room for
(`~Burst`; with such a read the code is wrong, see `buffer_burst`):

* `TypeCorrect`, `IndicesOrdered`, `NoByteOutside`: `TypeOK`, `IndicesInOrder` and
  `NoCorruption` follow from `Inv`, whose part `Good` says that a buffer is in order
  and its vector shorter than `MaxLen`. The bound is what makes the differences of
  `size_t` the true ones (`Differences`), and it is inductive only with the last
  conjunct of `Inv`, that there are never more readable bytes than were put in: a
  vector grows only when the bytes in front of the reader are fewer than what is put
  in, so its size is bounded by the bytes ever put in (`Grows`). `MaxBytes` is thus not
  only a bound of the runs: with `BoundAssumption` it says that the bytes of a buffer
  fit in `size_t`, twice.
* `BytesInOrder`: `Spec => StreamIntact`. One lemma per member says what becomes of the
  readable bytes: `SpaceKeeps` and `EnsureKeeps` that making room changes none,
  `WriteAdds` that a write adds at the end, `RetrieveTakes` that taking drops from the
  front.

`ChannelProofs` and `BatchProofs` hold the lemmas that the proofs about connections
share. The first says that the books of the poller agree with epoll (`Sound`) and that
each operation of a channel keeps them so; `Sound` also says that no channel is ever
`k_deleted`, which is so because `is_none_event` is never true. The second is about
`Todo(batch, ran, queue)`: the rest of the batch followed by the queue is one FIFO, to
which `queue_in_loop` appends, of which a functor that runs is the head, and which the
swap leaves alone. It makes the two containers of `event_loop` one in the proofs.

`TcpConnectionProofs` proves, for any number of threads, calls and messages, and for
all sizes of message, send buffer and high-water mark:

* `TypeCorrect`, `InterestRight`, `UserTold`: `TypeOK`, `WritingIffOutput` and
  `CompletionTold` follow from `Inv`. Each callback is first shown, as an operator on
  the record of the connection, either to work (`Works`) or to take it down (`Downs`);
  `LinkInv` then says that until the first close the channel is in order and watches for
  room exactly while bytes wait, and that nothing is written that the user will not be
  told of. `CloseInv` is what bounds the closes: one round of events closes at most
  once, and the server is owed at most one answer for each.
* `WarnedOnCrossing`: `Spec => HighWaterOnCrossing`, the action property. `Works` counts the
  crossings of each callback (`Crossing`), so that this needs no further invariant.

`AliveWhenRun` is not among them: with users that keep their pointers until their
functors have run (`Careful`) it only repeats the hypothesis, and without, it is false
(`conn_raw`).

`TcpStreamProofs` proves `StreamKept`, `Spec => StreamInOrder`. The stream of
`OutputStream` is the wire followed by `output_buffer_`. What it needs beyond `Inv` is
`OrderInv`: for each sender, the messages in the stream, those in functors that have still
to run (in the order of the FIFO), and the one it is about to queue carry rising numbers.
With this, a `send_in_loop` that runs puts a message behind all earlier ones of its
thread; the direct write of a part and the buffering of the rest put it there whole.

`TcpServerProofs` proves, for any set of connections and of users and any number of io
loops and of calls from other threads. Its lemma `InvAlways` is the invariant
`Inv /\ UserInv`, with and without `~tcp_server` running against the io loops:

* `ChannelInv`: the record of each connection is in order (`Good`): epoll and the books
  of the poller agree, and until the connection is reported down, bytes are buffered only
  with the write event on, and none behind a FIN.
* `ActiveInv`: a channel in an active list belongs to that loop and is there once.
  `OwnInv`: a functor is in the queue of the loop that owns what it touches.
* `FirstInv`: `connection_established` is the first functor of its connection in
  the line of its loop, and the only one; this is why a destruction, even one
  queued by `~tcp_server` before the connection was ever established, finds
  it established.
* `MapInv` says what is still to come for each connection (`Tracked`) and what a functor
  takes for granted (`Ready`): a connection reported down is in the map only with its
  removal in the line of the main loop, one that is out of the map and still in
  epoll has its destruction in the line of its own loop, unless that loop has
  ended (`Alive`). `CloseInFlight` alone is not inductive: it says nothing about
  connections that are not closed yet.
* `UserInv`: a user inside a call has a pointer, and the calls are counted.

From it follow

* `TypeCorrect`, `NoEpollFailure`, `OnOwnThread`, `FinAfterData`: `TypeOK`, `NoFatal`,
  `OwnThread` and `NoDataAfterFin`, whatever the other threads call.
  `FinAfterData` in particular covers a `shutdown_in_loop` queued by another thread that
  runs after a `handle_close`, which may leave output behind the FIN: it has been
  reported down by then.
* `ActiveStayAlive`: `Spec => []ActiveAlive`. The raw pointers that a loop is working
  through are good even while the server is destroyed, because the loop still has the
  functors that hold them. (Nothing is polled again once a loop has ended.)
* `RegisteredStayAlive` and `ClosedNotStranded`: `RegisteredAlive` and `CloseInFlight`, if the
  server is not destroyed or has no io loops. The destructor with io loops is
  excluded because the code is wrong there (`server_destroy`): `Alive` fails for a loop
  that has quit, and with it what `Tracked` promises.
* `DownReportedOnce`: `Spec => []DownOnce` for a server without io loops; with one,
  `server_down` is a counterexample. `SingleInv` says why: the main loop runs the
  destruction that a close has queued before it asks epoll again.
* `LivesKept`: `Spec => LivesInOrder`, if the server is not destroyed (a destroyed server
  frees connections that are still up). A step of a loop maps to `Up`, `Down`, or
  `FreeSome` when a batch dies or a user lets go; a connection is freed only as `down`
  because `Tracked` keeps every other one in the map.

The last five also assume `NotBoth`: threads other than the connection's call `send` or
`shutdown`, not both (on the loop itself both are free). With both the five properties are
not those of the code, see the race in section 6. What `NotBoth` gives is that
`send_in_loop` and a `state_` that is not `k_disconnected` do not meet on a closed connection: if
no other thread calls `shutdown`, `k_disconnected` is never overwritten, and
`send_in_loop` gives up; if none calls `send`, no `send_in_loop` comes late.

`Inv` and `UserInv` of `TcpServerProofs`, the `Inv` of `TcpConnectionProofs` and `OrderInv`
were model-checked before they were proved: the first two on the instances of
`server_pool`, `server_live` and `server_single`; the others on the instance of `conn`
and with a second user thread.

The constants need only the assumptions named in the modules
(`ThreadAssumption`, `QuitAssumption`, ...), which TLC evaluates in the runs.

Left to TLC are the eight liveness properties (`QueuedRuns`, `QuitStops`,
`PeerCloseFrees`, `DtorTerminates`, `QueuedLeaves`, `ShutdownSends`, `StartReturns`,
`CalmDtorReturns`), because fairness is out of the prover's reach, and the five that
the code violates. Of several of the former the part that is not fairness is
proved: `NoLostWakeup` for `QueuedRuns`, `NoMissedNotification` for `StartReturns`,
`CloseInFlight` for `PeerCloseFrees`, `WritingIffOutput` for `QueuedLeaves`.

## 6. Disagreements between the code and its documentation

With a run each:

* `buffer_burst`. `read_fd` does `writer_idx_ += buffer_.size()` (buffer.cc:29)
  when a read does not fit. The index ends up past the end of the vector,
  `writable_bytes()` wraps round, `append` does not grow, and the bytes of extrabuf
  are copied outside. The smallest trace is one read that is larger than the room.
* `pool_early_quit`. `loop()` begins with `quit_ = false` (event_loop.cc:75) after
  `thread_func` has published the loop. A pool destroyed in this window waits in
  `join` for ever. `CalmDtorReturns` shows that this window is the only reason.
* `server_down`. `is_none_event` is never true (channel.h:52), so a closed
  connection stays in epoll with an empty interest until `connection_destroyed`
  comes back from the main loop, and every poll until then reports its hangup and
  calls `handle_close` and the user again. Without io threads `server_single` checks
  `DownOnce`, and `DownReportedOnce` proves it under `NotBoth`.
* `server_destroy`. `~tcp_server` queues `connection_destroyed` and then quits the
  io loop; a loop that is already past its swap leaves without another batch, and
  the connection is freed with its channel registered.
* `conn_raw`. A user thread passes the test in `send`, the connection goes down and is
  destroyed, the functor is queued with a raw `this`, the user drops its pointer, and
  the loop runs `send_in_loop` on freed memory (tcp_connection.cc:60, likewise 151).
  A user who keeps the pointer until the functor has run is safe, since the pointer keeps
  the connection.

Without one, found while reading and modelling:

* A functor the owner queues before `loop()` is not announced through the eventfd
  (event_loop.cc:135, against event_loop.h:38): it waits for another wakeup or for
  the poll timeout. `NoLostWakeup` and `QueuedRuns` except exactly these (`early`).
* The init callback given to the pool is run only when there are no io threads
  (event_loop_thread_pool.cc:25, against tcp_server.h:83).
* `quit` stores `quit_` and then writes the eventfd; the loop may be gone by then.
  `DtorWakeup` is that step: it finds `Alive(cur)` false in reachable states.
* `send` from another thread also binds `buf.c_str()` (tcp_connection.cc:63); the model
  takes the string to live long enough.
* `send` and then `shutdown` from the same thread can lose the message: `shutdown`
  stores `k_disconnecting` at once, the functor of `send` still waits in the queue, and
  a `handle_write` that empties the buffer of an earlier message in between shuts the
  socket down. `QueuedLeaves` therefore excepts a connection that is shut down.
* The store of `k_disconnecting` may overwrite `k_disconnected` (tcp_connection.cc:149).
  One thread passes the test in `send`, another the test in `shutdown`; the peer's FIN leads to
  `handle_close`, the removal and `connection_destroyed`; then `k_disconnecting` is
  stored, and the functor of `send`, no longer stopped by its test
  (tcp_connection.cc:80), writes a part and adds the channel that was removed to epoll
  again. Both threads keep their pointers as long as they should. With
  `ForeignCalls = {"send", "shutdown"}` and two users TLC finds three of the
  properties violated: `RegisteredAlive` (1 io loop: the connection is then freed with
  its channel registered), `ActiveAlive` (1 io loop, not destroyed: the last user lets go
  between `poll_wait` and `handle_event`, event_loop.cc:85) and `DownOnce` (no io loop: a
  reset runs `handle_close` again). `NotBoth` of section 5 excludes it, and
  `WritingIffOutput` is stated for a connection that is up for the same reason.

## 7. What is not modelled

`base/logger` (output; the race on its level is listed as a hazard),
`base/time_stamp` and `net/inetaddress` (formatting), `base/current_thread` (a
cached constant; threads are compared directly), `sample` (one of the users that
the models allow). Within the modelled components: socket options and bind,
names of threads, `retrieve_as_string(len)` with a length beyond what is readable (it is
called with `readable_bytes()` only), an epoll_ctl that fails for want of memory or
watches (`NoFatal` is about the order of ADD, MOD and DEL), the store of `shutdown` falling
into the middle of a callback on the loop, EPOLLPRI, `poll_poller` (an empty file), SIGPIPE (a write
after a reset or after our own shutdown is modelled as the EPIPE branch that the
code has, which presumes that the signal is ignored), write errors other than a
full or a closed socket, the life of the string given to `send`, the reuse of
descriptor numbers, a main loop that runs again after the server is destroyed, and
user code that calls `quit` on a loop of the pool. The last four are hazards that
need a careless user; each is listed with its line in `PROJECT.json`.

## 8. Plan

In order; the first ten are done.

1. `EventLoop` with `FunctorQueue`; proofs of its safety and refinement.
2. `EventLoopThreadPool`.
3. `Channel`, `TcpServer` with `ConnectionLife`.
4. `Buffer` with `ByteQueue`.
5. `EventLoopThreadPoolProofs`.
6. `TcpConnection` with `OutputStream`.
7. The acceptor in `TcpServer`: its channel, failing accepts, its destructor.
8. `BufferProofs`: the invariants and `StreamIntact` without bursts, for all sizes.
9. `ChannelProofs`, `BatchProofs`, `TcpConnectionProofs` and `TcpStreamProofs`: the
   invariants, the action property and the refinement of a connection, for any number
   of threads and sizes.
10. `TcpServerProofs`: the invariants and the refinement of the server, for all sets of
    connections and numbers of loops.
11. The safety half of `ShutdownSends` and of the termination of `~tcp_server`, as
    invariants of `TcpConnection` and `TcpServer` with their proofs: a connection that is
    disconnecting and has not sent its FIN has a functor or bytes on the way that will
    make it, and a loop that is told to quit is awake or has its wakeup before it.
