----------------------------- MODULE TcpServer -----------------------------
(***************************************************************************)
(* A started tcp_server (net/tcp_server), its acceptor, its loops, and the *)
(* life of its tcp_connections: accepted on the main loop, handed to an io *)
(* loop, established there, closed there, removed from connections_ on the *)
(* main loop, destroyed on the io loop again.                              *)
(*                                                                         *)
(* A loop is taken from EventLoop.tla at its own level: a FIFO of functors *)
(* run in batches after the callbacks of the active channels.  Loops share *)
(* only these queues, so that one callback or one functor is one step.     *)
(* Users keep the tcp_connection_ptr that a callback hands them, and call  *)
(* send and shutdown from other threads; such a call is split where state_ *)
(* is read, where it is set, and where the functor is queued.              *)
(* A tcp_connection lives as long as a shared_ptr to it does: in           *)
(* connections_, with a user, or bound into a functor that still exists.   *)
(* Undefined behaviour (a step on a dead connection) goes no further.      *)
(***************************************************************************)
EXTENDS Naturals, Sequences, Functions, Channel

CONSTANTS
  Conns,            \* the connections that peers may open
  NumThreads,       \* number of io loops; 0: the main loop does it all
  Destroy,          \* TRUE: the server may be destroyed when its loop stops
  Users,            \* threads and functors of the user that keep pointers
  ForeignCalls,     \* what they call on other threads than the connection's
  MaxCalls,         \* bound: such calls by one user
  MaxReports        \* bound: calls of connection_callback_ for a connection

ASSUME ThreadsAssumption == NumThreads \in Nat
ASSUME DestroyAssumption == Destroy \in BOOLEAN
ASSUME ForeignAssumption == ForeignCalls \subseteq {"send", "shutdown"}
ASSUME BoundAssumption == MaxCalls \in Nat /\ MaxReports \in Nat /\ MaxReports >= 2

Main == 0
Loops == 0..NumThreads
IoLoops == 1..NumThreads

VARIABLES
  conn,             \* conn[c]: the tcp_connection and its socket
  connections_,     \* the map of the server, as the set of its values
  backlog,          \* connections the kernel has completed, not accepted
  accepted,         \* history: connections new_connection was called for
  next_,            \* event_loop_thread_pool::next_, the next io loop
  phase,            \* phase[l]: where loop l is
  active,           \* active[l]: the active channels still to be handled
  accept_active,    \* accept_channel_ is among those of the main loop
  queue,            \* queue[l]: pending_functors_
  batch,            \* batch[l]: the functors of do_pending_functions
  ran,              \* ran[l]: how many of the batch have been executed
  quit,             \* quit[l]: quit_
  dtor,             \* progress of ~tcp_server on the main thread
  joining,          \* the io loop that the destructor of the pool joins
  accept_channel_,  \* the channel of the acceptor, on the main loop
  reports,          \* history: reports[c], calls of connection_callback_
  holders,          \* holders[c]: the users that have a tcp_connection_ptr
  user,             \* user[c][u]: how far u is in a call on connection c
  calls             \* calls[u]: its calls so far

connVars == <<conn, connections_, backlog, accepted, next_, reports, holders>>
callVars == <<user, calls>>
loopVars == <<phase, active, accept_active, batch, ran>>
dtorVars == <<quit, dtor, joining, accept_channel_>>
vars == <<connVars, callVars, loopVars, queue, dtorVars>>

-----------------------------------------------------------------------------
\* What a functor does: it runs connection_established, remove_connection_in_loop
\* or connection_destroyed for a connection that it keeps alive, or send_in_loop
\* or shutdown_in_loop for one that it refers to by a raw this.
Functor(call, c) == [call |-> call, conn |-> c]
Functors(l) == Range(queue[l]) \cup Range(batch[l])
Waiting(l, call, c) ==
  \/ Functor(call, c) \in Range(queue[l])
  \/ \E i \in (ran[l] + 1)..Len(batch[l]) : batch[l][i] = Functor(call, c)

Raw == {"send", "shutdown"}

\* The server has a shared_ptr to c; and the use count of c is not zero.
Served(c) ==
  c \in connections_ \/ \E l \in Loops : \E f \in Functors(l) : f.conn = c /\ f.call \notin Raw
Held(c) == Served(c) \/ holders[c] # {}

\* The tcp_connection of c and the state of its socket: unread data, the
\* FIN and RST of the peer, SO_ERROR, and the shutdown of our own side.
NewConn(l) ==
  [loop |-> l, state |-> "connecting", ch |-> NewChannel, output |-> FALSE,
   unread |-> FALSE, fin |-> FALSE, rst |-> FALSE, err |-> FALSE, shut |-> FALSE]

\* acceptor::listen, which start() has run on the thread of the main loop.
Listening == enable_reading(NewChannel)

\* start() has published the io loops; they need not have come to loop() yet.
Init ==
  /\ conn = [c \in Conns |-> NewConn(Main)]
  /\ connections_ = {}
  /\ backlog = {}
  /\ accepted = {}
  /\ next_ = 0
  /\ phase = [l \in Loops |-> IF l = Main THEN "poll" ELSE "start"]
  /\ active = [l \in Loops |-> {}]
  /\ accept_active = FALSE
  /\ queue = [l \in Loops |-> <<>>]
  /\ batch = [l \in Loops |-> <<>>]
  /\ ran = [l \in Loops |-> 0]
  /\ quit = [l \in Loops |-> FALSE]
  /\ dtor = "no"
  /\ joining = 1
  /\ accept_channel_ = Listening
  /\ reports = [c \in Conns |-> 0]
  /\ holders = [c \in Conns |-> {}]
  /\ user = [c \in Conns |-> [u \in Users |-> "idle"]]
  /\ calls = [u \in Users |-> 0]

-----------------------------------------------------------------------------
(* The peers.                                                              *)

Reachable(c) == (c \in backlog \/ (c \in accepted /\ Held(c))) /\ ~conn[c].rst

PeerConnect(c) ==
  /\ c \notin backlog \cup accepted
  /\ backlog' = backlog \cup {c}
  /\ UNCHANGED <<conn, connections_, accepted, next_, reports, holders, callVars, loopVars,
                 queue, dtorVars>>

Peer(c, r) ==
  /\ Reachable(c)
  /\ conn' = [conn EXCEPT ![c] = r]
  /\ UNCHANGED <<connections_, backlog, accepted, next_, reports, holders, callVars, loopVars,
                 queue, dtorVars>>

PeerData(c) == ~conn[c].fin /\ ~conn[c].unread /\ Peer(c, [conn[c] EXCEPT !.unread = TRUE])
PeerFin(c) == ~conn[c].fin /\ Peer(c, [conn[c] EXCEPT !.fin = TRUE])
PeerRst(c) == Peer(c, [conn[c] EXCEPT !.rst = TRUE, !.err = TRUE])

-----------------------------------------------------------------------------
(* tcp_connection on the thread of its loop, as operators on its record.   *)
(* Where the outcome is the kernel's or the user's, it is a set of records.*)

\* The part of send_in_loop that did not fit goes to output_buffer_.
Buffered(r) ==
  [r EXCEPT !.output = TRUE, !.ch = IF is_writing(@) THEN @ ELSE enable_writing(@)]

WriteFails(r) == r.rst \/ r.shut

\* A slip: only a closed connection gives up, not one that is down.
SendInLoop_Always(r) ==
  IF is_writing(r.ch) \/ r.output THEN {Buffered(r)}
  ELSE IF WriteFails(r) THEN {[r EXCEPT !.err = FALSE]} ELSE {r, Buffered(r)}

\* send_in_loop.  The first write takes all or a part, or fails.
SendInLoop(r) ==
  IF r.state = "disconnected" THEN {r}
  ELSE IF is_writing(r.ch) \/ r.output THEN {Buffered(r)}
       ELSE IF WriteFails(r) THEN {[r EXCEPT !.err = FALSE]} ELSE {r, Buffered(r)}

\* send and shutdown on the thread of the loop.
Send(r) == IF r.state = "connected" THEN SendInLoop(r) ELSE {r}

\* A slip: the write side is closed on top of buffered output.
ShutdownInLoop_Now(r) == [r EXCEPT !.shut = TRUE]

ShutdownInLoop(r) == IF is_writing(r.ch) THEN r ELSE [r EXCEPT !.shut = TRUE]

Shutdown(r) ==
  IF r.state = "connected"
  THEN ShutdownInLoop([r EXCEPT !.state = "disconnecting"])
  ELSE r

\* What the user may do in a callback of a live connection: send, shut down.
Callback(r) == LET sent == {r} \cup Send(r) IN sent \cup {Shutdown(x) : x \in sent}

ConnectionEstablished(r) ==
  Callback([r EXCEPT !.state = "connected", !.ch = enable_reading(@)])

ConnectionDestroyed(r) ==
  LET down == IF r.state = "connected"
              THEN [r EXCEPT !.state = "disconnected", !.ch = disable_all(@)] ELSE r
  IN [down EXCEPT !.ch = RemoveChannel(@)]

\* handle_error, and every failing read or write: SO_ERROR is taken away.
HandleError(r) == [r EXCEPT !.err = FALSE]

\* The record part of handle_close; the connection callback finds the
\* connection disconnected, so that send and shutdown do nothing in it.
HandleClose(r) == [r EXCEPT !.state = "disconnected", !.ch = disable_all(@)]

\* A slip: a read of zero bytes is taken for an error.
EndOfStream_IsError(r) == FALSE

\* The read returns zero bytes: no data, no error, and the peer is done.
EndOfStream(r) == ~r.unread /\ ~r.err /\ (r.fin \/ r.rst)

HandleRead(r) ==
  IF r.unread THEN Callback([r EXCEPT !.unread = FALSE])
  ELSE IF EndOfStream(r) THEN {HandleClose(r)} ELSE {HandleError(r)}

Flushed(r) ==
  LET idle == [r EXCEPT !.output = FALSE, !.ch = disable_writing(@)]
  IN IF r.state = "disconnecting" THEN ShutdownInLoop(idle) ELSE idle

HandleWrite(r) ==
  IF ~is_writing(r.ch) THEN {r}
  ELSE IF WriteFails(r) THEN {HandleError(r)} ELSE {r, Flushed(r)}

\* What epoll reports of a connection: hangup and error whatever its interest
\* is, the rest by interest; room: the send buffer of the socket has space.
Reported(r, room) ==
  IF ~r.ch.on THEN {}
  ELSE {e \in Reports :
          CASE e = "in"  -> e \in r.ch.mask /\ (r.unread \/ r.fin \/ r.rst)
            [] e = "out" -> e \in r.ch.mask /\ (room \/ WriteFails(r))
            [] e = "hup" -> r.rst \/ (r.fin /\ r.shut)
            [] e = "err" -> r.err}

\* channel::handle_event_with_guard up to the close callback, and whether it
\* is called: for a hangup without data, or at the end of the stream.
AfterError(r, rev) == IF "err" \in rev THEN HandleError(r) ELSE r

Closing(r, rev) ==
  \/ "hup" \in rev /\ "in" \notin rev
  \/ "in" \in rev /\ EndOfStream(AfterError(r, rev))

HandleEventWithGuard(r, rev) ==
  LET hung == IF "hup" \in rev /\ "in" \notin rev THEN HandleClose(r) ELSE r
      read == IF "in" \in rev THEN HandleRead(AfterError(hung, rev))
              ELSE {AfterError(hung, rev)}
  IN IF "out" \in rev THEN UNION {HandleWrite(x) : x \in read} ELSE read

-----------------------------------------------------------------------------
(* The loops.                                                              *)

\* A callback for c runs: it may give the pointer to any of the users.
Given(c) == \E us \in SUBSET Users : holders' = [holders EXCEPT ![c] = @ \cup us]

ConnectionCallback(c) == Given(c) /\ reports' = [reports EXCEPT ![c] = @ + 1]

\* thread_func calls loop(), where quit_ = false erases a quit() that came before;
\* its test of quit_ is that of DrainEnd.
LoopEnter(l) ==
  /\ phase[l] = "start"
  /\ phase' = [phase EXCEPT ![l] = "run"]
  /\ quit' = [quit EXCEPT ![l] = FALSE]
  /\ UNCHANGED <<connVars, callVars, active, accept_active, batch, ran, queue, dtor, joining,
                 accept_channel_>>

AcceptReady(l) == l = Main /\ backlog # {} /\ "in" \in accept_channel_.mask

ReadyChannels(l, room) ==
  {[conn |-> c, rev |-> Reported(conn[c], c \in room)] :
     c \in {d \in Conns : /\ conn[d].loop = l
                          /\ reports[d] < MaxReports
                          /\ Reported(conn[d], d \in room) # {}}}

\* poll_wait returns with events, or because somebody wrote the eventfd.  Its
\* array is taken to be long enough; it starts with 16 events and grows.
Poll(l) ==
  /\ phase[l] = "poll"
  /\ \E room \in SUBSET {c \in Conns : conn[c].loop = l /\ "out" \in conn[c].ch.mask} :
       /\ \/ ReadyChannels(l, room) # {}
          \/ AcceptReady(l)
          \/ queue[l] # <<>>
          \/ quit[l]
       /\ active' = [active EXCEPT ![l] = ReadyChannels(l, room)]
  /\ accept_active' = IF AcceptReady(l) THEN TRUE ELSE accept_active
  /\ phase' = [phase EXCEPT ![l] = "handle"]
  /\ UNCHANGED <<connVars, callVars, batch, ran, queue, dtorVars>>

\* acceptor::handle_read, up to the result of accept.
AcceptorHandleRead ==
  /\ phase[Main] = "handle"
  /\ accept_active
  /\ accept_active' = FALSE
  /\ UNCHANGED <<callVars, phase, active, batch, ran, dtorVars>>

\* A slip: the new connection is not entered into the map.
NewConnection_NotKept(c) ==
  LET l == IF NumThreads = 0 THEN Main ELSE next_ + 1
      r == [conn[c] EXCEPT !.loop = l]
  IN /\ next_' = IF NumThreads = 0 THEN next_ ELSE (next_ + 1) % NumThreads
     /\ IF l = Main
        THEN /\ \E up \in ConnectionEstablished(r) : conn' = [conn EXCEPT ![c] = up]
             /\ ConnectionCallback(c)
             /\ UNCHANGED <<connections_, queue>>
        ELSE /\ conn' = [conn EXCEPT ![c] = r]
             /\ queue' = [queue EXCEPT ![l] = Append(@, Functor("established", c))]
             /\ UNCHANGED <<connections_, reports, holders>>

\* new_connection: round robin over the io loops.
NewConnection(c) ==
  LET l == IF NumThreads = 0 THEN Main ELSE next_ + 1
      r == [conn[c] EXCEPT !.loop = l]
  IN /\ connections_' = connections_ \cup {c}
     /\ next_' = IF NumThreads = 0 THEN next_ ELSE (next_ + 1) % NumThreads
     /\ IF l = Main
        THEN /\ \E up \in ConnectionEstablished(r) : conn' = [conn EXCEPT ![c] = up]
             /\ ConnectionCallback(c)
             /\ UNCHANGED queue
        ELSE /\ conn' = [conn EXCEPT ![c] = r]
             /\ queue' = [queue EXCEPT ![l] = Append(@, Functor("established", c))]
             /\ UNCHANGED <<reports, holders>>

Accept(c) ==
  /\ AcceptorHandleRead
  /\ c \in backlog
  /\ backlog' = backlog \ {c}
  /\ accepted' = accepted \cup {c}
  /\ NewConnection(c)

\* accept fails.  Out of descriptors (EMFILE), it leaves the backlog as it is,
\* and the listening socket readable.
AcceptFails ==
  /\ AcceptorHandleRead
  /\ UNCHANGED <<connVars, queue>>

\* It fails because this peer has given up; the peer may try again.
AcceptAborted(c) ==
  /\ AcceptorHandleRead
  /\ c \in backlog
  /\ conn[c].rst
  /\ backlog' = backlog \ {c}
  /\ conn' = [conn EXCEPT ![c] = NewConn(Main)]
  /\ UNCHANGED <<connections_, accepted, next_, reports, holders, queue>>

\* A slip: connection_destroyed is queued on the loop that runs this.
RemoveConnectionInLoop_Here(c) ==
  /\ connections_' = connections_ \ {c}
  /\ queue' = [queue EXCEPT ![Main] = Append(@, Functor("destroyed", c))]

\* A slip: the entry stays in the map.
RemoveConnectionInLoop_KeepEntry(c) ==
  /\ queue' = [queue EXCEPT ![conn[c].loop] = Append(@, Functor("destroyed", c))]
  /\ UNCHANGED connections_

\* remove_connection_in_loop, on the main loop.
RemoveConnectionInLoop(c) ==
  /\ connections_' = connections_ \ {c}
  /\ queue' = [queue EXCEPT ![conn[c].loop] = Append(@, Functor("destroyed", c))]

\* remove_connection, called on loop l by handle_close.
RemoveConnection(l, c) ==
  IF l = Main
  THEN RemoveConnectionInLoop(c)
  ELSE /\ queue' = [queue EXCEPT ![Main] = Append(@, Functor("remove", c))]
       /\ UNCHANGED connections_

\* channel::handle_event of one active channel.
HandleEvent(l, c) ==
  /\ phase[l] = "handle"
  /\ Held(c)
  /\ \E a \in active[l] :
       /\ a.conn = c
       /\ active' = [active EXCEPT ![l] = @ \ {a}]
       /\ \E r \in HandleEventWithGuard(conn[c], a.rev) : conn' = [conn EXCEPT ![c] = r]
       /\ IF Closing(conn[c], a.rev)
          THEN RemoveConnection(l, c) /\ ConnectionCallback(c)
          ELSE /\ IF "in" \in a.rev /\ conn[c].unread THEN Given(c) ELSE UNCHANGED holders
               /\ UNCHANGED <<queue, connections_, reports>>
  /\ UNCHANGED <<backlog, accepted, next_, callVars, phase, accept_active, batch, ran,
                 dtorVars>>

DrainBegin(l) ==
  /\ phase[l] = "handle"
  /\ active[l] = {}
  /\ l = Main => ~accept_active
  /\ batch' = [batch EXCEPT ![l] = queue[l]]
  /\ queue' = [queue EXCEPT ![l] = <<>>]
  /\ phase' = [phase EXCEPT ![l] = "run"]
  /\ UNCHANGED <<connVars, callVars, active, accept_active, ran, dtorVars>>

\* The next functor of the batch is this one; it stays in the batch.
Runs(l, call, c) ==
  /\ phase[l] = "run"
  /\ ran[l] < Len(batch[l])
  /\ batch[l][ran[l] + 1] = Functor(call, c)
  /\ ran' = [ran EXCEPT ![l] = @ + 1]
  /\ UNCHANGED <<backlog, accepted, next_, callVars, phase, active, accept_active, batch,
                 dtorVars>>

RunEstablished(l, c) ==
  /\ Runs(l, "established", c)
  /\ \E up \in ConnectionEstablished(conn[c]) : conn' = [conn EXCEPT ![c] = up]
  /\ ConnectionCallback(c)
  /\ UNCHANGED <<connections_, queue>>

RunRemove(l, c) ==
  /\ Runs(l, "remove", c)
  /\ RemoveConnectionInLoop(c)
  /\ UNCHANGED <<conn, reports, holders>>

\* connection_destroyed, with its report to the user.
Destroyed(c) ==
  /\ conn' = [conn EXCEPT ![c] = ConnectionDestroyed(@)]
  /\ IF conn[c].state = "connected" THEN ConnectionCallback(c)
     ELSE UNCHANGED <<reports, holders>>

RunDestroyed(l, c) ==
  /\ Runs(l, "destroyed", c)
  /\ Destroyed(c)
  /\ UNCHANGED <<connections_, queue>>

\* The raw functors of calls from other threads.
RunSend(l, c) ==
  /\ Runs(l, "send", c)
  /\ \E r \in SendInLoop(conn[c]) : conn' = [conn EXCEPT ![c] = r]
  /\ UNCHANGED <<connections_, reports, holders, queue>>

RunShutdown(l, c) ==
  /\ Runs(l, "shutdown", c)
  /\ conn' = [conn EXCEPT ![c] = ShutdownInLoop(@)]
  /\ UNCHANGED <<connections_, reports, holders, queue>>

\* A write-complete or high-water callback, or a functor of the user, which all
\* bind a tcp_connection_ptr, runs as one of the batch.
RunCallback(l, c) ==
  /\ phase[l] = "run"
  /\ conn[c].loop = l
  /\ holders[c] # {}
  /\ \E r \in Callback(conn[c]) : conn' = [conn EXCEPT ![c] = r]
  /\ UNCHANGED <<connections_, backlog, accepted, next_, reports, holders, callVars, loopVars,
                 queue, dtorVars>>

\* Slips: the batch is forgotten but not its count; quit_ is not looked at.
DrainEnd_KeepRan(l) ==
  /\ phase[l] = "run"
  /\ ran[l] = Len(batch[l])
  /\ batch' = [batch EXCEPT ![l] = <<>>]
  /\ phase' = [phase EXCEPT ![l] = IF quit[l] THEN "exited" ELSE "poll"]
  /\ UNCHANGED <<connVars, callVars, active, accept_active, ran, queue, dtorVars>>

DrainEnd_IgnoreQuit(l) ==
  /\ phase[l] = "run"
  /\ ran[l] = Len(batch[l])
  /\ batch' = [batch EXCEPT ![l] = <<>>]
  /\ ran' = [ran EXCEPT ![l] = 0]
  /\ phase' = [phase EXCEPT ![l] = "poll"]
  /\ UNCHANGED <<connVars, callVars, active, accept_active, queue, dtorVars>>

\* The batch dies with do_pending_functions.  A loop that is to quit dies
\* with it, as an object on the stack of thread_func, and so does its queue.
DrainEnd(l) ==
  /\ phase[l] = "run"
  /\ ran[l] = Len(batch[l])
  /\ batch' = [batch EXCEPT ![l] = <<>>]
  /\ ran' = [ran EXCEPT ![l] = 0]
  /\ phase' = [phase EXCEPT ![l] = IF quit[l] THEN "exited" ELSE "poll"]
  /\ queue' = IF quit[l] THEN [queue EXCEPT ![l] = <<>>] ELSE queue
  /\ UNCHANGED <<connVars, callVars, active, accept_active, dtorVars>>

-----------------------------------------------------------------------------
(* The users on other threads, as in TcpConnection.tla.  A call that does  *)
(* not find state_ k_connected does nothing, and is left out.              *)

Goes(u, c, from, to) ==
  /\ user[c][u] = from
  /\ user' = [user EXCEPT ![c][u] = to]
  /\ UNCHANGED <<connections_, backlog, accepted, next_, reports, holders, loopVars, dtorVars>>

\* The test of state_ at the head of send and of shutdown.
Call(u, c, call) ==
  /\ call \in ForeignCalls
  /\ Goes(u, c, "idle", call)
  /\ \A d \in Conns : user[d][u] = "idle"
  /\ u \in holders[c]
  /\ conn[c].state = "connected"
  /\ calls[u] < MaxCalls
  /\ calls' = [calls EXCEPT ![u] = @ + 1]
  /\ UNCHANGED <<conn, queue>>

ShutdownSet(u, c) ==
  /\ Goes(u, c, "shutdown", "set")
  /\ conn' = [conn EXCEPT ![c].state = "disconnecting"]
  /\ UNCHANGED <<calls, queue>>

\* queue_in_loop on the loop of c, which is gone if its thread has ended.
Queues(u, c, from, call) ==
  /\ Goes(u, c, from, "idle")
  /\ conn[c].loop # Main => phase[conn[c].loop] # "exited"
  /\ queue' = [queue EXCEPT ![conn[c].loop] = Append(@, Functor(call, c))]
  /\ UNCHANGED <<conn, calls>>

SendQueue(u, c) == Queues(u, c, "send", "send")
ShutdownQueue(u, c) == Queues(u, c, "set", "shutdown")

\* A user lets go of its pointer.  It is careful (TcpConnection.tla shows what
\* happens otherwise): the last one waits for the functors of its calls.
Release(u, c) ==
  /\ u \in holders[c]
  /\ user[c][u] = "idle"
  /\ holders[c] = {u} => \A call \in Raw : ~Waiting(conn[c].loop, call, c)
  /\ holders' = [holders EXCEPT ![c] = @ \ {u}]
  /\ UNCHANGED <<conn, connections_, backlog, accepted, next_, reports, callVars, loopVars,
                 queue, dtorVars>>

-----------------------------------------------------------------------------
(* ~tcp_server on the main thread, after the main loop has returned.       *)

DtorBegin ==
  /\ Destroy
  /\ dtor = "no"
  /\ phase[Main] = "poll"
  /\ phase' = [phase EXCEPT ![Main] = "exited"]
  /\ dtor' = "conns"
  /\ UNCHANGED <<connVars, callVars, active, accept_active, batch, ran, queue, quit, joining,
                 accept_channel_>>

\* One round of the for loop over connections_.
DtorConn(c) ==
  /\ dtor = "conns"
  /\ c \in connections_
  /\ connections_' = connections_ \ {c}
  /\ IF conn[c].loop = Main
     THEN Destroyed(c) /\ UNCHANGED queue
     ELSE /\ queue' = [queue EXCEPT ![conn[c].loop] = Append(@, Functor("destroyed", c))]
          /\ UNCHANGED <<conn, reports, holders>>
  /\ UNCHANGED <<backlog, accepted, next_, callVars, loopVars, dtorVars>>

DtorMembers ==
  /\ dtor = "conns"
  /\ connections_ = {}
  /\ dtor' = "pool"
  /\ UNCHANGED <<connVars, callVars, loopVars, queue, quit, joining, accept_channel_>>

\* ~event_loop_thread for the loops in turn: quit, then join.
DtorQuit ==
  /\ dtor = "pool"
  /\ joining \in IoLoops
  /\ quit' = [quit EXCEPT ![joining] = TRUE]
  /\ dtor' = "join"
  /\ UNCHANGED <<connVars, callVars, loopVars, queue, joining, accept_channel_>>

DtorJoin ==
  /\ dtor = "join"
  /\ phase[joining] = "exited"
  /\ joining' = joining + 1
  /\ dtor' = "pool"
  /\ UNCHANGED <<connVars, callVars, loopVars, queue, quit, accept_channel_>>

\* ~acceptor.
AcceptorDtor == accept_channel_' = RemoveChannel(disable_all(accept_channel_))

\* acceptor_ is declared before thread_pool_, and so destroyed after it.
DtorEnd ==
  /\ dtor = "pool"
  /\ joining > NumThreads
  /\ AcceptorDtor
  /\ dtor' = "done"
  /\ UNCHANGED <<connVars, callVars, loopVars, queue, quit, joining>>

-----------------------------------------------------------------------------
PeerStep(c) == PeerConnect(c) \/ PeerData(c) \/ PeerFin(c) \/ PeerRst(c)

LoopStep(l) ==
  \/ LoopEnter(l)
  \/ Poll(l)
  \/ DrainBegin(l)
  \/ DrainEnd(l)
  \/ \E c \in Conns : \/ HandleEvent(l, c)
                      \/ RunEstablished(l, c)
                      \/ RunRemove(l, c)
                      \/ RunDestroyed(l, c)
                      \/ RunSend(l, c)
                      \/ RunShutdown(l, c)
                      \/ (l = Main /\ (Accept(c) \/ AcceptAborted(c)))
  \/ (l = Main /\ AcceptFails)

UserStep(u, c) ==
  \/ \E call \in Raw : Call(u, c, call)
  \/ ShutdownSet(u, c)
  \/ SendQueue(u, c)
  \/ ShutdownQueue(u, c)
  \/ Release(u, c)

DtorStep ==
  \/ \E c \in Conns : DtorConn(c)
  \/ DtorMembers
  \/ DtorQuit
  \/ DtorJoin
  \/ DtorEnd

Next ==
  \/ \E c \in Conns : PeerStep(c)
  \/ \E u \in Users, c \in Conns : UserStep(u, c)
  \/ \E l \in Loops : LoopStep(l) \/ \E c \in Conns : RunCallback(l, c)
  \/ DtorBegin
  \/ DtorStep

Spec == Init /\ [][Next]_vars

\* Every loop goes on: poll_wait is level triggered, and EventLoop.tla shows
\* that a functor in the queue is not slept on.  A thread in a destructor goes
\* on too.  The peers, the users and the decision to destroy the server are free.
Fairness ==
  /\ \A l \in Loops : WF_vars(LoopStep(l))
  /\ WF_vars(DtorStep)

FairSpec == Spec /\ Fairness

-----------------------------------------------------------------------------
ConnType ==
  [loop : Loops, state : {"connecting", "connected", "disconnecting", "disconnected"},
   ch : ChannelType, output : BOOLEAN, unread : BOOLEAN, fin : BOOLEAN,
   rst : BOOLEAN, err : BOOLEAN, shut : BOOLEAN]

FunctorType == [call : {"established", "remove", "destroyed"} \cup Raw, conn : Conns]

\* Types.
TypeOK ==
  /\ conn \in [Conns -> ConnType]
  /\ connections_ \subseteq accepted
  /\ backlog \subseteq Conns \ accepted
  /\ accepted \subseteq Conns
  /\ next_ \in 0..NumThreads
  /\ phase \in [Loops -> {"start", "poll", "handle", "run", "exited"}]
  /\ \A l \in Loops : active[l] \subseteq [conn : Conns, rev : SUBSET Reports]
  /\ accept_active \in BOOLEAN
  /\ \A l \in Loops : Functors(l) \subseteq FunctorType /\ ran[l] \in 0..Len(batch[l])
  /\ quit \in [Loops -> BOOLEAN]
  /\ dtor \in {"no", "conns", "pool", "join", "done"}
  /\ joining \in 1..(NumThreads + 1)
  /\ accept_channel_ \in ChannelType
  /\ reports \in [Conns -> 0..MaxReports]
  /\ holders \in [Conns -> SUBSET Users]
  /\ user \in [Conns -> [Users -> {"idle", "send", "shutdown", "set"}]]
  /\ calls \in [Users -> 0..MaxCalls]

\* "A channel must call event_loop::remove_channel() before it is destroyed,
\* lest pointers dangle" (README.md:9): while epoll holds the channel of an
\* accepted connection, a shared_ptr still holds the connection; and the one of
\* the acceptor is gone with the server.
RegisteredAlive ==
  /\ \A c \in accepted : conn[c].ch.on => Held(c)
  /\ dtor = "done" => ~accept_channel_.on

\* The loop iterates over raw channel pointers: whatever functors the other
\* loops run meanwhile, each of them points into a live, registered connection
\* of this very loop when its turn comes.
ActiveAlive ==
  \A l \in Loops : \A a \in active[l] :
    Held(a.conn) /\ conn[a.conn].ch.on /\ conn[a.conn].loop = l

\* connection_established and connection_destroyed, which touch the poller,
\* are only ever handed to the loop of their connection, and the map of the
\* server only to the main loop (poller.h:31, tcp_server.h:67).
OwnThread ==
  \A l \in Loops : \A f \in Functors(l) :
    IF f.call = "remove" THEN l = Main ELSE l = conn[f.conn].loop

\* No epoll_ctl fails in a way that ends the process.
NoFatal == ~accept_channel_.fatal /\ \A c \in Conns : ~conn[c].ch.fatal

\* A closed connection is never stranded: as long as it is in the map its
\* removal is on its way to the main loop, and once it is out of the map its
\* destruction is on its way to its own loop until epoll has let go of it.
CloseInFlight ==
  \A c \in accepted :
    /\ reports[c] > 1 /\ c \in connections_ => Waiting(Main, "remove", c)
    /\ c \notin connections_ /\ conn[c].ch.on => Waiting(conn[c].loop, "destroyed", c)

\* The write side is shut down on top of buffered output only when the user has
\* been told that the connection is down, whatever order the calls of its
\* threads, the write events and the errors come in.
NoDataAfterFin == \A c \in Conns : conn[c].shut /\ conn[c].output => reports[c] > 1

\* The user hears of the end of a connection once.
DownOnce == \A c \in Conns : reports[c] <= 2

\* A connection is reported UP, then DOWN, and is freed only after that.  DOWN is
\* reported once by a server without io loops.
LifeOf(c) ==
  CASE c \notin accepted -> "none"
    [] c \in accepted /\ ~Held(c) -> "freed"
    [] c \in accepted /\ Held(c) ->
         IF reports[c] = 0 THEN "accepted" ELSE IF reports[c] = 1 THEN "up" ELSE "down"

Life == INSTANCE ConnectionLife
  WITH Repeats <- NumThreads > 0,
       life <- [c \in Conns |-> LifeOf(c)],
       downs <- [c \in Conns |-> IF reports[c] > 1 THEN reports[c] - 1 ELSE 0]

LivesInOrder == Life!Spec

\* The server lets go of a connection whose peer has closed or reset it, unless
\* it is itself being destroyed, however often accept fails meanwhile.
PeerCloseFrees ==
  \A c \in Conns :
    (c \in accepted /\ (conn[c].fin \/ conn[c].rst)) ~> (~Served(c) \/ dtor # "no")

\* The destructor of the server comes to its end, if every io loop has come to
\* loop() by then.  EventLoopThreadPool.tla shows that it need not otherwise.
DtorTerminates ==
  (dtor = "conns" /\ \A l \in IoLoops : phase[l] # "start") ~> dtor = "done"
=============================================================================
