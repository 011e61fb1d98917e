---------------------------- MODULE TcpConnection ----------------------------
(***************************************************************************)
(* The output side of one established tcp_connection (net/tcp_connection), *)
(* with the threads of the user that call send and shutdown on it while    *)
(* its loop writes, closes and destroys it.  TcpServer.tla has the loops   *)
(* and the server around it and takes a callback as one step; here a call  *)
(* from another thread is split where state_ is read, where it is set, and *)
(* where the functor is queued, and every callback of an event is a step.  *)
(*                                                                         *)
(* Functors bound by send and shutdown hold a raw this, the others a       *)
(* shared_ptr.  The string given to send is taken to live until its        *)
(* functor has run.                                                        *)
(***************************************************************************)
EXTENDS Naturals, Sequences, Functions, FiniteSets, Channel

CONSTANTS
  Users,             \* the threads that hold a tcp_connection_ptr
  Careful,           \* TRUE: they keep it until their functors have run
  MsgLen,            \* bytes of a message
  SendBuffer,        \* bytes of the kernel's send buffer
  high_water_mark_,
  MaxCalls,          \* bound: calls of send and shutdown by one user
  MaxEchoes,         \* bound: messages sent by callbacks on the loop
  MaxCloses          \* bound: calls of handle_close

ASSUME BoundAssumption ==
  /\ MsgLen \in Nat \ {0}
  /\ SendBuffer \in Nat \ {0}
  /\ high_water_mark_ \in Nat \ {0}
  /\ MaxCalls \in Nat
  /\ MaxEchoes \in Nat
  /\ MaxCloses \in Nat \ {0}
ASSUME UsersAssumption == "loop" \notin Users
ASSUME CarefulAssumption == Careful \in BOOLEAN

VARIABLES
  conn,              \* the tcp_connection, its socket, and its loop's queue
  phase,             \* where the loop is: poll, handle, run
  revents_,          \* the events still to be handled
  batch,             \* the functors of do_pending_functions
  ran,               \* how many of them have been executed
  user,              \* user[u]: the call u is in the middle of
  calls,             \* calls[u]: its calls so far
  holders,           \* the users that still have their shared_ptr
  server,            \* the server: has it in connections_, erased it, is gone
  owed               \* connection_destroyed the server has yet to queue

loopVars == <<phase, revents_, batch, ran>>
userVars == <<user, calls, holders>>
serverVars == <<server, owed>>
vars == <<conn, loopVars, userVars, serverVars>>

-----------------------------------------------------------------------------
Functor(call, from, no) == [call |-> call, from |-> from, no |-> no]
LoopFunctor(call) == Functor(call, "loop", 0)
\* The functors that do not keep the connection alive.
Raw == {"send", "shutdown"}

\* Functors whose vector still exists, executed or not.
Functors == Range(conn.queue) \cup Range(batch)

\* The use count of the connection is not zero.
Held ==
  \/ server = "has"
  \/ owed > 0
  \/ holders # {}
  \/ \E f \in Functors : f.call \notin Raw

Message(from, no) == [from |-> from, no |-> no]
Bytes(from, no) == [i \in 1..MsgLen |-> Message(from, no)]
Least(m, n) == IF m < n THEN m ELSE n

\* told and highs are history: the wire when the last write-complete callback
\* was queued, and the number of high-water callbacks.
Established ==
  [state |-> "connected", ch |-> enable_reading(NewChannel), output |-> <<>>,
   queue |-> <<>>, room |-> SendBuffer, unread |-> FALSE, fin |-> FALSE,
   rst |-> FALSE, err |-> FALSE, shut |-> FALSE, wire |-> <<>>, told |-> 0,
   highs |-> 0, echoes |-> 0, closes |-> 0]

Init ==
  /\ conn = Established
  /\ phase = "poll"
  /\ revents_ = {}
  /\ batch = <<>>
  /\ ran = 0
  /\ user = [u \in Users |-> "idle"]
  /\ calls = [u \in Users |-> 0]
  /\ holders = Users
  /\ server = "has"
  /\ owed = 0

-----------------------------------------------------------------------------
(* tcp_connection on the thread of its loop, as operators on its record.   *)

Queue(r, f) == [r EXCEPT !.queue = Append(@, f)]

\* The socket takes the first n bytes of data, if any.
Takes(r, data, n) == [r EXCEPT !.wire = @ \o SubSeq(data, 1, n), !.room = @ - n]
WriteFails(r) == r.rst \/ r.shut

\* A slip: only handle_write reports completion.
Complete_NotTold(r) == Queue(r, LoopFunctor("written"))

Complete(r) == [Queue(r, LoopFunctor("written")) EXCEPT !.told = Len(r.wire)]

\* A slip: the mark is compared with the new length alone.
CrossesMark_Above(old, new) == new >= high_water_mark_

CrossesMark(old, new) == old < high_water_mark_ /\ new >= high_water_mark_

\* A slip: the write event is never asked for.
Watched_Never(ch) == ch

Watched(ch) == IF is_writing(ch) THEN ch ELSE enable_writing(ch)

\* What a write left over goes to output_buffer_.
Buffered(r, rest) ==
  LET old == Len(r.output)
      warned == IF CrossesMark(old, old + Len(rest))
                THEN [Queue(r, LoopFunctor("highwater")) EXCEPT !.highs = @ + 1] ELSE r
  IN [warned EXCEPT !.output = @ \o rest, !.ch = Watched(@)]

\* A slip: a write is tried at once whatever waits in the buffer.
Direct_Always(r) == TRUE

\* The first write is done at once only if nothing waits in front of it.
Direct(r) == ~is_writing(r.ch) /\ r.output = <<>>

SendInLoop(r, data) ==
  LET n == IF Direct(r) THEN Least(Len(data), r.room) ELSE 0
      rest == SubSeq(data, n + 1, Len(data))
      sent == Takes(r, data, n)
  IN IF r.state = "disconnected" THEN r
     ELSE IF Direct(r) /\ WriteFails(r) THEN [r EXCEPT !.err = FALSE]
          ELSE IF rest = <<>> THEN Complete(sent) ELSE Buffered(sent, rest)

ShutdownInLoop(r) == IF is_writing(r.ch) THEN r ELSE [r EXCEPT !.shut = TRUE]

\* What the user may do in a callback on the loop: send, shut down.
Send(r) ==
  IF r.state = "connected" /\ r.echoes < MaxEchoes
  THEN SendInLoop([r EXCEPT !.echoes = @ + 1], Bytes("loop", r.echoes + 1)) ELSE r
Shutdown(r) ==
  IF r.state = "connected" THEN ShutdownInLoop([r EXCEPT !.state = "disconnecting"]) ELSE r
Callback(r) == LET sent == {r, Send(r)} IN sent \cup {Shutdown(x) : x \in sent}

\* In the connection callback of these two, state_ is no longer k_connected.
HandleClose(r) ==
  [r EXCEPT !.state = "disconnected", !.ch = disable_all(@), !.closes = @ + 1]

ConnectionDestroyed(r) ==
  LET down == IF r.state = "connected"
              THEN [r EXCEPT !.state = "disconnected", !.ch = disable_all(@)] ELSE r
  IN [down EXCEPT !.ch = RemoveChannel(@)]

\* A slip: the write event stays on when the buffer is empty.
Emptied_StillWriting(r) == Complete(r)

Emptied(r) == Complete([r EXCEPT !.ch = disable_writing(@)])

\* A slip: a shutdown that waited for the output is forgotten.
Flushed_NoFin(r) == Emptied(r)

Flushed(r) == IF r.state = "disconnecting" THEN ShutdownInLoop(Emptied(r)) ELSE Emptied(r)

HandleWrite(r) ==
  LET n == Least(Len(r.output), r.room)
      left == [Takes(r, r.output, n) EXCEPT !.output = SubSeq(@, n + 1, Len(@))]
  IN IF ~is_writing(r.ch) THEN r
     ELSE IF WriteFails(r) THEN [r EXCEPT !.err = FALSE]
          ELSE IF n > 0 /\ left.output = <<>> THEN Flushed(left) ELSE left

EndOfStream(r) == ~r.unread /\ ~r.err /\ (r.fin \/ r.rst)

\* What epoll reports of the descriptor, which is closed with the connection.
Reported(r) ==
  IF ~r.ch.on \/ ~Held THEN {}
  ELSE {e \in Reports :
          CASE e = "in"  -> e \in r.ch.mask /\ (r.unread \/ r.fin \/ r.rst)
            [] e = "out" -> e \in r.ch.mask /\ (r.room > 0 \/ WriteFails(r))
            [] e = "hup" -> r.rst \/ (r.fin /\ r.shut)
            [] e = "err" -> r.err}

-----------------------------------------------------------------------------
(* The loop.  After MaxCloses calls of handle_close the descriptor is mute. *)

Poll ==
  /\ phase = "poll"
  /\ revents_' = IF conn.closes < MaxCloses THEN Reported(conn) ELSE {}
  /\ revents_' # {} \/ conn.queue # <<>>
  /\ phase' = "handle"
  /\ UNCHANGED <<conn, batch, ran, userVars, serverVars>>

\* One callback of handle_event_with_guard, in its order.
Handles(event, before) ==
  /\ phase = "handle"
  /\ event \in revents_
  /\ revents_ \cap before = {}
  /\ revents_' = revents_ \ {event}
  /\ UNCHANGED <<phase, batch, ran, userVars, server>>

Closes(r) == conn' = HandleClose(r) /\ owed' = owed + 1

EventHup ==
  /\ Handles("hup", {})
  /\ IF "in" \in revents_ THEN UNCHANGED <<conn, owed>> ELSE Closes(conn)

EventErr ==
  /\ Handles("err", {"hup"})
  /\ conn' = [conn EXCEPT !.err = FALSE]
  /\ UNCHANGED owed

EventIn ==
  /\ Handles("in", {"hup", "err"})
  /\ IF EndOfStream(conn) THEN Closes(conn)
     ELSE /\ conn' \in IF conn.unread THEN Callback([conn EXCEPT !.unread = FALSE])
                       ELSE {[conn EXCEPT !.err = FALSE]}
          /\ UNCHANGED owed

EventOut ==
  /\ Handles("out", {"hup", "err", "in"})
  /\ conn' = HandleWrite(conn)
  /\ UNCHANGED owed

DrainBegin ==
  /\ phase = "handle"
  /\ revents_ = {}
  /\ batch' = conn.queue
  /\ conn' = [conn EXCEPT !.queue = <<>>]
  /\ phase' = "run"
  /\ UNCHANGED <<revents_, ran, userVars, serverVars>>

Outcomes(r, f) ==
  CASE f.call = "send" -> {SendInLoop(r, Bytes(f.from, f.no))}
    [] f.call = "shutdown" -> {ShutdownInLoop(r)}
    [] f.call = "destroyed" -> {ConnectionDestroyed(r)}
    [] OTHER -> Callback(r)

\* A functor on a dead connection is undefined behaviour, and goes no further.
RunFunctor ==
  /\ phase = "run"
  /\ ran < Len(batch)
  /\ Held
  /\ conn' \in Outcomes(conn, batch[ran + 1])
  /\ ran' = ran + 1
  /\ UNCHANGED <<phase, revents_, batch, userVars, serverVars>>

\* A slip: the batch is forgotten but not its count.
DrainEnd_KeepRan ==
  /\ phase = "run"
  /\ ran = Len(batch)
  /\ batch' = <<>>
  /\ phase' = "poll"
  /\ UNCHANGED <<conn, revents_, ran, userVars, serverVars>>

DrainEnd ==
  /\ phase = "run"
  /\ ran = Len(batch)
  /\ batch' = <<>>
  /\ ran' = 0
  /\ phase' = "poll"
  /\ UNCHANGED <<conn, revents_, userVars, serverVars>>

-----------------------------------------------------------------------------
(* The threads of the user.  A call that does not find state_ k_connected  *)
(* does nothing, and is left out.                                          *)

Goes(u, from, to) ==
  /\ user[u] = from
  /\ user' = [user EXCEPT ![u] = to]
  /\ UNCHANGED <<loopVars, serverVars, holders>>

\* The test of state_ at the head of send and of shutdown.
Call(u, call) ==
  /\ Goes(u, "idle", call)
  /\ u \in holders
  /\ calls[u] < MaxCalls
  /\ conn.state = "connected"
  /\ calls' = [calls EXCEPT ![u] = @ + 1]
  /\ UNCHANGED conn

ShutdownSet(u) ==
  /\ Goes(u, "shutdown", "set")
  /\ conn' = [conn EXCEPT !.state = "disconnecting"]
  /\ UNCHANGED calls

SendQueue(u) ==
  /\ Goes(u, "send", "idle")
  /\ conn' = Queue(conn, Functor("send", u, calls[u]))
  /\ UNCHANGED calls

ShutdownQueue(u) ==
  /\ Goes(u, "set", "idle")
  /\ conn' = Queue(conn, Functor("shutdown", u, calls[u]))
  /\ UNCHANGED calls

\* The user lets go of the connection.
Release(u) ==
  /\ user[u] = "idle"
  /\ u \in holders
  /\ Careful => \A f \in Functors : f.from # u
  /\ holders' = holders \ {u}
  /\ UNCHANGED <<conn, loopVars, user, calls, serverVars>>

-----------------------------------------------------------------------------
(* The server, the peer and the kernel.                                    *)

\* remove_connection_in_loop, in answer to a handle_close.
ServerAnswers ==
  /\ owed > 0
  /\ server # "gone"
  /\ owed' = owed - 1
  /\ server' = "erased"
  /\ conn' = Queue(conn, LoopFunctor("destroyed"))
  /\ UNCHANGED <<loopVars, userVars>>

\* ~tcp_server.  What is owed stays in the queue of a main loop that has stopped.
ServerDtor ==
  /\ server = "has"
  /\ server' = "gone"
  /\ conn' = Queue(conn, LoopFunctor("destroyed"))
  /\ UNCHANGED <<loopVars, userVars, owed>>

Outside(r) == Held /\ ~conn.rst /\ conn' = r /\ UNCHANGED <<loopVars, userVars, serverVars>>

\* Bounded as the answers are.
PeerData ==
  /\ conn.echoes < MaxEchoes
  /\ ~conn.fin
  /\ ~conn.unread
  /\ Outside([conn EXCEPT !.unread = TRUE])

PeerFin == ~conn.fin /\ Outside([conn EXCEPT !.fin = TRUE])
PeerRst == Outside([conn EXCEPT !.rst = TRUE, !.err = TRUE])
PeerReads == conn.room < SendBuffer /\ Outside([conn EXCEPT !.room = @ + 1])

-----------------------------------------------------------------------------
LoopStep ==
  \/ Poll
  \/ EventHup
  \/ EventErr
  \/ EventIn
  \/ EventOut
  \/ DrainBegin
  \/ RunFunctor
  \/ DrainEnd

FinishCall(u) == SendQueue(u) \/ ShutdownSet(u) \/ ShutdownQueue(u)

Next ==
  \/ LoopStep
  \/ \E u \in Users : Call(u, "send") \/ Call(u, "shutdown") \/ FinishCall(u) \/ Release(u)
  \/ ServerAnswers
  \/ ServerDtor
  \/ PeerData
  \/ PeerFin
  \/ PeerRst
  \/ PeerReads

Spec == Init /\ [][Next]_vars

\* The loop and a thread inside a call go on, and TcpServer.tla shows that a
\* close is answered.  A peer that lives reads what it is sent.
Fairness ==
  /\ WF_vars(LoopStep)
  /\ \A u \in Users : WF_vars(FinishCall(u))
  /\ WF_vars(ServerAnswers)
  /\ WF_vars(PeerReads)

FairSpec == Spec /\ Fairness

-----------------------------------------------------------------------------
Senders == Users \cup {"loop"}
Messages == [from : Senders, no : 1..(MaxCalls + MaxEchoes)]
Calls == {"send", "shutdown", "destroyed", "written", "highwater"}
FunctorType == [call : Calls, from : Senders, no : 0..MaxCalls]

ConnType ==
  [state : {"connected", "disconnecting", "disconnected"}, ch : ChannelType,
   output : Seq(Messages), queue : Seq(FunctorType), room : 0..SendBuffer,
   unread : BOOLEAN, fin : BOOLEAN, rst : BOOLEAN, err : BOOLEAN, shut : BOOLEAN,
   wire : Seq(Messages), told : Nat, highs : Nat, echoes : 0..MaxEchoes,
   closes : 0..MaxCloses]

\* Types.
TypeOK ==
  /\ conn \in ConnType
  /\ phase \in {"poll", "handle", "run"}
  /\ revents_ \subseteq Reports
  /\ batch \in Seq(FunctorType)
  /\ ran \in 0..Len(batch)
  /\ user \in [Users -> {"idle", "send", "shutdown", "set"}]
  /\ calls \in [Users -> 0..MaxCalls]
  /\ holders \subseteq Users
  /\ server \in {"has", "erased", "gone"}
  /\ owed \in 0..MaxCloses

\* handle_close has been called, or the server is being destroyed.
Down == conn.closes > 0 \/ server # "has"

\* No stall and no spin: as long as the connection is up, epoll watches for
\* room in the socket exactly while output_buffer_ holds bytes, whichever of
\* send_in_loop and handle_write touched it last.
WritingIffOutput == ~Down => ("out" \in conn.ch.mask <=> conn.output # <<>>)

\* Whenever output_buffer_ is empty, a write-complete callback has been queued
\* for every byte on the wire, by the direct write or by handle_write.
CompletionTold == conn.output = <<>> => conn.told = Len(conn.wire)

\* The high-water callback is queued once each time output_buffer_ reaches the
\* mark from below, and at no other time.
HighWaterOnCrossing ==
  [][conn'.highs = conn.highs + (IF /\ Len(conn.output) < high_water_mark_
                                    /\ Len(conn'.output) >= high_water_mark_
                                 THEN 1 ELSE 0)]_vars

\* Messages are not torn, swapped or doubled, whatever threads send them and
\* however the socket takes them, and the FIN comes last (OutputStream).
Stream == INSTANCE OutputStream
  WITH pending <- conn.output, wire <- conn.wire, fin <- conn.shut, down <- Down

StreamInOrder == Stream!Spec

\* A message that send has queued leaves in full, unless the connection goes
\* down, or is shut down by a thread that did not wait.
Queued(m) == Functor("send", m.from, m.no) \in Range(conn.queue)
OnWire(m) == Cardinality({i \in DOMAIN conn.wire : conn.wire[i] = m}) = MsgLen

QueuedLeaves ==
  \A m \in [from : Users, no : 1..MaxCalls] :
    Queued(m) ~> (OnWire(m) \/ Down \/ conn.shut)

\* A shutdown is not forgotten, whatever is in output_buffer_ when it is called
\* and whoever empties it: the FIN is sent, unless the connection goes down.
ShutdownSends == conn.state = "disconnecting" ~> (conn.shut \/ Down)

\* shared_from_this is there "to extend the life of an object used in asynchronous
\* operations and callbacks" (tcp_connection.h:21): a functor that the loop is
\* about to run finds its connection alive, in whatever order the callbacks it
\* stems from, the close, and the release by the users came.
AliveWhenRun == (phase = "run" /\ ran < Len(batch)) => Held
=============================================================================
