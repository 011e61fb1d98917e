--------------------------- MODULE TcpServerProofs ---------------------------
(***************************************************************************)
(* Proofs about TcpServer, for every number of loops, connections and      *)
(* users.  First what the callbacks do to the record of one connection,    *)
(* then the inductive invariant, an action at a time, and the theorems.    *)
(***************************************************************************)
EXTENDS TcpServer, ChannelProofs, BatchProofs

\* The hypothesis of the theorems on lifetimes: whatever the users do on the thread
\* of a connection, from other threads they call send or shutdown, not both.
NotBoth == ~(Raw \subseteq ForeignCalls)

\* The functors that loop l has still to run, in their order.
Line(l) == Todo(batch[l], ran[l], queue[l])

\* The record of a connection that has been reported n times.  Until it is reported
\* down, bytes are buffered only with the write event on, and none behind a FIN.
\* Unless other threads call shutdown, k_disconnected is not written over, and a
\* connection that is k_disconnecting has sent its FIN or waits to be writable.
Good(r, n) ==
  /\ r \in ConnType
  /\ Sound(r.ch)
  /\ n \in Nat
  /\ r.state = "connecting" <=> n = 0
  /\ r.state = "connected" => n = 1 /\ r.ch.on
  /\ r.state = "disconnected" => n > 1
  /\ n = 0 => ~r.ch.on /\ ~r.output /\ ~r.shut
  /\ n <= 1 => /\ r.output => is_writing(r.ch)
               /\ r.shut => ~is_writing(r.ch)
  /\ "shutdown" \notin ForeignCalls =>
       /\ n > 1 => r.state = "disconnected"
       /\ r.state = "disconnecting" => r.shut \/ is_writing(r.ch)

-----------------------------------------------------------------------------
(* The callbacks of a connection, as operators on its record.              *)

LEMMA GoodChannel ==
  ASSUME NEW r, NEW n, Good(r, n)
  PROVE  r \in ConnType /\ Sound(r.ch) /\ r.ch \in ChannelType /\ n \in Nat
  BY DEF Good, Sound

\* A callback that reports nothing, and leaves the channel in epoll or out of it.
Keeps(r, s, n) ==
  /\ Good(s, n)
  /\ s.loop = r.loop
  /\ s.ch.on <=> r.ch.on

LEMMA KeepsTrans ==
  ASSUME NEW r, NEW s, NEW t, NEW n, Keeps(r, s, n), Keeps(s, t, n) PROVE Keeps(r, t, n)
  BY DEF Keeps

LEMMA SameKeeps == ASSUME NEW r, NEW n, Good(r, n) PROVE Keeps(r, r, n)
  BY DEF Keeps

LEMMA ErrTaken ==
  ASSUME NEW r, NEW n, Good(r, n) PROVE Keeps(r, HandleError(r), n)
<1> DEFINE s == [r EXCEPT !.err = FALSE]
<1>1. r \in ConnType
  BY DEF Good
<1>2. /\ s \in ConnType /\ s.loop = r.loop /\ s.state = r.state /\ s.ch = r.ch
      /\ s.output = r.output /\ s.shut = r.shut
  BY <1>1 DEF ConnType
<1>3. HandleError(r) = s
  BY DEF HandleError
<1> HIDE DEF s
<1> QED BY <1>2, <1>3 DEF Keeps, Good

LEMMA BufferedGood ==
  ASSUME NEW r, NEW n, Good(r, n), n # 0, n <= 1 => is_writing(r.ch) \/ ~r.shut
  PROVE  LET s == Buffered(r)
         IN /\ Good(s, n) /\ s.loop = r.loop
            /\ r.ch.on => s.ch.on
            /\ is_writing(r.ch) => s.ch = r.ch
<1> DEFINE ch == IF is_writing(r.ch) THEN r.ch ELSE enable_writing(r.ch)
           s == Buffered(r)
<1> SUFFICES /\ Good(s, n) /\ s.loop = r.loop
             /\ r.ch.on => s.ch.on
             /\ is_writing(r.ch) => s.ch = r.ch
  OBVIOUS
<1>1. r \in ConnType /\ Sound(r.ch)
  BY DEF Good
<1>2. Sound(ch) /\ is_writing(ch) /\ (r.ch.on => ch.on) /\ (is_writing(r.ch) => ch = r.ch)
  BY <1>1, EnableWriting DEF is_writing
<1>3. ch \in ChannelType
  BY <1>2 DEF Sound
<1>4. s = [r EXCEPT !.output = TRUE, !.ch = ch]
  BY <1>1 DEF Buffered, ConnType
<1> HIDE DEF ch, s
<1>5. /\ s \in ConnType /\ s.loop = r.loop /\ s.state = r.state /\ s.ch = ch
      /\ s.output = TRUE /\ s.shut = r.shut
  BY <1>1, <1>3, <1>4 DEF ConnType
<1>6. n <= 1 => ~r.shut
  BY DEF Good
<1>7. Good(s, n)
  BY <1>2, <1>5, <1>6 DEF Good
<1> QED BY <1>2, <1>5, <1>7

\* A late send_in_loop finds the channel out of epoll and puts it back only when
\* another thread has called shutdown.
LEMMA SendInLoopGood ==
  ASSUME NEW r, NEW n, Good(r, n), n # 0, NEW s \in SendInLoop(r)
  PROVE  /\ Good(s, n) /\ s.loop = r.loop
         /\ r.ch.on => s.ch.on
         /\ r.ch.on \/ "shutdown" \notin ForeignCalls => (s.ch.on <=> r.ch.on)
<1>1. CASE s = r \/ s = [r EXCEPT !.err = FALSE]
  <2>1. HandleError(r) = [r EXCEPT !.err = FALSE]
    BY DEF HandleError
  <2> QED BY <1>1, <2>1, ErrTaken, SameKeeps DEF Keeps
<1>2. CASE s = Buffered(r) /\ r.state # "disconnected" /\ (is_writing(r.ch) \/ r.output)
  <2>1. n <= 1 => is_writing(r.ch)
    BY <1>2 DEF Good
  <2>2. n > 1 => "shutdown" \in ForeignCalls
    BY <1>2 DEF Good
  <2>3. n \in Nat /\ r.ch.on \in BOOLEAN /\ s = Buffered(r)
    BY <1>2 DEF Good, ConnType, ChannelType
  <2>4. n <= 1 \/ n > 1
    BY <2>3
  <2> QED BY <2>1, <2>2, <2>3, <2>4, BufferedGood
<1>3. CASE s = Buffered(r) /\ r.state # "disconnected" /\ ~WriteFails(r)
  <2>1. ~r.shut
    BY <1>3 DEF WriteFails
  <2>2. "shutdown" \notin ForeignCalls => is_writing(r.ch) \/ r.ch.on
    BY <1>3, <2>1 DEF Good, ConnType
  <2>3. s = Buffered(r)
    BY <1>3
  <2> QED BY <2>1, <2>2, <2>3, BufferedGood
<1>4. \/ s = r \/ s = [r EXCEPT !.err = FALSE]
      \/ s = Buffered(r) /\ r.state # "disconnected" /\ (is_writing(r.ch) \/ r.output)
      \/ s = Buffered(r) /\ r.state # "disconnected" /\ ~WriteFails(r)
  BY DEF SendInLoop
<1> QED BY <1>1, <1>2, <1>3, <1>4

LEMMA SendKeeps ==
  ASSUME NEW r, NEW n, Good(r, n), NEW s \in Send(r) PROVE Keeps(r, s, n)
<1>1. CASE r.state = "connected"
  <2>1. s \in SendInLoop(r) /\ n # 0 /\ r.ch.on
    BY <1>1 DEF Send, Good
  <2> QED BY <2>1, SendInLoopGood DEF Keeps
<1>2. CASE r.state # "connected"
  BY <1>2, SameKeeps DEF Send
<1> QED BY <1>1, <1>2

\* A FIN is sent only while the write event is off.
LEMMA ShutdownInLoopKeeps ==
  ASSUME NEW r, NEW n, Good(r, n), n # 0 PROVE Keeps(r, ShutdownInLoop(r), n)
<1> DEFINE s == [r EXCEPT !.shut = TRUE]
<1>1. CASE is_writing(r.ch)
  BY <1>1, SameKeeps DEF ShutdownInLoop
<1>2. CASE ~is_writing(r.ch)
  <2>1. r \in ConnType
    BY DEF Good
  <2>2. /\ s \in ConnType /\ s.loop = r.loop /\ s.state = r.state /\ s.ch = r.ch
        /\ s.output = r.output /\ s.shut = TRUE
    BY <2>1 DEF ConnType
  <2>3. ShutdownInLoop(r) = s
    BY <1>2 DEF ShutdownInLoop
  <2> HIDE DEF s
  <2> QED BY <1>2, <2>2, <2>3 DEF Keeps, Good
<1> QED BY <1>1, <1>2

LEMMA ShutdownKeeps ==
  ASSUME NEW r, NEW n, Good(r, n) PROVE Keeps(r, Shutdown(r), n)
<1> DEFINE t == [r EXCEPT !.state = "disconnecting"]
           s == ShutdownInLoop(t)
<1>1. CASE r.state = "connected"
  <2>1. r \in ConnType /\ n = 1
    BY <1>1 DEF Good
  <2>2. /\ t \in ConnType /\ t.loop = r.loop /\ t.state = "disconnecting" /\ t.ch = r.ch
        /\ t.output = r.output /\ t.shut = r.shut
    BY <2>1 DEF ConnType
  <2>3. Shutdown(r) = s
    BY <1>1 DEF Shutdown
  <2>4. s = IF is_writing(t.ch) THEN t ELSE [t EXCEPT !.shut = TRUE]
    BY DEF ShutdownInLoop
  <2> HIDE DEF t, s
  <2>5. /\ s \in ConnType /\ s.loop = r.loop /\ s.state = "disconnecting" /\ s.ch = r.ch
        /\ s.output = r.output
        /\ IF is_writing(r.ch) THEN s.shut = r.shut ELSE s.shut = TRUE
    BY <2>2, <2>4 DEF ConnType
  <2> QED BY <2>1, <2>3, <2>5 DEF Keeps, Good
<1>2. CASE r.state # "connected"
  BY <1>2, SameKeeps DEF Shutdown
<1> QED BY <1>1, <1>2

\* What the user does in a callback.
LEMMA CallbackKeeps ==
  ASSUME NEW r, NEW n, Good(r, n), NEW s \in Callback(r) PROVE Keeps(r, s, n)
<1>1. \A x \in {r} \cup Send(r) : Keeps(r, x, n) /\ Good(x, n)
  BY SendKeeps, SameKeeps DEF Keeps
<1>2. \A x \in {r} \cup Send(r) : Keeps(r, Shutdown(x), n)
  BY <1>1, ShutdownKeeps, KeepsTrans
<1> QED BY <1>1, <1>2 DEF Callback

\* The connection is registered, and reported UP.
LEMMA EstablishedGood ==
  ASSUME NEW r, Good(r, 0), NEW s \in ConnectionEstablished(r)
  PROVE  Good(s, 1) /\ s.loop = r.loop /\ s.ch.on
<1> DEFINE ch == enable_reading(r.ch)
           t == [r EXCEPT !.state = "connected", !.ch = ch]
<1>1. r \in ConnType /\ Sound(r.ch)
  BY DEF Good
<1>2. Sound(ch) /\ ch.on
  BY <1>1, EnableReading
<1>3. ch \in ChannelType
  BY <1>2 DEF Sound
<1>4. [r EXCEPT !.state = "connected", !.ch = enable_reading(@)] = t
  BY <1>1 DEF ConnType
<1>5. s \in Callback(t)
  BY <1>4 DEF ConnectionEstablished
<1> HIDE DEF ch
<1>6. /\ t \in ConnType /\ t.loop = r.loop /\ t.state = "connected" /\ t.ch = ch
      /\ t.output = r.output /\ t.shut = r.shut
  BY <1>1, <1>3 DEF ConnType
<1> HIDE DEF t
<1>7. Good(t, 1)
  BY <1>2, <1>6 DEF Good
<1>8. Keeps(t, s, 1)
  BY <1>5, <1>7, CallbackKeeps
<1> QED BY <1>2, <1>6, <1>8 DEF Keeps

\* Nothing is left in epoll of a connection that is destroyed.
LEMMA DestroyedGood ==
  ASSUME NEW r, NEW n, Good(r, n)
  PROVE  LET s == ConnectionDestroyed(r)
         IN /\ Good(s, IF r.state = "connected" THEN n + 1 ELSE n)
            /\ s.loop = r.loop /\ ~s.ch.on
<1> DEFINE off == disable_all(r.ch)
           down == IF r.state = "connected"
                   THEN [r EXCEPT !.state = "disconnected", !.ch = off] ELSE r
           ch == RemoveChannel(down.ch)
           s == ConnectionDestroyed(r)
<1> SUFFICES /\ Good(s, IF r.state = "connected" THEN n + 1 ELSE n)
             /\ s.loop = r.loop /\ ~s.ch.on
  OBVIOUS
<1>1. r \in ConnType /\ Sound(r.ch) /\ Sound(off) /\ off \in ChannelType
  BY DisableAll DEF Good, Sound
<1>2. /\ down \in ConnType /\ Sound(down.ch) /\ down.loop = r.loop
      /\ down.state = IF r.state = "connected" THEN "disconnected" ELSE r.state
      /\ down.output = r.output /\ down.shut = r.shut
      /\ r.state # "connected" => down.ch = r.ch
  <2> HIDE DEF off
  <2> QED BY <1>1 DEF ConnType
<1>3. s = [down EXCEPT !.ch = ch]
  <2>1. down = IF r.state = "connected"
               THEN [r EXCEPT !.state = "disconnected", !.ch = disable_all(@)] ELSE r
    BY <1>1 DEF ConnType
  <2>2. s = [down EXCEPT !.ch = RemoveChannel(@)]
    BY <2>1 DEF ConnectionDestroyed
  <2> HIDE DEF down, s
  <2> QED BY <1>2, <2>2 DEF ConnType
<1> HIDE DEF down, s
<1>4. Sound(ch) /\ ~ch.on /\ ch.events = down.ch.events /\ ch \in ChannelType
  BY <1>2, Removed DEF Sound
<1> HIDE DEF ch
<1>5. /\ s \in ConnType /\ s.loop = down.loop /\ s.state = down.state /\ s.ch = ch
      /\ s.output = down.output /\ s.shut = down.shut
  BY <1>2, <1>3, <1>4 DEF ConnType
<1>6. CASE r.state = "connected"
  <2>1. n = 1
    BY <1>6 DEF Good
  <2> QED BY <1>2, <1>4, <1>5, <1>6, <2>1 DEF Good
<1>7. CASE r.state # "connected"
  <2>1. /\ s.state = r.state /\ s.output = r.output /\ s.shut = r.shut
        /\ is_writing(s.ch) <=> is_writing(r.ch)
    BY <1>2, <1>4, <1>5, <1>7 DEF is_writing
  <2> QED BY <1>2, <1>4, <1>5, <1>7, <2>1 DEF Good
<1> QED BY <1>6, <1>7

\* A close: down, reported, and asked for no event.
Closed(r, s, n) == Good(s, n + 1) /\ s.loop = r.loop /\ s.ch.on

LEMMA HandleCloseCloses ==
  ASSUME NEW r, NEW n, Good(r, n), n # 0 PROVE Closed(r, HandleClose(r), n)
<1> DEFINE off == disable_all(r.ch)
           s == HandleClose(r)
<1>1. r \in ConnType /\ Sound(r.ch) /\ Sound(off) /\ off.on /\ off \in ChannelType
  BY DisableAll DEF Good, Sound
<1>2. s = [r EXCEPT !.state = "disconnected", !.ch = off]
  BY <1>1 DEF HandleClose, ConnType
<1> SUFFICES Closed(r, s, n)
  OBVIOUS
<1> HIDE DEF off, s
<1>3. /\ s \in ConnType /\ s.loop = r.loop /\ s.state = "disconnected" /\ s.ch = off
      /\ s.output = r.output /\ s.shut = r.shut
  BY <1>1, <1>2 DEF ConnType
<1>4. n + 1 \in Nat /\ n + 1 > 1
  BY DEF Good
<1> QED BY <1>1, <1>3, <1>4 DEF Closed, Good

LEMMA FlushedKeeps ==
  ASSUME NEW r, NEW n, Good(r, n), n # 0, r.ch.on PROVE Keeps(r, Flushed(r), n)
<1> DEFINE off == disable_writing(r.ch)
           idle == [r EXCEPT !.output = FALSE, !.ch = off]
           s == Flushed(r)
<1>1. /\ r \in ConnType /\ Sound(r.ch) /\ Sound(off) /\ off.on /\ off \in ChannelType
      /\ ~is_writing(off)
  BY DisableWriting DEF Good, Sound, is_writing
<1>2. idle = [r EXCEPT !.output = FALSE, !.ch = disable_writing(@)]
  BY <1>1 DEF ConnType
<1>3. s = IF r.state = "disconnecting" THEN ShutdownInLoop(idle) ELSE idle
  BY <1>2 DEF Flushed
<1> HIDE DEF off
<1>4. /\ idle \in ConnType /\ idle.loop = r.loop /\ idle.state = r.state /\ idle.ch = off
      /\ idle.output = FALSE /\ idle.shut = r.shut
  BY <1>1 DEF ConnType
<1> HIDE DEF idle
<1>5. ShutdownInLoop(idle) = [idle EXCEPT !.shut = TRUE]
  BY <1>1, <1>4 DEF ShutdownInLoop
<1> HIDE DEF s
<1>6. /\ s \in ConnType /\ s.loop = r.loop /\ s.state = r.state /\ s.ch = off
      /\ s.output = FALSE
      /\ IF r.state = "disconnecting" THEN s.shut = TRUE ELSE s.shut = r.shut
  BY <1>3, <1>4, <1>5 DEF ConnType
<1>7. Good(s, n)
  BY <1>1, <1>6 DEF Good
<1> QED BY <1>1, <1>6, <1>7 DEF Keeps, s

LEMMA HandleWriteKeeps ==
  ASSUME NEW r, NEW n, Good(r, n), n # 0, r.ch.on, NEW s \in HandleWrite(r)
  PROVE  Keeps(r, s, n)
<1>1. s \in {r, HandleError(r), Flushed(r)}
  BY DEF HandleWrite
<1> QED BY <1>1, SameKeeps, ErrTaken, FlushedKeeps

\* A registered channel is handled: the connection closes if and only if the
\* close callback is called.
LEMMA EventShape ==
  ASSUME NEW r, NEW n, Good(r, n), r.ch.on, NEW rev,
         NEW s \in HandleEventWithGuard(r, rev)
  PROVE  IF Closing(r, rev) THEN Closed(r, s, n) ELSE Keeps(r, s, n)
<1> DEFINE hung == IF "hup" \in rev /\ "in" \notin rev THEN HandleClose(r) ELSE r
           read == IF "in" \in rev THEN HandleRead(AfterError(hung, rev))
                   ELSE {AfterError(hung, rev)}
           m == IF Closing(r, rev) THEN n + 1 ELSE n
           Shaped(x) == Good(x, m) /\ x.loop = r.loop /\ x.ch.on
<1>1. n \in Nat /\ n # 0 /\ m \in Nat /\ m # 0
  BY DEF Good
<1>2. ASSUME NEW x, Shaped(x), NEW y, Keeps(x, y, m) PROVE Shaped(y)
  BY <1>2 DEF Keeps
<1>3. \A x, k : Good(x, k) => Keeps(x, AfterError(x, rev), k)
  BY ErrTaken, SameKeeps DEF AfterError
<1>4. ASSUME NEW x \in read PROVE Shaped(x)
  <2>1. CASE "in" \notin rev
    <3>1. Shaped(hung)
      BY <1>1, <2>1, HandleCloseCloses, SameKeeps DEF Closing, Closed, Keeps
    <3>2. x = AfterError(hung, rev)
      BY <2>1
    <3> HIDE DEF hung, m
    <3>3. Keeps(hung, x, m)
      BY <1>3, <3>1, <3>2
    <3> QED BY <1>2, <3>1, <3>3
  <2>2. CASE "in" \in rev
    <3> DEFINE t == AfterError(r, rev)
    <3>1. Keeps(r, t, n) /\ Good(t, n)
      BY <1>3 DEF Keeps
    <3>2. x \in HandleRead(t)
      BY <2>2
    <3>3. Closing(r, rev) <=> EndOfStream(t)
      BY <2>2 DEF Closing
    <3> HIDE DEF t, read, hung
    <3>4. CASE t.unread
      <4> DEFINE u == [t EXCEPT !.unread = FALSE]
      <4>1. t \in ConnType
        BY <3>1 DEF Good
      <4>2. /\ u \in ConnType /\ u.loop = t.loop /\ u.state = t.state /\ u.ch = t.ch
            /\ u.output = t.output /\ u.shut = t.shut
        BY <4>1 DEF ConnType
      <4>3. x \in Callback(u) /\ ~Closing(r, rev)
        BY <3>2, <3>3, <3>4 DEF HandleRead, EndOfStream
      <4> HIDE DEF u
      <4>4. Keeps(t, u, n) /\ Good(u, n)
        BY <3>1, <4>2 DEF Keeps, Good
      <4>5. Keeps(u, x, n)
        BY <4>3, <4>4, CallbackKeeps
      <4> QED BY <3>1, <4>3, <4>4, <4>5 DEF Keeps
    <3>5. CASE EndOfStream(t)
      <4>1. x = HandleClose(t)
        BY <3>2, <3>5 DEF HandleRead, EndOfStream
      <4>2. Closed(t, x, n)
        BY <1>1, <3>1, <4>1, HandleCloseCloses
      <4> QED BY <3>1, <3>3, <3>5, <4>2 DEF Closed, Keeps
    <3>6. CASE ~t.unread /\ ~EndOfStream(t)
      <4>1. x = HandleError(t)
        BY <3>2, <3>6 DEF HandleRead
      <4>2. Keeps(t, x, n)
        BY <3>1, <4>1, ErrTaken
      <4> QED BY <3>1, <3>3, <3>6, <4>2 DEF Keeps
    <3> QED BY <3>4, <3>5, <3>6
  <2> QED BY <2>1, <2>2
<1>5. s \in IF "out" \in rev THEN UNION {HandleWrite(x) : x \in read} ELSE read
  BY DEF HandleEventWithGuard
<1> HIDE DEF hung, read
<1>6. Shaped(s)
  <2>1. CASE "out" \notin rev
    BY <1>4, <1>5, <2>1
  <2>2. CASE "out" \in rev
    <3>1. PICK x \in read : s \in HandleWrite(x)
      BY <1>5, <2>2
    <3>2. Shaped(x)
      BY <1>4
    <3> HIDE DEF m
    <3>3. Keeps(x, s, m)
      BY <1>1, <3>1, <3>2, HandleWriteKeeps
    <3> QED BY <1>2, <3>2, <3>3
  <2> QED BY <2>1, <2>2
<1> QED BY <1>6 DEF Closed, Keeps

(* The inductive invariant.                                                *)

ActiveType == [conn : Conns, rev : SUBSET Reports]

Phases == {"start", "poll", "handle", "run", "exited"}

Types ==
  /\ conn \in [Conns -> ConnType]
  /\ connections_ \subseteq accepted
  /\ backlog \subseteq Conns \ accepted
  /\ accepted \subseteq Conns
  /\ next_ \in Nat
  /\ IF NumThreads = 0 THEN next_ = 0 ELSE next_ < NumThreads
  /\ phase \in [Loops -> Phases]
  /\ active \in [Loops -> SUBSET ActiveType]
  /\ accept_active \in BOOLEAN
  /\ queue \in [Loops -> Seq(FunctorType)]
  /\ batch \in [Loops -> Seq(FunctorType)]
  /\ ran \in [Loops -> Nat]
  /\ \A l \in Loops : ran[l] <= Len(batch[l])
  /\ quit \in [Loops -> BOOLEAN]
  /\ dtor \in {"no", "conns", "pool", "join", "done"}
  /\ joining \in 1..(NumThreads + 1)
  /\ reports \in [Conns -> 0..MaxReports]

\* Whatever happens to a channel, its books agree with epoll.
ChannelInv ==
  /\ Sound(accept_channel_)
  /\ \A c \in Conns : Good(conn[c], reports[c])

\* A loop that is not running functors has no batch, and one that is not
\* handling events has no active channels.
PhaseInv ==
  /\ \A l \in Loops : /\ phase[l] # "run" => batch[l] = <<>> /\ ran[l] = 0
                      /\ phase[l] # "handle" => active[l] = {}
  /\ accept_active => phase[Main] = "handle"

\* The destructor runs on a main loop that has ended, and stops and joins only the
\* others.
DtorInv ==
  /\ dtor # "no" => Destroy /\ phase[Main] = "exited"
  /\ \A l \in Loops : /\ quit[l] => dtor \in {"pool", "join", "done"} /\ l # Main
                      /\ phase[l] = "exited" => dtor # "no"
  /\ dtor = "join" => joining \in IoLoops
  /\ dtor = "done" => ~accept_channel_.on

\* Nothing has been done yet with a connection that is not accepted.
FreshInv == \A c \in Conns \ accepted : reports[c] = 0

\* An active channel belongs to an accepted connection of this loop, is
\* registered, and is in the list once.
ActiveInv ==
  \A l \in Loops : \A a \in active[l] :
    /\ a.conn \in accepted
    /\ conn[a.conn].loop = l
    /\ conn[a.conn].ch.on
    /\ reports[a.conn] < MaxReports
    /\ \A b \in active[l] : a.conn = b.conn => a = b

\* A functor is in the queue of the loop that owns what it touches.
FunctorOK(l, f) ==
  /\ f.conn \in accepted
  /\ IF f.call = "remove" THEN l = Main ELSE l = conn[f.conn].loop
  /\ NumThreads = 0 => f.call \in {"destroyed"} \cup Raw
  /\ f.call \in Raw => f.call \in ForeignCalls

OwnInv ==
  /\ \A l \in Loops : \A f \in Functors(l) : FunctorOK(l, f)
  /\ \A c \in accepted : conn[c].loop = Main <=> NumThreads = 0

\* connection_established is the first functor of its connection, and the only
\* one of its kind.
First(line) ==
  \A i, j \in 1..Len(line) :
    line[j].call = "established" /\ line[i].conn = line[j].conn => j <= i

FirstInv == \A l \in Loops : First(Line(l))

\* The functors of loop l will still be run, or there is no other loop.
Alive(l) == NumThreads = 0 \/ phase[l] # "exited"

\* The map and the queues, for an accepted connection: it is in the map until it
\* is closed, and whatever the loops still have to do with it is in their lines.
Tracked(c) ==
  /\ NumThreads = 0 => reports[c] # 0
  /\ dtor = "no" /\ reports[c] <= 1 => c \in connections_
  /\ reports[c] > 1 /\ c \in connections_ => Functor("remove", c) \in Range(Line(Main))
  /\ reports[c] = 0 /\ Alive(conn[c].loop) =>
       Functor("established", c) \in Range(Line(conn[c].loop))
  /\ c \notin connections_ /\ (reports[c] = 0 \/ (NotBoth /\ conn[c].ch.on))
       /\ Alive(conn[c].loop) =>
       Functor("destroyed", c) \in Range(Line(conn[c].loop))

\* What a functor of a line takes for granted.
Ready(f) ==
  /\ f.call = "established" => reports[f.conn] = 0
  /\ f.call = "remove" => reports[f.conn] > 1
  /\ f.call = "destroyed" => f.conn \notin connections_
  /\ f.call \in Raw => reports[f.conn] # 0

MapInv ==
  /\ \A c \in accepted : Tracked(c)
  /\ \A l \in Loops : \A f \in Range(Line(l)) : Ready(f)

\* With the main loop alone: a close is followed by the destruction before epoll
\* is asked again.
ClosedOnce(c) ==
  \/ reports[c] <= 1
  \/ /\ reports[c] = 2
     /\ \A a \in active[Main] : a.conn # c
     /\ conn[c].ch.on => Functor("destroyed", c) \in Range(Line(Main))

OnlyRaw(q) == \A f \in Range(q) : f.call \in Raw

SingleInv ==
  NumThreads = 0 => /\ phase[Main] # "handle" => OnlyRaw(queue[Main])
                    /\ NotBoth => \A c \in Conns : ClosedOnce(c)

Inv ==
  /\ Types
  /\ ChannelInv
  /\ PhaseInv
  /\ DtorInv
  /\ FreshInv
  /\ ActiveInv
  /\ OwnInv
  /\ FirstInv
  /\ MapInv
  /\ SingleInv

\* A user that is inside a call has found the connection up, and the call is one
\* that users make.
UserInv ==
  /\ holders \in [Conns -> SUBSET Users]
  /\ user \in [Conns -> [Users -> {"idle", "send", "shutdown", "set"}]]
  /\ calls \in [Users -> 0..MaxCalls]
  /\ \A c \in Conns, u \in Users :
       /\ user[c][u] # "idle" => reports[c] # 0
       /\ user[c][u] = "send" => "send" \in ForeignCalls
       /\ user[c][u] \in {"shutdown", "set"} => "shutdown" \in ForeignCalls

-----------------------------------------------------------------------------
(* The lines of the loops, as functors are queued and run.                 *)

LEMMA LoopFacts ==
  /\ Main \in Loops /\ IoLoops \subseteq Loops /\ Main \notin IoLoops
  /\ \A l \in Loops : l # Main => NumThreads # 0
  BY ThreadsAssumption DEF Main, Loops, IoLoops

LEMMA FunctorIs ==
  \A call, c : /\ Functor(call, c).call = call /\ Functor(call, c).conn = c
               /\ c \in Conns /\ call \in {"established", "remove", "destroyed"} \cup Raw =>
                    Functor(call, c) \in FunctorType
  BY DEF Functor, FunctorType

LEMMA LineFacts ==
  ASSUME Types, NEW l \in Loops
  PROVE  /\ queue[l] \in Seq(FunctorType) /\ batch[l] \in Seq(FunctorType)
         /\ ran[l] \in 0..Len(batch[l]) /\ ran[l] \in Nat /\ Len(batch[l]) \in Nat
         /\ Line(l) \in Seq(FunctorType)
         /\ Range(Line(l)) \subseteq Functors(l)
         /\ Functors(l) \subseteq FunctorType
         /\ Range(Line(l)) = {batch[l][i] : i \in (ran[l] + 1)..Len(batch[l])}
                               \cup Range(queue[l])
<1> DEFINE b == batch[l]
           q == queue[l]
           n == ran[l]
<1>1. b \in Seq(FunctorType) /\ q \in Seq(FunctorType) /\ n \in Nat /\ n <= Len(b)
  BY DEF Types
<1>2. Len(b) \in Nat
  BY <1>1, LenProperties
<1>3. n \in 0..Len(b)
  BY <1>1, <1>2
<1> HIDE DEF b, q, n
<1>4. /\ Todo(b, n, q) \in Seq(FunctorType)
      /\ Range(Todo(b, n, q)) = {b[i] : i \in (n + 1)..Len(b)} \cup Range(q)
      /\ Range(Todo(b, n, q)) \subseteq Range(b) \cup Range(q)
  BY <1>1, <1>3, TodoType, TodoRange
<1>5. Range(b) \subseteq FunctorType /\ Range(q) \subseteq FunctorType
  BY <1>1, <1>2, RangeEquality, ElementOfSeq
<1> QED BY <1>1, <1>2, <1>3, <1>4, <1>5 DEF Line, Functors, b, q, n

\* Nothing is queued and nothing runs.
LEMMA LinesKept ==
  ASSUME UNCHANGED <<queue, batch, ran>>, NEW l \in Loops
  PROVE  Line(l)' = Line(l) /\ Functors(l)' = Functors(l)
  BY DEF Line, Functors

LEMMA FirstAppend ==
  ASSUME NEW line \in Seq(FunctorType), NEW f \in FunctorType, First(line),
         f.call = "established" => \A g \in Range(line) : g.conn # f.conn
  PROVE  First(Append(line, f))
<1> DEFINE w == Append(line, f)
           n == Len(line)
<1>1. /\ Len(w) = n + 1 /\ n \in Nat /\ w[n + 1] = f
      /\ \A i \in 1..n : w[i] = line[i] /\ line[i] \in Range(line)
  <2>1. Range(line) = {line[i] : i \in 1..n}
    BY RangeEquality
  <2> QED BY <2>1, AppendProperties, LenProperties
<1> HIDE DEF w, n
<1>2. ASSUME NEW i \in 1..(n + 1), NEW j \in 1..(n + 1), w[j].call = "established",
             w[i].conn = w[j].conn
      PROVE  j <= i
  <2>1. CASE i = n + 1
    BY <1>1, <2>1
  <2>2. CASE i # n + 1 /\ j = n + 1
    <3>1. i \in 1..n
      BY <1>1, <2>2
    <3> QED BY <1>1, <1>2, <2>2, <3>1
  <2>3. CASE i # n + 1 /\ j # n + 1
    <3>1. i \in 1..n /\ j \in 1..n
      BY <1>1, <2>3
    <3> QED BY <1>1, <1>2, <3>1 DEF First, n
  <2> QED BY <2>1, <2>2, <2>3
<1> QED BY <1>1, <1>2 DEF First, w

LEMMA FirstTail ==
  ASSUME NEW line \in Seq(FunctorType), line # <<>>, First(line)
  PROVE  /\ First(Tail(line))
         /\ Range(line) = {line[1]} \cup Range(Tail(line))
         /\ \A g \in Range(Tail(line)) : g.call = "established" => g.conn # line[1].conn
<1> DEFINE w == Tail(line)
           n == Len(line)
<1>1. /\ w \in Seq(FunctorType) /\ Len(w) = n - 1 /\ n \in Nat /\ n # 0
      /\ \A i \in 1..Len(w) : w[i] = line[i + 1]
  BY HeadTailProperties, LenProperties, EmptySeq
<1>2. /\ Range(line) = {line[i] : i \in 1..n}
      /\ Range(w) = {w[i] : i \in 1..Len(w)}
  BY <1>1, RangeEquality
<1> HIDE DEF w
<1>3. \A i \in 1..Len(w) : i + 1 \in 1..n /\ i + 1 # 1 /\ i \in Nat
  BY <1>1
<1>4. 1 \in 1..n /\ \A i \in 1..n : i # 1 => i - 1 \in 1..Len(w) /\ (i - 1) + 1 = i
  BY <1>1
<1>5. Range(line) = {line[1]} \cup Range(w)
  <2>1. ASSUME NEW i \in 1..n, i # 1 PROVE line[i] \in Range(w)
    <3>1. i - 1 \in 1..Len(w) /\ (i - 1) + 1 = i
      BY <1>4, <2>1
    <3>2. w[i - 1] = line[i]
      BY <1>1, <3>1
    <3> QED BY <1>2, <3>1, <3>2
  <2>2. ASSUME NEW i \in 1..Len(w) PROVE w[i] \in Range(line)
    BY <1>1, <1>2, <1>3
  <2> QED BY <1>2, <1>4, <2>1, <2>2
<1>6. First(w)
  <2> SUFFICES ASSUME NEW i \in 1..Len(w), NEW j \in 1..Len(w),
                      w[j].call = "established", w[i].conn = w[j].conn
               PROVE  j <= i
    BY DEF First
  <2>1. line[j + 1].call = "established" /\ line[i + 1].conn = line[j + 1].conn
    BY <1>1
  <2>2. j + 1 <= i + 1
    BY <1>3, <2>1 DEF First, n
  <2> QED BY <1>3, <2>2
<1>7. ASSUME NEW i \in 1..Len(w), w[i].call = "established", w[i].conn = line[1].conn
      PROVE  FALSE
  <2>1. i + 1 <= 1
    BY <1>1, <1>3, <1>4, <1>7 DEF First, n
  <2> QED BY <1>3, <2>1
<1> QED BY <1>2, <1>5, <1>6, <1>7 DEF w

\* queue_in_loop puts f into the queue of loop k.
LEMMA Queued ==
  ASSUME Types, NEW k \in Loops, NEW f \in FunctorType,
         queue' = [queue EXCEPT ![k] = Append(@, f)]
  PROVE  LET line == Todo(batch[k], ran[k], queue'[k])
         IN /\ queue' \in [Loops -> Seq(FunctorType)]
            /\ \A l \in Loops : l # k => queue'[l] = queue[l]
            /\ line = Append(Line(k), f)
            /\ Range(line) = Range(Line(k)) \cup {f}
            /\ Range(queue'[k]) = Range(queue[k]) \cup {f}
            /\ (/\ First(Line(k))
                /\ f.call = "established" => \A g \in Range(Line(k)) : g.conn # f.conn) =>
                 First(line)
<1>1. /\ queue[k] \in Seq(FunctorType) /\ batch[k] \in Seq(FunctorType)
      /\ ran[k] \in 0..Len(batch[k]) /\ Line(k) \in Seq(FunctorType)
  BY LineFacts
<1>2. /\ queue'[k] = Append(queue[k], f)
      /\ \A l \in Loops : l # k => queue'[l] = queue[l]
  BY DEF Types
<1>3. Append(queue[k], f) \in Seq(FunctorType)
  BY <1>1, AppendProperties
<1>4. queue' \in [Loops -> Seq(FunctorType)]
  <2> DEFINE q == Append(queue[k], f)
  <2>1. queue' = [queue EXCEPT ![k] = q]
    BY DEF Types
  <2> HIDE DEF q
  <2> QED BY <1>3, <2>1 DEF Types, q
<1>5. Todo(batch[k], ran[k], queue'[k]) = Append(Line(k), f)
  <2> DEFINE b == batch[k]
             n == ran[k]
             q == queue[k]
  <2>1. b \in Seq(FunctorType) /\ n \in 0..Len(b) /\ q \in Seq(FunctorType)
    BY <1>1
  <2> HIDE DEF b, n, q
  <2>2. Todo(b, n, Append(q, f)) = Append(Todo(b, n, q), f)
    BY <2>1, TodoAppend
  <2> QED BY <1>2, <2>2 DEF Line, b, n, q
<1>6. Range(Append(Line(k), f)) = Range(Line(k)) \cup {f}
  BY <1>1, RangeAppend
<1>7. Range(queue'[k]) = Range(queue[k]) \cup {f}
  BY <1>1, <1>2, RangeAppend
<1>8. ASSUME First(Line(k)),
             f.call = "established" => \A g \in Range(Line(k)) : g.conn # f.conn
      PROVE  First(Append(Line(k), f))
  BY <1>1, <1>8, FirstAppend
<1> QED BY <1>2, <1>4, <1>5, <1>6, <1>7, <1>8

\* The functor that runs is the first of the line.
Rest(l) == Todo(batch[l], ran[l] + 1, queue[l])

LEMMA Popped ==
  ASSUME Types, FirstInv, NEW l \in Loops, NEW call, NEW c, Runs(l, call, c)
  PROVE  /\ Rest(l) \in Seq(FunctorType)
         /\ First(Rest(l))
         /\ Range(Line(l)) = {Functor(call, c)} \cup Range(Rest(l))
         /\ \A g \in Range(Rest(l)) : g.call = "established" => g.conn # c
         /\ Functor(call, c) \in Range(Line(l))
         /\ c \in Conns
         /\ phase[l] = "run"
         /\ ran' \in [Loops -> Nat] /\ ran'[l] = ran[l] + 1
         /\ \A k \in Loops : ran'[k] <= Len(batch[k])
         /\ \A k \in Loops : k # l => ran'[k] = ran[k]
<1>1. /\ queue[l] \in Seq(FunctorType) /\ batch[l] \in Seq(FunctorType)
      /\ ran[l] \in 0..Len(batch[l]) /\ Line(l) \in Seq(FunctorType)
      /\ ran[l] \in Nat /\ Len(batch[l]) \in Nat
      /\ Range(Line(l)) \subseteq FunctorType
  BY LineFacts
<1>2. /\ phase[l] = "run" /\ ran[l] < Len(batch[l])
      /\ batch[l][ran[l] + 1] = Functor(call, c) /\ ran' = [ran EXCEPT ![l] = @ + 1]
  BY DEF Runs
<1>3. /\ Line(l) # <<>> /\ Tail(Line(l)) = Rest(l) /\ Line(l)[1] = Functor(call, c)
  <2> DEFINE b == batch[l]
             n == ran[l]
             q == queue[l]
  <2>1. b \in Seq(FunctorType) /\ n \in 0..Len(b) /\ n < Len(b) /\ q \in Seq(FunctorType)
    BY <1>1, <1>2
  <2> HIDE DEF b, n, q
  <2>2. /\ Todo(b, n, q) # <<>>
        /\ Tail(Todo(b, n, q)) = Todo(b, n + 1, q)
        /\ Todo(b, n, q)[1] = b[n + 1]
    BY <2>1, TodoFirst
  <2> QED BY <1>2, <2>2 DEF Line, Rest, b, n, q
<1>4. ran[l] + 1 \in 0..Len(batch[l])
  BY <1>1, <1>2
<1>5. Rest(l) \in Seq(FunctorType)
  BY <1>1, <1>4, TodoType DEF Rest
<1>6. First(Line(l))
  BY DEF FirstInv
<1>7. /\ First(Rest(l))
      /\ Range(Line(l)) = {Functor(call, c)} \cup Range(Rest(l))
      /\ \A g \in Range(Rest(l)) : g.call = "established" => g.conn # Functor(call, c).conn
  BY <1>1, <1>3, <1>6, FirstTail
<1>8. Functor(call, c).conn = c
  BY FunctorIs
<1>9. c \in Conns
  BY <1>1, <1>7, <1>8 DEF FunctorType
<1>10. /\ ran' \in [Loops -> Nat] /\ ran'[l] = ran[l] + 1
       /\ \A k \in Loops : k # l => ran'[k] = ran[k]
  BY <1>1, <1>2 DEF Types
<1>11. ASSUME NEW k \in Loops PROVE ran'[k] <= Len(batch[k])
  <2>1. ran[k] <= Len(batch[k])
    BY DEF Types
  <2>2. ran'[l] <= Len(batch[l])
    BY <1>1, <1>4, <1>10
  <2> QED BY <1>10, <2>1, <2>2
<1> QED BY <1>2, <1>5, <1>7, <1>8, <1>9, <1>10, <1>11

-----------------------------------------------------------------------------
(* The invariant holds at first, and is kept by every action.              *)

-----------------------------------------------------------------------------
(* The invariant holds at first, and is kept by every action.              *)

LEMMA NewConnGood ==
  ASSUME NEW l \in Loops
  PROVE  NewConn(l) \in ConnType /\ Good(NewConn(l), 0) /\ NewConn(l).loop = l
<1> DEFINE ch == NewChannel
<1>1. Sound(ch) /\ ch.events = {} /\ ~ch.on /\ ch \in ChannelType
  BY NewSound DEF Sound
<1> HIDE DEF ch
<1>2. NewConn(l) =
        [loop |-> l, state |-> "connecting", ch |-> ch, output |-> FALSE,
         unread |-> FALSE, fin |-> FALSE, rst |-> FALSE, err |-> FALSE, shut |-> FALSE]
  BY DEF NewConn, ch
<1>3. NewConn(l) \in ConnType
  BY <1>1, <1>2 DEF ConnType
<1> QED BY <1>1, <1>2, <1>3 DEF Good

LEMMA InvInit == Init => Inv
<1> SUFFICES ASSUME Init PROVE Inv
  OBVIOUS
<1> USE DEF Init
<1>1. Main \in Loops
  BY LoopFacts
<1>2. NewConn(Main) \in ConnType /\ Good(NewConn(Main), 0)
  BY <1>1, NewConnGood
<1>3. \A l \in Loops : Line(l) = <<>>
  <2>1. <<>> \in Seq(FunctorType)
    OBVIOUS
  <2>2. Todo(<<>>, 0, <<>>) = <<>>
    BY <2>1, TodoSwap
  <2> QED BY <2>2 DEF Line
<1>4. Range(<<>>) = {} /\ Len(<<>>) = 0 /\ <<>> \in Seq(FunctorType)
  BY RangeEmpty
<1>5. Types
  <2>1. joining \in 1..(NumThreads + 1) /\ 0 \in 0..MaxReports
    BY ThreadsAssumption, BoundAssumption
  <2>2. IF NumThreads = 0 THEN next_ = 0 ELSE next_ < NumThreads
    BY ThreadsAssumption
  <2>3. /\ queue \in [Loops -> Seq(FunctorType)] /\ batch \in [Loops -> Seq(FunctorType)]
        /\ ran \in [Loops -> Nat] /\ \A l \in Loops : ran[l] <= Len(batch[l])
    BY <1>4
  <2>4. conn \in [Conns -> ConnType] /\ reports \in [Conns -> 0..MaxReports]
    BY <1>2, <2>1
  <2>5. /\ phase \in [Loops -> Phases]
        /\ active \in [Loops -> SUBSET ActiveType]
        /\ quit \in [Loops -> BOOLEAN]
    BY DEF Phases
  <2> QED BY <2>1, <2>2, <2>3, <2>4, <2>5 DEF Types
<1>6. ChannelInv
  <2>1. Sound(accept_channel_)
    BY NewSound, EnableReading DEF Listening
  <2> QED BY <1>2, <2>1 DEF ChannelInv
<1>7. PhaseInv /\ DtorInv /\ FreshInv /\ ActiveInv
  BY DEF PhaseInv, DtorInv, FreshInv, ActiveInv
<1>8. OwnInv
  BY <1>4 DEF OwnInv, Functors
<1>9. FirstInv
  BY <1>3, <1>4 DEF FirstInv, First
<1>10. MapInv
  BY <1>3, <1>4 DEF MapInv
<1>11. SingleInv
  BY <1>1, <1>4 DEF SingleInv, ClosedOnce, OnlyRaw
<1> QED BY <1>5, <1>6, <1>7, <1>8, <1>9, <1>10, <1>11 DEF Inv

\* The record of one connection changes, and is reported or not.
LEMMA ConnStep ==
  ASSUME Inv, NEW c \in Conns, NEW s, NEW n, Good(s, n), conn' = [conn EXCEPT ![c] = s],
         reports'[c] = n, \A d \in Conns : d # c => reports'[d] = reports[d]
  PROVE  /\ conn' \in [Conns -> ConnType]
         /\ conn'[c] = s
         /\ \A d \in Conns : d # c => conn'[d] = conn[d]
         /\ \A d \in Conns : Good(conn'[d], reports'[d])
<1>1. s \in ConnType
  BY DEF Good
<1>2. /\ conn' \in [Conns -> ConnType]
      /\ conn'[c] = s
      /\ \A d \in Conns : d # c => conn'[d] = conn[d]
  BY <1>1 DEF Inv, Types
<1> QED BY <1>2 DEF Inv, ChannelInv

\* One more report to the user.
LEMMA Reported1 ==
  ASSUME Inv, NEW c \in Conns, reports[c] < MaxReports,
         reports' = [reports EXCEPT ![c] = @ + 1]
  PROVE  /\ reports' \in [Conns -> 0..MaxReports] /\ reports'[c] = reports[c] + 1
         /\ \A d \in Conns : d # c => reports'[d] = reports[d]
<1>1. reports[c] \in 0..MaxReports /\ MaxReports \in Nat
  BY BoundAssumption DEF Inv, Types
<1>2. reports[c] + 1 \in 0..MaxReports
  BY <1>1
<1> QED BY <1>2 DEF Inv, Types

\* A step of one connection that reports nothing.
LEMMA Steady ==
  ASSUME Inv, NEW c \in Conns, NEW s, Good(s, reports[c]), s.loop = conn[c].loop,
         conn[c].ch.on => s.ch.on, NotBoth => (s.ch.on <=> conn[c].ch.on),
         conn' = [conn EXCEPT ![c] = s],
         active' \in [Loops -> SUBSET ActiveType],
         \A l \in Loops : active'[l] \subseteq active[l],
         UNCHANGED <<connections_, backlog, accepted, next_, reports, phase, accept_active,
                     batch, ran, queue, dtorVars>>
  PROVE  Inv'
<1> USE DEF dtorVars
<1>1. /\ conn' \in [Conns -> ConnType]
      /\ conn'[c] = s
      /\ \A d \in Conns : d # c => conn'[d] = conn[d]
      /\ \A d \in Conns : Good(conn'[d], reports[d])
  BY ConnStep
<1>2. \A d \in Conns :
        /\ conn'[d].loop = conn[d].loop
        /\ conn[d].ch.on => conn'[d].ch.on
        /\ NotBoth => (conn'[d].ch.on <=> conn[d].ch.on)
  BY <1>1
<1>3. Types'
  BY <1>1 DEF Inv, Types
<1>4. ChannelInv'
  BY <1>1 DEF Inv, ChannelInv
<1>5. PhaseInv' /\ DtorInv'
  BY DEF Inv, PhaseInv, DtorInv
<1>6. FreshInv'
  BY DEF Inv, FreshInv
<1>7. accepted \subseteq Conns /\ \A l \in Loops : active[l] \subseteq ActiveType
  BY DEF Inv, Types
<1>8. ActiveInv'
  BY <1>2, <1>7 DEF Inv, ActiveInv, ActiveType
<1>9. OwnInv'
  BY <1>2, <1>7 DEF Inv, OwnInv, FunctorOK, Functors
<1>10. FirstInv'
  BY DEF Inv, FirstInv, Line
<1>11. MapInv'
  <2>1. ASSUME NEW d \in accepted PROVE Tracked(d)'
    <3>1. /\ conn'[d].loop = conn[d].loop
          /\ NotBoth => (conn'[d].ch.on <=> conn[d].ch.on)
      BY <1>2, <1>7
    <3>2. Tracked(d)
      BY DEF Inv, MapInv
    <3> QED BY <3>1, <3>2 DEF Tracked, Alive, Line
  <2> QED BY <2>1 DEF Inv, MapInv, Ready, Line
<1>12. SingleInv'
  <2>1. \A d \in Conns : ClosedOnce(d) /\ NotBoth => ClosedOnce(d)'
    BY <1>2, LoopFacts DEF ClosedOnce, Line
  <2> QED BY <2>1 DEF Inv, SingleInv
<1> QED BY <1>3, <1>4, <1>5, <1>6, <1>8, <1>9, <1>10, <1>11, <1>12 DEF Inv

\* Nothing happens to a connection or a functor: the loops and the destructor go on.
LEMMA Calm ==
  ASSUME Inv, UNCHANGED <<conn, connections_, accepted, reports, queue, batch, ran>>
  PROVE  /\ (\A c \in Conns : Good(conn[c], reports[c]))'
         /\ FreshInv' /\ OwnInv' /\ FirstInv'
         /\ (dtor' = "no" => dtor = "no") /\ (\A l \in Loops : Alive(l)' => Alive(l)) => MapInv'
<1>1. (\A c \in Conns : Good(conn[c], reports[c]))' /\ FreshInv' /\ OwnInv'
  BY DEF Inv, ChannelInv, FreshInv, OwnInv, FunctorOK, Functors
<1>2. FirstInv'
  BY DEF Inv, FirstInv, Line
<1>3. ASSUME dtor' = "no" => dtor = "no", \A l \in Loops : Alive(l)' => Alive(l)
      PROVE  MapInv'
  <2>1. ASSUME NEW c \in accepted PROVE Tracked(c)'
    <3>1. conn[c].loop \in Loops
      BY DEF Inv, Types, ConnType
    <3>2. Tracked(c)
      BY DEF Inv, MapInv
    <3> QED BY <1>3, <3>1, <3>2 DEF Tracked, Line
  <2>2. \A l \in Loops : \A f \in Range(Line(l)) : Ready(f)'
    BY DEF Inv, MapInv, Ready
  <2> QED BY <2>1, <2>2 DEF MapInv, Line
<1> QED BY <1>1, <1>2, <1>3

\* Only the users, or nobody, do something.
LEMMA InvStutter ==
  ASSUME Inv, UNCHANGED <<conn, connections_, backlog, accepted, next_, reports, loopVars,
                          queue, dtorVars>>
  PROVE  Inv'
<1> USE DEF loopVars, dtorVars
<1>1. Types' /\ ChannelInv' /\ PhaseInv' /\ DtorInv' /\ ActiveInv'
  BY DEF Inv, Types, ChannelInv, PhaseInv, DtorInv, ActiveInv
<1>2. FreshInv' /\ OwnInv' /\ FirstInv' /\ MapInv'
  BY Calm DEF Alive
<1>3. SingleInv'
  BY DEF Inv, SingleInv, ClosedOnce, Line
<1> QED BY <1>1, <1>2, <1>3 DEF Inv

LEMMA InvPeerConnect == ASSUME Inv, NEW c \in Conns, PeerConnect(c) PROVE Inv'
<1> USE DEF PeerConnect, loopVars, dtorVars
<1>1. Types'
  BY DEF Inv, Types
<1>2. ChannelInv' /\ PhaseInv' /\ DtorInv' /\ ActiveInv'
  BY DEF Inv, ChannelInv, PhaseInv, DtorInv, ActiveInv
<1>3. FreshInv' /\ OwnInv' /\ FirstInv' /\ MapInv'
  BY Calm DEF Alive
<1>4. SingleInv'
  BY DEF Inv, SingleInv, ClosedOnce, Line
<1> QED BY <1>1, <1>2, <1>3, <1>4 DEF Inv

\* The peer touches the socket, and nothing else.
LEMMA InvPeer ==
  ASSUME Inv, NEW c \in Conns, PeerData(c) \/ PeerFin(c) \/ PeerRst(c)
  PROVE  Inv'
<1>1. PICK s : /\ s \in {[conn[c] EXCEPT !.unread = TRUE], [conn[c] EXCEPT !.fin = TRUE],
                         [conn[c] EXCEPT !.rst = TRUE, !.err = TRUE]}
               /\ Peer(c, s)
  BY DEF PeerData, PeerFin, PeerRst
<1>2. Good(conn[c], reports[c]) /\ conn[c] \in ConnType
  BY GoodChannel DEF Inv, ChannelInv
<1>3. /\ s \in ConnType /\ s.loop = conn[c].loop /\ s.state = conn[c].state
      /\ s.ch = conn[c].ch /\ s.output = conn[c].output /\ s.shut = conn[c].shut
  BY <1>1, <1>2 DEF ConnType
<1>4. Good(s, reports[c])
  BY <1>2, <1>3 DEF Good
<1>5. active \in [Loops -> SUBSET ActiveType]
  BY DEF Inv, Types
<1> QED BY <1>1, <1>3, <1>4, <1>5, Steady DEF Peer, loopVars

\* The loop of an event_loop_thread comes to run: its batch is empty.
LEMMA InvLoopEnter == ASSUME Inv, NEW l \in Loops, LoopEnter(l) PROVE Inv'
<1> USE DEF LoopEnter, connVars
<1>1. /\ phase' \in [Loops -> Phases] /\ phase[l] = "start" /\ phase'[l] = "run"
      /\ \A k \in Loops : k # l => phase'[k] = phase[k]
  BY DEF Inv, Types, Phases
<1>2. /\ quit' \in [Loops -> BOOLEAN] /\ \A k \in Loops : quit'[k] => quit[k]
  BY DEF Inv, Types
<1>3. Types'
  BY <1>1, <1>2 DEF Inv, Types
<1>4. ChannelInv' /\ ActiveInv'
  BY DEF Inv, ChannelInv, ActiveInv
<1>5. PhaseInv'
  BY <1>1, LoopFacts DEF Inv, PhaseInv
<1>6. DtorInv'
  BY <1>1, <1>2, LoopFacts DEF Inv, DtorInv
<1>7. \A k \in Loops : Alive(k)' => Alive(k)
  BY <1>1 DEF Alive
<1>8. FreshInv' /\ OwnInv' /\ FirstInv' /\ MapInv'
  BY <1>7, Calm
<1>9. SingleInv'
  BY <1>1, LoopFacts DEF Inv, SingleInv, ClosedOnce, Line
<1> QED BY <1>3, <1>4, <1>5, <1>6, <1>8, <1>9 DEF Inv

\* epoll only reports what is registered, and once.
LEMMA InvPoll == ASSUME Inv, NEW l \in Loops, Poll(l) PROVE Inv'
<1> USE DEF Poll, connVars, dtorVars
<1>1. PICK room : active' = [active EXCEPT ![l] = ReadyChannels(l, room)]
  BY DEF Poll
<1> DEFINE R == ReadyChannels(l, room)
<1>2. /\ R \subseteq ActiveType
      /\ \A a \in R : /\ conn[a.conn].loop = l /\ conn[a.conn].ch.on
                      /\ reports[a.conn] < MaxReports
                      /\ \A b \in R : a.conn = b.conn => a = b
  <2>1. \A c \in Conns : Reported(conn[c], c \in room) \subseteq Reports
    BY DEF Reported
  <2>2. \A c \in Conns : Reported(conn[c], c \in room) # {} => conn[c].ch.on
    BY DEF Reported
  <2>3. R = {[conn |-> c, rev |-> Reported(conn[c], c \in room)] :
               c \in {d \in Conns : /\ conn[d].loop = l
                                    /\ reports[d] < MaxReports
                                    /\ Reported(conn[d], d \in room) # {}}}
    BY DEF ReadyChannels
  <2> HIDE DEF R
  <2>4. ASSUME NEW a \in R
        PROVE  /\ a \in ActiveType /\ conn[a.conn].loop = l /\ conn[a.conn].ch.on
               /\ reports[a.conn] < MaxReports
               /\ a.rev = Reported(conn[a.conn], a.conn \in room)
    <3>1. PICK c \in Conns : /\ a = [conn |-> c, rev |-> Reported(conn[c], c \in room)]
                             /\ conn[c].loop = l /\ reports[c] < MaxReports
                             /\ Reported(conn[c], c \in room) # {}
      BY <2>3
    <3>2. a.conn = c /\ a.rev = Reported(conn[c], c \in room)
      BY <3>1
    <3>3. a \in ActiveType
      BY <2>1, <3>1 DEF ActiveType
    <3> QED BY <2>2, <3>1, <3>2, <3>3
  <2>5. ASSUME NEW a \in R, NEW b \in R, a.conn = b.conn PROVE a = b
    <3>1. a.rev = b.rev /\ a \in ActiveType /\ b \in ActiveType
      BY <2>4, <2>5
    <3> QED BY <2>5, <3>1 DEF ActiveType
  <2> QED BY <2>4, <2>5
<1> HIDE DEF R
<1>3. /\ active' \in [Loops -> SUBSET ActiveType] /\ active'[l] = R
      /\ \A k \in Loops : k # l => active'[k] = active[k]
  BY <1>1, <1>2 DEF Inv, Types, R
<1>4. /\ phase' \in [Loops -> Phases]
      /\ phase[l] = "poll" /\ phase'[l] = "handle"
      /\ \A k \in Loops : k # l => phase'[k] = phase[k]
  BY DEF Inv, Types, Phases
<1>5. Types'
  <2>1. accept_active' \in BOOLEAN
    BY DEF Inv, Types, AcceptReady
  <2> QED BY <1>3, <1>4, <2>1 DEF Inv, Types
<1>6. ASSUME NEW a \in R PROVE a.conn \in accepted
  <2>1. a.conn \in Conns /\ conn[a.conn].ch.on
    BY <1>2 DEF ActiveType
  <2>2. reports[a.conn] # 0
    BY <2>1 DEF Inv, ChannelInv, Good
  <2> QED BY <2>1, <2>2 DEF Inv, FreshInv
<1>7. ActiveInv'
  BY <1>2, <1>3, <1>6 DEF Inv, ActiveInv
<1>8. PhaseInv'
  BY <1>3, <1>4, LoopFacts DEF Inv, PhaseInv, AcceptReady
<1>9. DtorInv'
  BY <1>4, LoopFacts DEF Inv, DtorInv
<1>10. ChannelInv'
  BY DEF Inv, ChannelInv
<1>11. \A k \in Loops : Alive(k)' => Alive(k)
  BY <1>4 DEF Alive
<1>12. FreshInv' /\ OwnInv' /\ FirstInv' /\ MapInv'
  BY <1>11, Calm
<1>13. SingleInv'
  <2> SUFFICES ASSUME NumThreads = 0
               PROVE  /\ phase'[Main] # "handle" => OnlyRaw(queue[Main])
                      /\ NotBoth => \A c \in Conns : ClosedOnce(c)'
    BY DEF SingleInv
  <2>1. l = Main
    BY LoopFacts
  <2>2. batch[Main] = <<>> /\ ran[Main] = 0 /\ OnlyRaw(queue[Main])
    BY <1>4, <2>1 DEF Inv, PhaseInv, SingleInv
  <2>3. Line(Main) = queue[Main]
    <3>1. queue[Main] \in Seq(FunctorType)
      BY LoopFacts DEF Inv, Types
    <3>2. Todo(<<>>, 0, queue[Main]) = queue[Main]
      BY <3>1, TodoSwap
    <3> QED BY <2>2, <3>2 DEF Line
  <2>4. ASSUME NotBoth, NEW c \in Conns PROVE ClosedOnce(c)'
    <3>1. ClosedOnce(c)
      BY <2>4 DEF Inv, SingleInv
    <3>2. ~(Functor("destroyed", c) \in Range(Line(Main)))
      BY <2>2, <2>3, FunctorIs DEF OnlyRaw, Raw
    <3> QED BY <1>2, <1>3, <2>1, <3>1, <3>2 DEF ClosedOnce, Line
  <2> QED BY <1>4, <2>1, <2>4
<1> QED BY <1>5, <1>7, <1>8, <1>9, <1>10, <1>12, <1>13 DEF Inv

LEMMA InvAcceptFails == ASSUME Inv, AcceptFails PROVE Inv'
<1> USE DEF AcceptFails, AcceptorHandleRead, connVars, dtorVars
<1>1. Types'
  BY DEF Inv, Types
<1>2. ChannelInv' /\ PhaseInv' /\ DtorInv' /\ ActiveInv'
  BY DEF Inv, ChannelInv, PhaseInv, DtorInv, ActiveInv
<1>3. FreshInv' /\ OwnInv' /\ FirstInv' /\ MapInv'
  BY Calm DEF Alive
<1>4. SingleInv'
  BY DEF Inv, SingleInv, ClosedOnce, Line
<1> QED BY <1>1, <1>2, <1>3, <1>4 DEF Inv

\* A connection the server never sees starts over.
LEMMA InvAcceptAborted == ASSUME Inv, NEW c \in Conns, AcceptAborted(c) PROVE Inv'
<1> USE DEF AcceptAborted, AcceptorHandleRead, dtorVars
<1> DEFINE s == NewConn(Main)
<1>1. Good(s, 0)
  BY LoopFacts, NewConnGood
<1> HIDE DEF s
<1>2. c \notin accepted /\ accepted \subseteq Conns /\ reports[c] = 0
  BY DEF Inv, Types, FreshInv
<1>3. /\ conn' \in [Conns -> ConnType]
      /\ \A d \in Conns : d # c => conn'[d] = conn[d]
      /\ \A d \in Conns : Good(conn'[d], reports'[d])
  <2>1. conn' = [conn EXCEPT ![c] = s]
    BY DEF s
  <2> QED BY <1>1, <1>2, <2>1, ConnStep
<1>4. Types'
  BY <1>3 DEF Inv, Types
<1>5. ChannelInv' /\ PhaseInv' /\ DtorInv' /\ FreshInv'
  BY <1>3 DEF Inv, ChannelInv, PhaseInv, DtorInv, FreshInv
<1>6. \A d \in accepted : conn'[d] = conn[d]
  BY <1>2, <1>3
<1>7. ActiveInv'
  BY <1>6 DEF Inv, ActiveInv
<1>8. OwnInv'
  BY <1>6 DEF Inv, OwnInv, FunctorOK, Functors
<1>9. FirstInv'
  BY DEF Inv, FirstInv, Line
<1>10. MapInv'
  <2>1. \A d \in accepted : Tracked(d)'
    BY <1>6 DEF Inv, MapInv, Tracked, Alive, Line
  <2> QED BY <2>1 DEF Inv, MapInv, Ready, Line
<1>11. SingleInv'
  <2> SUFFICES ASSUME NumThreads = 0, NotBoth, NEW d \in Conns PROVE ClosedOnce(d)'
    BY DEF Inv, SingleInv
  <2>1. ClosedOnce(d)
    BY DEF Inv, SingleInv
  <2> QED BY <1>2, <1>3, <2>1 DEF ClosedOnce, Line
<1> QED BY <1>4, <1>5, <1>7, <1>8, <1>9, <1>10, <1>11 DEF Inv

\* The swap: the line stays what it is.
LEMMA InvDrainBegin == ASSUME Inv, NEW l \in Loops, DrainBegin(l) PROVE Inv'
<1> USE DEF DrainBegin, connVars, dtorVars
<1>1. /\ queue[l] \in Seq(FunctorType) /\ ran[l] = 0 /\ batch[l] = <<>>
      /\ phase[l] = "handle"
  BY LineFacts DEF Inv, PhaseInv
<1>2. /\ batch' \in [Loops -> Seq(FunctorType)] /\ batch'[l] = queue[l]
      /\ queue' \in [Loops -> Seq(FunctorType)] /\ queue'[l] = <<>>
      /\ phase' \in [Loops -> Phases] /\ phase'[l] = "run"
      /\ \A k \in Loops :
           k # l => batch'[k] = batch[k] /\ queue'[k] = queue[k] /\ phase'[k] = phase[k]
  BY <1>1 DEF Inv, Types, Phases
<1>3. \A k \in Loops : Line(k)' = Line(k)
  <2>1. Todo(<<>>, 0, queue[l]) = queue[l] /\ Todo(queue[l], 0, <<>>) = queue[l]
    BY <1>1, TodoSwap
  <2> QED BY <1>1, <1>2, <2>1 DEF Line
<1>4. \A k \in Loops : Functors(k)' = Functors(k)
  BY <1>1, <1>2, RangeEmpty DEF Functors
<1>5. \A k \in Loops : Alive(k)' => Alive(k)
  BY <1>1, <1>2 DEF Alive
<1>6. Types'
  <2>1. \A k \in Loops : ran[k] <= Len(batch'[k])
    <3>1. Len(queue[l]) \in Nat
      BY <1>1, LenProperties
    <3> QED BY <1>1, <1>2, <3>1 DEF Inv, Types
  <2> QED BY <1>2, <2>1 DEF Inv, Types
<1>7. ChannelInv' /\ FreshInv' /\ ActiveInv'
  BY DEF Inv, ChannelInv, FreshInv, ActiveInv
<1>8. PhaseInv' /\ DtorInv'
  BY <1>1, <1>2, LoopFacts DEF Inv, PhaseInv, DtorInv
<1>9. OwnInv'
  BY <1>4 DEF Inv, OwnInv, FunctorOK
<1>10. FirstInv'
  BY <1>3 DEF Inv, FirstInv
<1>11. MapInv'
  <2>1. ASSUME NEW c \in accepted PROVE Tracked(c)'
    <3>1. conn[c].loop \in Loops
      BY DEF Inv, Types, ConnType
    <3>2. Tracked(c)
      BY DEF Inv, MapInv
    <3> QED BY <1>3, <1>5, <3>1, <3>2, LoopFacts DEF Tracked
  <2> QED BY <1>3, <2>1 DEF Inv, MapInv, Ready
<1>12. SingleInv'
  BY <1>2, <1>3, LoopFacts, RangeEmpty DEF Inv, SingleInv, ClosedOnce, OnlyRaw
<1> QED BY <1>6, <1>7, <1>8, <1>9, <1>10, <1>11, <1>12 DEF Inv

\* The batch is done; a loop that quits takes its queue with it, and is not the
\* main loop.
LEMMA InvDrainEnd == ASSUME Inv, NEW l \in Loops, DrainEnd(l) PROVE Inv'
<1> USE DEF DrainEnd, connVars, dtorVars
<1>1. /\ queue[l] \in Seq(FunctorType) /\ batch[l] \in Seq(FunctorType)
      /\ ran[l] = Len(batch[l]) /\ phase[l] = "run"
      /\ Range(queue[l]) \subseteq Functors(l)
  BY LineFacts DEF Inv, Functors
<1>2. /\ batch' \in [Loops -> Seq(FunctorType)] /\ batch'[l] = <<>>
      /\ ran' \in [Loops -> Nat] /\ ran'[l] = 0
      /\ phase' \in [Loops -> Phases]
      /\ phase'[l] = IF quit[l] THEN "exited" ELSE "poll"
      /\ queue' \in [Loops -> Seq(FunctorType)]
      /\ queue'[l] = IF quit[l] THEN <<>> ELSE queue[l]
      /\ \A k \in Loops : k # l => /\ batch'[k] = batch[k] /\ queue'[k] = queue[k]
                                   /\ ran'[k] = ran[k] /\ phase'[k] = phase[k]
  BY <1>1 DEF Inv, Types, Phases
<1>3. Todo(batch[l], Len(batch[l]), queue[l]) = queue[l] /\ Todo(<<>>, 0, queue[l]) = queue[l]
  BY <1>1, TodoSwap, TodoEnd
<1>4. <<>> \in Seq(FunctorType) /\ Len(<<>>) = 0
  OBVIOUS
<1>5. Todo(<<>>, 0, <<>>) = <<>>
  BY <1>4, TodoSwap
<1>6. \A k \in Loops : k # l \/ ~quit[l] => Line(k)' = Line(k)
  BY <1>1, <1>2, <1>3 DEF Line
<1>7. quit[l] => Line(l)' = <<>> /\ l # Main /\ NumThreads # 0
  BY <1>2, <1>5, LoopFacts DEF Line, Inv, DtorInv
<1>8. \A k \in Loops : Functors(k)' \subseteq Functors(k)
  BY <1>1, <1>2, RangeEmpty DEF Functors
<1>9. \A k \in Loops : Alive(k)' => Alive(k) /\ (k # l \/ ~quit[l])
  BY <1>1, <1>2, <1>7 DEF Alive
<1>10. Types'
  BY <1>2, <1>4 DEF Inv, Types
<1>11. ChannelInv' /\ FreshInv' /\ ActiveInv'
  BY DEF Inv, ChannelInv, FreshInv, ActiveInv
<1>12. PhaseInv'
  BY <1>1, <1>2, LoopFacts DEF Inv, PhaseInv
<1>13. DtorInv'
  BY <1>1, <1>2, LoopFacts DEF Inv, DtorInv
<1>14. OwnInv'
  BY <1>8 DEF Inv, OwnInv, FunctorOK
<1>15. FirstInv'
  <2>1. First(<<>>)
    BY <1>4 DEF First
  <2> QED BY <1>6, <1>7, <2>1 DEF Inv, FirstInv
<1>16. MapInv'
  <2>1. ASSUME NEW c \in accepted PROVE Tracked(c)'
    <3>1. conn[c].loop \in Loops
      BY DEF Inv, Types, ConnType
    <3>2. Tracked(c)
      BY DEF Inv, MapInv
    <3>3. Line(Main)' = Line(Main)
      BY <1>6, <1>7, LoopFacts
    <3> QED BY <1>6, <1>9, <3>1, <3>2, <3>3 DEF Tracked
  <2>2. ASSUME NEW k \in Loops, NEW f \in Range(Line(k))' PROVE Ready(f)
    <3>1. f \in Range(Line(k))
      BY <1>6, <1>7, RangeEmpty
    <3> QED BY <3>1 DEF Inv, MapInv
  <2> QED BY <2>1, <2>2 DEF MapInv, Ready
<1>17. SingleInv'
  BY <1>1, <1>2, <1>6, <1>7, LoopFacts DEF Inv, SingleInv, ClosedOnce
<1> QED BY <1>10, <1>11, <1>12, <1>13, <1>14, <1>15, <1>16, <1>17 DEF Inv

LEMMA InvDtorBegin == ASSUME Inv, DtorBegin PROVE Inv'
<1> USE DEF DtorBegin, connVars
<1>1. /\ phase' \in [Loops -> Phases]
      /\ phase[Main] = "poll" /\ phase'[Main] = "exited"
      /\ \A k \in Loops : k # Main => phase'[k] = phase[k]
  BY LoopFacts DEF Inv, Types, Phases
<1>2. Types'
  BY <1>1 DEF Inv, Types
<1>3. ChannelInv' /\ ActiveInv'
  BY DEF Inv, ChannelInv, ActiveInv
<1>4. PhaseInv' /\ DtorInv'
  BY <1>1, LoopFacts DEF Inv, PhaseInv, DtorInv
<1>5. \A k \in Loops : Alive(k)' => Alive(k)
  BY <1>1 DEF Alive
<1>6. FreshInv' /\ OwnInv' /\ FirstInv' /\ MapInv'
  BY <1>5, Calm
<1>7. SingleInv'
  BY <1>1 DEF Inv, SingleInv, ClosedOnce, Line
<1> QED BY <1>2, <1>3, <1>4, <1>6, <1>7 DEF Inv

\* The rest of the destructor: the acceptor and the io loops.
LEMMA InvDtor ==
  ASSUME Inv, DtorMembers \/ DtorQuit \/ DtorJoin \/ DtorEnd
  PROVE  Inv'
<1> USE DEF connVars, loopVars
<1>1. /\ UNCHANGED <<conn, connections_, backlog, accepted, next_, reports, phase, active,
                     accept_active, batch, ran, queue>>
      /\ dtor # "no" /\ dtor' \in {"conns", "pool", "join", "done"}
  BY DEF DtorMembers, DtorQuit, DtorJoin, DtorEnd
<1>2. joining' \in 1..(NumThreads + 1)
  BY ThreadsAssumption
  DEF Inv, Types, DtorInv, DtorMembers, DtorQuit, DtorJoin, DtorEnd, IoLoops
<1>3. quit' \in [Loops -> BOOLEAN]
  BY DEF Inv, Types, DtorMembers, DtorQuit, DtorJoin, DtorEnd
<1>4. Types'
  BY <1>1, <1>2, <1>3 DEF Inv, Types
<1>5. Sound(accept_channel_') /\ (dtor' = "done" => ~accept_channel_'.on)
  <2>1. Sound(accept_channel_)
    BY DEF Inv, ChannelInv
  <2>2. dtor = "done" => ~accept_channel_.on
    BY DEF Inv, DtorInv
  <2> DEFINE gone == RemoveChannel(disable_all(accept_channel_))
  <2>3. Sound(gone) /\ ~gone.on
    BY <2>1, DisableAll, Removed
  <2>4. accept_channel_' = accept_channel_ \/ accept_channel_' = gone
    BY DEF DtorMembers, DtorQuit, DtorJoin, DtorEnd, AcceptorDtor
  <2>5. dtor' = "done" => dtor = "done" \/ accept_channel_' = gone
    BY DEF DtorMembers, DtorQuit, DtorJoin, DtorEnd, AcceptorDtor
  <2> HIDE DEF gone
  <2>6. dtor' = "done" => ~accept_channel_'.on
    BY <2>2, <2>3, <2>4, <2>5
  <2> QED BY <2>1, <2>3, <2>4, <2>6
<1>6. ChannelInv'
  BY <1>1, <1>5 DEF Inv, ChannelInv
<1>7. PhaseInv' /\ ActiveInv'
  BY <1>1 DEF Inv, PhaseInv, ActiveInv
<1>8. DtorInv'
  <2>1. ASSUME NEW l \in Loops, quit'[l] PROVE dtor' \in {"pool", "join", "done"} /\ l # Main
    <3>1. quit[l] => dtor \in {"pool", "join", "done"} /\ l # Main
      BY DEF Inv, DtorInv
    <3>2. DtorQuit /\ joining # l => quit'[l] = quit[l]
      BY DEF DtorQuit, Inv, Types
    <3>3. joining \in IoLoops => joining # Main
      BY LoopFacts
    <3> QED BY <2>1, <3>1, <3>2, <3>3 DEF DtorMembers, DtorQuit, DtorJoin, DtorEnd
  <2>2. dtor' = "join" => joining' \in IoLoops
    BY DEF Inv, DtorInv, DtorMembers, DtorQuit, DtorJoin, DtorEnd
  <2> QED BY <1>1, <1>5, <2>1, <2>2 DEF Inv, DtorInv
<1>9. FreshInv' /\ OwnInv' /\ FirstInv' /\ MapInv'
  BY <1>1, Calm DEF Alive
<1>10. SingleInv'
  BY <1>1 DEF Inv, SingleInv, ClosedOnce, Line
<1> QED BY <1>4, <1>6, <1>7, <1>8, <1>9, <1>10 DEF Inv


\* new_connection: a fresh connection enters the map, and the line of its loop.
LEMMA InvAccept == ASSUME Inv, NEW c \in Conns, Accept(c) PROVE Inv'
<1> USE DEF Accept, AcceptorHandleRead, dtorVars
<1> DEFINE l == IF NumThreads = 0 THEN Main ELSE next_ + 1
           r == [conn[c] EXCEPT !.loop = l]
           f == Functor("established", c)
<1>1. /\ l \in Loops /\ (l = Main <=> NumThreads = 0)
      /\ next_' \in Nat /\ IF NumThreads = 0 THEN next_' = 0 ELSE next_' < NumThreads
  <2>1. next_ \in Nat /\ IF NumThreads = 0 THEN next_ = 0 ELSE next_ < NumThreads
    BY DEF Inv, Types
  <2>2. next_' = IF NumThreads = 0 THEN next_ ELSE (next_ + 1) % NumThreads
    BY DEF NewConnection
  <2>3. NumThreads # 0 => (next_ + 1) % NumThreads \in 0..(NumThreads - 1)
    BY <2>1, ThreadsAssumption
  <2> QED BY <2>1, <2>2, <2>3, ThreadsAssumption DEF Loops, Main
<1>2. c \in backlog /\ c \notin accepted /\ accepted \subseteq Conns
  BY DEF Inv, Types
<1>3. Good(conn[c], 0) /\ conn[c] \in ConnType /\ reports[c] = 0
  BY <1>2, GoodChannel DEF Inv, ChannelInv, FreshInv
<1>4. Good(r, 0) /\ r.loop = l
  <2>1. /\ r \in ConnType /\ r.loop = l /\ r.state = conn[c].state /\ r.ch = conn[c].ch
        /\ r.output = conn[c].output /\ r.shut = conn[c].shut
    <3> HIDE DEF l
    <3> QED BY <1>1, <1>3 DEF ConnType
  <2> HIDE DEF r
  <2> QED BY <1>3, <2>1 DEF Good
<1>5. PICK s : /\ conn' = [conn EXCEPT ![c] = s]
               /\ IF NumThreads = 0
                  THEN /\ s \in ConnectionEstablished(r) /\ UNCHANGED queue
                       /\ reports' = [reports EXCEPT ![c] = @ + 1]
                  ELSE /\ s = r /\ queue' = [queue EXCEPT ![l] = Append(@, f)]
                       /\ UNCHANGED reports
  BY <1>1 DEF NewConnection, ConnectionCallback
<1> HIDE DEF r
<1>6. /\ reports' \in [Conns -> 0..MaxReports]
      /\ reports'[c] = IF NumThreads = 0 THEN 1 ELSE 0
      /\ \A d \in Conns : d # c => reports'[d] = reports[d]
      /\ Good(s, reports'[c]) /\ s.loop = l
  <2>1. CASE NumThreads = 0
    <3>1. reports[c] < MaxReports
      BY <1>3, BoundAssumption
    <3>2. reports'[c] = 1
      BY <1>3, <1>5, <2>1, <3>1, Reported1
    <3> QED BY <1>4, <1>5, <2>1, <3>1, <3>2, Reported1, EstablishedGood
  <2>2. CASE NumThreads # 0
    BY <1>3, <1>4, <1>5, <2>2 DEF Inv, Types
  <2> QED BY <2>1, <2>2
<1>7. /\ conn' \in [Conns -> ConnType]
      /\ conn'[c] = s
      /\ \A d \in Conns : d # c => conn'[d] = conn[d]
      /\ \A d \in Conns : Good(conn'[d], reports'[d])
  BY <1>5, <1>6, ConnStep
<1>8. connections_' = connections_ \cup {c} /\ accepted' = accepted \cup {c}
  BY DEF NewConnection
<1>9. f \in FunctorType /\ f.call = "established" /\ f.conn = c
  BY FunctorIs
<1> DEFINE line == Todo(batch[l], ran[l], queue'[l])
<1>10. /\ queue' \in [Loops -> Seq(FunctorType)]
       /\ \A k \in Loops : k # l => queue'[k] = queue[k]
       /\ NumThreads = 0 => queue' = queue
       /\ NumThreads # 0 => /\ Range(line) = Range(Line(l)) \cup {f}
                            /\ Range(queue'[l]) = Range(queue[l]) \cup {f}
                            /\ First(line)
  <2>1. CASE NumThreads = 0
    BY <1>5, <2>1 DEF Inv, Types
  <2>2. CASE NumThreads # 0
    <3>1. \A g \in Range(Line(l)) : g.conn # c
      BY <1>1, <1>2, LineFacts DEF Inv, OwnInv, FunctorOK
    <3>2. First(Line(l))
      BY <1>1 DEF Inv, FirstInv
    <3>3. queue' = [queue EXCEPT ![l] = Append(@, f)]
      BY <1>5, <2>2
    <3>4. l \in Loops /\ f \in FunctorType /\ Types
      BY <1>1, <1>9 DEF Inv
    <3> HIDE DEF l, f
    <3> QED BY <1>9, <2>2, <3>1, <3>2, <3>3, <3>4, Queued, Zenon
  <2> QED BY <2>1, <2>2
<1> HIDE DEF l, f
<1>11. \A k \in Loops : Range(Line(k)) \subseteq Range(Line(k)')
  BY <1>1, <1>10 DEF Line
<1>12. \A k \in Loops : \A g \in Range(Line(k)') :
         g \in Range(Line(k)) \/ (g = f /\ k = l /\ NumThreads # 0)
  BY <1>1, <1>10 DEF Line
<1>13. \A k \in Loops : \A g \in Functors(k)' :
         g \in Functors(k) \/ (g = f /\ k = l /\ NumThreads # 0)
  BY <1>1, <1>10 DEF Functors
<1>14. \A d \in accepted : conn'[d] = conn[d] /\ reports'[d] = reports[d] /\ d # c
  BY <1>2, <1>6, <1>7
<1>15. Types'
  BY <1>1, <1>2, <1>6, <1>7, <1>8, <1>10 DEF Inv, Types
<1>16. ChannelInv' /\ PhaseInv' /\ DtorInv'
  BY <1>7 DEF Inv, ChannelInv, PhaseInv, DtorInv
<1>17. FreshInv'
  BY <1>6, <1>8 DEF Inv, FreshInv
<1>18. ActiveInv'
  BY <1>8, <1>14 DEF Inv, ActiveInv
<1>19. OwnInv'
  <2>1. ASSUME NEW k \in Loops, NEW g \in Functors(k)' PROVE FunctorOK(k, g)'
    <3>1. CASE g \in Functors(k)
      BY <1>8, <1>14, <3>1 DEF Inv, OwnInv, FunctorOK
    <3>2. CASE g = f /\ k = l /\ NumThreads # 0
      BY <1>6, <1>7, <1>8, <1>9, <3>2 DEF FunctorOK, Raw
    <3> QED BY <1>13, <3>1, <3>2
  <2>2. \A d \in accepted' : conn'[d].loop = Main <=> NumThreads = 0
    BY <1>1, <1>6, <1>7, <1>8, <1>14 DEF Inv, OwnInv
  <2> QED BY <2>1, <2>2 DEF OwnInv
<1>20. FirstInv'
  BY <1>1, <1>10 DEF Inv, FirstInv, Line
<1>21. MapInv'
  <2>1. ASSUME NEW d \in accepted PROVE Tracked(d)'
    <3>1. conn[d].loop \in Loops
      BY <1>2 DEF Inv, Types, ConnType
    <3>2. Tracked(d)
      BY DEF Inv, MapInv
    <3> QED BY <1>8, <1>11, <1>14, <3>1, <3>2, LoopFacts DEF Tracked, Alive
  <2>2. Tracked(c)'
    <3>1. NumThreads # 0 => f \in Range(line)
      BY <1>10
    <3> QED BY <1>6, <1>7, <1>8, <3>1 DEF Tracked, Line, f
  <2>3. ASSUME NEW k \in Loops, NEW g \in Range(Line(k)') PROVE Ready(g)'
    <3>1. CASE g \in Range(Line(k))
      <4>1. g.conn \in accepted /\ Ready(g)
        BY <3>1, LineFacts DEF Inv, OwnInv, FunctorOK, MapInv
      <4> QED BY <1>8, <1>14, <4>1 DEF Ready
    <3>2. CASE g = f /\ NumThreads # 0
      BY <1>6, <1>9, <3>2 DEF Ready, Raw
    <3> QED BY <1>12, <3>1, <3>2
  <2> QED BY <1>8, <2>1, <2>2, <2>3 DEF MapInv
<1>22. SingleInv'
  <2> SUFFICES ASSUME NumThreads = 0
               PROVE  /\ phase[Main] # "handle" => OnlyRaw(queue'[Main])
                      /\ NotBoth => \A d \in Conns : ClosedOnce(d)'
    BY DEF SingleInv
  <2>1. ASSUME NotBoth, NEW d \in Conns PROVE ClosedOnce(d)'
    <3>1. ClosedOnce(d)
      BY <2>1 DEF Inv, SingleInv
    <3> QED BY <1>6, <1>7, <1>10, <3>1 DEF ClosedOnce, Line
  <2> QED BY <1>10, <2>1 DEF Inv, SingleInv
<1> QED BY <1>15, <1>16, <1>17, <1>18, <1>19, <1>20, <1>21, <1>22 DEF Inv

\* The close callback, on loop l: the removal is on its way to the main loop; or
\* this is the main loop, and the destruction is on its way.
LEMMA InvClose ==
  ASSUME Inv, NEW l \in Loops, NEW c \in Conns, NEW a \in active[l], NEW s,
         phase[l] = "handle", a.conn = c,
         active' = [active EXCEPT ![l] = @ \ {a}],
         Closed(conn[c], s, reports[c]), conn' = [conn EXCEPT ![c] = s],
         RemoveConnection(l, c), reports' = [reports EXCEPT ![c] = @ + 1],
         UNCHANGED <<backlog, accepted, next_, phase, accept_active, batch, ran, dtorVars>>
  PROVE  Inv'
<1> USE DEF dtorVars
<1> DEFINE call == IF l = Main THEN "destroyed" ELSE "remove"
           f == Functor(call, c)
           line == Todo(batch[Main], ran[Main], queue'[Main])
<1>1. /\ c \in accepted /\ accepted \subseteq Conns /\ conn[c].loop = l /\ conn[c].ch.on
      /\ reports[c] < MaxReports /\ reports[c] \in 0..MaxReports
      /\ \A b \in active[l] : b.conn = c => b = a
  BY DEF Inv, Types, ActiveInv
<1>2. /\ l = Main <=> NumThreads = 0
      /\ reports[c] # 0
  BY <1>1 DEF Inv, OwnInv, ChannelInv, Good
<1>3. f \in FunctorType /\ f.call = call /\ f.conn = c
  BY FunctorIs
<1>4. /\ queue' = [queue EXCEPT ![Main] = Append(@, f)]
      /\ connections_' = IF l = Main THEN connections_ \ {c} ELSE connections_
  BY <1>1 DEF RemoveConnection, RemoveConnectionInLoop
<1>5. /\ queue' \in [Loops -> Seq(FunctorType)]
      /\ \A k \in Loops : k # Main => queue'[k] = queue[k]
      /\ Range(line) = Range(Line(Main)) \cup {f}
      /\ Range(queue'[Main]) = Range(queue[Main]) \cup {f}
      /\ First(line)
  <2>1. First(Line(Main)) /\ Main \in Loops
    BY LoopFacts DEF Inv, FirstInv
  <2> HIDE DEF f
  <2> QED BY <1>3, <1>4, <2>1, Queued DEF Inv
<1> HIDE DEF f
<1>6. /\ conn' \in [Conns -> ConnType]
      /\ conn'[c] = s
      /\ \A d \in Conns : d # c => conn'[d] = conn[d]
      /\ \A d \in Conns : Good(conn'[d], reports'[d])
  BY <1>1, Reported1, ConnStep DEF Closed
<1>7. s.loop = l /\ s.ch.on
  BY <1>1 DEF Closed
<1>8. /\ active' \in [Loops -> SUBSET ActiveType] /\ active'[l] = active[l] \ {a}
      /\ \A k \in Loops : active'[k] \subseteq active[k]
  BY DEF Inv, Types
<1>9. /\ reports' \in [Conns -> 0..MaxReports] /\ reports'[c] = reports[c] + 1
      /\ reports'[c] > 1
      /\ \A d \in Conns : d # c => reports'[d] = reports[d]
  <2>1. /\ reports' \in [Conns -> 0..MaxReports] /\ reports'[c] = reports[c] + 1
        /\ \A d \in Conns : d # c => reports'[d] = reports[d]
    BY <1>1, Reported1
  <2>2. reports[c] \in Nat
    BY <1>1, BoundAssumption
  <2> QED BY <1>2, <2>1, <2>2
<1>10. \A k \in Loops : Range(Line(k)) \subseteq Range(Line(k)')
  BY <1>5 DEF Line
<1>11. \A k \in Loops : \A g \in Range(Line(k)') : g \in Range(Line(k)) \/ (g = f /\ k = Main)
  BY <1>5 DEF Line
<1>12. \A k \in Loops : \A g \in Functors(k)' : g \in Functors(k) \/ (g = f /\ k = Main)
  BY <1>5 DEF Functors
<1>13. \A d \in Conns : conn'[d].loop = conn[d].loop
  BY <1>1, <1>6, <1>7
<1>14. Types'
  BY <1>4, <1>5, <1>6, <1>8, <1>9 DEF Inv, Types
<1>15. ChannelInv' /\ DtorInv'
  BY <1>6 DEF Inv, ChannelInv, DtorInv
<1>16. PhaseInv'
  BY <1>8 DEF Inv, PhaseInv
<1>17. FreshInv'
  BY <1>1, <1>9 DEF Inv, FreshInv
<1>18. ActiveInv'
  <2> SUFFICES ASSUME NEW k \in Loops, NEW b \in active'[k]
               PROVE  /\ b.conn \in accepted /\ conn'[b.conn].loop = k
                      /\ conn'[b.conn].ch.on /\ reports'[b.conn] < MaxReports
                      /\ \A e \in active'[k] : b.conn = e.conn => b = e
    BY DEF ActiveInv
  <2>1. /\ b \in active[k] /\ b.conn \in accepted /\ conn[b.conn].loop = k
        /\ conn[b.conn].ch.on /\ reports[b.conn] < MaxReports
        /\ \A e \in active[k] : b.conn = e.conn => b = e
    BY <1>8 DEF Inv, ActiveInv
  <2>2. b.conn # c
    BY <1>1, <1>8, <2>1
  <2> QED BY <1>1, <1>6, <1>8, <1>9, <2>1, <2>2
<1>19. OwnInv'
  <2>1. ASSUME NEW k \in Loops, NEW g \in Functors(k)' PROVE FunctorOK(k, g)'
    <3>1. CASE g \in Functors(k)
      <4>1. FunctorOK(k, g)
        BY <3>1 DEF Inv, OwnInv
      <4>2. conn'[g.conn].loop = conn[g.conn].loop
        BY <1>1, <1>13, <4>1 DEF FunctorOK
      <4> QED BY <4>1, <4>2 DEF FunctorOK
    <3>2. CASE g = f /\ k = Main
      BY <1>1, <1>2, <1>3, <1>6, <1>7, <3>2 DEF FunctorOK, Raw
    <3> QED BY <1>12, <3>1, <3>2
  <2>2. \A d \in accepted : conn'[d].loop = Main <=> NumThreads = 0
    BY <1>1, <1>13 DEF Inv, OwnInv
  <2> QED BY <2>1, <2>2 DEF OwnInv
<1>20. FirstInv'
  BY <1>5 DEF Inv, FirstInv, Line
<1>21. MapInv'
  <2>1. ASSUME NEW d \in accepted, d # c PROVE Tracked(d)'
    <3>1. conn[d].loop \in Loops /\ conn'[d] = conn[d] /\ reports'[d] = reports[d]
      BY <1>1, <1>6, <1>9, <2>1 DEF Inv, Types, ConnType
    <3>2. Tracked(d)
      BY DEF Inv, MapInv
    <3>3. d \in connections_' <=> d \in connections_
      BY <1>4, <2>1
    <3> QED BY <1>10, <3>1, <3>2, <3>3, LoopFacts DEF Tracked, Alive
  <2>2. Tracked(c)'
    <3>1. f \in Range(line) /\ Line(Main)' = line
      BY <1>5 DEF Line
    <3>2. Tracked(c)
      BY <1>1 DEF Inv, MapInv
    <3>3. CASE l = Main
      BY <1>4, <1>6, <1>7, <1>9, <3>1, <3>3 DEF Tracked, f
    <3>4. CASE l # Main
      <4>1. \A k \in Loops : Alive(k)' => Alive(k)
        BY DEF Alive
      <4>2. f = Functor("remove", c) /\ connections_' = connections_
        BY <1>4, <3>4 DEF f
      <4>3. reports[c] = 1 => (dtor = "no" => c \in connections_)
        BY <3>2 DEF Tracked
      <4> QED BY <1>1, <1>2, <1>6, <1>7, <1>9, <1>10, <3>1, <3>2, <3>4, <4>1, <4>2, <4>3
          DEF Tracked
    <3> QED BY <3>3, <3>4
  <2>3. ASSUME NEW k \in Loops, NEW g \in Range(Line(k)') PROVE Ready(g)'
    <3>1. CASE g \in Range(Line(k))
      <4>1. g.conn \in Conns /\ Ready(g)
        BY <1>1, <3>1, LineFacts DEF Inv, OwnInv, FunctorOK, MapInv
      <4>2. /\ reports[g.conn] = 0 => reports'[g.conn] = 0
            /\ reports[g.conn] > 1 => reports'[g.conn] > 1
            /\ reports[g.conn] # 0 => reports'[g.conn] # 0
        BY <1>2, <1>9, <4>1
      <4> QED BY <1>4, <4>1, <4>2 DEF Ready
    <3>2. CASE g = f
      BY <1>3, <1>4, <1>9, <3>2 DEF Ready, Raw
    <3> QED BY <1>11, <3>1, <3>2
  <2> QED BY <2>1, <2>2, <2>3 DEF MapInv
<1>22. SingleInv'
  <2> SUFFICES ASSUME NumThreads = 0
               PROVE  /\ phase[Main] # "handle" => OnlyRaw(queue'[Main])
                      /\ NotBoth => \A d \in Conns : ClosedOnce(d)'
    BY DEF SingleInv
  <2>1. l = Main /\ phase[Main] = "handle"
    BY <1>2
  <2>2. NotBoth => \A d \in Conns : ClosedOnce(d)
    BY DEF Inv, SingleInv
  <2>3. ASSUME NotBoth, NEW d \in Conns, d # c PROVE ClosedOnce(d)'
    BY <1>6, <1>8, <1>9, <1>10, <2>2, <2>3, LoopFacts DEF ClosedOnce
  <2>4. ASSUME NotBoth PROVE ClosedOnce(c)'
    <3>1. reports[c] = 1
      BY <1>1, <1>2, <2>1, <2>2, <2>4, BoundAssumption DEF ClosedOnce
    <3>2. f = Functor("destroyed", c) /\ f \in Range(Line(Main)')
      BY <1>5, <2>1 DEF f, Line
    <3> QED BY <1>1, <1>8, <1>9, <2>1, <3>1, <3>2 DEF ClosedOnce
  <2> QED BY <2>1, <2>3, <2>4
<1> QED BY <1>14, <1>15, <1>16, <1>17, <1>18, <1>19, <1>20, <1>21, <1>22 DEF Inv

LEMMA InvHandleEvent ==
  ASSUME Inv, NEW l \in Loops, NEW c \in Conns, HandleEvent(l, c)
  PROVE  Inv'
<1>1. PICK a \in active[l] :
        /\ a.conn = c
        /\ active' = [active EXCEPT ![l] = @ \ {a}]
        /\ \E r \in HandleEventWithGuard(conn[c], a.rev) : conn' = [conn EXCEPT ![c] = r]
        /\ IF Closing(conn[c], a.rev)
           THEN /\ RemoveConnection(l, c)
                /\ reports' = [reports EXCEPT ![c] = @ + 1]
           ELSE UNCHANGED <<queue, connections_, reports>>
  BY DEF HandleEvent, ConnectionCallback
<1>2. PICK s \in HandleEventWithGuard(conn[c], a.rev) : conn' = [conn EXCEPT ![c] = s]
  BY <1>1
<1>3. Good(conn[c], reports[c]) /\ conn[c].ch.on
  BY <1>1 DEF Inv, ChannelInv, ActiveInv
<1>4. IF Closing(conn[c], a.rev) THEN Closed(conn[c], s, reports[c])
      ELSE Keeps(conn[c], s, reports[c])
  BY <1>3, EventShape
<1>5. CASE Closing(conn[c], a.rev)
  BY <1>1, <1>2, <1>4, <1>5, InvClose DEF HandleEvent
<1>6. CASE ~Closing(conn[c], a.rev)
  <2>1. Keeps(conn[c], s, reports[c])
    BY <1>4, <1>6
  <2>2. /\ active' \in [Loops -> SUBSET ActiveType]
        /\ \A k \in Loops : active'[k] \subseteq active[k]
    BY <1>1 DEF Inv, Types
  <2> QED BY <1>1, <1>2, <1>6, <2>1, <2>2, Steady DEF HandleEvent, Keeps
<1> QED BY <1>5, <1>6


\* A functor that runs is taken from the head of its line.
LEMMA PoppedLines ==
  ASSUME Inv, NEW l \in Loops, NEW call, NEW c, Runs(l, call, c), UNCHANGED queue
  PROVE  /\ Line(l)' = Rest(l)
         /\ \A k \in Loops : k # l => Line(k)' = Line(k)
         /\ \A k \in Loops : Range(Line(k)') \subseteq Range(Line(k))
         /\ \A k \in Loops : Functors(k)' = Functors(k)
         /\ \A k \in Loops : \A g \in Range(Line(k)) :
              g \in Range(Line(k)') \/ (k = l /\ g = Functor(call, c))
         /\ FunctorOK(l, Functor(call, c)) /\ Ready(Functor(call, c))
         /\ FirstInv'
<1>1. /\ First(Rest(l))
      /\ Range(Line(l)) = {Functor(call, c)} \cup Range(Rest(l))
      /\ Functor(call, c) \in Range(Line(l))
      /\ ran'[l] = ran[l] + 1
      /\ \A k \in Loops : k # l => ran'[k] = ran[k]
  BY Popped DEF Inv
<1>2. batch' = batch
  BY DEF Runs
<1>3. /\ Line(l)' = Rest(l)
      /\ \A k \in Loops : k # l => Line(k)' = Line(k)
      /\ \A k \in Loops : Functors(k)' = Functors(k)
  BY <1>1, <1>2 DEF Line, Rest, Functors
<1>4. FunctorOK(l, Functor(call, c)) /\ Ready(Functor(call, c))
  BY <1>1, LineFacts DEF Inv, OwnInv, MapInv
<1>5. FirstInv'
  BY <1>1, <1>3 DEF Inv, FirstInv
<1> QED BY <1>1, <1>3, <1>4, <1>5

\* A functor changes the record of its connection, which stays with its loop.
LEMMA RunParts ==
  ASSUME Inv, NEW l \in Loops, NEW call, NEW c, Runs(l, call, c), UNCHANGED <<queue, connections_>>,
         conn' \in [Conns -> ConnType], conn'[c].loop = conn[c].loop,
         \A d \in Conns : d # c => conn'[d] = conn[d] /\ reports'[d] = reports[d],
         reports' \in [Conns -> 0..MaxReports],
         \A d \in Conns : Good(conn'[d], reports'[d]),
         c \in accepted, conn[c].loop = l,
         \A a \in active[l] : a.conn # c
  PROVE  Types' /\ ChannelInv' /\ PhaseInv' /\ DtorInv' /\ FreshInv' /\ ActiveInv' /\ OwnInv'
<1>1. /\ c \in Conns /\ phase[l] = "run" /\ ran' \in [Loops -> Nat]
      /\ \A k \in Loops : ran'[k] <= Len(batch[k])
      /\ \A k \in Loops : k # l => ran'[k] = ran[k]
  BY Popped DEF Inv
<1> USE DEF Runs, dtorVars
<1>2. accepted \subseteq Conns
  BY DEF Inv, Types
<1>3. \A k \in Loops : Functors(k)' = Functors(k)
  BY DEF Functors
<1>4. \A d \in Conns : conn'[d].loop = conn[d].loop
  OBVIOUS
<1>5. Types'
  BY <1>1 DEF Inv, Types
<1>6. ChannelInv' /\ DtorInv'
  BY DEF Inv, ChannelInv, DtorInv
<1>7. PhaseInv'
  BY <1>1 DEF Inv, PhaseInv
<1>8. FreshInv'
  BY <1>2 DEF Inv, FreshInv
<1>9. ActiveInv'
  <2> SUFFICES ASSUME NEW k \in Loops, NEW a \in active[k]
               PROVE  /\ a.conn \in accepted /\ conn'[a.conn].loop = k
                      /\ conn'[a.conn].ch.on /\ reports'[a.conn] < MaxReports
                      /\ \A b \in active[k] : a.conn = b.conn => a = b
    BY DEF ActiveInv
  <2>1. /\ a.conn \in accepted /\ conn[a.conn].loop = k
        /\ conn[a.conn].ch.on /\ reports[a.conn] < MaxReports
        /\ \A b \in active[k] : a.conn = b.conn => a = b
    BY DEF Inv, ActiveInv
  <2>2. a.conn # c
    BY <2>1
  <2>3. conn'[a.conn] = conn[a.conn] /\ reports'[a.conn] = reports[a.conn]
    BY <1>2, <2>1, <2>2
  <2> QED BY <2>1, <2>3
<1>10. OwnInv'
  BY <1>2, <1>3, <1>4 DEF Inv, OwnInv, FunctorOK
<1> QED BY <1>5, <1>6, <1>7, <1>8, <1>9, <1>10

\* connection_established, for a connection that has done nothing yet.
LEMMA InvRunEstablished ==
  ASSUME Inv, NEW l \in Loops, NEW c, RunEstablished(l, c) PROVE Inv'
<1> DEFINE f == Functor("established", c)
<1>1. Runs(l, "established", c) /\ UNCHANGED <<queue, connections_>>
  BY DEF RunEstablished
<1>2. PICK s \in ConnectionEstablished(conn[c]) : conn' = [conn EXCEPT ![c] = s]
  BY DEF RunEstablished
<1>3. f.call = "established" /\ f.conn = c
  BY FunctorIs
<1>4. /\ c \in Conns /\ phase[l] = "run"
      /\ \A g \in Range(Rest(l)) : g.call = "established" => g.conn # c
  BY <1>1, Popped DEF Inv
<1>5. /\ Line(l)' = Rest(l)
      /\ \A k \in Loops : k # l => Line(k)' = Line(k)
      /\ \A k \in Loops : Range(Line(k)') \subseteq Range(Line(k))
      /\ \A k \in Loops : \A g \in Range(Line(k)) : g \in Range(Line(k)') \/ (k = l /\ g = f)
      /\ FunctorOK(l, f) /\ Ready(f)
      /\ FirstInv'
  BY <1>1, PoppedLines
<1>6. /\ c \in accepted /\ accepted \subseteq Conns /\ conn[c].loop = l
      /\ NumThreads # 0 /\ reports[c] = 0
  <2>1. c \in accepted /\ conn[c].loop = l /\ NumThreads # 0
    BY <1>3, <1>5 DEF FunctorOK, Raw
  <2>2. reports[c] = 0
    BY <1>3, <1>5 DEF Ready
  <2> QED BY <2>1, <2>2 DEF Inv, Types
<1>7. Good(conn[c], 0)
  BY <1>4, <1>6 DEF Inv, ChannelInv
<1>8. Good(s, 1) /\ s.loop = conn[c].loop /\ s.ch.on
  BY <1>7, EstablishedGood
<1> HIDE DEF f
<1>9. \A a \in active[l] : a.conn # c
  BY <1>4 DEF Inv, PhaseInv
<1>10. /\ reports' \in [Conns -> 0..MaxReports] /\ reports'[c] = 1
       /\ \A d \in Conns : d # c => reports'[d] = reports[d]
  <2>1. reports' = [reports EXCEPT ![c] = @ + 1]
    BY DEF RunEstablished, ConnectionCallback
  <2>2. reports[c] < MaxReports
    BY <1>6, BoundAssumption
  <2>3. /\ reports' \in [Conns -> 0..MaxReports] /\ reports'[c] = reports[c] + 1
        /\ \A d \in Conns : d # c => reports'[d] = reports[d]
    BY <1>4, <2>1, <2>2, Reported1
  <2> QED BY <1>6, <2>3
<1>11. /\ conn' \in [Conns -> ConnType] /\ conn'[c] = s
       /\ \A d \in Conns : d # c => conn'[d] = conn[d]
       /\ \A d \in Conns : Good(conn'[d], reports'[d])
  BY <1>2, <1>4, <1>8, <1>10, ConnStep
<1>12. Types' /\ ChannelInv' /\ PhaseInv' /\ DtorInv' /\ FreshInv' /\ ActiveInv' /\ OwnInv'
  BY <1>1, <1>6, <1>8, <1>9, <1>10, <1>11, RunParts
<1>13. UNCHANGED <<accepted, phase, dtor>>
  BY <1>1 DEF Runs, dtorVars
<1>14. MapInv'
  <2>1. ASSUME NEW d \in accepted, d # c PROVE Tracked(d)'
    <3>1. conn[d].loop \in Loops /\ conn'[d] = conn[d] /\ reports'[d] = reports[d]
      BY <1>6, <1>10, <1>11, <2>1 DEF Inv, Types, ConnType
    <3>2. Tracked(d)
      BY DEF Inv, MapInv
    <3>3. Functor("established", d) # f /\ Functor("remove", d) # f /\ Functor("destroyed", d) # f
      BY <1>3, <2>1, FunctorIs
    <3> QED BY <1>1, <1>5, <1>13, <3>1, <3>2, <3>3, LoopFacts DEF Tracked, Alive
  <2>2. Tracked(c)'
    <3>1. Tracked(c)
      BY <1>6 DEF Inv, MapInv
    <3>2. Functor("destroyed", c) # f
      BY <1>3, FunctorIs
    <3>3. dtor = "no" => c \in connections_
      BY <1>6, <3>1 DEF Tracked
    <3>4. c \notin connections_ => Functor("destroyed", c) \in Range(Line(l)')
      BY <1>4, <1>5, <1>6, <3>1, <3>2 DEF Tracked, Alive
    <3> QED BY <1>1, <1>6, <1>8, <1>10, <1>11, <1>13, <3>3, <3>4 DEF Tracked
  <2>3. ASSUME NEW k \in Loops, NEW g \in Range(Line(k)') PROVE Ready(g)'
    <3>1. g \in Range(Line(k)) /\ g.conn \in Conns /\ Ready(g) /\ FunctorOK(k, g)
      BY <1>5, <1>6, LineFacts DEF Inv, OwnInv, FunctorOK, MapInv
    <3>2. CASE g.conn # c
      BY <1>1, <1>10, <3>1, <3>2 DEF Ready
    <3>3. CASE g.conn = c
      <4>1. g.call # "established"
        BY <1>4, <1>5, <1>6, <3>1, <3>3 DEF FunctorOK
      <4>2. g.call # "remove"
        BY <1>6, <3>1, <3>3 DEF Ready
      <4> QED BY <1>1, <1>10, <3>1, <3>3, <4>1, <4>2 DEF Ready
    <3> QED BY <3>2, <3>3
  <2> QED BY <1>13, <2>1, <2>2, <2>3 DEF MapInv
<1>15. SingleInv'
  BY <1>6 DEF SingleInv
<1> QED BY <1>5, <1>12, <1>14, <1>15 DEF Inv

\* connection_destroyed reports DOWN if nothing else has.
LEMMA DestroyedStep ==
  ASSUME Inv, NEW c \in Conns, Destroyed(c)
  PROVE  /\ conn' \in [Conns -> ConnType]
         /\ conn'[c].loop = conn[c].loop /\ ~conn'[c].ch.on
         /\ reports' \in [Conns -> 0..MaxReports]
         /\ reports'[c] = IF conn[c].state = "connected" THEN 2 ELSE reports[c]
         /\ reports[c] = 1 \/ reports'[c] = reports[c]
         /\ reports[c] # 0 => reports'[c] # 0
         /\ \A d \in Conns : d # c => conn'[d] = conn[d] /\ reports'[d] = reports[d]
         /\ \A d \in Conns : Good(conn'[d], reports'[d])
<1> DEFINE s == ConnectionDestroyed(conn[c])
           up == conn[c].state = "connected"
           n == IF up THEN 2 ELSE reports[c]
<1>1. Good(conn[c], reports[c]) /\ reports[c] \in Nat
  BY DEF Inv, ChannelInv, Good
<1>2. up => reports[c] = 1
  BY <1>1 DEF Good
<1>3. Good(s, n) /\ s.loop = conn[c].loop /\ ~s.ch.on
  BY <1>1, <1>2, DestroyedGood
<1>4. conn' = [conn EXCEPT ![c] = s]
  BY DEF Destroyed, Inv, Types
<1>5. /\ reports' \in [Conns -> 0..MaxReports]
      /\ reports'[c] = n
      /\ \A d \in Conns : d # c => reports'[d] = reports[d]
  <2>1. CASE up
    <3>1. reports' = [reports EXCEPT ![c] = @ + 1]
      BY <2>1 DEF Destroyed, ConnectionCallback
    <3>2. reports[c] < MaxReports
      BY <1>2, <2>1, BoundAssumption
    <3>3. /\ reports' \in [Conns -> 0..MaxReports] /\ reports'[c] = reports[c] + 1
          /\ \A d \in Conns : d # c => reports'[d] = reports[d]
      BY <3>1, <3>2, Reported1
    <3> QED BY <1>2, <2>1, <3>3
  <2>2. CASE ~up
    BY <2>2 DEF Destroyed, Inv, Types
  <2> QED BY <2>1, <2>2
<1> HIDE DEF s, up, n
<1>6. /\ conn' \in [Conns -> ConnType] /\ conn'[c] = s
      /\ \A d \in Conns : d # c => conn'[d] = conn[d]
      /\ \A d \in Conns : Good(conn'[d], reports'[d])
  BY <1>3, <1>4, <1>5, ConnStep
<1> QED BY <1>1, <1>2, <1>3, <1>5, <1>6 DEF n, up

\* connection_destroyed, after everything else that was queued for it.
LEMMA InvRunDestroyed ==
  ASSUME Inv, NEW l \in Loops, NEW c, RunDestroyed(l, c) PROVE Inv'
<1> DEFINE f == Functor("destroyed", c)
<1>1. Runs(l, "destroyed", c) /\ UNCHANGED <<queue, connections_>> /\ Destroyed(c)
  BY DEF RunDestroyed
<1>2. f.call = "destroyed" /\ f.conn = c
  BY FunctorIs
<1>3. /\ c \in Conns /\ phase[l] = "run"
      /\ \A g \in Range(Rest(l)) : g.call = "established" => g.conn # c
  BY <1>1, Popped DEF Inv
<1>4. /\ Line(l)' = Rest(l)
      /\ \A k \in Loops : k # l => Line(k)' = Line(k)
      /\ \A k \in Loops : Range(Line(k)') \subseteq Range(Line(k))
      /\ \A k \in Loops : \A g \in Range(Line(k)) : g \in Range(Line(k)') \/ (k = l /\ g = f)
      /\ FunctorOK(l, f) /\ Ready(f)
      /\ FirstInv'
  BY <1>1, PoppedLines
<1>5. /\ c \in accepted /\ accepted \subseteq Conns /\ conn[c].loop = l
      /\ c \notin connections_
  BY <1>2, <1>4 DEF FunctorOK, Ready, Inv, Types
<1> HIDE DEF f
<1>6. \A a \in active[l] : a.conn # c
  BY <1>3 DEF Inv, PhaseInv
<1>7. /\ conn' \in [Conns -> ConnType]
      /\ conn'[c].loop = conn[c].loop /\ ~conn'[c].ch.on
      /\ reports' \in [Conns -> 0..MaxReports]
      /\ reports'[c] \in {2, reports[c]}
      /\ reports[c] = 1 \/ reports'[c] = reports[c]
      /\ \A d \in Conns : d # c => conn'[d] = conn[d] /\ reports'[d] = reports[d]
      /\ \A d \in Conns : Good(conn'[d], reports'[d])
  BY <1>1, <1>3, DestroyedStep
<1>8. Types' /\ ChannelInv' /\ PhaseInv' /\ DtorInv' /\ FreshInv' /\ ActiveInv' /\ OwnInv'
  BY <1>1, <1>5, <1>6, <1>7, RunParts
<1>9. UNCHANGED <<accepted, phase, dtor, active>>
  BY <1>1 DEF Runs, dtorVars
<1>10. reports[c] # 0
  <2> SUFFICES ASSUME reports[c] = 0 PROVE FALSE
    OBVIOUS
  <2>1. Tracked(c)
    BY <1>5 DEF Inv, MapInv
  <2>2. Functor("established", c) \in Range(Line(l))
    BY <1>3, <1>5, <2>1 DEF Tracked, Alive
  <2>3. Functor("established", c) \in Range(Rest(l))
    BY <1>2, <1>4, <2>2, FunctorIs
  <2> QED BY <1>3, <2>3, FunctorIs
<1>11. MapInv'
  <2>1. ASSUME NEW d \in accepted, d # c PROVE Tracked(d)'
    <3>1. conn[d].loop \in Loops /\ conn'[d] = conn[d] /\ reports'[d] = reports[d]
      BY <1>5, <1>7, <2>1 DEF Inv, Types, ConnType
    <3>2. Tracked(d)
      BY DEF Inv, MapInv
    <3>3. Functor("established", d) # f /\ Functor("remove", d) # f /\ Functor("destroyed", d) # f
      BY <1>2, <2>1, FunctorIs
    <3> QED BY <1>1, <1>4, <1>9, <3>1, <3>2, <3>3, LoopFacts DEF Tracked, Alive
  <2>2. Tracked(c)'
    <3>1. Tracked(c)
      BY <1>5 DEF Inv, MapInv
    <3>2. reports'[c] <= 1 => reports[c] = reports'[c]
      BY <1>7
    <3> QED BY <1>1, <1>5, <1>7, <1>9, <1>10, <3>1, <3>2 DEF Tracked
  <2>3. ASSUME NEW k \in Loops, NEW g \in Range(Line(k)') PROVE Ready(g)'
    <3>1. g.conn \in Conns /\ Ready(g)
      BY <1>4, <1>5, LineFacts DEF Inv, OwnInv, FunctorOK, MapInv
    <3>2. /\ reports[g.conn] = 0 => reports'[g.conn] = 0
          /\ reports[g.conn] > 1 => reports'[g.conn] > 1
          /\ reports[g.conn] # 0 => reports'[g.conn] # 0
      BY <1>7, <1>10, <3>1
    <3> QED BY <1>1, <3>1, <3>2 DEF Ready
  <2> QED BY <1>9, <2>1, <2>2, <2>3 DEF MapInv
<1>12. SingleInv'
  <2> SUFFICES ASSUME NumThreads = 0
               PROVE  /\ phase'[Main] # "handle" => OnlyRaw(queue'[Main])
                      /\ NotBoth => \A d \in Conns : ClosedOnce(d)'
    BY DEF SingleInv
  <2>1. l = Main
    BY <1>5 DEF Inv, OwnInv
  <2>2. ASSUME NotBoth, NEW d \in Conns PROVE ClosedOnce(d)'
    <3>1. ClosedOnce(d)
      BY <2>2 DEF Inv, SingleInv
    <3>2. CASE d = c
      BY <1>6, <1>7, <1>9, <2>1, <3>1, <3>2 DEF ClosedOnce
    <3>3. CASE d # c
      <4>1. Functor("destroyed", d) # f
        BY <1>2, <3>3, FunctorIs
      <4> QED BY <1>4, <1>7, <1>9, <3>1, <3>3, <4>1, LoopFacts DEF ClosedOnce
    <3> QED BY <3>2, <3>3
  <2> QED BY <1>1, <1>9, <2>2 DEF Inv, SingleInv
<1> QED BY <1>4, <1>8, <1>11, <1>12 DEF Inv

\* A functor of a call from another thread: it reports nothing, and takes no channel
\* out of epoll.
LEMMA InvRunRaw ==
  ASSUME Inv, NEW l \in Loops, NEW c, RunSend(l, c) \/ RunShutdown(l, c) PROVE Inv'
<1>1. PICK call \in Raw : /\ Runs(l, call, c) /\ UNCHANGED <<queue, connections_, reports>>
                          /\ IF call = "send" THEN RunSend(l, c) ELSE RunShutdown(l, c)
  <2>1. CASE RunSend(l, c)
    <3>1. "send" \in Raw /\ Runs(l, "send", c) /\ UNCHANGED <<queue, connections_, reports>>
      BY <2>1 DEF RunSend, Raw
    <3> QED BY <2>1, <3>1
  <2>2. CASE RunShutdown(l, c)
    <3>1. /\ "shutdown" \in Raw /\ "shutdown" # "send" /\ Runs(l, "shutdown", c)
          /\ UNCHANGED <<queue, connections_, reports>>
      BY <2>2 DEF RunShutdown, Raw
    <3> QED BY <2>2, <3>1
  <2> QED BY <2>1, <2>2
<1> DEFINE f == Functor(call, c)
<1>2. f.call = call /\ f.conn = c
  BY FunctorIs
<1>3. c \in Conns /\ phase[l] = "run"
  BY <1>1, Popped DEF Inv
<1>4. /\ Line(l)' = Rest(l)
      /\ \A k \in Loops : k # l => Line(k)' = Line(k)
      /\ \A k \in Loops : Range(Line(k)') \subseteq Range(Line(k))
      /\ \A k \in Loops : \A g \in Range(Line(k)) : g \in Range(Line(k)') \/ (k = l /\ g = f)
      /\ FunctorOK(l, f) /\ Ready(f)
      /\ FirstInv'
  BY <1>1, PoppedLines
<1>5. c \in accepted /\ accepted \subseteq Conns /\ conn[c].loop = l
  BY <1>1, <1>2, <1>4 DEF FunctorOK, Inv, Types, Raw
<1>6. reports[c] # 0 /\ call \in ForeignCalls
  BY <1>1, <1>2, <1>4 DEF FunctorOK, Ready
<1> HIDE DEF f
<1>7. \A a \in active[l] : a.conn # c
  BY <1>3 DEF Inv, PhaseInv
<1>8. Good(conn[c], reports[c])
  BY <1>3 DEF Inv, ChannelInv
<1>9. PICK s : /\ conn' = [conn EXCEPT ![c] = s]
               /\ Good(s, reports[c]) /\ s.loop = conn[c].loop
               /\ NotBoth => (s.ch.on <=> conn[c].ch.on)
  <2>1. CASE call = "send"
    <3>1. PICK s \in SendInLoop(conn[c]) : conn' = [conn EXCEPT ![c] = s]
      BY <1>1, <2>1 DEF RunSend
    <3>2. /\ Good(s, reports[c]) /\ s.loop = conn[c].loop
          /\ "shutdown" \notin ForeignCalls => (s.ch.on <=> conn[c].ch.on)
      BY <1>6, <1>8, SendInLoopGood
    <3>3. NotBoth => "shutdown" \notin ForeignCalls
      BY <1>6, <2>1 DEF NotBoth, Raw
    <3> QED BY <3>1, <3>2, <3>3
  <2>2. CASE call # "send"
    <3>1. conn' = [conn EXCEPT ![c] = ShutdownInLoop(conn[c])]
      BY <1>1, <2>2 DEF RunShutdown, Inv, Types
    <3>2. Keeps(conn[c], ShutdownInLoop(conn[c]), reports[c])
      BY <1>6, <1>8, ShutdownInLoopKeeps
    <3> QED BY <3>1, <3>2 DEF Keeps
  <2> QED BY <2>1, <2>2
<1>10. /\ conn' \in [Conns -> ConnType] /\ conn'[c] = s
       /\ \A d \in Conns : d # c => conn'[d] = conn[d]
       /\ \A d \in Conns : Good(conn'[d], reports'[d])
  BY <1>1, <1>3, <1>9, ConnStep
<1>11. reports' = reports /\ reports' \in [Conns -> 0..MaxReports]
  BY <1>1 DEF Inv, Types
<1>12. Types' /\ ChannelInv' /\ PhaseInv' /\ DtorInv' /\ FreshInv' /\ ActiveInv' /\ OwnInv'
  BY <1>1, <1>5, <1>7, <1>9, <1>10, <1>11, RunParts
<1>13. UNCHANGED <<accepted, phase, dtor, active>>
  BY <1>1 DEF Runs, dtorVars
<1>14. \A d \in Conns : /\ conn'[d].loop = conn[d].loop
                        /\ NotBoth => (conn'[d].ch.on <=> conn[d].ch.on)
  BY <1>9, <1>10
<1>15. \A d : /\ Functor("established", d) # f /\ Functor("remove", d) # f
              /\ Functor("destroyed", d) # f
  BY <1>1, <1>2, FunctorIs DEF Raw
<1>16. MapInv'
  <2>1. ASSUME NEW d \in accepted PROVE Tracked(d)'
    <3>1. /\ conn[d].loop \in Loops /\ conn'[d].loop = conn[d].loop
          /\ NotBoth => (conn'[d].ch.on <=> conn[d].ch.on)
      BY <1>5, <1>14 DEF Inv, Types, ConnType
    <3>2. Tracked(d)
      BY DEF Inv, MapInv
    <3> QED BY <1>1, <1>4, <1>13, <1>15, <3>1, <3>2, LoopFacts DEF Tracked, Alive
  <2>2. ASSUME NEW k \in Loops, NEW g \in Range(Line(k)') PROVE Ready(g)'
    <3>1. Ready(g)
      BY <1>4 DEF Inv, MapInv
    <3> QED BY <1>1, <3>1 DEF Ready
  <2> QED BY <1>13, <2>1, <2>2 DEF MapInv
<1>17. SingleInv'
  <2>1. ASSUME NumThreads = 0, NotBoth, NEW d \in Conns PROVE ClosedOnce(d)'
    <3>1. ClosedOnce(d)
      BY <2>1 DEF Inv, SingleInv
    <3> QED BY <1>1, <1>4, <1>13, <1>14, <1>15, <2>1, <3>1, LoopFacts DEF ClosedOnce
  <2> QED BY <1>1, <1>13, <2>1 DEF Inv, SingleInv
<1> QED BY <1>4, <1>12, <1>16, <1>17 DEF Inv

\* A functor with a pointer of its own: as a callback of the user.
LEMMA InvRunCallback ==
  ASSUME Inv, NEW l \in Loops, NEW c \in Conns, RunCallback(l, c) PROVE Inv'
<1>1. PICK s \in Callback(conn[c]) : conn' = [conn EXCEPT ![c] = s]
  BY DEF RunCallback
<1>2. Good(conn[c], reports[c]) /\ active \in [Loops -> SUBSET ActiveType]
  BY DEF Inv, ChannelInv, Types
<1>3. Keeps(conn[c], s, reports[c])
  BY <1>2, CallbackKeeps
<1> QED BY <1>1, <1>2, <1>3, Steady DEF RunCallback, Keeps, loopVars
\* remove_connection_in_loop on the main loop: out of the map, and on to the loop
\* of the connection, which is another one.
LEMMA InvRunRemove ==
  ASSUME Inv, NEW l \in Loops, NEW c, RunRemove(l, c) PROVE Inv'
<1> DEFINE f == Functor("remove", c)
           g == Functor("destroyed", c)
           k == conn[c].loop
           line == Todo(batch[k], ran[k], queue'[k])
<1>1. /\ Runs(l, "remove", c) /\ UNCHANGED <<conn, reports>>
      /\ connections_' = connections_ \ {c}
      /\ queue' = [queue EXCEPT ![k] = Append(@, g)]
  BY DEF RunRemove, RemoveConnectionInLoop
<1>2. /\ c \in Conns /\ phase[l] = "run" /\ ran' \in [Loops -> Nat]
      /\ First(Rest(l))
      /\ Range(Line(l)) = {f} \cup Range(Rest(l))
      /\ f \in Range(Line(l))
      /\ ran'[l] = ran[l] + 1
      /\ \A m \in Loops : ran'[m] <= Len(batch[m])
      /\ \A m \in Loops : m # l => ran'[m] = ran[m]
  BY <1>1, Popped DEF Inv
<1>3. /\ f.call = "remove" /\ f.conn = c /\ g.call = "destroyed" /\ g.conn = c
      /\ g \in FunctorType
  BY <1>2, FunctorIs
<1>4. FunctorOK(l, f) /\ Ready(f)
  BY <1>2, LineFacts DEF Inv, OwnInv, MapInv
<1>5. /\ c \in accepted /\ accepted \subseteq Conns /\ l = Main /\ NumThreads # 0
      /\ reports[c] \in 0..MaxReports /\ reports[c] > 1
  <2>1. c \in accepted /\ l = Main /\ NumThreads # 0
    BY <1>3, <1>4 DEF FunctorOK, Raw
  <2>2. reports[c] > 1
    BY <1>3, <1>4 DEF Ready
  <2> QED BY <2>1, <2>2 DEF Inv, Types
<1>6. k \in Loops /\ k # l
  BY <1>2, <1>5 DEF Inv, OwnInv, Types, ConnType
<1>7. /\ queue' \in [Loops -> Seq(FunctorType)]
      /\ \A m \in Loops : m # k => queue'[m] = queue[m]
      /\ Range(line) = Range(Line(k)) \cup {g}
      /\ Range(queue'[k]) = Range(queue[k]) \cup {g}
      /\ First(line)
  <2>1. First(Line(k))
    BY <1>6 DEF Inv, FirstInv
  <2> HIDE DEF k, g
  <2> QED BY <1>1, <1>3, <1>6, <2>1, Queued DEF Inv
<1> HIDE DEF f, g
<1>8. UNCHANGED <<backlog, accepted, next_, phase, active, accept_active, batch,
                  quit, dtor, joining, accept_channel_>>
  BY <1>1 DEF Runs, dtorVars
<1>9. /\ Line(l)' = Rest(l)
      /\ \A m \in Loops : m = k => Line(m)' = line
      /\ \A m \in Loops : m # l /\ m # k => Line(m)' = Line(m)
  BY <1>2, <1>6, <1>7, <1>8 DEF Line, Rest
<1> HIDE DEF line
<1>10. /\ \A m \in Loops : \A h \in Range(Line(m)) : h \in Range(Line(m)') \/ (m = l /\ h = f)
       /\ \A m \in Loops : \A h \in Range(Line(m)') : h \in Range(Line(m)) \/ (m = k /\ h = g)
       /\ \A m \in Loops : m = k => g \in Range(Line(m)')
  <2>1. ASSUME NEW m \in Loops, m = l
        PROVE  /\ Range(Line(m)) = {f} \cup Range(Line(m)')
               /\ m # k
    BY <1>2, <1>6, <1>9, <2>1
  <2>2. ASSUME NEW m \in Loops, m = k
        PROVE  Range(Line(m)') = Range(Line(m)) \cup {g} /\ m # l
    BY <1>6, <1>7, <1>9, <2>2
  <2>3. ASSUME NEW m \in Loops, m # l, m # k PROVE Line(m)' = Line(m)
    BY <1>9, <2>3
  <2> QED BY <2>1, <2>2, <2>3
<1>11. \A m \in Loops : \A h \in Functors(m)' : h \in Functors(m) \/ (m = k /\ h = g)
  BY <1>7, <1>8 DEF Functors
<1>12. Types'
  BY <1>1, <1>2, <1>7, <1>8 DEF Inv, Types
<1>13. ChannelInv' /\ PhaseInv' /\ DtorInv' /\ FreshInv' /\ ActiveInv'
  <2>1. ChannelInv' /\ DtorInv' /\ FreshInv' /\ ActiveInv'
    BY <1>1, <1>8 DEF Inv, ChannelInv, DtorInv, FreshInv, ActiveInv
  <2>2. PhaseInv'
    BY <1>2, <1>8 DEF Inv, PhaseInv
  <2> QED BY <2>1, <2>2
<1>14. OwnInv'
  <2>1. ASSUME NEW m \in Loops, NEW h \in Functors(m)' PROVE FunctorOK(m, h)'
    <3>1. CASE h \in Functors(m)
      BY <1>1, <1>8, <3>1 DEF Inv, OwnInv, FunctorOK
    <3>2. CASE m = k /\ h = g
      BY <1>1, <1>3, <1>5, <1>8, <3>2 DEF FunctorOK, Raw
    <3> QED BY <1>11, <3>1, <3>2
  <2>2. \A d \in accepted : conn'[d].loop = Main <=> NumThreads = 0
    BY <1>1 DEF Inv, OwnInv
  <2> QED BY <1>8, <2>1, <2>2 DEF OwnInv
<1>15. FirstInv'
  BY <1>2, <1>7, <1>9 DEF Inv, FirstInv
<1>16. MapInv'
  <2>1. ASSUME NEW d \in accepted, d # c PROVE Tracked(d)'
    <3>1. conn[d].loop \in Loops
      BY <1>5 DEF Inv, Types, ConnType
    <3>2. Tracked(d)
      BY DEF Inv, MapInv
    <3>3. Functor("established", d) # f /\ Functor("remove", d) # f /\ Functor("destroyed", d) # f
      BY <1>3, <2>1, FunctorIs
    <3>4. d \in connections_' <=> d \in connections_
      BY <1>1, <2>1
    <3> QED BY <1>1, <1>8, <1>10, <3>1, <3>2, <3>3, <3>4, LoopFacts DEF Tracked, Alive
  <2>2. Tracked(c)'
    <3>1. Functor("destroyed", c) \in Range(Line(conn[c].loop)')
      BY <1>1, <1>6, <1>10 DEF g
    <3>2. reports[c] # 0 /\ ~(reports[c] <= 1)
      BY <1>5, BoundAssumption
    <3>3. c \notin connections_' /\ reports' = reports
      BY <1>1
    <3> QED BY <3>1, <3>2, <3>3 DEF Tracked
  <2>3. ASSUME NEW m \in Loops, NEW h \in Range(Line(m)') PROVE Ready(h)'
    <3>1. CASE h \in Range(Line(m))
      BY <1>1, <3>1 DEF Inv, MapInv, Ready
    <3>2. CASE h = g
      BY <1>1, <1>3, <3>2 DEF Ready, Raw
    <3> QED BY <1>10, <3>1, <3>2
  <2> QED BY <1>8, <2>1, <2>2, <2>3 DEF MapInv
<1>17. SingleInv'
  BY <1>5 DEF SingleInv
<1> QED BY <1>12, <1>13, <1>14, <1>15, <1>16, <1>17 DEF Inv

\* The destructor takes a connection off its loop, or has the loop do it.
LEMMA InvDtorConn == ASSUME Inv, NEW c \in Conns, DtorConn(c) PROVE Inv'
<1> USE DEF DtorConn, loopVars, dtorVars
<1> DEFINE g == Functor("destroyed", c)
           k == conn[c].loop
           line == Todo(batch[k], ran[k], queue'[k])
<1>1. /\ c \in connections_ /\ c \in accepted /\ accepted \subseteq Conns
      /\ connections_' = connections_ \ {c} /\ dtor = "conns" /\ dtor' = "conns"
      /\ phase[Main] = "exited"
  BY DEF Inv, Types, DtorInv
<1>2. /\ k \in Loops /\ (k = Main <=> NumThreads = 0)
  BY <1>1 DEF Inv, OwnInv, Types, ConnType
<1>3. g.call = "destroyed" /\ g.conn = c /\ g \in FunctorType
  BY FunctorIs
<1>4. IF k = Main THEN Destroyed(c) /\ UNCHANGED queue
      ELSE UNCHANGED <<conn, reports>> /\ queue' = [queue EXCEPT ![k] = Append(@, g)]
  OBVIOUS
<1>5. k = Main => reports[c] # 0
  <2>1. Tracked(c)
    BY <1>1 DEF Inv, MapInv
  <2> QED BY <1>2, <2>1 DEF Tracked
<1>6. /\ conn' \in [Conns -> ConnType] /\ reports' \in [Conns -> 0..MaxReports]
      /\ \A d \in Conns : /\ Good(conn'[d], reports'[d]) /\ conn'[d].loop = conn[d].loop
                          /\ reports[d] = 0 <=> reports'[d] = 0
                          /\ reports[d] > 1 => reports'[d] = reports[d]
      /\ \A d \in Conns : d # c => conn'[d] = conn[d] /\ reports'[d] = reports[d]
      /\ IF k = Main THEN ~conn'[c].ch.on ELSE conn' = conn /\ reports' = reports
      /\ reports'[c] \in {2, reports[c]}
      /\ reports'[c] <= 1 => reports'[c] = reports[c]
  <2>1. CASE k = Main
    BY <1>4, <1>5, <2>1, DestroyedStep
  <2>2. CASE k # Main
    BY <1>4, <2>2 DEF Inv, Types, ChannelInv
  <2> QED BY <2>1, <2>2
<1>7. /\ queue' \in [Loops -> Seq(FunctorType)]
      /\ \A m \in Loops : m # k => queue'[m] = queue[m]
      /\ k = Main => queue' = queue
      /\ k # Main => /\ Range(line) = Range(Line(k)) \cup {g}
                     /\ Range(queue'[k]) = Range(queue[k]) \cup {g}
                     /\ First(line)
  <2>1. CASE k = Main
    BY <1>4, <2>1 DEF Inv, Types
  <2>2. CASE k # Main
    <3>1. First(Line(k))
      BY <1>2 DEF Inv, FirstInv
    <3>2. queue' = [queue EXCEPT ![k] = Append(@, g)]
      BY <1>4, <2>2
    <3> HIDE DEF k, g
    <3> QED BY <1>2, <1>3, <2>2, <3>1, <3>2, Queued DEF Inv
  <2> QED BY <2>1, <2>2
<1> HIDE DEF g
<1>8. \A m \in Loops : m = k /\ k # Main => Line(m)' = line
  BY DEF Line
<1>9. \A m \in Loops : m # k \/ k = Main => Line(m)' = Line(m)
  BY <1>7 DEF Line
<1> HIDE DEF line
<1>10. /\ \A m \in Loops : Range(Line(m)) \subseteq Range(Line(m)')
       /\ \A m \in Loops : \A h \in Range(Line(m)') :
            h \in Range(Line(m)) \/ (m = k /\ h = g /\ k # Main)
       /\ \A m \in Loops : m = k /\ k # Main => g \in Range(Line(m)')
  BY <1>7, <1>8, <1>9
<1>11. \A m \in Loops : \A h \in Functors(m)' :
         h \in Functors(m) \/ (m = k /\ h = g /\ k # Main)
  BY <1>7 DEF Functors
<1>12. Types'
  BY <1>1, <1>6, <1>7 DEF Inv, Types
<1>13. ChannelInv' /\ PhaseInv' /\ DtorInv'
  BY <1>6 DEF Inv, ChannelInv, PhaseInv, DtorInv
<1>14. FreshInv'
  BY <1>1, <1>6 DEF Inv, FreshInv
<1>15. ActiveInv'
  <2> SUFFICES ASSUME NEW m \in Loops, NEW a \in active[m]
               PROVE  /\ a.conn \in accepted /\ conn'[a.conn].loop = m
                      /\ conn'[a.conn].ch.on /\ reports'[a.conn] < MaxReports
                      /\ \A b \in active[m] : a.conn = b.conn => a = b
    BY DEF ActiveInv
  <2>1. /\ a.conn \in accepted /\ conn[a.conn].loop = m
        /\ conn[a.conn].ch.on /\ reports[a.conn] < MaxReports
        /\ \A b \in active[m] : a.conn = b.conn => a = b
    BY DEF Inv, ActiveInv
  <2>2. m # Main
    BY <1>1, LoopFacts DEF Inv, PhaseInv
  <2> QED BY <1>1, <1>6, <2>1, <2>2
<1>16. OwnInv'
  <2>1. ASSUME NEW m \in Loops, NEW h \in Functors(m)' PROVE FunctorOK(m, h)'
    <3>1. CASE h \in Functors(m)
      BY <1>1, <1>6, <3>1 DEF Inv, OwnInv, FunctorOK
    <3>2. CASE m = k /\ h = g /\ k # Main
      BY <1>1, <1>3, <1>6, <3>2 DEF FunctorOK, Raw
    <3> QED BY <1>11, <3>1, <3>2
  <2>2. \A d \in accepted : conn'[d].loop = Main <=> NumThreads = 0
    BY <1>1, <1>6 DEF Inv, OwnInv
  <2> QED BY <2>1, <2>2 DEF OwnInv
<1>17. FirstInv'
  BY <1>7, <1>8, <1>9 DEF Inv, FirstInv
<1>18. MapInv'
  <2>1. ASSUME NEW d \in accepted, d # c PROVE Tracked(d)'
    <3>1. conn[d].loop \in Loops /\ conn'[d] = conn[d] /\ reports'[d] = reports[d]
      BY <1>1, <1>6, <2>1 DEF Inv, Types, ConnType
    <3>2. Tracked(d)
      BY DEF Inv, MapInv
    <3>3. d \in connections_' <=> d \in connections_
      BY <1>1, <2>1
    <3> QED BY <1>1, <1>10, <3>1, <3>2, <3>3, LoopFacts DEF Tracked, Alive
  <2>2. Tracked(c)'
    <3>1. k # Main => Functor("destroyed", c) \in Range(Line(conn[c].loop)')
      BY <1>2, <1>10 DEF g
    <3>2. Tracked(c)
      BY <1>1 DEF Inv, MapInv
    <3>3. CASE k = Main
      BY <1>1, <1>2, <1>5, <1>6, <3>2, <3>3 DEF Tracked
    <3>4. CASE k # Main
      <4>1. conn' = conn /\ reports' = reports /\ c \in accepted'
        BY <1>1, <1>6, <3>4
      <4>2. reports[c] = 0 /\ Alive(k) => Functor("established", c) \in Range(Line(k)')
        BY <1>2, <1>10, <3>2 DEF Tracked
      <4> QED BY <1>1, <1>2, <3>1, <3>4, <4>1, <4>2 DEF Tracked, Alive
    <3> QED BY <3>3, <3>4
  <2>3. ASSUME NEW m \in Loops, NEW h \in Range(Line(m)') PROVE Ready(h)'
    <3>1. CASE h \in Range(Line(m))
      <4>1. h.conn \in Conns /\ Ready(h)
        BY <1>1, <3>1, LineFacts DEF Inv, OwnInv, FunctorOK, MapInv
      <4>2. /\ reports[h.conn] = 0 <=> reports'[h.conn] = 0
            /\ reports[h.conn] > 1 => reports'[h.conn] > 1
        BY <1>6, <4>1
      <4> QED BY <1>1, <4>1, <4>2 DEF Ready
    <3>2. CASE h = g
      BY <1>1, <1>3, <3>2 DEF Ready, Raw
    <3> QED BY <1>10, <3>1, <3>2
  <2> QED BY <2>1, <2>2, <2>3 DEF MapInv
<1>19. SingleInv'
  <2> SUFFICES ASSUME NumThreads = 0
               PROVE  /\ phase[Main] # "handle" => OnlyRaw(queue'[Main])
                      /\ NotBoth => \A d \in Conns : ClosedOnce(d)'
    BY DEF SingleInv
  <2>1. k = Main /\ active[Main] = {}
    BY <1>1, <1>2, LoopFacts DEF Inv, PhaseInv
  <2>2. ASSUME NotBoth, NEW d \in Conns PROVE ClosedOnce(d)'
    <3>1. ClosedOnce(d)
      BY <2>2 DEF Inv, SingleInv
    <3>2. CASE d = c
      BY <1>6, <2>1, <3>1, <3>2 DEF ClosedOnce
    <3>3. CASE d # c
      BY <1>6, <1>10, <3>1, <3>3, LoopFacts DEF ClosedOnce
    <3> QED BY <3>2, <3>3
  <2> QED BY <1>7, <2>1, <2>2 DEF Inv, SingleInv
<1> QED BY <1>12, <1>13, <1>14, <1>15, <1>16, <1>17, <1>18, <1>19 DEF Inv

-----------------------------------------------------------------------------
(* The users.                                                              *)

\* k_disconnecting is stored over any state but k_connecting.
LEMMA InvShutdownSet ==
  ASSUME Inv, UserInv, NEW u \in Users, NEW c \in Conns, ShutdownSet(u, c) PROVE Inv'
<1> DEFINE s == [conn[c] EXCEPT !.state = "disconnecting"]
<1>1. /\ Good(conn[c], reports[c]) /\ conn[c] \in ConnType
      /\ conn \in [Conns -> ConnType] /\ active \in [Loops -> SUBSET ActiveType]
  BY GoodChannel DEF Inv, ChannelInv, Types
<1>2. user[c][u] = "shutdown"
  BY DEF ShutdownSet, Goes
<1>3. reports[c] # 0 /\ "shutdown" \in ForeignCalls
  BY <1>2 DEF UserInv
<1>4. conn' = [conn EXCEPT ![c] = s]
  <2>1. conn' = [conn EXCEPT ![c].state = "disconnecting"]
    BY DEF ShutdownSet
  <2> QED BY <1>1, <2>1
<1>5. /\ s \in ConnType /\ s.loop = conn[c].loop /\ s.state = "disconnecting"
      /\ s.ch = conn[c].ch /\ s.output = conn[c].output /\ s.shut = conn[c].shut
  BY <1>1 DEF ConnType
<1> HIDE DEF s
<1>6. Good(s, reports[c])
  BY <1>1, <1>3, <1>5 DEF Good
<1> QED BY <1>1, <1>4, <1>5, <1>6, Steady DEF ShutdownSet, Goes, loopVars

\* A raw functor is queued on the loop of its connection.
LEMMA InvQueues ==
  ASSUME Inv, NEW u \in Users, NEW c \in Conns, NEW from, NEW call \in Raw,
         Queues(u, c, from, call), reports[c] # 0, call \in ForeignCalls
  PROVE  Inv'
<1> USE DEF Queues, Goes, loopVars, dtorVars
<1> DEFINE g == Functor(call, c)
           k == conn[c].loop
           line == Todo(batch[k], ran[k], queue'[k])
<1>1. c \in accepted /\ accepted \subseteq Conns /\ k \in Loops
  BY DEF Inv, FreshInv, Types, ConnType
<1>2. g.call = call /\ g.conn = c /\ g \in FunctorType
  BY FunctorIs
<1>3. /\ call # "established" /\ call # "remove" /\ call # "destroyed"
  BY DEF Raw
<1>4. queue' = [queue EXCEPT ![k] = Append(@, g)]
  OBVIOUS
<1> HIDE DEF Queues, Goes, g
<1>5. UNCHANGED <<conn, connections_, backlog, accepted, next_, reports, phase, active,
                  accept_active, batch, ran, quit, dtor, joining, accept_channel_>>
  BY DEF Queues, Goes
<1>6. /\ queue' \in [Loops -> Seq(FunctorType)]
      /\ \A m \in Loops : m # k => queue'[m] = queue[m]
      /\ Range(line) = Range(Line(k)) \cup {g}
      /\ Range(queue'[k]) = Range(queue[k]) \cup {g}
      /\ First(line)
  <2>1. First(Line(k))
    BY <1>1 DEF Inv, FirstInv
  <2> HIDE DEF k
  <2> QED BY <1>1, <1>2, <1>3, <1>4, <2>1, Queued DEF Inv
<1>7. \A m \in Loops : m = k => Line(m)' = line
  BY <1>5 DEF Line
<1>8. \A m \in Loops : m # k => Line(m)' = Line(m)
  BY <1>5, <1>6 DEF Line
<1> HIDE DEF line
<1>9. /\ \A m \in Loops : Range(Line(m)) \subseteq Range(Line(m)')
      /\ \A m \in Loops : \A h \in Range(Line(m)') : h \in Range(Line(m)) \/ (m = k /\ h = g)
  BY <1>6, <1>7, <1>8
<1>10. \A m \in Loops : \A h \in Functors(m)' : h \in Functors(m) \/ (m = k /\ h = g)
  BY <1>5, <1>6 DEF Functors
<1>11. Types'
  BY <1>5, <1>6 DEF Inv, Types
<1>12. ChannelInv' /\ PhaseInv' /\ DtorInv' /\ FreshInv' /\ ActiveInv'
  BY <1>5 DEF Inv, ChannelInv, PhaseInv, DtorInv, FreshInv, ActiveInv
<1>13. OwnInv'
  <2>1. ASSUME NEW m \in Loops, NEW h \in Functors(m)' PROVE FunctorOK(m, h)'
    <3>1. CASE h \in Functors(m)
      BY <1>5, <3>1 DEF Inv, OwnInv, FunctorOK
    <3>2. CASE m = k /\ h = g
      BY <1>1, <1>2, <1>3, <1>5, <3>2 DEF FunctorOK
    <3> QED BY <1>10, <3>1, <3>2
  <2>2. \A d \in accepted : conn'[d].loop = Main <=> NumThreads = 0
    BY <1>5 DEF Inv, OwnInv
  <2> QED BY <1>5, <2>1, <2>2 DEF OwnInv
<1>14. FirstInv'
  BY <1>6, <1>7, <1>8 DEF Inv, FirstInv
<1>15. MapInv'
  <2>1. ASSUME NEW d \in accepted PROVE Tracked(d)'
    <3>1. conn[d].loop \in Loops
      BY <1>1 DEF Inv, Types, ConnType
    <3>2. Tracked(d)
      BY DEF Inv, MapInv
    <3> QED BY <1>5, <1>9, <3>1, <3>2, LoopFacts DEF Tracked, Alive
  <2>2. ASSUME NEW m \in Loops, NEW h \in Range(Line(m)') PROVE Ready(h)'
    <3>1. CASE h \in Range(Line(m))
      BY <1>5, <3>1 DEF Inv, MapInv, Ready
    <3>2. CASE h = g
      BY <1>2, <1>3, <1>5, <3>2 DEF Ready
    <3> QED BY <1>9, <3>1, <3>2
  <2> QED BY <1>5, <2>1, <2>2 DEF MapInv
<1>16. SingleInv'
  <2> SUFFICES ASSUME NumThreads = 0
               PROVE  /\ phase[Main] # "handle" => OnlyRaw(queue'[Main])
                      /\ NotBoth => \A d \in Conns : ClosedOnce(d)'
    BY <1>5 DEF SingleInv
  <2>1. ASSUME OnlyRaw(queue[Main]) PROVE OnlyRaw(queue'[Main])
    <3>1. \A h \in Range(queue'[Main]) : h \in Range(queue[Main]) \/ h = g
      BY <1>1, <1>6, LoopFacts
    <3> QED BY <1>2, <2>1, <3>1 DEF OnlyRaw
  <2>2. ASSUME NotBoth, NEW d \in Conns PROVE ClosedOnce(d)'
    <3>1. ClosedOnce(d)
      BY <2>2 DEF Inv, SingleInv
    <3> QED BY <1>5, <1>9, <3>1, LoopFacts DEF ClosedOnce
  <2> QED BY <2>1, <2>2 DEF Inv, SingleInv
<1> QED BY <1>11, <1>12, <1>13, <1>14, <1>15, <1>16 DEF Inv

LEMMA InvUser ==
  ASSUME Inv, UserInv, NEW u \in Users, NEW c \in Conns, UserStep(u, c) PROVE Inv'
<1>1. ASSUME NEW call \in Raw, Call(u, c, call) PROVE Inv'
  BY <1>1, InvStutter DEF Call, Goes
<1>2. CASE ShutdownSet(u, c)
  BY <1>2, InvShutdownSet
<1>3. CASE SendQueue(u, c)
  <2>1. Queues(u, c, "send", "send") /\ user[c][u] = "send" /\ "send" \in Raw
    BY <1>3 DEF SendQueue, Queues, Goes, Raw
  <2>2. reports[c] # 0 /\ "send" \in ForeignCalls
    BY <2>1 DEF UserInv
  <2> QED BY <2>1, <2>2, InvQueues
<1>4. CASE ShutdownQueue(u, c)
  <2>1. Queues(u, c, "set", "shutdown") /\ user[c][u] = "set" /\ "shutdown" \in Raw
    BY <1>4 DEF ShutdownQueue, Queues, Goes, Raw
  <2>2. reports[c] # 0 /\ "shutdown" \in ForeignCalls
    BY <2>1 DEF UserInv
  <2> QED BY <2>1, <2>2, InvQueues
<1>5. CASE Release(u, c)
  BY <1>5, InvStutter DEF Release
<1> QED BY <1>1, <1>2, <1>3, <1>4, <1>5 DEF UserStep

\* The users do nothing of their own; a report stays a report.
LEMMA UserKept ==
  ASSUME Inv, UserInv, UNCHANGED callVars, holders' \in [Conns -> SUBSET Users],
         \A d \in Conns : reports[d] # 0 => reports'[d] # 0
  PROVE  UserInv'
<1> USE DEF callVars
<1>1. ASSUME NEW c \in Conns, NEW u \in Users
      PROVE  /\ user'[c][u] # "idle" => reports'[c] # 0
             /\ user'[c][u] = "send" => "send" \in ForeignCalls
             /\ user'[c][u] \in {"shutdown", "set"} => "shutdown" \in ForeignCalls
  BY DEF UserInv
<1>2. /\ user' \in [Conns -> [Users -> {"idle", "send", "shutdown", "set"}]]
      /\ calls' \in [Users -> 0..MaxCalls]
  BY DEF UserInv
<1> QED BY <1>1, <1>2 DEF UserInv

\* A callback hands out the pointer, and may be a report.
LEMMA GivenKept ==
  ASSUME UserInv, NEW c \in Conns, Given(c) \/ UNCHANGED holders
  PROVE  holders' \in [Conns -> SUBSET Users]
<1>1. CASE Given(c)
  <2>1. PICK us \in SUBSET Users : holders' = [holders EXCEPT ![c] = @ \cup us]
    BY <1>1 DEF Given
  <2> QED BY <2>1 DEF UserInv
<1>2. CASE UNCHANGED holders
  BY <1>2 DEF UserInv
<1> QED BY <1>1, <1>2

LEMMA ReportKept ==
  ASSUME Inv, NEW c \in Conns,
         reports' = [reports EXCEPT ![c] = @ + 1] \/ UNCHANGED reports
  PROVE  \A d \in Conns : reports[d] # 0 => reports'[d] # 0
<1>1. reports \in [Conns -> Nat]
  BY BoundAssumption DEF Inv, Types
<1>2. reports[c] \in Nat /\ reports[c] + 1 # 0
  BY <1>1
<1> QED BY <1>1, <1>2

LEMMA UserInit == Init => UserInv
<1>1. 0 \in 0..MaxCalls
  BY BoundAssumption
<1> QED BY <1>1 DEF Init, UserInv

\* A user goes on with its call.
LEMMA UserGoes ==
  ASSUME Inv, UserInv, NEW u \in Users, NEW c \in Conns, NEW from, NEW to,
         Goes(u, c, from, to), calls' \in [Users -> 0..MaxCalls],
         to \in {"idle", "send", "shutdown", "set"},
         to # "idle" => reports[c] # 0,
         to = "send" => "send" \in ForeignCalls,
         to \in {"shutdown", "set"} => "shutdown" \in ForeignCalls
  PROVE  UserInv'
<1>1. /\ user' = [user EXCEPT ![c][u] = to] /\ UNCHANGED <<reports, holders>>
  BY DEF Goes
<1>2. user \in [Conns -> [Users -> {"idle", "send", "shutdown", "set"}]]
  BY DEF UserInv
<1>3. /\ user' \in [Conns -> [Users -> {"idle", "send", "shutdown", "set"}]]
      /\ user'[c][u] = to
      /\ \A d \in Conns, v \in Users : (d = c /\ v = u) \/ user'[d][v] = user[d][v]
  BY <1>1, <1>2
<1>4. ASSUME NEW d \in Conns, NEW v \in Users
      PROVE  /\ user'[d][v] # "idle" => reports'[d] # 0
             /\ user'[d][v] = "send" => "send" \in ForeignCalls
             /\ user'[d][v] \in {"shutdown", "set"} => "shutdown" \in ForeignCalls
  <2>1. CASE d = c /\ v = u
    BY <1>1, <1>3, <2>1
  <2>2. CASE ~(d = c /\ v = u)
    BY <1>1, <1>3, <2>2 DEF UserInv
  <2> QED BY <2>1, <2>2
<1> QED BY <1>1, <1>3, <1>4 DEF UserInv

LEMMA UserUser ==
  ASSUME Inv, UserInv, NEW u \in Users, NEW c \in Conns, UserStep(u, c) PROVE UserInv'
<1>1. calls \in [Users -> 0..MaxCalls]
  BY DEF UserInv
<1>2. ASSUME NEW call \in Raw, Call(u, c, call) PROVE UserInv'
  <2>1. Goes(u, c, "idle", call) /\ call \in ForeignCalls /\ conn[c].state = "connected"
    BY <1>2 DEF Call
  <2>2. reports[c] # 0
    BY <2>1 DEF Inv, ChannelInv, Good
  <2>3. calls' \in [Users -> 0..MaxCalls]
    <3>1. calls' = [calls EXCEPT ![u] = @ + 1] /\ calls[u] < MaxCalls /\ calls[u] \in 0..MaxCalls
      BY <1>1, <1>2 DEF Call
    <3>2. calls[u] + 1 \in 0..MaxCalls
      BY <3>1, BoundAssumption
    <3> QED BY <1>1, <3>1, <3>2
  <2>4. call \in {"send", "shutdown"}
    BY DEF Raw
  <2> QED BY <2>1, <2>2, <2>3, <2>4, UserGoes
<1>3. CASE ShutdownSet(u, c)
  <2>1. Goes(u, c, "shutdown", "set") /\ calls' = calls /\ user[c][u] = "shutdown"
    BY <1>3 DEF ShutdownSet, Goes
  <2>2. reports[c] # 0 /\ "shutdown" \in ForeignCalls
    BY <2>1 DEF UserInv
  <2> QED BY <1>1, <2>1, <2>2, UserGoes
<1>4. ASSUME NEW from, NEW call, Queues(u, c, from, call) PROVE UserInv'
  <2>1. Goes(u, c, from, "idle") /\ calls' = calls
    BY <1>4 DEF Queues
  <2> QED BY <1>1, <2>1, UserGoes
<1>5. CASE Release(u, c)
  <2>1. holders' = [holders EXCEPT ![c] = @ \ {u}] /\ UNCHANGED <<callVars, reports>>
    BY <1>5 DEF Release
  <2>2. holders' \in [Conns -> SUBSET Users]
    BY <2>1 DEF UserInv
  <2> QED BY <2>1, <2>2, UserKept
<1> QED BY <1>2, <1>3, <1>4, <1>5 DEF UserStep, SendQueue, ShutdownQueue

LEMMA UserOthers ==
  ASSUME Inv, UserInv, Next, ~\E u \in Users, c \in Conns : UserStep(u, c) PROVE UserInv'
<1>1. ASSUME UNCHANGED <<callVars, reports, holders>> PROVE UserInv'
  <2>1. holders' \in [Conns -> SUBSET Users]
    BY <1>1 DEF UserInv
  <2> QED BY <1>1, <2>1, UserKept
<1>2. ASSUME NEW c \in Conns, UNCHANGED callVars, Given(c) \/ UNCHANGED holders,
             reports' = [reports EXCEPT ![c] = @ + 1] \/ UNCHANGED reports
      PROVE  UserInv'
  BY <1>2, GivenKept, ReportKept, UserKept
<1>3. ASSUME NEW c \in Conns, PeerStep(c) PROVE UserInv'
  BY <1>1, <1>3 DEF PeerStep, PeerConnect, PeerData, PeerFin, PeerRst, Peer
<1>4. ASSUME NEW l \in Loops, LoopStep(l) PROVE UserInv'
  <2>1. CASE LoopEnter(l) \/ Poll(l) \/ DrainBegin(l) \/ DrainEnd(l)
    BY <1>1, <2>1 DEF LoopEnter, Poll, DrainBegin, DrainEnd, connVars
  <2>2. ASSUME NEW c \in Conns, HandleEvent(l, c) PROVE UserInv'
    BY <1>2, <2>2 DEF HandleEvent, ConnectionCallback
  <2>3. ASSUME NEW c \in Conns, RunEstablished(l, c) \/ RunDestroyed(l, c) PROVE UserInv'
    BY <1>2, <2>3 DEF RunEstablished, RunDestroyed, Destroyed, Runs, ConnectionCallback
  <2>4. ASSUME NEW c \in Conns, RunRemove(l, c) \/ RunSend(l, c) \/ RunShutdown(l, c)
        PROVE  UserInv'
    BY <1>1, <2>4 DEF RunRemove, RunSend, RunShutdown, Runs
  <2>5. ASSUME NEW c \in Conns, Accept(c) PROVE UserInv'
    BY <1>2, <2>5 DEF Accept, AcceptorHandleRead, NewConnection, ConnectionCallback
  <2>6. ASSUME NEW c \in Conns, AcceptAborted(c) PROVE UserInv'
    BY <1>1, <2>6 DEF AcceptAborted, AcceptorHandleRead
  <2>7. CASE AcceptFails
    BY <1>1, <2>7 DEF AcceptFails, AcceptorHandleRead, connVars
  <2> QED BY <1>4, <2>1, <2>2, <2>3, <2>4, <2>5, <2>6, <2>7 DEF LoopStep
<1>5. ASSUME NEW l \in Loops, NEW c \in Conns, RunCallback(l, c) PROVE UserInv'
  BY <1>1, <1>5 DEF RunCallback
<1>6. CASE DtorBegin
  BY <1>1, <1>6 DEF DtorBegin, connVars
<1>7. ASSUME NEW c \in Conns, DtorConn(c) PROVE UserInv'
  BY <1>2, <1>7 DEF DtorConn, Destroyed, ConnectionCallback
<1>8. CASE DtorMembers \/ DtorQuit \/ DtorJoin \/ DtorEnd
  BY <1>1, <1>8 DEF DtorMembers, DtorQuit, DtorJoin, DtorEnd, connVars
<1> QED BY <1>3, <1>4, <1>5, <1>6, <1>7, <1>8 DEF Next, DtorStep

LEMMA InvNext == ASSUME Inv, UserInv, [Next]_vars PROVE Inv' /\ UserInv'
<1>1. CASE UNCHANGED vars
  <2>1. UNCHANGED <<callVars, reports, holders>> /\ holders' = holders
    BY <1>1 DEF vars, connVars
  <2>2. Inv'
    BY <1>1, InvStutter DEF vars, connVars
  <2>3. UserInv'
    BY <2>1 DEF UserInv, callVars
  <2> QED BY <2>2, <2>3
<1>2. ASSUME NEW u \in Users, NEW c \in Conns, UserStep(u, c) PROVE Inv' /\ UserInv'
  BY <1>2, InvUser, UserUser
<1>3. CASE Next /\ ~\E u \in Users, c \in Conns : UserStep(u, c)
  <2>1. UserInv'
    BY <1>3, UserOthers
  <2>2. ASSUME NEW c \in Conns, PeerStep(c) PROVE Inv'
    BY <2>2, InvPeerConnect, InvPeer DEF PeerStep
  <2>3. ASSUME NEW l \in Loops, LoopStep(l) PROVE Inv'
    <3>1. CASE LoopEnter(l) \/ Poll(l) \/ DrainBegin(l) \/ DrainEnd(l)
      BY <3>1, InvLoopEnter, InvPoll, InvDrainBegin, InvDrainEnd
    <3>2. ASSUME NEW c \in Conns, HandleEvent(l, c) PROVE Inv'
      BY <3>2, InvHandleEvent
    <3>3. ASSUME NEW c \in Conns, RunEstablished(l, c) PROVE Inv'
      BY <3>3, InvRunEstablished
    <3>4. ASSUME NEW c \in Conns, RunRemove(l, c) PROVE Inv'
      BY <3>4, InvRunRemove
    <3>5. ASSUME NEW c \in Conns, RunDestroyed(l, c) PROVE Inv'
      BY <3>5, InvRunDestroyed
    <3>6. ASSUME NEW c \in Conns, RunSend(l, c) \/ RunShutdown(l, c) PROVE Inv'
      BY <3>6, InvRunRaw
    <3>7. ASSUME NEW c \in Conns, Accept(c) \/ AcceptAborted(c) PROVE Inv'
      BY <3>7, InvAccept, InvAcceptAborted
    <3>8. CASE AcceptFails
      BY <3>8, InvAcceptFails
    <3> QED BY <2>3, <3>1, <3>2, <3>3, <3>4, <3>5, <3>6, <3>7, <3>8 DEF LoopStep
  <2>4. ASSUME NEW l \in Loops, NEW c \in Conns, RunCallback(l, c) PROVE Inv'
    BY <2>4, InvRunCallback
  <2>5. CASE DtorBegin
    BY <2>1, <2>5, InvDtorBegin
  <2>6. CASE DtorStep
    BY <2>1, <2>6, InvDtorConn, InvDtor DEF DtorStep
  <2> QED BY <1>3, <2>1, <2>2, <2>3, <2>4, <2>5, <2>6 DEF Next
<1> QED BY <1>1, <1>2, <1>3

\* The invariant holds, whatever other threads call, with and without io loops and
\* the destructor.
LEMMA InvAlways == Spec => [](Inv /\ UserInv)
<1>1. Init => Inv /\ UserInv
  BY InvInit, UserInit
<1>2. (Inv /\ UserInv) /\ [Next]_vars => (Inv /\ UserInv)'
  BY InvNext
<1> QED BY <1>1, <1>2, PTL DEF Spec

-----------------------------------------------------------------------------
(* The theorems.                                                           *)

\* Types: whatever is accepted, closed and destroyed, every queue and active list
\* of a loop names existing connections and each connection is of its type.
THEOREM TypeCorrect == Spec => []TypeOK
<1>1. ASSUME Inv, UserInv PROVE TypeOK
  <2>1. next_ \in 0..NumThreads
    BY <1>1, ThreadsAssumption DEF Inv, Types
  <2>2. accept_channel_ \in ChannelType
    BY <1>1 DEF Inv, ChannelInv, Sound
  <2>3. \A l \in Loops : Functors(l) \subseteq FunctorType /\ ran[l] \in 0..Len(batch[l])
    BY <1>1, LineFacts DEF Inv
  <2>4. \A l \in Loops : active[l] \subseteq [conn : Conns, rev : SUBSET Reports]
    BY <1>1 DEF Inv, Types, ActiveType
  <2>5. phase \in [Loops -> {"start", "poll", "handle", "run", "exited"}]
    BY <1>1 DEF Inv, Types, Phases
  <2> QED BY <1>1, <2>1, <2>2, <2>3, <2>4, <2>5 DEF TypeOK, Inv, Types, UserInv
<1> QED BY <1>1, InvAlways, PTL

\* epoll_poller::update finds every descriptor in the state of its books, in epoll
\* or not, so that no LOG_FATAL of it is reached, even for a channel that a late
\* send_in_loop adds to epoll again.  The kernel running out of memory is left out.
THEOREM NoEpollFailure == Spec => []NoFatal
<1>1. Inv => NoFatal
  BY DEF Inv, ChannelInv, Good, Sound, NoFatal
<1> QED BY <1>1, InvAlways, PTL

\* run_in_loop and queue_in_loop are given to the loop that owns the connection,
\* or to the main loop for its removal, by every caller, ~tcp_server included.
THEOREM OnOwnThread == Spec => []OwnThread
<1>1. Inv => OwnThread
  BY DEF Inv, OwnInv, FunctorOK, OwnThread
<1> QED BY <1>1, InvAlways, PTL

\* shutdown_in_loop waits for handle_write to empty output_buffer_, whichever thread
\* has called shutdown: until the connection is reported down, no byte of it is
\* behind its FIN.
THEOREM FinAfterData == Spec => []NoDataAfterFin
<1>1. ASSUME Inv PROVE NoDataAfterFin
  <2> SUFFICES ASSUME NEW c \in Conns, conn[c].shut, conn[c].output PROVE reports[c] > 1
    BY DEF NoDataAfterFin
  <2>1. Good(conn[c], reports[c])
    BY <1>1 DEF Inv, ChannelInv
  <2> QED BY <2>1 DEF Good
<1> QED BY <1>1, InvAlways, PTL

\* What keeps a connection alive: the map, or a functor that is still to run.
LEMMA LineHolds ==
  ASSUME Inv, NEW l \in Loops, NEW call, call \notin Raw, NEW c,
         Functor(call, c) \in Range(Line(l))
  PROVE  Held(c)
  BY LineFacts, FunctorIs DEF Inv, Held, Served

\* The raw channel pointers in the active list of a loop point to connections that
\* are alive and registered with it, even while the server is being destroyed, and
\* whatever the users keep and let go of.
THEOREM ActiveStayAlive == ASSUME NotBoth PROVE Spec => []ActiveAlive
<1>1. ASSUME Inv PROVE ActiveAlive
  <2> SUFFICES ASSUME NEW l \in Loops, NEW a \in active[l]
               PROVE  Held(a.conn) /\ conn[a.conn].ch.on /\ conn[a.conn].loop = l
    BY DEF ActiveAlive
  <2> DEFINE c == a.conn
  <2>1. c \in accepted /\ conn[c].loop = l /\ conn[c].ch.on
    BY <1>1 DEF Inv, ActiveInv
  <2>2. Alive(l)
    BY <1>1 DEF Inv, PhaseInv, Alive
  <2>3. Tracked(c)
    BY <1>1, <2>1 DEF Inv, MapInv
  <2>4. c \notin connections_ => Functor("destroyed", c) \in Range(Line(l))
    BY <2>1, <2>2, <2>3 DEF Tracked
  <2>5. "destroyed" \notin Raw
    BY DEF Raw
  <2>6. Held(c)
    <3>1. CASE c \in connections_
      BY <3>1 DEF Held, Served
    <3>2. CASE c \notin connections_
      BY <1>1, <2>4, <2>5, <3>2, LineHolds
    <3> QED BY <3>1, <3>2
  <2> QED BY <2>1, <2>6
<1> QED BY <1>1, InvAlways, PTL

\* Every loop still runs its functors, unless the pool is being destroyed.
LEMMA AllAlive ==
  ASSUME ~Destroy \/ NumThreads = 0, Inv, NEW l \in Loops PROVE Alive(l)
  BY DEF Inv, DtorInv, Alive

\* A channel is out of epoll before its connection is freed.  With io loops to be
\* joined, ~tcp_server frees connections whose connection_destroyed never ran; and
\* where other threads call both send and shutdown, a channel that was removed can
\* be added again and freed in epoll.
THEOREM RegisteredStayAlive ==
  ASSUME ~Destroy \/ NumThreads = 0, NotBoth PROVE Spec => []RegisteredAlive
<1>1. ASSUME Inv PROVE RegisteredAlive
  <2>1. ASSUME NEW c \in accepted, conn[c].ch.on PROVE Held(c)
    <3>1. Tracked(c) /\ conn[c].loop \in Loops
      BY <1>1 DEF Inv, MapInv, Types, ConnType
    <3>2. Alive(conn[c].loop)
      BY <1>1, <3>1, AllAlive
    <3>3. CASE c \in connections_
      BY <3>3 DEF Held, Served
    <3>4. CASE c \notin connections_
      <4>1. Functor("destroyed", c) \in Range(Line(conn[c].loop)) /\ "destroyed" \notin Raw
        BY <2>1, <3>1, <3>2, <3>4 DEF Tracked, Raw
      <4> QED BY <1>1, <3>1, <4>1, LineHolds
    <3> QED BY <3>3, <3>4
  <2>2. dtor = "done" => ~accept_channel_.on
    BY <1>1 DEF Inv, DtorInv
  <2> QED BY <2>1, <2>2 DEF RegisteredAlive
<1> QED BY <1>1, InvAlways, PTL

\* What is in the line of a loop is in its queue, or in its batch and not run yet.
LEMMA LineWaits ==
  ASSUME Inv, NEW l \in Loops, NEW call, NEW c, Functor(call, c) \in Range(Line(l))
  PROVE  Waiting(l, call, c)
  BY LineFacts DEF Inv, Waiting

\* After handle_close the removal of a connection, and after that its destruction
\* until epoll has let go of it, is in a queue, as long as other threads do not call
\* both send and shutdown.
THEOREM ClosedNotStranded ==
  ASSUME ~Destroy \/ NumThreads = 0, NotBoth PROVE Spec => []CloseInFlight
<1>1. ASSUME Inv PROVE CloseInFlight
  <2> SUFFICES ASSUME NEW c \in accepted
               PROVE  /\ reports[c] > 1 /\ c \in connections_ => Waiting(Main, "remove", c)
                      /\ c \notin connections_ /\ conn[c].ch.on =>
                           Waiting(conn[c].loop, "destroyed", c)
    BY DEF CloseInFlight
  <2>1. Tracked(c) /\ conn[c].loop \in Loops
    BY <1>1 DEF Inv, MapInv, Types, ConnType
  <2>2. Alive(conn[c].loop)
    BY <1>1, <2>1, AllAlive
  <2> QED BY <1>1, <2>1, <2>2, LineWaits, LoopFacts DEF Tracked
<1> QED BY <1>1, InvAlways, PTL

\* A server without io loops runs connection_destroyed before it polls again, so
\* that a hangup cannot be reported for a connection that is down already, unless
\* other threads call both send and shutdown and bring its channel back.
THEOREM DownReportedOnce ==
  ASSUME NumThreads = 0, NotBoth PROVE Spec => []DownOnce
<1>1. ASSUME Inv PROVE DownOnce
  <2>1. \A c \in Conns : reports[c] <= 1 \/ reports[c] = 2
    BY <1>1 DEF Inv, SingleInv, ClosedOnce
  <2>2. \A c \in Conns : reports[c] \in Nat
    BY <1>1, BoundAssumption DEF Inv, Types
  <2> QED BY <2>1, <2>2 DEF DownOnce
<1> QED BY <1>1, InvAlways, PTL

-----------------------------------------------------------------------------
(* A server that is not destroyed implements ConnectionLife.               *)

lives == [c \in Conns |-> LifeOf(c)]
downs == [c \in Conns |-> IF reports[c] > 1 THEN reports[c] - 1 ELSE 0]

\* Only the last reference to a connection that is down can go away.
LEMMA LifeFacts ==
  ASSUME Inv, dtor = "no", NEW c \in accepted
  PROVE  /\ c \in Conns /\ reports[c] \in Nat
         /\ reports[c] <= 1 => c \in connections_ /\ Held(c)
<1>1. c \in Conns /\ Tracked(c)
  BY DEF Inv, Types, MapInv
<1>2. reports[c] \in Nat
  BY <1>1, BoundAssumption DEF Inv, Types
<1> QED BY <1>1, <1>2 DEF Tracked, Held, Served

LEMMA LifeIs ==
  ASSUME NEW c
  PROVE  /\ c \notin accepted => LifeOf(c) = "none"
         /\ c \in accepted /\ ~Held(c) => LifeOf(c) = "freed"
         /\ c \in accepted /\ Held(c) =>
              /\ reports[c] = 0 => LifeOf(c) = "accepted"
              /\ reports[c] = 1 => LifeOf(c) = "up"
              /\ reports[c] # 0 /\ reports[c] # 1 => LifeOf(c) = "down"
  BY DEF LifeOf

LEMMA LifeIsNext ==
  ASSUME NEW c
  PROVE  /\ c \notin accepted' => LifeOf(c)' = "none"
         /\ c \in accepted' /\ ~Held(c)' => LifeOf(c)' = "freed"
         /\ c \in accepted' /\ Held(c)' =>
              /\ reports'[c] = 0 => LifeOf(c)' = "accepted"
              /\ reports'[c] = 1 => LifeOf(c)' = "up"
              /\ reports'[c] # 0 /\ reports'[c] # 1 => LifeOf(c)' = "down"
  BY DEF LifeOf

\* The life of a connection goes on as it was.
LEMMA LifeSame ==
  ASSUME NEW c, c \in accepted' <=> c \in accepted, Held(c)' <=> Held(c),
         reports'[c] = reports[c]
  PROVE  LifeOf(c)' = LifeOf(c)
  BY LifeIs, LifeIsNext

\* The server and the users refer to c as they did.
LEMMA HeldSame ==
  ASSUME NEW c, c \in connections_' <=> c \in connections_, holders'[c] = holders[c],
         \A l \in Loops : \A f : f.conn = c /\ f.call \notin Raw =>
           (f \in Functors(l)' <=> f \in Functors(l))
  PROVE  Held(c)' <=> Held(c)
  BY DEF Held, Served

LEMMA LivesSame ==
  ASSUME \A c \in Conns : LifeOf(c)' = LifeOf(c) /\ reports'[c] = reports[c]
  PROVE  lives' = lives /\ downs' = downs
  BY DEF lives, downs

\* Nothing is reported, and no reference comes or goes.
LEMMA LivesQuiet ==
  ASSUME UNCHANGED <<accepted, connections_, reports, holders>>,
         \A l \in Loops : \A f : f.call \notin Raw => (f \in Functors(l)' <=> f \in Functors(l))
  PROVE  lives' = lives /\ downs' = downs
<1>1. \A c \in Conns : Held(c)' <=> Held(c)
  BY HeldSame
<1> QED BY <1>1, LifeSame, LivesSame

\* A callback runs for a connection that is held.
LEMMA LivesGiven ==
  ASSUME NEW c \in Conns, Held(c), UserInv, Given(c) \/ UNCHANGED holders,
         UNCHANGED <<accepted, connections_, reports, queue, batch>>
  PROVE  lives' = lives /\ downs' = downs
<1>1. /\ \A d \in Conns : d # c => holders'[d] = holders[d]
      /\ holders[c] \subseteq holders'[c]
  BY DEF Given, UserInv
<1>2. \A l \in Loops : Functors(l)' = Functors(l)
  BY DEF Functors
<1>3. ASSUME NEW d \in Conns PROVE Held(d)' <=> Held(d)
  <2>1. CASE d = c
    BY <1>1, <1>2, <2>1 DEF Held, Served
  <2>2. CASE d # c
    BY <1>1, <1>2, <2>2, HeldSame
  <2> QED BY <2>1, <2>2
<1> QED BY <1>3, LifeSame, LivesSame

\* A connection is reported up, for the first time.
LEMMA LivesUp ==
  ASSUME Inv, NEW c \in Conns, reports[c] = 0, reports' = [reports EXCEPT ![c] = @ + 1],
         \A d \in Conns : d # c => LifeOf(d)' = LifeOf(d), LifeOf(c)' = "up"
  PROVE  lives' = [lives EXCEPT ![c] = "up"] /\ downs' = downs
<1>1. \A d \in Conns : IF d = c THEN reports[d] = 0 /\ reports'[d] = 1
                       ELSE reports'[d] = reports[d]
  BY DEF Inv, Types
<1>2. downs' = downs
  <2>1. ASSUME NEW d \in Conns
        PROVE  (IF reports'[d] > 1 THEN reports'[d] - 1 ELSE 0)
                 = (IF reports[d] > 1 THEN reports[d] - 1 ELSE 0)
    BY <1>1
  <2> QED BY <2>1 DEF downs
<1> QED BY <1>2 DEF lives

LEMMA LifePeer ==
  ASSUME NEW c \in Conns, PeerStep(c) PROVE lives' = lives /\ downs' = downs
<1>1. UNCHANGED <<accepted, connections_, reports, holders, queue, batch>>
  BY DEF PeerStep, PeerConnect, PeerData, PeerFin, PeerRst, Peer, loopVars
<1> QED BY <1>1, LivesQuiet DEF Functors

\* A connection enters the map, and is UP at once if there is no other loop.
LEMMA LifeAccept ==
  ASSUME Inv, UserInv, NEW c \in Conns, Accept(c)
  PROVE  /\ lives[c] = "none" /\ downs' = downs
         /\ \E next \in {"accepted", "up"} : lives' = [lives EXCEPT ![c] = next]
<1>1. /\ c \notin accepted /\ accepted' = accepted \cup {c}
      /\ connections_' = connections_ \cup {c} /\ batch' = batch
  BY DEF Accept, AcceptorHandleRead, NewConnection, Inv, Types
<1>2. reports[c] = 0
  BY <1>1 DEF Inv, FreshInv
<1> DEFINE l == IF NumThreads = 0 THEN Main ELSE next_ + 1
           f == Functor("established", c)
<1>3. \/ UNCHANGED queue /\ ConnectionCallback(c)
      \/ queue' = [queue EXCEPT ![l] = Append(@, f)] /\ UNCHANGED <<reports, holders>>
  BY DEF Accept, NewConnection
<1>4. /\ l \in Loops /\ f \in FunctorType /\ f.conn = c
  <2>1. next_ \in Nat /\ IF NumThreads = 0 THEN next_ = 0 ELSE next_ < NumThreads
    BY DEF Inv, Types
  <2> QED BY <2>1, FunctorIs, ThreadsAssumption DEF Loops, Main
<1>5. \A k \in Loops : \A g : g.conn # c => (g \in Functors(k)' <=> g \in Functors(k))
  <2>1. CASE UNCHANGED queue
    BY <1>1, <2>1 DEF Functors
  <2>2. CASE queue' = [queue EXCEPT ![l] = Append(@, f)]
    <3> HIDE DEF l, f
    <3>1. /\ \A k \in Loops : k # l => queue'[k] = queue[k]
          /\ Range(queue'[l]) = Range(queue[l]) \cup {f}
      BY <1>4, <2>2, Queued DEF Inv
    <3> QED BY <1>1, <1>4, <3>1 DEF Functors
  <2> QED BY <1>3, <2>1, <2>2
<1> HIDE DEF l, f
<1>6. ASSUME NEW d \in Conns, d # c PROVE LifeOf(d)' = LifeOf(d)
  <2>1. holders'[d] = holders[d] /\ reports'[d] = reports[d]
    BY <1>3, <1>6 DEF ConnectionCallback, Given, UserInv, Inv, Types
  <2>2. Held(d)' <=> Held(d)
    BY <1>1, <1>5, <1>6, <2>1, HeldSame
  <2>3. d \in accepted' <=> d \in accepted
    BY <1>1, <1>6
  <2> QED BY <2>1, <2>2, <2>3, LifeSame
<1>7. c \in accepted' /\ Held(c)'
  BY <1>1 DEF Held, Served
<1>8. lives[c] = "none"
  BY <1>1, LifeIs DEF lives
<1>9. CASE ConnectionCallback(c)
  <2>1. reports' = [reports EXCEPT ![c] = @ + 1]
    BY <1>9 DEF ConnectionCallback
  <2>2. reports'[c] = 1
    BY <1>2, <2>1 DEF Inv, Types
  <2>3. LifeOf(c)' = "up"
    BY <1>7, <2>2, LifeIsNext
  <2> QED BY <1>2, <1>6, <1>8, <2>1, <2>3, LivesUp
<1>10. CASE UNCHANGED reports
  <2>1. LifeOf(c)' = "accepted"
    BY <1>2, <1>7, <1>10, LifeIsNext
  <2>2. lives' = [lives EXCEPT ![c] = "accepted"]
    BY <1>6, <2>1 DEF lives
  <2> QED BY <1>8, <1>10, <2>2 DEF downs
<1> QED BY <1>3, <1>9, <1>10

\* The closes of one connection: up, down, and down again if there are io loops.
LEMMA LifeClose ==
  ASSUME Inv, UserInv, dtor = "no", NotBoth, NEW l \in Loops, NEW c \in Conns,
         Held(c), NEW a \in active[l], a.conn = c, RemoveConnection(l, c),
         ConnectionCallback(c), UNCHANGED <<accepted, batch>>
  PROVE  /\ lives[c] = "up" \/ (NumThreads > 0 /\ lives[c] = "down")
         /\ lives' = [lives EXCEPT ![c] = "down"]
         /\ downs' = [downs EXCEPT ![c] = @ + 1]
<1>1. /\ c \in accepted /\ accepted \subseteq Conns /\ conn[c].loop = l
      /\ conn[c].ch.on /\ reports[c] < MaxReports
  BY DEF Inv, Types, ActiveInv
<1>2. reports[c] \in Nat /\ reports[c] # 0
  BY <1>1 DEF Inv, ChannelInv, Good
<1>3. /\ reports'[c] = reports[c] + 1
      /\ \A d \in Conns : d # c => reports'[d] = reports[d]
  BY <1>1, Reported1 DEF ConnectionCallback
<1>4. PICK k \in Loops, f \in FunctorType :
        /\ f.conn = c /\ f.call \notin Raw
        /\ queue' = [queue EXCEPT ![k] = Append(@, f)]
        /\ connections_' \in {connections_, connections_ \ {c}}
  <2>1. l \in Loops /\ Main \in Loops
    BY LoopFacts
  <2>2. /\ Functor("destroyed", c) \in FunctorType /\ Functor("remove", c) \in FunctorType
        /\ Functor("destroyed", c).conn = c /\ Functor("remove", c).conn = c
        /\ Functor("destroyed", c).call \notin Raw /\ Functor("remove", c).call \notin Raw
    BY FunctorIs DEF Raw
  <2>3. CASE l = Main
    <3>1. /\ queue' = [queue EXCEPT ![l] = Append(@, Functor("destroyed", c))]
          /\ connections_' = connections_ \ {c}
      BY <1>1, <2>3 DEF RemoveConnection, RemoveConnectionInLoop
    <3> QED BY <2>1, <2>2, <3>1
  <2>4. CASE l # Main
    <3>1. /\ queue' = [queue EXCEPT ![Main] = Append(@, Functor("remove", c))]
          /\ connections_' = connections_
      BY <2>4 DEF RemoveConnection
    <3> QED BY <2>1, <2>2, <3>1
  <2> QED BY <2>3, <2>4
<1>5. /\ \A m \in Loops : m # k => queue'[m] = queue[m]
      /\ Range(queue'[k]) = Range(queue[k]) \cup {f}
  BY <1>4, Queued DEF Inv
<1>6. /\ \A m \in Loops : \A g : g.conn # c => (g \in Functors(m)' <=> g \in Functors(m))
      /\ f \in Functors(k)'
  BY <1>4, <1>5 DEF Functors
<1>7. ASSUME NEW d \in Conns, d # c PROVE LifeOf(d)' = LifeOf(d)
  <2>1. holders'[d] = holders[d]
    BY <1>7 DEF ConnectionCallback, Given, UserInv
  <2>2. Held(d)' <=> Held(d)
    BY <1>4, <1>6, <1>7, <2>1, HeldSame
  <2> QED BY <1>3, <1>7, <2>2, LifeSame
<1>8. Held(c)' /\ c \in accepted'
  BY <1>1, <1>4, <1>6 DEF Held, Served
<1>9. LifeOf(c)' = "down"
  <2>1. reports'[c] # 0 /\ reports'[c] # 1
    BY <1>2, <1>3
  <2> QED BY <1>8, <2>1, LifeIsNext
<1>10. LifeOf(c) = "up" \/ (NumThreads > 0 /\ LifeOf(c) = "down")
  <2>1. CASE reports[c] = 1
    BY <1>1, <2>1, LifeIs
  <2>2. CASE reports[c] # 1
    <3>1. LifeOf(c) = "down"
      BY <1>1, <1>2, <2>2, LifeIs
    <3>2. NumThreads # 0
      <4> SUFFICES ASSUME NumThreads = 0 PROVE FALSE
        OBVIOUS
      <4>1. ClosedOnce(c) /\ l = Main
        BY <1>1 DEF Inv, SingleInv, OwnInv
      <4>2. ~(reports[c] <= 1)
        BY <1>2, <2>2
      <4> QED BY <4>1, <4>2 DEF ClosedOnce
    <3> QED BY <3>1, <3>2, ThreadsAssumption
  <2> QED BY <2>1, <2>2
<1>11. downs' = [downs EXCEPT ![c] = @ + 1]
  <2> DEFINE n(d) == IF reports[d] > 1 THEN reports[d] - 1 ELSE 0
             m(d) == IF reports'[d] > 1 THEN reports'[d] - 1 ELSE 0
  <2>1. m(c) = n(c) + 1
    BY <1>2, <1>3
  <2>2. \A d \in Conns : d # c => m(d) = n(d)
    BY <1>3
  <2>3. downs = [d \in Conns |-> n(d)] /\ downs' = [d \in Conns |-> m(d)]
    BY DEF downs
  <2> HIDE DEF n, m
  <2> QED BY <2>1, <2>2, <2>3
<1> QED BY <1>7, <1>9, <1>10, <1>11 DEF lives

LEMMA LifeEvent ==
  ASSUME Inv, UserInv, dtor = "no", NotBoth, NEW l \in Loops, NEW c \in Conns,
         HandleEvent(l, c)
  PROVE  \/ lives' = lives /\ downs' = downs
         \/ /\ lives[c] = "up" \/ (NumThreads > 0 /\ lives[c] = "down")
            /\ lives' = [lives EXCEPT ![c] = "down"]
            /\ downs' = [downs EXCEPT ![c] = @ + 1]
<1>1. PICK a \in active[l] :
        /\ a.conn = c
        /\ IF Closing(conn[c], a.rev)
           THEN RemoveConnection(l, c) /\ ConnectionCallback(c)
           ELSE /\ Given(c) \/ UNCHANGED holders
                /\ UNCHANGED <<queue, connections_, reports>>
  BY DEF HandleEvent
<1>2. UNCHANGED <<accepted, batch>> /\ Held(c)
  BY DEF HandleEvent
<1>3. CASE Closing(conn[c], a.rev)
  BY <1>1, <1>2, <1>3, LifeClose
<1>4. CASE ~Closing(conn[c], a.rev)
  BY <1>1, <1>2, <1>4, LivesGiven
<1> QED BY <1>3, <1>4

LEMMA LifeEstablished ==
  ASSUME Inv, UserInv, dtor = "no", NEW l \in Loops, NEW c, RunEstablished(l, c)
  PROVE  /\ c \in Conns /\ lives[c] = "accepted" /\ downs' = downs
         /\ lives' = [lives EXCEPT ![c] = "up"]
<1> DEFINE f == Functor("established", c)
<1>1. /\ Runs(l, "established", c) /\ UNCHANGED <<connections_, queue>>
      /\ UNCHANGED <<accepted, batch>> /\ ConnectionCallback(c)
  BY DEF RunEstablished, Runs
<1>2. c \in Conns
  BY <1>1, Popped DEF Inv
<1>3. FunctorOK(l, f) /\ Ready(f)
  BY <1>1, PoppedLines
<1>4. c \in accepted /\ reports[c] = 0
  BY <1>3, FunctorIs DEF FunctorOK, Ready
<1>5. Held(c) /\ c \in connections_
  BY <1>4, LifeFacts
<1>6. reports' = [reports EXCEPT ![c] = @ + 1]
  BY <1>1 DEF ConnectionCallback
<1>7. reports'[c] = 1 /\ \A d \in Conns : d # c => reports'[d] = reports[d]
  BY <1>2, <1>4, <1>6 DEF Inv, Types
<1>8. \A d \in Conns : d # c => holders'[d] = holders[d]
  BY <1>1 DEF ConnectionCallback, Given, UserInv
<1>9. \A k \in Loops : Functors(k)' = Functors(k)
  BY <1>1 DEF Functors
<1>10. ASSUME NEW d \in Conns, d # c PROVE LifeOf(d)' = LifeOf(d)
  <2>1. Held(d)' <=> Held(d)
    BY <1>1, <1>8, <1>9, <1>10, HeldSame
  <2> QED BY <1>1, <1>7, <1>10, <2>1, LifeSame
<1>11. Held(c)'
  BY <1>1, <1>5 DEF Held, Served
<1>12. LifeOf(c) = "accepted" /\ LifeOf(c)' = "up"
  BY <1>1, <1>4, <1>5, <1>7, <1>11, LifeIs, LifeIsNext
<1>13. lives[c] = "accepted"
  BY <1>2, <1>12 DEF lives
<1> QED BY <1>2, <1>4, <1>6, <1>10, <1>12, <1>13, LivesUp

\* The removal hands the last reference from the map to the next functor.
LEMMA LifeRemove ==
  ASSUME Inv, NEW l \in Loops, NEW c, RunRemove(l, c) PROVE lives' = lives /\ downs' = downs
<1> DEFINE f == Functor("remove", c)
           g == Functor("destroyed", c)
           k == conn[c].loop
<1>1. /\ Runs(l, "remove", c) /\ UNCHANGED <<conn, accepted, batch, reports, holders>>
      /\ connections_' = connections_ \ {c}
      /\ queue' = [queue EXCEPT ![k] = Append(@, g)]
  BY DEF RunRemove, RemoveConnectionInLoop, Runs
<1>2. c \in Conns /\ f \in Range(Line(l))
  BY <1>1, Popped DEF Inv
<1>3. Held(c)
  BY <1>2, LineHolds DEF Raw
<1>4. k \in Loops /\ g \in FunctorType /\ g.conn = c /\ g.call \notin Raw
  BY <1>2, FunctorIs DEF Inv, Types, ConnType, Raw
<1>5. /\ \A m \in Loops : m # k => queue'[m] = queue[m]
      /\ Range(queue'[k]) = Range(queue[k]) \cup {g}
  <2> HIDE DEF g, k
  <2> QED BY <1>1, <1>4, Queued DEF Inv
<1> HIDE DEF f, g, k
<1>6. /\ \A m \in Loops : \A h : h.conn # c => (h \in Functors(m)' <=> h \in Functors(m))
      /\ \E m \in Loops : g \in Functors(m)'
  BY <1>1, <1>4, <1>5 DEF Functors
<1>7. ASSUME NEW d \in Conns PROVE Held(d)' <=> Held(d)
  <2>1. CASE d = c
    BY <1>3, <1>4, <1>6, <2>1 DEF Held, Served
  <2>2. CASE d # c
    BY <1>1, <1>6, <2>2, HeldSame
  <2> QED BY <2>1, <2>2
<1> QED BY <1>1, <1>7, LifeSame, LivesSame

\* A connection out of the map has been reported down before.
LEMMA LifeDestroyed ==
  ASSUME Inv, dtor = "no", NEW l \in Loops, NEW c, RunDestroyed(l, c)
  PROVE  lives' = lives /\ downs' = downs
<1> DEFINE f == Functor("destroyed", c)
<1>1. /\ Runs(l, "destroyed", c) /\ UNCHANGED <<connections_, queue>>
      /\ UNCHANGED <<accepted, batch>> /\ Destroyed(c)
  BY DEF RunDestroyed, Runs
<1>2. c \in Conns
  BY <1>1, Popped DEF Inv
<1>3. FunctorOK(l, f) /\ Ready(f)
  BY <1>1, PoppedLines
<1>4. c \in accepted /\ c \notin connections_
  BY <1>3, FunctorIs DEF FunctorOK, Ready
<1>5. reports[c] # 1
  BY <1>4, LifeFacts
<1>6. conn[c].state # "connected"
  BY <1>2, <1>5 DEF Inv, ChannelInv, Good
<1>7. UNCHANGED <<reports, holders>>
  BY <1>1, <1>6 DEF Destroyed
<1> QED BY <1>1, <1>7, LivesQuiet DEF Functors

\* References go away, and with them connections that are down.
LEMMA LivesFreed ==
  ASSUME Inv, dtor = "no", UNCHANGED <<connections_, accepted, reports>>,
         \A c \in Conns : Held(c)' => Held(c)
  PROVE  /\ downs' = downs
         /\ \E gone \in SUBSET {c \in Conns : lives[c] = "down"} :
              lives' = [c \in Conns |-> IF c \in gone THEN "freed" ELSE lives[c]]
<1> DEFINE gone == {c \in Conns : lives[c] = "down" /\ ~Held(c)'}
<1>1. ASSUME NEW c \in Conns PROVE LifeOf(c)' = IF c \in gone THEN "freed" ELSE LifeOf(c)
  <2>1. c \in gone <=> LifeOf(c) = "down" /\ ~Held(c)'
    BY DEF lives
  <2> HIDE DEF gone
  <2>2. CASE c \notin accepted
    BY <2>1, <2>2, LifeIs, LifeIsNext
  <2>3. CASE c \in accepted /\ (Held(c)' <=> Held(c))
    <3>1. LifeOf(c)' = LifeOf(c)
      BY <2>3, LifeSame
    <3>2. LifeOf(c) = "down" => Held(c)
      BY <2>3, LifeIs
    <3> QED BY <2>1, <2>3, <3>1, <3>2
  <2>4. CASE c \in accepted /\ Held(c) /\ ~Held(c)'
    <3>1. reports[c] \in Nat /\ ~(reports[c] <= 1)
      <4>1. ASSUME reports[c] <= 1 PROVE FALSE
        <5>1. c \in connections_
          BY <2>4, <4>1, LifeFacts
        <5> QED BY <2>4, <5>1 DEF Held, Served
      <4> QED BY <2>4, <4>1, LifeFacts
    <3>2. LifeOf(c) = "down"
      BY <2>4, <3>1, LifeIs
    <3> QED BY <2>1, <2>4, <3>2, LifeIsNext
  <2> QED BY <2>2, <2>3, <2>4
<1>2. gone \in SUBSET {c \in Conns : lives[c] = "down"}
  OBVIOUS
<1> HIDE DEF gone
<1>3. lives' = [c \in Conns |-> IF c \in gone THEN "freed" ELSE lives[c]]
  BY <1>1 DEF lives
<1> QED BY <1>2, <1>3 DEF downs

\* The functors of a batch die together, and some connections with them.
LEMMA LifeDrainEnd ==
  ASSUME Inv, dtor = "no", NEW l \in Loops, DrainEnd(l)
  PROVE  /\ downs' = downs
         /\ \E gone \in SUBSET {c \in Conns : lives[c] = "down"} :
              lives' = [c \in Conns |-> IF c \in gone THEN "freed" ELSE lives[c]]
<1>1. UNCHANGED <<connections_, accepted, reports, holders>>
  BY DEF DrainEnd, connVars
<1>2. ~quit[l]
  BY DEF Inv, DtorInv
<1>3. \A k \in Loops : Functors(k)' \subseteq Functors(k)
  BY <1>2, RangeEmpty DEF DrainEnd, Functors, Inv, Types
<1>4. \A c \in Conns : Held(c)' => Held(c)
  BY <1>1, <1>3 DEF Held, Served
<1> QED BY <1>1, <1>4, LivesFreed

\* A user lets go of its pointer, or goes on with a call.
LEMMA LifeUser ==
  ASSUME Inv, UserInv, dtor = "no", NEW u \in Users, NEW c \in Conns, UserStep(u, c)
  PROVE  /\ downs' = downs
         /\ \/ lives' = lives
            \/ \E gone \in SUBSET {d \in Conns : lives[d] = "down"} :
                 lives' = [d \in Conns |-> IF d \in gone THEN "freed" ELSE lives[d]]
<1>1. ASSUME NEW call, Call(u, c, call) \/ ShutdownSet(u, c) PROVE lives' = lives /\ downs' = downs
  <2>1. UNCHANGED <<accepted, connections_, reports, holders, queue, batch>>
    BY <1>1 DEF Call, ShutdownSet, Goes, loopVars
  <2> QED BY <2>1, LivesQuiet DEF Functors
<1>2. ASSUME NEW from, NEW call \in Raw, Queues(u, c, from, call)
      PROVE  lives' = lives /\ downs' = downs
  <2> DEFINE g == Functor(call, c)
             k == conn[c].loop
  <2>1. /\ UNCHANGED <<accepted, connections_, reports, holders, batch>>
        /\ queue' = [queue EXCEPT ![k] = Append(@, g)]
    BY <1>2 DEF Queues, Goes, loopVars
  <2>2. k \in Loops /\ g \in FunctorType /\ g.call \in Raw
    BY FunctorIs DEF Inv, Types, ConnType
  <2> HIDE DEF g, k
  <2>3. /\ \A m \in Loops : m # k => queue'[m] = queue[m]
        /\ Range(queue'[k]) = Range(queue[k]) \cup {g}
    BY <2>1, <2>2, Queued, FunctorIs DEF Inv
  <2>4. \A m \in Loops : \A f : f.call \notin Raw => (f \in Functors(m)' <=> f \in Functors(m))
    BY <2>1, <2>2, <2>3 DEF Functors
  <2> QED BY <2>1, <2>4, LivesQuiet
<1>3. CASE Release(u, c)
  <2>1. /\ UNCHANGED <<accepted, connections_, reports, queue, batch>>
        /\ holders' = [holders EXCEPT ![c] = @ \ {u}]
    BY <1>3 DEF Release, loopVars
  <2>2. \A d \in Conns : holders'[d] \subseteq holders[d]
    BY <2>1 DEF UserInv
  <2>3. \A d \in Conns : Held(d)' => Held(d)
    BY <2>1, <2>2 DEF Held, Served, Functors
  <2> QED BY <2>1, <2>3, LivesFreed
<1>4. "send" \in Raw /\ "shutdown" \in Raw
  BY DEF Raw
<1> QED BY <1>1, <1>2, <1>3, <1>4 DEF UserStep, SendQueue, ShutdownQueue

\* A step of the server, its users or the peers, in the terms of ConnectionLife.
LivesStep ==
  \/ lives' = lives /\ downs' = downs
  \/ /\ downs' = downs
     /\ \E gone \in SUBSET {c \in Conns : lives[c] = "down"} :
          lives' = [c \in Conns |-> IF c \in gone THEN "freed" ELSE lives[c]]
  \/ \E c \in Conns :
       \/ /\ lives[c] = "none" /\ downs' = downs
          /\ \E next \in {"accepted", "up"} : lives' = [lives EXCEPT ![c] = next]
       \/ lives[c] = "accepted" /\ downs' = downs /\ lives' = [lives EXCEPT ![c] = "up"]
       \/ /\ lives[c] = "up" \/ (NumThreads > 0 /\ lives[c] = "down")
          /\ lives' = [lives EXCEPT ![c] = "down"]
          /\ downs' = [downs EXCEPT ![c] = @ + 1]

LEMMA LifeNext == ASSUME ~Destroy, NotBoth, Inv, UserInv, [Next]_vars PROVE LivesStep
<1>1. dtor = "no"
  BY DEF Inv, DtorInv
<1>2. CASE UNCHANGED vars
  <2>1. UNCHANGED <<accepted, connections_, reports, holders, queue, batch>>
    BY <1>2 DEF vars, connVars, loopVars
  <2>2. lives' = lives /\ downs' = downs
    BY <2>1, LivesQuiet DEF Functors
  <2> QED BY <2>2 DEF LivesStep
<1>3. ASSUME NEW c \in Conns, PeerStep(c) PROVE LivesStep
  BY <1>3, LifePeer DEF LivesStep
<1>4. ASSUME NEW u \in Users, NEW c \in Conns, UserStep(u, c) PROVE LivesStep
  BY <1>1, <1>4, LifeUser DEF LivesStep
<1>5. ASSUME NEW l \in Loops, LoopStep(l) PROVE LivesStep
  <2>1. ASSUME UNCHANGED <<accepted, connections_, reports, holders, queue, batch>>
        PROVE  LivesStep
    <3>1. lives' = lives /\ downs' = downs
      BY <2>1, LivesQuiet DEF Functors
    <3> QED BY <3>1 DEF LivesStep
  <2>2. CASE LoopEnter(l) \/ Poll(l) \/ AcceptFails
    BY <2>1, <2>2 DEF LoopEnter, Poll, AcceptFails, AcceptorHandleRead, connVars
  <2>3. ASSUME NEW c \in Conns, AcceptAborted(c) \/ RunSend(l, c) \/ RunShutdown(l, c)
        PROVE  LivesStep
    BY <2>1, <2>3 DEF AcceptAborted, AcceptorHandleRead, RunSend, RunShutdown, Runs
  <2>4. CASE DrainBegin(l)
    <3>1. UNCHANGED <<accepted, connections_, reports, holders>> /\ phase[l] = "handle"
      BY <2>4 DEF DrainBegin, connVars
    <3>2. \A k \in Loops : Functors(k)' = Functors(k)
      BY <2>4, <3>1, RangeEmpty DEF DrainBegin, Functors, Inv, Types, PhaseInv
    <3>3. lives' = lives /\ downs' = downs
      BY <3>1, <3>2, LivesQuiet
    <3> QED BY <3>3 DEF LivesStep
  <2>5. CASE DrainEnd(l)
    BY <1>1, <2>5, LifeDrainEnd DEF LivesStep
  <2>6. ASSUME NEW c \in Conns, HandleEvent(l, c) PROVE LivesStep
    BY <1>1, <2>6, LifeEvent DEF LivesStep
  <2>7. ASSUME NEW c \in Conns, RunEstablished(l, c) PROVE LivesStep
    BY <1>1, <2>7, LifeEstablished DEF LivesStep
  <2>8. ASSUME NEW c \in Conns, RunRemove(l, c) \/ RunDestroyed(l, c) PROVE LivesStep
    BY <1>1, <2>8, LifeRemove, LifeDestroyed DEF LivesStep
  <2>9. ASSUME NEW c \in Conns, Accept(c) PROVE LivesStep
    BY <1>1, <2>9, LifeAccept DEF LivesStep
  <2> QED BY <1>5, <2>2, <2>3, <2>4, <2>5, <2>6, <2>7, <2>8, <2>9 DEF LoopStep
<1>6. ASSUME NEW l \in Loops, NEW c \in Conns, RunCallback(l, c) PROVE LivesStep
  <2>1. UNCHANGED <<accepted, connections_, reports, holders, queue, batch>>
    BY <1>6 DEF RunCallback, loopVars
  <2>2. lives' = lives /\ downs' = downs
    BY <2>1, LivesQuiet DEF Functors
  <2> QED BY <2>2 DEF LivesStep
<1>7. ~DtorBegin /\ ~DtorStep
  BY <1>1 DEF DtorBegin, DtorStep, DtorConn, DtorMembers, DtorQuit, DtorJoin, DtorEnd
<1> QED BY <1>2, <1>3, <1>4, <1>5, <1>6, <1>7 DEF Next

\* Every call of connection_callback_ that new_connection, connection_established,
\* handle_close and connection_destroyed make, through whatever queues they travel,
\* is in the order of ConnectionLife: UP once and first, then DOWN, once if there
\* are no io loops; and the last pointer goes away only after that.
THEOREM LivesKept == ASSUME ~Destroy, NotBoth PROVE Spec => LivesInOrder
<1>1. Init => Life!Init
  BY LifeIs DEF Init, Life!Init
<1>2. ASSUME Inv, UserInv, [Next]_vars
      PROVE  Life!Next \/ (lives' = lives /\ downs' = downs)
  <2>1. LivesStep
    BY <1>2, LifeNext
  <2>2. CASE /\ downs' = downs
             /\ \E gone \in SUBSET {c \in Conns : lives[c] = "down"} :
                  lives' = [c \in Conns |-> IF c \in gone THEN "freed" ELSE lives[c]]
    BY <2>2 DEF lives, downs, Life!Next, Life!FreeSome
  <2>3. ASSUME NEW c \in Conns, lives[c] = "none", downs' = downs,
               \E next \in {"accepted", "up"} : lives' = [lives EXCEPT ![c] = next]
        PROVE  Life!Next
    BY <2>3 DEF lives, downs, Life!Next, Life!Accept, Life!Goes
  <2>4. ASSUME NEW c \in Conns, lives[c] = "accepted", downs' = downs,
               lives' = [lives EXCEPT ![c] = "up"]
        PROVE  Life!Next
    BY <2>4 DEF lives, downs, Life!Next, Life!Up, Life!Goes
  <2>5. ASSUME NEW c \in Conns, lives[c] = "up" \/ (NumThreads > 0 /\ lives[c] = "down"),
               lives' = [lives EXCEPT ![c] = "down"], downs' = [downs EXCEPT ![c] = @ + 1]
        PROVE  Life!Next
    BY <2>5 DEF lives, downs, Life!Next, Life!Down, Life!Goes
  <2> QED BY <2>1, <2>2, <2>3, <2>4, <2>5 DEF LivesStep
<1>3. Inv /\ UserInv /\ [Next]_vars =>
        [Life!Next]_<<[c \in Conns |-> LifeOf(c)],
                      [c \in Conns |-> IF reports[c] > 1 THEN reports[c] - 1 ELSE 0]>>
  BY <1>2 DEF lives, downs
<1> QED BY <1>1, <1>3, InvAlways, PTL DEF Spec, LivesInOrder, Life!Spec, Life!vars
=============================================================================
