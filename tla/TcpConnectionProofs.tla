------------------------- MODULE TcpConnectionProofs -------------------------
(***************************************************************************)
(* Proofs about TcpConnection, for every number of threads, every size of  *)
(* message, socket and mark, and every bound.  Operators on the record of  *)
(* the connection come first: each callback is shown to do Works (it keeps *)
(* the connection up) or Downs.  Then the inductive invariant, an action   *)
(* at a time, and the theorems.  TcpStreamProofs.tla continues with the    *)
(* order of the stream.                                                    *)
(***************************************************************************)
EXTENDS TcpConnection, ChannelProofs, BatchProofs

\* A record of the right type whose channel is in order.
Rec(r) == r \in ConnType /\ Sound(r.ch)

\* The channel of a connection that is up asks for room exactly while there is
\* something to write.
Watching(r) ==
  /\ r.state # "disconnected"
  /\ r.ch.on
  /\ is_writing(r.ch) <=> r.output # <<>>

Told(r) == r.output = <<>> => r.told = Len(r.wire)

Crossing(r, s) ==
  IF Len(r.output) < high_water_mark_ /\ Len(s.output) >= high_water_mark_ THEN 1 ELSE 0

\* What a step on the thread of the loop may add to the queue.
Announces(r, s) ==
  s.queue \in {r.queue, Append(r.queue, LoopFunctor("written")),
                        Append(r.queue, LoopFunctor("highwater"))}

Same(r, s) ==
  /\ s.state = r.state
  /\ s.shut = r.shut
  /\ s.closes = r.closes
  /\ s.echoes = r.echoes

LEMMA LoopFunctorType ==
  ASSUME NEW c \in Calls
  PROVE  LoopFunctor(c) \in FunctorType
  BY BoundAssumption DEF LoopFunctor, Functor, FunctorType, Senders

LEMMA Fields ==
  ASSUME NEW r \in ConnType
  PROVE  /\ r.output \in Seq(Messages) /\ r.wire \in Seq(Messages)
         /\ r.queue \in Seq(FunctorType) /\ r.room \in 0..SendBuffer
         /\ Len(r.output) \in Nat /\ Len(r.wire) \in Nat
         /\ r.told \in Nat /\ r.highs \in Nat /\ r.closes \in 0..MaxCloses
         /\ r.echoes \in 0..MaxEchoes
  BY DEF ConnType

LEMMA WatchedChannel ==
  ASSUME NEW ch, Sound(ch)
  PROVE  /\ Sound(Watched(ch)) /\ is_writing(Watched(ch))
         /\ ch.on => Watched(ch).on
<1>1. CASE is_writing(ch)
  BY <1>1 DEF Watched
<1>2. CASE ~is_writing(ch)
  BY <1>2, EnableWriting DEF Watched, is_writing
<1> QED BY <1>1, <1>2

\* send_in_loop puts the message behind what waits, writes a part of it at once
\* only if nothing does, or drops it.
LEMMA SendShape ==
  ASSUME NEW r, Rec(r), NEW data \in Seq(Messages)
  PROVE  LET s == SendInLoop(r, data)
             n == IF Direct(r) THEN Least(Len(data), r.room) ELSE 0
             rest == SubSeq(data, n + 1, Len(data))
         IN \/ s = r
            \/ Direct(r) /\ WriteFails(r) /\ s = [r EXCEPT !.err = FALSE]
            \/ /\ r.state # "disconnected"
               /\ Direct(r) => ~WriteFails(r)
               /\ rest = <<>>
               /\ s = Complete(Takes(r, data, n))
            \/ /\ r.state # "disconnected"
               /\ Direct(r) => ~WriteFails(r)
               /\ rest # <<>>
               /\ s = Buffered(Takes(r, data, n), rest)
  BY DEF SendInLoop

\* The socket takes the first n bytes.
LEMMA TakesRec ==
  ASSUME NEW r, Rec(r), NEW data \in Seq(Messages), NEW n \in Nat, n <= Len(data), n <= r.room
  PROVE  LET t == Takes(r, data, n)
         IN /\ Rec(t) /\ Same(r, t) /\ t.output = r.output /\ t.queue = r.queue
            /\ t.wire = r.wire \o SubSeq(data, 1, n) /\ t.ch = r.ch /\ t.err = r.err
            /\ t.told = r.told /\ t.highs = r.highs
<1> DEFINE t == Takes(r, data, n)
           w == r.wire \o SubSeq(data, 1, n)
<1> SUFFICES /\ Rec(t) /\ Same(r, t) /\ t.output = r.output /\ t.queue = r.queue
             /\ t.wire = w /\ t.ch = r.ch /\ t.err = r.err
             /\ t.told = r.told /\ t.highs = r.highs
  OBVIOUS
<1>0. r \in ConnType /\ Sound(r.ch)
  BY DEF Rec
<1>1. SubSeq(data, 1, n) \in Seq(Messages)
  <2>1. \A i \in 1..n : data[i] \in Messages
    <3>1. Len(data) \in Nat
      OBVIOUS
    <3> QED BY <3>1
  <2> QED BY <2>1, SubSeqProperties
<1>2. w \in Seq(Messages)
  BY <1>0, <1>1, Fields
<1>3. r.room - n \in 0..SendBuffer
  BY <1>0, Fields, BoundAssumption
<1>4. t = [r EXCEPT !.wire = w, !.room = r.room - n]
  BY DEF Takes
<1> HIDE DEF t, w
<1>5. t \in ConnType
  BY <1>0, <1>2, <1>3, <1>4 DEF ConnType
<1>6. /\ Same(r, t) /\ t.output = r.output /\ t.queue = r.queue
      /\ t.wire = w /\ t.ch = r.ch /\ t.err = r.err
      /\ t.told = r.told /\ t.highs = r.highs
  BY <1>0, <1>4 DEF ConnType, Same
<1> QED BY <1>0, <1>5, <1>6 DEF Rec

\* A write-complete callback is queued, for all of the wire.
LEMMA CompleteRec ==
  ASSUME NEW r, Rec(r)
  PROVE  LET s == Complete(r)
         IN /\ Rec(s) /\ Same(r, s) /\ s.output = r.output /\ s.wire = r.wire /\ s.ch = r.ch
            /\ s.queue = Append(r.queue, LoopFunctor("written"))
            /\ s.told = Len(r.wire) /\ s.highs = r.highs /\ s.err = r.err
<1> DEFINE s == Complete(r)
           q == Append(r.queue, LoopFunctor("written"))
<1> SUFFICES /\ Rec(s) /\ Same(r, s) /\ s.output = r.output /\ s.wire = r.wire /\ s.ch = r.ch
             /\ s.queue = q
             /\ s.told = Len(r.wire) /\ s.highs = r.highs /\ s.err = r.err
  OBVIOUS
<1>0. r \in ConnType /\ Sound(r.ch)
  BY DEF Rec
<1>1. q \in Seq(FunctorType)
  BY <1>0, Fields, LoopFunctorType DEF Calls
<1>2. s = [r EXCEPT !.queue = q, !.told = Len(r.wire)]
  BY <1>0 DEF Complete, Queue, ConnType
<1> HIDE DEF s, q
<1>3. s \in ConnType
  BY <1>0, <1>1, <1>2, Fields DEF ConnType
<1>4. /\ Same(r, s) /\ s.output = r.output /\ s.wire = r.wire /\ s.ch = r.ch
      /\ s.queue = q /\ s.told = Len(r.wire) /\ s.highs = r.highs /\ s.err = r.err
  BY <1>0, <1>2 DEF ConnType, Same
<1> QED BY <1>0, <1>3, <1>4 DEF Rec

\* What is left over waits, the channel asks for room, and the mark is noticed.
LEMMA BufferedRec ==
  ASSUME NEW r, Rec(r), NEW rest \in Seq(Messages), rest # <<>>
  PROVE  LET s == Buffered(r, rest)
         IN /\ Rec(s) /\ Same(r, s) /\ s.output = r.output \o rest /\ s.output # <<>>
            /\ s.wire = r.wire /\ s.ch = Watched(r.ch) /\ Announces(r, s)
            /\ s.highs = r.highs + Crossing(r, s)
<1> DEFINE s == Buffered(r, rest)
           o == r.output \o rest
           q == IF CrossesMark(Len(r.output), Len(r.output) + Len(rest))
                THEN Append(r.queue, LoopFunctor("highwater")) ELSE r.queue
           h == IF CrossesMark(Len(r.output), Len(r.output) + Len(rest))
                THEN r.highs + 1 ELSE r.highs
<1> SUFFICES /\ Rec(s) /\ Same(r, s) /\ s.output = o /\ o # <<>>
             /\ s.wire = r.wire /\ s.ch = Watched(r.ch) /\ Announces(r, s)
             /\ s.highs = r.highs + Crossing(r, s)
  OBVIOUS
<1>0. r \in ConnType /\ Sound(r.ch) /\ Sound(Watched(r.ch)) /\ Watched(r.ch) \in ChannelType
  BY WatchedChannel DEF Rec, Sound
<1>1. q \in Seq(FunctorType) /\ h \in Nat
  BY <1>0, Fields, LoopFunctorType DEF Calls
<1>2. o \in Seq(Messages) /\ Len(o) = Len(r.output) + Len(rest) /\ o # <<>>
  BY <1>0, Fields, ConcatProperties
<1>3. s = [r EXCEPT !.queue = q, !.highs = h, !.output = o, !.ch = Watched(r.ch)]
  BY <1>0 DEF Buffered, Queue, ConnType
<1>4. h = r.highs + (IF Len(r.output) < high_water_mark_ /\ Len(o) >= high_water_mark_
                     THEN 1 ELSE 0)
  BY <1>0, <1>2, Fields DEF CrossesMark
<1>5. q \in {r.queue, Append(r.queue, LoopFunctor("written")),
             Append(r.queue, LoopFunctor("highwater"))}
  OBVIOUS
<1> HIDE DEF s, q, h, o
<1>6. s \in ConnType
  BY <1>0, <1>1, <1>2, <1>3 DEF ConnType
<1>7. /\ Same(r, s) /\ s.output = o /\ s.wire = r.wire /\ s.ch = Watched(r.ch)
      /\ s.queue = q /\ s.highs = h
  BY <1>0, <1>3 DEF ConnType, Same
<1> QED BY <1>0, <1>2, <1>4, <1>5, <1>6, <1>7 DEF Rec, Announces, Crossing

\* The stream between two records: data behind it, then a part of it to the wire,
\* and none of it behind a FIN.
Moves(r, s, data) ==
  \E n \in 0..Len(r.output \o data) :
    /\ r.shut => n = 0
    /\ s.wire = r.wire \o SubSeq(r.output \o data, 1, n)
    /\ s.output = SubSeq(r.output \o data, n + 1, Len(r.output \o data))

\* What a callback on the loop keeps that neither closes nor destroys.
Works(r, s) ==
  /\ Rec(s)
  /\ Told(r) => Told(s)
  /\ Watching(r) => Watching(s)
  /\ s.closes = r.closes
  /\ Announces(r, s)
  /\ s.highs = r.highs + Crossing(r, s)
  /\ r.shut => s.shut
  /\ Watching(r) /\ s.shut /\ ~r.shut => s.output = <<>>

\* A prefix and what is behind it.
LEMMA Split ==
  ASSUME NEW data \in Seq(Messages), NEW n \in 0..Len(data)
  PROVE  /\ SubSeq(data, 1, n) \in Seq(Messages)
         /\ SubSeq(data, n + 1, Len(data)) \in Seq(Messages)
         /\ Len(SubSeq(data, n + 1, Len(data))) = Len(data) - n
<1>1. Len(data) \in Nat /\ n \in Nat
  OBVIOUS
<1>2. \A i \in 1..n : data[i] \in Messages
  BY <1>1
<1>3. \A i \in (n + 1)..Len(data) : data[i] \in Messages
  BY <1>1
<1>4. /\ SubSeq(data, n + 1, Len(data)) \in Seq(Messages)
      /\ Len(SubSeq(data, n + 1, Len(data))) =
           IF n + 1 <= Len(data) THEN Len(data) - (n + 1) + 1 ELSE 0
  BY <1>1, <1>3, SubSeqProperties
<1> QED BY <1>1, <1>2, <1>4, SubSeqProperties

LEMMA NoneMoves ==
  ASSUME NEW r, Rec(r), NEW s, s.wire = r.wire, NEW data \in Seq(Messages),
         s.output = r.output \o data
  PROVE  Moves(r, s, data)
<1> DEFINE all == r.output \o data
<1>1. r.output \in Seq(Messages) /\ r.wire \in Seq(Messages)
  BY Fields DEF Rec
<1>2. all \in Seq(Messages) /\ Len(all) \in Nat /\ s.output = all
  BY <1>1, ConcatProperties
<1> HIDE DEF all
<1>3. SubSeq(all, 1, 0) = <<>>
  BY SubSeqEmpty
<1>4. SubSeq(all, 0 + 1, Len(all)) = all
  BY <1>2, SubSeqFull
<1>5. r.wire \o <<>> = r.wire
  BY <1>1, ConcatEmptySeq
<1>6. /\ 0 \in 0..Len(all)
      /\ s.wire = r.wire \o SubSeq(all, 1, 0)
      /\ s.output = SubSeq(all, 0 + 1, Len(all))
  <2>1. 0 \in 0..Len(all)
    BY <1>2
  <2>2. s.wire = r.wire \o SubSeq(all, 1, 0)
    BY <1>3, <1>5, Zenon
  <2>3. s.output = SubSeq(all, 0 + 1, Len(all))
    BY <1>2, <1>4, Zenon
  <2> QED BY <2>1, <2>2, <2>3
<1> QED BY <1>6 DEF Moves, all

LEMMA SameMoves ==
  ASSUME NEW r, Rec(r), NEW s, s.wire = r.wire, s.output = r.output
  PROVE  Moves(r, s, <<>>)
<1>1. r.output \o <<>> = r.output
  BY ConcatEmptySeq, Fields DEF Rec
<1> QED BY <1>1, EmptySeq, NoneMoves

\* Records that tell nothing apart of what Works and Moves are about.
Alike(r, s) ==
  /\ s.state = r.state /\ s.ch = r.ch /\ s.output = r.output /\ s.wire = r.wire
  /\ s.queue = r.queue /\ s.told = r.told /\ s.highs = r.highs
  /\ s.shut = r.shut /\ s.closes = r.closes

LEMMA AlikeWorks ==
  ASSUME NEW r, Rec(r), NEW s, Rec(s), Alike(r, s)
  PROVE  Works(r, s) /\ Moves(r, s, <<>>)
<1>1. Crossing(r, s) = 0 /\ r.highs \in Nat
  BY Fields, BoundAssumption DEF Crossing, Rec, Alike
<1>2. Works(r, s)
  BY <1>1 DEF Works, Alike, Told, Watching, Announces
<1> QED BY <1>2, SameMoves DEF Alike

LEMMA ErrTaken ==
  ASSUME NEW r, Rec(r)
  PROVE  LET s == [r EXCEPT !.err = FALSE]
         IN Works(r, s) /\ Moves(r, s, <<>>) /\ Same(r, s)
<1> DEFINE s == [r EXCEPT !.err = FALSE]
<1> SUFFICES Works(r, s) /\ Moves(r, s, <<>>) /\ Same(r, s)
  OBVIOUS
<1>1. s \in ConnType /\ r \in ConnType
  BY DEF ConnType, Rec
<1>2. Alike(r, s) /\ s.echoes = r.echoes
  BY <1>1 DEF ConnType, Alike
<1> HIDE DEF s
<1>3. Rec(s)
  BY <1>1, <1>2 DEF Rec, Alike
<1> QED BY <1>2, <1>3, AlikeWorks DEF Same, Alike

LEMMA LeastProperties ==
  ASSUME NEW m \in Nat, NEW n \in Nat
  PROVE  Least(m, n) \in Nat /\ Least(m, n) <= m /\ Least(m, n) <= n
  BY DEF Least

\* send_in_loop, whatever state the connection is in.
LEMMA SendWorks ==
  ASSUME NEW r, Rec(r), NEW data \in Seq(Messages), data # <<>>
  PROVE  LET s == SendInLoop(r, data)
         IN Works(r, s) /\ Same(r, s) /\ (Moves(r, s, <<>>) \/ Moves(r, s, data))
<1> DEFINE s == SendInLoop(r, data)
           n == IF Direct(r) THEN Least(Len(data), r.room) ELSE 0
           rest == SubSeq(data, n + 1, Len(data))
           t == Takes(r, data, n)
<1> SUFFICES Works(r, s) /\ Same(r, s) /\ (Moves(r, s, <<>>) \/ Moves(r, s, data))
  OBVIOUS
<1>0. r \in ConnType /\ r.output \in Seq(Messages) /\ r.wire \in Seq(Messages) /\ r.room \in Nat
      /\ Sound(r.ch)
  BY Fields, BoundAssumption DEF Rec
<1>1. n \in 0..Len(data) /\ n \in Nat /\ n <= Len(data) /\ n <= r.room /\ (~Direct(r) => n = 0)
  <2>1. Len(data) \in Nat
    OBVIOUS
  <2>2. /\ Least(Len(data), r.room) \in Nat /\ Least(Len(data), r.room) <= Len(data)
        /\ Least(Len(data), r.room) <= r.room
    BY <1>0, <2>1, LeastProperties
  <2> QED BY <1>0, <2>1, <2>2
<1>2. CASE s = r
  <2>1. Same(r, r) /\ Alike(r, r)
    BY DEF Same, Alike
  <2> QED BY <1>0, <1>2, <2>1, AlikeWorks
<1>3. CASE s = [r EXCEPT !.err = FALSE]
  BY <1>3, ErrTaken
<1> HIDE DEF n
<1>4. /\ Rec(t) /\ Same(r, t) /\ t.output = r.output /\ t.queue = r.queue
      /\ t.wire = r.wire \o SubSeq(data, 1, n) /\ t.ch = r.ch /\ t.err = r.err
      /\ t.told = r.told /\ t.highs = r.highs
  BY <1>1, TakesRec
<1>5. rest \in Seq(Messages) /\ Len(rest) = Len(data) - n
  BY <1>1, Split
<1> HIDE DEF t
<1>6. CASE /\ Direct(r) => ~WriteFails(r)
           /\ rest = <<>>
           /\ s = Complete(t)
  <2>1. /\ Rec(s) /\ Same(t, s) /\ s.output = t.output /\ s.wire = t.wire /\ s.ch = t.ch
        /\ s.queue = Append(t.queue, LoopFunctor("written"))
        /\ s.told = Len(t.wire) /\ s.highs = t.highs
    BY <1>4, <1>6, CompleteRec
  <2> HIDE DEF s
  <2>2. Direct(r) /\ r.output = <<>>
    <3>1. n # 0
      <4>1. Len(rest) = 0 /\ Len(data) \in Nat /\ Len(data) # 0
        BY <1>6, EmptySeq
      <4> QED BY <1>1, <1>5, <4>1
    <3> QED BY <1>1, <3>1 DEF Direct
  <2>3. ~r.shut
    BY <1>6, <2>2 DEF WriteFails
  <2>4. r.output \o data = data
    BY <2>2, ConcatEmptySeq
  <2>5. Moves(r, s, data)
    <3>1. /\ s.wire = r.wire \o SubSeq(r.output \o data, 1, n)
          /\ s.output = SubSeq(r.output \o data, n + 1, Len(r.output \o data))
      BY <1>4, <1>6, <2>1, <2>2, <2>4
    <3>2. n \in 0..Len(r.output \o data)
      BY <1>1, <2>4
    <3> QED BY <2>3, <3>1, <3>2 DEF Moves
  <2>6. Crossing(r, s) = 0 /\ r.highs \in Nat
    BY <1>0, <1>4, <2>1, <2>2, Fields, BoundAssumption DEF Crossing
  <2>7. Same(r, s)
    BY <1>4, <2>1 DEF Same
  <2>8. Works(r, s)
    BY <1>4, <2>1, <2>6, <2>7 DEF Works, Same, Told, Watching, Announces
  <2> QED BY <2>5, <2>7, <2>8
<1>7. CASE /\ Direct(r) => ~WriteFails(r)
           /\ rest # <<>>
           /\ s = Buffered(t, rest)
  <2>1. /\ Rec(s) /\ Same(t, s) /\ s.output = t.output \o rest /\ s.output # <<>>
        /\ s.wire = t.wire /\ s.ch = Watched(t.ch) /\ Announces(t, s)
        /\ s.highs = t.highs + Crossing(t, s)
    BY <1>4, <1>5, <1>7, BufferedRec, ZenonT(40)
  <2> HIDE DEF s
  <2>2. Same(r, s)
    BY <1>4, <2>1 DEF Same
  <2>3. Works(r, s)
    <3>1. s.highs = r.highs + Crossing(r, s)
      BY <1>4, <2>1 DEF Crossing
    <3>2. Announces(r, s)
      BY <1>4, <2>1 DEF Announces
    <3>3. Watching(r) => Watching(s)
      BY <1>0, <1>4, <2>1, <2>2, WatchedChannel DEF Watching, Same
    <3> QED BY <2>1, <2>2, <3>1, <3>2, <3>3 DEF Works, Same, Told
  <2>4. Moves(r, s, data)
    <3>1. CASE Direct(r)
      <4>1. r.output = <<>> /\ ~r.shut
        BY <1>7, <3>1 DEF Direct, WriteFails
      <4>2. r.output \o data = data /\ r.output \o rest = rest
        BY <1>5, <4>1, ConcatEmptySeq
      <4>3. /\ s.wire = r.wire \o SubSeq(r.output \o data, 1, n)
            /\ s.output = SubSeq(r.output \o data, n + 1, Len(r.output \o data))
            /\ n \in 0..Len(r.output \o data)
        BY <1>1, <1>4, <2>1, <4>2
      <4> QED BY <4>1, <4>3 DEF Moves
    <3>2. CASE ~Direct(r)
      <4>1. n = 0
        BY <1>1, <3>2
      <4>2. rest = data /\ SubSeq(data, 1, n) = <<>>
        BY <4>1, SubSeqFull, SubSeqEmpty
      <4>3. s.wire = r.wire /\ s.output = r.output \o data
        BY <1>0, <1>4, <2>1, <4>2, ConcatEmptySeq
      <4> QED BY <4>3, NoneMoves
    <3> QED BY <3>1, <3>2
  <2> QED BY <2>2, <2>3, <2>4
<1> QED BY <1>2, <1>3, <1>6, <1>7, SendShape DEF n, t

\* What is said of a record is said of one alike.
LEMMA AlikeFirst ==
  ASSUME NEW r, NEW t, Alike(r, t), NEW s, Works(t, s)
  PROVE  Works(r, s) /\ \A data : Moves(t, s, data) => Moves(r, s, data)
  BY Zenon DEF Alike, Works, Told, Watching, Announces, Crossing, Moves

\* What shutdown and shutdown_in_loop may do.
Ends(r, s) ==
  /\ Rec(s)
  /\ s.ch = r.ch /\ s.output = r.output /\ s.wire = r.wire
  /\ s.queue = r.queue /\ s.told = r.told /\ s.highs = r.highs
  /\ s.closes = r.closes /\ s.echoes = r.echoes
  /\ s.state = r.state \/ (r.state # "disconnected" /\ s.state = "disconnecting")
  /\ s.shut = r.shut \/ (s.shut /\ ~is_writing(r.ch))

LEMMA ShutdownInLoopEnds ==
  ASSUME NEW r, Rec(r)
  PROVE  Ends(r, ShutdownInLoop(r)) /\ ShutdownInLoop(r).state = r.state
<1>1. CASE is_writing(r.ch)
  BY <1>1 DEF ShutdownInLoop, Ends
<1>2. CASE ~is_writing(r.ch)
  <2> DEFINE s == [r EXCEPT !.shut = TRUE]
  <2>1. s \in ConnType /\ r \in ConnType /\ Sound(r.ch)
    BY DEF ConnType, Rec
  <2>2. /\ s.ch = r.ch /\ s.output = r.output /\ s.wire = r.wire
        /\ s.queue = r.queue /\ s.told = r.told /\ s.highs = r.highs
        /\ s.closes = r.closes /\ s.echoes = r.echoes /\ s.state = r.state /\ s.shut = TRUE
    BY <2>1 DEF ConnType
  <2> HIDE DEF s
  <2>3. Ends(r, s)
    BY <1>2, <2>1, <2>2 DEF Ends, Rec
  <2> QED BY <1>2, <2>2, <2>3 DEF ShutdownInLoop, s
<1> QED BY <1>1, <1>2

LEMMA ShutdownEnds ==
  ASSUME NEW r, Rec(r)
  PROVE  Ends(r, Shutdown(r))
<1>1. CASE r.state = "connected"
  <2> DEFINE t == [r EXCEPT !.state = "disconnecting"]
             s == ShutdownInLoop(t)
  <2>1. t \in ConnType /\ r \in ConnType /\ Sound(r.ch)
    BY DEF ConnType, Rec
  <2>2. /\ t.ch = r.ch /\ t.output = r.output /\ t.wire = r.wire
        /\ t.queue = r.queue /\ t.told = r.told /\ t.highs = r.highs
        /\ t.closes = r.closes /\ t.echoes = r.echoes /\ t.state = "disconnecting"
        /\ t.shut = r.shut
    BY <2>1 DEF ConnType
  <2>3. Shutdown(r) = s
    BY <1>1 DEF Shutdown
  <2> HIDE DEF t
  <2>4. Ends(t, s) /\ s.state = t.state
    BY <2>1, <2>2, ShutdownInLoopEnds DEF Rec
  <2> HIDE DEF s
  <2>5. Ends(r, s)
    BY <1>1, <2>2, <2>4 DEF Ends
  <2> QED BY <2>3, <2>5
<1>2. CASE r.state # "connected"
  BY <1>2 DEF Shutdown, Ends
<1> QED BY <1>1, <1>2

LEMMA WorksEnds ==
  ASSUME NEW r, NEW t, Works(r, t), NEW s, Ends(t, s)
  PROVE  Works(r, s) /\ \A data : Moves(r, t, data) => Moves(r, s, data)
<1>1. \A data : Moves(r, t, data) => Moves(r, s, data)
  BY DEF Moves, Ends
<1>2. Watching(t) => Watching(s)
  BY DEF Watching, Ends
<1>3. Told(t) => Told(s)
  BY DEF Told, Ends
<1>4. Watching(r) /\ s.shut /\ ~r.shut => s.output = <<>>
  BY DEF Works, Ends, Watching
<1> QED BY <1>1, <1>2, <1>3, <1>4 DEF Works, Ends, Announces, Crossing

LEMMA BytesAre ==
  ASSUME NEW from \in Senders, NEW no \in 1..(MaxCalls + MaxEchoes)
  PROVE  Bytes(from, no) \in Seq(Messages) /\ Bytes(from, no) # <<>>
<1>1. Message(from, no) \in Messages
  BY DEF Message, Messages
<1>2. MsgLen \in Nat /\ MsgLen # 0
  BY BoundAssumption
<1>3. Bytes(from, no) \in Seq(Messages) /\ Len(Bytes(from, no)) = MsgLen
  BY <1>1, <1>2 DEF Bytes
<1> QED BY <1>2, <1>3, EmptySeq

\* What the user does in a callback: at most one message is put in.
LEMMA CallbackWorks ==
  ASSUME NEW r, Rec(r), NEW s \in Callback(r)
  PROVE  /\ Works(r, s)
         /\ \/ Moves(r, s, <<>>) /\ s.echoes \in {r.echoes, r.echoes + 1}
            \/ /\ Moves(r, s, Bytes("loop", r.echoes + 1))
               /\ s.echoes = r.echoes + 1
               /\ r.echoes < MaxEchoes
<1> DEFINE Does(t) ==
      /\ Works(r, t)
      /\ \/ Moves(r, t, <<>>) /\ t.echoes \in {r.echoes, r.echoes + 1}
         \/ /\ Moves(r, t, Bytes("loop", r.echoes + 1))
            /\ t.echoes = r.echoes + 1
            /\ r.echoes < MaxEchoes
<1>1. Does(r)
  BY AlikeWorks DEF Alike
<1>2. Does(Send(r))
  <2>1. CASE r.state = "connected" /\ r.echoes < MaxEchoes
    <3> DEFINE t == [r EXCEPT !.echoes = @ + 1]
               data == Bytes("loop", r.echoes + 1)
               u == SendInLoop(t, data)
    <3>1. r \in ConnType /\ Sound(r.ch) /\ r.echoes \in 0..MaxEchoes
      BY Fields DEF Rec
    <3>2. r.echoes + 1 \in 0..MaxEchoes /\ r.echoes + 1 \in 1..(MaxCalls + MaxEchoes)
      BY <2>1, <3>1, BoundAssumption
    <3>3. t \in ConnType /\ Alike(r, t) /\ t.echoes = r.echoes + 1
      BY <3>1, <3>2 DEF ConnType, Alike
    <3>4. data \in Seq(Messages) /\ data # <<>>
      BY <3>2, BytesAre DEF Senders
    <3>5. Send(r) = u
      BY <2>1 DEF Send
    <3> HIDE DEF t, data
    <3>6. Rec(t)
      BY <3>1, <3>3 DEF Rec, Alike
    <3>7. Works(t, u) /\ Same(t, u) /\ (Moves(t, u, <<>>) \/ Moves(t, u, data))
      BY <3>4, <3>6, SendWorks
    <3> HIDE DEF u
    <3>8. Works(r, u) /\ (Moves(r, u, <<>>) \/ Moves(r, u, data)) /\ u.echoes = r.echoes + 1
      BY <3>3, <3>7, AlikeFirst DEF Same
    <3> QED BY <2>1, <3>5, <3>8 DEF data
  <2>2. CASE ~(r.state = "connected" /\ r.echoes < MaxEchoes)
    BY <1>1, <2>2 DEF Send
  <2> QED BY <2>1, <2>2
<1>3. ASSUME NEW t, Does(t) PROVE Does(Shutdown(t))
  <2>1. Rec(t)
    BY <1>3 DEF Works
  <2>2. Ends(t, Shutdown(t))
    BY <2>1, ShutdownEnds
  <2>3. Shutdown(t).echoes = t.echoes
    BY <2>2 DEF Ends
  <2> QED BY <1>3, <2>2, <2>3, WorksEnds
<1> HIDE DEF Does
<1>4. Does(s)
  BY <1>1, <1>2, <1>3 DEF Callback
<1> QED BY <1>4 DEF Does

\* handle_write takes from the front of what waits, and switches the interest off
\* with the last byte.
LEMMA HandleWriteWorks ==
  ASSUME NEW r, Rec(r)
  PROVE  /\ Works(r, HandleWrite(r)) /\ Moves(r, HandleWrite(r), <<>>)
         /\ HandleWrite(r).echoes = r.echoes
<1> DEFINE s == HandleWrite(r)
           n == Least(Len(r.output), r.room)
           t == Takes(r, r.output, n)
           rest == SubSeq(r.output, n + 1, Len(r.output))
           left == [t EXCEPT !.output = rest]
<1> SUFFICES Works(r, s) /\ Moves(r, s, <<>>) /\ s.echoes = r.echoes
  OBVIOUS
<1>0. r \in ConnType /\ r.output \in Seq(Messages) /\ r.wire \in Seq(Messages) /\ r.room \in Nat
      /\ Sound(r.ch) /\ Len(r.output) \in Nat
  BY Fields, BoundAssumption DEF Rec
<1>1. n \in 0..Len(r.output) /\ n \in Nat /\ n <= Len(r.output) /\ n <= r.room
  <2>1. n \in Nat /\ n <= Len(r.output) /\ n <= r.room
    BY <1>0, LeastProperties
  <2> HIDE DEF n
  <2> QED BY <1>0, <2>1
<1> HIDE DEF n
<1>2. /\ Rec(t) /\ Same(r, t) /\ t.output = r.output /\ t.queue = r.queue
      /\ t.wire = r.wire \o SubSeq(r.output, 1, n) /\ t.ch = r.ch /\ t.err = r.err
      /\ t.told = r.told /\ t.highs = r.highs
  BY <1>0, <1>1, TakesRec
<1>3. rest \in Seq(Messages) /\ Len(rest) = Len(r.output) - n
  BY <1>0, <1>1, Split
<1>4. s = IF ~is_writing(r.ch) THEN r
          ELSE IF WriteFails(r) THEN [r EXCEPT !.err = FALSE]
               ELSE IF n > 0 /\ left.output = <<>> THEN Flushed(left) ELSE left
  <2>1. left = [Takes(r, r.output, n) EXCEPT !.output = SubSeq(@, n + 1, Len(@))]
    <3>1. t \in ConnType
      BY <1>2 DEF Rec
    <3> HIDE DEF t
    <3>2. [t EXCEPT !.output = SubSeq(@, n + 1, Len(@))] = left
      BY <1>2, <3>1 DEF ConnType
    <3> QED BY <3>2 DEF t
  <2> HIDE DEF left
  <2> QED BY <2>1 DEF HandleWrite, n
<1> HIDE DEF t, rest, s
<1>5. /\ Rec(left) /\ Same(r, left) /\ left.output = rest /\ left.wire = t.wire
      /\ left.ch = r.ch /\ left.queue = r.queue /\ left.told = r.told /\ left.highs = r.highs
  <2>1. t \in ConnType
    BY <1>2 DEF Rec
  <2>2. left \in ConnType
    BY <1>3, <2>1 DEF ConnType
  <2>3. /\ Same(t, left) /\ left.output = rest /\ left.wire = t.wire
        /\ left.ch = t.ch /\ left.queue = t.queue /\ left.told = t.told /\ left.highs = t.highs
    BY <2>1 DEF ConnType, Same
  <2> HIDE DEF left
  <2> QED BY <1>2, <2>2, <2>3 DEF Rec, Same
<1> HIDE DEF left
<1>6. CASE ~is_writing(r.ch)
  BY <1>4, <1>6, AlikeWorks DEF Alike
<1>7. CASE is_writing(r.ch) /\ WriteFails(r)
  <2>1. s = [r EXCEPT !.err = FALSE]
    BY <1>4, <1>7
  <2> QED BY <2>1, ErrTaken DEF Same
<1>8. ASSUME is_writing(r.ch), ~WriteFails(r),
             NEW x, x.wire = left.wire, x.output = left.output
      PROVE  Moves(r, x, <<>>) /\ Crossing(r, x) = 0
  <2>1. r.output \o <<>> = r.output
    BY <1>0, ConcatEmptySeq
  <2>2. ~r.shut
    BY <1>8 DEF WriteFails
  <2>3. /\ x.wire = r.wire \o SubSeq(r.output, 1, n)
        /\ x.output = SubSeq(r.output, n + 1, Len(r.output))
    BY <1>2, <1>5, <1>8 DEF rest
  <2>4. Moves(r, x, <<>>)
    BY <1>1, <2>1, <2>2, <2>3 DEF Moves
  <2>5. Len(x.output) <= Len(r.output) /\ Len(x.output) \in Nat
    BY <1>0, <1>1, <1>3, <1>5, <1>8
  <2>6. Crossing(r, x) = 0
    BY <1>0, <2>5, BoundAssumption DEF Crossing
  <2> QED BY <2>4, <2>6
<1>9. CASE /\ is_writing(r.ch) /\ ~WriteFails(r)
           /\ n > 0 /\ left.output = <<>>
  <2> DEFINE idle == [left EXCEPT !.ch = disable_writing(@)]
             done == Complete(idle)
  <2>1. /\ Sound(disable_writing(left.ch)) /\ disable_writing(left.ch).on
        /\ ~is_writing(disable_writing(left.ch))
    BY <1>0, <1>5, DisableWriting DEF is_writing
  <2>2. left \in ConnType /\ disable_writing(left.ch) \in ChannelType
    BY <1>5, <2>1 DEF Rec, Sound
  <2>3. idle = [left EXCEPT !.ch = disable_writing(left.ch)]
    BY <2>2 DEF ConnType
  <2> HIDE DEF idle
  <2>4. idle \in ConnType
    BY <2>2, <2>3 DEF ConnType
  <2>5. /\ idle.ch = disable_writing(left.ch) /\ Same(left, idle)
        /\ idle.output = left.output /\ idle.wire = left.wire
        /\ idle.queue = left.queue /\ idle.told = left.told /\ idle.highs = left.highs
    BY <2>2, <2>3 DEF ConnType, Same
  <2>6. Rec(idle)
    BY <2>1, <2>4, <2>5 DEF Rec
  <2>7. /\ Rec(done) /\ Same(idle, done) /\ done.output = idle.output /\ done.wire = idle.wire
        /\ done.ch = idle.ch /\ done.queue = Append(idle.queue, LoopFunctor("written"))
        /\ done.told = Len(idle.wire) /\ done.highs = idle.highs
    BY <2>6, CompleteRec
  <2>8. s = IF left.state = "disconnecting" THEN ShutdownInLoop(done) ELSE done
    BY <1>4, <1>9 DEF Flushed, Emptied, idle
  <2> HIDE DEF done
  <2>9. Moves(r, done, <<>>) /\ Crossing(r, done) = 0
    BY <1>8, <1>9, <2>5, <2>7
  <2>10. Works(r, done)
    <3>1. Told(done) /\ done.output = <<>>
      BY <1>9, <2>5, <2>7 DEF Told
    <3>2. Watching(r) => Watching(done)
      BY <1>5, <2>1, <2>5, <2>7, <3>1 DEF Watching, Same
    <3>3. done.highs = r.highs + Crossing(r, done)
      BY <1>0, <1>5, <2>5, <2>7, <2>9, Fields
    <3> QED BY <1>5, <2>5, <2>7, <3>1, <3>2, <3>3 DEF Works, Same, Announces
  <2>11. done.echoes = r.echoes
    BY <1>5, <2>5, <2>7 DEF Same
  <2>12. Ends(done, ShutdownInLoop(done)) /\ ShutdownInLoop(done).echoes = done.echoes
    BY <2>7, ShutdownInLoopEnds DEF Ends
  <2> QED BY <2>8, <2>9, <2>10, <2>11, <2>12, WorksEnds
<1>10. CASE /\ is_writing(r.ch) /\ ~WriteFails(r)
            /\ ~(n > 0 /\ left.output = <<>>)
  <2>1. s = left
    BY <1>4, <1>10
  <2>2. Moves(r, left, <<>>) /\ Crossing(r, left) = 0
    BY <1>8, <1>10
  <2>3. n = 0 => left.output = r.output /\ left.wire = r.wire
    <3>1. ASSUME n = 0 PROVE left.output = r.output /\ left.wire = r.wire
      <4>1. SubSeq(r.output, n + 1, Len(r.output)) = r.output /\ SubSeq(r.output, 1, n) = <<>>
        BY <1>0, <3>1, SubSeqFull, SubSeqEmpty
      <4> QED BY <1>0, <1>2, <1>5, <4>1, ConcatEmptySeq DEF rest
    <3> QED BY <3>1
  <2>4. Told(r) => Told(left)
    BY <1>1, <1>5, <1>10, <2>3 DEF Told
  <2>5. Watching(r) => Watching(left)
    BY <1>1, <1>5, <1>10, <2>3 DEF Watching, Same
  <2>6. Works(r, left)
    BY <1>0, <1>5, <2>2, <2>4, <2>5, Fields DEF Works, Same, Announces
  <2> QED BY <1>5, <2>1, <2>2, <2>6 DEF Same
<1> QED BY <1>6, <1>7, <1>9, <1>10

\* What a close and a destruction leave of a connection that goes down.
Downs(r, s) ==
  /\ Rec(s)
  /\ s.output = r.output /\ s.wire = r.wire /\ s.queue = r.queue
  /\ s.told = r.told /\ s.highs = r.highs
  /\ s.shut = r.shut /\ s.echoes = r.echoes

LEMMA HandleCloseDowns ==
  ASSUME NEW r, Rec(r), r.closes < MaxCloses
  PROVE  Downs(r, HandleClose(r)) /\ HandleClose(r).closes = r.closes + 1
<1> DEFINE s == HandleClose(r)
<1>1. r \in ConnType /\ Sound(disable_all(r.ch)) /\ r.closes + 1 \in 0..MaxCloses
      /\ disable_all(r.ch) \in ChannelType
  BY DisableAll, Fields, BoundAssumption DEF Rec, Sound
<1>2. s = [r EXCEPT !.state = "disconnected", !.ch = disable_all(r.ch), !.closes = r.closes + 1]
  BY <1>1 DEF HandleClose, ConnType
<1> SUFFICES Downs(r, s) /\ s.closes = r.closes + 1
  OBVIOUS
<1> HIDE DEF s
<1>3. s \in ConnType
  BY <1>1, <1>2 DEF ConnType
<1>4. /\ s.output = r.output /\ s.wire = r.wire /\ s.queue = r.queue /\ s.told = r.told
      /\ s.highs = r.highs /\ s.shut = r.shut /\ s.echoes = r.echoes
      /\ s.ch = disable_all(r.ch) /\ s.closes = r.closes + 1
  BY <1>1, <1>2 DEF ConnType
<1> QED BY <1>1, <1>3, <1>4 DEF Downs, Rec

LEMMA DestroyedDowns ==
  ASSUME NEW r, Rec(r)
  PROVE  Downs(r, ConnectionDestroyed(r)) /\ ConnectionDestroyed(r).closes = r.closes
<1> DEFINE down == IF r.state = "connected"
                   THEN [r EXCEPT !.state = "disconnected", !.ch = disable_all(r.ch)] ELSE r
           s == ConnectionDestroyed(r)
<1>1. r \in ConnType /\ Sound(disable_all(r.ch)) /\ disable_all(r.ch) \in ChannelType
      /\ Sound(r.ch)
  BY DisableAll DEF Rec, Sound
<1>2. s = [down EXCEPT !.ch = RemoveChannel(down.ch)]
  <2>1. down = IF r.state = "connected"
               THEN [r EXCEPT !.state = "disconnected", !.ch = disable_all(@)] ELSE r
    BY <1>1 DEF ConnType
  <2>2. down \in ConnType
    BY <1>1 DEF ConnType
  <2>3. s = [down EXCEPT !.ch = RemoveChannel(@)]
    BY <2>1 DEF ConnectionDestroyed
  <2> HIDE DEF down, s
  <2> QED BY <2>2, <2>3 DEF ConnType
<1> SUFFICES Downs(r, s) /\ s.closes = r.closes
  OBVIOUS
<1>3. /\ down \in ConnType /\ Sound(down.ch)
      /\ down.output = r.output /\ down.wire = r.wire /\ down.queue = r.queue
      /\ down.told = r.told /\ down.highs = r.highs /\ down.shut = r.shut
      /\ down.echoes = r.echoes /\ down.closes = r.closes
  BY <1>1 DEF ConnType
<1> HIDE DEF s, down
<1>4. Sound(RemoveChannel(down.ch)) /\ RemoveChannel(down.ch) \in ChannelType
  BY <1>3, Removed DEF Sound
<1>5. s \in ConnType
  BY <1>2, <1>3, <1>4 DEF ConnType
<1>6. /\ s.output = down.output /\ s.wire = down.wire /\ s.queue = down.queue
      /\ s.told = down.told /\ s.highs = down.highs /\ s.shut = down.shut
      /\ s.echoes = down.echoes /\ s.ch = RemoveChannel(down.ch) /\ s.closes = down.closes
  BY <1>2, <1>3 DEF ConnType
<1> QED BY <1>3, <1>4, <1>5, <1>6 DEF Downs, Rec

-----------------------------------------------------------------------------
(* The inductive invariant.                                                *)

\* A functor that is bound by send has a number, one that destroys was queued by
\* the server, and one that holds a raw this comes from a thread.
FunctorOK(f) ==
  /\ f.call = "send" => f.no # 0
  /\ f.call = "destroyed" => server # "has"
  /\ f.call \in Raw => f.from \in Users

FunctorInv == \A f \in Functors : FunctorOK(f)

\* A thread inside a call has its shared_ptr, and has counted the call.
UserInv == \A u \in Users : user[u] # "idle" => u \in holders /\ calls[u] # 0

\* A batch exists only while its functors run.
BatchInv == phase # "run" => batch = <<>> /\ ran = 0

\* Every close is owed to the server at most once, and one round of events
\* closes at most once.
CloseInv ==
  /\ owed <= conn.closes
  /\ revents_ \cap {"hup", "in"} # {} => conn.closes < MaxCloses

\* Until the first close the books are in order and the interest is right.
LinkInv ==
  /\ Sound(conn.ch)
  /\ Told(conn)
  /\ ~Down => Watching(conn)

Inv ==
  /\ TypeOK
  /\ FunctorInv
  /\ UserInv
  /\ BatchInv
  /\ CloseInv
  /\ LinkInv

-----------------------------------------------------------------------------
LEMMA TypeFacts ==
  ASSUME TypeOK
  PROVE  /\ conn \in ConnType /\ batch \in Seq(FunctorType) /\ conn.queue \in Seq(FunctorType)
         /\ Functors \subseteq FunctorType
         /\ conn.closes \in 0..MaxCloses /\ MaxCloses \in Nat
         /\ Len(batch) \in Nat /\ ran \in Nat /\ owed \in Nat
<1>1. conn \in ConnType /\ batch \in Seq(FunctorType) /\ conn.queue \in Seq(FunctorType)
  BY Fields DEF TypeOK
<1>2. Functors \subseteq FunctorType
  BY <1>1, RangeOfSeq DEF Functors
<1> QED BY <1>1, <1>2, Fields, LenProperties, BoundAssumption DEF TypeOK

LEMMA InitConn ==
  /\ Rec(Established) /\ Told(Established) /\ Watching(Established)
  /\ Established.closes = 0 /\ Established.queue = <<>> /\ Established.echoes = 0
  /\ Established.output = <<>> /\ Established.wire = <<>> /\ Established.shut = FALSE
<1> DEFINE ch == enable_reading(NewChannel)
<1>1. Sound(ch) /\ ch.on /\ ch.events = {"in"}
  BY NewSound, EnableReading
<1>2. ch \in ChannelType
  BY <1>1 DEF Sound
<1>3. <<>> \in Seq(Messages) /\ <<>> \in Seq(FunctorType) /\ Len(<<>>) = 0
  BY EmptySeq
<1> HIDE DEF ch
<1>4. Established =
        [state |-> "connected", ch |-> ch, output |-> <<>>,
         queue |-> <<>>, room |-> SendBuffer, unread |-> FALSE, fin |-> FALSE,
         rst |-> FALSE, err |-> FALSE, shut |-> FALSE, wire |-> <<>>, told |-> 0,
         highs |-> 0, echoes |-> 0, closes |-> 0]
  BY DEF Established, ch
<1>5. Established \in ConnType
  BY <1>2, <1>3, <1>4, BoundAssumption DEF ConnType
<1>6. /\ Established.closes = 0 /\ Established.queue = <<>> /\ Established.echoes = 0
      /\ Established.output = <<>> /\ Established.wire = <<>> /\ Established.shut = FALSE
      /\ Established.ch = ch /\ Established.told = 0 /\ Established.state = "connected"
  BY <1>4
<1>7. Watching(Established)
  BY <1>1, <1>6 DEF Watching, is_writing
<1> QED BY <1>1, <1>3, <1>5, <1>6, <1>7 DEF Rec, Told

LEMMA InvInit == Init => Inv
<1> SUFFICES ASSUME Init PROVE Inv
  OBVIOUS
<1>1. Functors = {}
  BY InitConn, RangeEmpty DEF Init, Functors
<1>2. TypeOK
  <2>1. conn \in ConnType
    BY InitConn DEF Init, Rec
  <2>2. /\ batch \in Seq(FunctorType) /\ ran \in 0..Len(batch)
    BY EmptySeq DEF Init
  <2> QED BY <2>1, <2>2, BoundAssumption DEF Init, TypeOK
<1>3. FunctorInv /\ UserInv
  BY <1>1 DEF Init, FunctorInv, UserInv
<1>4. BatchInv /\ CloseInv
  BY InitConn DEF Init, BatchInv, CloseInv
<1>5. LinkInv
  BY InitConn DEF Init, LinkInv, Rec
<1> QED BY <1>2, <1>3, <1>4, <1>5 DEF Inv

\* The functors of the queue after an append.
LEMMA FunctorsGrow ==
  ASSUME TypeOK, NEW f \in FunctorType, conn'.queue = Append(conn.queue, f), batch' = batch
  PROVE  Functors' = Functors \cup {f}
  BY TypeFacts, RangeAppend DEF Functors

\* A functor of the loop itself asks for nothing.
LEMMA LoopFunctorOK ==
  /\ FunctorOK(LoopFunctor("written")) /\ FunctorOK(LoopFunctor("highwater"))
  /\ FunctorOK(LoopFunctor("written"))' /\ FunctorOK(LoopFunctor("highwater"))'
  /\ server' # "has" => FunctorOK(LoopFunctor("destroyed"))'
  BY DEF FunctorOK, LoopFunctor, Functor, Raw

\* A callback that neither closes nor destroys keeps what is said of the connection.
LEMMA WorkInv ==
  ASSUME Inv, Works(conn, conn'), UNCHANGED <<batch, server, holders>>
  PROVE  conn' \in ConnType /\ FunctorInv' /\ LinkInv' /\ conn'.closes = conn.closes
<1>1. conn' \in ConnType /\ Sound(conn'.ch) /\ conn'.closes = conn.closes
  BY DEF Works, Rec
<1>2. Told(conn)' /\ (~Down => Watching(conn'))
  BY DEF Works, Inv, LinkInv, Told
<1>3. Down' <=> Down
  BY <1>1 DEF Down
<1>4. LinkInv'
  BY <1>1, <1>2, <1>3 DEF LinkInv, Watching
<1>5. FunctorInv'
  <2>1. \/ conn'.queue = conn.queue
        \/ conn'.queue = Append(conn.queue, LoopFunctor("written"))
        \/ conn'.queue = Append(conn.queue, LoopFunctor("highwater"))
    BY DEF Works, Announces
  <2>2. \/ Functors' = Functors
        \/ Functors' = Functors \cup {LoopFunctor("written")}
        \/ Functors' = Functors \cup {LoopFunctor("highwater")}
    <3>1. CASE conn'.queue = conn.queue
      BY <3>1 DEF Functors
    <3>2. CASE conn'.queue = Append(conn.queue, LoopFunctor("written"))
      BY <3>2, FunctorsGrow, LoopFunctorType DEF Inv, Calls
    <3>3. CASE conn'.queue = Append(conn.queue, LoopFunctor("highwater"))
      BY <3>3, FunctorsGrow, LoopFunctorType DEF Inv, Calls
    <3> QED BY <2>1, <3>1, <3>2, <3>3
  <2>3. \A f : FunctorOK(f) => FunctorOK(f)'
    BY DEF FunctorOK
  <2> QED BY <2>2, <2>3, LoopFunctorOK DEF Inv, FunctorInv
<1> QED BY <1>1, <1>4, <1>5

LEMMA InvRec == ASSUME Inv PROVE Rec(conn)
  BY DEF Inv, TypeOK, LinkInv, Rec

\* A record that goes down keeps the functors, and nothing is asked of its channel.
LEMMA DownInv ==
  ASSUME Inv, Downs(conn, conn'), Down', UNCHANGED <<batch, server, holders>>
  PROVE  conn' \in ConnType /\ FunctorInv' /\ LinkInv'
<1>1. Functors' = Functors
  BY DEF Downs, Functors
<1>2. \A f : FunctorOK(f) => FunctorOK(f)'
  BY DEF FunctorOK
<1>3. FunctorInv'
  BY <1>1, <1>2 DEF Inv, FunctorInv
<1>4. Told(conn)'
  BY DEF Inv, LinkInv, Told, Downs
<1> QED BY <1>3, <1>4 DEF Downs, Rec, LinkInv

\* Only peers and threads change these.
LEMMA FrameInv ==
  ASSUME Inv, UNCHANGED <<user, calls, holders>>
  PROVE  UserInv'
  BY DEF Inv, UserInv

LEMMA PollInv == ASSUME Inv, Poll PROVE Inv'
<1>1. Reported(conn) \subseteq Reports
  BY DEF Reported
<1>2. TypeOK'
  BY <1>1 DEF Poll, Inv, TypeOK, userVars, serverVars
<1>3. FunctorInv' /\ UserInv' /\ BatchInv'
  BY DEF Poll, Inv, FunctorInv, FunctorOK, Functors, UserInv, BatchInv, userVars, serverVars
<1>4. CloseInv'
  BY DEF Poll, Inv, CloseInv, serverVars
<1>5. LinkInv'
  BY DEF Poll, Inv, LinkInv, Told, Watching, Down, serverVars
<1> QED BY <1>2, <1>3, <1>4, <1>5 DEF Inv

LEMMA CloseStep ==
  ASSUME Inv, Closes(conn), UNCHANGED <<batch, server, holders>>, conn.closes < MaxCloses
  PROVE  /\ conn' \in ConnType /\ FunctorInv' /\ LinkInv'
         /\ conn'.closes = conn.closes + 1 /\ owed' = owed + 1
         /\ owed' \in 0..MaxCloses /\ owed' <= conn'.closes
<1>1. Downs(conn, conn') /\ conn'.closes = conn.closes + 1 /\ owed' = owed + 1
  BY InvRec, HandleCloseDowns DEF Closes
<1>2. conn.closes \in 0..MaxCloses /\ MaxCloses \in Nat /\ owed \in Nat /\ owed <= conn.closes
  BY TypeFacts DEF Inv, CloseInv
<1>3. Down'
  BY <1>1, <1>2 DEF Down
<1> QED BY <1>1, <1>2, <1>3, DownInv

LEMMA EventHupInv == ASSUME Inv, EventHup PROVE Inv'
<1> USE DEF EventHup, Handles, userVars
<1>1. UserInv' /\ BatchInv'
  BY FrameInv DEF Inv, BatchInv
<1>2. revents_' \subseteq Reports /\ "hup" \in revents_ /\ conn.closes < MaxCloses
  BY DEF Inv, TypeOK, CloseInv
<1>3. CASE "in" \in revents_
  <2>1. TypeOK'
    BY <1>2, <1>3 DEF Inv, TypeOK
  <2>2. FunctorInv' /\ CloseInv' /\ LinkInv'
    BY <1>2, <1>3 DEF Inv, FunctorInv, FunctorOK, Functors, CloseInv, LinkInv, Told, Watching, Down
  <2> QED BY <1>1, <2>1, <2>2 DEF Inv
<1>4. CASE "in" \notin revents_
  <2>1. /\ conn' \in ConnType /\ FunctorInv' /\ LinkInv'
        /\ owed' \in 0..MaxCloses /\ owed' <= conn'.closes
    BY <1>2, <1>4, CloseStep
  <2>2. CloseInv'
    BY <1>4, <2>1 DEF CloseInv
  <2>3. TypeOK'
    BY <1>2, <2>1 DEF Inv, TypeOK
  <2> QED BY <1>1, <2>1, <2>2, <2>3 DEF Inv
<1> QED BY <1>3, <1>4

LEMMA EventErrInv == ASSUME Inv, EventErr PROVE Inv'
<1> USE DEF EventErr, Handles, userVars
<1>1. UserInv' /\ BatchInv'
  BY FrameInv DEF Inv, BatchInv
<1>2. Works(conn, conn')
  BY InvRec, ErrTaken
<1>3. conn' \in ConnType /\ FunctorInv' /\ LinkInv' /\ conn'.closes = conn.closes
  BY <1>2, WorkInv
<1>4. TypeOK' /\ CloseInv'
  BY <1>3 DEF Inv, TypeOK, CloseInv
<1> QED BY <1>1, <1>3, <1>4 DEF Inv

LEMMA EventInInv == ASSUME Inv, EventIn PROVE Inv'
<1> USE DEF EventIn, Handles, userVars
<1>1. UserInv' /\ BatchInv'
  BY FrameInv DEF Inv, BatchInv
<1>2. /\ revents_' \subseteq Reports /\ conn.closes < MaxCloses
      /\ revents_' \cap {"hup", "in"} = {}
  BY DEF Inv, TypeOK, CloseInv
<1>3. CASE EndOfStream(conn)
  <2>1. /\ conn' \in ConnType /\ FunctorInv' /\ LinkInv'
        /\ owed' \in 0..MaxCloses /\ owed' <= conn'.closes
    BY <1>2, <1>3, CloseStep
  <2>2. CloseInv'
    BY <1>2, <2>1 DEF CloseInv
  <2>3. TypeOK'
    BY <1>2, <2>1 DEF Inv, TypeOK
  <2> QED BY <1>1, <2>1, <2>2, <2>3 DEF Inv
<1>4. CASE ~EndOfStream(conn)
  <2>1. Works(conn, conn')
    <3>1. CASE conn.unread
      <4> DEFINE t == [conn EXCEPT !.unread = FALSE]
      <4>1. conn \in ConnType /\ Sound(conn.ch)
        BY InvRec DEF Rec
      <4>2. t \in ConnType /\ Alike(conn, t)
        BY <4>1 DEF ConnType, Alike
      <4>3. conn' \in Callback(t)
        BY <1>4, <3>1
      <4> HIDE DEF t
      <4>4. Rec(t)
        BY <4>1, <4>2 DEF Rec, Alike
      <4> QED BY <4>2, <4>3, <4>4, CallbackWorks, AlikeFirst
    <3>2. CASE ~conn.unread
      BY <1>4, <3>2, InvRec, ErrTaken
    <3> QED BY <3>1, <3>2
  <2>2. conn' \in ConnType /\ FunctorInv' /\ LinkInv' /\ conn'.closes = conn.closes
    BY <2>1, WorkInv
  <2>3. TypeOK' /\ CloseInv'
    BY <1>2, <1>4, <2>2 DEF Inv, TypeOK, CloseInv
  <2> QED BY <1>1, <2>2, <2>3 DEF Inv
<1> QED BY <1>3, <1>4

LEMMA EventOutInv == ASSUME Inv, EventOut PROVE Inv'
<1> USE DEF EventOut, Handles, userVars
<1>1. UserInv' /\ BatchInv'
  BY FrameInv DEF Inv, BatchInv
<1>2. Works(conn, conn')
  BY InvRec, HandleWriteWorks
<1>3. conn' \in ConnType /\ FunctorInv' /\ LinkInv' /\ conn'.closes = conn.closes
  BY <1>2, WorkInv
<1>4. TypeOK' /\ CloseInv'
  BY <1>3 DEF Inv, TypeOK, CloseInv
<1> QED BY <1>1, <1>3, <1>4 DEF Inv

LEMMA DrainBeginInv == ASSUME Inv, DrainBegin PROVE Inv'
<1> USE DEF DrainBegin, userVars, serverVars
<1>1. UserInv' /\ BatchInv'
  BY FrameInv DEF BatchInv
<1>2. conn \in ConnType /\ <<>> \in Seq(FunctorType)
  BY EmptySeq DEF Inv, TypeOK
<1>3. /\ conn' \in ConnType /\ conn'.queue = <<>> /\ conn'.ch = conn.ch
      /\ conn'.output = conn.output /\ conn'.wire = conn.wire /\ conn'.told = conn.told
      /\ conn'.state = conn.state /\ conn'.closes = conn.closes
  BY <1>2 DEF ConnType
<1>4. TypeOK'
  <2>1. batch' \in Seq(FunctorType) /\ ran' = 0 /\ Len(batch') \in Nat
    BY TypeFacts, LenProperties DEF Inv, BatchInv
  <2>2. ran' \in 0..Len(batch')
    BY <2>1
  <2> QED BY <1>3, <2>1, <2>2 DEF Inv, TypeOK
<1>5. FunctorInv'
  <2>1. Functors' \subseteq Functors
    BY <1>3, RangeEmpty DEF Functors
  <2>2. \A f : FunctorOK(f) => FunctorOK(f)'
    BY DEF FunctorOK
  <2> QED BY <2>1, <2>2 DEF Inv, FunctorInv
<1>6. CloseInv' /\ LinkInv'
  BY <1>3 DEF Inv, CloseInv, LinkInv, Told, Watching, Down
<1> QED BY <1>1, <1>4, <1>5, <1>6 DEF Inv

\* A functor that runs does the work of a callback, or destroys the connection.
LEMMA OutcomeWorks ==
  ASSUME Inv, NEW f \in Functors, NEW s \in Outcomes(conn, f)
  PROVE  \/ Works(conn, s)
         \/ f.call = "destroyed" /\ Downs(conn, s) /\ s.closes = conn.closes
<1>1. Rec(conn) /\ f \in FunctorType /\ FunctorOK(f)
  BY InvRec, TypeFacts DEF Inv, FunctorInv
<1>2. CASE f.call = "send"
  <2>1. f.from \in Senders /\ f.no \in 1..(MaxCalls + MaxEchoes)
    <3>1. f.no \in 0..MaxCalls /\ f.no # 0 /\ f.from \in Senders
      BY <1>1, <1>2 DEF FunctorOK, FunctorType
    <3> QED BY <3>1, BoundAssumption
  <2>2. Bytes(f.from, f.no) \in Seq(Messages) /\ Bytes(f.from, f.no) # <<>>
    BY <2>1, BytesAre
  <2>3. s = SendInLoop(conn, Bytes(f.from, f.no))
    BY <1>2 DEF Outcomes
  <2> QED BY <1>1, <2>2, <2>3, SendWorks
<1>3. CASE f.call = "shutdown"
  <2>1. s = ShutdownInLoop(conn)
    BY <1>3 DEF Outcomes
  <2>2. Works(conn, conn)
    BY <1>1, AlikeWorks DEF Alike
  <2> QED BY <1>1, <2>1, <2>2, ShutdownInLoopEnds, WorksEnds
<1>4. CASE f.call = "destroyed"
  <2>1. s = ConnectionDestroyed(conn)
    BY <1>4 DEF Outcomes
  <2> QED BY <1>1, <1>4, <2>1, DestroyedDowns
<1>5. CASE f.call \notin {"send", "shutdown", "destroyed"}
  <2>1. s \in Callback(conn)
    BY <1>5 DEF Outcomes
  <2> QED BY <1>1, <2>1, CallbackWorks
<1> QED BY <1>2, <1>3, <1>4, <1>5

LEMMA NextFunctor ==
  ASSUME TypeOK, ran < Len(batch)
  PROVE  batch[ran + 1] \in Functors
<1>1. ran + 1 \in 1..Len(batch)
  BY TypeFacts
<1> QED BY <1>1, TypeFacts, RangeEquality DEF Functors

LEMMA RunFunctorInv == ASSUME Inv, RunFunctor PROVE Inv'
<1> USE DEF RunFunctor, userVars, serverVars
<1> DEFINE f == batch[ran + 1]
<1>0. f \in Functors /\ conn' \in Outcomes(conn, f)
  BY NextFunctor DEF Inv
<1> HIDE DEF f
<1>1. UserInv' /\ BatchInv'
  BY FrameInv DEF BatchInv
<1>2. conn' \in ConnType /\ FunctorInv' /\ LinkInv' /\ conn'.closes = conn.closes
  <2>1. CASE Works(conn, conn')
    BY <2>1, WorkInv
  <2>2. CASE f.call = "destroyed" /\ Downs(conn, conn') /\ conn'.closes = conn.closes
    <3>1. server # "has"
      BY <1>0, <2>2 DEF Inv, FunctorInv, FunctorOK
    <3>2. Down'
      BY <3>1 DEF Down
    <3> QED BY <2>2, <3>2, DownInv
  <2> QED BY <1>0, <2>1, <2>2, OutcomeWorks
<1>3. TypeOK'
  <2>1. ran' \in 0..Len(batch)
    BY TypeFacts DEF Inv
  <2> QED BY <1>2, <2>1 DEF Inv, TypeOK
<1>4. CloseInv'
  BY <1>2 DEF Inv, CloseInv
<1> QED BY <1>1, <1>2, <1>3, <1>4 DEF Inv

LEMMA DrainEndInv == ASSUME Inv, DrainEnd PROVE Inv'
<1> USE DEF DrainEnd, userVars, serverVars
<1>1. UserInv' /\ BatchInv'
  BY FrameInv DEF BatchInv
<1>2. TypeOK'
  BY EmptySeq DEF Inv, TypeOK
<1>3. FunctorInv'
  <2>1. Functors' \subseteq Functors
    BY RangeEmpty DEF Functors
  <2>2. \A f : FunctorOK(f) => FunctorOK(f)'
    BY DEF FunctorOK
  <2> QED BY <2>1, <2>2 DEF Inv, FunctorInv
<1>4. CloseInv' /\ LinkInv'
  BY DEF Inv, CloseInv, LinkInv, Told, Watching, Down
<1> QED BY <1>1, <1>2, <1>3, <1>4 DEF Inv

\* One functor more, and nothing else of the connection.
LEMMA QueueInv ==
  ASSUME Inv, NEW f \in FunctorType, conn' = Queue(conn, f), FunctorOK(f)',
         UNCHANGED <<batch, holders>>, server # "has" => server' # "has"
  PROVE  /\ conn' \in ConnType /\ FunctorInv' /\ LinkInv'
         /\ conn'.closes = conn.closes /\ conn'.queue = Append(conn.queue, f)
<1> DEFINE q == Append(conn.queue, f)
<1>1. conn \in ConnType /\ conn.queue \in Seq(FunctorType) /\ q \in Seq(FunctorType)
  BY TypeFacts DEF Inv
<1>2. conn' = [conn EXCEPT !.queue = q]
  BY <1>1 DEF Queue, ConnType
<1> HIDE DEF q
<1>3. /\ conn' \in ConnType /\ conn'.queue = q /\ conn'.ch = conn.ch
      /\ conn'.output = conn.output /\ conn'.wire = conn.wire /\ conn'.told = conn.told
      /\ conn'.state = conn.state /\ conn'.closes = conn.closes
  BY <1>1, <1>2 DEF ConnType
<1>4. Functors' = Functors \cup {f}
  BY <1>3, FunctorsGrow DEF Inv, q
<1>5. \A g : FunctorOK(g) => FunctorOK(g)'
  BY DEF FunctorOK
<1>6. FunctorInv'
  BY <1>4, <1>5 DEF Inv, FunctorInv
<1>7. LinkInv'
  BY <1>3 DEF Inv, LinkInv, Told, Watching, Down
<1> QED BY <1>3, <1>6, <1>7 DEF q

LEMMA CallInv ==
  ASSUME Inv, NEW u \in Users, NEW call \in {"send", "shutdown"}, Call(u, call) PROVE Inv'
<1> USE DEF Call, Goes, loopVars, serverVars
<1>1. calls[u] \in 0..MaxCalls /\ MaxCalls \in Nat
  BY BoundAssumption DEF Inv, TypeOK
<1>2. TypeOK'
  BY <1>1 DEF Inv, TypeOK
<1>3. UserInv'
  BY <1>1 DEF Inv, TypeOK, UserInv
<1>4. FunctorInv' /\ BatchInv' /\ CloseInv' /\ LinkInv'
  BY DEF Inv, FunctorInv, FunctorOK, Functors, BatchInv, CloseInv, LinkInv, Told, Watching, Down
<1> QED BY <1>2, <1>3, <1>4 DEF Inv

LEMMA ShutdownSetInv == ASSUME Inv, NEW u \in Users, ShutdownSet(u) PROVE Inv'
<1> USE DEF ShutdownSet, Goes, loopVars, serverVars
<1>1. conn \in ConnType
  BY DEF Inv, TypeOK
<1>2. /\ conn' \in ConnType /\ conn'.queue = conn.queue /\ conn'.ch = conn.ch
      /\ conn'.output = conn.output /\ conn'.wire = conn.wire /\ conn'.told = conn.told
      /\ conn'.state = "disconnecting" /\ conn'.closes = conn.closes
  BY <1>1 DEF ConnType
<1>3. TypeOK' /\ UserInv' /\ BatchInv'
  BY <1>2 DEF Inv, TypeOK, UserInv, BatchInv
<1>4. FunctorInv' /\ CloseInv' /\ LinkInv'
  BY <1>2 DEF Inv, FunctorInv, FunctorOK, Functors, CloseInv, LinkInv, Told, Watching, Down
<1> QED BY <1>3, <1>4 DEF Inv

LEMMA UserQueueInv ==
  ASSUME Inv, NEW u \in Users, NEW call \in Raw, user[u] # "idle",
         conn' = Queue(conn, Functor(call, u, calls[u])),
         user' = [user EXCEPT ![u] = "idle"],
         UNCHANGED <<loopVars, serverVars, holders, calls>>
  PROVE  Inv'
<1> USE DEF loopVars, serverVars
<1> DEFINE f == Functor(call, u, calls[u])
<1>1. calls[u] \in 0..MaxCalls /\ calls[u] # 0 /\ u \in holders
  BY DEF Inv, TypeOK, UserInv
<1>2. f \in FunctorType
  BY <1>1 DEF Functor, FunctorType, Raw, Calls, Senders
<1>3. FunctorOK(f)'
  BY <1>1 DEF Functor, FunctorOK, Raw
<1> HIDE DEF f
<1>4. /\ conn' \in ConnType /\ FunctorInv' /\ LinkInv'
      /\ conn'.closes = conn.closes /\ conn'.queue = Append(conn.queue, f)
  BY <1>2, <1>3, QueueInv DEF f
<1>5. TypeOK' /\ UserInv' /\ BatchInv' /\ CloseInv'
  BY <1>4 DEF Inv, TypeOK, UserInv, BatchInv, CloseInv
<1> QED BY <1>4, <1>5 DEF Inv

LEMMA ReleaseInv == ASSUME Inv, NEW u \in Users, Release(u) PROVE Inv'
<1> USE DEF Release, loopVars, serverVars
<1>1. FunctorInv'
  <2>1. Functors' = Functors
    BY DEF Functors
  <2>2. ASSUME NEW f \in Functors PROVE FunctorOK(f)'
    <3>1. FunctorOK(f)
      BY DEF Inv, FunctorInv
    <3> QED BY <3>1 DEF FunctorOK
  <2> QED BY <2>1, <2>2 DEF FunctorInv
<1>2. TypeOK' /\ UserInv' /\ BatchInv' /\ CloseInv' /\ LinkInv'
  BY DEF Inv, TypeOK, UserInv, BatchInv, CloseInv, LinkInv, Told, Watching, Down
<1> QED BY <1>1, <1>2 DEF Inv

LEMMA DestroyedType == LoopFunctor("destroyed") \in FunctorType
  BY LoopFunctorType DEF Calls

LEMMA ServerInv == ASSUME Inv, ServerAnswers \/ ServerDtor PROVE Inv'
<1> USE DEF ServerAnswers, ServerDtor, loopVars, userVars
<1> DEFINE f == LoopFunctor("destroyed")
<1>1. FunctorOK(f)'
  BY LoopFunctorOK
<1>2. /\ conn' \in ConnType /\ FunctorInv' /\ LinkInv'
      /\ conn'.closes = conn.closes
  BY <1>1, DestroyedType, QueueInv
<1>3. owed \in 0..MaxCloses /\ owed' \in 0..MaxCloses /\ owed' <= owed
  <2>1. owed \in 0..MaxCloses /\ MaxCloses \in Nat
    BY TypeFacts DEF Inv, TypeOK
  <2> QED BY <2>1
<1>4. TypeOK' /\ UserInv' /\ BatchInv'
  BY <1>2, <1>3 DEF Inv, TypeOK, UserInv, BatchInv
<1>5. CloseInv'
  BY <1>2, <1>3, TypeFacts DEF Inv, CloseInv
<1> QED BY <1>2, <1>4, <1>5 DEF Inv

LEMMA PeerInv ==
  ASSUME Inv, PeerData \/ PeerFin \/ PeerRst \/ PeerReads
  PROVE  Inv' /\ Alike(conn, conn') /\ conn'.echoes = conn.echoes
<1> USE DEF PeerData, PeerFin, PeerRst, PeerReads, Outside, loopVars, userVars, serverVars
<1>1. conn \in ConnType /\ conn.room \in 0..SendBuffer /\ SendBuffer \in Nat
  BY Fields, BoundAssumption DEF Inv, TypeOK
<1>2. conn' \in ConnType /\ Alike(conn, conn') /\ conn'.echoes = conn.echoes
  <2>1. CASE PeerData
    BY <1>1, <2>1 DEF ConnType, Alike
  <2>2. CASE PeerFin
    BY <1>1, <2>2 DEF ConnType, Alike
  <2>3. CASE PeerRst
    BY <1>1, <2>3 DEF ConnType, Alike
  <2>4. CASE PeerReads
    <3>1. conn' = [conn EXCEPT !.room = conn.room + 1] /\ conn.room + 1 \in 0..SendBuffer
      BY <1>1, <2>4
    <3> QED BY <1>1, <3>1 DEF ConnType, Alike
  <2> QED BY <2>1, <2>2, <2>3, <2>4
<1>3. UNCHANGED <<loopVars, userVars, serverVars>>
  OBVIOUS
<1>4. TypeOK' /\ UserInv' /\ BatchInv'
  BY <1>2, <1>3 DEF Inv, TypeOK, UserInv, BatchInv
<1>5. FunctorInv' /\ CloseInv' /\ LinkInv'
  BY <1>2, <1>3
  DEF Inv, FunctorInv, FunctorOK, Functors, CloseInv, LinkInv, Told, Watching, Down, Alike
<1> QED BY <1>2, <1>4, <1>5 DEF Inv

LEMMA InvNext == Inv /\ [Next]_vars => Inv'
<1> SUFFICES ASSUME Inv, [Next]_vars PROVE Inv'
  OBVIOUS
<1>1. CASE LoopStep
  BY <1>1, PollInv, EventHupInv, EventErrInv, EventInInv, EventOutInv, DrainBeginInv,
     RunFunctorInv, DrainEndInv DEF LoopStep
<1>2. ASSUME NEW u \in Users, Call(u, "send") \/ Call(u, "shutdown") PROVE Inv'
  BY <1>2, CallInv
<1>3. ASSUME NEW u \in Users, SendQueue(u) PROVE Inv'
  BY <1>3, UserQueueInv DEF SendQueue, Goes, Raw
<1>4. ASSUME NEW u \in Users, ShutdownSet(u) PROVE Inv'
  BY <1>4, ShutdownSetInv
<1>5. ASSUME NEW u \in Users, ShutdownQueue(u) PROVE Inv'
  BY <1>5, UserQueueInv DEF ShutdownQueue, Goes, Raw
<1>6. ASSUME NEW u \in Users, Release(u) PROVE Inv'
  BY <1>6, ReleaseInv
<1>7. CASE ServerAnswers \/ ServerDtor
  BY <1>7, ServerInv
<1>8. CASE PeerData \/ PeerFin \/ PeerRst \/ PeerReads
  BY <1>8, PeerInv
<1>9. CASE UNCHANGED vars
  BY <1>9 DEF vars, loopVars, userVars, serverVars, Inv, TypeOK, FunctorInv, FunctorOK, Functors,
              UserInv, BatchInv, CloseInv, LinkInv, Told, Watching, Down
<1> QED BY <1>1, <1>2, <1>3, <1>4, <1>5, <1>6, <1>7, <1>8, <1>9 DEF Next, FinishCall

LEMMA InvAlways == Spec => []Inv
  BY InvInit, InvNext, PTL DEF Spec

-----------------------------------------------------------------------------
\* Types, for any number of threads and calls; no count of closes or of what the
\* server owes runs past its bound (tcp_connection.cc: handle_close).
THEOREM TypeCorrect == Spec => []TypeOK
<1>1. Inv => TypeOK
  BY DEF Inv
<1> QED BY <1>1, InvAlways, PTL

\* As long as nobody closes the connection, epoll watches for room in the socket
\* exactly while bytes wait (tcp_connection.cc: send_in_loop, handle_write): no
\* stall and no spin, for any sizes of messages, socket and mark.
THEOREM InterestRight == Spec => []WritingIffOutput
<1>1. Inv => WritingIffOutput
  BY DEF Inv, LinkInv, Sound, Watching, is_writing, WritingIffOutput
<1> QED BY <1>1, InvAlways, PTL

\* When nothing waits, the user has been told of every byte on the wire, whoever
\* wrote the last one (tcp_connection.cc: send_in_loop, handle_write).
THEOREM UserTold == Spec => []CompletionTold
<1>1. Inv => CompletionTold
  BY DEF Inv, LinkInv, Told, CompletionTold
<1> QED BY <1>1, InvAlways, PTL

-----------------------------------------------------------------------------
(* What a step does to the output of the connection.                       *)

\* Nothing is sent, put behind what waits, or reported.
Quiet(r, s) ==
  /\ s.output = r.output /\ s.wire = r.wire /\ s.shut = r.shut /\ s.highs = r.highs
  /\ s.closes >= r.closes

\* Every step works on the output as a callback does, or lets it be.
LEMMA StepShape ==
  ASSUME Inv, [Next]_vars PROVE Works(conn, conn') \/ Quiet(conn, conn')
<1>0. Rec(conn) /\ conn \in ConnType /\ conn.closes \in Nat
  BY InvRec, Fields DEF Rec
<1>1. CASE UNCHANGED conn
  BY <1>0, <1>1 DEF Quiet
<1>2. CASE EventHup
  <2>1. CASE Closes(conn)
    <3>1. conn.closes < MaxCloses
      BY <1>2 DEF EventHup, Handles, Inv, CloseInv
    <3> QED BY <1>0, <2>1, <3>1, HandleCloseDowns DEF Closes, Downs, Quiet
  <2> QED BY <1>1, <1>2, <2>1 DEF EventHup
<1>3. CASE EventErr \/ EventOut
  BY <1>0, <1>3, ErrTaken, HandleWriteWorks DEF EventErr, EventOut
<1>4. CASE EventIn
  <2>1. CASE EndOfStream(conn)
    <3>1. conn.closes < MaxCloses
      BY <1>4 DEF EventIn, Handles, Inv, CloseInv
    <3> QED BY <1>0, <1>4, <2>1, <3>1, HandleCloseDowns DEF EventIn, Closes, Downs, Quiet
  <2>2. CASE ~EndOfStream(conn) /\ conn.unread
    <3> DEFINE t == [conn EXCEPT !.unread = FALSE]
    <3>1. t \in ConnType /\ Alike(conn, t)
      BY <1>0 DEF ConnType, Alike
    <3>2. conn' \in Callback(t)
      BY <1>4, <2>2 DEF EventIn
    <3> HIDE DEF t
    <3>3. Rec(t)
      BY <1>0, <3>1 DEF Rec, Alike
    <3> QED BY <3>1, <3>2, <3>3, CallbackWorks, AlikeFirst
  <2>3. CASE ~EndOfStream(conn) /\ ~conn.unread
    BY <1>0, <1>4, <2>3, ErrTaken DEF EventIn
  <2> QED BY <2>1, <2>2, <2>3
<1>5. CASE DrainBegin
  BY <1>0, <1>5 DEF DrainBegin, ConnType, Quiet
<1>6. CASE RunFunctor
  <2>1. batch[ran + 1] \in Functors /\ conn' \in Outcomes(conn, batch[ran + 1])
    BY <1>6, NextFunctor DEF RunFunctor, Inv
  <2> QED BY <1>0, <2>1, OutcomeWorks DEF Downs, Quiet
<1>7. ASSUME NEW f, conn' = Queue(conn, f) PROVE Quiet(conn, conn')
  BY <1>0, <1>7 DEF Queue, ConnType, Quiet
<1>8. ASSUME NEW u \in Users, ShutdownSet(u) PROVE Quiet(conn, conn')
  BY <1>0, <1>8 DEF ShutdownSet, ConnType, Quiet
<1>9. CASE PeerData \/ PeerFin \/ PeerRst \/ PeerReads
  BY <1>0, <1>9, PeerInv DEF Alike, Quiet
<1>10. CASE LoopStep
  BY <1>1, <1>2, <1>3, <1>4, <1>5, <1>6, <1>10 DEF LoopStep, Poll, DrainEnd
<1>11. CASE \E u \in Users : Call(u, "send") \/ Call(u, "shutdown") \/ FinishCall(u) \/ Release(u)
  BY <1>1, <1>7, <1>8, <1>11 DEF Call, FinishCall, SendQueue, ShutdownQueue, Release
<1>12. CASE ServerAnswers \/ ServerDtor
  BY <1>7, <1>12 DEF ServerAnswers, ServerDtor
<1> QED BY <1>1, <1>9, <1>10, <1>11, <1>12 DEF Next, vars

\* The high-water callback is queued once each time output_buffer_ reaches the
\* mark from below and at no other time, for any mark, message size and socket
\* (tcp_connection.cc: send_in_loop).
THEOREM WarnedOnCrossing == Spec => HighWaterOnCrossing
<1>1. ASSUME Inv, [Next]_vars
      PROVE  conn'.highs = conn.highs + Crossing(conn, conn')
  <2>1. CASE Works(conn, conn')
    BY <2>1 DEF Works
  <2>2. CASE Quiet(conn, conn')
    BY <1>1, <2>2, InvRec, Fields, BoundAssumption DEF Quiet, Crossing, Rec
  <2> QED BY <1>1, <2>1, <2>2, StepShape
<1>2. Inv /\ [Next]_vars =>
        [conn'.highs = conn.highs + (IF /\ Len(conn.output) < high_water_mark_
                                        /\ Len(conn'.output) >= high_water_mark_
                                     THEN 1 ELSE 0)]_vars
  BY <1>1 DEF Crossing
<1> QED BY <1>2, InvAlways, PTL DEF Spec, HighWaterOnCrossing
=============================================================================
