--------------------------- MODULE TcpStreamProofs ---------------------------
(***************************************************************************)
(* The connection implements OutputStream, for every number of threads,    *)
(* messages and sizes: no message is torn, doubled or overtaken on its way *)
(* from send through the loop's queue and output_buffer_ to the wire.      *)
(***************************************************************************)
EXTENDS TcpConnectionProofs

\* Where a thread is in its calls.
Doing == {"idle", "send", "shutdown", "set"}

\* f is a send of the thread from.
SendOf(f, from) == f.call = "send" /\ f.from = from

\* The numbers of a sender: the messages in the stream (S) come before those in
\* the functors still to run (w), these are in order, and what the thread is
\* about to queue comes behind all of them.  ca, us and ec are calls, user and
\* the count of the messages sent on the loop.
InStream(b, w, ca, us, ec) ==
  /\ b.from = "loop" => b.no <= ec
  /\ b.from \in Users => /\ b.no <= ca[b.from]
                         /\ us[b.from] = "send" => b.no < ca[b.from]
  /\ \A f \in Range(w) : SendOf(f, b.from) => b.no < f.no

InQueue(f, ca, us) ==
  f.call = "send" => /\ f.from \in Users
                     /\ f.no # 0
                     /\ f.no <= ca[f.from]
                     /\ us[f.from] = "send" => f.no < ca[f.from]

Sorted(w) ==
  \A i, j \in 1..Len(w) :
    i < j /\ w[i].call = "send" /\ SendOf(w[j], w[i].from) => w[i].no < w[j].no

Order(S, w, ca, us, ec) ==
  /\ \A b \in S : InStream(b, w, ca, us, ec)
  /\ \A f \in Range(w) : InQueue(f, ca, us)
  /\ Sorted(w)

\* The functors still to run, in the order in which they will.
Waiting == Todo(batch, ran, conn.queue)

OrderInv == Order(Range(conn.wire \o conn.output), Waiting, calls, user, conn.echoes)

-----------------------------------------------------------------------------
(* Order, as functors come and go.                                         *)

LEMMA AppendRange ==
  ASSUME NEW w \in Seq(FunctorType), NEW f \in FunctorType
  PROVE  /\ Append(w, f) \in Seq(FunctorType)
         /\ Range(Append(w, f)) = Range(w) \cup {f}
         /\ Len(Append(w, f)) = Len(w) + 1 /\ Len(w) \in Nat
         /\ \A i \in 1..Len(w) : Append(w, f)[i] = w[i] /\ w[i] \in Range(w)
         /\ Append(w, f)[Len(w) + 1] = f
<1>1. Range(w) = {w[i] : i \in 1..Len(w)}
  BY RangeEquality
<1> QED BY <1>1, RangeAppend, AppendProperties, LenProperties

\* A functor that sends nothing is queued.
LEMMA OrderGrows ==
  ASSUME NEW S, NEW w \in Seq(FunctorType), NEW ca, NEW us, NEW ec, Order(S, w, ca, us, ec),
         NEW f \in FunctorType, f.call # "send"
  PROVE  Order(S, Append(w, f), ca, us, ec)
<1> DEFINE v == Append(w, f)
<1>1. /\ Range(v) = Range(w) \cup {f} /\ Len(v) = Len(w) + 1 /\ Len(w) \in Nat
      /\ \A i \in 1..Len(w) : v[i] = w[i]
      /\ v[Len(w) + 1] = f
  BY AppendRange
<1> HIDE DEF v
<1>2. ASSUME NEW i \in 1..Len(v), NEW j \in 1..Len(v), i < j,
             v[i].call = "send", SendOf(v[j], v[i].from)
      PROVE  v[i].no < v[j].no
  <2>1. j # Len(w) + 1
    BY <1>1, <1>2 DEF SendOf
  <2>2. i \in 1..Len(w) /\ j \in 1..Len(w)
    BY <1>1, <1>2, <2>1
  <2> QED BY <1>1, <1>2, <2>2 DEF Order, Sorted
<1>3. Sorted(v)
  BY <1>2 DEF Sorted
<1>4. Order(S, v, ca, us, ec)
  BY <1>1, <1>3 DEF Order, InStream, InQueue, SendOf
<1> QED BY <1>4 DEF v

\* The thread u queues its send.
LEMMA OrderQueued ==
  ASSUME NEW S, NEW w \in Seq(FunctorType), NEW ca \in [Users -> Nat],
         NEW us \in [Users -> Doing], NEW ec, Order(S, w, ca, us, ec),
         NEW u \in Users, us[u] = "send", ca[u] # 0,
         NEW f \in FunctorType, f = Functor("send", u, ca[u])
  PROVE  Order(S, Append(w, f), ca, [us EXCEPT ![u] = "idle"], ec)
<1> DEFINE v == Append(w, f)
           nu == [us EXCEPT ![u] = "idle"]
<1>1. /\ Range(v) = Range(w) \cup {f} /\ Len(v) = Len(w) + 1 /\ Len(w) \in Nat
      /\ \A i \in 1..Len(w) : v[i] = w[i] /\ w[i] \in Range(w)
      /\ v[Len(w) + 1] = f
  BY AppendRange
<1>2. f.call = "send" /\ f.from = u /\ f.no = ca[u] /\ u # "loop"
  BY UsersAssumption DEF Functor
<1>3. \A x \in Users : nu[x] = "send" => us[x] = "send" /\ x # u
  OBVIOUS
<1> HIDE DEF v, nu
<1>4. ASSUME NEW i \in 1..Len(v), NEW j \in 1..Len(v), i < j,
             v[i].call = "send", SendOf(v[j], v[i].from)
      PROVE  v[i].no < v[j].no
  <2>1. i \in 1..Len(w)
    BY <1>1, <1>4
  <2>2. CASE j = Len(w) + 1
    BY <1>1, <1>2, <1>4, <2>1, <2>2 DEF Order, InQueue, SendOf
  <2>3. CASE j \in 1..Len(w)
    BY <1>1, <1>4, <2>1, <2>3 DEF Order, Sorted
  <2> QED BY <1>1, <2>2, <2>3
<1>5. ASSUME NEW b \in S
      PROVE  /\ b.from = "loop" => b.no <= ec
             /\ b.from \in Users => b.no <= ca[b.from]
             /\ \A g \in Range(v) : SendOf(g, b.from) => b.no < g.no
  <2>1. InStream(b, w, ca, us, ec)
    BY <1>5 DEF Order
  <2>2. ASSUME NEW g \in Range(v), SendOf(g, b.from) PROVE b.no < g.no
    <3>1. CASE g \in Range(w)
      BY <2>1, <2>2, <3>1 DEF InStream
    <3>2. CASE g = f
      BY <1>2, <2>1, <2>2, <3>2 DEF InStream, SendOf
    <3> QED BY <1>1, <2>2, <3>1, <3>2
  <2> QED BY <2>1, <2>2 DEF InStream
<1>6. ASSUME NEW b \in S, b.from \in Users, nu[b.from] = "send"
      PROVE  b.no < ca[b.from]
  <2>1. InStream(b, w, ca, us, ec)
    BY <1>6 DEF Order
  <2> QED BY <1>3, <1>6, <2>1 DEF InStream
<1>7. ASSUME NEW g \in Range(v), g.call = "send"
      PROVE  /\ g.from \in Users /\ g.no # 0 /\ g.no <= ca[g.from]
             /\ nu[g.from] = "send" => g.no < ca[g.from]
  <2>1. CASE g = f
    BY <1>2, <1>3, <1>7, <2>1
  <2>2. CASE g \in Range(w)
    <3>1. InQueue(g, ca, us)
      BY <2>2 DEF Order
    <3> QED BY <1>3, <1>7, <3>1 DEF InQueue
  <2> QED BY <1>1, <1>7, <2>1, <2>2
<1>8. \A b \in S : InStream(b, v, ca, nu, ec)
  BY <1>5, <1>6 DEF InStream
<1>9. \A g \in Range(v) : InQueue(g, ca, nu)
  BY <1>7 DEF InQueue
<1>10. Sorted(v)
  BY <1>4 DEF Sorted
<1>11. Order(S, v, ca, nu, ec)
  BY <1>8, <1>9, <1>10 DEF Order
<1> QED BY <1>11 DEF v, nu

\* The thread u begins a call.
LEMMA OrderCalled ==
  ASSUME NEW S, NEW w \in Seq(FunctorType), NEW ca \in [Users -> Nat],
         NEW us \in [Users -> Doing], NEW ec, S \subseteq Messages,
         Order(S, w, ca, us, ec), NEW u \in Users, NEW call
  PROVE  Order(S, w, [ca EXCEPT ![u] = @ + 1], [us EXCEPT ![u] = call], ec)
<1> DEFINE nc == [ca EXCEPT ![u] = @ + 1]
           nu == [us EXCEPT ![u] = call]
<1>1. \A x \in Users : x # u => nc[x] = ca[x] /\ nu[x] = us[x]
  OBVIOUS
<1>2. nc[u] = ca[u] + 1 /\ ca[u] \in Nat
  OBVIOUS
<1>3. \A b \in S : b.no \in Nat
  BY DEF Messages
<1>4. \A f \in Range(w) : f.no \in Nat
  <2>1. Range(w) \subseteq FunctorType
    BY RangeOfSeq
  <2> QED BY <2>1, BoundAssumption DEF FunctorType
<1> HIDE DEF nc, nu
<1>5. ASSUME NEW b \in S, b.from \in Users
      PROVE  b.no <= nc[b.from] /\ (nu[b.from] = "send" => b.no < nc[b.from])
  <2>1. b.no \in Nat /\ b.no <= ca[b.from]
    BY <1>3, <1>5 DEF Order, InStream
  <2>2. CASE b.from = u
    BY <1>2, <2>1, <2>2
  <2>3. CASE b.from # u
    BY <1>1, <1>5, <2>1, <2>3 DEF Order, InStream
  <2> QED BY <2>2, <2>3
<1>6. ASSUME NEW f \in Range(w), f.call = "send"
      PROVE  f.no <= nc[f.from] /\ (nu[f.from] = "send" => f.no < nc[f.from])
  <2>1. f.no \in Nat /\ f.from \in Users /\ f.no <= ca[f.from]
    BY <1>4, <1>6 DEF Order, InQueue
  <2>2. CASE f.from = u
    BY <1>2, <2>1, <2>2
  <2>3. CASE f.from # u
    BY <1>1, <1>6, <2>1, <2>3 DEF Order, InQueue
  <2> QED BY <2>2, <2>3
<1>7. \A b \in S : InStream(b, w, nc, nu, ec)
  BY <1>5 DEF Order, InStream
<1>8. \A f \in Range(w) : InQueue(f, nc, nu)
  BY <1>6 DEF Order, InQueue
<1>9. Order(S, w, nc, nu, ec)
  BY <1>7, <1>8 DEF Order
<1> QED BY <1>9 DEF nc, nu

\* A thread leaves send_in_loop's way: it is not, or no longer, about to queue a send.
LEMMA OrderOther ==
  ASSUME NEW S, NEW w, NEW ca, NEW us \in [Users -> Doing], NEW ec,
         Order(S, w, ca, us, ec), NEW u \in Users, NEW to, to # "send"
  PROVE  Order(S, w, ca, [us EXCEPT ![u] = to], ec)
<1> DEFINE nu == [us EXCEPT ![u] = to]
<1>1. \A x \in Users : nu[x] = "send" => us[x] = "send"
  OBVIOUS
<1> HIDE DEF nu
<1>2. Order(S, w, ca, nu, ec)
  BY <1>1 DEF Order, InStream, InQueue
<1> QED BY <1>2 DEF nu

\* A functor is taken off the front.
LEMMA TailFacts ==
  ASSUME NEW w \in Seq(FunctorType), w # <<>>
  PROVE  /\ Tail(w) \in Seq(FunctorType)
         /\ Len(Tail(w)) = Len(w) - 1 /\ Len(w) \in Nat /\ Len(w) # 0
         /\ Range(Tail(w)) \subseteq Range(w) /\ w[1] \in Range(w)
         /\ \A i \in 1..Len(Tail(w)) : Tail(w)[i] = w[i + 1] /\ i + 1 \in 1..Len(w)
         /\ \A g \in Range(Tail(w)) : \E i \in 2..Len(w) : g = w[i]
<1>1. /\ Tail(w) \in Seq(FunctorType) /\ Len(Tail(w)) = Len(w) - 1
      /\ \A i \in 1..Len(Tail(w)) : Tail(w)[i] = w[i + 1]
      /\ Len(w) \in Nat /\ Len(w) # 0
  BY HeadTailProperties, LenProperties, EmptySeq
<1>2. /\ Range(w) = {w[i] : i \in 1..Len(w)}
      /\ Range(Tail(w)) = {Tail(w)[i] : i \in 1..Len(Tail(w))}
  BY <1>1, RangeEquality
<1>3. \A i \in 1..Len(Tail(w)) : i + 1 \in 1..Len(w) /\ i + 1 \in 2..Len(w)
  BY <1>1
<1>4. 1 \in 1..Len(w)
  BY <1>1
<1> QED BY <1>1, <1>2, <1>3, <1>4

LEMMA OrderTail ==
  ASSUME NEW S, NEW w \in Seq(FunctorType), w # <<>>, NEW ca, NEW us, NEW ec,
         Order(S, w, ca, us, ec)
  PROVE  Order(S, Tail(w), ca, us, ec)
<1> DEFINE v == Tail(w)
<1>1. /\ Len(v) = Len(w) - 1 /\ Len(w) \in Nat
      /\ Range(v) \subseteq Range(w)
      /\ \A i \in 1..Len(v) : v[i] = w[i + 1] /\ i + 1 \in 1..Len(w)
  BY TailFacts
<1> HIDE DEF v
<1>2. ASSUME NEW i \in 1..Len(v), NEW j \in 1..Len(v), i < j,
             v[i].call = "send", SendOf(v[j], v[i].from)
      PROVE  v[i].no < v[j].no
  <2>1. i + 1 < j + 1
    BY <1>1, <1>2
  <2> QED BY <1>1, <1>2, <2>1 DEF Order, Sorted
<1>3. Sorted(v)
  BY <1>2 DEF Sorted
<1>4. Order(S, v, ca, us, ec)
  BY <1>1, <1>3 DEF Order, InStream
<1> QED BY <1>4 DEF v

\* The first functor puts its message into the stream.
LEMMA OrderSent ==
  ASSUME NEW S, NEW w \in Seq(FunctorType), w # <<>>, NEW ca, NEW us, NEW ec,
         Order(S, w, ca, us, ec), w[1].call = "send",
         NEW T, T \subseteq S \cup {Message(w[1].from, w[1].no)}
  PROVE  Order(T, Tail(w), ca, us, ec)
<1> DEFINE v == Tail(w)
           m == Message(w[1].from, w[1].no)
<1>1. /\ Len(w) \in Nat /\ Len(w) # 0 /\ w[1] \in Range(w)
      /\ Range(v) \subseteq Range(w)
      /\ \A g \in Range(v) : \E i \in 2..Len(w) : g = w[i]
  BY TailFacts
<1>2. Order(S, v, ca, us, ec)
  BY OrderTail
<1>3. m.from = w[1].from /\ m.no = w[1].no
  BY DEF Message
<1>4. w[1].from \in Users /\ w[1].from # "loop"
  BY <1>1, UsersAssumption DEF Order, InQueue
<1> HIDE DEF v, m
<1>5. /\ m.no <= ca[m.from]
      /\ us[m.from] = "send" => m.no < ca[m.from]
  BY <1>1, <1>3 DEF Order, InQueue
<1>6. ASSUME NEW g \in Range(v), SendOf(g, m.from) PROVE m.no < g.no
  <2>1. PICK i \in 2..Len(w) : g = w[i]
    BY <1>1
  <2>2. 1 \in 1..Len(w) /\ i \in 1..Len(w) /\ 1 < i
    BY <1>1
  <2> QED BY <1>3, <1>6, <2>1, <2>2 DEF Order, Sorted
<1>7. Order(T, v, ca, us, ec)
  <2>1. ASSUME NEW b \in T PROVE InStream(b, v, ca, us, ec)
    <3>1. CASE b \in S
      BY <1>2, <3>1 DEF Order
    <3>2. CASE b = m
      BY <1>3, <1>4, <1>5, <1>6, <3>2 DEF InStream
    <3> QED BY <3>1, <3>2 DEF m
  <2> QED BY <1>2, <2>1 DEF Order
<1> QED BY <1>7 DEF v

\* A callback on the loop puts its own message into the stream.
LEMMA OrderLoop ==
  ASSUME NEW S, NEW w, NEW ca, NEW us, NEW ec \in Nat, S \subseteq Messages,
         Order(S, w, ca, us, ec), NEW T, T \subseteq S \cup {Message("loop", ec + 1)}
  PROVE  Order(T, w, ca, us, ec + 1)
<1> DEFINE m == Message("loop", ec + 1)
<1>1. m.from = "loop" /\ m.no = ec + 1 /\ m.from \notin Users
  BY UsersAssumption DEF Message
<1> HIDE DEF m
<1>2. ASSUME NEW b \in T PROVE InStream(b, w, ca, us, ec + 1)
  <2>1. CASE b \in S
    <3>1. b.no \in Nat
      BY <2>1 DEF Messages
    <3> QED BY <2>1, <3>1 DEF Order, InStream
  <2>2. CASE b = m
    BY <1>1, <2>2 DEF Order, InStream, InQueue, SendOf
  <2> QED BY <2>1, <2>2 DEF m
<1> QED BY <1>2 DEF Order

\* Fewer bytes are in order as well.
LEMMA OrderLess ==
  ASSUME NEW S, NEW w, NEW ca, NEW us, NEW ec, Order(S, w, ca, us, ec), NEW T, T \subseteq S
  PROVE  Order(T, w, ca, us, ec)
  BY DEF Order

-----------------------------------------------------------------------------
(* The stream, as bytes come and go.                                       *)

LEMMA BytesRange ==
  ASSUME NEW from, NEW no
  PROVE  /\ Bytes(from, no) = [i \in 1..MsgLen |-> Message(from, no)]
         /\ Range(Bytes(from, no)) = {Message(from, no)}
<1>1. 1 \in 1..MsgLen
  BY BoundAssumption
<1> QED BY <1>1 DEF Bytes, Range

\* Only what is put in can be new in the stream.
LEMMA MovesRange ==
  ASSUME NEW r, Rec(r), NEW s, NEW data \in Seq(Messages), Moves(r, s, data)
  PROVE  Range(s.wire \o s.output) \subseteq Range(r.wire \o r.output) \cup Range(data)
<1> DEFINE all == r.output \o data
<1>1. r.output \in Seq(Messages) /\ r.wire \in Seq(Messages)
  BY Fields DEF Rec
<1>2. /\ all \in Seq(Messages) /\ Len(all) \in Nat
      /\ Range(all) = Range(r.output) \cup Range(data)
  <2>1. all \in Seq(Messages)
    BY <1>1, ConcatProperties
  <2>2. Range(all) = Range(r.output) \cup Range(data)
    BY <1>1, RangeConcatenation
  <2> HIDE DEF all
  <2> QED BY <2>1, <2>2, LenProperties
<1>3. PICK n \in 0..Len(all) : /\ s.wire = r.wire \o SubSeq(all, 1, n)
                              /\ s.output = SubSeq(all, n + 1, Len(all))
  BY DEF Moves
<1> HIDE DEF all
<1> DEFINE a == SubSeq(all, 1, n)
           b == SubSeq(all, n + 1, Len(all))
<1>4. a \in Seq(Messages) /\ b \in Seq(Messages)
  BY <1>2, Split
<1>5. a \o b = all
  <2>1. 1 \in 1..Len(all) + 1 /\ n \in 1 - 1..Len(all) /\ Len(all) \in n..Len(all)
    <3>1. n \in Nat /\ n <= Len(all)
      BY <1>2
    <3> QED BY <1>2, <3>1
  <2>2. SubSeq(all, 1, n) \o SubSeq(all, n + 1, Len(all)) = SubSeq(all, 1, Len(all))
    BY <1>2, <2>1, ConcatAdjacentSubSeq
  <2> QED BY <1>2, <2>2, SubSeqFull
<1>6. s.wire = r.wire \o a /\ s.output = b
  BY <1>3
<1> HIDE DEF a, b
<1>7. /\ Range(all) = Range(a) \cup Range(b)
      /\ Range(r.wire \o a) = Range(r.wire) \cup Range(a)
      /\ Range(r.wire \o r.output) = Range(r.wire) \cup Range(r.output)
  <2>1. Range(a \o b) = Range(a) \cup Range(b)
    BY <1>4, RangeConcatenation
  <2>2. Range(r.wire \o a) = Range(r.wire) \cup Range(a)
    BY <1>1, <1>4, RangeConcatenation
  <2>3. Range(r.wire \o r.output) = Range(r.wire) \cup Range(r.output)
    BY <1>1, RangeConcatenation
  <2> QED BY <1>5, <2>1, <2>2, <2>3
<1>8. Range(s.wire \o s.output) = Range(s.wire) \cup Range(s.output)
  <2>1. r.wire \o a \in Seq(Messages)
    BY <1>1, <1>4, ConcatProperties
  <2>2. s.wire \in Seq(Messages) /\ s.output \in Seq(Messages)
    BY <1>4, <1>6, <2>1
  <2> QED BY <2>2, RangeConcatenation
<1> QED BY <1>2, <1>6, <1>7, <1>8

LEMMA NothingMoves ==
  ASSUME NEW r, Rec(r), NEW s, Moves(r, s, <<>>)
  PROVE  Range(s.wire \o s.output) \subseteq Range(r.wire \o r.output)
  BY MovesRange, RangeEmpty, EmptySeq

LEMMA StreamType ==
  ASSUME NEW r, Rec(r)
  PROVE  Range(r.wire \o r.output) \subseteq Messages
<1>1. r.wire \o r.output \in Seq(Messages)
  BY Fields, ConcatProperties DEF Rec
<1> QED BY <1>1, RangeOfSeq

\* What a callback of the user puts into the stream.
Says(r, s) ==
  \/ Moves(r, s, <<>>) /\ s.echoes \in {r.echoes, r.echoes + 1}
  \/ /\ Moves(r, s, Bytes("loop", r.echoes + 1))
     /\ s.echoes = r.echoes + 1
     /\ r.echoes < MaxEchoes

\* The loop is always in turn.
LEMMA SaysOrder ==
  ASSUME NEW r, Rec(r), NEW s, Says(r, s), NEW w, NEW ca, NEW us,
         Order(Range(r.wire \o r.output), w, ca, us, r.echoes)
  PROVE  Order(Range(s.wire \o s.output), w, ca, us, s.echoes)
<1> DEFINE S == Range(r.wire \o r.output)
           T == Range(s.wire \o s.output)
<1>1. r.echoes \in 0..MaxEchoes /\ r.echoes \in Nat /\ S \subseteq Messages
  BY Fields, StreamType, BoundAssumption DEF Rec
<1>2. CASE Moves(r, s, <<>>) /\ s.echoes = r.echoes
  BY <1>2, NothingMoves, OrderLess
<1>3. CASE Moves(r, s, <<>>) /\ s.echoes = r.echoes + 1
  <2>1. T \subseteq S \cup {Message("loop", r.echoes + 1)}
    BY <1>3, NothingMoves
  <2> HIDE DEF S, T
  <2>2. Order(T, w, ca, us, r.echoes + 1)
    BY <1>1, <2>1, OrderLoop DEF S
  <2> QED BY <1>3, <2>2 DEF T
<1>4. CASE /\ Moves(r, s, Bytes("loop", r.echoes + 1))
           /\ s.echoes = r.echoes + 1
           /\ r.echoes < MaxEchoes
  <2>1. r.echoes + 1 \in 1..(MaxCalls + MaxEchoes)
    BY <1>1, <1>4, BoundAssumption
  <2>2. Bytes("loop", r.echoes + 1) \in Seq(Messages)
    BY <2>1, BytesAre DEF Senders
  <2>3. T \subseteq S \cup {Message("loop", r.echoes + 1)}
    BY <1>4, <2>2, MovesRange, BytesRange
  <2> HIDE DEF S, T
  <2>4. Order(T, w, ca, us, r.echoes + 1)
    BY <1>1, <2>3, OrderLoop DEF S
  <2> QED BY <1>4, <2>4 DEF T
<1> QED BY <1>2, <1>3, <1>4 DEF Says

\* A step of the abstract stream, but for its flags.
StreamStep ==
  \/ Moves(conn, conn', <<>>)
  \/ \E m \in Messages : Stream!InTurn(m) /\ Moves(conn, conn', [i \in 1..MsgLen |-> m])

LEMMA SaysStep ==
  ASSUME Inv, OrderInv, Says(conn, conn')
  PROVE  StreamStep
<1>1. CASE Moves(conn, conn', <<>>)
  BY <1>1 DEF StreamStep
<1>2. CASE Moves(conn, conn', Bytes("loop", conn.echoes + 1)) /\ conn.echoes < MaxEchoes
  <2> DEFINE m == Message("loop", conn.echoes + 1)
  <2>1. conn.echoes \in 0..MaxEchoes /\ conn.echoes \in Nat
    BY InvRec, Fields, BoundAssumption DEF Rec
  <2>2. conn.echoes + 1 \in 1..(MaxCalls + MaxEchoes)
    BY <1>2, <2>1, BoundAssumption
  <2>3. m \in Messages /\ m.from = "loop" /\ m.no = conn.echoes + 1
    BY <2>2 DEF Message, Messages, Senders
  <2>4. Moves(conn, conn', [i \in 1..MsgLen |-> m])
    BY <1>2, BytesRange
  <2> HIDE DEF m
  <2>5. ASSUME NEW b \in Range(conn.wire \o conn.output), b.from = m.from
        PROVE  b.no < m.no
    <3>1. b \in Messages
      BY InvRec, StreamType
    <3>2. b.no \in Nat
      BY <3>1, BoundAssumption DEF Messages
    <3>3. b.no <= conn.echoes
      BY <2>3, <2>5 DEF OrderInv, Order, InStream
    <3> QED BY <2>1, <2>3, <3>2, <3>3
  <2>6. Stream!InTurn(m)
    BY <2>5 DEF Stream!InTurn, Stream!Stream, Stream!Range, Range
  <2> QED BY <2>3, <2>4, <2>6 DEF StreamStep
<1> QED BY <1>1, <1>2 DEF Says

-----------------------------------------------------------------------------
(* The functors still to run, an action at a time.                         *)

\* w with one functor more, or none, that sends nothing.
Grown(w) == {w} \cup {Append(w, f) : f \in {g \in FunctorType : g.call # "send"}}

LEMMA GrownOrder ==
  ASSUME NEW S, NEW w \in Seq(FunctorType), NEW ca, NEW us, NEW ec, Order(S, w, ca, us, ec),
         NEW v \in Grown(w)
  PROVE  Order(S, v, ca, us, ec)
  BY OrderGrows DEF Grown

LEMMA WaitingType ==
  ASSUME TypeOK PROVE Waiting \in Seq(FunctorType) /\ ran \in 0..Len(batch)
<1>1. ran \in 0..Len(batch)
  BY DEF TypeOK
<1> QED BY <1>1, TypeFacts, TodoType DEF Waiting

\* A step that leaves the batch alone and queues at most one functor.
LEMMA WaitingGrows ==
  ASSUME TypeOK, batch' = batch, ran' = ran,
         \/ conn'.queue = conn.queue
         \/ \E f \in FunctorType : f.call # "send" /\ conn'.queue = Append(conn.queue, f)
  PROVE  Waiting' \in Grown(Waiting)
<1>1. CASE conn'.queue = conn.queue
  BY <1>1 DEF Waiting, Grown
<1>2. ASSUME NEW f \in FunctorType, f.call # "send", conn'.queue = Append(conn.queue, f)
      PROVE  Waiting' \in Grown(Waiting)
  <2> DEFINE b == batch
             n == ran
             q == conn.queue
  <2>1. b \in Seq(FunctorType) /\ n \in 0..Len(b) /\ q \in Seq(FunctorType)
    BY TypeFacts DEF TypeOK
  <2> HIDE DEF b, n, q
  <2>2. Todo(b, n, Append(q, f)) = Append(Todo(b, n, q), f)
    BY <2>1, TodoAppend
  <2> USE DEF b, n, q
  <2>3. Waiting' = Append(Waiting, f)
    BY <1>2, <2>2 DEF Waiting
  <2> QED BY <1>2, <2>3 DEF Grown
<1> QED BY <1>1, <1>2

\* What Works adds to the queue is one functor of the loop.
LEMMA AnnouncesOne ==
  ASSUME NEW r, NEW s, Announces(r, s)
  PROVE  \/ s.queue = r.queue
         \/ \E f \in FunctorType : f.call # "send" /\ s.queue = Append(r.queue, f)
<1>1. /\ LoopFunctor("written") \in FunctorType /\ LoopFunctor("written").call # "send"
      /\ LoopFunctor("highwater") \in FunctorType /\ LoopFunctor("highwater").call # "send"
  BY LoopFunctorType DEF LoopFunctor, Functor, Calls
<1> QED BY <1>1 DEF Announces

\* A step on the loop outside of the batch.
LEMMA CallbackOrder ==
  ASSUME Inv, OrderInv, Works(conn, conn'), Says(conn, conn'), UNCHANGED <<batch, ran, user, calls>>
  PROVE  StreamStep /\ OrderInv'
<1> DEFINE T == Range(conn'.wire \o conn'.output)
<1>1. Order(T, Waiting, calls, user, conn'.echoes)
  BY InvRec, SaysOrder DEF OrderInv
<1>2. Waiting' \in Grown(Waiting) /\ Waiting \in Seq(FunctorType)
  BY WaitingGrows, WaitingType, AnnouncesOne DEF Works, Inv
<1> HIDE DEF T
<1>3. Order(T, Waiting', calls, user, conn'.echoes)
  BY <1>1, <1>2, GrownOrder
<1> QED BY <1>3, SaysStep DEF OrderInv, T

\* A step that leaves the stream alone, and ends or leaves the calls of the threads.
LEMMA QuietOrder ==
  ASSUME Inv, OrderInv, conn'.wire = conn.wire, conn'.output = conn.output,
         conn'.echoes = conn.echoes, Waiting' \in Grown(Waiting), calls' = calls,
         \/ user' = user
         \/ \E u \in Users, to \in Doing : to # "send" /\ user' = [user EXCEPT ![u] = to]
  PROVE  StreamStep /\ OrderInv'
<1> DEFINE S == Range(conn.wire \o conn.output)
<1>1. Moves(conn, conn', <<>>)
  BY InvRec, SameMoves
<1>2. Order(S, Waiting, calls, user, conn.echoes) /\ Waiting \in Seq(FunctorType)
  BY WaitingType DEF OrderInv, Inv
<1>3. user \in [Users -> Doing]
  BY DEF Inv, TypeOK, Doing
<1>4. S' = S
  OBVIOUS
<1> HIDE DEF S
<1>5. Order(S, Waiting', calls, user, conn.echoes)
  BY <1>2, GrownOrder
<1>6. Order(S, Waiting', calls, user', conn.echoes)
  BY <1>3, <1>5, OrderOther
<1>7. OrderInv'
  BY <1>4, <1>6 DEF OrderInv, S
<1> QED BY <1>1, <1>7 DEF StreamStep

\* The vectors are swapped, or the batch is dropped: the same functors wait.
LEMMA DrainWaiting ==
  ASSUME Inv, DrainBegin \/ DrainEnd
  PROVE  Waiting' = Waiting /\ conn'.wire = conn.wire /\ conn'.output = conn.output
         /\ conn'.echoes = conn.echoes
<1>1. conn \in ConnType /\ conn.queue \in Seq(FunctorType) /\ batch \in Seq(FunctorType)
  BY TypeFacts DEF Inv
<1>2. CASE DrainBegin
  <2>1. batch = <<>> /\ ran = 0 /\ batch' = conn.queue /\ ran' = 0
    BY <1>2 DEF DrainBegin, Inv, BatchInv
  <2>2. /\ conn'.queue = <<>> /\ conn'.wire = conn.wire /\ conn'.output = conn.output
        /\ conn'.echoes = conn.echoes
    BY <1>1, <1>2 DEF DrainBegin, ConnType
  <2>3. /\ Todo(<<>>, 0, conn.queue) = conn.queue
        /\ Todo(conn.queue, 0, <<>>) = conn.queue
    BY <1>1, TodoSwap
  <2> QED BY <2>1, <2>2, <2>3 DEF Waiting
<1>3. CASE DrainEnd
  <2>1. ran = Len(batch) /\ batch' = <<>> /\ ran' = 0 /\ conn' = conn
    BY <1>3 DEF DrainEnd
  <2>2. /\ Todo(<<>>, 0, conn.queue) = conn.queue
        /\ Todo(batch, Len(batch), conn.queue) = conn.queue
    BY <1>1, TodoSwap, TodoEnd
  <2> QED BY <2>1, <2>2 DEF Waiting
<1> QED BY <1>2, <1>3

LEMMA EventOrder ==
  ASSUME Inv, OrderInv, EventHup \/ EventErr \/ EventIn \/ EventOut
  PROVE  StreamStep /\ OrderInv'
<1> USE DEF EventHup, EventErr, EventIn, EventOut, Handles, userVars
<1>0. /\ Rec(conn) /\ conn \in ConnType /\ conn.echoes \in Nat
      /\ UNCHANGED <<batch, ran, user, calls>>
  <2>1. Rec(conn) /\ conn \in ConnType
    BY InvRec DEF Rec
  <2>2. conn.echoes \in Nat
    BY <2>1, Fields, BoundAssumption
  <2>3. UNCHANGED <<batch, ran, user, calls>>
    OBVIOUS
  <2> QED BY <2>1, <2>2, <2>3
<1>1. ASSUME Works(conn, conn'), Moves(conn, conn', <<>>), conn'.echoes = conn.echoes
      PROVE  StreamStep /\ OrderInv'
  BY <1>0, <1>1, CallbackOrder DEF Says
<1>2. CASE UNCHANGED conn
  <2>1. Waiting' \in Grown(Waiting)
    BY <1>0, <1>2, WaitingGrows DEF Inv
  <2> QED BY <1>0, <1>2, <2>1, QuietOrder
<1>3. CASE Closes(conn) /\ revents_ \cap {"hup", "in"} # {}
  <2>1. Downs(conn, conn')
    BY <1>0, <1>3, HandleCloseDowns DEF Closes, Inv, CloseInv
  <2>2. Waiting' \in Grown(Waiting)
    BY <1>0, <2>1, WaitingGrows DEF Inv, Downs
  <2> QED BY <1>0, <2>1, <2>2, QuietOrder DEF Downs
<1>4. CASE conn' = [conn EXCEPT !.err = FALSE]
  <2>1. Works(conn, conn') /\ Moves(conn, conn', <<>>) /\ Same(conn, conn')
    BY <1>0, <1>4, ErrTaken
  <2> QED BY <1>1, <2>1 DEF Same
<1>5. CASE EventOut
  <2>1. Works(conn, conn') /\ Moves(conn, conn', <<>>) /\ conn'.echoes = conn.echoes
    BY <1>0, <1>5, HandleWriteWorks
  <2> QED BY <1>1, <2>1
<1>6. CASE conn' \in Callback([conn EXCEPT !.unread = FALSE])
  <2> DEFINE t == [conn EXCEPT !.unread = FALSE]
  <2>1. t \in ConnType /\ Alike(conn, t) /\ t.echoes = conn.echoes
    BY <1>0 DEF ConnType, Alike
  <2>2. conn' \in Callback(t)
    BY <1>6
  <2> HIDE DEF t
  <2>3. Rec(t)
    BY <1>0, <2>1 DEF Rec, Alike
  <2>4. Works(t, conn') /\ Says(t, conn')
    BY <2>2, <2>3, CallbackWorks DEF Says
  <2>5. Works(conn, conn') /\ Says(conn, conn')
    BY <2>1, <2>4, AlikeFirst DEF Says
  <2> QED BY <1>0, <2>5, CallbackOrder
<1>7. CASE EventIn
  <2>1. "in" \in revents_
    BY <1>7
  <2> QED BY <1>3, <1>4, <1>6, <1>7, <2>1
<1> QED BY <1>2, <1>3, <1>4, <1>5, <1>7

\* A functor leaves the front, and queues at most one that sends nothing.
LEMMA WaitingRuns ==
  ASSUME TypeOK, ran < Len(batch), batch' = batch, ran' = ran + 1,
         \/ conn'.queue = conn.queue
         \/ \E f \in FunctorType : f.call # "send" /\ conn'.queue = Append(conn.queue, f)
  PROVE  /\ Waiting \in Seq(FunctorType) /\ Waiting # <<>> /\ Waiting[1] = batch[ran + 1]
         /\ Tail(Waiting) \in Seq(FunctorType)
         /\ Waiting' \in Grown(Tail(Waiting))
<1>1. /\ ran \in 0..Len(batch) /\ ran + 1 \in 0..Len(batch)
      /\ batch \in Seq(FunctorType) /\ conn.queue \in Seq(FunctorType)
  BY TypeFacts DEF TypeOK
<1>2. /\ Waiting # <<>> /\ Waiting[1] = batch[ran + 1]
      /\ Tail(Waiting) = Todo(batch, ran + 1, conn.queue)
  BY <1>1, TodoFirst DEF Waiting
<1>3. Waiting \in Seq(FunctorType) /\ Tail(Waiting) \in Seq(FunctorType)
  BY <1>1, <1>2, WaitingType, TodoType
<1>4. ASSUME conn'.queue = conn.queue PROVE Waiting' \in Grown(Tail(Waiting))
  <2>1. Waiting' = Todo(batch, ran + 1, conn.queue)
    BY <1>4 DEF Waiting
  <2> QED BY <1>2, <2>1 DEF Grown
<1>5. ASSUME NEW f \in FunctorType, f.call # "send", conn'.queue = Append(conn.queue, f)
      PROVE  Waiting' \in Grown(Tail(Waiting))
  <2>1. Todo(batch, ran + 1, Append(conn.queue, f)) = Append(Todo(batch, ran + 1, conn.queue), f)
    <3> DEFINE k == ran + 1
               q == conn.queue
    <3>1. k \in 0..Len(batch) /\ q \in Seq(FunctorType) /\ batch \in Seq(FunctorType)
      BY <1>1
    <3> HIDE DEF k, q
    <3>2. Todo(batch, k, Append(q, f)) = Append(Todo(batch, k, q), f)
      BY <3>1, TodoAppend
    <3> QED BY <3>2 DEF k, q
  <2>2. Waiting' = Append(Tail(Waiting), f)
    BY <1>2, <1>5, <2>1 DEF Waiting
  <2> QED BY <1>5, <2>2 DEF Grown
<1> QED BY <1>2, <1>3, <1>4, <1>5

\* The message of the functor that runs goes in whole, behind all of its sender's
\* before it, or not at all.
LEMMA SentOrder ==
  ASSUME Inv, OrderInv, RunFunctor, batch[ran + 1].call = "send"
  PROVE  StreamStep /\ OrderInv'
<1> USE DEF RunFunctor, userVars, serverVars
<1> DEFINE f == batch[ran + 1]
           m == Message(f.from, f.no)
           w == Waiting
           S == Range(conn.wire \o conn.output)
           T == Range(conn'.wire \o conn'.output)
<1>1. /\ Rec(conn) /\ S \subseteq Messages
      /\ f \in FunctorType /\ FunctorOK(f)
  BY InvRec, StreamType, NextFunctor, TypeFacts DEF Inv, FunctorInv
<1>2. /\ f.from \in Senders /\ f.from \in Users /\ f.no \in 1..(MaxCalls + MaxEchoes)
  <2>1. f.no \in 0..MaxCalls /\ f.no # 0 /\ f.from \in Senders /\ f.from \in Users
    BY <1>1 DEF FunctorOK, FunctorType, Raw
  <2> QED BY <2>1, BoundAssumption
<1>3. m \in Messages /\ m.from = f.from /\ m.no = f.no
  BY <1>2 DEF Message, Messages
<1>4. Bytes(f.from, f.no) \in Seq(Messages) /\ Bytes(f.from, f.no) # <<>>
  BY <1>2, BytesAre
<1>5. conn' = SendInLoop(conn, Bytes(f.from, f.no))
  BY DEF Outcomes
<1>6. /\ Works(conn, conn') /\ Same(conn, conn')
      /\ Moves(conn, conn', <<>>) \/ Moves(conn, conn', Bytes(f.from, f.no))
  BY <1>1, <1>4, <1>5, SendWorks
<1>7. T \subseteq S \cup {m}
  <2>1. CASE Moves(conn, conn', <<>>)
    BY <1>1, <2>1, NothingMoves
  <2>2. CASE Moves(conn, conn', Bytes(f.from, f.no))
    <3>1. T \subseteq S \cup Range(Bytes(f.from, f.no))
      BY <1>1, <1>4, <2>2, MovesRange
    <3> QED BY <3>1, BytesRange
  <2> QED BY <1>6, <2>1, <2>2
<1>8. /\ w \in Seq(FunctorType) /\ w # <<>> /\ w[1] = f
      /\ Tail(w) \in Seq(FunctorType) /\ Waiting' \in Grown(Tail(w))
  <2>1. \/ conn'.queue = conn.queue
        \/ \E g \in FunctorType : g.call # "send" /\ conn'.queue = Append(conn.queue, g)
    BY <1>6, AnnouncesOne DEF Works
  <2>2. TypeOK /\ ran < Len(batch) /\ batch' = batch /\ ran' = ran + 1
    BY DEF Inv
  <2> QED BY <2>1, <2>2, WaitingRuns
<1>9. Order(S, w, calls, user, conn.echoes)
  BY DEF OrderInv
<1>10. Bytes(f.from, f.no) = [i \in 1..MsgLen |-> m]
  BY DEF Bytes
<1>11. w[1] \in Range(w)
  BY <1>8, TailFacts
<1>12. f.call = "send" /\ user' = user /\ calls' = calls /\ conn'.echoes = conn.echoes
  BY <1>6 DEF Same
<1>13. OrderInv' <=> Order(T, Waiting', calls', user', conn'.echoes)
  BY DEF OrderInv
<1>14. StreamStep <=>
         \/ Moves(conn, conn', <<>>)
         \/ \E x \in Messages : Stream!InTurn(x) /\ Moves(conn, conn', [i \in 1..MsgLen |-> x])
  BY DEF StreamStep
<1>15. Stream!InTurn(m) <=> \A b \in S : b.from = m.from => b.no < m.no
  BY DEF Stream!InTurn, Stream!Stream, Stream!Range, Range
<1> HIDE DEF f, m, w, S, T
<1>16. Order(T, Tail(w), calls, user, conn.echoes)
  BY <1>7, <1>8, <1>9, <1>12, OrderSent DEF m
<1>17. Order(T, Waiting', calls, user, conn.echoes)
  BY <1>8, <1>16, GrownOrder
<1>18. OrderInv'
  BY <1>12, <1>13, <1>17
<1>19. ASSUME NEW b \in S, b.from = m.from PROVE b.no < m.no
  BY <1>3, <1>8, <1>9, <1>11, <1>12, <1>19 DEF Order, InStream, SendOf
<1>20. StreamStep
  BY <1>3, <1>6, <1>10, <1>14, <1>15, <1>19
<1> QED BY <1>18, <1>20

LEMMA RunOrder ==
  ASSUME Inv, OrderInv, RunFunctor
  PROVE  StreamStep /\ OrderInv'
<1> USE DEF RunFunctor, userVars, serverVars
<1> DEFINE f == batch[ran + 1]
           w == Waiting
           S == Range(conn.wire \o conn.output)
           T == Range(conn'.wire \o conn'.output)
<1>1. /\ Rec(conn) /\ conn.echoes \in Nat
      /\ UNCHANGED <<batch, user, calls>> /\ ran' = ran + 1 /\ ran < Len(batch)
  <2>1. Rec(conn) /\ conn \in ConnType
    BY InvRec DEF Rec
  <2>2. conn.echoes \in Nat
    BY <2>1, Fields, BoundAssumption
  <2> QED BY <2>1, <2>2
<1>2. Order(S, w, calls, user, conn.echoes)
  BY DEF OrderInv
<1>3. OrderInv' <=> Order(T, Waiting', calls', user', conn'.echoes)
  BY DEF OrderInv
<1>4. ASSUME Says(conn, conn'),
             \/ conn'.queue = conn.queue
             \/ \E g \in FunctorType : g.call # "send" /\ conn'.queue = Append(conn.queue, g)
      PROVE  StreamStep /\ OrderInv'
  <2>1. /\ w \in Seq(FunctorType) /\ w # <<>>
        /\ Tail(w) \in Seq(FunctorType) /\ Waiting' \in Grown(Tail(w))
    BY <1>1, <1>4, WaitingRuns DEF Inv
  <2> HIDE DEF w, S
  <2>2. Order(S, Tail(w), calls, user, conn.echoes)
    BY <1>2, <2>1, OrderTail
  <2>3. Order(T, Tail(w), calls, user, conn'.echoes)
    BY <1>1, <1>4, <2>2, SaysOrder DEF S
  <2> HIDE DEF T
  <2>4. Order(T, Waiting', calls, user, conn'.echoes)
    BY <2>1, <2>3, GrownOrder
  <2> QED BY <1>1, <1>3, <1>4, <2>4, SaysStep
<1>5. CASE f.call = "send"
  BY <1>5, SentOrder
<1>6. CASE f.call = "shutdown"
  <2>1. conn' = ShutdownInLoop(conn)
    BY <1>6 DEF Outcomes
  <2>2. /\ conn'.queue = conn.queue /\ conn'.wire = conn.wire /\ conn'.output = conn.output
        /\ conn'.echoes = conn.echoes
    BY <1>1, <2>1, ShutdownInLoopEnds DEF Ends
  <2> QED BY <1>1, <1>4, <2>2, SameMoves DEF Says
<1>7. CASE f.call = "destroyed"
  <2>1. conn' = ConnectionDestroyed(conn)
    BY <1>7 DEF Outcomes
  <2>2. /\ conn'.queue = conn.queue /\ conn'.wire = conn.wire /\ conn'.output = conn.output
        /\ conn'.echoes = conn.echoes
    BY <1>1, <2>1, DestroyedDowns DEF Downs
  <2> QED BY <1>1, <1>4, <2>2, SameMoves DEF Says
<1>8. CASE f.call \notin {"send", "shutdown", "destroyed"}
  <2>1. conn' \in Callback(conn)
    BY <1>8 DEF Outcomes
  <2>2. Works(conn, conn') /\ Says(conn, conn')
    BY <1>1, <2>1, CallbackWorks DEF Says
  <2> QED BY <1>4, <2>2, AnnouncesOne DEF Works
<1> QED BY <1>5, <1>6, <1>7, <1>8

LEMMA UserOrder ==
  ASSUME Inv, OrderInv, NEW u \in Users,
         Call(u, "send") \/ Call(u, "shutdown") \/ FinishCall(u) \/ Release(u)
  PROVE  StreamStep /\ OrderInv'
<1> USE DEF Goes, loopVars
<1> DEFINE S == Range(conn.wire \o conn.output)
<1>1. /\ Rec(conn) /\ conn \in ConnType /\ TypeOK
      /\ calls \in [Users -> Nat] /\ user \in [Users -> Doing]
      /\ Waiting \in Seq(FunctorType) /\ Waiting \in Grown(Waiting)
  <2>1. calls \in [Users -> Nat]
    BY BoundAssumption DEF Inv, TypeOK
  <2> QED BY <2>1, InvRec, WaitingType DEF Rec, Inv, TypeOK, Grown, Doing
<1>2. CASE Release(u)
  <2>1. UNCHANGED <<conn, Waiting, user, calls>>
    BY <1>2 DEF Release, Waiting
  <2> QED BY <1>1, <2>1, QuietOrder
<1>3. ASSUME NEW call \in {"send", "shutdown"}, Call(u, call)
      PROVE  StreamStep /\ OrderInv'
  <2>1. /\ UNCHANGED <<conn, Waiting>>
        /\ calls' = [calls EXCEPT ![u] = @ + 1] /\ user' = [user EXCEPT ![u] = call]
    BY <1>3 DEF Call, Waiting
  <2>2. Order(S, Waiting, calls, user, conn.echoes) /\ S \subseteq Messages
    BY <1>1, StreamType DEF OrderInv
  <2>3. OrderInv' <=> Order(S, Waiting, calls', user', conn.echoes)
    BY <2>1 DEF OrderInv
  <2> HIDE DEF S
  <2>4. Order(S, Waiting, calls', user', conn.echoes)
    BY <1>1, <2>1, <2>2, OrderCalled
  <2> QED BY <1>1, <2>1, <2>3, <2>4, SameMoves DEF StreamStep
<1>4. CASE ShutdownSet(u)
  <2>1. /\ conn'.wire = conn.wire /\ conn'.output = conn.output
        /\ conn'.echoes = conn.echoes /\ conn'.queue = conn.queue
    BY <1>1, <1>4 DEF ShutdownSet, ConnType
  <2>2. Waiting' = Waiting /\ calls' = calls /\ user' = [user EXCEPT ![u] = "set"]
    BY <1>4, <2>1 DEF ShutdownSet, Waiting
  <2> QED BY <1>1, <2>1, <2>2, QuietOrder DEF Doing
<1>5. ASSUME NEW f, conn' = Queue(conn, f)
      PROVE  /\ conn'.wire = conn.wire /\ conn'.output = conn.output
             /\ conn'.echoes = conn.echoes /\ conn'.queue = Append(conn.queue, f)
  BY <1>1, <1>5 DEF Queue, ConnType
<1>6. ASSUME NEW call \in Raw, user[u] # "idle"
      PROVE  /\ Functor(call, u, calls[u]) \in FunctorType
             /\ Functor(call, u, calls[u]).call = call /\ calls[u] # 0
  BY <1>1, <1>6 DEF Functor, FunctorType, Raw, Calls, Senders, Inv, TypeOK, UserInv
<1>7. CASE ShutdownQueue(u)
  <2> DEFINE f == Functor("shutdown", u, calls[u])
  <2>1. /\ f \in FunctorType /\ f.call # "send" /\ conn' = Queue(conn, f)
        /\ batch' = batch /\ ran' = ran /\ calls' = calls /\ user' = [user EXCEPT ![u] = "idle"]
    BY <1>6, <1>7 DEF ShutdownQueue, Raw
  <2> HIDE DEF f
  <2>2. Waiting' \in Grown(Waiting)
    BY <1>1, <1>5, <2>1, WaitingGrows
  <2> QED BY <1>5, <2>1, <2>2, QuietOrder DEF Doing
<1>8. CASE SendQueue(u)
  <2> DEFINE f == Functor("send", u, calls[u])
  <2>1. /\ f \in FunctorType /\ conn' = Queue(conn, f) /\ calls[u] # 0 /\ user[u] = "send"
        /\ batch' = batch /\ ran' = ran /\ calls' = calls /\ user' = [user EXCEPT ![u] = "idle"]
    BY <1>6, <1>8 DEF SendQueue, Raw
  <2>2. Order(S, Waiting, calls, user, conn.echoes)
    BY DEF OrderInv
  <2>3. Order(S, Append(Waiting, f), calls, user', conn.echoes)
    <3> HIDE DEF S
    <3> QED BY <1>1, <2>1, <2>2, OrderQueued
  <2>4. Waiting' = Append(Waiting, f)
    <3> HIDE DEF f
    <3>1. ran \in 0..Len(batch) /\ conn'.queue = Append(conn.queue, f)
      BY <1>1, <1>5, <2>1 DEF TypeOK
    <3> DEFINE q == conn.queue
    <3>2. q \in Seq(FunctorType) /\ batch \in Seq(FunctorType) /\ f \in FunctorType
      BY <1>1, <2>1, TypeFacts
    <3> HIDE DEF q
    <3>3. Todo(batch, ran, Append(q, f)) = Append(Todo(batch, ran, q), f)
      BY <3>1, <3>2, TodoAppend
    <3> QED BY <2>1, <3>1, <3>3 DEF Waiting, q
  <2>5. OrderInv' <=> Order(S, Append(Waiting, f), calls, user', conn.echoes)
    <3> HIDE DEF f
    <3> QED BY <1>5, <2>1, <2>4 DEF OrderInv
  <2> QED BY <1>1, <1>5, <2>1, <2>3, <2>5, SameMoves DEF StreamStep
<1> QED BY <1>2, <1>3, <1>4, <1>7, <1>8 DEF FinishCall

LEMMA OtherOrder ==
  ASSUME Inv, OrderInv, \/ ServerAnswers \/ ServerDtor \/ PeerData \/ PeerFin \/ PeerRst \/ PeerReads
                        \/ Poll \/ DrainBegin \/ DrainEnd \/ UNCHANGED vars
  PROVE  StreamStep /\ OrderInv'
<1> USE DEF loopVars, userVars
<1>1. /\ conn \in ConnType /\ TypeOK /\ Waiting \in Grown(Waiting)
  BY InvRec DEF Rec, Inv, Grown
<1>2. CASE ServerAnswers \/ ServerDtor
  <2> DEFINE f == LoopFunctor("destroyed")
  <2>1. f \in FunctorType /\ f.call # "send"
    BY DestroyedType DEF LoopFunctor, Functor
  <2>2. conn' = Queue(conn, f) /\ batch' = batch /\ ran' = ran /\ calls' = calls /\ user' = user
    BY <1>2 DEF ServerAnswers, ServerDtor
  <2> HIDE DEF f
  <2>3. /\ conn'.wire = conn.wire /\ conn'.output = conn.output
        /\ conn'.echoes = conn.echoes /\ conn'.queue = Append(conn.queue, f)
    BY <1>1, <2>2 DEF Queue, ConnType
  <2>4. Waiting' \in Grown(Waiting)
    BY <1>1, <2>1, <2>2, <2>3, WaitingGrows
  <2> QED BY <2>2, <2>3, <2>4, QuietOrder
<1>3. CASE PeerData \/ PeerFin \/ PeerRst \/ PeerReads
  <2>1. Alike(conn, conn') /\ conn'.echoes = conn.echoes
    BY <1>3, PeerInv
  <2>2. UNCHANGED <<batch, ran, calls, user>>
    BY <1>3 DEF PeerData, PeerFin, PeerRst, PeerReads, Outside
  <2>3. Waiting' \in Grown(Waiting)
    BY <1>1, <2>1, <2>2, WaitingGrows DEF Alike
  <2> QED BY <2>1, <2>2, <2>3, QuietOrder DEF Alike
<1>4. CASE Poll \/ UNCHANGED vars
  <2>1. UNCHANGED <<conn, Waiting, calls, user>>
    BY <1>4 DEF Poll, vars, Waiting
  <2> QED BY <1>1, <2>1, QuietOrder
<1>5. CASE DrainBegin \/ DrainEnd
  <2>1. UNCHANGED <<calls, user>>
    BY <1>5 DEF DrainBegin, DrainEnd
  <2> QED BY <1>1, <1>5, <2>1, DrainWaiting, QuietOrder
<1> QED BY <1>2, <1>3, <1>4, <1>5

LEMMA OrderNext ==
  ASSUME Inv, OrderInv, [Next]_vars
  PROVE  StreamStep /\ OrderInv'
  BY EventOrder, RunOrder, UserOrder, OtherOrder DEF Next, LoopStep

LEMMA OrderInit == Init => OrderInv
<1> SUFFICES ASSUME Init PROVE OrderInv
  OBVIOUS
<1>1. /\ conn.wire = <<>> /\ conn.output = <<>> /\ conn.queue = <<>>
      /\ batch = <<>> /\ ran = 0
  BY InitConn DEF Init
<1>2. <<>> \o <<>> = <<>> /\ Todo(<<>>, 0, <<>>) = <<>>
  BY EmptySeq, ConcatEmptySeq, TodoSwap
<1>3. Range(conn.wire \o conn.output) = {} /\ Waiting = <<>>
  BY <1>1, <1>2, RangeEmpty DEF Waiting
<1>4. Len(<<>>) = 0
  BY EmptySeq
<1> QED BY <1>3, <1>4, RangeEmpty DEF OrderInv, Order, Sorted

\* A connection that has gone down stays down.
LEMMA DownStays ==
  ASSUME Inv, [Next]_vars, Down PROVE Down'
<1>1. server # "has" => server' # "has"
  BY DEF Next, vars, LoopStep, Poll, EventHup, EventErr, EventIn, EventOut, Handles, DrainBegin,
         RunFunctor, DrainEnd, Call, FinishCall, SendQueue, ShutdownSet, ShutdownQueue, Release,
         Goes, ServerAnswers, ServerDtor, PeerData, PeerFin, PeerRst, PeerReads, Outside, serverVars
<1>2. conn'.closes >= conn.closes /\ conn.closes \in Nat /\ conn'.closes \in Nat
  <2>1. Inv'
    BY InvNext
  <2>2. conn.closes \in 0..MaxCloses /\ conn'.closes \in 0..MaxCloses
    <3>1. conn \in ConnType /\ conn' \in ConnType
      BY <2>1 DEF Inv, TypeOK
    <3> QED BY <3>1, Fields
  <2>3. conn'.closes = conn.closes \/ conn'.closes >= conn.closes
    BY StepShape DEF Works, Quiet
  <2> QED BY <2>2, <2>3
<1> QED BY <1>1, <1>2 DEF Down

-----------------------------------------------------------------------------
\* The connection implements OutputStream: however many threads send, however
\* the socket takes the bytes, and whatever waits in output_buffer_, messages
\* reach the wire whole and in the order in which their threads sent them, and
\* the FIN behind them (tcp_connection.cc: send, send_in_loop, handle_write).
THEOREM StreamKept == Spec => StreamInOrder
<1>1. Init => Stream!Init
  BY InitConn DEF Init, Stream!Init, Down
<1>2. ASSUME Inv, OrderInv, [Next]_vars
      PROVE  Stream!Next
  <2>1. StreamStep
    BY <1>2, OrderNext
  <2>2. \/ Stream!Move(<<>>)
        \/ \E m \in Messages : Stream!InTurn(m) /\ Stream!Move([i \in 1..MsgLen |-> m])
    BY <2>1 DEF StreamStep, Moves, Stream!Move
  <2>3. /\ conn'.shut \in {conn.shut, TRUE}
        /\ (conn'.shut /\ ~conn.shut) => (conn'.output = <<>> \/ Down)
    <3>1. conn.shut \in BOOLEAN /\ conn'.shut \in BOOLEAN
      <4>1. Inv'
        BY <1>2, InvNext
      <4> QED BY <1>2, <4>1 DEF Inv, TypeOK, ConnType
    <3>2. CASE Works(conn, conn')
      BY <1>2, <3>1, <3>2 DEF Works, Inv, LinkInv
    <3>3. CASE Quiet(conn, conn')
      BY <3>1, <3>3 DEF Quiet
    <3> QED BY <1>2, <3>2, <3>3, StepShape
  <2>4. Down' \in {Down, TRUE}
    BY <1>2, DownStays DEF Down
  <2> QED BY <2>2, <2>3, <2>4 DEF Stream!Next
<1>3. Inv /\ OrderInv /\ [Next]_vars => OrderInv'
  BY OrderNext
<1>4. Inv /\ OrderInv /\ [Next]_vars => [Stream!Next]_Stream!vars
  BY <1>2
<1> QED BY <1>1, <1>3, <1>4, InvAlways, OrderInit, PTL DEF Spec, StreamInOrder, Stream!Spec
=============================================================================
