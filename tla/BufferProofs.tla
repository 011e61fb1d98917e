---------------------------- MODULE BufferProofs ----------------------------
(***************************************************************************)
(* Proofs about Buffer for every size and every sequence of calls, as long *)
(* as no read is larger than the room of the buffer (Burst = FALSE).       *)
(***************************************************************************)
EXTENDS Buffer, SequenceTheorems, TLAPS

\* The vector stays below this size, which is why no difference wraps round.
MaxLen == k_initial_size + k_cheap_prepend + 2 * MaxBytes

Data == 0..MaxBytes
Record == [vec : Seq(Data), r : Nat, w : Nat, bad : BOOLEAN]

\* A buffer in order: its indices are, and nothing was written outside.
Good(b) ==
  /\ b \in Record
  /\ k_initial_size <= Len(b.vec)
  /\ Len(b.vec) <= MaxLen
  /\ k_cheap_prepend <= b.r
  /\ b.r <= b.w
  /\ b.w <= Len(b.vec)
  /\ ~b.bad

Inv ==
  /\ Good(State)
  /\ put \in 0..MaxBytes
  /\ writer_idx_ - reader_idx_ <= put

-----------------------------------------------------------------------------
LEMMA ModSmall == ASSUME NEW a \in Nat, NEW n \in Nat, a < n PROVE a % n = a
  OBVIOUS

\* In a buffer that is in order, the size_t differences are the true ones.
LEMMA Differences ==
  ASSUME NEW b, Good(b)
  PROVE  /\ readable_bytes(b) = b.w - b.r
         /\ writable_bytes(b) = Len(b.vec) - b.w
         /\ b.w - b.r \in Nat
         /\ Len(b.vec) - b.w \in Nat
         /\ b.vec \in Seq(Data) /\ Len(b.vec) \in Nat
         /\ b.r \in Nat /\ b.w \in Nat
<1>1. b.vec \in Seq(Data) /\ Len(b.vec) \in Nat /\ b.r \in Nat /\ b.w \in Nat
  BY DEF Good, Record
<1>2. /\ k_cheap_prepend \in Nat /\ k_initial_size \in Nat /\ SizeT \in Nat /\ MaxBytes \in Nat
      /\ MaxLen < SizeT
  BY SizeAssumption, BoundAssumption DEF MaxLen
<1>3. b.w - b.r \in Nat /\ b.w - b.r < SizeT /\ Len(b.vec) - b.w \in Nat /\ Len(b.vec) - b.w < SizeT
  BY <1>1, <1>2 DEF Good, MaxLen
<1>4. readable_bytes(b) = b.w - b.r
  BY <1>2, <1>3, ModSmall DEF readable_bytes
<1>5. writable_bytes(b) = Len(b.vec) - b.w
  BY <1>2, <1>3, ModSmall DEF writable_bytes
<1> QED BY <1>1, <1>3, <1>4, <1>5

\* A vector given element by element.
LEMMA Vector ==
  ASSUME NEW n \in Nat, NEW f, f = [i \in 1..n |-> f[i]], \A i \in 1..n : f[i] \in Data
  PROVE  f \in Seq(Data) /\ Len(f) = n
<1>1. f \in [1..n -> Data]
  OBVIOUS
<1> QED BY <1>1

LEMMA RetrieveGood ==
  ASSUME NEW b, Good(b), NEW len \in Nat
  PROVE  /\ Good(retrieve(b, len))
         /\ retrieve(b, len).w - retrieve(b, len).r <= b.w - b.r
<1> DEFINE c == retrieve(b, len)
<1> SUFFICES Good(c) /\ c.w - c.r <= b.w - b.r
  OBVIOUS
<1>0. k_cheap_prepend \in Nat /\ k_initial_size \in Nat /\ k_cheap_prepend <= k_initial_size
  BY SizeAssumption
<1>1. CASE len < readable_bytes(b)
  <2>1. c = [b EXCEPT !.r = b.r + len]
    BY <1>1 DEF retrieve
  <2>2. c \in Record /\ c.vec = b.vec /\ c.r = b.r + len /\ c.w = b.w /\ c.bad = b.bad
    BY <2>1, Differences DEF Good, Record
  <2> HIDE DEF c
  <2> QED BY <1>0, <1>1, <2>2, Differences DEF Good
<1>2. CASE ~(len < readable_bytes(b))
  <2>1. c = [b EXCEPT !.r = k_cheap_prepend, !.w = k_cheap_prepend]
    BY <1>2 DEF retrieve, retrieve_all
  <2>2. /\ c \in Record /\ c.vec = b.vec /\ c.bad = b.bad
        /\ c.r = k_cheap_prepend /\ c.w = k_cheap_prepend
    BY <1>0, <2>1 DEF Good, Record
  <2> HIDE DEF c
  <2> QED BY <1>0, <2>2, Differences DEF Good
<1> QED BY <1>1, <1>2

\* The arithmetic of a vector that grows, and of bytes that move down.
LEMMA Grows ==
  ASSUME NEW len \in Nat, NEW L \in Nat, NEW r \in Nat, NEW w \in Nat, NEW p \in Nat,
         NEW m \in Nat, NEW i \in Nat,
         w <= L, w - r + 2 * len <= 2 * m, (L - w) + r < len + p
  PROVE  w + len <= i + p + 2 * m
  OBVIOUS

LEMMA Fits ==
  ASSUME NEW len \in Nat, NEW L \in Nat, NEW r \in Nat, NEW w \in Nat, NEW p \in Nat,
         ~((L - w) + r < len + p)
  PROVE  len <= L - (p + (w - r))
  OBVIOUS

LEMMA MovesDown ==
  ASSUME NEW L \in Nat, NEW r \in Nat, NEW w \in Nat, NEW p \in Nat, NEW i \in Nat,
         p <= r, r <= w, w <= L, i \in (p + 1)..(p + (w - r))
  PROVE  r + i - p \in 1..L
  OBVIOUS

\* What make_space does: the room is there, and the readable bytes are as many.
LEMMA SpaceGood ==
  ASSUME NEW b, Good(b), NEW len \in Nat,
         b.w - b.r + 2 * len <= 2 * MaxBytes,
         Len(b.vec) - b.w < len
  PROVE  /\ Good(make_space(b, len))
         /\ make_space(b, len).w - make_space(b, len).r = b.w - b.r
         /\ len <= Len(make_space(b, len).vec) - make_space(b, len).w
<1> DEFINE c == make_space(b, len)
           n == b.w - b.r
<1> SUFFICES Good(c) /\ c.w - c.r = n /\ len <= Len(c.vec) - c.w
  OBVIOUS
<1>0. /\ k_cheap_prepend \in Nat /\ k_initial_size \in Nat /\ MaxBytes \in Nat
      /\ k_cheap_prepend <= k_initial_size
  BY SizeAssumption, BoundAssumption
<1>1. /\ readable_bytes(b) = n /\ writable_bytes(b) = Len(b.vec) - b.w /\ prependable_bytes(b) = b.r
      /\ n \in Nat /\ Len(b.vec) \in Nat /\ b.vec \in Seq(Data) /\ b.r \in Nat /\ b.w \in Nat
      /\ b.w <= Len(b.vec)
  BY Differences DEF prependable_bytes, Good
<1>2. CASE writable_bytes(b) + prependable_bytes(b) < len + k_cheap_prepend
  <2> DEFINE v == resize(b.vec, b.w + len)
  <2>1. c = [b EXCEPT !.vec = v]
    BY <1>2 DEF make_space
  <2>2. v \in Seq(Data) /\ Len(v) = b.w + len
    <3>1. ASSUME NEW i \in 1..(b.w + len) PROVE v[i] \in Data
      <4>1. CASE i <= Len(b.vec)
        BY <1>1, <4>1 DEF resize
      <4>2. CASE ~(i <= Len(b.vec))
        BY <1>0, <4>2 DEF resize, Data
      <4> QED BY <4>1, <4>2
    <3>2. b.w + len \in Nat
      BY <1>1
    <3>3. v = [i \in 1..(b.w + len) |-> v[i]]
      BY DEF resize
    <3> HIDE DEF v
    <3> QED BY <3>1, <3>2, <3>3, Vector
  <2> HIDE DEF v
  <2>3. c \in Record /\ c.vec = v /\ c.r = b.r /\ c.w = b.w /\ c.bad = b.bad
    BY <2>1, <2>2 DEF Good, Record
  <2>4. b.w + len <= MaxLen
    BY <1>0, <1>1, <1>2, Grows DEF MaxLen
  <2>5. Len(b.vec) < b.w + len
    BY <1>1
  <2> HIDE DEF c
  <2> QED BY <1>0, <1>1, <2>2, <2>3, <2>4, <2>5 DEF Good
<1>3. CASE ~(writable_bytes(b) + prependable_bytes(b) < len + k_cheap_prepend)
  <2> DEFINE v == move_down(b).vec
  <2>1. c = move_down(b)
    BY <1>3 DEF make_space
  <2>2. v \in Seq(Data) /\ Len(v) = Len(b.vec)
    <3>1. v = [i \in 1..Len(b.vec) |->
                 IF i \in (k_cheap_prepend + 1)..(k_cheap_prepend + n)
                 THEN b.vec[b.r + i - k_cheap_prepend] ELSE b.vec[i]]
      BY <1>1 DEF move_down, Good, Record
    <3>2. ASSUME NEW i \in 1..Len(b.vec) PROVE v[i] \in Data
      <4>1. CASE i \in (k_cheap_prepend + 1)..(k_cheap_prepend + n)
        <5>1. b.r + i - k_cheap_prepend \in 1..Len(b.vec)
          <6>1. k_cheap_prepend <= b.r /\ b.r <= b.w /\ i \in Nat
            BY DEF Good
          <6> QED BY <1>0, <1>1, <4>1, <6>1, MovesDown
        <5> QED BY <1>1, <3>1, <4>1, <5>1
      <4> QED BY <1>1, <3>1, <4>1
    <3>3. v = [i \in 1..Len(b.vec) |-> v[i]]
      BY <3>1
    <3> HIDE DEF v
    <3> QED BY <1>1, <3>2, <3>3, Vector
  <2>3. c = [b EXCEPT !.vec = v, !.r = k_cheap_prepend, !.w = k_cheap_prepend + n]
    BY <1>1, <2>1 DEF move_down, Good, Record
  <2> HIDE DEF c, v
  <2>4. /\ c \in Record /\ c.vec = v /\ c.bad = b.bad
        /\ c.r = k_cheap_prepend /\ c.w = k_cheap_prepend + n
    <3>1. k_cheap_prepend + n \in Nat
      BY <1>0, <1>1
    <3> HIDE DEF n
    <3> QED BY <1>0, <2>2, <2>3, <3>1 DEF Good, Record
  <2>5. k_cheap_prepend + n <= Len(b.vec)
    BY <1>0, <1>1 DEF Good
  <2>6. len <= Len(b.vec) - (k_cheap_prepend + n)
    <3>1. ~(Len(b.vec) - b.w + b.r < len + k_cheap_prepend)
      BY <1>1, <1>3
    <3> QED BY <1>0, <1>1, <3>1, Fits
  <2>7. c.w - c.r = n /\ k_cheap_prepend <= c.r /\ c.r <= c.w
    BY <1>0, <1>1, <2>4
  <2>8. /\ Len(c.vec) = Len(b.vec) /\ k_initial_size <= Len(b.vec) /\ Len(b.vec) <= MaxLen
        /\ ~c.bad
    BY <2>2, <2>4 DEF Good
  <2>9. c.w <= Len(c.vec) /\ len <= Len(c.vec) - c.w
    BY <2>4, <2>5, <2>6, <2>8
  <2>10. Good(c)
    BY <2>4, <2>7, <2>8, <2>9 DEF Good
  <2> QED BY <2>7, <2>9, <2>10
<1> QED BY <1>2, <1>3

LEMMA EnsureGood ==
  ASSUME NEW b, Good(b), NEW len \in Nat, b.w - b.r + 2 * len <= 2 * MaxBytes
  PROVE  LET c == ensure_writeable_bytes(b, len)
         IN Good(c) /\ c.w - c.r = b.w - b.r /\ len <= Len(c.vec) - c.w
BY SpaceGood, Differences DEF ensure_writeable_bytes

\* A write that fits moves the writer and nothing else.
LEMMA WriteGood ==
  ASSUME NEW b, Good(b), NEW data \in Seq(Data), Len(data) <= Len(b.vec) - b.w
  PROVE  LET c == write_at(b, data)
         IN Good(c) /\ c.r = b.r /\ c.w = b.w + Len(data)
<1> DEFINE c == write_at(b, data)
<1> SUFFICES Good(c) /\ c.r = b.r /\ c.w = b.w + Len(data)
  OBVIOUS
<1> DEFINE
  v == [i \in 1..Len(b.vec) |-> IF i \in (b.w + 1)..(b.w + Len(data))
                                        THEN data[i - b.w] ELSE b.vec[i]]
<1>0. /\ SizeT \in Nat /\ MaxLen < SizeT /\ Len(data) \in Nat
      /\ Len(b.vec) \in Nat /\ b.vec \in Seq(Data) /\ b.r \in Nat /\ b.w \in Nat /\ MaxLen \in Nat
  BY SizeAssumption, BoundAssumption, Differences DEF MaxLen
<1>1. b.w + Len(data) <= Len(b.vec)
  BY <1>0
<1>2. (b.w + Len(data)) % SizeT = b.w + Len(data)
  <2>1. b.w + Len(data) \in Nat /\ b.w + Len(data) < SizeT
    BY <1>0, <1>1 DEF Good
  <2> QED BY <1>0, <2>1, ModSmall
<1>3. v \in Seq(Data) /\ Len(v) = Len(b.vec)
  <2>1. ASSUME NEW i \in 1..Len(b.vec) PROVE v[i] \in Data
    <3>1. CASE i \in (b.w + 1)..(b.w + Len(data))
      <4>1. i - b.w \in 1..Len(data)
        BY <1>0, <3>1
      <4> QED BY <3>1, <4>1
    <3> QED BY <1>0, <3>1
  <2>2. v = [i \in 1..Len(b.vec) |-> v[i]]
    OBVIOUS
  <2> HIDE DEF v
  <2> QED BY <1>0, <2>1, <2>2, Vector
<1>4. c = [b EXCEPT !.vec = v, !.w = b.w + Len(data), !.bad = FALSE]
  BY <1>1, <1>2 DEF write_at, Good, Record
<1> HIDE DEF v, c
<1>5. c \in Record /\ c.vec = v /\ c.r = b.r /\ c.w = b.w + Len(data) /\ c.bad = FALSE
  <2>1. b.w + Len(data) \in Nat
    BY <1>0
  <2> QED BY <1>3, <1>4, <2>1 DEF Good, Record
<1>6. Good(c)
  BY <1>0, <1>1, <1>3, <1>5 DEF Good
<1> QED BY <1>5, <1>6

-----------------------------------------------------------------------------
LEMMA BytesAre ==
  ASSUME NEW n \in Nat, put \in 0..MaxBytes, put + n <= MaxBytes
  PROVE  Bytes(n) \in Seq(Data) /\ Len(Bytes(n)) = n
<1> DEFINE f == Bytes(n)
<1> SUFFICES f \in Seq(Data) /\ Len(f) = n
  OBVIOUS
<1>1. f = [i \in 1..n |-> f[i]]
  BY DEF Bytes
<1>2. ASSUME NEW i \in 1..n PROVE f[i] \in Data
  BY <1>2, BoundAssumption DEF Bytes, Data
<1> HIDE DEF f
<1> QED BY <1>1, <1>2, Vector

\* The variables after a call are the record it was given.
LEMMA BecomesState ==
  ASSUME NEW b, Becomes(b), Good(b)
  PROVE  Good(State)' /\ writer_idx_' = b.w /\ reader_idx_' = b.r
<1>1. b = [vec |-> b.vec, r |-> b.r, w |-> b.w, bad |-> b.bad]
  BY DEF Good, Record
<1>2. State' = b
  BY <1>1 DEF Becomes, State
<1> QED BY <1>2 DEF Becomes, Good

LEMMA InvInit == Init => Inv
<1> SUFFICES ASSUME Init PROVE Inv
  OBVIOUS
<1>0. /\ k_cheap_prepend \in Nat /\ k_initial_size \in Nat /\ MaxBytes \in Nat
      /\ k_cheap_prepend <= k_initial_size
  BY SizeAssumption, BoundAssumption
<1>1. buffer_ \in Seq(Data) /\ Len(buffer_) = k_initial_size
  <2>1. buffer_ = [i \in 1..k_initial_size |-> buffer_[i]]
    BY DEF Init
  <2>2. \A i \in 1..k_initial_size : buffer_[i] \in Data
    BY <1>0 DEF Init, Data
  <2> QED BY <1>0, <2>1, <2>2, Vector
<1>2. State \in Record
  BY <1>0, <1>1 DEF Init, State, Record
<1>3. Good(State)
  BY <1>0, <1>1, <1>2 DEF Init, State, Good, MaxLen
<1> QED BY <1>0, <1>3 DEF Init, Inv

\* What is read off Inv.
LEMMA InvFacts ==
  ASSUME Inv
  PROVE  /\ Good(State) /\ put \in Nat /\ MaxBytes \in Nat /\ put <= MaxBytes
         /\ State.w = writer_idx_ /\ State.r = reader_idx_ /\ State.vec = buffer_
         /\ writer_idx_ \in Nat /\ reader_idx_ \in Nat
         /\ writer_idx_ - reader_idx_ <= put
BY BoundAssumption, Differences DEF Inv, State

\* The step of every call that puts bytes in: room is made, then it is filled.
LEMMA AppendInv ==
  ASSUME Inv, NEW n \in Nat, AppendData(n)
  PROVE  Inv'
<1> DEFINE e == ensure_writeable_bytes(State, n)
           c == append(State, Bytes(n))
<1>0. Good(State) /\ put \in Nat /\ MaxBytes \in Nat /\ put <= MaxBytes /\ put + n <= MaxBytes
  BY InvFacts DEF AppendData
<1>1. Bytes(n) \in Seq(Data) /\ Len(Bytes(n)) = n
  BY <1>0, BytesAre
<1>2. State.w - State.r + 2 * n <= 2 * MaxBytes
  BY <1>0, InvFacts
<1>3. Good(e) /\ e.w - e.r = State.w - State.r /\ n <= Len(e.vec) - e.w
  BY <1>0, <1>2, EnsureGood
<1>4. c = write_at(e, Bytes(n))
  BY <1>1 DEF append
<1> HIDE DEF e
<1>5. Good(c) /\ c.r = e.r /\ c.w = e.w + n
  BY <1>1, <1>3, <1>4, WriteGood
<1> HIDE DEF c
<1>6. Becomes(c) /\ put' = put + n
  BY DEF AppendData, c
<1>7. Good(State)' /\ writer_idx_' = c.w /\ reader_idx_' = c.r
  BY <1>5, <1>6, BecomesState
<1>8. e.w \in Nat /\ e.r \in Nat
  BY <1>3, Differences
<1>9. c.w - c.r <= put + n
  BY <1>0, <1>3, <1>5, <1>8, InvFacts
<1> QED BY <1>0, <1>6, <1>7, <1>9 DEF Inv

LEMMA ReadInv ==
  ASSUME Inv, ~Burst, NEW n \in Nat, ReadFd(n)
  PROVE  Inv'
<1> DEFINE c == read_fd(State, Bytes(n))
<1>0. /\ Good(State) /\ put \in Nat /\ MaxBytes \in Nat /\ put <= MaxBytes /\ put + n <= MaxBytes
      /\ n <= writable_bytes(State)
  BY InvFacts DEF ReadFd
<1>1. Bytes(n) \in Seq(Data) /\ Len(Bytes(n)) = n
  BY <1>0, BytesAre
<1>2. c = write_at(State, Bytes(n))
  BY <1>0, <1>1 DEF read_fd
<1>3. n <= Len(State.vec) - State.w
  BY <1>0, Differences
<1>4. Good(c) /\ c.r = State.r /\ c.w = State.w + n
  BY <1>0, <1>1, <1>2, <1>3, WriteGood
<1> HIDE DEF c
<1>5. Becomes(c) /\ put' = put + n
  BY DEF ReadFd, c
<1>6. Good(State)' /\ writer_idx_' = c.w /\ reader_idx_' = c.r
  BY <1>4, <1>5, BecomesState
<1>7. c.w - c.r <= put + n
  BY <1>0, <1>4, InvFacts
<1> QED BY <1>0, <1>5, <1>6, <1>7 DEF Inv

LEMMA RetrieveInv ==
  ASSUME Inv, NEW len \in Nat, Becomes(retrieve(State, len)), UNCHANGED put
  PROVE  Inv'
<1> DEFINE c == retrieve(State, len)
<1>1. Good(c) /\ c.w - c.r <= State.w - State.r
  BY InvFacts, RetrieveGood
<1> HIDE DEF c
<1>2. Good(State)' /\ writer_idx_' = c.w /\ reader_idx_' = c.r
  BY <1>1, BecomesState DEF c
<1>3. c.w - c.r <= put
  <2>1. c.w \in Nat /\ c.r \in Nat
    BY <1>1, Differences
  <2> QED BY <1>1, <2>1, InvFacts
<1> QED BY <1>2, <1>3 DEF Inv

LEMMA InvNext == Inv /\ ~Burst /\ [Next]_vars => Inv'
<1> SUFFICES ASSUME Inv, ~Burst, [Next]_vars PROVE Inv'
  OBVIOUS
<1>0. MaxChunk \in Nat
  BY BoundAssumption
<1>1. ASSUME NEW n \in 0..MaxChunk, AppendData(n) PROVE Inv'
  BY <1>0, <1>1, AppendInv
<1>2. ASSUME NEW n \in 0..MaxChunk, ReadFd(n) PROVE Inv'
  BY <1>0, <1>2, ReadInv
<1>3. ASSUME NEW n \in 0..MaxChunk, Retrieve(n) PROVE Inv'
  BY <1>0, <1>3, RetrieveInv DEF Retrieve
<1>4. CASE RetrieveAllAsString
  <2>1. readable_bytes(State) \in Nat
    BY InvFacts, Differences
  <2> QED BY <1>4, <2>1, RetrieveInv DEF RetrieveAllAsString
<1>5. CASE UNCHANGED vars
  BY <1>5 DEF vars, Inv, State
<1> QED BY <1>1, <1>2, <1>3, <1>4, <1>5 DEF Next

LEMMA InvAlways == ASSUME ~Burst PROVE Spec => []Inv
<1>1. Inv /\ [Next]_vars => Inv'
  BY InvNext
<1> QED BY <1>1, InvInit, PTL DEF Spec

-----------------------------------------------------------------------------
\* The vector never gets smaller than at the start, it holds bytes that were put
\* in, and the indices stay in the range of size_t: for every size of the buffer
\* and every sequence of calls (buffer.h: make_space, retrieve, append).
THEOREM TypeCorrect == ASSUME ~Burst PROVE Spec => []TypeOK
<1>1. Inv => TypeOK
  <2> SUFFICES ASSUME Inv PROVE TypeOK
    OBVIOUS
  <2>1. /\ SizeT \in Nat /\ MaxLen < SizeT /\ MaxLen \in Nat
    BY SizeAssumption, BoundAssumption DEF MaxLen
  <2>2. buffer_ \in Seq(Data) /\ corrupt = FALSE /\ Len(buffer_) \in Nat
    BY InvFacts DEF Good, Record, State
  <2>3. /\ k_initial_size <= Len(buffer_) /\ Len(buffer_) <= MaxLen
        /\ reader_idx_ <= writer_idx_ /\ writer_idx_ <= Len(buffer_)
    BY InvFacts DEF Good
  <2>4. k_initial_size \in Nat
    BY SizeAssumption
  <2>5. reader_idx_ \in 0..(SizeT - 1) /\ writer_idx_ \in 0..(SizeT - 1)
    BY <2>1, <2>2, <2>3, InvFacts
  <2>6. put \in 0..MaxBytes
    BY DEF Inv
  <2> QED BY <2>2, <2>3, <2>4, <2>5, <2>6 DEF TypeOK, Data
<1> QED BY <1>1, InvAlways, PTL

\* Whatever the order of the calls that make room, move down, grow and take
\* out, the reader stays behind the writer and the writer inside the
\* vector, so that no size_t difference wraps round (buffer.h: readable_bytes,
\* writable_bytes).
THEOREM IndicesOrdered == ASSUME ~Burst PROVE Spec => []IndicesInOrder
<1>1. Inv => IndicesInOrder
  BY InvFacts DEF Good, IndicesInOrder
<1> QED BY <1>1, InvAlways, PTL

\* No append or read writes outside the vector, as long as no read brings more
\* than there is room for; with such a read the run buffer_burst shows that
\* read_fd does (buffer.cc: read_fd, extrabuf).
THEOREM NoByteOutside == ASSUME ~Burst PROVE Spec => []NoCorruption
<1>1. Inv => NoCorruption
  BY DEF Inv, Good, State, NoCorruption
<1> QED BY <1>1, InvAlways, PTL

-----------------------------------------------------------------------------
(* The buffer implements ByteQueue.                                        *)

\* The readable bytes of a buffer.
Readable(b) == SubSeq(b.vec, b.r + 1, b.w)

LEMMA ReadableAre ==
  ASSUME NEW b, Good(b)
  PROVE  /\ Readable(b) \in Seq(Data)
         /\ Len(Readable(b)) = b.w - b.r
         /\ \A i \in 1..(b.w - b.r) : Readable(b)[i] = b.vec[b.r + i]
<1>1. /\ b.r \in Nat /\ b.w \in Nat /\ b.vec \in Seq(Data) /\ Len(b.vec) \in Nat
      /\ b.r <= b.w /\ b.w <= Len(b.vec)
  BY Differences DEF Good
<1>2. b.r + 1 \in Int /\ b.w \in Int
  BY <1>1
<1>3. \A i \in (b.r + 1)..b.w : b.vec[i] \in Data
  <2> TAKE i \in (b.r + 1)..b.w
  <2>1. i \in 1..Len(b.vec)
    BY <1>1
  <2> QED BY <1>1, <2>1
<1>4. /\ Readable(b) \in Seq(Data)
      /\ Len(Readable(b)) = IF b.r + 1 <= b.w THEN b.w - (b.r + 1) + 1 ELSE 0
      /\ \A i \in 1..(b.w - (b.r + 1) + 1) : Readable(b)[i] = b.vec[(b.r + 1) + i - 1]
  BY <1>2, <1>3, SubSeqProperties DEF Readable
<1>5. Len(Readable(b)) = b.w - b.r
  BY <1>1, <1>4
<1>6. ASSUME NEW i \in 1..(b.w - b.r) PROVE Readable(b)[i] = b.vec[b.r + i]
  <2>1. i \in 1..(b.w - (b.r + 1) + 1) /\ (b.r + 1) + i - 1 = b.r + i
    BY <1>1
  <2> QED BY <1>4, <2>1
<1> QED BY <1>4, <1>5, <1>6

\* Two buffers with as many readable bytes, each the same, hold the same.
LEMMA SameReadable ==
  ASSUME NEW b, Good(b), NEW c, Good(c), c.w - c.r = b.w - b.r,
         \A i \in 1..(b.w - b.r) : c.vec[c.r + i] = b.vec[b.r + i]
  PROVE  Readable(c) = Readable(b)
<1>1. /\ Readable(b) \in Seq(Data) /\ Readable(c) \in Seq(Data)
      /\ Len(Readable(b)) = b.w - b.r /\ Len(Readable(c)) = b.w - b.r
  BY ReadableAre
<1>2. \A i \in 1..Len(Readable(c)) : Readable(c)[i] = Readable(b)[i]
  BY <1>1, ReadableAre
<1> QED BY <1>1, <1>2, SeqEqual

LEMMA Within ==
  ASSUME NEW L \in Nat, NEW r \in Nat, NEW w \in Nat, w <= L, NEW i \in 1..(w - r)
  PROVE  r + i \in 1..w /\ r + i <= L
  OBVIOUS

\* Making room moves the readable bytes or copies them, and changes none.
LEMMA SpaceKeeps ==
  ASSUME NEW b, Good(b), NEW len \in Nat,
         b.w - b.r + 2 * len <= 2 * MaxBytes,
         Len(b.vec) - b.w < len
  PROVE  Readable(make_space(b, len)) = Readable(b)
<1> DEFINE c == make_space(b, len)
           n == b.w - b.r
<1> SUFFICES Readable(c) = Readable(b)
  OBVIOUS
<1>0. k_cheap_prepend \in Nat
  BY SizeAssumption
<1>1. /\ readable_bytes(b) = n /\ n \in Nat /\ Len(b.vec) \in Nat /\ b.vec \in Seq(Data)
      /\ b.r \in Nat /\ b.w \in Nat /\ b.w <= Len(b.vec) /\ k_cheap_prepend <= b.r
  BY Differences DEF Good
<1>2. Good(c) /\ c.w - c.r = n
  BY SpaceGood
<1>3. ASSUME NEW i \in 1..n PROVE c.vec[c.r + i] = b.vec[b.r + i]
  <2>1. CASE writable_bytes(b) + prependable_bytes(b) < len + k_cheap_prepend
    <3>1. c.r = b.r /\ c.vec = resize(b.vec, b.w + len)
      BY <2>1 DEF make_space, Good, Record
    <3>2. b.r + i \in 1..b.w /\ b.r + i <= Len(b.vec)
      BY <1>1, Within
    <3>3. b.r + i \in 1..(b.w + len)
      BY <1>1, <3>2
    <3> HIDE DEF c
    <3> QED BY <3>1, <3>2, <3>3 DEF resize
  <2>2. CASE ~(writable_bytes(b) + prependable_bytes(b) < len + k_cheap_prepend)
    <3>1. /\ c.r = k_cheap_prepend
          /\ c.vec = [j \in 1..Len(b.vec) |->
                        IF j \in (k_cheap_prepend + 1)..(k_cheap_prepend + n)
                        THEN b.vec[b.r + j - k_cheap_prepend] ELSE b.vec[j]]
      BY <1>1, <2>2 DEF make_space, move_down, Good, Record
    <3> HIDE DEF c
    <3>2. /\ k_cheap_prepend + i \in 1..Len(b.vec)
          /\ k_cheap_prepend + i \in (k_cheap_prepend + 1)..(k_cheap_prepend + n)
          /\ b.r + (k_cheap_prepend + i) - k_cheap_prepend = b.r + i
      BY <1>0, <1>1
    <3> QED BY <3>1, <3>2
  <2> QED BY <2>1, <2>2
<1> HIDE DEF c
<1> QED BY <1>2, <1>3, SameReadable

LEMMA EnsureKeeps ==
  ASSUME NEW b, Good(b), NEW len \in Nat, b.w - b.r + 2 * len <= 2 * MaxBytes
  PROVE  Readable(ensure_writeable_bytes(b, len)) = Readable(b)
BY SpaceKeeps, Differences DEF ensure_writeable_bytes

\* A write that fits puts its bytes behind the readable ones.
LEMMA WriteAdds ==
  ASSUME NEW b, Good(b), NEW data \in Seq(Data), Len(data) <= Len(b.vec) - b.w
  PROVE  Readable(write_at(b, data)) = Readable(b) \o data
<1> DEFINE c == write_at(b, data)
           s == Readable(b) \o data
           n == b.w - b.r
<1> SUFFICES Readable(c) = s
  OBVIOUS
<1>0. /\ Len(data) \in Nat /\ n \in Nat /\ Len(b.vec) \in Nat /\ b.vec \in Seq(Data)
      /\ b.r \in Nat /\ b.w \in Nat /\ b.w <= Len(b.vec)
  BY Differences DEF Good
<1>1. Good(c) /\ c.r = b.r /\ c.w = b.w + Len(data)
  BY WriteGood
<1>2. c.vec = [i \in 1..Len(b.vec) |-> IF i \in (b.w + 1)..(b.w + Len(data))
                                       THEN data[i - b.w] ELSE b.vec[i]]
  <2>1. b.w + Len(data) <= Len(b.vec)
    BY <1>0
  <2> QED BY <2>1 DEF write_at, Good, Record
<1> HIDE DEF c
<1>3. Readable(b) \in Seq(Data) /\ Len(Readable(b)) = n
  BY ReadableAre
<1>4. /\ s \in Seq(Data) /\ Len(s) = n + Len(data)
      /\ \A i \in 1..(n + Len(data)) :
            s[i] = IF i <= n THEN Readable(b)[i] ELSE data[i - n]
  <2> HIDE DEF n
  <2>1. /\ s \in Seq(Data) /\ Len(s) = Len(Readable(b)) + Len(data)
        /\ \A i \in 1..(Len(Readable(b)) + Len(data)) :
              s[i] = IF i <= Len(Readable(b)) THEN Readable(b)[i] ELSE data[i - Len(Readable(b))]
    BY <1>3, ConcatProperties
  <2> HIDE DEF s
  <2> QED BY <1>3, <2>1
<1>5. c.w - c.r = n + Len(data)
  BY <1>0, <1>1
<1>6. Readable(c) \in Seq(Data) /\ Len(Readable(c)) = n + Len(data)
  BY <1>1, <1>5, ReadableAre
<1>7. ASSUME NEW i \in 1..(n + Len(data)) PROVE Readable(c)[i] = s[i]
  <2>1. Readable(c)[i] = c.vec[b.r + i]
    BY <1>1, <1>5, ReadableAre
  <2>2. b.r + i \in 1..Len(b.vec)
    BY <1>0
  <2>3. CASE i <= n
    <3>1. b.r + i \notin (b.w + 1)..(b.w + Len(data)) /\ i \in 1..n
      BY <1>0, <2>3
    <3>2. c.vec[b.r + i] = b.vec[b.r + i]
      BY <1>2, <2>2, <3>1
    <3> QED BY <1>4, <2>1, <2>3, <3>1, <3>2, ReadableAre
  <2>4. CASE ~(i <= n)
    <3>1. b.r + i \in (b.w + 1)..(b.w + Len(data)) /\ b.r + i - b.w = i - n
      BY <1>0, <2>4
    <3>2. c.vec[b.r + i] = data[i - n]
      <4> DEFINE j == b.r + i
      <4>1. j \in 1..Len(b.vec) /\ j \in (b.w + 1)..(b.w + Len(data)) /\ j - b.w = i - n
        BY <1>0, <2>2, <3>1
      <4> HIDE DEF j, n
      <4>2. c.vec[j] = data[j - b.w]
        BY <1>2, <4>1
      <4> QED BY <4>1, <4>2 DEF j
    <3> QED BY <1>4, <2>1, <2>4, <3>2
  <2> QED BY <2>3, <2>4
<1> HIDE DEF s
<1> QED BY <1>4, <1>6, <1>7, SeqEqual

\* What is left after taking len bytes, or all of them if there are fewer.
LEMMA RetrieveTakes ==
  ASSUME NEW b, Good(b), NEW len \in Nat
  PROVE  \E m \in 0..Len(Readable(b)) :
            Readable(retrieve(b, len)) = SubSeq(Readable(b), m + 1, Len(Readable(b)))
<1> DEFINE c == retrieve(b, len)
           n == b.w - b.r
           m == IF len < n THEN len ELSE n
           t == SubSeq(Readable(b), m + 1, n)
<1>0. /\ k_cheap_prepend \in Nat /\ n \in Nat /\ b.r \in Nat /\ b.w \in Nat
      /\ readable_bytes(b) = n
  BY SizeAssumption, Differences
<1>1. m \in 0..n /\ m \in Nat
  BY <1>0
<1>2. /\ Readable(b) \in Seq(Data) /\ Len(Readable(b)) = n
      /\ \A i \in 1..n : Readable(b)[i] = b.vec[b.r + i] /\ Readable(b)[i] \in Data
  <2>1. Readable(b) \in Seq(Data) /\ Len(Readable(b)) = n
    BY ReadableAre
  <2>2. \A i \in 1..n : Readable(b)[i] \in Data
    BY <2>1
  <2> QED BY <2>1, <2>2, ReadableAre
<1>3. Good(c)
  BY RetrieveGood
<1>4. c.vec = b.vec /\ c.w - c.r = n - m /\ (m < n => c.r = b.r + m)
  <2>1. CASE len < n
    <3>1. c.vec = b.vec /\ c.r = b.r + len /\ c.w = b.w
      BY <1>0, <2>1 DEF retrieve, Good, Record
    <3> HIDE DEF c
    <3> QED BY <1>0, <2>1, <3>1
  <2>2. CASE ~(len < n)
    <3>1. c.vec = b.vec /\ c.r = k_cheap_prepend /\ c.w = k_cheap_prepend
      BY <1>0, <2>2 DEF retrieve, retrieve_all, Good, Record
    <3> HIDE DEF c
    <3> QED BY <1>0, <2>2, <3>1
  <2> QED BY <2>1, <2>2
<1>5. /\ t \in Seq(Data) /\ Len(t) = n - m
      /\ \A i \in 1..(n - m) : t[i] = Readable(b)[m + i]
  <2> HIDE DEF m, n
  <2>1. m + 1 \in Int /\ n \in Int
    BY <1>0, <1>1
  <2>2. \A i \in (m + 1)..n : Readable(b)[i] \in Data
    <3> TAKE i \in (m + 1)..n
    <3>1. i \in 1..n
      BY <1>0, <1>1
    <3> QED BY <1>2, <3>1
  <2>3. /\ t \in Seq(Data) /\ Len(t) = IF m + 1 <= n THEN n - (m + 1) + 1 ELSE 0
        /\ \A i \in 1..(n - (m + 1) + 1) : t[i] = Readable(b)[(m + 1) + i - 1]
    BY <2>1, <2>2, SubSeqProperties
  <2> HIDE DEF t
  <2>4. Len(t) = n - m
    BY <1>0, <1>1, <2>3
  <2>5. ASSUME NEW i \in 1..(n - m) PROVE t[i] = Readable(b)[m + i]
    <3>1. i \in 1..(n - (m + 1) + 1) /\ (m + 1) + i - 1 = m + i
      BY <1>0, <1>1
    <3> QED BY <2>3, <3>1
  <2> QED BY <2>3, <2>4, <2>5
<1> HIDE DEF c, t, m
<1>6. Readable(c) = t
  <2>1. Readable(c) \in Seq(Data) /\ Len(Readable(c)) = n - m
    BY <1>3, <1>4, ReadableAre
  <2>2. ASSUME NEW i \in 1..(n - m) PROVE Readable(c)[i] = t[i]
    <3>1. Readable(c)[i] = c.vec[c.r + i]
      BY <1>3, <1>4, ReadableAre
    <3>2. m < n /\ m + i \in 1..n /\ b.r + (m + i) = (b.r + m) + i
      BY <1>0, <1>1
    <3> QED BY <1>2, <1>4, <1>5, <3>1, <3>2
  <2> QED BY <1>5, <2>1, <2>2, SeqEqual
<1> QED BY <1>1, <1>2, <1>6 DEF c, t

\* The step of a call that puts n bytes in is a step of the queue.
LEMMA PutStep ==
  ASSUME NEW n \in Nat, put \in Nat, put' = put + n, Content' = Content \o Bytes(n)
  PROVE  Queue!Next
<1>1. put' >= put /\ put' - put = n
  OBVIOUS
<1>2. Queue!Put(put' - put)
  BY <1>1 DEF Queue!Put, Bytes
<1> QED BY <1>1, <1>2 DEF Queue!Next

LEMMA ContentIs == Content = Readable(State)
  BY DEF Content, Readable, State

LEMMA ContentBecomes ==
  ASSUME NEW b, Becomes(b) PROVE Content' = Readable(b)
  BY DEF Content, Readable, Becomes

LEMMA AppendPuts ==
  ASSUME Inv, NEW n \in Nat, AppendData(n) PROVE Queue!Next
<1> DEFINE e == ensure_writeable_bytes(State, n)
           c == append(State, Bytes(n))
<1>0. Good(State) /\ put \in Nat /\ MaxBytes \in Nat /\ put <= MaxBytes /\ put + n <= MaxBytes
  BY InvFacts DEF AppendData
<1>1. Bytes(n) \in Seq(Data) /\ Len(Bytes(n)) = n
  BY <1>0, BytesAre
<1>2. State.w - State.r + 2 * n <= 2 * MaxBytes
  BY <1>0, InvFacts
<1>3. Good(e) /\ n <= Len(e.vec) - e.w /\ Readable(e) = Readable(State)
  BY <1>0, <1>2, EnsureGood, EnsureKeeps
<1>4. c = write_at(e, Bytes(n))
  BY <1>1 DEF append
<1> HIDE DEF e
<1>5. Readable(c) = Readable(State) \o Bytes(n)
  BY <1>1, <1>3, <1>4, WriteAdds
<1> HIDE DEF c
<1>6. Becomes(c) /\ put' = put + n
  BY DEF AppendData, c
<1> QED BY <1>0, <1>5, <1>6, ContentIs, ContentBecomes, PutStep

LEMMA ReadPuts ==
  ASSUME Inv, ~Burst, NEW n \in Nat, ReadFd(n) PROVE Queue!Next
<1> DEFINE c == read_fd(State, Bytes(n))
<1>0. /\ Good(State) /\ put \in Nat /\ put \in 0..MaxBytes /\ put + n <= MaxBytes
      /\ n <= writable_bytes(State)
  BY InvFacts DEF ReadFd, Inv
<1>1. Bytes(n) \in Seq(Data) /\ Len(Bytes(n)) = n
  BY <1>0, BytesAre
<1>2. c = write_at(State, Bytes(n))
  BY <1>0, <1>1 DEF read_fd
<1>3. n <= Len(State.vec) - State.w
  BY <1>0, Differences
<1>4. Readable(c) = Readable(State) \o Bytes(n)
  BY <1>0, <1>1, <1>2, <1>3, WriteAdds
<1> HIDE DEF c
<1>5. Becomes(c) /\ put' = put + n
  BY DEF ReadFd, c
<1> QED BY <1>0, <1>4, <1>5, ContentIs, ContentBecomes, PutStep

LEMMA RetrieveSteps ==
  ASSUME Inv, NEW len \in Nat, Becomes(retrieve(State, len)), UNCHANGED put
  PROVE  Queue!Next
<1>1. Content' = Readable(retrieve(State, len))
  BY ContentBecomes
<1>2. PICK m \in 0..Len(Content) : Content' = SubSeq(Content, m + 1, Len(Content))
  BY <1>1, InvFacts, RetrieveTakes, ContentIs
<1>3. Queue!Take(m)
  BY <1>2 DEF Queue!Take
<1> QED BY <1>3 DEF Queue!Next

LEMMA QueueStep ==
  ASSUME Inv, ~Burst, [Next]_vars
  PROVE  [Queue!Next]_<<put, Content>>
<1>0. MaxChunk \in Nat
  BY BoundAssumption
<1>1. ASSUME NEW n \in 0..MaxChunk, AppendData(n) PROVE Queue!Next
  BY <1>0, <1>1, AppendPuts
<1>2. ASSUME NEW n \in 0..MaxChunk, ReadFd(n) PROVE Queue!Next
  BY <1>0, <1>2, ReadPuts
<1>3. ASSUME NEW n \in 0..MaxChunk, Retrieve(n) PROVE Queue!Next
  BY <1>0, <1>3, RetrieveSteps DEF Retrieve
<1>4. CASE RetrieveAllAsString
  <2>1. readable_bytes(State) \in Nat
    BY InvFacts, Differences
  <2> QED BY <1>4, <2>1, RetrieveSteps DEF RetrieveAllAsString
<1>5. CASE UNCHANGED vars
  BY <1>5 DEF vars, Content
<1> QED BY <1>1, <1>2, <1>3, <1>4, <1>5 DEF Next

LEMMA QueueInit == Init => Queue!Init
<1> SUFFICES ASSUME Init PROVE Queue!Init
  OBVIOUS
<1>1. k_cheap_prepend \in Nat
  BY SizeAssumption
<1>2. Content = <<>>
  <2>1. k_cheap_prepend + 1 \in Int /\ k_cheap_prepend \in Int /\ k_cheap_prepend < k_cheap_prepend + 1
    BY <1>1
  <2>2. Content = SubSeq(buffer_, k_cheap_prepend + 1, k_cheap_prepend)
    BY DEF Init, Content
  <2> QED BY <2>1, <2>2, SubSeqEmpty
<1> QED BY <1>2 DEF Init, Queue!Init

\* Bytes come out of the buffer as they were put in: none is lost, doubled or
\* moved by a call that makes room, whatever the sizes are (buffer.h: append,
\* make_space, retrieve; buffer.cc: read_fd).
THEOREM BytesInOrder == ASSUME ~Burst PROVE Spec => StreamIntact
<1>1. Inv /\ [Next]_vars => [Queue!Next]_<<put, Content>>
  BY QueueStep
<1> QED BY <1>1, InvAlways, QueueInit, PTL DEF Spec, StreamIntact, Queue!Spec
=============================================================================
