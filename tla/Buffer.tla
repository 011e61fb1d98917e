------------------------------- MODULE Buffer -------------------------------
(***************************************************************************)
(* The buffer of a tcp_connection (net/buffer): a vector with a reader and *)
(* a writer index, compacted or grown by make_space, and filled from a     *)
(* socket through a second, large array on the stack.                      *)
(*                                                                         *)
(* Indices are size_t: they are natural numbers below SizeT, and a         *)
(* difference is taken modulo SizeT.  Bytes are numbered in the order in   *)
(* which they are put in.  A write outside the vector is undefined         *)
(* behaviour; the model notes it in corrupt and stops there.               *)
(***************************************************************************)
EXTENDS Integers, Sequences

CONSTANTS
  SizeT,            \* 2^w, w the width of size_t
  k_cheap_prepend,  \* k_cheap_prepend_
  k_initial_size,   \* k_initial_size_
  extrabuf_size,    \* sizeof(extrabuf) in read_fd
  Burst,            \* TRUE: a socket may hold more than the buffer has room for
  MaxChunk,         \* bound: the bytes of one call
  MaxBytes          \* bound: the bytes ever put in

ASSUME SizeAssumption ==
  /\ k_cheap_prepend \in Nat
  /\ k_initial_size \in Nat
  /\ k_cheap_prepend <= k_initial_size
  /\ SizeT \in Nat
  /\ extrabuf_size \in Nat
ASSUME BoundAssumption ==
  /\ MaxChunk \in Nat
  /\ MaxBytes \in Nat
  /\ k_initial_size + k_cheap_prepend + 2 * MaxBytes < SizeT
ASSUME BurstAssumption == Burst \in BOOLEAN

VARIABLES
  buffer_,          \* the vector; byte 0 is one nobody put in
  reader_idx_,
  writer_idx_,
  put,              \* history: bytes put in so far
  corrupt           \* a byte was written or read outside the vector

vars == <<buffer_, reader_idx_, writer_idx_, put, corrupt>>

\* A buffer as a record, for the operations that are built from others.
State == [vec |-> buffer_, r |-> reader_idx_, w |-> writer_idx_, bad |-> corrupt]

Becomes(b) ==
  /\ buffer_' = b.vec
  /\ reader_idx_' = b.r
  /\ writer_idx_' = b.w
  /\ corrupt' = b.bad

Bytes(n) == [i \in 1..n |-> put + i]

Init ==
  /\ buffer_ = [i \in 1..k_initial_size |-> 0]
  /\ reader_idx_ = k_cheap_prepend
  /\ writer_idx_ = k_cheap_prepend
  /\ put = 0
  /\ corrupt = FALSE

-----------------------------------------------------------------------------
(* The members of buffer, on records.                                      *)

readable_bytes(b) == (b.w - b.r) % SizeT
writable_bytes(b) == (Len(b.vec) - b.w) % SizeT
prependable_bytes(b) == b.r

retrieve_all(b) == [b EXCEPT !.r = k_cheap_prepend, !.w = k_cheap_prepend]

\* A slip: nothing is compared with what there is.
retrieve_Unchecked(b, len) == [b EXCEPT !.r = @ + len]

retrieve(b, len) ==
  IF len < readable_bytes(b) THEN [b EXCEPT !.r = @ + len] ELSE retrieve_all(b)

resize(vec, n) == [i \in 1..n |-> IF i <= Len(vec) THEN vec[i] ELSE 0]

\* A slip: the indices move down, the bytes do not.
move_down_NoCopy(b) ==
  [b EXCEPT !.r = k_cheap_prepend, !.w = k_cheap_prepend + readable_bytes(b)]

\* std::copy of the readable bytes down to the prepend area.
move_down(b) ==
  LET n == readable_bytes(b)
  IN [b EXCEPT !.vec = [i \in 1..Len(b.vec) |->
                          IF i \in (k_cheap_prepend + 1)..(k_cheap_prepend + n)
                          THEN b.vec[b.r + i - k_cheap_prepend] ELSE b.vec[i]],
               !.r = k_cheap_prepend,
               !.w = k_cheap_prepend + n]

\* A slip: the vector is sized for the readable bytes, not for their place.
make_space_Shrink(b, len) ==
  IF writable_bytes(b) + prependable_bytes(b) < len + k_cheap_prepend
  THEN [b EXCEPT !.vec = resize(@, readable_bytes(b) + len)]
  ELSE move_down(b)

make_space(b, len) ==
  IF writable_bytes(b) + prependable_bytes(b) < len + k_cheap_prepend
  THEN [b EXCEPT !.vec = resize(@, b.w + len)]
  ELSE move_down(b)

\* A slip: one byte too late.
ensure_writeable_bytes_Late(b, len) ==
  IF writable_bytes(b) + 1 < len THEN make_space(b, len) ELSE b

ensure_writeable_bytes(b, len) == IF writable_bytes(b) < len THEN make_space(b, len) ELSE b

\* std::copy to begin_write, and the step of writer_idx_.
write_at(b, data) ==
  LET fits == b.w + Len(data) <= Len(b.vec)
  IN [b EXCEPT !.vec = IF ~fits THEN @
                       ELSE [i \in 1..Len(@) |-> IF i \in (b.w + 1)..(b.w + Len(data))
                                                 THEN data[i - b.w] ELSE @[i]],
               !.w = (@ + Len(data)) % SizeT,
               !.bad = @ \/ ~fits]

append(b, data) == write_at(ensure_writeable_bytes(b, Len(data)), data)

\* read_fd once readv has returned the bytes data.
read_fd(b, data) ==
  LET writable == writable_bytes(b)
  IN IF Len(data) <= writable
     THEN write_at(b, data)
     ELSE LET first == [b EXCEPT !.vec = [i \in 1..Len(@) |->
                                            IF i > b.w THEN data[i - b.w] ELSE @[i]],
                                 !.w = (@ + Len(b.vec)) % SizeT]
          IN append(first, SubSeq(data, writable + 1, Len(data)))

-----------------------------------------------------------------------------
(* The calls.                                                              *)

\* send_in_loop: the rest of the data goes behind what is buffered.
AppendData(n) ==
  /\ ~corrupt
  /\ put + n <= MaxBytes
  /\ Becomes(append(State, Bytes(n)))
  /\ put' = put + n

\* handle_read: readv fills the room of the buffer, and extrabuf behind it
\* unless the room alone is as large.
ReadFd(n) ==
  LET writable == writable_bytes(State)
      room == IF writable < extrabuf_size THEN writable + extrabuf_size ELSE writable
  IN /\ ~corrupt
     /\ n <= room
     /\ ~Burst => n <= writable
     /\ put + n <= MaxBytes
     /\ Becomes(read_fd(State, Bytes(n)))
     /\ put' = put + n

\* The user takes len bytes from peek(), or asks for more than there are;
\* handle_write does the same with what write_fd has sent.
Retrieve(len) ==
  /\ ~corrupt
  /\ Becomes(retrieve(State, len))
  /\ UNCHANGED put

RetrieveAllAsString ==
  /\ ~corrupt
  /\ Becomes(retrieve(State, readable_bytes(State)))
  /\ UNCHANGED put

Next ==
  \/ \E n \in 0..MaxChunk : AppendData(n) \/ ReadFd(n) \/ Retrieve(n)
  \/ RetrieveAllAsString

Spec == Init /\ [][Next]_vars

-----------------------------------------------------------------------------
\* Types; the vector never shrinks.
TypeOK ==
  /\ buffer_ \in Seq(0..MaxBytes)
  /\ Len(buffer_) >= k_initial_size
  /\ reader_idx_ \in 0..(SizeT - 1)
  /\ writer_idx_ \in 0..(SizeT - 1)
  /\ put \in 0..MaxBytes
  /\ corrupt \in BOOLEAN

\* The indices stay in order and inside the vector, so that no size_t
\* difference of them wraps round.
IndicesInOrder ==
  /\ k_cheap_prepend <= reader_idx_
  /\ reader_idx_ <= writer_idx_
  /\ writer_idx_ <= Len(buffer_)

\* "What the buffer cannot hold is stored in extrabuf; then the buffer is
\* grown and it is copied in" (buffer.cc:11): no byte of a read goes outside.
NoCorruption == ~corrupt

\* The buffer is a queue of bytes: whatever is moved down, resized or reset,
\* the bytes come out as they were put in.
Content == SubSeq(buffer_, reader_idx_ + 1, writer_idx_)

Queue == INSTANCE ByteQueue WITH queue <- Content

StreamIntact == Queue!Spec
=============================================================================
