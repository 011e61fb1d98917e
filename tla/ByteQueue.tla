----------------------------- MODULE ByteQueue -----------------------------
(***************************************************************************)
(* What a buffer promises: a queue of bytes.  The bytes of the stream are  *)
(* numbered, so that a lost, doubled or misplaced byte shows.  Buffer.tla  *)
(* is the implementation.                                                  *)
(***************************************************************************)
EXTENDS Naturals, Sequences

VARIABLES
  put,               \* bytes put in so far
  queue              \* the bytes put in and not yet taken out

Init == put = 0 /\ queue = <<>>

Put(n) ==
  /\ put' = put + n
  /\ queue' = queue \o [i \in 1..n |-> put + i]

Take(n) ==
  /\ n \in 0..Len(queue)
  /\ queue' = SubSeq(queue, n + 1, Len(queue))
  /\ UNCHANGED put

\* The number of bytes put in is read off the step itself.
Next ==
  \/ \E n \in 0..Len(queue) : Take(n)
  \/ put' >= put /\ Put(put' - put)

Spec == Init /\ [][Next]_<<put, queue>>
=============================================================================
