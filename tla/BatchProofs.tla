---------------------------- MODULE BatchProofs ----------------------------
(***************************************************************************)
(* Lemmas on the functors a loop has yet to run: the rest of the batch of  *)
(* do_pending_functions, then the queue.  However the loop swaps and drops *)
(* the vectors, this is one FIFO: it grows at its end, shrinks at its head *)
(* when a functor runs, and nothing else changes it.                       *)
(***************************************************************************)
EXTENDS SequenceTheorems, TLAPS

\* b is the batch, n how many of it have run, and q the queue.
Todo(b, n, q) == SubSeq(b, n + 1, Len(b)) \o q

LEMMA RangeAppend ==
  ASSUME NEW S, NEW s \in Seq(S), NEW t \in S
  PROVE  Range(Append(s, t)) = Range(s) \cup {t}
<1>1. /\ Append(s, t) \in Seq(S) /\ Len(Append(s, t)) = Len(s) + 1
      /\ \A i \in 1..Len(s) : Append(s, t)[i] = s[i]
      /\ Append(s, t)[Len(s) + 1] = t
  BY AppendProperties
<1>2. Range(s) = {s[i] : i \in 1..Len(s)} /\ Len(s) \in Nat
  BY RangeEquality
<1>3. Range(Append(s, t)) = {Append(s, t)[i] : i \in 1..(Len(s) + 1)}
  BY <1>1, RangeEquality
<1> QED BY <1>1, <1>2, <1>3

LEMMA RangeEmpty == Range(<<>>) = {}
  BY DEF Range

LEMMA RestType ==
  ASSUME NEW S, NEW b \in Seq(S), NEW n \in 0..Len(b)
  PROVE  /\ SubSeq(b, n + 1, Len(b)) \in Seq(S)
         /\ Len(SubSeq(b, n + 1, Len(b))) = Len(b) - n
         /\ \A i \in 1..(Len(b) - n) : SubSeq(b, n + 1, Len(b))[i] = b[n + i]
<1> DEFINE t == SubSeq(b, n + 1, Len(b))
<1>1. Len(b) \in Nat /\ n \in Nat /\ n <= Len(b)
  BY LenProperties
<1>2. \A i \in (n + 1)..Len(b) : b[i] \in S
  BY <1>1, ElementOfSeq
<1>3. /\ t \in Seq(S)
      /\ Len(t) = IF n + 1 <= Len(b) THEN Len(b) - (n + 1) + 1 ELSE 0
      /\ \A i \in 1..(Len(b) - (n + 1) + 1) : t[i] = b[(n + 1) + i - 1]
  BY <1>1, <1>2, SubSeqProperties
<1> HIDE DEF t
<1>4. Len(t) = Len(b) - n
  BY <1>1, <1>3
<1>5. ASSUME NEW i \in 1..(Len(b) - n) PROVE t[i] = b[n + i]
  <2>1. i \in 1..(Len(b) - (n + 1) + 1) /\ (n + 1) + i - 1 = n + i
    BY <1>1
  <2> QED BY <1>3, <2>1
<1> QED BY <1>3, <1>4, <1>5 DEF t

LEMMA TodoType ==
  ASSUME NEW S, NEW b \in Seq(S), NEW n \in 0..Len(b), NEW q \in Seq(S)
  PROVE  Todo(b, n, q) \in Seq(S) /\ Len(Todo(b, n, q)) \in Nat
<1>1. SubSeq(b, n + 1, Len(b)) \in Seq(S)
  BY RestType
<1> QED BY <1>1, ConcatProperties, LenProperties DEF Todo

\* queue_in_loop.
LEMMA TodoAppend ==
  ASSUME NEW S, NEW b \in Seq(S), NEW n \in 0..Len(b), NEW q \in Seq(S), NEW f \in S
  PROVE  Todo(b, n, Append(q, f)) = Append(Todo(b, n, q), f)
<1> DEFINE t == SubSeq(b, n + 1, Len(b))
<1>1. t \in Seq(S)
  BY RestType
<1> HIDE DEF t
<1>2. <<f>> \in Seq(S) /\ t \o q \in Seq(S)
  BY <1>1
<1>3. Append(q, f) = q \o <<f>> /\ Append(t \o q, f) = (t \o q) \o <<f>>
  BY <1>2, AppendIsConcat
<1>4. (t \o q) \o <<f>> = t \o (q \o <<f>>)
  BY <1>1, <1>2, ConcatAssociative
<1>5. Todo(b, n, Append(q, f)) = t \o Append(q, f) /\ Todo(b, n, q) = t \o q
  BY Zenon DEF Todo, t
<1> QED BY <1>3, <1>4, <1>5, Zenon

\* A functor of the batch runs.
LEMMA TodoFirst ==
  ASSUME NEW S, NEW b \in Seq(S), NEW n \in 0..Len(b), n < Len(b), NEW q \in Seq(S)
  PROVE  /\ Todo(b, n, q) # <<>>
         /\ Head(Todo(b, n, q)) = b[n + 1]
         /\ Tail(Todo(b, n, q)) = Todo(b, n + 1, q)
         /\ Todo(b, n, q)[1] = b[n + 1]
<1> DEFINE t == SubSeq(b, n + 1, Len(b))
           u == SubSeq(b, n + 2, Len(b))
           f == b[n + 1]
<1>1. Len(b) \in Nat /\ n \in Nat /\ n + 1 \in 1..Len(b) /\ Len(b) \in (n + 1)..Len(b)
      /\ n + 1 \in 0..Len(b) /\ (n + 1) + 1 = n + 2
  BY LenProperties
<1>2. f \in S
  BY <1>1, ElementOfSeq
<1>3. t \in Seq(S)
  BY RestType
<1>4. SubSeq(b, (n + 1) + 1, Len(b)) \in Seq(S)
  BY <1>1, RestType
<1>5. u \in Seq(S)
  BY <1>1, <1>4
<1>6. t = <<f>> \o u
  <2>1. t = <<f>> \o SubSeq(b, (n + 1) + 1, Len(b))
    BY <1>1, SubSeqRecursiveFirst
  <2> QED BY <1>1, <2>1
<1> HIDE DEF t, u, f
<1>7. <<f>> \in Seq(S) /\ u \o q \in Seq(S)
  BY <1>2, <1>5
<1>8. t \o q = <<f>> \o (u \o q)
  BY <1>5, <1>6, <1>7, ConcatAssociative
<1> DEFINE v == u \o q
           w == <<f>> \o v
<1>9. /\ w # <<>> /\ Head(w) = f /\ Tail(w) = v /\ w[1] = f
  <2>1. v \in Seq(S)
    BY <1>7
  <2> HIDE DEF v
  <2>2. /\ w \in Seq(S) /\ Len(w) = 1 + Len(v)
        /\ \A i \in 1..(1 + Len(v)) : w[i] = IF i <= 1 THEN f ELSE v[i - 1]
    <3>1. Len(<<f>>) = 1 /\ <<f>>[1] = f
      OBVIOUS
    <3>2. /\ w \in Seq(S) /\ Len(w) = Len(<<f>>) + Len(v)
          /\ \A i \in 1..(Len(<<f>>) + Len(v)) :
               w[i] = IF i <= Len(<<f>>) THEN <<f>>[i] ELSE v[i - Len(<<f>>)]
      BY <1>7, <2>1, ConcatProperties
    <3> HIDE DEF w
    <3>3. ASSUME NEW i \in 1..(1 + Len(v)) PROVE w[i] = IF i <= 1 THEN f ELSE v[i - 1]
      <4>1. Len(v) \in Nat
        BY <2>1, LenProperties
      <4>2. i <= 1 => i = 1
        BY <4>1
      <4> QED BY <3>1, <3>2, <4>1, <4>2
    <3> QED BY <3>1, <3>2, <3>3
  <2> HIDE DEF w
  <2>3. Len(v) \in Nat
    BY <2>1, LenProperties
  <2>4. w # <<>> /\ w[1] = f /\ Head(w) = w[1]
    <3>1. Len(w) # 0
      BY <2>2, <2>3
    <3>2. w # <<>>
      BY <3>1, EmptySeq
    <3>3. w[1] = f
      BY <2>2, <2>3
    <3> QED BY <3>2, <3>3
  <2>5. Tail(w) = v
    <3>1. /\ Tail(w) \in Seq(S) /\ Len(Tail(w)) = Len(w) - 1
          /\ \A i \in 1..Len(Tail(w)) : Tail(w)[i] = w[i + 1]
      BY <2>2, <2>4, HeadTailProperties
    <3>2. Len(Tail(w)) = Len(v)
      BY <2>2, <2>3, <3>1
    <3>3. ASSUME NEW i \in 1..Len(Tail(w)) PROVE Tail(w)[i] = v[i]
      <4>1. i + 1 \in 1..(1 + Len(v)) /\ ~(i + 1 <= 1) /\ (i + 1) - 1 = i
        BY <2>3, <3>2
      <4> QED BY <2>2, <3>1, <4>1
    <3> QED BY <2>1, <3>1, <3>2, <3>3, SeqEqual
  <2> QED BY <2>4, <2>5
<1>10. Todo(b, n, q) = w /\ Todo(b, n + 1, q) = v
  BY <1>1, <1>8 DEF Todo, t, u
<1> QED BY <1>9, <1>10 DEF f

\* The swap at the head of do_pending_functions, and the end of the batch.
LEMMA TodoSwap ==
  ASSUME NEW S, NEW q \in Seq(S)
  PROVE  /\ Todo(<<>>, 0, q) = q
         /\ Todo(q, 0, <<>>) = q
         /\ Todo(q, Len(q), <<>>) = <<>>
<1>1. Len(q) \in Nat /\ <<>> \in Seq(S) /\ Len(<<>>) = 0
  BY LenProperties, EmptySeq
<1>2. SubSeq(<<>>, 0 + 1, Len(<<>>)) = <<>>
  BY <1>1, SubSeqEmpty
<1>3. SubSeq(q, 0 + 1, Len(q)) = q
  BY SubSeqFull
<1>4. SubSeq(q, Len(q) + 1, Len(q)) = <<>>
  BY <1>1, SubSeqEmpty
<1>5. <<>> \o q = q /\ q \o <<>> = q
  BY ConcatEmptySeq
<1>6. <<>> \o <<>> = <<>>
  BY <1>1, ConcatEmptySeq
<1> QED BY <1>2, <1>3, <1>4, <1>5, <1>6, Zenon DEF Todo

LEMMA TodoEnd ==
  ASSUME NEW S, NEW b \in Seq(S), NEW q \in Seq(S)
  PROVE  Todo(b, Len(b), q) = q
<1>1. Len(b) \in Nat
  BY LenProperties
<1>2. SubSeq(b, Len(b) + 1, Len(b)) = <<>>
  BY <1>1, SubSeqEmpty
<1>3. <<>> \o q = q
  BY ConcatEmptySeq
<1> QED BY <1>2, <1>3, Zenon DEF Todo

\* What is still to be run is in one of the two vectors.
LEMMA TodoRange ==
  ASSUME NEW S, NEW b \in Seq(S), NEW n \in 0..Len(b), NEW q \in Seq(S)
  PROVE  /\ Range(Todo(b, n, q)) = {b[i] : i \in (n + 1)..Len(b)} \cup Range(q)
         /\ Range(Todo(b, n, q)) \subseteq Range(b) \cup Range(q)
<1> DEFINE t == SubSeq(b, n + 1, Len(b))
<1>1. /\ t \in Seq(S) /\ Len(t) = Len(b) - n
      /\ \A i \in 1..(Len(b) - n) : t[i] = b[n + i]
  BY RestType
<1> HIDE DEF t
<1>2. Len(b) \in Nat /\ n \in Nat /\ n <= Len(b)
  BY LenProperties
<1>3. Range(t) = {t[i] : i \in 1..Len(t)} /\ Range(b) = {b[i] : i \in 1..Len(b)}
  BY <1>1, RangeEquality
<1>4. Range(t) = {b[i] : i \in (n + 1)..Len(b)}
  <2>1. ASSUME NEW i \in (n + 1)..Len(b) PROVE b[i] \in Range(t)
    <3>1. i - n \in 1..(Len(b) - n) /\ n + (i - n) = i
      BY <1>2
    <3> QED BY <1>1, <1>3, <3>1
  <2>2. ASSUME NEW i \in 1..(Len(b) - n) PROVE t[i] \in {b[j] : j \in (n + 1)..Len(b)}
    <3>1. n + i \in (n + 1)..Len(b)
      BY <1>2
    <3> QED BY <1>1, <3>1
  <2> QED BY <1>1, <1>3, <2>1, <2>2
<1>5. {b[i] : i \in (n + 1)..Len(b)} \subseteq Range(b)
  BY <1>2, <1>3
<1>6. Range(t \o q) = Range(t) \cup Range(q)
  BY <1>1, RangeConcatenation
<1> QED BY <1>4, <1>5, <1>6 DEF Todo, t
=============================================================================
