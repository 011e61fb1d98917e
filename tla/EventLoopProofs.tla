------------------------- MODULE EventLoopProofs -------------------------
(***************************************************************************)
(* Proofs about EventLoop for every set of threads and of functors.        *)
(***************************************************************************)
EXTENDS EventLoop, SequenceTheorems, TLAPS

\* What the operations of the vector of functors do to its contents.
LEMMA AppendRange ==
  ASSUME NEW s \in Seq(Tasks), NEW t \in Tasks
  PROVE  Range(Append(s, t)) = Range(s) \cup {t}
<1>1. Append(s, t) \in Seq(Tasks) /\ Len(Append(s, t)) = Len(s) + 1
      /\ (\A i \in 1..Len(s) : Append(s, t)[i] = s[i])
      /\ Append(s, t)[Len(s) + 1] = t
  BY AppendProperties
<1>2. DOMAIN s = 1..Len(s) /\ DOMAIN Append(s, t) = 1..(Len(s) + 1) /\ Len(s) \in Nat
  BY <1>1, LenProperties
<1>3. QED
  BY <1>1, <1>2 DEF Range

LEMMA EmptyRange == Range(<<>>) = {}
BY DEF Range

-----------------------------------------------------------------------------
LEMMA TypeInit == Init => TypeOK
<1> SUFFICES ASSUME Init PROVE TypeOK
  OBVIOUS
<1>1. FlagTypes
  BY DEF Init, FlagTypes, Points
<1>2. QueueTypes
  BY DEF Init, QueueTypes
<1>3. WakeTypes
  BY QuitAssumption DEF Init, WakeTypes
<1>4. QED
  BY <1>1, <1>2, <1>3 DEF TypeOK

LEMMA TypeNext == TypeOK /\ [Next]_vars => TypeOK'
<1> SUFFICES ASSUME TypeOK, [Next]_vars PROVE TypeOK'
  OBVIOUS
<1> USE DEF TypeOK
<1>1. ASSUME NEW th \in Threads, NEW t \in Tasks, QueueInLoop(th, t) PROVE TypeOK'
  <2>1. FlagTypes'
    BY <1>1 DEF QueueInLoop, loopVars, MayCall, FlagTypes, Points
  <2>2. QueueTypes'
    BY <1>1 DEF QueueInLoop, loopVars, MayCall, QueueTypes
  <2>3. WakeTypes'
    BY <1>1 DEF QueueInLoop, loopVars, MayCall, WakeTypes
  <2>4. QED
    BY <2>1, <2>2, <2>3
<1>2. ASSUME NEW t \in Tasks, RunNow(t) PROVE TypeOK'
  <2>1. FlagTypes'
    BY <1>2 DEF RunNow, loopVars, FlagTypes, Points
  <2>2. QueueTypes'
    BY <1>2 DEF RunNow, loopVars, QueueTypes
  <2>3. WakeTypes'
    BY <1>2 DEF RunNow, loopVars, WakeTypes
  <2>4. QED
    BY <2>1, <2>2, <2>3
<1>3. ASSUME NEW th \in Threads, Quit(th) PROVE TypeOK'
  <2>1. FlagTypes'
    BY <1>3 DEF Quit, loopVars, MayCall, FlagTypes, Points
  <2>2. QueueTypes'
    BY <1>3 DEF Quit, loopVars, MayCall, QueueTypes
  <2>3. WakeTypes'
    BY <1>3, QuitAssumption DEF Quit, loopVars, MayCall, WakeTypes
  <2>4. QED
    BY <2>1, <2>2, <2>3
<1>4. ASSUME NEW th \in Threads, QueueWakeup(th) PROVE TypeOK'
  <2>1. FlagTypes'
    BY <1>4 DEF QueueWakeup, loopVars, FlagTypes, Points
  <2>2. QueueTypes'
    BY <1>4 DEF QueueWakeup, loopVars, QueueTypes
  <2>3. WakeTypes'
    BY <1>4 DEF QueueWakeup, loopVars, WakeTypes
  <2>4. QED
    BY <2>1, <2>2, <2>3
<1>5. ASSUME NEW th \in Threads, QuitWakeup(th) PROVE TypeOK'
  <2>1. FlagTypes'
    BY <1>5 DEF QuitWakeup, loopVars, FlagTypes, Points
  <2>2. QueueTypes'
    BY <1>5 DEF QuitWakeup, loopVars, QueueTypes
  <2>3. WakeTypes'
    BY <1>5 DEF QuitWakeup, loopVars, WakeTypes
  <2>4. QED
    BY <2>1, <2>2, <2>3
<1>6. CASE LoopBegin
  <2>1. FlagTypes'
    BY <1>6 DEF LoopBegin, At, FlagTypes, Points
  <2>2. QueueTypes'
    BY <1>6 DEF LoopBegin, At, QueueTypes
  <2>3. WakeTypes'
    BY <1>6 DEF LoopBegin, At, WakeTypes
  <2>4. QED
    BY <2>1, <2>2, <2>3
<1>7. CASE LoopCheck
  <2>1. FlagTypes'
    BY <1>7 DEF LoopCheck, At, FlagTypes, Points
  <2>2. QueueTypes'
    BY <1>7 DEF LoopCheck, At, QueueTypes
  <2>3. WakeTypes'
    BY <1>7 DEF LoopCheck, At, WakeTypes
  <2>4. QED
    BY <2>1, <2>2, <2>3
<1>8. CASE PollReturn
  <2>1. FlagTypes'
    BY <1>8 DEF PollReturn, At, FlagTypes, Points
  <2>2. QueueTypes'
    BY <1>8 DEF PollReturn, At, QueueTypes
  <2>3. WakeTypes'
    BY <1>8 DEF PollReturn, At, WakeTypes, Readable
  <2>4. QED
    BY <2>1, <2>2, <2>3
<1>9. CASE PollTimeout
  <2>1. FlagTypes'
    BY <1>9 DEF PollTimeout, At, FlagTypes, Points
  <2>2. QueueTypes'
    BY <1>9 DEF PollTimeout, At, QueueTypes
  <2>3. WakeTypes'
    BY <1>9 DEF PollTimeout, At, WakeTypes
  <2>4. QED
    BY <2>1, <2>2, <2>3
<1>10. CASE HandleRead
  <2>1. FlagTypes'
    BY <1>10 DEF HandleRead, At, FlagTypes, Points
  <2>2. QueueTypes'
    BY <1>10 DEF HandleRead, At, QueueTypes
  <2>3. WakeTypes'
    BY <1>10 DEF HandleRead, At, WakeTypes
  <2>4. QED
    BY <2>1, <2>2, <2>3
<1>11. CASE HandleIo
  <2>1. FlagTypes'
    BY <1>11 DEF HandleIo, At, FlagTypes, Points
  <2>2. QueueTypes'
    BY <1>11 DEF HandleIo, At, QueueTypes
  <2>3. WakeTypes'
    BY <1>11 DEF HandleIo, At, WakeTypes
  <2>4. QED
    BY <2>1, <2>2, <2>3
<1>12. CASE CallbackReturn
  <2>1. FlagTypes'
    BY <1>12 DEF CallbackReturn, FlagTypes, Points
  <2>2. QueueTypes'
    BY <1>12 DEF CallbackReturn, QueueTypes
  <2>3. WakeTypes'
    BY <1>12 DEF CallbackReturn, WakeTypes
  <2>4. QED
    BY <2>1, <2>2, <2>3
<1>13. CASE HandleDone
  <2>1. FlagTypes'
    BY <1>13 DEF HandleDone, At, FlagTypes, Points
  <2>2. QueueTypes'
    BY <1>13 DEF HandleDone, At, QueueTypes
  <2>3. WakeTypes'
    BY <1>13 DEF HandleDone, At, WakeTypes
  <2>4. QED
    BY <2>1, <2>2, <2>3
<1>14. CASE DrainBegin
  <2>1. FlagTypes'
    BY <1>14 DEF DrainBegin, At, FlagTypes, Points
  <2>2. QueueTypes'
    BY <1>14 DEF DrainBegin, At, QueueTypes
  <2>3. WakeTypes'
    BY <1>14 DEF DrainBegin, At, WakeTypes
  <2>4. QED
    BY <2>1, <2>2, <2>3
<1>15. CASE RunFunctor
  <2>1. FlagTypes'
    BY <1>15 DEF RunFunctor, At, FlagTypes, Points
  <2>2. Head(functors) \in Tasks /\ Tail(functors) \in Seq(Tasks)
    BY <1>15, HeadTailProperties DEF RunFunctor, QueueTypes
  <2>3. QueueTypes'
    BY <1>15, <2>2 DEF RunFunctor, At, QueueTypes
  <2>4. WakeTypes'
    BY <1>15 DEF RunFunctor, At, WakeTypes
  <2>5. QED
    BY <2>1, <2>3, <2>4
<1>16. CASE DrainEnd
  <2>1. FlagTypes'
    BY <1>16 DEF DrainEnd, At, FlagTypes, Points
  <2>2. QueueTypes'
    BY <1>16 DEF DrainEnd, At, QueueTypes
  <2>3. WakeTypes'
    BY <1>16 DEF DrainEnd, At, WakeTypes
  <2>4. QED
    BY <2>1, <2>2, <2>3
<1>17. CASE UNCHANGED vars
  BY <1>17 DEF vars, FlagTypes, QueueTypes, WakeTypes
<1>18. QED
  BY <1>1, <1>2, <1>3, <1>4, <1>5, <1>6, <1>7, <1>8, <1>9, <1>10, <1>11, <1>12, <1>13, <1>14, <1>15, <1>16, <1>17
  DEF Next, LoopStep, Call, FinishCall, RunInLoop

\* Every variable of an event_loop keeps its type, looping_ is up exactly
\* inside loop() and calling_pending_functors_ exactly while functors run.
THEOREM TypeCorrect == Spec => []TypeOK
<1>1. QED
  BY TypeInit, TypeNext, PTL DEF Spec

-----------------------------------------------------------------------------
(* No wakeup is lost.  WakeInv is the inductive form of NoLostWakeup.      *)

LEMMA WakeInit == Init => WakeInv
BY EmptyRange DEF Init, WakeInv

LEMMA WakeNext == TypeOK /\ WakeInv /\ [Next]_vars => WakeInv'
<1> SUFFICES ASSUME TypeOK, WakeInv, [Next]_vars PROVE WakeInv'
  OBVIOUS
<1> USE DEF WakeInv
<1>t. pending_functors \in Seq(Tasks) /\ op \in [Threads -> {"none", "pushed", "quit"}]
      /\ wakeup_fd \in Nat /\ (calling_pending_functors <=> pc \in {"run", "funcb"})
  BY DEF TypeOK, QueueTypes, WakeTypes, FlagTypes
\* The functor is new in the queue: its thread owes a wakeup, or it is the
\* owner outside loop(), or the owner before do_pending_functions.
<1>1. ASSUME NEW th \in Threads, NEW t \in Tasks, QueueInLoop(th, t) PROVE WakeInv'
  <2>1. Range(pending_functors') = Range(pending_functors) \cup {t}
    BY <1>1, <1>t, AppendRange DEF QueueInLoop
  <2>2. op'[th] = "pushed" /\ (\A u \in Threads : op[u] = "pushed" => op'[u] = "pushed")
    BY <1>1, <1>t DEF QueueInLoop, MayCall
  <2>3. CASE th \in Others
    BY <2>2, <2>3
  <2>4. CASE th = Owner
    <3>1. pc' = pc /\ pc \in UserCode /\ wakeup_fd' = wakeup_fd
      BY <1>1, <2>4 DEF QueueInLoop, MayCall, loopVars
    <3>2. CASE pc = "idle"
      <4>1. early' = early \cup {t}
        BY <1>1, <2>4, <3>2 DEF QueueInLoop
      <4>2. \A u \in Others : op[u] = "pushed" => op'[u] = "pushed"
        BY <2>2 DEF Threads
      <4>3. QED
        BY <2>1, <3>1, <3>2, <4>1, <4>2
    <3>3. CASE pc # "idle"
      BY <2>2, <2>4, <3>1, <3>3 DEF UserCode
    <3>4. QED
      BY <3>2, <3>3
  <2>5. QED
    BY <2>3, <2>4 DEF Threads
<1>2. ASSUME NEW t \in Tasks, RunNow(t) PROVE WakeInv'
  BY <1>2 DEF RunNow, loopVars
<1>3. ASSUME NEW th \in Threads, Quit(th) PROVE WakeInv'
  <2>1. \A u \in Threads : op[u] = "pushed" => op'[u] = "pushed"
    BY <1>3, <1>t DEF Quit, MayCall
  <2>2. QED
    BY <1>3, <2>1 DEF Quit, loopVars, Threads
\* The call ends: the eventfd is written, except by the owner outside
\* do_pending_functions, which WakeInv does not count on.
<1>4. ASSUME NEW th \in Threads, QueueWakeup(th) PROVE WakeInv'
  <2>1. CASE NeedsWakeup(th)
    BY <1>4, <1>t, <2>1 DEF QueueWakeup
  <2>2. CASE ~NeedsWakeup(th)
    <3>1. th = Owner /\ pc \notin {"run", "funcb"}
      BY <1>t, <2>2 DEF NeedsWakeup, in_loop_thread
    <3>2. \A u \in Others : op'[u] = op[u]
      BY <1>4, <1>t, <3>1, ThreadAssumption DEF QueueWakeup, Threads
    <3>3. QED
      BY <1>4, <2>2, <3>1, <3>2 DEF QueueWakeup, loopVars
  <2>3. QED
    BY <2>1, <2>2
<1>5. ASSUME NEW th \in Threads, QuitWakeup(th) PROVE WakeInv'
  <2>1. \A u \in Threads : op[u] = "pushed" => op'[u] = "pushed"
    BY <1>5, <1>t DEF QuitWakeup
  <2>2. wakeup_fd > 0 => wakeup_fd' > 0
    BY <1>5, <1>t DEF QuitWakeup
  <2>3. QED
    BY <1>5, <2>1, <2>2 DEF QuitWakeup, loopVars, Threads
<1>6. CASE LoopBegin
  BY <1>6 DEF LoopBegin, At
<1>7. CASE LoopCheck
  BY <1>7 DEF LoopCheck, At
<1>8. CASE PollReturn
  BY <1>8 DEF PollReturn, At
<1>9. CASE PollTimeout
  BY <1>9 DEF PollTimeout, At
<1>10. CASE HandleRead
  BY <1>10 DEF HandleRead, At
<1>11. CASE HandleIo
  BY <1>11 DEF HandleIo, At
<1>12. CASE CallbackReturn
  BY <1>12 DEF CallbackReturn
<1>13. CASE HandleDone
  BY <1>13 DEF HandleDone, At
\* The swap empties the queue.
<1>14. CASE DrainBegin
  BY <1>14, EmptyRange DEF DrainBegin, At
<1>15. CASE RunFunctor
  BY <1>15 DEF RunFunctor, At
<1>16. CASE DrainEnd
  BY <1>16 DEF DrainEnd, At
<1>17. CASE UNCHANGED vars
  BY <1>17 DEF vars
<1>18. QED
  BY <1>1, <1>2, <1>3, <1>4, <1>5, <1>6, <1>7, <1>8, <1>9, <1>10, <1>11, <1>12,
     <1>13, <1>14, <1>15, <1>16, <1>17
  DEF Next, LoopStep, Call, FinishCall, RunInLoop

\* While a functor that must not wait is in the queue, the owner is on its
\* way to do_pending_functions or somebody has written the eventfd or will.
THEOREM WakeCorrect == Spec => []WakeInv
<1>1. QED
  BY TypeInit, TypeNext, WakeInit, WakeNext, PTL DEF Spec

\* The owner never sleeps in poll_wait, with the eventfd empty and nobody
\* about to write it, on a functor that was queued while loop() ran.
THEOREM NoWakeupLost == Spec => []NoLostWakeup
<1>1. TypeOK /\ WakeInv => NoLostWakeup
  BY DEF WakeInv, NoLostWakeup, TypeOK, WakeTypes
<1>2. QED
  BY <1>1, TypeCorrect, WakeCorrect, PTL

-----------------------------------------------------------------------------
(* The loop implements FunctorQueue.                                       *)

LEMMA ConcatAppend ==
  ASSUME NEW s \in Seq(Tasks), NEW r \in Seq(Tasks), NEW t \in Tasks
  PROVE  s \o Append(r, t) = Append(s \o r, t)
<1>1. <<t>> \in Seq(Tasks) /\ s \o r \in Seq(Tasks)
  BY ConcatProperties
<1>2. Append(r, t) = r \o <<t>> /\ Append(s \o r, t) = (s \o r) \o <<t>>
  BY <1>1, AppendIsConcat
<1>3. QED
  BY <1>1, <1>2, ConcatAssociative

LEMMA ConcatHeadTail ==
  ASSUME NEW s \in Seq(Tasks), NEW r \in Seq(Tasks), s # <<>>
  PROVE  /\ s \o r # <<>>
         /\ Head(s \o r) = Head(s)
         /\ Tail(s \o r) = Tail(s) \o r
<1>1. /\ s \o r \in Seq(Tasks)
      /\ Len(s \o r) = Len(s) + Len(r)
      /\ \A i \in 1..(Len(s) + Len(r)) :
           (s \o r)[i] = IF i <= Len(s) THEN s[i] ELSE r[i - Len(s)]
  BY ConcatProperties
<1>2. Len(s) \in Nat \ {0} /\ Len(r) \in Nat
  BY EmptySeq, LenProperties
<1>3. s \o r # <<>>
  BY <1>1, <1>2, EmptySeq
<1>4. Head(s \o r) = Head(s)
  BY <1>1, <1>2
<1>5. /\ Tail(s) \in Seq(Tasks) /\ Len(Tail(s)) = Len(s) - 1
      /\ \A i \in 1..Len(Tail(s)) : Tail(s)[i] = s[i + 1]
  BY HeadTailProperties
<1>6. /\ Tail(s \o r) \in Seq(Tasks) /\ Len(Tail(s \o r)) = Len(s \o r) - 1
      /\ \A i \in 1..Len(Tail(s \o r)) : Tail(s \o r)[i] = (s \o r)[i + 1]
  BY <1>1, <1>3, HeadTailProperties
<1>7. /\ Tail(s) \o r \in Seq(Tasks)
      /\ Len(Tail(s) \o r) = Len(Tail(s)) + Len(r)
      /\ \A i \in 1..(Len(Tail(s)) + Len(r)) :
           (Tail(s) \o r)[i] = IF i <= Len(Tail(s)) THEN Tail(s)[i] ELSE r[i - Len(Tail(s))]
  BY <1>5, ConcatProperties
<1>8. Len(Tail(s \o r)) = Len(Tail(s) \o r)
  BY <1>1, <1>2, <1>5, <1>6, <1>7
<1>9. ASSUME NEW i \in 1..Len(Tail(s \o r)) PROVE Tail(s \o r)[i] = (Tail(s) \o r)[i]
  BY <1>1, <1>2, <1>5, <1>6, <1>7, <1>9
<1>10. Tail(s \o r) = Tail(s) \o r
  BY <1>6, <1>7, <1>8, <1>9, SeqEqual
<1>11. QED
  BY <1>3, <1>4, <1>10

LEMMA QueueInit == Init => Queue!Init
BY ConcatEmptySeq, EmptySeq DEF Init, Queue!Init

LEMMA QueueNext == TypeOK /\ [Next]_vars => [Queue!Next]_(Queue!vars)
<1> SUFFICES ASSUME TypeOK, [Next]_vars PROVE [Queue!Next]_(Queue!vars)
  OBVIOUS
<1>t. /\ pending_functors \in Seq(Tasks) /\ functors \in Seq(Tasks)
      /\ (functors # <<>> => pc \in {"run", "funcb"})
  BY DEF TypeOK, QueueTypes
<1>f. ASSUME NEW t, Fresh(t) PROVE Queue!Fresh(t)
  BY <1>t, <1>f, RangeConcatenation DEF Fresh, Queue!Fresh, Range, Queue!Range
<1>1. ASSUME NEW th \in Threads, NEW t \in Tasks, QueueInLoop(th, t) PROVE Queue!Submit(t)
  <2>1. functors' = functors /\ pending_functors' = Append(pending_functors, t)
        /\ executed' = executed
    BY <1>1 DEF QueueInLoop, loopVars
  <2>2. functors \o Append(pending_functors, t) = Append(functors \o pending_functors, t)
    BY <1>t, ConcatAppend
  <2>3. Fresh(t)
    BY <1>1 DEF QueueInLoop
  <2>4. QED
    BY <1>f, <2>1, <2>2, <2>3 DEF Queue!Submit
<1>2. ASSUME NEW t \in Tasks, RunNow(t) PROVE Queue!RunNow(t)
  BY <1>2, <1>f DEF RunNow, Queue!RunNow, loopVars
<1>3. CASE DrainBegin
  <2>1. functors = <<>>
    BY <1>3, <1>t DEF DrainBegin, At
  <2>2. functors' = pending_functors /\ pending_functors' = <<>> /\ executed' = executed
    BY <1>3 DEF DrainBegin
  <2>3. <<>> \o pending_functors = pending_functors \o <<>>
    BY <1>t, ConcatEmptySeq
  <2>4. QED
    BY <2>1, <2>2, <2>3 DEF Queue!vars
<1>4. CASE RunFunctor
  <2>1. functors # <<>> /\ functors' = Tail(functors) /\ pending_functors' = pending_functors
        /\ executed' = Append(executed, Head(functors))
    BY <1>4 DEF RunFunctor
  <2>2. QED
    BY <1>t, <2>1, ConcatHeadTail DEF Queue!Next, Queue!Execute
<1>5. ASSUME UNCHANGED <<functors, pending_functors, executed>> PROVE UNCHANGED Queue!vars
  BY <1>5 DEF Queue!vars
<1>6. ASSUME NEW th \in Threads, Quit(th) \/ FinishCall(th) PROVE UNCHANGED Queue!vars
  BY <1>5, <1>6 DEF Quit, FinishCall, QueueWakeup, QuitWakeup, loopVars
<1>7. CASE LoopBegin \/ PollTimeout \/ LoopCheck \/ PollReturn \/ HandleRead
  BY <1>5, <1>7 DEF LoopBegin, PollTimeout, LoopCheck, PollReturn, HandleRead
<1>8. CASE HandleIo \/ CallbackReturn \/ HandleDone \/ DrainEnd
  BY <1>5, <1>8 DEF HandleIo, CallbackReturn, HandleDone, DrainEnd
<1>9. CASE UNCHANGED vars
  BY <1>5, <1>9 DEF vars
<1>10. QED
  BY <1>1, <1>2, <1>3, <1>4, <1>6, <1>7, <1>8, <1>9
  DEF Next, LoopStep, Call, RunInLoop, Queue!Next

\* Functors run once each and in the order of queueing, however the threads
\* interleave and however do_pending_functions cuts the queue into batches.
THEOREM Fifo == Spec => RunsInOrder
<1>1. QED
  BY TypeInit, TypeNext, QueueInit, QueueNext, PTL DEF Spec, RunsInOrder, Queue!Spec
=============================================================================
