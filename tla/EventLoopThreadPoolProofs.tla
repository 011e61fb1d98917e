--------------------- MODULE EventLoopThreadPoolProofs ---------------------
(***************************************************************************)
(* Proofs about EventLoopThreadPool for every number of threads.           *)
(***************************************************************************)
EXTENDS EventLoopThreadPool, FiniteSetTheorems, TLAPS

Starting == owner \in {"start", "sem", "lock", "wait"}

\* The destructor of the thread of w has stored quit_.
Passed(w) ==
  \/ (owner \in {"dtor", "quit"} /\ w < cur)
  \/ (owner \in {"wakeup", "join"} /\ w <= cur)
  \/ owner = "done"

\* While the pool starts, the threads before cur are in loops_, those after it
\* are not created, and an owner that waits is going to be notified.
StartInv ==
  /\ (Starting => loops_ = 1..(cur - 1))
  /\ (~Starting => loops_ = Workers)
  /\ (Starting => \A w \in Workers : w > cur => worker[w] = "none")
  /\ (owner = "start" => worker[cur] = "none")
  /\ (owner \in {"sem", "lock"} => worker[cur] # "none")
  /\ (owner = "wait" => worker[cur] \in {"begin", "init", "publish"})

\* loop_ is set exactly from its publication to the end of the thread; a loop
\* in loops_ has been published; and only a destructor makes a loop end.
WorkerInv ==
  \A w \in Workers :
    /\ (loop_[w] <=> worker[w] \in {"enter", "check", "poll", "left"})
    /\ (w \in loops_ => worker[w] \notin {"none", "begin", "init", "publish"})
    /\ (quit[w] => Passed(w))
    /\ (worker[w] \in {"left", "gone"} => Passed(w))

\* The loops before next_ have been dealt out once more than the others.
Ahead(w) == IF w <= next_ THEN 1 ELSE 0
DealInv == \A v, w \in Workers : dealt[v] + Ahead(w) = dealt[w] + Ahead(v)

Inv == TypeOK /\ StartInv /\ WorkerInv /\ DealInv

\* There are never more loops than threads.
LEMMA LoopsCount ==
  /\ IsFiniteSet(Workers)
  /\ Cardinality(Workers) = NumThreads
  /\ \A S \in SUBSET Workers : Cardinality(S) \in Nat /\ Cardinality(S) <= NumThreads
<1>1. IsFiniteSet(1..NumThreads) /\ Cardinality(1..NumThreads) = NumThreads
  BY FS_Interval, ThreadsAssumption
<1>2. ASSUME NEW S \in SUBSET Workers
      PROVE  Cardinality(S) \in Nat /\ Cardinality(S) <= NumThreads
  BY <1>1, FS_Subset, FS_CardinalityType DEF Workers
<1>3. QED
  BY <1>1, <1>2 DEF Workers

\* The three ways of the test in start_loop.
LEMMA LockCases ==
  ASSUME StartLoopLock, TypeOK
  PROVE  /\ owner = "lock"
         /\ UNCHANGED <<worker, sem, loop_, quit, wakeup_fd, next_, dealt>>
         /\ \/ ~loop_[cur] /\ owner' = "wait" /\ UNCHANGED <<loops_, cur>>
            \/ /\ loop_[cur] /\ cur = NumThreads /\ owner' = "started"
               /\ loops_' = loops_ \cup {cur} /\ UNCHANGED cur
            \/ /\ loop_[cur] /\ cur < NumThreads /\ owner' = "start"
               /\ loops_' = loops_ \cup {cur} /\ cur' = cur + 1
BY ThreadsAssumption DEF StartLoopLock, TypeOK, Workers

-----------------------------------------------------------------------------
LEMMA TypeInit == Init => TypeOK
BY ThreadsAssumption, CallsAssumption
DEF Init, TypeOK, Workers, OwnerPoints, WorkerPoints

LEMMA TypeNext == TypeOK /\ [Next]_vars => TypeOK'
<1> SUFFICES ASSUME TypeOK, [Next]_vars PROVE TypeOK'
  OBVIOUS
<1> USE ThreadsAssumption, CallsAssumption
        DEF TypeOK, Workers, OwnerPoints, WorkerPoints, ownerVars, poolVars
<1>1. CASE ThreadStart
  BY <1>1 DEF ThreadStart
<1>2. CASE SemWait
  BY <1>2 DEF SemWait
<1>3. CASE StartLoopLock
  <2>1. UNCHANGED <<worker, sem, loop_, quit, wakeup_fd, next_, dealt>>
    BY <1>3 DEF StartLoopLock
  <2>2. owner' \in OwnerPoints /\ loops_' \subseteq Workers
    BY <1>3 DEF StartLoopLock
  <2>3. cur' \in Workers
    BY <1>3 DEF StartLoopLock
  <2>4. QED
    BY <2>1, <2>2, <2>3
<1>4. CASE DtorTest
  BY <1>4 DEF DtorTest
<1>5. CASE DtorQuit
  BY <1>5 DEF DtorQuit
<1>6. CASE DtorWakeup
  BY <1>6 DEF DtorWakeup, Alive
<1>7. CASE DtorJoin
  BY <1>7 DEF DtorJoin
<1>8. CASE GetNextLoop
  BY <1>8, LoopsCount DEF GetNextLoop, NextIndex
<1>9. CASE PoolDtor
  BY <1>9 DEF PoolDtor
<1>10. ASSUME NEW w \in Workers, SemPost(w) PROVE TypeOK'
  BY <1>10 DEF SemPost, Goes
<1>11. ASSUME NEW w \in Workers, LoopCtor(w) PROVE TypeOK'
  BY <1>11 DEF LoopCtor, Goes
<1>12. ASSUME NEW w \in Workers, Publish(w) PROVE TypeOK'
  BY <1>12 DEF Publish, Goes
<1>13. ASSUME NEW w \in Workers, LoopEnter(w) PROVE TypeOK'
  BY <1>13 DEF LoopEnter, Goes
<1>14. ASSUME NEW w \in Workers, LoopCheck(w) PROVE TypeOK'
  BY <1>14 DEF LoopCheck, Goes
<1>15. ASSUME NEW w \in Workers, LoopWoken(w) PROVE TypeOK'
  BY <1>15 DEF LoopWoken, Goes
<1>16. ASSUME NEW w \in Workers, LoopOther(w) PROVE TypeOK'
  BY <1>16 DEF LoopOther, Goes
<1>17. ASSUME NEW w \in Workers, Leave(w) PROVE TypeOK'
  BY <1>17 DEF Leave, Goes
<1>18. CASE UNCHANGED vars
  BY <1>18 DEF vars
<1>19. QED
  BY <1>1, <1>2, <1>3, <1>4, <1>5, <1>6, <1>7, <1>8, <1>9, <1>10, <1>11, <1>12, <1>13, <1>14, <1>15, <1>16, <1>17, <1>18 DEF Next, OwnerStep, WorkerStep

LEMMA StartInit == Init => StartInv
BY ThreadsAssumption DEF Init, StartInv, Starting, Workers

LEMMA StartNext == TypeOK /\ StartInv /\ WorkerInv /\ [Next]_vars => StartInv'
<1> SUFFICES ASSUME TypeOK, StartInv, WorkerInv, [Next]_vars PROVE StartInv'
  OBVIOUS
<1> USE ThreadsAssumption
        DEF TypeOK, StartInv, Starting, Workers, OwnerPoints, ownerVars, poolVars
<1>1. CASE ThreadStart
  BY <1>1 DEF ThreadStart
<1>2. CASE SemWait
  BY <1>2 DEF SemWait
<1>3. CASE StartLoopLock
  <2>1. owner = "lock" /\ loops_ = 1..(cur - 1) /\ UNCHANGED worker
    BY <1>3 DEF StartLoopLock
  <2>2. CASE owner' = "wait" /\ ~loop_[cur] /\ UNCHANGED <<loops_, cur>>
    <3>1. worker[cur] \in {"begin", "init", "publish"}
      BY <2>2, <2>1 DEF WorkerInv, Passed, WorkerPoints
    <3>2. QED
      BY <2>1, <2>2, <3>1
  <2>3. CASE owner' = "started" /\ loops_' = loops_ \cup {cur} /\ cur = NumThreads
    BY <2>1, <2>3
  <2>4. CASE owner' = "start" /\ loops_' = loops_ \cup {cur} /\ cur' = cur + 1
             /\ cur < NumThreads
    BY <2>1, <2>4
  <2>5. QED
    BY <1>3, <2>2, <2>3, <2>4, LockCases
<1>4. CASE DtorTest
  BY <1>4 DEF DtorTest
<1>5. CASE DtorQuit
  BY <1>5 DEF DtorQuit
<1>6. CASE DtorWakeup
  BY <1>6 DEF DtorWakeup
<1>7. CASE DtorJoin
  BY <1>7 DEF DtorJoin
<1>8. CASE GetNextLoop
  BY <1>8 DEF GetNextLoop
<1>9. CASE PoolDtor
  BY <1>9 DEF PoolDtor
<1>10. ASSUME NEW w \in Workers, SemPost(w) PROVE StartInv'
  BY <1>10 DEF SemPost, Goes
<1>11. ASSUME NEW w \in Workers, LoopCtor(w) PROVE StartInv'
  BY <1>11 DEF LoopCtor, Goes
<1>12. ASSUME NEW w \in Workers, Publish(w) PROVE StartInv'
  BY <1>12 DEF Publish, Goes
<1>13. ASSUME NEW w \in Workers, LoopEnter(w) PROVE StartInv'
  BY <1>13 DEF LoopEnter, Goes
<1>14. ASSUME NEW w \in Workers, LoopCheck(w) PROVE StartInv'
  BY <1>14 DEF LoopCheck, Goes
<1>15. ASSUME NEW w \in Workers, LoopWoken(w) PROVE StartInv'
  BY <1>15 DEF LoopWoken, Goes
<1>16. ASSUME NEW w \in Workers, LoopOther(w) PROVE StartInv'
  BY <1>16 DEF LoopOther, Goes
<1>17. ASSUME NEW w \in Workers, Leave(w) PROVE StartInv'
  BY <1>17 DEF Leave, Goes
<1>18. CASE UNCHANGED vars
  BY <1>18 DEF vars
<1>19. QED
  BY <1>1, <1>2, <1>3, <1>4, <1>5, <1>6, <1>7, <1>8, <1>9, <1>10, <1>11, <1>12, <1>13, <1>14, <1>15, <1>16, <1>17, <1>18 DEF Next, OwnerStep, WorkerStep

LEMMA WorkerInit == Init => WorkerInv
BY DEF Init, WorkerInv

LEMMA WorkerNext == TypeOK /\ StartInv /\ WorkerInv /\ [Next]_vars => WorkerInv'
<1> SUFFICES ASSUME TypeOK, StartInv, WorkerInv, [Next]_vars PROVE WorkerInv'
  OBVIOUS
<1> USE ThreadsAssumption
        DEF TypeOK, WorkerInv, Passed, Workers, OwnerPoints, WorkerPoints, ownerVars, poolVars
<1>1. CASE ThreadStart
  BY <1>1 DEF ThreadStart, StartInv, Starting
<1>2. CASE SemWait
  BY <1>2 DEF SemWait
<1>3. CASE StartLoopLock
  BY <1>3 DEF StartLoopLock
<1>4. CASE DtorTest
  BY <1>4 DEF DtorTest
<1>5. CASE DtorQuit
  BY <1>5 DEF DtorQuit
<1>6. CASE DtorWakeup
  BY <1>6 DEF DtorWakeup
<1>7. CASE DtorJoin
  BY <1>7 DEF DtorJoin
<1>8. CASE GetNextLoop
  BY <1>8 DEF GetNextLoop
<1>9. CASE PoolDtor
  BY <1>9 DEF PoolDtor
<1>10. ASSUME NEW w \in Workers, SemPost(w) PROVE WorkerInv'
  BY <1>10 DEF SemPost, Goes
<1>11. ASSUME NEW w \in Workers, LoopCtor(w) PROVE WorkerInv'
  BY <1>11 DEF LoopCtor, Goes
<1>12. ASSUME NEW w \in Workers, Publish(w) PROVE WorkerInv'
  BY <1>12 DEF Publish, Goes
<1>13. ASSUME NEW w \in Workers, LoopEnter(w) PROVE WorkerInv'
  BY <1>13 DEF LoopEnter, Goes
<1>14. ASSUME NEW w \in Workers, LoopCheck(w) PROVE WorkerInv'
  BY <1>14 DEF LoopCheck, Goes
<1>15. ASSUME NEW w \in Workers, LoopWoken(w) PROVE WorkerInv'
  BY <1>15 DEF LoopWoken, Goes
<1>16. ASSUME NEW w \in Workers, LoopOther(w) PROVE WorkerInv'
  BY <1>16 DEF LoopOther, Goes
<1>17. ASSUME NEW w \in Workers, Leave(w) PROVE WorkerInv'
  BY <1>17 DEF Leave, Goes
<1>18. CASE UNCHANGED vars
  BY <1>18 DEF vars
<1>19. QED
  BY <1>1, <1>2, <1>3, <1>4, <1>5, <1>6, <1>7, <1>8, <1>9, <1>10, <1>11, <1>12, <1>13, <1>14, <1>15, <1>16, <1>17, <1>18 DEF Next, OwnerStep, WorkerStep

LEMMA DealInit == Init => DealInv
BY ThreadsAssumption DEF Init, DealInv, Ahead, Workers

LEMMA DealNext == TypeOK /\ StartInv /\ DealInv /\ [Next]_vars => DealInv'
<1> SUFFICES ASSUME TypeOK, StartInv, DealInv, [Next]_vars PROVE DealInv'
  OBVIOUS
<1> USE DEF DealInv, Ahead, poolVars
<1>1. CASE ThreadStart
  BY <1>1 DEF ThreadStart
<1>2. CASE SemWait
  BY <1>2 DEF SemWait
<1>3. CASE StartLoopLock
  BY <1>3 DEF StartLoopLock
<1>4. CASE DtorTest
  BY <1>4 DEF DtorTest
<1>5. CASE DtorQuit
  BY <1>5 DEF DtorQuit
<1>6. CASE DtorWakeup
  BY <1>6 DEF DtorWakeup
<1>7. CASE DtorJoin
  BY <1>7 DEF DtorJoin
<1>8. CASE GetNextLoop
  <2>1. loops_ = Workers /\ Cardinality(loops_) = NumThreads
    BY <1>8, LoopsCount DEF GetNextLoop, StartInv, Starting
  <2>2. /\ next_ + 1 \in Workers
        /\ dealt' = [dealt EXCEPT ![next_ + 1] = @ + 1]
        /\ next_' = IF next_ + 1 >= NumThreads THEN 0 ELSE next_ + 1
    BY <1>8, <2>1 DEF GetNextLoop, NextIndex
  <2>3. next_ \in Nat /\ NumThreads \in Nat /\ dealt \in [Workers -> Nat]
    BY ThreadsAssumption, CallsAssumption DEF TypeOK
  <2>4. QED
    BY <2>2, <2>3 DEF Workers
<1>9. CASE PoolDtor
  BY <1>9 DEF PoolDtor
<1>10. ASSUME NEW w \in Workers, SemPost(w) PROVE DealInv'
  BY <1>10 DEF SemPost, Goes
<1>11. ASSUME NEW w \in Workers, LoopCtor(w) PROVE DealInv'
  BY <1>11 DEF LoopCtor, Goes
<1>12. ASSUME NEW w \in Workers, Publish(w) PROVE DealInv'
  BY <1>12 DEF Publish, Goes
<1>13. ASSUME NEW w \in Workers, LoopEnter(w) PROVE DealInv'
  BY <1>13 DEF LoopEnter, Goes
<1>14. ASSUME NEW w \in Workers, LoopCheck(w) PROVE DealInv'
  BY <1>14 DEF LoopCheck, Goes
<1>15. ASSUME NEW w \in Workers, LoopWoken(w) PROVE DealInv'
  BY <1>15 DEF LoopWoken, Goes
<1>16. ASSUME NEW w \in Workers, LoopOther(w) PROVE DealInv'
  BY <1>16 DEF LoopOther, Goes
<1>17. ASSUME NEW w \in Workers, Leave(w) PROVE DealInv'
  BY <1>17 DEF Leave, Goes
<1>18. CASE UNCHANGED vars
  BY <1>18 DEF vars
<1>19. QED
  BY <1>1, <1>2, <1>3, <1>4, <1>5, <1>6, <1>7, <1>8, <1>9, <1>10, <1>11, <1>12, <1>13, <1>14, <1>15, <1>16, <1>17, <1>18 DEF Next, OwnerStep, WorkerStep

-----------------------------------------------------------------------------
LEMMA InvAlways == Spec => []Inv
<1>1. Init => Inv
  BY TypeInit, StartInit, WorkerInit, DealInit DEF Inv
<1>2. Inv /\ [Next]_vars => Inv'
  BY TypeNext, StartNext, WorkerNext, DealNext DEF Inv
<1>3. QED
  BY <1>1, <1>2, PTL DEF Spec

\* Every variable keeps its type; next_ stays below the number of loops, and
\* no index of the start or of the destructors runs past the last thread.
THEOREM TypeCorrect == Spec => []TypeOK
<1>1. Inv => TypeOK
  BY DEF Inv
<1>2. QED
  BY <1>1, InvAlways, PTL

\* However many threads start, run and end in whatever order, a loop that
\* get_next_loop can return exists until the destructor of its own thread has
\* told it to quit.
THEOREM PointersGood == Spec => []LoopsValid
<1>1. Inv => LoopsValid
  BY DEF Inv, TypeOK, StartInv, WorkerInv, LoopsValid, Passed, Alive, WorkerPoints
<1>2. QED
  BY <1>1, InvAlways, PTL

\* get_next_loop deals evenly, for any number of loops and of calls.
THEOREM RoundRobin == Spec => []Balanced
<1>1. Inv => Balanced
  BY DEF Inv, TypeOK, StartInv, DealInv, Ahead, Balanced, Workers
<1>2. QED
  BY <1>1, InvAlways, PTL

\* An owner that waits in start_loop is always still to be notified: the
\* worker has not published its loop (event_loop_thread.cc:29).
THEOREM NoMissedNotification ==
  Spec => [](owner = "wait" => worker[cur] \in {"begin", "init", "publish"})
<1>1. Inv => (owner = "wait" => worker[cur] \in {"begin", "init", "publish"})
  BY DEF Inv, StartInv
<1>2. QED
  BY <1>1, InvAlways, PTL
=============================================================================
