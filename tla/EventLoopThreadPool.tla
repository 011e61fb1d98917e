------------------------ MODULE EventLoopThreadPool ------------------------
(***************************************************************************)
(* An event_loop_thread_pool with its event_loop_threads and the           *)
(* base_threads under them: how the loops come up in start(), how          *)
(* get_next_loop deals them out, and how the destructors bring them down.  *)
(*                                                                         *)
(* The owner is the thread of the base loop; worker w runs                 *)
(* event_loop_thread::thread_func.  A critical section of the mutex_ of an *)
(* event_loop_thread is one step.  Inside loop(), the worker is taken from *)
(* EventLoop.tla: it sleeps in poll_wait until the eventfd is written.     *)
(***************************************************************************)
EXTENDS Naturals, FiniteSets, Functions

CONSTANTS
  NumThreads,       \* num_threads_
  MaxCalls          \* bound: calls of get_next_loop

ASSUME ThreadsAssumption == NumThreads \in Nat \ {0}
ASSUME CallsAssumption == MaxCalls \in Nat

Workers == 1..NumThreads

VARIABLES
  owner,            \* where the owner is
  cur,              \* the event_loop_thread it is starting or destroying
  worker,           \* worker[w]: where worker w is
  sem,              \* sem[w]: the semaphore of base_thread::start is posted
  loop_,            \* loop_[w]: event_loop_thread::loop_ is not null
  quit,             \* quit[w]: quit_ of the loop of w
  wakeup_fd,        \* wakeup_fd[w]: its eventfd is readable
  loops_,           \* the workers whose loops are in loops_
  next_,            \* next_, from 0
  dealt             \* history: dealt[w], times get_next_loop returned w

ownerVars == <<owner, cur>>
poolVars == <<loops_, next_, dealt>>
vars == <<ownerVars, worker, sem, loop_, quit, wakeup_fd, poolVars>>

(* The owner:                                                              *)
(*   start     in start(), about to start thread cur                       *)
(*   sem       in sem_wait of base_thread::start                           *)
(*   lock      about to lock mutex_ in start_loop, in its while loop       *)
(*   wait      in cond_.wait                                               *)
(*   started   after start(): the loops are dealt out                      *)
(*   dtor      at the beginning of ~event_loop_thread of thread cur        *)
(*   quit, wakeup, join   in its quit(), before wakeup(), in join()        *)
(*   done      the pool is gone                                            *)
OwnerPoints == {"start", "sem", "lock", "wait", "started", "dtor", "quit", "wakeup",
                "join", "done"}

(* Worker w:                                                               *)
(*   none      not created                                                 *)
(*   begin     created, before sem_post                                    *)
(*   init      before and in the event_loop constructor and callback_      *)
(*   publish   about to store loop_ and notify                             *)
(*   enter     before quit_ = false in loop()                              *)
(*   check     at while (!quit_)                                           *)
(*   poll      in poll_wait                                                *)
(*   left      back from loop(), before loop_ = nullptr                    *)
(*   gone      the event_loop is destroyed, the thread ends                *)
WorkerPoints == {"none", "begin", "init", "publish", "enter", "check", "poll", "left",
                 "gone"}

\* The event_loop on the stack of thread_func exists.
Alive(w) == worker[w] \in {"publish", "enter", "check", "poll", "left"}
InLoop(w) == worker[w] \in {"check", "poll"}

Init ==
  /\ owner = "start"
  /\ cur = 1
  /\ worker = [w \in Workers |-> "none"]
  /\ sem = [w \in Workers |-> FALSE]
  /\ loop_ = [w \in Workers |-> FALSE]
  /\ quit = [w \in Workers |-> FALSE]
  /\ wakeup_fd = [w \in Workers |-> FALSE]
  /\ loops_ = {}
  /\ next_ = 0
  /\ dealt = [w \in Workers |-> 0]

-----------------------------------------------------------------------------
(* The owner: start() and start_loop().                                    *)

ThreadStart ==
  /\ owner = "start"
  /\ worker' = [worker EXCEPT ![cur] = "begin"]
  /\ owner' = "sem"
  /\ UNCHANGED <<cur, sem, loop_, quit, wakeup_fd, poolVars>>

SemWait ==
  /\ owner = "sem"
  /\ sem[cur]
  /\ owner' = "lock"
  /\ UNCHANGED <<cur, worker, sem, loop_, quit, wakeup_fd, poolVars>>

\* A slip: start_loop does not wait for the worker.
StartLoopLock_NoWait ==
  /\ owner = "lock"
  /\ loops_' = loops_ \cup {cur}
  /\ owner' = IF cur = NumThreads THEN "started" ELSE "start"
  /\ cur' = IF cur = NumThreads THEN cur ELSE cur + 1
  /\ UNCHANGED <<worker, sem, loop_, quit, wakeup_fd, next_, dealt>>

\* Under mutex_: loop_ is there, and goes to loops_, or the owner waits.
StartLoopLock ==
  /\ owner = "lock"
  /\ IF loop_[cur]
     THEN /\ loops_' = loops_ \cup {cur}
          /\ owner' = IF cur = NumThreads THEN "started" ELSE "start"
          /\ cur' = IF cur = NumThreads THEN cur ELSE cur + 1
     ELSE /\ owner' = "wait"
          /\ UNCHANGED <<loops_, cur>>
  /\ UNCHANGED <<worker, sem, loop_, quit, wakeup_fd, next_, dealt>>

\* A slip: next_ wraps one loop too late.
NextIndex_Late ==
  IF next_ + 1 > Cardinality(loops_) THEN 0 ELSE next_ + 1

\* A slip: the index never moves.
NextIndex_Stuck == next_

NextIndex == IF next_ + 1 >= Cardinality(loops_) THEN 0 ELSE next_ + 1

\* get_next_loop: loops_[next_], and round robin.
GetNextLoop ==
  /\ owner = "started"
  /\ \E w \in loops_ :
       /\ w = next_ + 1
       /\ dealt[w] < MaxCalls
       /\ dealt' = [dealt EXCEPT ![w] = @ + 1]
  /\ next_' = NextIndex
  /\ UNCHANGED <<ownerVars, worker, sem, loop_, quit, wakeup_fd, loops_>>

-----------------------------------------------------------------------------
(* The owner: the pool is destroyed, event_loop_thread by event_loop_thread. *)

PoolDtor ==
  /\ owner = "started"
  /\ owner' = "dtor"
  /\ cur' = 1
  /\ UNCHANGED <<worker, sem, loop_, quit, wakeup_fd, poolVars>>

\* The test of loop_; without a loop the thread is detached.
DtorTest ==
  /\ owner = "dtor"
  /\ IF loop_[cur]
     THEN owner' = "quit" /\ UNCHANGED cur
     ELSE /\ owner' = IF cur = NumThreads THEN "done" ELSE "dtor"
          /\ cur' = IF cur = NumThreads THEN cur ELSE cur + 1
  /\ UNCHANGED <<worker, sem, loop_, quit, wakeup_fd, poolVars>>

DtorQuit ==
  /\ owner = "quit"
  /\ quit' = [quit EXCEPT ![cur] = TRUE]
  /\ owner' = "wakeup"
  /\ UNCHANGED <<cur, worker, sem, loop_, wakeup_fd, poolVars>>

\* A slip: the loop is joined but not woken.
DtorWakeup_Forgotten ==
  /\ owner = "wakeup"
  /\ owner' = "join"
  /\ UNCHANGED <<cur, worker, sem, loop_, quit, wakeup_fd, poolVars>>

\* The write to the eventfd; it goes nowhere when the loop has seen quit_ by
\* itself and is gone.
DtorWakeup ==
  /\ owner = "wakeup"
  /\ wakeup_fd' = [wakeup_fd EXCEPT ![cur] = Alive(cur)]
  /\ owner' = "join"
  /\ UNCHANGED <<cur, worker, sem, loop_, quit, poolVars>>

DtorJoin ==
  /\ owner = "join"
  /\ worker[cur] = "gone"
  /\ owner' = IF cur = NumThreads THEN "done" ELSE "dtor"
  /\ cur' = IF cur = NumThreads THEN cur ELSE cur + 1
  /\ UNCHANGED <<worker, sem, loop_, quit, wakeup_fd, poolVars>>

-----------------------------------------------------------------------------
(* Worker w.                                                               *)

Goes(w, from, to) ==
  /\ worker[w] = from
  /\ worker' = [worker EXCEPT ![w] = to]

SemPost(w) ==
  /\ Goes(w, "begin", "init")
  /\ sem' = [sem EXCEPT ![w] = TRUE]
  /\ UNCHANGED <<ownerVars, loop_, quit, wakeup_fd, poolVars>>

\* The event_loop is constructed.  There is no callback_: start() makes each
\* event_loop_thread without one, whatever cb it was given.
LoopCtor(w) ==
  /\ Goes(w, "init", "publish")
  /\ UNCHANGED <<ownerVars, sem, loop_, quit, wakeup_fd, poolVars>>

\* A slip: nobody is notified.
Publish_Silent(w) ==
  /\ Goes(w, "publish", "enter")
  /\ loop_' = [loop_ EXCEPT ![w] = TRUE]
  /\ UNCHANGED <<ownerVars, sem, quit, wakeup_fd, poolVars>>

\* Under mutex_: loop_ = &loop, and notify_one.
Publish(w) ==
  /\ Goes(w, "publish", "enter")
  /\ loop_' = [loop_ EXCEPT ![w] = TRUE]
  /\ owner' = IF owner = "wait" /\ cur = w THEN "lock" ELSE owner
  /\ UNCHANGED <<cur, sem, quit, wakeup_fd, poolVars>>

\* loop(): looping_ = true; quit_ = false.
LoopEnter(w) ==
  /\ Goes(w, "enter", "check")
  /\ quit' = [quit EXCEPT ![w] = FALSE]
  /\ UNCHANGED <<ownerVars, sem, loop_, wakeup_fd, poolVars>>

LoopCheck(w) ==
  /\ Goes(w, "check", IF quit[w] THEN "left" ELSE "poll")
  /\ UNCHANGED <<ownerVars, sem, loop_, quit, wakeup_fd, poolVars>>

\* poll_wait returns for the eventfd, handle_read resets it.
LoopWoken(w) ==
  /\ wakeup_fd[w]
  /\ Goes(w, "poll", "check")
  /\ wakeup_fd' = [wakeup_fd EXCEPT ![w] = FALSE]
  /\ UNCHANGED <<ownerVars, sem, loop_, quit, poolVars>>

\* poll_wait returns for something else, or after k_poll_time_ms.
LoopOther(w) ==
  /\ Goes(w, "poll", "check")
  /\ UNCHANGED <<ownerVars, sem, loop_, quit, wakeup_fd, poolVars>>

\* Under mutex_: loop_ = nullptr; then the event_loop is destroyed.
Leave(w) ==
  /\ Goes(w, "left", "gone")
  /\ loop_' = [loop_ EXCEPT ![w] = FALSE]
  /\ UNCHANGED <<ownerVars, sem, quit, wakeup_fd, poolVars>>

-----------------------------------------------------------------------------
OwnerStep ==
  \/ ThreadStart
  \/ SemWait
  \/ StartLoopLock
  \/ DtorTest
  \/ DtorQuit
  \/ DtorWakeup
  \/ DtorJoin

WorkerStep(w) ==
  \/ SemPost(w)
  \/ LoopCtor(w)
  \/ Publish(w)
  \/ LoopEnter(w)
  \/ LoopCheck(w)
  \/ LoopWoken(w)
  \/ Leave(w)

Next ==
  \/ OwnerStep
  \/ GetNextLoop
  \/ PoolDtor
  \/ \E w \in Workers : WorkerStep(w) \/ LoopOther(w)

Spec == Init /\ [][Next]_vars

\* Threads that can go on do; nothing is assumed of the user of the pool, of
\* the descriptors of the loops, or of the poll timeout.
Fairness ==
  /\ WF_vars(OwnerStep)
  /\ \A w \in Workers : WF_vars(WorkerStep(w))

FairSpec == Spec /\ Fairness

-----------------------------------------------------------------------------
\* Types.
TypeOK ==
  /\ owner \in OwnerPoints
  /\ cur \in Workers
  /\ worker \in [Workers -> WorkerPoints]
  /\ sem \in [Workers -> BOOLEAN]
  /\ loop_ \in [Workers -> BOOLEAN]
  /\ quit \in [Workers -> BOOLEAN]
  /\ wakeup_fd \in [Workers -> BOOLEAN]
  /\ loops_ \subseteq Workers
  /\ next_ \in 0..(NumThreads - 1)
  /\ dealt \in [Workers -> 0..MaxCalls]

\* The raw pointers in loops_ are good for as long as the pool may use them:
\* until the destructor of their own thread has stored quit_.
LoopsValid ==
  \A w \in loops_ :
    \/ Alive(w)
    \/ owner \in {"dtor", "quit"} /\ w < cur
    \/ owner \in {"wakeup", "join"} /\ w <= cur
    \/ owner = "done"

\* Round robin: no loop is dealt out twice more than another.
Balanced == \A v, w \in loops_ : dealt[v] <= dealt[w] + 1

\* start() ends: no notification of a worker is missed.
StartReturns == <>(owner = "started")

\* quit() ends the loop of another thread (event_loop.cc:99): the destructor
\* of the pool is not left waiting in join(), whenever it comes.
DtorReturns == owner = "dtor" ~> owner = "done"

\* The same for a pool whose workers have all entered loop().
CalmDtorReturns ==
  (owner = "dtor" /\ cur = 1 /\ \A w \in Workers : InLoop(w)) ~> owner = "done"
=============================================================================
