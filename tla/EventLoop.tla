------------------------------ MODULE EventLoop ------------------------------
(***************************************************************************)
(* One event_loop object (net/event_loop/event_loop.cc): the thread that   *)
(* owns it runs loop(), the other threads hand it functors and ask it to   *)
(* stop.  They share pending_functors_ (under mutex_), the atomic quit_    *)
(* and the eventfd wakeup_fd_, and nothing else.                           *)
(*                                                                         *)
(* queue_in_loop and quit are two steps each, because another thread can   *)
(* run between the push (or the store to quit_) and the write to the       *)
(* eventfd.  A critical section of mutex_ is one step.  User code (a       *)
(* functor, a channel callback, or main() around loop()) is an arbitrary   *)
(* sequence of calls made while pc says that it is running.                *)
(***************************************************************************)
EXTENDS Naturals, Sequences, Functions

CONSTANTS
  Owner,             \* the thread whose id is thread_id_
  Others,            \* the threads that call in from outside
  Tasks,             \* functors; each is submitted at most once
  MaxQuits           \* bound: calls of quit()

Threads == Others \cup {Owner}

ASSUME ThreadAssumption == Owner \notin Others
ASSUME QuitAssumption == MaxQuits \in Nat

VARIABLES
  pc,                        \* where the owner thread is
  op,                        \* op[th]: the second half of a call th still owes
  looping,                   \* looping_
  quit,                      \* quit_
  calling_pending_functors,  \* calling_pending_functors_
  pending_functors,          \* pending_functors_
  functors,                  \* the local vector of do_pending_functions
  active_channels,           \* active_channels_: "wakeup", or "io" for the rest
  wakeup_fd,                 \* the counter of the eventfd
  quits,                     \* number of calls of quit(), at most MaxQuits
  executed,                  \* history: functors executed, in order
  early                      \* history: functors the owner queued outside loop()

vars == <<pc, op, looping, quit, calling_pending_functors, pending_functors,
          functors, active_channels, wakeup_fd, quits, executed, early>>

loopVars == <<pc, looping, functors, active_channels>>

-----------------------------------------------------------------------------
(* The program points of the owner thread.                                 *)
(*   idle     outside loop(), in the code of main() or of thread_func      *)
(*   check    while (!quit_)                                               *)
(*   poll     in poll_wait                                                 *)
(*   handle   in the for loop over active_channels_                        *)
(*   iocb     in the callback of a channel other than wakeup_channel_      *)
(*   drain    about to call do_pending_functions                           *)
(*   run      in the for loop over functors                                *)
(*   funcb    in the body of a functor                                     *)
Points == {"idle", "check", "poll", "handle", "iocb", "drain", "run", "funcb"}

\* User code is running on the owner thread.
UserCode == {"idle", "iocb", "funcb"}

\* Thread th is free to make a call: an outside thread always, the owner
\* only where user code runs; neither in the middle of another call.
MayCall(th) == op[th] = "none" /\ (th = Owner => pc \in UserCode)

Fresh(t) ==
  t \notin Range(pending_functors) \cup Range(functors) \cup Range(executed)

Init ==
  /\ pc = "idle"
  /\ op = [th \in Threads |-> "none"]
  /\ looping = FALSE
  /\ quit = FALSE
  /\ calling_pending_functors = FALSE
  /\ pending_functors = <<>>
  /\ functors = <<>>
  /\ active_channels = {}
  /\ wakeup_fd = 0
  /\ quits = 0
  /\ executed = <<>>
  /\ early = {}

-----------------------------------------------------------------------------
(* Calls that any thread may make.                                         *)

in_loop_thread(th) == th = Owner

\* queue_in_loop, first half: the push under mutex_.
QueueInLoop(th, t) ==
  /\ MayCall(th)
  /\ Fresh(t)
  /\ pending_functors' = Append(pending_functors, t)
  /\ op' = [op EXCEPT ![th] = "pushed"]
  /\ early' = IF th = Owner /\ pc = "idle" THEN early \cup {t} ELSE early
  /\ UNCHANGED <<loopVars, quit, calling_pending_functors, wakeup_fd, quits, executed>>

\* Plausible slips in the test that decides whether to write the eventfd.
NeedsWakeup_OnlyForeign(th) == ~in_loop_thread(th)
NeedsWakeup_OnlyCalling(th) == calling_pending_functors

NeedsWakeup(th) == ~in_loop_thread(th) \/ calling_pending_functors

\* queue_in_loop, second half: the condition after the critical section.
QueueWakeup(th) ==
  /\ op[th] = "pushed"
  /\ wakeup_fd' = IF NeedsWakeup(th) THEN wakeup_fd + 1 ELSE wakeup_fd
  /\ op' = [op EXCEPT ![th] = "none"]
  /\ UNCHANGED <<loopVars, quit, calling_pending_functors, pending_functors,
                 quits, executed, early>>

\* run_in_loop on the owner thread: cb() at once, without the queue.
RunNow(t) ==
  /\ MayCall(Owner)
  /\ Fresh(t)
  /\ executed' = Append(executed, t)
  /\ UNCHANGED <<loopVars, op, quit, calling_pending_functors, pending_functors,
                 wakeup_fd, quits, early>>

RunInLoop(th, t) ==
  IF in_loop_thread(th) THEN RunNow(t) ELSE QueueInLoop(th, t)

\* quit, first half: the store to quit_.
Quit(th) ==
  /\ MayCall(th)
  /\ quits < MaxQuits
  /\ quits' = quits + 1
  /\ quit' = TRUE
  /\ op' = [op EXCEPT ![th] = "quit"]
  /\ UNCHANGED <<loopVars, calling_pending_functors, pending_functors,
                 wakeup_fd, executed, early>>

\* A slip: quit() forgets to wake the loop it stops.
QuitWakeup_Forgotten(th) ==
  /\ op[th] = "quit"
  /\ op' = [op EXCEPT ![th] = "none"]
  /\ UNCHANGED <<loopVars, quit, calling_pending_functors, pending_functors,
                 wakeup_fd, quits, executed, early>>

\* quit, second half: wake the loop unless this is its own thread.
QuitWakeup(th) ==
  /\ op[th] = "quit"
  /\ wakeup_fd' = IF in_loop_thread(th) THEN wakeup_fd ELSE wakeup_fd + 1
  /\ op' = [op EXCEPT ![th] = "none"]
  /\ UNCHANGED <<loopVars, quit, calling_pending_functors, pending_functors,
                 quits, executed, early>>

-----------------------------------------------------------------------------
(* loop() on the owner thread.  The owner makes no step of loop() while it *)
(* is in the middle of a call of its own.                                  *)

At(point) == pc = point /\ op[Owner] = "none"

\* Entry of loop(): an earlier quit() is forgotten here.
LoopBegin ==
  /\ At("idle")
  /\ pc' = "check"
  /\ looping' = TRUE
  /\ quit' = FALSE
  /\ UNCHANGED <<op, calling_pending_functors, pending_functors, functors,
                 active_channels, wakeup_fd, quits, executed, early>>

\* while (!quit_), active_channels_.clear(), and the return of loop().
LoopCheck ==
  /\ At("check")
  /\ IF quit
     THEN /\ pc' = "idle"
          /\ looping' = FALSE
          /\ UNCHANGED active_channels
     ELSE /\ pc' = "poll"
          /\ active_channels' = {}
          /\ UNCHANGED looping
  /\ UNCHANGED <<op, quit, calling_pending_functors, pending_functors, functors,
                 wakeup_fd, quits, executed, early>>

\* epoll_wait returns with events: the eventfd is readable while its counter
\* is positive, the other descriptors whenever their peers please.
Readable(chans) ==
  /\ chans # {}
  /\ chans \subseteq {"wakeup", "io"}
  /\ "wakeup" \in chans => wakeup_fd > 0

PollReturn ==
  /\ At("poll")
  /\ \E chans \in SUBSET {"wakeup", "io"} :
       /\ Readable(chans)
       /\ active_channels' = chans
  /\ pc' = "handle"
  /\ UNCHANGED <<op, looping, quit, calling_pending_functors, pending_functors,
                 functors, wakeup_fd, quits, executed, early>>

\* epoll_wait returns after k_poll_time_ms, or on EINTR, with nothing.
PollTimeout ==
  /\ At("poll")
  /\ wakeup_fd = 0
  /\ pc' = "handle"
  /\ UNCHANGED <<op, looping, quit, calling_pending_functors, pending_functors,
                 functors, active_channels, wakeup_fd, quits, executed, early>>

\* wakeup_channel_ is active: handle_read resets the eventfd.
HandleRead ==
  /\ At("handle")
  /\ "wakeup" \in active_channels
  /\ active_channels' = active_channels \ {"wakeup"}
  /\ wakeup_fd' = 0
  /\ UNCHANGED <<pc, op, looping, quit, calling_pending_functors,
                 pending_functors, functors, quits, executed, early>>

\* Another channel is active: its callback starts.
HandleIo ==
  /\ At("handle")
  /\ "io" \in active_channels
  /\ active_channels' = active_channels \ {"io"}
  /\ pc' = "iocb"
  /\ UNCHANGED <<op, looping, quit, calling_pending_functors, pending_functors,
                 functors, wakeup_fd, quits, executed, early>>

\* A user callback or functor body returns to the loop that called it.
CallbackReturn ==
  /\ op[Owner] = "none"
  /\ \/ pc = "iocb" /\ pc' = "handle"
     \/ pc = "funcb" /\ pc' = "run"
  /\ UNCHANGED <<op, looping, quit, calling_pending_functors, pending_functors,
                 functors, active_channels, wakeup_fd, quits, executed, early>>

HandleDone ==
  /\ At("handle")
  /\ active_channels = {}
  /\ pc' = "drain"
  /\ UNCHANGED <<op, looping, quit, calling_pending_functors, pending_functors,
                 functors, active_channels, wakeup_fd, quits, executed, early>>

\* A slip: the functors are copied out of the queue but not removed from it.
DrainBegin_Copy ==
  /\ At("drain")
  /\ calling_pending_functors' = TRUE
  /\ functors' = pending_functors
  /\ pc' = "run"
  /\ UNCHANGED <<op, looping, quit, pending_functors, active_channels, wakeup_fd,
                 quits, executed, early>>

\* do_pending_functions: the flag, then the swap under mutex_.
DrainBegin ==
  /\ At("drain")
  /\ calling_pending_functors' = TRUE
  /\ functors' = pending_functors
  /\ pending_functors' = <<>>
  /\ pc' = "run"
  /\ UNCHANGED <<op, looping, quit, active_channels, wakeup_fd, quits, executed,
                 early>>

RunFunctor ==
  /\ At("run")
  /\ functors # <<>>
  /\ executed' = Append(executed, Head(functors))
  /\ functors' = Tail(functors)
  /\ pc' = "funcb"
  /\ UNCHANGED <<op, looping, quit, calling_pending_functors, pending_functors,
                 active_channels, wakeup_fd, quits, early>>

\* A slip: the flag stays up after the batch.
DrainEnd_FlagUp ==
  /\ At("run")
  /\ functors = <<>>
  /\ pc' = "check"
  /\ UNCHANGED <<op, looping, quit, calling_pending_functors, pending_functors,
                 functors, active_channels, wakeup_fd, quits, executed, early>>

DrainEnd ==
  /\ At("run")
  /\ functors = <<>>
  /\ calling_pending_functors' = FALSE
  /\ pc' = "check"
  /\ UNCHANGED <<op, looping, quit, pending_functors, functors, active_channels,
                 wakeup_fd, quits, executed, early>>

-----------------------------------------------------------------------------
LoopStep ==
  \/ LoopCheck
  \/ PollReturn
  \/ HandleRead
  \/ HandleIo
  \/ HandleDone
  \/ CallbackReturn
  \/ DrainBegin
  \/ RunFunctor
  \/ DrainEnd

FinishCall(th) == QueueWakeup(th) \/ QuitWakeup(th)

Call(th) ==
  \/ \E t \in Tasks : QueueInLoop(th, t) \/ RunInLoop(th, t)
  \/ Quit(th)

Next ==
  \/ LoopBegin
  \/ LoopStep
  \/ PollTimeout
  \/ \E th \in Threads : Call(th) \/ FinishCall(th)

Spec == Init /\ [][Next]_vars

\* A thread that has begun a call finishes it, and the owner goes on with
\* loop(), out of poll_wait only if the eventfd is readable.  Nothing is
\* assumed of LoopBegin, of the calls, of the timeout, or of the other
\* descriptors, which may stay silent for ever.
Progress == LoopStep /\ (pc = "poll" => wakeup_fd > 0)

Fairness ==
  /\ WF_vars(Progress)
  /\ \A th \in Threads : WF_vars(FinishCall(th))

FairSpec == Spec /\ Fairness

-----------------------------------------------------------------------------
FlagTypes ==
  /\ pc \in Points
  /\ looping \in BOOLEAN
  /\ quit \in BOOLEAN
  /\ calling_pending_functors \in BOOLEAN
  /\ (pc # "idle" <=> looping)
  /\ (calling_pending_functors <=> pc \in {"run", "funcb"})

QueueTypes ==
  /\ pending_functors \in Seq(Tasks)
  /\ functors \in Seq(Tasks)
  /\ executed \in Seq(Tasks)
  /\ early \in SUBSET Tasks
  /\ (functors # <<>> => pc \in {"run", "funcb"})

WakeTypes ==
  /\ op \in [Threads -> {"none", "pushed", "quit"}]
  /\ active_channels \in SUBSET {"wakeup", "io"}
  /\ wakeup_fd \in Nat
  /\ quits \in 0..MaxQuits

\* Types; looping_ and calling_pending_functors_ only mirror where the owner
\* is, and there is a batch only while do_pending_functions runs it.
TypeOK == FlagTypes /\ QueueTypes /\ WakeTypes

\* No wakeup is lost: when the owner sits in poll_wait with nothing to read
\* from the eventfd, and no thread is still about to write it, the only
\* functors in the queue are those the owner queued before it called loop().
\* (queue_in_loop relies on do_pending_functions coming after the channel
\* callbacks, and on calling_pending_functors_, for the cases it skips.)
NoLostWakeup ==
  /\ pc = "poll"
  /\ wakeup_fd = 0
  /\ \A th \in Others : op[th] # "pushed"
  => Range(pending_functors) \subseteq early

\* Why no wakeup is lost: a functor in the queue that the owner did not put
\* there before loop() has left a readable eventfd, or its thread is about to
\* write it, or the owner passes do_pending_functions before it polls.
WakeInv ==
  \/ Range(pending_functors) \subseteq early
  \/ wakeup_fd > 0
  \/ pc \in {"handle", "iocb", "drain"}
  \/ (pc = "funcb" /\ op[Owner] = "pushed")
  \/ \E th \in Others : op[th] = "pushed"

\* Functors run exactly once and in the order of queueing, whatever the
\* threads and the batches of do_pending_functions: the queue that is
\* promised is the batch being run followed by pending_functors_.
Queue == INSTANCE FunctorQueue WITH queue <- functors \o pending_functors

RunsInOrder == Queue!Spec

\* A functor queued on a loop that is running is executed without the help
\* of the poll timeout, unless the loop is told to quit.
QueuedRuns ==
  \A t \in Tasks :
    (looping /\ t \in Range(pending_functors) \ early)
      ~> (t \in Range(executed) \/ quit)

\* quit() called while loop() runs makes loop() return, without the help of
\* the poll timeout.
QuitStops == (looping /\ quit) ~> ~looping
=============================================================================
