---------------------------- MODULE FunctorQueue ----------------------------
(***************************************************************************)
(* What an event_loop promises to the code that hands it functors: a       *)
(* functor queued with queue_in_loop is executed once, in the order of     *)
(* queueing, and a functor that run_in_loop finds itself on the loop's own *)
(* thread is executed on the spot.  There is no thread, no eventfd and no  *)
(* batch here; EventLoop.tla is the implementation.                        *)
(***************************************************************************)
EXTENDS Sequences, Functions

CONSTANT Tasks       \* the functors; each is submitted at most once

VARIABLES
  queue,             \* queued and not yet executed, oldest first
  executed           \* executed, in order of execution

vars == <<queue, executed>>

Fresh(t) == t \notin Range(queue) \cup Range(executed)

Init ==
  /\ queue = <<>>
  /\ executed = <<>>

Submit(t) ==
  /\ Fresh(t)
  /\ queue' = Append(queue, t)
  /\ UNCHANGED executed

Execute ==
  /\ queue # <<>>
  /\ executed' = Append(executed, Head(queue))
  /\ queue' = Tail(queue)

RunNow(t) ==
  /\ Fresh(t)
  /\ executed' = Append(executed, t)
  /\ UNCHANGED queue

Next ==
  \/ Execute
  \/ \E t \in Tasks : Submit(t) \/ RunNow(t)

Spec == Init /\ [][Next]_vars
=============================================================================
