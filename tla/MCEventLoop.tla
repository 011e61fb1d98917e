---------------------------- MODULE MCEventLoop ----------------------------
(***************************************************************************)
(* Instances of EventLoop for TLC.  Threads and functors are model values; *)
(* liveness is checked in the same run, and so there is no symmetry.       *)
(***************************************************************************)
EXTENDS EventLoop
=============================================================================
