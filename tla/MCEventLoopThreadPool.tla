----------------------- MODULE MCEventLoopThreadPool -----------------------
(***************************************************************************)
(* Instances of EventLoopThreadPool for TLC; the threads are numbered, so  *)
(* the constants are given in the .cfg files alone.                        *)
(***************************************************************************)
EXTENDS EventLoopThreadPool
=============================================================================
