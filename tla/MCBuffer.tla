------------------------------ MODULE MCBuffer ------------------------------
(***************************************************************************)
(* Instances of Buffer for TLC: a vector of a few bytes, so that every     *)
(* combination of the two indices and the size comes up.                   *)
(***************************************************************************)
EXTENDS Buffer
=============================================================================
