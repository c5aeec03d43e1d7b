---------------------------- MODULE MCMPMCBounded ----------------------------
(***************************************************************************)
(* MPMCBounded for TLC.  Threads and elements are interchangeable in the   *)
(* run that checks safety.                                                 *)
(***************************************************************************)
EXTENDS MPMCBounded, TLC

Symmetry == Permutations(Threads) \cup Permutations(Value)
=============================================================================
