---------------------------- MODULE MCBlockingMPMC ----------------------------
(***************************************************************************)
(* BlockingMPMC for TLC.  The threads run the same code, and the elements  *)
(* are only stored and compared, so both are interchangeable in the runs   *)
(* that check safety.                                                      *)
(***************************************************************************)
EXTENDS BlockingMPMC

Symmetry == Permutations(Threads) \cup Permutations(Value)
=============================================================================
