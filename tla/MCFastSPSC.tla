------------------------------ MODULE MCFastSPSC ------------------------------
(***************************************************************************)
(* FastSPSC for TLC: block addresses and elements are interchangeable, as  *)
(* no action or property tells two of them apart.                          *)
(***************************************************************************)
EXTENDS FastSPSC, TLC

Symmetry == Permutations(Nodes) \cup Permutations(Value)
=============================================================================
