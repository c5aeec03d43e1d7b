--------------------------- MODULE MCSPSCUnbounded ---------------------------
(***************************************************************************)
(* SPSCUnbounded for TLC: addresses and elements are interchangeable.      *)
(***************************************************************************)
EXTENDS SPSCUnbounded, TLC

Symmetry == Permutations(Nodes) \cup Permutations(Value)
=============================================================================
