------------------------------- MODULE MCList -------------------------------
(***************************************************************************)
(* Module List for TLC: nodes and heads are interchangeable, no property   *)
(* of the run is a liveness property.                                      *)
(***************************************************************************)
EXTENDS List

Symmetry == Permutations(Nodes) \cup Permutations(Heads)

=============================================================================
