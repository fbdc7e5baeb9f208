--------------------------- MODULE MCProfileSync ---------------------------
(* Instances of ProfileSync for TLC.                                       *)
EXTENDS ProfileSync, TLC

(* Paths and typed values are interchangeable.  Not for liveness runs.     *)
Symmetry == Permutations(Files) \cup Permutations(Manual)
=============================================================================
