------------------------ MODULE MCSpoofDialRefinement ------------------------
(* Model-checking instance of SpoofDialRefinement. *)
EXTENDS SpoofDialRefinement, TLC

CONSTANTS d1, d2

\* Dials are interchangeable, in the abstract specification as well, which states
\* no liveness.
Symmetry == Permutations(Dials)
=============================================================================
