--------------------------- MODULE MCSpoofEngine ---------------------------
(* Model-checking instance of SpoofEngine. *)
EXTENDS SpoofEngine, TLC

CONSTANTS d1, d2

\* Dials are interchangeable; used by the runs without liveness properties.
Symmetry == Permutations(Dials)
=============================================================================
