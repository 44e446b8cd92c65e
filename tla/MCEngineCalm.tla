---------------------------- MODULE MCEngineCalm ----------------------------
(***************************************************************************)
(* Model-checking instance of SpoofEngine in the two configurations whose  *)
(* dials should all succeed: safe mode with one edge, which is how the     *)
(* tunnel may run it (the constants Mode and AnyEdge of the configuration  *)
(* file), and fast mode with any edge, which is how the scans and, by      *)
(* default, the embedded client do.  The initial state chooses.            *)
(***************************************************************************)
EXTENDS SpoofEngine, TLC

CONSTANTS d1, d2

VARIABLE mode

Fast == INSTANCE SpoofEngine WITH Mode <- "fast", AnyEdge <- TRUE

CalmInit == mode \in {"fast", Mode} /\ Init

CalmNext ==
    /\ \/ mode = "fast" /\ Fast!Next
       \/ mode = Mode /\ Next
    /\ UNCHANGED mode

CalmSpec == CalmInit /\ [][CalmNext]_<<vars, mode>>

\* Dials are interchangeable.
Symmetry == Permutations(Dials)
=============================================================================
