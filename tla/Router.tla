------------------------------- MODULE Router -------------------------------
(***************************************************************************)
(* The ranked edges of a tunnel (src/internal/tunnel/router.go).           *)
(*                                                                         *)
(* The counter r.fails is kept as the sequence of the routes whose failed  *)
(* dials it counts, so that a property can say which route is blamed; the  *)
(* code only has its length.  r.moved is reduced to what failure asks of   *)
(* it: never set, less than rotateSettle ago, or longer ago.               *)
(***************************************************************************)
EXTENDS Integers, Sequences

CONSTANTS
    NumEdges,             \* len(r.edges)
    FailuresBeforeSwitch

ASSUME RouterAssumption == /\ NumEdges \in Nat \ {0}
                           /\ FailuresBeforeSwitch \in Nat \ {0}

Edges == 0 .. NumEdges - 1

VARIABLES
    edge,     \* r.idx: the route in use
    streak,   \* r.fails
    moved     \* r.moved: "never", "fresh", "settled"

routerVars == <<edge, streak, moved>>

RouterInit == edge = 0 /\ streak = <<>> /\ moved = "never"

RouterReset == edge' = 0 /\ streak' = <<>> /\ moved' = "never"

RouterTypeOK ==
    /\ edge \in Edges
    /\ streak \in Seq(Edges)
    /\ moved \in {"never", "fresh", "settled"}

\* success: whatever route the dial was on, the streak is over.
Success == streak' = <<>> /\ UNCHANGED <<edge, moved>>

\* A failure is ignored with nowhere to move to, or just after a move.
Ignored == NumEdges = 1 \/ moved = "fresh"

FailureSticks(e) ==
    IF Ignored THEN UNCHANGED routerVars
    ELSE IF Len(streak) + 1 < FailuresBeforeSwitch
    THEN streak' = Append(streak, e) /\ UNCHANGED <<edge, moved>>
    ELSE streak' = <<>> /\ moved' = "fresh" /\ UNCHANGED edge

\* failure, reported by a dial that was made to route e.
Failure(e) ==
    IF Ignored THEN UNCHANGED routerVars
    ELSE IF Len(streak) + 1 < FailuresBeforeSwitch
    THEN streak' = Append(streak, e) /\ UNCHANGED <<edge, moved>>
    ELSE edge' = (edge + 1) % NumEdges /\ streak' = <<>> /\ moved' = "fresh"

\* rotateSettle has passed since the move.
Settle == moved = "fresh" /\ moved' = "settled" /\ UNCHANGED <<edge, streak>>
=============================================================================
