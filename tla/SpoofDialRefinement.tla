------------------------ MODULE SpoofDialRefinement ------------------------
(* SpoofEngine implements SpoofDial, for every number of dials and ports,   *)
(* both modes and every combination of faults.                              *)
EXTENDS SpoofEngine

Status == [d \in Dials |-> CASE pc[d] = "idle" -> "idle"
                             [] pc[d] = "ok"   -> "ok"
                             [] pc[d] = "err"  -> "failed"
                             [] OTHER          -> "pending"]

\* In fast mode the record was sent; safe mode sets injected just before it
\* sends, and relies on the acknowledgement for the rest.
FlowPrimed(fl) == IF Mode = "fast" THEN fl.sent > 0 ELSE fl.fake # <<>>

DialPrimed == [d \in Dials |-> \E k \in 1..MaxAttempts : FlowPrimed(flow[<<d, k>>])]

Abstract == INSTANCE SpoofDial WITH status <- Status, primed <- DialPrimed

\* Every behaviour of the engine is one the abstract dial allows: no connection
\* is returned unprimed and no outcome changes, through losses, repeated and
\* stale packets, failed sends, port collisions and a concurrent Close.
ImplementsSpoofDial == Abstract!Spec
=============================================================================
