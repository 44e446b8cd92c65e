----------------------------- MODULE SpoofDial -----------------------------
(***************************************************************************)
(* What spoof.Engine promises the callers of Dial (dialer.go:54-65): every *)
(* call ends in one outcome that does not change, and a connection is only *)
(* handed out after its flow was primed with the fake record.  A dial that *)
(* failed may still be primed afterwards, by a goroutine on its way.       *)
(***************************************************************************)
CONSTANT Dials

VARIABLES
    status,   \* [Dials -> {"idle", "pending", "ok", "failed"}]
    primed    \* [Dials -> BOOLEAN]

vars == <<status, primed>>

Init == /\ status = [d \in Dials |-> "idle"]
        /\ primed = [d \in Dials |-> FALSE]

Begin(d) == /\ status[d] = "idle"
            /\ status' = [status EXCEPT ![d] = "pending"]
            /\ UNCHANGED primed

Prime(d) == /\ status[d] \in {"pending", "failed"} /\ ~primed[d]
            /\ primed' = [primed EXCEPT ![d] = TRUE]
            /\ UNCHANGED status

Return(d) == /\ status[d] = "pending" /\ primed[d]
             /\ status' = [status EXCEPT ![d] = "ok"]
             /\ UNCHANGED primed

Fail(d) == /\ status[d] \in {"idle", "pending"}
           /\ status' = [status EXCEPT ![d] = "failed"]
           /\ UNCHANGED primed

Next == \E d \in Dials : Begin(d) \/ Prime(d) \/ Return(d) \/ Fail(d)

Spec == Init /\ [][Next]_vars
=============================================================================
