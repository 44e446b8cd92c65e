------------------------------ MODULE Upstream ------------------------------
(***************************************************************************)
(* The dial function Tunnel.Start hands to the pool: gated(dial, n) around *)
(* a closure that dials the router's current edge and reports the outcome  *)
(* to the router (src/internal/tunnel/tunnel.go).  It is called by the     *)
(* handlers and by the pool's filler.                                      *)
(*                                                                         *)
(* Below the closure is the engine's DialTo (SpoofEngine), here only its   *)
(* outcome: a dial to an edge in Live succeeds, and may fail if Flaky; a   *)
(* dial to any other edge fails.                                           *)
(***************************************************************************)
EXTENDS Router, Handlers, FiniteSets

CONSTANTS
    Filler,     \* the pool's fillLoop
    Slots,      \* maxConcurrentDials
    Conns,      \* names for open connections, reused when closed
    Live,       \* edges that answer
    Flaky,      \* whether a dial to a live edge may fail
    None

ASSUME UpstreamAssumption == /\ Slots \in Nat \ {0}
                             /\ Live \subseteq Edges
                             /\ Flaky \in BOOLEAN
                             /\ None \notin Conns
                             /\ Filler \notin Clients

Dialers == Clients \cup {Filler}

VARIABLES
    dial,    \* [Dialers -> DialStates]: the call of each goroutine
    conn     \* [Conns -> "closed", "good", "bad"]; bad: !entry.usable

upstreamVars == <<routerVars, dial, conn>>

DialStates == [at   : {"none", "gate", "dialling", "ok", "err"},
               edge : Edges,
               conn : Conns \cup {None}]

NoDial == [at |-> "none", edge |-> 0, conn |-> None]

UpstreamInit ==
    /\ RouterInit
    /\ dial = [d \in Dialers |-> NoDial]
    /\ conn = [c \in Conns |-> "closed"]

UpstreamTypeOK ==
    /\ RouterTypeOK
    /\ dial \in [Dialers -> DialStates]
    /\ conn \in [Conns -> {"closed", "good", "bad"}]

Dialling == {d \in Dialers : dial[d].at = "dialling"}

\* The call and the return of the dial function.
Call(d) == dial' = [dial EXCEPT ![d] = [NoDial EXCEPT !.at = "gate"]]
Return(d) == dial' = [dial EXCEPT ![d] = NoDial]

\* A slot is free: it is taken until dial returns, and the route is read.
GateEnter(d) ==
    /\ dial[d].at = "gate" /\ Cardinality(Dialling) < Slots
    /\ dial' = [dial EXCEPT ![d].at = "dialling", ![d].edge = edge]
    /\ UNCHANGED <<routerVars, conn>>

\* The caller's context ends while it waits; the router hears nothing.
GateExpires(d, cancelled) ==
    /\ dial[d].at = "gate"
    /\ Cardinality(Dialling) = Slots \/ cancelled
    /\ dial' = [dial EXCEPT ![d].at = "err"]
    /\ UNCHANGED <<routerVars, conn>>

DialSucceeds(d) ==
    /\ dial[d].at = "dialling" /\ dial[d].edge \in Live
    /\ \E c \in Conns : conn[c] = "closed"
    /\ LET c == CHOOSE c \in Conns : conn[c] = "closed" IN
       /\ conn' = [conn EXCEPT ![c] = "good"]
       /\ dial' = [dial EXCEPT ![d].at = "ok", ![d].conn = c]
    /\ Success

\* Also the end of the caller's context, which is a failure of the route too.
DialFails(d, cancelled) ==
    /\ dial[d].at = "dialling"
    /\ dial[d].edge \notin Live \/ Flaky \/ cancelled
    /\ dial' = [dial EXCEPT ![d].at = "err"]
    /\ Failure(dial[d].edge)
    /\ UNCHANGED conn
=============================================================================
