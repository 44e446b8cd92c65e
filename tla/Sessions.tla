------------------------------ MODULE Sessions ------------------------------
(***************************************************************************)
(* What a connect builds and a disconnect takes down: a spoofing engine    *)
(* with, on top of it, either a tunnel (src/internal/tunnel/tunnel.go) or  *)
(* an xray instance (src/app_client.go, src/internal/xray/instance.go),    *)
(* and xray's process-wide dialer slot (src/internal/xray/dialer.go).      *)
(*                                                                         *)
(* A member of Runs names one such object while it exists, a member of     *)
(* Addresses the ports that it listens on: one value for what the settings *)
(* say of the listener and of the two inbounds.  What a tunnel does while  *)
(* it runs is the module Tunnel.                                           *)
(***************************************************************************)
CONSTANTS Runs, Addresses, None

ASSUME SessionsAssumption == None \notin Runs /\ None \notin Addresses

VARIABLES
    sess,    \* [Runs -> SessionStates]
    slot     \* whose dialer every xray dial goes through; None: xray's own

sessionVars == <<sess, slot>>

Shapes == {"tunnel", "client"}

SessionStates == [shape   : Shapes \cup {"none"},
                  address : Addresses \cup {None},
                  engine  : BOOLEAN,
                  serving : BOOLEAN]

Unused == [shape |-> "none", address |-> None, engine |-> FALSE, serving |-> FALSE]

SessionsInit == sess = [r \in Runs |-> Unused] /\ slot = None

SessionsTypeOK == sess \in [Runs -> SessionStates] /\ slot \in Runs \cup {None}

\* NewEngine, Engine.Start.
OpenEngine(r, shape, address) ==
    /\ sess[r] = Unused
    /\ sess' = [sess EXCEPT ![r] =
                  [shape |-> shape, address |-> address, engine |-> TRUE, serving |-> FALSE]]
    /\ UNCHANGED slot

\* Engine.Close; nothing of the session is left.
CloseEngine(r) == sess' = [sess EXCEPT ![r] = Unused] /\ UNCHANGED slot

\* A listener of the same shape that was given the same ports has them.
PortsFree(r) ==
    \A s \in Runs :
        sess[s].shape = sess[r].shape /\ sess[s].address = sess[r].address => ~sess[s].serving

\* net.Listen of a tunnel, Instance.Start of a client.
Serve(r) ==
    /\ PortsFree(r)
    /\ sess' = [sess EXCEPT ![r].serving = TRUE]
    /\ UNCHANGED slot

\* The listener or the inbounds are closed.
Unserve(r) == sess' = [sess EXCEPT ![r].serving = FALSE] /\ UNCHANGED slot

Install(r) == slot' = r /\ UNCHANGED sess

\* The function Install returns: xray's default dialer, whoever is in the slot.
Restore == slot' = None /\ UNCHANGED sess
=============================================================================
