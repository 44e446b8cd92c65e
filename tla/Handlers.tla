------------------------------ MODULE Handlers ------------------------------
(* The handlers of a tunnel, shared by the modules it is composed of.      *)
CONSTANT Clients    \* handlers, one per local connection being served
=============================================================================
