------------------------------ MODULE MCTunnel ------------------------------
(* Model values for checking Tunnel.  Connections are numbered: at most one  *)
(* per handler, filler, reaper and place in the pool is open at a time.      *)
EXTENDS Tunnel

CONSTANT k1
=============================================================================
