------------------------------- MODULE MCApp -------------------------------
(* Model values for checking App: the window and the tray menu, each of      *)
(* which may make any of the calls.                                          *)
EXTENDS App, TLC

CONSTANTS window, tray, low, high, r1, r2, r3

\* Sessions are not interchangeable: Build takes the first free name.
Symmetry == Permutations(Callers) \cup Permutations(Addresses)
=============================================================================
