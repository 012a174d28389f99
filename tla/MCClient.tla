------------------------------ MODULE MCClient ------------------------------
(* Client for TLC: two connections one after the other, one event in a      *)
(* channel, and up to two fetches in flight.                                 *)
EXTENDS Client
=============================================================================
