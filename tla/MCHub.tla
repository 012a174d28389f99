------------------------------- MODULE MCHub -------------------------------
(* Hub for TLC: two clients, two events, and every channel of one element, *)
(* so that each of them fills up.                                           *)
EXTENDS Hub
=============================================================================
