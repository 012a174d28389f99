----------------------------- MODULE MCCapture -----------------------------
(* Capture for TLC: two games, one restart, two frames a session.           *)
EXTENDS Capture
=============================================================================
