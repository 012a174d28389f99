----------------------------- MODULE MCServers -----------------------------
(* Servers for TLC: two requests of any kinds, and channels of one event.  *)
EXTENDS Servers
=============================================================================
