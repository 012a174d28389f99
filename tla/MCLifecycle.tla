---------------------------- MODULE MCLifecycle ----------------------------
(* Lifecycle, with the routes of its events, for TLC: up to MaxCreates     *)
(* CREATE_GAME lines, games of up to MaxTurn GameEntity turns.             *)
EXTENDS Routing
=============================================================================
