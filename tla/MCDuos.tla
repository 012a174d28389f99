------------------------------- MODULE MCDuos -------------------------------
(* Duos for TLC: two combats, a partner with up to two minions, one opponent *)
(* and one minion summoned.                                                  *)
EXTENDS Duos
=============================================================================
