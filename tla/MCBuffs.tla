------------------------------ MODULE MCBuffs ------------------------------
(* Buffs for TLC: all five handlers, two Overconfidence cards, two combats  *)
(* and one reconnect.                                                       *)
EXTENDS Buffs
=============================================================================
