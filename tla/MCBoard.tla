------------------------------ MODULE MCBoard ------------------------------
(* Board for TLC: a few minions of two cards over two recruit phases and two *)
(* combats.                                                                  *)
EXTENDS Board, TLC

Symmetry == Permutations(Cards)
=============================================================================
