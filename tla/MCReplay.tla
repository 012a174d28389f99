------------------------------ MODULE MCReplay ------------------------------
(* Replay for TLC: logs of two files, the shorter ones browsed, beside a    *)
(* store of one game of three turns or of two games.                        *)
EXTENDS Replay
Turns(n, m) == [i \in 1..m |-> Step(Event("turn", 0, 0), 2 * (n + i) - 1, FALSE, <<>>, 0)]
OneGame  == Loaded(Turns(0, 3), <<[lo |-> 1, hi |-> 3]>>)
TwoGames == Loaded(Turns(0, 2) \o Turns(0, 1), <<[lo |-> 1, hi |-> 2], [lo |-> 3, hi |-> 3]>>)
MCStoreReplays == {OneGame, TwoGames}
=============================================================================
