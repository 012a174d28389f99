----------------------------- MODULE MCArchive -----------------------------
(* Archive and Dashboard for TLC, one or the other in a behaviour: the     *)
(* store as it is written, by a daemon that stops at any step, restarts or *)
(* gives way to a reparse or a reset, over two sessions and a midnight;    *)
(* and as it is read, page by page, while games are saved.                 *)
EXTENDS Archive, Dashboard

VARIABLE part  \* "writing" or "reading"

\* A placement that wins alone and loses in duos; and a game that has none.
Kinds == {[place |-> 3, duos |-> FALSE], [place |-> 3, duos |-> TRUE],
          [place |-> 0, duos |-> FALSE]}

BothInit == Init /\ PageInit /\ part \in {"writing", "reading"}
BothNext ==
  \/ part = "writing" /\ Next /\ UNCHANGED <<dashboardVars, part>>
  \/ part = "reading" /\ PageNext /\ UNCHANGED <<vars, part>>

BothSpec == BothInit /\ [][BothNext]_<<vars, dashboardVars, part>> /\ Fairness
=============================================================================
