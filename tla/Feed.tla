-------------------------------- MODULE Feed --------------------------------
(***************************************************************************)
(* What the WebSocket feed promises, without its channels and goroutines.  *)
(* Messages are published one after the other.  A client joins, is given   *)
(* every message from then on, and stops being a member at some point: it  *)
(* left, or it did not keep up.  It does not come back, and it is never    *)
(* left out of one message and given a later one.  Hub implements this.    *)
(***************************************************************************)
EXTENDS Integers, Sequences

CONSTANTS
  Ws,    \* clients
  Event  \* messages

VARIABLES
  passed,   \* the messages published
  members,  \* the clients that are given the next one
  former,   \* the clients that no longer are
  since,    \* how many messages were published before a client joined
  given     \* the messages given to a client

vars == <<passed, members, former, since, given>>

Init ==
  /\ passed = <<>> /\ members = {} /\ former = {}
  /\ since = [c \in Ws |-> 0] /\ given = [c \in Ws |-> <<>>]

Join(c) ==
  /\ c \notin members \cup former
  /\ members' = members \cup {c}
  /\ since' = [since EXCEPT ![c] = Len(passed)]
  /\ UNCHANGED <<passed, former, given>>

\* The clients of keep are given the message, the others are members no more.
Publish(e, keep) ==
  /\ keep \subseteq members
  /\ passed' = Append(passed, e)
  /\ members' = keep /\ former' = former \cup (members \ keep)
  /\ given' = [c \in Ws |-> IF c \in keep THEN Append(given[c], e) ELSE given[c]]
  /\ UNCHANGED since

Leave(c) ==
  /\ c \in members
  /\ members' = members \ {c} /\ former' = former \cup {c}
  /\ UNCHANGED <<passed, since, given>>

Next ==
  \/ \E c \in Ws : Join(c) \/ Leave(c)
  \/ \E e \in Event, keep \in SUBSET members : Publish(e, keep)

Spec == Init /\ [][Next]_vars

-----------------------------------------------------------------------------
\* A client was given a contiguous run of the messages from the one after it
\* joined, and a member all of them.
NoGap ==
  \A c \in Ws :
    /\ given[c] = SubSeq(passed, since[c] + 1, since[c] + Len(given[c]))
    /\ c \in members => since[c] + Len(given[c]) = Len(passed)
=============================================================================
