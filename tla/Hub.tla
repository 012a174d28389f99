-------------------------------- MODULE Hub --------------------------------
(***************************************************************************)
(* The WebSocket feed of the REST server.  A pump takes the events of its  *)
(* subscription and passes each one to the hub, a goroutine that owns the  *)
(* clients: it registers them, unregisters them, and copies every message  *)
(* to all of them.  A client has a bounded channel and two goroutines, its *)
(* writer and its reader; one that does not keep up is evicted.            *)
(*                                                                         *)
(* An operation on a channel is an action.  Events are numbered in the     *)
(* order in which the pump receives them.                                  *)
(***************************************************************************)
EXTENDS Integers, Sequences

CONSTANTS
  Ws,           \* WebSocket clients
  MaxEvents,    \* bound on the events
  BroadcastCap, \* of hub.broadcast; 256 in the source
  UnregCap,     \* of hub.unregister; 8 in the source
  SendCap       \* of a client's channel; 64 in the source

ASSUME CapsAssumption ==
  {BroadcastCap, UnregCap, SendCap} \subseteq Nat \ {0} /\ MaxEvents \in Nat

Event == 1..MaxEvents

VARIABLES
  ctxDone,      \* the daemon's context is cancelled
  feedClosed,   \* the pump's subscription is closed
  \* The pump: where it is, what it received, and whether that is still in hand.
  pump, received,
  \* The hub, hub.broadcast, hub.clients and hub.unregister.
  hub, broadcast, clients, unregister,
  \* Each client's channel (how often it was closed), connection and goroutines.
  send, sendCloses, conn, handler, writer, reader,
  \* History: what the hub has passed on, how much of it before a client was
  \* registered, and what was written to the client.
  passed, joined, written

envVars  == <<ctxDone, feedClosed>>
pumpVars == <<pump, received>>
hubVars  == <<hub, broadcast, clients, unregister, passed, joined>>
sendVars == <<send, sendCloses>>
connVars == <<conn, handler, writer, reader>>
vars     == <<envVars, pumpVars, hubVars, sendVars, connVars, written>>

TypeOK ==
  /\ ctxDone \in BOOLEAN /\ feedClosed \in BOOLEAN
  /\ pump \in {"reading", "sending", "gone"} /\ received \in 0..MaxEvents
  /\ hub \in {"running", "done"}
  /\ broadcast \in Seq(Event) /\ Len(broadcast) <= BroadcastCap
  /\ clients \subseteq Ws /\ unregister \in Seq(Ws) /\ Len(unregister) <= UnregCap
  /\ send \in [Ws -> Seq(Event)] /\ \A c \in Ws : Len(send[c]) <= SendCap
  /\ sendCloses \in [Ws -> Nat] /\ conn \in [Ws -> BOOLEAN]
  /\ handler \in [Ws -> {"none", "registering", "gone"}]
  /\ writer \in [Ws -> {"none", "running", "gone"}]
  /\ reader \in [Ws -> {"none", "reading", "leaving", "gone"}]
  /\ passed \in Seq(Event) /\ joined \in [Ws -> Nat] /\ written \in [Ws -> Seq(Event)]

Init ==
  /\ ctxDone = FALSE /\ feedClosed = FALSE
  /\ pump = "reading" /\ received = 0
  /\ hub = "running" /\ broadcast = <<>> /\ clients = {} /\ unregister = <<>>
  /\ send = [c \in Ws |-> <<>>] /\ sendCloses = [c \in Ws |-> 0]
  /\ conn = [c \in Ws |-> FALSE] /\ handler = [c \in Ws |-> "none"]
  /\ writer = [c \in Ws |-> "none"] /\ reader = [c \in Ws |-> "none"]
  /\ passed = <<>> /\ joined = [c \in Ws |-> 0] /\ written = [c \in Ws |-> <<>>]

-----------------------------------------------------------------------------
(* The pump *)

PumpTakes ==
  /\ pump = "reading" /\ received < MaxEvents /\ ~feedClosed
  /\ pump' = "sending" /\ received' = received + 1
  /\ UNCHANGED <<envVars, hubVars, sendVars, connVars, written>>

PumpSends ==
  /\ pump = "sending" /\ Len(broadcast) < BroadcastCap
  /\ pump' = "reading" /\ broadcast' = Append(broadcast, received)
  /\ UNCHANGED <<envVars, received, hub, clients, unregister, passed, joined, sendVars,
                 connVars, written>>

\* It ends when its subscription is closed, or in either of its selects with the
\* context, or, with an event in hand, when the hub is gone.
PumpEnds ==
  /\ \/ pump = "reading" /\ (feedClosed \/ ctxDone)
     \/ pump = "sending" /\ (hub = "done" \/ ctxDone)
  /\ pump' = "gone"
  /\ UNCHANGED <<envVars, received, hubVars, sendVars, connVars, written>>

-----------------------------------------------------------------------------
(* The hub *)

HubRegisters(c) ==
  /\ hub = "running" /\ handler[c] = "registering"
  /\ clients' = clients \cup {c}
  /\ joined' = [joined EXCEPT ![c] = Len(passed)]
  /\ handler' = [handler EXCEPT ![c] = "gone"]
  /\ writer' = [writer EXCEPT ![c] = "running"]
  /\ reader' = [reader EXCEPT ![c] = "reading"]
  /\ UNCHANGED <<envVars, pumpVars, hub, broadcast, unregister, passed, sendVars, conn,
                 written>>

\* A client that was evicted is no longer there to be removed.
Removes_always(c) == TRUE \* mutant: its channel is closed again
Removes(c) == c \in clients

HubUnregisters ==
  /\ hub = "running" /\ unregister # <<>>
  /\ LET c == Head(unregister) IN
       /\ clients' = clients \ {c}
       /\ sendCloses' = [sendCloses EXCEPT ![c] = IF Removes(c) THEN @ + 1 ELSE @]
  /\ unregister' = Tail(unregister)
  /\ UNCHANGED <<envVars, pumpVars, hub, broadcast, passed, joined, send, connVars,
                 written>>

\* A message goes to every client, and a client whose channel is full goes.
Fits_oneMore(c) == Len(send[c]) <= SendCap \* mutant: off by one
Fits(c) == Len(send[c]) < SendCap

Evicted_none == {} \* mutant: it only misses the message
Evicted == {c \in clients : ~Fits(c)}

HubBroadcasts ==
  /\ hub = "running" /\ broadcast # <<>>
  /\ broadcast' = Tail(broadcast) /\ passed' = Append(passed, Head(broadcast))
  /\ clients' = clients \ Evicted
  /\ send' = [c \in Ws |-> IF c \in clients /\ Fits(c)
                           THEN Append(send[c], Head(broadcast)) ELSE send[c]]
  /\ sendCloses' = [c \in Ws |-> IF c \in Evicted THEN sendCloses[c] + 1
                                 ELSE sendCloses[c]]
  /\ UNCHANGED <<envVars, pumpVars, hub, unregister, joined, connVars, written>>

HubEnds ==
  /\ hub = "running" /\ ctxDone
  /\ hub' = "done"
  /\ UNCHANGED <<envVars, pumpVars, broadcast, clients, unregister, passed, joined,
                 sendVars, connVars, written>>

-----------------------------------------------------------------------------
(* A client *)

\* handleWebSocket: the client waits to be registered, ...
Connect(c) ==
  /\ handler[c] = "none"
  /\ handler' = [handler EXCEPT ![c] = "registering"]
  /\ conn' = [conn EXCEPT ![c] = TRUE]
  /\ UNCHANGED <<envVars, pumpVars, hubVars, sendVars, writer, reader, written>>

\* ... or for the hub to be gone, as whoever sends to it does.
SeesHubGone_never == FALSE \* mutant: a plain send
SeesHubGone == hub = "done"

RegisterFails(c) ==
  /\ handler[c] = "registering" /\ SeesHubGone
  /\ handler' = [handler EXCEPT ![c] = "gone"]
  /\ conn' = [conn EXCEPT ![c] = FALSE]
  /\ UNCHANGED <<envVars, pumpVars, hubVars, sendVars, writer, reader, written>>

\* writePump writes a message, within a deadline.  It ends with the channel, or
\* when a write fails, and closes the connection.
Write(c) ==
  /\ writer[c] = "running" /\ send[c] # <<>> /\ conn[c]
  /\ send' = [send EXCEPT ![c] = Tail(@)]
  /\ written' = [written EXCEPT ![c] = Append(@, Head(send[c]))]
  /\ UNCHANGED <<envVars, pumpVars, hubVars, sendCloses, connVars>>

\* mutant: it does not close the connection
ConnAfter_kept(c) == conn
ConnAfter(c) == [conn EXCEPT ![c] = FALSE]

WriterEnds(c) ==
  /\ writer[c] = "running"
  /\ ~conn[c] \/ (send[c] = <<>> /\ sendCloses[c] > 0)
  /\ writer' = [writer EXCEPT ![c] = "gone"]
  /\ conn' = ConnAfter(c)
  /\ UNCHANGED <<envVars, pumpVars, hubVars, sendVars, handler, reader, written>>

\* readPump ends with the connection, and unregisters the client.
ReaderEnds(c) ==
  /\ reader[c] = "reading" /\ ~conn[c]
  /\ reader' = [reader EXCEPT ![c] = "leaving"]
  /\ UNCHANGED <<envVars, pumpVars, hubVars, sendVars, conn, handler, writer, written>>

Unregister(c) ==
  /\ reader[c] = "leaving"
  /\ \/ Len(unregister) < UnregCap /\ unregister' = Append(unregister, c)
     \/ SeesHubGone /\ UNCHANGED unregister
  /\ reader' = [reader EXCEPT ![c] = "gone"]
  /\ UNCHANGED <<envVars, pumpVars, hub, broadcast, clients, passed, joined, sendVars,
                 conn, handler, writer, written>>

-----------------------------------------------------------------------------
(* The outside *)

\* The peer goes away, or answers no ping in time, or a write runs out of time.
ConnBreaks(c) ==
  /\ conn[c] /\ handler[c] = "gone"
  /\ conn' = [conn EXCEPT ![c] = FALSE]
  /\ UNCHANGED <<envVars, pumpVars, hubVars, sendVars, handler, writer, reader, written>>

Cancel ==
  /\ ~ctxDone /\ ctxDone' = TRUE
  /\ UNCHANGED <<feedClosed, pumpVars, hubVars, sendVars, connVars, written>>

\* closeAllSubscribers, which the shutdown reaches after the cancellation.
CloseFeed ==
  /\ ctxDone /\ ~feedClosed /\ feedClosed' = TRUE
  /\ UNCHANGED <<ctxDone, pumpVars, hubVars, sendVars, connVars, written>>

-----------------------------------------------------------------------------
PumpSteps == PumpTakes \/ PumpSends \/ PumpEnds
HubSteps  ==
  HubUnregisters \/ HubBroadcasts \/ HubEnds \/ \E c \in Ws : HubRegisters(c)
Writer(c) == Write(c) \/ WriterEnds(c)
Reader(c) == ReaderEnds(c) \/ Unregister(c)

Next ==
  \/ PumpSteps \/ HubSteps \/ Cancel \/ CloseFeed
  \/ \E c \in Ws : \/ Connect(c) \/ RegisterFails(c) \/ Writer(c) \/ Reader(c)
                   \/ ConnBreaks(c)

Safe == Init /\ [][Next]_vars

\* Every goroutine is scheduled; a write ends within its deadline, so a writer
\* that has something to write goes on.
Spec ==
  /\ Safe
  /\ WF_vars(PumpSteps) /\ WF_vars(HubSteps) /\ WF_vars(CloseFeed)
  /\ \A c \in Ws : WF_vars(RegisterFails(c)) /\ WF_vars(Writer(c)) /\ WF_vars(Reader(c))

-----------------------------------------------------------------------------
(* Properties *)

\* A client's channel is closed at most once, by the eviction or by the reader's
\* unregistering, whichever the hub sees first, and no client it still holds has
\* a closed channel: the hub neither closes nor sends on a closed one.
ClosedOnce == \A c \in Ws : sendCloses[c] <= (IF c \in clients THEN 0 ELSE 1)

\* The hub is a feed: what it hands a client, whether written yet or still in the
\* client's channel, is every message from its registration to its removal, in
\* order, and whoever was removed is neither given anything more nor removed again.
\* One that does not keep up is evicted rather than left with a gap (Feed!NoGap).
F == INSTANCE Feed WITH
       members <- clients,
       former  <- {c \in Ws : sendCloses[c] > 0},
       since   <- joined,
       given   <- [c \in Ws |-> written[c] \o send[c]]

ImplementsFeed == F!Spec

\* Once the context is cancelled nobody stays blocked on the hub: neither the
\* pump, nor a client that registers, nor one that unregisters.
HubHoldsNoOne ==
  <>[](ctxDone => /\ pump = "gone"
                  /\ \A c \in Ws : handler[c] # "registering" /\ reader[c] # "leaving")

\* A client that is evicted is disconnected, and both its goroutines end.
EvictedEnd == \A c \in Ws : sendCloses[c] > 0 ~> (writer[c] = "gone" /\ reader[c] = "gone")
=============================================================================
