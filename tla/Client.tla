------------------------------- MODULE Client -------------------------------
(***************************************************************************)
(* The terminal dashboard: an event loop that owns the model, and commands *)
(* (goroutines) that each return one message to it.  The dashboard         *)
(* connects to the daemon, shows the current game, and keeps three chains  *)
(* of commands alive that re-arm themselves: the reader of the event       *)
(* stream, the poll of the game and the poll of the aggregate.  A second   *)
(* model, the replay of past games, shares the loop; Tab switches between  *)
(* the two.                                                                *)
(*                                                                         *)
(* A command or the message it returned is an element of a bag: running a  *)
(* command replaces it by its message, delivering a message replaces it by *)
(* the commands that Update returns.  A timer, or the command that reads a *)
(* replay, is from the start the message it will return: it may be         *)
(* delivered at any later time.                                            *)
(***************************************************************************)
EXTENDS Integers, FiniteSets, Bags

CONSTANTS
  Clients,      \* gRPC clients, numbered: as many as can be in use at once
  MaxGen,       \* bound on the connections made: the daemon crashes less often
  MaxVersion,   \* bound on the changes of the game in the daemon
  MaxQueued,    \* capacity of a client's event channel; 512 in the source
  MaxFetch      \* bound on the fetches of the game in flight and their answers

ASSUME ClientAssumption ==
  /\ Clients \subseteq Nat \ {0} /\ IsFiniteSet(Clients)
  /\ {MaxGen, MaxVersion, MaxQueued, MaxFetch} \subseteq Nat

VARIABLES
  \* The daemon: whether it serves, and the version of the game it holds.
  up, version,
  \* The gRPC clients that are not closed, their event streams and channels.
  open, stream, queued,
  \* The live model.
  connState, generation, client, game,
  \* The combined model: which model is shown, the replay (ready: not loading,
  \* with games or an error), the startup notice.
  mode, replay, notice, quit,
  pending       \* commands that run and messages that wait for the loop

daemonVars == <<up, version>>
wireVars   == <<open, stream, queued>>
liveVars   == <<connState, generation, client, game>>
screenVars == <<mode, replay, notice, quit>>
clientVars == <<daemonVars, wireVars, liveVars, screenVars, pending>>

NoClient == 0

(***************************************************************************)
(* Commands and messages.                                                  *)
(***************************************************************************)
Item(kind, gen, cl, ver) == [kind |-> kind, gen |-> gen, cl |-> cl, ver |-> ver]

Plain(kind)           == Item(kind, 0, NoClient, 0)
OfClient(kind, c, v)  == Item(kind, 0, c, v)
OfGen(kind, g)        == Item(kind, g, NoClient, 0)
ForConn(kind, g, c)   == Item(kind, g, c, 0)

Commands == {"connect", "subscribe", "fetch", "reader"}
LiveMsgs == {"connected", "connectFailed", "reconnect", "lost", "game", "event",
             "aggTick", "gameTick"}
ReplayMsgs == {"replayInit", "replayLoaded"}

TypeOK ==
  /\ up \in BOOLEAN /\ version \in 0..MaxVersion
  /\ open \subseteq Clients
  /\ stream \in [Clients -> {"none", "open", "cut"}] /\ queued \in [Clients -> 0..MaxQueued]
  /\ connState \in {"connecting", "connected", "disconnected"}
  /\ generation \in 0..MaxGen /\ client \in Clients \cup {NoClient}
  /\ game \in -1..MaxVersion
  /\ mode \in {"live", "replay"} /\ replay \in {"none", "starting", "loading", "ready"}
  /\ notice \in BOOLEAN /\ quit \in BOOLEAN
  /\ BagToSet(pending) \subseteq
       [kind : Commands \cup LiveMsgs \cup ReplayMsgs, gen : 0..MaxGen,
        cl : Clients \cup {NoClient}, ver : 0..MaxVersion]

\* How often the items of S are pending.
Count(S) == BagCardinality([i \in BagToSet(pending) \cap S |-> pending[i]])
Items(kinds) == {i \in BagToSet(pending) : i.kind \in kinds}

Becomes(i, S) == pending' = (pending (-) SetToBag({i})) (+) SetToBag(S)
Starts(S)     == pending' = pending (+) SetToBag(S)

FetchRoom == Count(Items({"fetch", "game", "lost"})) < MaxFetch

ClientInit ==
  /\ up \in BOOLEAN /\ version = 0
  /\ open = {} /\ stream = [c \in Clients |-> "none"] /\ queued = [c \in Clients |-> 0]
  /\ connState = "connecting" /\ generation = 0 /\ client = NoClient /\ game = -1
  /\ mode = "live" /\ replay = "none" /\ quit = FALSE
  /\ notice \in BOOLEAN
  /\ pending = IF notice THEN EmptyBag ELSE SetToBag({Plain("connect")})

(***************************************************************************)
(* The daemon.  A change need not produce an event for a stream, and an    *)
(* event is lost when the subscriber's buffer is full.                     *)
(***************************************************************************)
Change ==
  /\ up /\ version < MaxVersion
  /\ version' = version + 1
  /\ \E S \in SUBSET {c \in Clients : stream[c] = "open" /\ queued[c] < MaxQueued} :
       queued' = [c \in Clients |-> IF c \in S THEN queued[c] + 1 ELSE queued[c]]
  /\ UNCHANGED <<up, open, stream, liveVars, screenVars, pending>>

Crash ==
  /\ up /\ generation + Count(Items({"subscribe", "connected"})) < MaxGen
  /\ up' = FALSE
  /\ stream' = [c \in Clients |-> IF stream[c] = "open" THEN "cut" ELSE stream[c]]
  /\ UNCHANGED <<version, open, queued, liveVars, screenVars, pending>>

Restart ==
  /\ ~up
  /\ up' = TRUE
  /\ UNCHANGED <<version, wireVars, liveVars, screenVars, pending>>

(***************************************************************************)
(* The commands.                                                           *)
(***************************************************************************)
InUse == open \cup {client} \cup {i.cl : i \in BagToSet(pending)}
\* mutant: the client in use is given out again
X_Idle == Clients \ {i.cl : i \in BagToSet(pending)}
Idle   == Clients \ InUse

\* Closing a client cuts its stream; what is in its channel can still be read.
Closed(C) ==
  /\ open' = open \ C
  /\ stream' = [c \in Clients |-> IF c \in C /\ stream[c] = "open" THEN "cut" ELSE stream[c]]

Dial(i) ==
  /\ i.kind = "connect"
  /\ IF up
       THEN \E c \in Idle :
              /\ \A d \in Idle : c <= d
              /\ open' = open \cup {c}
              /\ stream' = [stream EXCEPT ![c] = "none"] /\ queued' = [queued EXCEPT ![c] = 0]
              /\ Becomes(i, {OfClient("subscribe", c, version)})
       ELSE Becomes(i, {Plain("connectFailed")}) /\ UNCHANGED wireVars
  /\ UNCHANGED <<daemonVars, liveVars, screenVars>>

Subscribe(i) ==
  /\ i.kind = "subscribe"
  /\ IF up
       THEN /\ stream' = [stream EXCEPT ![i.cl] = "open"]
            /\ Becomes(i, {OfClient("connected", i.cl, i.ver)})
            /\ UNCHANGED open
       ELSE /\ Closed({i.cl})
            /\ Becomes(i, {Plain("connectFailed")})
  /\ UNCHANGED <<queued, daemonVars, liveVars, screenVars>>

Fetch(i) ==
  /\ i.kind = "fetch"
  /\ IF up /\ i.cl \in open
       THEN Becomes(i, {OfClient("game", NoClient, version)})
       ELSE Becomes(i, {OfGen("lost", i.gen)})
  /\ UNCHANGED <<daemonVars, wireVars, liveVars, screenVars>>

ReadEvent(i) ==
  /\ i.kind = "reader"
  /\ \/ /\ queued[i.cl] > 0
        /\ queued' = [queued EXCEPT ![i.cl] = @ - 1]
        /\ Becomes(i, {OfGen("event", i.gen)})
     \/ /\ queued[i.cl] = 0 /\ stream[i.cl] = "cut"
        /\ Becomes(i, {OfGen("lost", i.gen)})
        /\ UNCHANGED queued
  /\ UNCHANGED <<daemonVars, open, stream, liveVars, screenVars>>

(***************************************************************************)
(* The loop.  The hidden model takes only the messages it must go on       *)
(* processing; a message that no model takes is dropped.                   *)
(***************************************************************************)
\* mutant: the poll of the game is not among the messages that pass
X_isLiveBackgroundMsg(kind) == kind \in LiveMsgs \ {"gameTick"}
isLiveBackgroundMsg(kind) == kind \in LiveMsgs

ToLive(kind)   == kind \in LiveMsgs /\ (mode = "live" \/ isLiveBackgroundMsg(kind))
ToReplay(kind) == kind = "replayLoaded" /\ mode = "replay"

\* mutant: a second report of the same loss is taken as a new one
X_Current(i) ==
  /\ i.kind = "lost" => i.gen = generation
  /\ i.kind \in {"event", "aggTick", "gameTick"} => i.gen = generation /\ client # NoClient
Current(i) ==
  /\ i.kind = "lost" => i.gen = generation /\ connState = "connected"
  /\ i.kind \in {"event", "aggTick", "gameTick"} => i.gen = generation /\ client # NoClient

Taken(i) == i.kind = "replayInit" \/ ToReplay(i.kind) \/ (ToLive(i.kind) /\ Current(i))

Running == ~notice /\ ~quit

FetchGame == ForConn("fetch", generation, client)

OnConnected(i) ==
  /\ i.kind = "connected"
  /\ Closed({client} \ {i.cl})
  /\ generation' = generation + 1
  /\ connState' = "connected" /\ client' = i.cl /\ game' = i.ver
  /\ Becomes(i, {ForConn("reader", generation + 1, i.cl), OfGen("aggTick", generation + 1),
                 OfGen("gameTick", generation + 1)})

\* mutant: the client of the lost connection is forgotten, not closed
X_OnDisconnected(i) ==
  /\ i.kind \in {"lost", "connectFailed"}
  /\ connState' = "disconnected" /\ client' = NoClient
  /\ Becomes(i, {Plain("reconnect")})
  /\ UNCHANGED <<open, stream, generation, game>>
OnDisconnected(i) ==
  /\ i.kind \in {"lost", "connectFailed"}
  /\ connState' = "disconnected"
  /\ Closed({client}) /\ client' = NoClient
  /\ Becomes(i, {Plain("reconnect")})
  /\ UNCHANGED <<generation, game>>

OnReconnect(i) ==
  /\ i.kind = "reconnect"
  /\ connState' = "connecting"
  /\ Becomes(i, {Plain("connect")})
  /\ UNCHANGED <<open, stream, generation, client, game>>

OnGame(i) ==
  /\ i.kind = "game"
  /\ game' = i.ver
  /\ Becomes(i, {})
  /\ UNCHANGED <<open, stream, connState, generation, client>>

OnEvent(i) ==
  /\ i.kind = "event" /\ FetchRoom
  /\ Becomes(i, {ForConn("reader", generation, client), FetchGame})
  /\ UNCHANGED <<open, stream, liveVars>>

\* The aggregate it fetches is not modelled: a failure is ignored.
OnAggTick(i) ==
  /\ i.kind = "aggTick"
  /\ Becomes(i, {OfGen("aggTick", generation)})
  /\ UNCHANGED <<open, stream, liveVars>>

OnGameTick(i) ==
  /\ i.kind = "gameTick" /\ FetchRoom
  /\ Becomes(i, {FetchGame, OfGen("gameTick", generation)})
  /\ UNCHANGED <<open, stream, liveVars>>

LiveUpdate(i) ==
  \/ OnConnected(i)
  \/ OnDisconnected(i)
  \/ OnReconnect(i)
  \/ OnGame(i)
  \/ OnEvent(i)
  \/ OnAggTick(i)
  \/ OnGameTick(i)

\* The games come from the store, read by then, or from the log files: the
\* replay is then installed in its loading state and reads them.
OnReplayInit(i) ==
  /\ i.kind = "replayInit"
  /\ \/ replay' = "ready" /\ Becomes(i, {})
     \/ replay' = "loading" /\ Becomes(i, {Plain("replayLoaded")})

OnReplayLoaded(i) ==
  /\ i.kind = "replayLoaded"
  /\ replay' = "ready"
  /\ Becomes(i, {})

Deliver(i) ==
  /\ Running /\ Taken(i)
  /\ \/ LiveUpdate(i) /\ UNCHANGED screenVars
     \/ (OnReplayInit(i) \/ OnReplayLoaded(i))
        /\ UNCHANGED <<mode, notice, quit, open, stream, liveVars>>
  /\ UNCHANGED <<daemonVars, queued>>

Drop(i) ==
  /\ Running /\ i.kind \in LiveMsgs \cup ReplayMsgs /\ ~Taken(i)
  /\ Becomes(i, {})
  /\ UNCHANGED <<daemonVars, wireVars, liveVars, screenVars>>

(***************************************************************************)
(* The keys.                                                               *)
(***************************************************************************)
Dismiss ==
  /\ notice /\ ~quit
  /\ notice' = FALSE
  /\ Starts({Plain("connect")})
  /\ UNCHANGED <<daemonVars, wireVars, liveVars, mode, replay, quit>>

Refresh ==
  /\ Running /\ mode = "live" /\ connState = "connected" /\ client # NoClient /\ FetchRoom
  /\ Starts({FetchGame})
  /\ UNCHANGED <<daemonVars, wireVars, liveVars, screenVars>>

\* mutant: coming back to the live model arms another reader
X_switchMode ==
  /\ Running
  /\ \/ /\ mode = "live" /\ mode' = "replay"
        /\ replay' = IF replay = "none" THEN "starting" ELSE replay
        /\ Starts(IF replay = "none" THEN {Plain("replayInit")} ELSE {})
     \/ /\ mode = "replay" /\ mode' = "live"
        /\ FetchRoom
        /\ Starts(IF client # NoClient
                    THEN {FetchGame, ForConn("reader", generation, client)} ELSE {})
        /\ UNCHANGED replay
  /\ UNCHANGED <<daemonVars, wireVars, liveVars, notice, quit>>
switchMode ==
  /\ Running
  /\ \/ /\ mode = "live" /\ mode' = "replay"
        /\ replay' = IF replay = "none" THEN "starting" ELSE replay
        /\ Starts(IF replay = "none" THEN {Plain("replayInit")} ELSE {})
     \/ /\ mode = "replay" /\ mode' = "live"
        /\ FetchRoom
        /\ Starts(IF client # NoClient THEN {FetchGame} ELSE {})
        /\ UNCHANGED replay
  /\ UNCHANGED <<daemonVars, wireVars, liveVars, notice, quit>>

switchSource ==
  /\ Running /\ mode = "replay" /\ replay = "ready"
  /\ replay' = "loading"
  /\ Starts({Plain("replayLoaded")})
  /\ UNCHANGED <<daemonVars, wireVars, liveVars, mode, notice, quit>>

Quit ==
  /\ ~quit
  /\ quit' = TRUE
  /\ IF Running /\ mode = "live" THEN Closed({client}) ELSE UNCHANGED <<open, stream>>
  /\ pending' = EmptyBag
  /\ UNCHANGED <<daemonVars, queued, liveVars, mode, replay, notice>>

Command(i) ==
  /\ ~quit
  /\ \/ Dial(i) \/ Subscribe(i) \/ Fetch(i) \/ ReadEvent(i)

Environment == Change \/ Crash \/ Restart
Keys        == Dismiss \/ Refresh \/ switchMode \/ switchSource \/ Quit

Terminated == quit /\ UNCHANGED clientVars

ClientNext ==
  \/ ~quit /\ Environment
  \/ \E i \in BagToSet(pending) : Command(i) \/ Deliver(i) \/ Drop(i)
  \/ Keys
  \/ Terminated

(***************************************************************************)
(* Fairness: commands return, and the loop takes messages in the order in  *)
(* which they are sent to it; nothing is assumed of the daemon or the user.*)
(***************************************************************************)
Step(kinds) == \E i \in Items(kinds) : Command(i) \/ Deliver(i) \/ Drop(i)

Fairness ==
  /\ WF_clientVars(Step({"connect", "subscribe", "connected", "connectFailed", "reconnect"}))
  /\ WF_clientVars(Step({"fetch"}))
  /\ WF_clientVars(Step({"game"}))
  /\ WF_clientVars(Step({"lost"}))
  /\ WF_clientVars(Step({"reader"}))
  /\ WF_clientVars(Step({"event"}))
  /\ WF_clientVars(Step({"gameTick"}))
  /\ WF_clientVars(Step({"replayInit", "replayLoaded"}))

ClientSpec == ClientInit /\ [][ClientNext]_clientVars /\ Fairness

(***************************************************************************)
(* Properties.                                                             *)
(***************************************************************************)
ConnectPath == {"connect", "subscribe", "connected", "connectFailed", "reconnect"}
OfNow(kinds) == {i \in Items(kinds) : i.gen = generation}

\* One attempt to connect is under way when the dashboard is not connected,
\* and none when it is, however many commands report the loss of the same
\* connection.
OneConnector ==
  Running => Count(Items(ConnectPath)) = (IF connState = "connected" THEN 0 ELSE 1)

\* A connection has one poll of the game, one of the aggregate, and one
\* reader, which is missing only once a report of the loss is on its way.
OneChain ==
  Running /\ connState = "connected" =>
    /\ Count(OfNow({"gameTick"})) = 1 /\ Count(OfNow({"aggTick"})) = 1
    /\ Count(OfNow({"reader", "event"})) <= 1
    /\ Count(OfNow({"reader", "event"})) = 1 \/ OfNow({"lost"}) # {}

\* The open gRPC clients are the one in use and the one being made.
NoLeak ==
  Running => open \subseteq {client} \cup {i.cl : i \in Items({"subscribe", "connected"})}

\* When the daemon stays up and the game no longer changes, the dashboard
\* ends up connected and showing that game, also when it is hidden behind
\* the replay, whatever events were lost and in whatever order the fetches
\* were answered.
CaughtUp ==
  <>[](up /\ ~notice /\ ~quit) => <>[](connState = "connected" /\ game = version)

\* internal/tui/combined.go:279 says that the real model is waited for instead of being
\* discarded: a replay that starts to load is loaded in the end.
ReplayArrives == (replay = "loading") ~> (replay = "ready" \/ quit)
=============================================================================
