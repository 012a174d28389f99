------------------------------ MODULE Servers ------------------------------
(***************************************************************************)
(* The daemon's servers and its shutdown.  startDaemon starts the event    *)
(* loop and, each in a goroutine of its own, the gRPC and the REST server; *)
(* requests read the store, or stream the events that the fan-out copies   *)
(* to their channels.  When the context is cancelled the daemon stops the  *)
(* watcher, the REST server and the gRPC server, each within a grace       *)
(* period, waits for the event loop, and closes the store.                 *)
(*                                                                         *)
(* Events are tokens, counted in the channels that hold them.  A request   *)
(* is of one of four kinds, chosen when it arrives.                        *)
(***************************************************************************)
EXTENDS Integers

CONSTANTS
  Requests,
  FanOutCap, \* of broadcastCh; 512 in the source
  SubCap        \* of a subscriber's channel; 512 in the source

ASSUME ServersAssumption == {FanOutCap, SubCap} \subseteq Nat \ {0}

Rest   == {"rest", "sse"}    \* served over HTTP
Grpc   == {"grpc", "stream"}
Unary  == {"rest", "grpc"}   \* answered from the store
Stream == {"sse", "stream"}  \* answered from a subscription

VARIABLES
  cancelled,
  shutdown,        \* where the shutdown is
  \* Serve of each server: not there yet, or listening and known to Shutdown.
  restSrv, grpcSrv,
  shutdownCh,      \* closed: SSE handlers are to end
  down,            \* the servers that take no more requests
  \* The event loop and the fan-out.
  loop, broadcastCh, fanning,
  \* The subscriptions.
  subs, subsClosed, queue, closes,
  \* Each request: its kind, where its handler is, whether its connection is gone.
  kind, at, left,
  store,
  \* History: what failed to protect the store, and who used it after its close.
  gaps, late

mainVars == <<cancelled, shutdown, store, gaps>>
srvVars  == <<restSrv, grpcSrv, shutdownCh, down>>
loopVars == <<loop, broadcastCh, fanning>>
subVars  == <<subs, subsClosed, queue, closes>>
reqVars  == <<kind, at, left>>
serversVars == <<mainVars, srvVars, loopVars, subVars, reqVars, late>>

ServersTypeOK ==
  /\ cancelled \in BOOLEAN /\ shutdownCh \in BOOLEAN /\ fanning \in BOOLEAN
  /\ shutdown \in {"up", "rest", "restDrain", "grpc", "grpcDrain", "loop", "closed",
                   "exited"}
  /\ restSrv \in {"none", "bound"} /\ grpcSrv \in {"none", "bound"}
  /\ down \subseteq {"rest", "grpc"}
  /\ loop \in {"idle", "persisting", "gone"}
  /\ broadcastCh \in 0..FanOutCap
  /\ subs \subseteq Requests /\ subsClosed \in BOOLEAN
  /\ queue \in [Requests -> 0..SubCap] /\ closes \in [Requests -> Nat]
  /\ kind \in [Requests -> {"none"} \cup Rest \cup Grpc]
  /\ at \in [Requests -> {"none", "begun", "reading", "sending", "leaving", "gone"}]
  /\ left \subseteq Requests /\ store \in {"open", "closed"}
  /\ gaps \subseteq {"restMissed", "grpcMissed", "restExpired"}
  /\ late \subseteq {"loop"} \cup Unary

ServersInit ==
  /\ cancelled = FALSE /\ shutdown = "up"
  /\ restSrv = "none" /\ grpcSrv = "none" /\ shutdownCh = FALSE /\ down = {}
  /\ loop = "idle" /\ broadcastCh = 0 /\ fanning = FALSE
  /\ subs = {} /\ subsClosed = FALSE
  /\ queue = [r \in Requests |-> 0] /\ closes = [r \in Requests |-> 0]
  /\ kind = [r \in Requests |-> "none"] /\ at = [r \in Requests |-> "none"]
  /\ left = {} /\ store = "open" /\ gaps = {} /\ late = {}

Running == shutdown # "exited"

\* Who uses the store after its close is recorded.
UsesStore(who) == late' = IF store = "closed" THEN late \cup {who} ELSE late

-----------------------------------------------------------------------------
(* The event loop and the fan-out *)

\* An event is processed and offered to the fan-out, without waiting; the end of
\* a game is persisted first.
Offer == broadcastCh' = IF broadcastCh < FanOutCap THEN broadcastCh + 1 ELSE broadcastCh

ProcessEvent ==
  /\ Running /\ loop = "idle" /\ Offer
  /\ UNCHANGED <<mainVars, srvVars, loop, fanning, subVars, reqVars, late>>

GameEnds ==
  /\ Running /\ loop = "idle" /\ loop' = "persisting"
  /\ UNCHANGED <<mainVars, srvVars, broadcastCh, fanning, subVars, reqVars, late>>

Persist ==
  /\ Running /\ loop = "persisting" /\ loop' = "idle"
  /\ UsesStore("loop") /\ Offer
  /\ UNCHANGED <<mainVars, srvVars, fanning, subVars, reqVars>>

LoopEnds ==
  /\ Running /\ loop = "idle" /\ cancelled /\ loop' = "gone"
  /\ UNCHANGED <<mainVars, srvVars, broadcastCh, fanning, subVars, reqVars, late>>

\* fanOut, under subsMu: a subscriber whose channel is full misses the event.
HasRoom_oneMore(r) == queue[r] <= SubCap \* mutant: off by one
HasRoom(r) == queue[r] < SubCap

FanOut ==
  /\ Running /\ fanning /\ broadcastCh > 0
  /\ broadcastCh' = broadcastCh - 1
  /\ queue' = [r \in Requests |->
                 IF r \in subs /\ HasRoom(r) THEN queue[r] + 1 ELSE queue[r]]
  /\ UNCHANGED <<mainVars, srvVars, loop, fanning, subs, subsClosed, closes, reqVars,
                 late>>

FanOutEnds ==
  /\ Running /\ fanning /\ cancelled /\ fanning' = FALSE
  /\ UNCHANGED <<mainVars, srvVars, loop, broadcastCh, subVars, reqVars, late>>

-----------------------------------------------------------------------------
(* Serve *)

\* A server listens and lets Shutdown know of it, ...
RestBinds ==
  /\ Running /\ restSrv = "none" /\ restSrv' = "bound"
  /\ UNCHANGED <<mainVars, grpcSrv, shutdownCh, down, loopVars, subVars, reqVars, late>>

GrpcBinds ==
  /\ Running /\ grpcSrv = "none" /\ grpcSrv' = "bound" /\ fanning' = TRUE
  /\ UNCHANGED <<mainVars, restSrv, shutdownCh, down, loop, broadcastCh, subVars, reqVars,
                 late>>

\* ... and then serves, unless it was shut down meanwhile.
Accepting(k) ==
  IF k \in Rest THEN restSrv = "bound" /\ "rest" \notin down
                ELSE grpcSrv = "bound" /\ "grpc" \notin down

Arrive(r) ==
  /\ Running /\ at[r] = "none"
  /\ \E k \in Rest \cup Grpc : Accepting(k) /\ kind' = [kind EXCEPT ![r] = k]
  /\ at' = [at EXCEPT ![r] = "begun"]
  /\ UNCHANGED <<mainVars, srvVars, loopVars, subVars, left, late>>

-----------------------------------------------------------------------------
(* Handlers *)

Move(r, from, to) == Running /\ at[r] = from /\ at' = [at EXCEPT ![r] = to]

\* A unary handler reads the store and then answers.
ReadStore(r) ==
  /\ kind[r] \in Unary /\ Move(r, "begun", "sending")
  /\ UsesStore(kind[r])
  /\ UNCHANGED <<mainVars, srvVars, loopVars, subVars, kind, left>>

\* subscribe: a closed channel, once the server is stopping.
Refused_never == FALSE \* mutant: a late subscriber is registered
Refused == subsClosed

Subscribe(r) ==
  /\ kind[r] \in Stream /\ Move(r, "begun", "reading")
  /\ subs' = IF Refused THEN subs ELSE subs \cup {r}
  /\ closes' = [closes EXCEPT ![r] = IF Refused THEN @ + 1 ELSE @]
  /\ UNCHANGED <<mainVars, srvVars, loopVars, subsClosed, queue, kind, left, late>>

TakeEvent(r) ==
  /\ queue[r] > 0 /\ Move(r, "reading", "sending")
  /\ queue' = [queue EXCEPT ![r] = @ - 1]
  /\ UNCHANGED <<mainVars, srvVars, loopVars, subs, subsClosed, closes, kind, left, late>>

\* What is sent is taken, if the client goes on reading, or fails when the
\* connection is gone; the SSE handler ignores the failure.
AfterSend(r) ==
  CASE kind[r] \in Unary                    -> "gone"
    [] kind[r] = "stream" /\ r \in left     -> "leaving"
    [] OTHER                                -> "reading"

Send(r) ==
  /\ Move(r, "sending", AfterSend(r))
  /\ UNCHANGED <<mainVars, srvVars, loopVars, subVars, kind, left, late>>

\* A streaming handler ends when its channel is closed and drained, when its
\* connection is gone, and, for SSE, when the REST server shuts down.
Leave(r) ==
  /\ Move(r, "reading", "leaving")
  /\ \/ queue[r] = 0 /\ closes[r] > 0
     \/ r \in left
     \/ kind[r] = "sse" /\ shutdownCh
  /\ UNCHANGED <<mainVars, srvVars, loopVars, subVars, kind, left, late>>

\* unsubscribe closes the channel only when it still finds it.
Found_always(r) == TRUE \* mutant: it closes what the shutdown has closed
Found(r) == r \in subs

Unsubscribe(r) ==
  /\ Move(r, "leaving", "gone")
  /\ subs' = subs \ {r}
  /\ closes' = [closes EXCEPT ![r] = IF Found(r) THEN @ + 1 ELSE @]
  /\ UNCHANGED <<mainVars, srvVars, loopVars, subsClosed, queue, kind, left, late>>

ClientLeaves(r) ==
  /\ Running /\ at[r] \notin {"none", "gone"} /\ r \notin left
  /\ left' = left \cup {r}
  /\ UNCHANGED <<mainVars, srvVars, loopVars, subVars, kind, at, late>>

-----------------------------------------------------------------------------
(* Shutdown *)

CancelDaemon ==
  /\ ~cancelled /\ cancelled' = TRUE
  /\ UNCHANGED <<shutdown, store, gaps, srvVars, loopVars, subVars, reqVars, late>>

\* Stop of the watcher returns.
WatcherStops ==
  /\ shutdown = "up" /\ cancelled /\ shutdown' = "rest"
  /\ UNCHANGED <<cancelled, store, gaps, srvVars, loopVars, subVars, reqVars, late>>

\* Shutdown of the REST server: nothing to do if Serve has not come that far.
RestShutdown ==
  /\ shutdown = "rest"
  /\ IF restSrv = "none"
     THEN /\ shutdown' = "grpc" /\ gaps' = gaps \cup {"restMissed"}
          /\ UNCHANGED <<shutdownCh, down>>
     ELSE /\ shutdown' = "restDrain" /\ shutdownCh' = TRUE
          /\ down' = down \cup {"rest"} /\ UNCHANGED gaps
  /\ UNCHANGED <<cancelled, store, restSrv, grpcSrv, loopVars, subVars, reqVars, late>>

Busy(ks) == {r \in Requests : kind[r] \in ks /\ at[r] # "gone"}

RestDrained ==
  /\ shutdown = "restDrain" /\ Busy(Rest) = {} /\ shutdown' = "grpc"
  /\ UNCHANGED <<cancelled, store, gaps, srvVars, loopVars, subVars, reqVars, late>>

\* The grace period is over: the connections are closed, the handlers not awaited.
RestExpires ==
  /\ shutdown = "restDrain" /\ Busy(Rest) # {} /\ shutdown' = "grpc"
  /\ left' = left \cup Busy(Rest) /\ gaps' = gaps \cup {"restExpired"}
  /\ UNCHANGED <<cancelled, store, srvVars, loopVars, subVars, kind, at, late>>

\* Stop of the gRPC server: closeAllSubscribers, and then GracefulStop.
GrpcStop ==
  /\ shutdown = "grpc"
  /\ subsClosed' = TRUE /\ subs' = {}
  /\ closes' = [r \in Requests |-> IF r \in subs THEN closes[r] + 1 ELSE closes[r]]
  /\ IF grpcSrv = "none"
     THEN shutdown' = "loop" /\ gaps' = gaps \cup {"grpcMissed"} /\ UNCHANGED down
     ELSE shutdown' = "grpcDrain" /\ down' = down \cup {"grpc"} /\ UNCHANGED gaps
  /\ UNCHANGED <<cancelled, store, restSrv, grpcSrv, shutdownCh, loopVars, queue, reqVars,
                 late>>

\* GracefulStop waits for its handlers, after a forced Stop too.
GrpcAwaits_none == TRUE \* mutant: it does not wait
GrpcAwaits == Busy(Grpc) = {}

GrpcDrained ==
  /\ shutdown = "grpcDrain" /\ GrpcAwaits /\ shutdown' = "loop"
  /\ UNCHANGED <<cancelled, store, gaps, srvVars, loopVars, subVars, reqVars, late>>

GrpcExpires ==
  /\ shutdown = "grpcDrain" /\ ~(Busy(Grpc) \subseteq left)
  /\ left' = left \cup Busy(Grpc)
  /\ UNCHANGED <<mainVars, srvVars, loopVars, subVars, kind, at, late>>

\* The event loop has closed svc.done, and the store is closed.
CloseStore ==
  /\ shutdown = "loop" /\ loop = "gone"
  /\ shutdown' = "closed" /\ store' = "closed"
  /\ UNCHANGED <<cancelled, gaps, srvVars, loopVars, subVars, reqVars, late>>

Exit ==
  /\ shutdown = "closed" /\ shutdown' = "exited"
  /\ UNCHANGED <<cancelled, store, gaps, srvVars, loopVars, subVars, reqVars, late>>

-----------------------------------------------------------------------------
EventLoop == ProcessEvent \/ GameEnds \/ Persist
FanOuts   == FanOut \/ FanOutEnds
Serve     == RestBinds \/ GrpcBinds
Work(r)   == ReadStore(r) \/ Subscribe(r) \/ TakeEvent(r) \/ Leave(r) \/ Unsubscribe(r)
Shutdown  ==
  \/ WatcherStops \/ RestShutdown \/ RestDrained \/ GrpcStop \/ GrpcDrained
  \/ CloseStore \/ Exit

ServersNext ==
  \/ EventLoop \/ LoopEnds \/ FanOuts \/ Serve \/ CancelDaemon \/ Shutdown
  \/ RestExpires \/ GrpcExpires
  \/ \E r \in Requests : Arrive(r) \/ Work(r) \/ Send(r) \/ ClientLeaves(r)

ServersSafe == ServersInit /\ [][ServersNext]_serversVars

Stalled(ks) == \E r \in Busy(ks) : at[r] = "sending"

\* Goroutines are scheduled.  The select of the event loop picks at random among
\* what is ready, so that it does not miss the cancellation for ever.  A client
\* need not take what it is sent: only a connection that is gone makes Send fair.
\* The grace periods are relied on against such clients, and for nothing else.
ServersSpec ==
  /\ ServersSafe
  /\ WF_serversVars(Persist) /\ SF_serversVars(LoopEnds) /\ WF_serversVars(FanOuts) /\ WF_serversVars(Shutdown)
  /\ \A r \in Requests : WF_serversVars(Work(r)) /\ WF_serversVars(r \in left /\ Send(r))
  /\ WF_serversVars(Stalled(Rest) /\ RestExpires) /\ WF_serversVars(Stalled(Grpc) /\ GrpcExpires)

-----------------------------------------------------------------------------
(* What the shutdown promises *)

\* A subscriber's channel is closed once, by its handler or by the shutdown,
\* whichever comes first, ...
SubsClosedOnce == \A r \in Requests : closes[r] <= (IF r \in subs THEN 0 ELSE 1)

\* ... and the fan-out sends on no closed one, which would end the daemon.
SendsOnOpen == [][\A r \in Requests : queue'[r] > queue[r] => closes[r] = 0]_serversVars

\* The event loop never uses a closed store; a gRPC handler only if its server
\* was not up when the shutdown looked for it; a REST handler only then, or if it
\* outlasted the grace period.
StoreOutlivesUsers ==
  /\ "loop" \notin late
  /\ "grpc" \in late => "grpcMissed" \in gaps
  /\ "rest" \in late => gaps \cap {"restMissed", "restExpired"} # {}

\* What the comment on shutdown says: no server touches the store after its close.
NoneAfterClose == late = {}

\* The daemon exits once its context is cancelled, whatever its clients do, and
\* needs the grace periods for none but those that stopped reading.
ShutdownEnds == cancelled ~> shutdown = "exited"
=============================================================================
