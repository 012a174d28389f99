---------------------------- MODULE CaptureProofs ----------------------------
(* Theorems of Capture, for any number of games, lines, frames and starts of *)
(* the process.                                                              *)
EXTENDS Capture, FiniteSetTheorems, SequenceTheorems, TLAPS

-----------------------------------------------------------------------------
(* The inductive invariant: the log *)

Over(g) == [kind |-> "over", game |-> g]

\* A game's lines are together, from its "create" on, and nothing follows its "over".
LogInOrder ==
  /\ \A i \in DOMAIN log : log[i].kind # "create" => i > 1 /\ log[i - 1].game = log[i].game
  /\ \A i \in DOMAIN log : log[i].kind = "over" =>
       \A j \in DOMAIN log : j > i => log[j].game # log[i].game

\* The game being played is the last of the log and not over; the next is new.
ClientAt ==
  /\ playing # NoGame =>
       /\ log # <<>> /\ log[Len(log)].game = playing
       /\ \A i \in DOMAIN log : log[i] # Over(playing)
  /\ playing < nextGame /\ \A i \in DOMAIN log : log[i].game < nextGame

-----------------------------------------------------------------------------
(* The inductive invariant: the feed and the tracker *)

\* The marker has been seen by the consumer.
Caught == caughtUp \/ caughtUpCh

\* What is queued when n lines are applied: the lines fed since, and among them
\* the marker, if it is sent and not seen, at or after the end of the old log.
Queued(n) ==
  IF marked /\ ~Caught
  THEN /\ Len(events) = fed - n + 1
       /\ \E p \in DOMAIN events :
            /\ events[p] = Marker /\ n + p > boundary
            /\ \A j \in DOMAIN events :
                 /\ j < p => events[j] = log[n + j]
                 /\ j > p => events[j] = log[n + j - 1]
  ELSE /\ Len(events) = fed - n
       /\ \A j \in DOMAIN events : events[j] = log[n + j]

\* The tracker is where the last line applied put it.
PhaseAfter(k) == CASE k = "create" -> "LOBBY" [] k = "turn" -> "PLAY"
                   [] k = "rejoin" -> "LOBBY" [] k = "over" -> "GAME_OVER"
Tracker(n) ==
  IF n = 0 THEN phase = "IDLE" /\ gameID = NoGame
  ELSE gameID = log[n].game /\ phase = PhaseAfter(log[n].kind)

FeedInv ==
  /\ Caught => marked
  /\ \E n \in 0..fed : Queued(n) /\ Tracker(n) /\ (Caught => n >= boundary)

-----------------------------------------------------------------------------
(* The inductive invariant: the loop *)

Down == ~up => /\ fed = 0 /\ ~marked /\ events = <<>> /\ phase = "IDLE" /\ gameID = NoGame
               /\ ~caughtUpCh /\ ~caughtUp /\ ~capturing /\ pc = "select"

\* What a session is begun for, once it may begin, is not over in the old log.
MayStart == pc = "start" /\ caughtUp /\ gameID # NoGame => ~Historic(gameID)

Session ==
  /\ capturing => storeGame \in Games /\ frameCount = sequence
  /\ pc \in {"screenshot", "insert", "rename"} => capturing
  /\ pc = "start" => ~capturing
  /\ pc \in {"insert", "rename"} => sequence < MaxFrames
  /\ pc = "rename" => sequence \in rows[storeGame] /\ sequence \notin DOMAIN files[storeGame]

\* Every file has its row.
FilesHaveRows == \A g \in Games : DOMAIN files[g] \subseteq rows[g]

\* In the one session of a game, its rows are the frames so far and the one being
\* moved to its place.
Rows ==
  \A g \in Games \ (several \cup torn) :
    /\ ~games[g].stored => rows[g] = {} /\ ~games[g].ended
    /\ games[g].ended => games[g].total = Cardinality(rows[g])
    /\ capturing /\ storeGame = g =>
         /\ ~games[g].ended /\ games[g].stored
         /\ rows[g] = 0..(IF pc = "rename" THEN sequence ELSE sequence - 1)

FilesType == files = [g \in Games |-> files[g]]

CaptureInv ==
  /\ TypeOK /\ FilesType /\ Len(log) <= MaxLog /\ boundary <= Len(log)
  /\ LogInOrder /\ ClientAt /\ FeedInv /\ Down /\ MayStart /\ Session
  /\ FilesHaveRows /\ Rows /\ NoHistoricSession
-----------------------------------------------------------------------------
(* The types in parts, as the steps change them *)

Flags ==
  /\ up \in BOOLEAN /\ marked \in BOOLEAN /\ fresh \in BOOLEAN
  /\ caughtUpCh \in BOOLEAN /\ caughtUp \in BOOLEAN /\ capturing \in BOOLEAN
ClientTypes == playing \in Games \cup {NoGame} /\ nextGame \in Nat /\ log \in Seq(Event)
\* What is queued: the events and the marker.
Item == Event \cup {Marker}
FeedTypes ==
  /\ starts \in 1..MaxStarts /\ boundary \in 0..MaxLog /\ fed \in 0..Len(log)
  /\ events \in Seq(Item)
  /\ phase \in Phases /\ gameID \in Games \cup {NoGame}
LoopTypes ==
  /\ pc \in {"select", "start", "screenshot", "insert", "rename"}
  /\ sequence \in 0..MaxFrames /\ image \in Games \cup {NoGame}
  /\ storeGame \in Games \cup {NoGame} /\ frameCount \in 0..MaxFrames
GamesTypes == games \in [Games -> Archive] /\ rows \in [Games -> SUBSET (0..MaxFrames)]
FilesTypes ==
  \A g \in Games : DOMAIN files[g] \subseteq 0..MaxFrames
                   /\ \A s \in DOMAIN files[g] : files[g][s] \in Games \cup {NoGame}
PastTypes == several \subseteq Games /\ torn \subseteq Games /\ staled \subseteq Games

LEMMA Types ==
  TypeOK <=> /\ Flags /\ ClientTypes /\ FeedTypes /\ LoopTypes /\ GamesTypes /\ FilesTypes
             /\ PastTypes
BY DEF TypeOK, Flags, ClientTypes, FeedTypes, Item, LoopTypes, GamesTypes, FilesTypes,
       PastTypes

LEMMA TypesNext ==
  TypeOK' <=> /\ Flags' /\ ClientTypes' /\ FeedTypes' /\ LoopTypes' /\ GamesTypes'
              /\ FilesTypes' /\ PastTypes'
BY DEF TypeOK, Flags, ClientTypes, FeedTypes, Item, LoopTypes, GamesTypes, FilesTypes,
       PastTypes

LEMMA Bounds ==
  /\ NumGames \in Nat /\ MaxLog \in Nat /\ MaxFrames \in Nat /\ MaxStarts \in Nat \ {0}
  /\ NoGame \notin Games /\ \A g \in Games : g \in Nat
BY BoundsAssumption DEF Games, NoGame

LEMMA EventFields ==
  /\ \A e \in Event : /\ e.kind \in {"create", "turn", "rejoin", "over"} /\ e.game \in Games
                      /\ e # Marker
                      /\ e.kind = "over" => e = Over(e.game)
  /\ \A k \in {"create", "turn", "rejoin", "over"}, g \in Games :
       [kind |-> k, game |-> g] \in Event
<1>1. \A e \in Event : e.kind \in {"create", "turn", "rejoin", "over"} /\ e.game \in Games
  BY DEF Event
<1>2. \A e \in Event : e # Marker
  <2>1. Marker.kind = "caught up"
    BY DEF Marker
  <2> QED
    BY <1>1, <2>1
<1>3. \A e \in Event : e.kind = "over" => e = Over(e.game)
  BY DEF Event, Over
<1>4. \A k \in {"create", "turn", "rejoin", "over"}, g \in Games :
        [kind |-> k, game |-> g] \in Event
  BY DEF Event
<1> QED
  BY <1>1, <1>2, <1>3, <1>4

\* What the log is after another line.
LEMMA Appended ==
  ASSUME NEW S, NEW l \in Seq(S), NEW e \in S, NEW m, m = Append(l, e)
  PROVE  /\ m \in Seq(S) /\ Len(m) = Len(l) + 1 /\ Len(l) \in Nat
         /\ DOMAIN l = 1..Len(l) /\ DOMAIN m = 1..(Len(l) + 1)
         /\ \A i \in DOMAIN l : m[i] = l[i] /\ l[i] \in S
         /\ m[Len(l) + 1] = e
<1>1. /\ m \in Seq(S) /\ Len(m) = Len(l) + 1 /\ m[Len(l) + 1] = e
      /\ \A i \in 1..Len(l) : m[i] = l[i]
  BY AppendProperties
<1>2. DOMAIN l = 1..Len(l) /\ Len(l) \in Nat /\ DOMAIN m = 1..Len(m)
  BY <1>1, LenProperties
<1>3. \A i \in DOMAIN l : l[i] \in S
  BY <1>2, ElementOfSeq
<1> QED
  BY <1>1, <1>2, <1>3

-----------------------------------------------------------------------------
(* The client's log *)

\* A line that the client may write keeps the log in order.
LEMMA LineStep ==
  ASSUME ClientTypes, LogInOrder, ClientAt, NEW e \in Event, log' = Append(log, e),
         e.kind = "create" => playing = NoGame /\ e.game = nextGame
                              /\ playing' = nextGame /\ nextGame' = nextGame + 1,
         e.kind # "create" => e.game = playing /\ nextGame' = nextGame,
         e.kind \in {"turn", "rejoin"} => playing' = playing,
         e.kind = "over" => playing' = NoGame
  PROVE  ClientTypes' /\ LogInOrder' /\ ClientAt'
<1> USE Bounds
<1> DEFINE n == Len(log)
<1>1. /\ log' \in Seq(Event) /\ Len(log') = n + 1 /\ n \in Nat
      /\ DOMAIN log = 1..n /\ DOMAIN log' = 1..(n + 1)
      /\ \A i \in DOMAIN log : log'[i] = log[i] /\ log[i] \in Event
      /\ log'[n + 1] = e
  BY Appended DEF ClientTypes
<1>2. /\ e.kind \in {"create", "turn", "rejoin", "over"} /\ e.game \in Games
      /\ e.kind = "over" => e = Over(e.game)
  BY EventFields
<1>3. \A i \in DOMAIN log : log[i].game \in Games /\ log[i].game \in Nat
                            /\ (log[i].kind = "over" => log[i] = Over(log[i].game))
  BY <1>1, EventFields
<1>4. nextGame \in Nat /\ nextGame' \in Nat
  BY <1>2 DEF ClientTypes
<1>5. e.kind # "create" => playing = e.game /\ playing # NoGame /\ n > 0
                            /\ log[n].game = e.game
                            /\ \A i \in DOMAIN log : log[i] # Over(e.game)
  BY <1>1, <1>2, EmptySeq DEF ClientAt, ClientTypes
<1>6. ClientTypes'
  BY <1>1, <1>2, <1>4, <1>5 DEF ClientTypes
<1>7. LogInOrder'
  <2>1. ASSUME NEW i \in DOMAIN log', log'[i].kind # "create"
        PROVE  i > 1 /\ log'[i - 1].game = log'[i].game
    <3>1. CASE i \in DOMAIN log
      <4>1. log'[i] = log[i] /\ i > 1 /\ log[i - 1].game = log[i].game
        BY <2>1, <3>1, <1>1 DEF LogInOrder
      <4>2. i - 1 \in DOMAIN log
        BY <3>1, <4>1, <1>1
      <4> QED
        BY <4>1, <4>2, <1>1
    <3>2. CASE i = n + 1
      <4>1. log'[i] = e /\ i - 1 = n
        BY <3>2, <1>1
      <4>2. e.kind # "create"
        BY <2>1, <4>1
      <4>3. n > 0 /\ log[n].game = e.game
        BY <4>2, <1>5
      <4>4. n \in DOMAIN log
        BY <4>3, <1>1
      <4>5. log'[n] = log[n]
        BY <4>4, <1>1
      <4>6. i > 1
        BY <3>2, <4>3, <1>1
      <4> QED
        BY <4>1, <4>3, <4>5, <4>6
    <3> QED
      BY <3>1, <3>2, <1>1
  <2>2. ASSUME NEW i \in DOMAIN log', log'[i].kind = "over", NEW j \in DOMAIN log', j > i
        PROVE  log'[j].game # log'[i].game
    <3>1. i \in DOMAIN log /\ log'[i] = log[i]
      BY <2>2, <1>1
    <3>2. CASE j \in DOMAIN log
      BY <2>2, <3>1, <3>2, <1>1 DEF LogInOrder
    <3>3. CASE j = n + 1
      <4>0. log[i].kind = "over"
        BY <2>2, <3>1
      <4>1. log[i] = Over(log[i].game) /\ log[i].game < nextGame /\ log[i].game \in Nat
        BY <3>1, <4>0, <1>3 DEF ClientAt
      <4>2. CASE e.kind = "create"
        <5>1. e.game # log[i].game
          BY <4>1, <4>2, <1>4
        <5> QED
          BY <3>1, <3>3, <5>1, <1>1
      <4>3. CASE e.kind # "create"
        <5>1. e.game # log[i].game
          BY <3>1, <4>1, <4>3, <1>5
        <5> QED
          BY <3>1, <3>3, <5>1, <1>1
      <4> QED
        BY <4>2, <4>3
    <3> QED
      BY <3>2, <3>3, <1>1
  <2> QED
    BY <2>1, <2>2 DEF LogInOrder
<1>8. ClientAt'
  <2>1. log' # <<>> /\ log'[Len(log')] = e
    BY <1>1, EmptySeq
  <2>2. CASE e.kind = "create"
    <3>1. \A i \in DOMAIN log : log[i].game < nextGame
      BY DEF ClientAt
    <3>2. e # Over(nextGame) /\ \A i \in DOMAIN log : log[i] # Over(nextGame)
      BY <2>2, <3>1, <1>3, <1>4 DEF Over
    <3>3. \A i \in DOMAIN log' : log'[i] # Over(nextGame)
      BY <3>2, <1>1
    <3>4. \A i \in DOMAIN log' : log'[i].game < nextGame + 1
      BY <2>2, <3>1, <1>1, <1>3, <1>4
    <3> QED
      BY <2>1, <2>2, <3>3, <3>4, <1>4 DEF ClientAt
  <2>3. CASE e.kind # "create"
    <3>1. \A i \in DOMAIN log' : log'[i].game < nextGame
      BY <2>3, <1>1, <1>5 DEF ClientAt
    <3>2. playing' # NoGame => e.kind \in {"turn", "rejoin"} /\ playing' = playing
                               /\ e # Over(playing)
      BY <2>3, <1>2 DEF Over
    <3>3. playing' # NoGame => \A i \in DOMAIN log' : log'[i] # Over(playing)
      BY <2>3, <3>2, <1>1, <1>5
    <3>4. playing' < nextGame'
      BY <2>3, <1>2, <1>4 DEF ClientAt, NoGame
    <3> QED
      BY <2>1, <2>3, <3>1, <3>2, <3>3, <3>4, <1>5 DEF ClientAt
  <2> QED
    BY <2>2, <2>3
<1> QED
  BY <1>6, <1>7, <1>8

\* What the process has of the log does not change as the log grows.
Longer ==
  /\ log' \in Seq(Event) /\ Len(log') \in Nat /\ Len(log') <= MaxLog
  /\ Len(log) <= Len(log') /\ \A i \in DOMAIN log : log'[i] = log[i]
  /\ UNCHANGED NotClient

LEMMA ClientStep ==
  ASSUME CaptureInv, CreateGame \/ Turn \/ Rejoin \/ GameOver \/ LeaveGame
  PROVE  ClientTypes' /\ LogInOrder' /\ ClientAt' /\ Longer
<1> USE Bounds DEF CaptureInv
<1>0. ClientTypes /\ LogInOrder /\ ClientAt
  BY Types
<1>1. ASSUME NEW e \in Event, Len(log) < MaxLog, log' = Append(log, e), UNCHANGED NotClient
      PROVE  Longer
  BY <1>0, <1>1, Appended DEF Longer, ClientTypes
<1>2. CASE CreateGame
  <2> DEFINE e == [kind |-> "create", game |-> nextGame]
  <2>1. /\ e \in Event /\ e.kind = "create" /\ e.game = nextGame /\ Len(log) < MaxLog
        /\ log' = Append(log, e) /\ playing = NoGame /\ playing' = nextGame
        /\ nextGame' = nextGame + 1 /\ UNCHANGED NotClient
    BY <1>2, EventFields DEF CreateGame, Write
  <2> QED
    BY <2>1, <1>0, <1>1, LineStep
<1>3. ASSUME NEW k \in {"turn", "rejoin", "over"}, playing # NoGame, Write(k, playing),
             k # "over" => playing' = playing, k = "over" => playing' = NoGame,
             nextGame' = nextGame, UNCHANGED NotClient
      PROVE  ClientTypes' /\ LogInOrder' /\ ClientAt' /\ Longer
  <2> DEFINE e == [kind |-> k, game |-> playing]
  <2>1. /\ e \in Event /\ e.kind = k /\ e.game = playing /\ Len(log) < MaxLog
        /\ log' = Append(log, e)
    BY <1>0, <1>3, EventFields DEF Write, ClientTypes
  <2> QED
    BY <2>1, <1>0, <1>1, <1>3, LineStep
<1>4. CASE LeaveGame
  <2>1. playing' = NoGame /\ UNCHANGED <<nextGame, log>> /\ UNCHANGED NotClient
    BY <1>4 DEF LeaveGame
  <2>2. playing' < nextGame'
    BY <2>1, <1>0 DEF LeaveGame, ClientAt, ClientTypes, NoGame
  <2>3. ClientTypes' /\ LogInOrder' /\ ClientAt'
    BY <2>1, <2>2, <1>0 DEF ClientTypes, LogInOrder, ClientAt
  <2> QED
    BY <2>1, <2>3, <1>0, LenProperties DEF Longer, ClientTypes
<1> QED
  BY <1>2, <1>3, <1>4 DEF Turn, Rejoin, GameOver

\* The queue and the tracker are as they were if the lines fed so far are.
LEMMA FeedAlone ==
  ASSUME FeedTypes, log \in Seq(Event), FeedInv, Caught' <=> Caught,
         UNCHANGED <<boundary, fed, marked, events, phase, gameID>>,
         \A i \in 1..fed : log'[i] = log[i]
  PROVE  FeedInv'
<1>1. events \in Seq(Item) /\ DOMAIN events = 1..Len(events)
      /\ Len(events) \in Nat /\ fed \in Nat
  BY LenProperties DEF FeedTypes
<1>2. PICK n \in 0..fed : Queued(n) /\ Tracker(n) /\ (Caught => n >= boundary)
  BY DEF FeedInv
<1>3. Queued(n)'
  <2>1. CASE marked /\ ~Caught
    <3>1. Len(events) = fed - n + 1
      BY <1>2, <2>1 DEF Queued
    <3>2. PICK p \in DOMAIN events :
            /\ events[p] = Marker /\ n + p > boundary
            /\ \A j \in DOMAIN events :
                 /\ j < p => events[j] = log[n + j]
                 /\ j > p => events[j] = log[n + j - 1]
      BY <1>2, <2>1 DEF Queued
    <3>3. ASSUME NEW j \in DOMAIN events
          PROVE  /\ j < p => events[j] = log'[n + j]
                 /\ j > p => events[j] = log'[n + j - 1]
      <4>1. j < p => events[j] = log[n + j] /\ n + j \in 1..fed
        BY <1>1, <1>2, <3>1, <3>2
      <4>2. j > p => events[j] = log[n + j - 1] /\ n + j - 1 \in 1..fed
        BY <1>1, <1>2, <3>1, <3>2
      <4> QED
        BY <4>1, <4>2
    <3> QED
      BY <2>1, <3>1, <3>2, <3>3 DEF Queued
  <2>2. CASE ~(marked /\ ~Caught)
    <3>1. Len(events) = fed - n /\ \A j \in DOMAIN events : events[j] = log[n + j]
      BY <1>2, <2>2 DEF Queued
    <3>2. \A j \in DOMAIN events : events[j] = log'[n + j]
      BY <1>1, <3>1
    <3> QED
      BY <2>2, <3>1, <3>2 DEF Queued
  <2> QED
    BY <2>1, <2>2
<1>4. Tracker(n)'
  BY <1>1, <1>2 DEF Tracker
<1> QED
  BY <1>2, <1>3, <1>4 DEF FeedInv

LEMMA LongerStep ==
  ASSUME CaptureInv, ClientTypes', LogInOrder', ClientAt', Longer
  PROVE  CaptureInv'
<1> USE DEF CaptureInv
<1>1. /\ UNCHANGED <<up, starts, boundary, fed, marked, events, phase, gameID>>
      /\ UNCHANGED <<fresh, caughtUpCh, pc, caughtUp, capturing, sequence, image>>
      /\ UNCHANGED <<storeGame, frameCount, games, rows, files, several, torn, staled>>
  BY DEF Longer, NotClient, feedVars, trackerVars, loopVars, storeVars, frameVars, ghostVars
<1>2. /\ log \in Seq(Event) /\ Len(log) \in Nat /\ DOMAIN log = 1..Len(log)
      /\ fed \in 0..Len(log) /\ boundary \in Nat
  BY Types, LenProperties DEF ClientTypes, FeedTypes
<1>3. \A i \in 1..Len(log) : log'[i] = log[i]
  BY <1>2 DEF Longer
<1>4. Len(log') <= MaxLog /\ Len(log') \in Nat /\ Len(log) <= Len(log')
  BY DEF Longer
<1>5. TypeOK' /\ FilesType'
  <2>1. Flags'
    BY <1>1, Types DEF Flags
  <2>2. FeedTypes' /\ LoopTypes'
    BY <1>1, <1>2, <1>4, Types DEF FeedTypes, LoopTypes
  <2>3. GamesTypes' /\ FilesTypes' /\ PastTypes' /\ FilesType'
    BY <1>1, Types DEF GamesTypes, FilesTypes, PastTypes, FilesType
  <2> QED
    BY <2>1, <2>2, <2>3, TypesNext
<1>6. boundary' <= Len(log')
  BY <1>1, <1>2, <1>4
<1>7. FeedInv'
  <2>1. Caught' <=> Caught
    BY <1>1 DEF Caught
  <2>2. \A i \in 1..fed : log'[i] = log[i]
    BY <1>2, <1>3
  <2> QED
    BY <1>1, <1>2, <2>1, <2>2, FeedAlone, Types
<1>8. \A g : Historic(g)' <=> Historic(g)
  <2>1. \A i \in 1..boundary : log'[i] = log[i]
    BY <1>2, <1>3
  <2> QED
    BY <1>1, <2>1 DEF Historic
<1>9. MayStart' /\ NoHistoricSession'
  BY <1>1, <1>8 DEF MayStart, NoHistoricSession, Historic
<1>a. Down' /\ Session'
  BY <1>1 DEF Down, Session
<1>b. FilesHaveRows' /\ Rows'
  BY <1>1 DEF FilesHaveRows, Rows
<1> QED
  BY <1>4, <1>5, <1>6, <1>7, <1>9, <1>a, <1>b

-----------------------------------------------------------------------------
(* The feed and the consumer *)

\* What a step of the feed or the consumer leaves true.
LEMMA LoopAlone ==
  ASSUME CaptureInv, Flags', FeedTypes', FeedInv', MayStart', up,
         UNCHANGED <<clientVars, up, starts, boundary, pc, caughtUp, loopVars, image, storeVars,
                     frameVars, ghostVars>>
  PROVE  CaptureInv'
<1> USE DEF CaptureInv
<1>1. /\ UNCHANGED <<playing, nextGame, log, up, starts, boundary, pc, caughtUp>>
      /\ UNCHANGED <<capturing, sequence, image>>
      /\ UNCHANGED <<storeGame, frameCount, games, rows, files, several, torn, staled>>
  BY DEF clientVars, loopVars, storeVars, frameVars, ghostVars
<1>2. ClientTypes' /\ LogInOrder' /\ ClientAt'
  BY <1>1, Types DEF ClientTypes, LogInOrder, ClientAt
<1>3. LoopTypes' /\ GamesTypes' /\ FilesTypes' /\ PastTypes' /\ FilesType'
  BY <1>1, Types DEF LoopTypes, GamesTypes, FilesTypes, PastTypes, FilesType
<1>4. TypeOK'
  BY <1>2, <1>3, TypesNext
<1>5. Len(log') <= MaxLog /\ boundary' <= Len(log')
  BY <1>1
<1>6. NoHistoricSession' /\ Down' /\ Session'
  BY <1>1 DEF NoHistoricSession, Historic, Down, Session
<1>7. FilesHaveRows' /\ Rows'
  BY <1>1 DEF FilesHaveRows, Rows
<1> QED
  BY <1>2, <1>3, <1>4, <1>5, <1>6, <1>7

LEMMA FeedLineStep ==
  ASSUME CaptureInv, FeedLine PROVE CaptureInv'
<1> USE DEF CaptureInv
<1>1. /\ up /\ fed < Len(log) /\ fed' = fed + 1
      /\ marked' = (marked \/ fed' > boundary)
      /\ events' = (IF marked' /\ ~marked THEN Append(events, Marker) ELSE events)
                     \o <<log[fed']>>
      /\ UNCHANGED <<clientVars, up, starts, boundary, phase, gameID, fresh, caughtUpCh, pc>>
      /\ UNCHANGED <<caughtUp, loopVars, image, storeVars, frameVars, ghostVars>>
  BY DEF FeedLine, MarksAt, NotFeed, trackerVars
<1>2. UNCHANGED <<log, boundary, phase, gameID, caughtUp, caughtUpCh>> /\ (Caught' <=> Caught)
  BY <1>1 DEF clientVars, Caught
<1>3. /\ log \in Seq(Event) /\ Len(log) \in Nat /\ DOMAIN log = 1..Len(log)
      /\ fed \in 0..Len(log) /\ boundary \in Nat /\ fed + 1 \in DOMAIN log
      /\ log[fed + 1] \in Event
  BY <1>1, Types, LenProperties, ElementOfSeq DEF ClientTypes, FeedTypes
<1>4. events \in Seq(Item) /\ DOMAIN events = 1..Len(events)
      /\ Len(events) \in Nat
  BY Types, LenProperties DEF FeedTypes
<1>5. PICK n \in 0..fed : Queued(n) /\ Tracker(n) /\ (Caught => n >= boundary)
  BY DEF FeedInv
\* The queue with the marker, if it is sent now, and before the line.
<1>e. PICK E : /\ marked' /\ ~marked => E = Append(events, Marker)
               /\ ~(marked' /\ ~marked) => E = events
               /\ events' = E \o <<log[fed + 1]>>
  BY <1>1
<1>6. /\ E \in Seq(Item) /\ Len(E) \in Nat /\ DOMAIN E = 1..Len(E)
      /\ \A j \in DOMAIN events : E[j] = events[j]
      /\ marked' /\ ~marked => Len(E) = Len(events) + 1 /\ E[Len(events) + 1] = Marker
  <2>1. CASE marked' /\ ~marked
    <3>1. E = Append(events, Marker) /\ Marker \in Item
      BY <2>1, <1>e DEF Item
    <3>2. /\ E \in Seq(Item) /\ Len(E) = Len(events) + 1
          /\ DOMAIN E = 1..(Len(events) + 1) /\ E[Len(events) + 1] = Marker
          /\ \A j \in DOMAIN events : E[j] = events[j]
      BY <1>4, <3>1, Appended
    <3> QED
      BY <2>1, <3>2, <1>4
  <2>2. CASE ~(marked' /\ ~marked)
    BY <2>2, <1>4, <1>e
  <2> QED
    BY <2>1, <2>2
<1>7. /\ events' \in Seq(Item) /\ Len(events') = Len(E) + 1
      /\ DOMAIN events' = 1..(Len(E) + 1)
      /\ \A j \in DOMAIN E : events'[j] = E[j]
      /\ events'[Len(E) + 1] = log[fed + 1]
  <2>1. log[fed + 1] \in Item
    BY <1>3 DEF Item
  <2>2. events' = Append(E, log[fed + 1])
    BY <2>1, <1>6, <1>e, AppendIsConcat
  <2>3. PICK m : m = events'
    OBVIOUS
  <2>4. PICK e : e = log[fed + 1]
    OBVIOUS
  <2>5. e \in Item /\ m = Append(E, e) /\ E \in Seq(Item)
    BY <1>6, <2>1, <2>2, <2>3, <2>4
  <2>6. /\ m \in Seq(Item) /\ Len(m) = Len(E) + 1 /\ DOMAIN E = 1..Len(E)
        /\ DOMAIN m = 1..(Len(E) + 1) /\ m[Len(E) + 1] = e
        /\ \A j \in DOMAIN E : m[j] = E[j]
    BY <2>5, Appended
  <2> QED
    BY <2>3, <2>4, <2>6
\* A line fed keeps the lines applied, and goes to the end of the queue.
<1>8. Queued(n)'
  <2>1. CASE marked' /\ ~Caught
    <3>1. CASE marked
      <4>1. Len(events) = fed - n + 1
        BY <1>5, <2>1, <3>1 DEF Queued
      <4>2. PICK p \in DOMAIN events :
              /\ events[p] = Marker /\ n + p > boundary
              /\ \A j \in DOMAIN events :
                   /\ j < p => events[j] = log[n + j]
                   /\ j > p => events[j] = log[n + j - 1]
        BY <1>5, <2>1, <3>1 DEF Queued
      <4>3. E = events
        BY <3>1, <1>e
      <4>4. ASSUME NEW j \in DOMAIN events'
            PROVE  /\ j < p => events'[j] = log[n + j]
                   /\ j > p => events'[j] = log[n + j - 1]
        <5>1. CASE j \in DOMAIN events
          BY <4>2, <4>3, <5>1, <1>7
        <5>2. CASE j = Len(events) + 1
          <6>1. ~(j < p) /\ n + j - 1 = fed + 1
            BY <4>1, <4>2, <5>2, <1>3, <1>4, <1>5
          <6> QED
            BY <4>3, <5>2, <6>1, <1>7
        <5> QED
          BY <4>3, <5>1, <5>2, <1>4, <1>7
      <4>5. p \in DOMAIN events' /\ events'[p] = Marker /\ Len(events') = fed' - n + 1
        BY <4>1, <4>2, <4>3, <1>1, <1>3, <1>4, <1>5, <1>7
      <4> QED
        BY <2>1, <4>2, <4>4, <4>5, <1>2 DEF Queued
    <3>2. CASE ~marked
      <4>1. Len(events) = fed - n /\ \A j \in DOMAIN events : events[j] = log[n + j]
        BY <1>5, <3>2 DEF Queued
      <4>2. Len(E) = Len(events) + 1 /\ E[Len(events) + 1] = Marker
        BY <2>1, <3>2, <1>6
      <4> DEFINE p == Len(events) + 1
      <4>3. fed + 1 > boundary
        BY <2>1, <3>2, <1>1
      <4>4. p \in DOMAIN events' /\ p \in DOMAIN E
        BY <4>2, <1>4, <1>6, <1>7
      <4>6. n + p > boundary /\ Len(events') = fed' - n + 1
        BY <4>1, <4>2, <4>3, <1>1, <1>3, <1>4, <1>5, <1>7
      <4>7. events'[p] = Marker
        BY <4>2, <4>4, <1>7
      <4>5. ASSUME NEW j \in DOMAIN events'
            PROVE  /\ j < p => events'[j] = log[n + j]
                   /\ j > p => events'[j] = log[n + j - 1]
        <5>1. CASE j \in DOMAIN events
          BY <4>1, <4>2, <5>1, <1>4, <1>6, <1>7
        <5>2. CASE j = p
          BY <5>2, <1>4
        <5>3. CASE j = p + 1
          <6>1. ~(j < p) /\ n + j - 1 = fed + 1 /\ j = Len(E) + 1
            BY <4>1, <4>2, <5>3, <1>3, <1>4, <1>5
          <6> QED
            BY <6>1, <1>7
        <5> QED
          BY <4>2, <5>1, <5>2, <5>3, <1>4, <1>7
      <4> QED
        BY <2>1, <4>4, <4>5, <4>6, <4>7, <1>2 DEF Queued
    <3> QED
      BY <3>1, <3>2
  <2>2. CASE ~(marked' /\ ~Caught)
    <3>1. ~(marked /\ ~Caught) /\ ~(marked' /\ ~marked)
      BY <2>2, <1>1 DEF FeedInv
    <3>2. Len(events) = fed - n /\ (\A j \in DOMAIN events : events[j] = log[n + j])
          /\ E = events
      BY <3>1, <1>5, <1>e DEF Queued
    <3>3. ASSUME NEW j \in DOMAIN events' PROVE events'[j] = log[n + j]
      <4>1. CASE j \in DOMAIN events
        BY <3>2, <4>1, <1>7
      <4>2. CASE j = Len(events) + 1
        <5>1. n + j = fed + 1
          BY <3>2, <4>2, <1>3, <1>4, <1>5
        <5> QED
          BY <3>2, <4>2, <5>1, <1>7
      <4> QED
        BY <3>2, <4>1, <4>2, <1>4, <1>7
    <3>4. Len(events') = fed' - n
      BY <3>2, <1>1, <1>3, <1>4, <1>5, <1>7
    <3> QED
      BY <2>2, <3>3, <3>4, <1>2 DEF Queued
  <2> QED
    BY <2>1, <2>2
<1>9. FeedInv'
  <2>1. n \in 0..fed' /\ Tracker(n)'
    BY <1>1, <1>2, <1>3, <1>5 DEF Tracker
  <2>2. Caught' => marked' /\ n >= boundary'
    BY <1>1, <1>2, <1>5 DEF FeedInv
  <2> QED
    BY <1>8, <2>1, <2>2 DEF FeedInv
<1>a. Flags'
  BY <1>1, Types DEF Flags, loopVars
<1>b. FeedTypes' /\ MayStart'
  BY <1>1, <1>2, <1>3, <1>7, Types DEF FeedTypes, MayStart, Historic
<1> QED
  BY <1>1, <1>9, <1>a, <1>b, LoopAlone

\* The marker after all of the log.
LEMMA QuiesceStep ==
  ASSUME CaptureInv, Quiesce PROVE CaptureInv'
<1> USE DEF CaptureInv
<1>1. /\ up /\ ~marked /\ fed = Len(log)
      /\ marked' = TRUE /\ events' = Append(events, Marker)
      /\ UNCHANGED <<clientVars, up, starts, boundary, fed, phase, gameID, fresh>>
      /\ UNCHANGED <<caughtUpCh, pc, caughtUp, loopVars, image, storeVars>>
      /\ UNCHANGED <<frameVars, ghostVars>>
  BY DEF Quiesce, Parked, NotFeed, trackerVars
<1>2. /\ UNCHANGED <<log, boundary, fed, phase, gameID, caughtUp, caughtUpCh>>
      /\ Caught' <=> Caught
  BY <1>1 DEF clientVars, Caught
<1>3. /\ boundary \in Nat /\ fed \in 0..Len(log) /\ fed \in Nat /\ boundary <= fed
      /\ events \in Seq(Item) /\ ~Caught
  BY <1>1, Types DEF FeedTypes, FeedInv
<1>4. PICK n \in 0..fed : Queued(n) /\ Tracker(n)
  BY DEF FeedInv
<1>5. PICK m : m = events'
  OBVIOUS
<1>6. Marker \in Item /\ m = Append(events, Marker)
  BY <1>1, <1>5 DEF Item
<1>7. /\ m \in Seq(Item) /\ Len(m) = Len(events) + 1 /\ Len(events) \in Nat
      /\ DOMAIN events = 1..Len(events) /\ DOMAIN m = 1..(Len(events) + 1)
      /\ \A i \in DOMAIN events : m[i] = events[i]
      /\ m[Len(events) + 1] = Marker
  BY <1>3, <1>6, Appended
<1>8. Len(events) = fed - n /\ \A j \in DOMAIN events : events[j] = log[n + j]
  BY <1>1, <1>4 DEF Queued
<1>9. Queued(n)'
  <2> DEFINE p == Len(events) + 1
  <2>1. p \in DOMAIN m /\ m[p] = Marker /\ n + p > boundary /\ Len(m) = fed - n + 1
    BY <1>3, <1>4, <1>7, <1>8
  <2>2. ASSUME NEW j \in DOMAIN m
        PROVE  /\ j < p => m[j] = log[n + j]
               /\ j > p => m[j] = log[n + j - 1]
    BY <1>7, <1>8
  <2>3. \E q \in DOMAIN m :
          /\ m[q] = Marker /\ n + q > boundary
          /\ \A j \in DOMAIN m :
               /\ j < q => m[j] = log[n + j]
               /\ j > q => m[j] = log[n + j - 1]
    BY <2>1, <2>2
  <2> QED
    BY <2>1, <2>3, <1>1, <1>2, <1>3, <1>5 DEF Queued
<1>a. FeedInv'
  <2>1. n \in 0..fed' /\ Tracker(n)' /\ marked'
    BY <1>1, <1>2, <1>4 DEF Tracker
  <2> QED
    BY <1>2, <1>3, <1>9, <2>1 DEF FeedInv
<1>b. Flags'
  BY <1>1, Types DEF Flags, loopVars
<1>c. FeedTypes'
  BY <1>1, <1>2, <1>5, <1>7, Types DEF FeedTypes
<1>d. MayStart'
  BY <1>1, <1>2 DEF MayStart, Historic
<1> QED
  BY <1>1, <1>a, <1>b, <1>c, <1>d, LoopAlone

\* A game with a line after the old log, or one at its end that is not an "over",
\* is not over in the old log.
LEMMA NotOverBefore ==
  ASSUME CaptureInv, NEW i \in DOMAIN log, i >= boundary,
         i > boundary \/ log[i].kind # "over"
  PROVE  ~Historic(log[i].game)
<1> USE DEF CaptureInv
<1>1. log \in Seq(Event) /\ DOMAIN log = 1..Len(log) /\ Len(log) \in Nat /\ boundary \in Nat
      /\ boundary <= Len(log)
  BY Types, LenProperties DEF ClientTypes, FeedTypes
<1>2. SUFFICES ASSUME NEW k \in 1..boundary, log[k] = Over(log[i].game) PROVE FALSE
  BY DEF Historic, Over
<1>3. log[k].kind = "over" /\ log[k].game = log[i].game
  BY <1>2 DEF Over
<1>4. k \in DOMAIN log /\ i > k
  BY <1>1, <1>2, <1>3
<1> QED
  BY <1>3, <1>4 DEF LogInOrder

\* The first of the queue is applied or, if it is the marker, seen.
LEMMA ConsumeStep ==
  ASSUME CaptureInv, ConsumeEvent PROVE CaptureInv'
<1> USE DEF CaptureInv
<1>1. /\ up /\ events # <<>> /\ events' = Tail(events)
      /\ Head(events) = Marker => caughtUpCh' = TRUE /\ UNCHANGED <<phase, gameID, fresh>>
      /\ Head(events) # Marker => Apply(Head(events)) /\ fresh' = TRUE /\ UNCHANGED caughtUpCh
      /\ UNCHANGED <<clientVars, up, starts, boundary, fed, marked, pc, caughtUp, loopVars>>
      /\ UNCHANGED <<image, storeVars, frameVars, ghostVars>>
  BY DEF ConsumeEvent, feedVars, trackerVars
<1>2. UNCHANGED <<log, boundary, fed, marked, caughtUp, pc>>
  BY <1>1 DEF clientVars
<1>3. /\ boundary \in Nat /\ fed \in 0..Len(log) /\ fed \in Nat /\ Len(log) \in Nat
      /\ log \in Seq(Event) /\ DOMAIN log = 1..Len(log)
      /\ \A i \in DOMAIN log : log[i] \in Event
      /\ phase \in Phases /\ gameID \in Games \cup {NoGame}
  BY Types, LenProperties, ElementOfSeq DEF ClientTypes, FeedTypes
<1>4. PICK m : m = events'
  OBVIOUS
<1>5. /\ events \in Seq(Item) /\ Len(events) \in Nat \ {0} /\ DOMAIN events = 1..Len(events)
      /\ m \in Seq(Item) /\ Len(m) = Len(events) - 1 /\ DOMAIN m = 1..(Len(events) - 1)
      /\ \A j \in DOMAIN m : m[j] = events[j + 1]
      /\ Head(events) = events[1]
  <2>1. events \in Seq(Item)
    BY Types DEF FeedTypes
  <2>2. Len(events) \in Nat \ {0} /\ DOMAIN events = 1..Len(events)
    BY <2>1, <1>1, EmptySeq, LenProperties
  <2>3. m = Tail(events)
    BY <1>1, <1>4
  <2>4. m \in Seq(Item) /\ Len(m) = Len(events) - 1 /\ Head(events) = events[1]
        /\ \A j \in 1..Len(m) : m[j] = events[j + 1]
    BY <1>1, <2>1, <2>3, HeadTailProperties
  <2>5. DOMAIN m = 1..Len(m)
    BY <2>4, LenProperties
  <2> QED
    BY <2>1, <2>2, <2>4, <2>5
<1>6. PICK n \in 0..fed : Queued(n) /\ Tracker(n) /\ (Caught => n >= boundary)
  BY DEF FeedInv
<1>7. CASE Head(events) = Marker
  <2>1. caughtUpCh' = TRUE /\ Caught' /\ UNCHANGED <<phase, gameID, fresh>>
    BY <1>1, <1>7 DEF Caught
  <2>2. marked /\ ~Caught
    <3>1. SUFFICES ASSUME ~(marked /\ ~Caught) PROVE FALSE
      OBVIOUS
    <3>2. Len(events) = fed - n /\ events[1] = log[n + 1]
      BY <3>1, <1>5, <1>6 DEF Queued
    <3>3. log[n + 1] \in Event
      BY <3>2, <1>3, <1>5, <1>6
    <3> QED
      BY <3>2, <3>3, <1>5, <1>7, EventFields
  <2>3. Len(events) = fed - n + 1
    BY <1>6, <2>2 DEF Queued
  <2>4. PICK p \in DOMAIN events :
          /\ events[p] = Marker /\ n + p > boundary
          /\ \A j \in DOMAIN events :
               /\ j < p => events[j] = log[n + j]
               /\ j > p => events[j] = log[n + j - 1]
    BY <1>6, <2>2 DEF Queued
  <2>5. p = 1
    <3>1. SUFFICES ASSUME p > 1 PROVE FALSE
      BY <1>5
    <3>a. 1 \in DOMAIN events /\ Len(events) > 1 /\ events[1] = log[n + 1]
      BY <3>1, <2>4, <1>5
    <3>b. n + 1 \in DOMAIN log
      BY <3>a, <2>3, <1>3, <1>5, <1>6
    <3>2. events[1] = log[n + 1] /\ n + 1 \in DOMAIN log
      BY <3>a, <3>b
    <3>3. log[n + 1] \in Event
      BY <3>2, <1>3
    <3> QED
      BY <3>2, <3>3, <1>5, <1>7, EventFields
  <2>6. n >= boundary
    BY <2>4, <2>5, <1>3, <1>6
  <2>7. ASSUME NEW j \in DOMAIN m PROVE m[j] = log[n + j]
    <3>1. /\ m[j] = events[j + 1] /\ j + 1 \in DOMAIN events
          /\ j + 1 > p /\ n + (j + 1) - 1 = n + j
      BY <2>5, <1>5, <1>6
    <3> QED
      BY <3>1, <2>4
  <2>8. Queued(n)'
    BY <2>1, <2>3, <2>7, <1>2, <1>3, <1>4, <1>5, <1>6 DEF Queued
  <2>9. FeedInv'
    <3>1. n \in 0..fed' /\ Tracker(n)' /\ n >= boundary' /\ marked'
      BY <2>1, <2>2, <2>6, <1>2, <1>6 DEF Tracker
    <3> QED
      BY <2>8, <3>1 DEF FeedInv
  <2>a. Flags'
    BY <2>1, <1>1, Types DEF Flags, loopVars
  <2>b. FeedTypes'
    BY <2>1, <1>1, <1>2, <1>4, <1>5, Types DEF FeedTypes
  <2>c. MayStart'
    BY <2>1, <1>2 DEF MayStart, Historic
  <2> QED
    BY <1>1, <2>9, <2>a, <2>b, <2>c, LoopAlone
<1>8. CASE Head(events) # Marker
  <2> DEFINE e == events[1]
  <2>1. Apply(e) /\ fresh' = TRUE /\ caughtUpCh' = caughtUpCh /\ e # Marker
    BY <1>1, <1>5, <1>8
  <2>2. Caught' <=> Caught
    BY <2>1, <1>2 DEF Caught
  <2>3. Queued(n + 1)' /\ e = log[n + 1] /\ n + 1 \in 1..fed
    <3>1. CASE marked /\ ~Caught
      <4>1. Len(events) = fed - n + 1
        BY <1>6, <3>1 DEF Queued
      <4>2. PICK p \in DOMAIN events :
              /\ events[p] = Marker /\ n + p > boundary
              /\ \A j \in DOMAIN events :
                   /\ j < p => events[j] = log[n + j]
                   /\ j > p => events[j] = log[n + j - 1]
        BY <1>6, <3>1 DEF Queued
      <4>3. p > 1
        BY <4>2, <2>1, <1>5
      <4>4. 1 \in DOMAIN events /\ e = log[n + 1]
        BY <4>2, <4>3, <1>5
      <4>5. n + 1 \in 1..fed
        BY <4>1, <4>2, <4>3, <1>3, <1>5, <1>6
      <4>6. p - 1 \in DOMAIN m /\ m[p - 1] = Marker /\ (n + 1) + (p - 1) > boundary
        <5>1. p - 1 \in DOMAIN m /\ (p - 1) + 1 = p /\ (n + 1) + (p - 1) = n + p
          BY <4>2, <4>3, <1>5, <1>6
        <5> QED
          BY <5>1, <4>2, <1>5
      <4>7. ASSUME NEW j \in DOMAIN m
            PROVE  /\ j < p - 1 => m[j] = log[(n + 1) + j]
                   /\ j > p - 1 => m[j] = log[(n + 1) + j - 1]
        <5>a. m[j] = events[j + 1] /\ j + 1 \in DOMAIN events /\ j \in Nat
          BY <1>5
        <5>b. n \in Nat /\ n + (j + 1) = (n + 1) + j /\ n + (j + 1) - 1 = (n + 1) + j - 1
          BY <5>a, <1>3, <1>6
        <5>1. m[j] = events[j + 1] /\ j + 1 \in DOMAIN events
              /\ n + (j + 1) = (n + 1) + j /\ n + (j + 1) - 1 = (n + 1) + j - 1
          BY <5>a, <5>b
        <5>2. (j < p - 1 => j + 1 < p) /\ (j > p - 1 => j + 1 > p)
          BY <4>2, <1>5
        <5> QED
          BY <5>1, <5>2, <4>2
      <4>8. Len(m) = fed - (n + 1) + 1
        BY <4>1, <1>3, <1>5, <1>6
      <4>9. \E q \in DOMAIN m :
              /\ m[q] = Marker /\ (n + 1) + q > boundary
              /\ \A j \in DOMAIN m :
                   /\ j < q => m[j] = log[(n + 1) + j]
                   /\ j > q => m[j] = log[(n + 1) + j - 1]
        BY <4>6, <4>7
      <4>a. Queued(n + 1)'
        BY <3>1, <4>8, <4>9, <2>2, <1>2, <1>4 DEF Queued
      <4> QED
        BY <4>4, <4>5, <4>a
    <3>2. CASE ~(marked /\ ~Caught)
      <4>1. Len(events) = fed - n /\ \A j \in DOMAIN events : events[j] = log[n + j]
        BY <1>6, <3>2 DEF Queued
      <4>2. 1 \in DOMAIN events /\ n + 1 \in 1..fed /\ Len(m) = fed - (n + 1)
        BY <4>1, <1>3, <1>5, <1>6
      <4>3. ASSUME NEW j \in DOMAIN m PROVE m[j] = log[(n + 1) + j]
        <5>1. m[j] = events[j + 1] /\ j + 1 \in DOMAIN events /\ n + (j + 1) = (n + 1) + j
          BY <1>5, <1>6
        <5> QED
          BY <5>1, <4>1
      <4>4. Queued(n + 1)'
        BY <3>2, <4>2, <4>3, <2>2, <1>2, <1>4 DEF Queued
      <4> QED
        BY <4>1, <4>2, <4>4
    <3> QED
      BY <3>1, <3>2
  <2>4. n + 1 \in DOMAIN log /\ e \in Event
    BY <2>3, <1>3, <1>6
  <2>5. e.kind \in {"create", "turn", "rejoin", "over"} /\ e.game \in Games
    BY <2>4, EventFields
  <2>6. /\ e.kind = "create" => phase' = "LOBBY" /\ gameID' = e.game
        /\ e.kind = "turn" => phase' = "PLAY" /\ gameID' = gameID
        /\ e.kind = "rejoin" => phase' = "LOBBY" /\ gameID' = gameID
        /\ e.kind = "over" => phase' = "GAME_OVER" /\ gameID' = gameID
    BY <2>1, <2>5 DEF Apply
\* Only a "create" changes the game; another line is of the game before it.
  <2>7. e.kind # "create" => n >= 1 /\ gameID = e.game
    <3>1. SUFFICES ASSUME e.kind # "create" PROVE n >= 1 /\ gameID = e.game
      OBVIOUS
    <3>2. n + 1 > 1 /\ log[(n + 1) - 1].game = log[n + 1].game
      BY <3>1, <2>3, <2>4 DEF LogInOrder
    <3>3. n >= 1 /\ (n + 1) - 1 = n
      BY <3>2, <1>6, <1>3
    <3> QED
      BY <3>2, <3>3, <2>3, <1>6 DEF Tracker
  <2>8. gameID' = log[n + 1].game /\ phase' = PhaseAfter(log[n + 1].kind)
    BY <2>3, <2>5, <2>6, <2>7 DEF PhaseAfter
  <2>9. FeedInv'
    <3>1. Tracker(n + 1)'
      BY <2>3, <2>8, <1>2, <1>3, <1>6 DEF Tracker
    <3>2. n + 1 \in 0..fed' /\ (Caught' => n + 1 >= boundary' /\ marked')
      BY <2>2, <2>3, <1>2, <1>3, <1>6 DEF FeedInv
    <3> QED
      BY <2>3, <3>1, <3>2 DEF FeedInv
  <2>a. Flags'
    BY <2>1, <1>1, Types DEF Flags, loopVars
  <2>b. FeedTypes'
    <3>1. phase' \in Phases /\ gameID' \in Games \cup {NoGame}
      BY <2>5, <2>6, <1>3 DEF Phases
    <3> QED
      BY <3>1, <1>1, <1>2, <1>4, <1>5, Types DEF FeedTypes
  <2>c. MayStart'
    <3>1. SUFFICES ASSUME pc = "start", caughtUp, gameID' # NoGame PROVE ~Historic(gameID')
      BY <1>2 DEF MayStart, Historic
    <3>2. n + 1 > boundary
      BY <3>1, <1>3, <1>6 DEF Caught
    <3>3. n + 1 >= boundary
      BY <3>2, <1>3, <1>6
    <3> QED
      BY <3>2, <3>3, <2>4, <2>8, NotOverBefore
  <2> QED
    BY <1>1, <2>9, <2>a, <2>b, <2>c, LoopAlone
<1> QED
  BY <1>7, <1>8

-----------------------------------------------------------------------------
(* The loop *)

\* What a step of the loop leaves true.
LEMMA FeedUntouched ==
  ASSUME CaptureInv, up, UNCHANGED NotLoop, Caught' <=> Caught,
         Flags', LoopTypes', GamesTypes', FilesTypes', PastTypes', FilesType',
         MayStart', Session', FilesHaveRows', Rows', NoHistoricSession'
  PROVE  CaptureInv'
<1> USE DEF CaptureInv
<1>1. /\ UNCHANGED <<playing, nextGame, log, up, starts, boundary, fed, marked>>
      /\ UNCHANGED <<events, phase, gameID>>
  BY DEF NotLoop, clientVars, feedVars, trackerVars
<1>2. ClientTypes' /\ FeedTypes' /\ LogInOrder' /\ ClientAt' /\ Down'
  BY <1>1, Types DEF ClientTypes, FeedTypes, LogInOrder, ClientAt, Down
<1>3. FeedInv'
  BY <1>1, Types, FeedAlone DEF ClientTypes
<1>4. Len(log') <= MaxLog /\ boundary' <= Len(log')
  BY <1>1
<1> QED
  BY <1>2, <1>3, <1>4, TypesNext

\* A step of the loop that leaves the session and the archive.
LEMMA ArchiveUntouched ==
  ASSUME CaptureInv, up, UNCHANGED <<NotLoop, loopVars, storeVars, frameVars, several, staled>>,
         Caught' <=> Caught, Flags', LoopTypes', MayStart', Session',
         pc' # "rename", torn' \subseteq Games, torn \subseteq torn',
         pc = "rename" => storeGame \in torn'
  PROVE  CaptureInv'
<1> USE DEF CaptureInv
<1>1. /\ UNCHANGED <<log, boundary, capturing, sequence, storeGame, frameCount, games>>
      /\ UNCHANGED <<rows, files, several, staled>>
  BY DEF NotLoop, clientVars, feedVars, loopVars, storeVars, frameVars
<1>2. GamesTypes' /\ FilesTypes' /\ PastTypes' /\ FilesType'
  BY <1>1, Types DEF GamesTypes, FilesTypes, PastTypes, FilesType
<1>3. FilesHaveRows' /\ NoHistoricSession'
  BY <1>1 DEF FilesHaveRows, NoHistoricSession, Historic
<1>4. Rows'
  <2>1. ASSUME NEW g \in Games, g \notin several \cup torn'
        PROVE  /\ ~games[g].stored => rows[g] = {} /\ ~games[g].ended
               /\ games[g].ended => games[g].total = Cardinality(rows[g])
               /\ capturing /\ storeGame = g =>
                    /\ ~games[g].ended /\ games[g].stored
                    /\ rows[g] = 0..(sequence - 1)
    <3>1. g \in Games \ (several \cup torn) /\ (storeGame = g => pc # "rename")
      BY <2>1
    <3> QED
      BY <3>1 DEF Rows
  <2> QED
    BY <1>1, <2>1 DEF Rows
<1> QED
  BY <1>2, <1>3, <1>4, FeedUntouched

\* A finalized game has the total of its rows.
LEMMA Finalizing ==
  ASSUME CaptureInv, capturing, pc = "select"
  PROVE  /\ Finalized \in [Games -> Archive]
         /\ \A g \in Games \ (several \cup torn) :
              /\ ~Finalized[g].stored => rows[g] = {} /\ ~Finalized[g].ended
              /\ Finalized[g].ended => Finalized[g].total = Cardinality(rows[g])
<1> USE DEF CaptureInv
<1>1. /\ storeGame \in Games /\ games \in [Games -> Archive] /\ frameCount = sequence
      /\ sequence \in Nat /\ frameCount \in Nat
  BY Types, Bounds DEF Session, GamesTypes, LoopTypes
<1>2. PICK F : F = Finalized
  OBVIOUS
<1>3. /\ DOMAIN F = Games
      /\ \A g \in Games : g # storeGame => F[g] = games[g]
      /\ F[storeGame] = [stored |-> games[storeGame].stored, ended |-> TRUE,
                         total |-> frameCount]
  BY <1>1, <1>2 DEF Finalized, Archive
<1>4. F \in [Games -> Archive]
  BY <1>1, <1>2 DEF Finalized, Archive
<1>5. ASSUME NEW g \in Games \ (several \cup torn)
      PROVE  /\ ~F[g].stored => rows[g] = {} /\ ~F[g].ended
             /\ F[g].ended => F[g].total = Cardinality(rows[g])
  <2>1. CASE g = storeGame
    <3>1. games[g].stored /\ rows[g] = 0..(sequence - 1)
      BY <2>1, <1>5 DEF Rows
    <3>2. Cardinality(rows[g]) = sequence
      <4>1. sequence - 1 \in Int /\ 0 \in Int
        BY <1>1
      <4>2. Cardinality(0..(sequence - 1)) =
              IF 0 > sequence - 1 THEN 0 ELSE (sequence - 1) - 0 + 1
        BY <4>1, FS_Interval
      <4> QED
        BY <3>1, <4>2, <1>1
    <3> QED
      BY <2>1, <3>1, <3>2, <1>1, <1>3
  <2>2. CASE g # storeGame
    BY <2>2, <1>3, <1>5 DEF Rows
  <2> QED
    BY <2>1, <2>2
<1> QED
  BY <1>2, <1>4, <1>5

\* The end of a session, at a tick or at the stale timeout.
LEMMA FinishStep ==
  ASSUME CaptureInv, up, capturing, pc = "select", Drain, FinishGame,
         UNCHANGED <<NotLoop, pc, image, frameVars, several, torn>>, staled' \subseteq Games
  PROVE  CaptureInv'
<1> USE DEF CaptureInv
<1>1. /\ games' = Finalized /\ storeGame' = NoGame /\ capturing' = FALSE /\ sequence' = 0
      /\ caughtUp' = (caughtUp \/ caughtUpCh) /\ caughtUpCh' = FALSE /\ fresh' = FALSE
      /\ UNCHANGED <<frameCount, pc, image, rows, files, several, torn>>
      /\ UNCHANGED <<up, marked>>
  BY DEF FinishGame, Drain, frameVars, NotLoop, feedVars
<1>2. Caught' <=> Caught
  BY <1>1 DEF Caught
<1>3. Flags'
  BY <1>1, Types DEF Flags
<1>4. LoopTypes' /\ PastTypes'
  BY <1>1, Types, Bounds DEF LoopTypes, PastTypes
<1>5. GamesTypes' /\ FilesTypes' /\ FilesType'
  BY <1>1, Types, Finalizing DEF GamesTypes, FilesTypes, FilesType
<1>6. MayStart' /\ Session' /\ NoHistoricSession'
  BY <1>1 DEF MayStart, Session, NoHistoricSession
<1>7. FilesHaveRows'
  BY <1>1 DEF FilesHaveRows
<1>8. Rows'
  <2>1. PICK F : F = Finalized
    OBVIOUS
  <2>2. \A g \in Games \ (several \cup torn) :
          /\ ~F[g].stored => rows[g] = {} /\ ~F[g].ended
          /\ F[g].ended => F[g].total = Cardinality(rows[g])
    BY <2>1, Finalizing
  <2>3. games' = F
    BY <2>1, <1>1
  <2> QED
    BY <2>2, <2>3, <1>1 DEF Rows
<1> QED
  BY <1>2, <1>3, <1>4, <1>5, <1>6, <1>7, <1>8, FeedUntouched

\* A tick: the end of a session, or the next step of the loop.
LEMMA TickStep ==
  ASSUME CaptureInv, Tick PROVE CaptureInv'
<1> USE DEF CaptureInv
<1>1. /\ up /\ pc = "select" /\ Drain
      /\ UNCHANGED <<NotLoop, image, frameVars, ghostVars>>
  BY DEF Tick
<1>2. CASE Ended /\ FinishGame /\ UNCHANGED pc
  <2>1. capturing /\ UNCHANGED <<several, torn, staled>> /\ staled \subseteq Games
    BY <1>1, <1>2, Types DEF Ended, ghostVars, PastTypes
  <2> QED
    BY <2>1, <1>1, <1>2, FinishStep
<1>3. CASE /\ ~Ended
           /\ pc' = IF ~InGame THEN "select" ELSE IF capturing THEN "screenshot" ELSE "start"
           /\ UNCHANGED <<loopVars, storeVars>>
  <2>1. /\ caughtUp' = (caughtUp \/ caughtUpCh) /\ caughtUpCh' = FALSE /\ fresh' = FALSE
        /\ UNCHANGED <<log, up, boundary, marked, gameID, capturing, sequence, image, storeGame>>
        /\ UNCHANGED <<frameCount, games, rows, files, several, torn, staled>>
    BY <1>1, <1>3 DEF Drain, NotLoop, clientVars, feedVars, trackerVars, loopVars, storeVars,
                      frameVars, ghostVars
  <2>2. /\ pc' \in {"select", "start", "screenshot"}
        /\ pc' = "screenshot" => capturing
        /\ pc' = "start" => ~capturing /\ phase = "PLAY"
    BY <1>3 DEF InGame
  <2>3. Caught' <=> Caught
    BY <2>1 DEF Caught
  <2>4. Flags'
    BY <2>1, Types DEF Flags
  <2>5. LoopTypes' /\ Session'
    BY <2>1, <2>2, Types DEF LoopTypes, Session
  <2>6. MayStart'
    <3>1. SUFFICES ASSUME pc' = "start", caughtUp', gameID # NoGame PROVE ~Historic(gameID)
      BY <2>1 DEF MayStart, Historic
    <3>2. Caught /\ phase = "PLAY"
      BY <3>1, <2>1, <2>2 DEF Caught
    <3>3. PICK n \in 0..fed : Tracker(n) /\ n >= boundary
      BY <3>2 DEF FeedInv
    <3>4. n # 0 /\ gameID = log[n].game /\ phase = PhaseAfter(log[n].kind)
      BY <3>1, <3>3 DEF Tracker
    <3>5. log[n].kind # "over"
      BY <3>2, <3>4 DEF PhaseAfter
    <3>6. n \in DOMAIN log
      BY <3>3, <3>4, Types, LenProperties DEF ClientTypes, FeedTypes
    <3> QED
      BY <3>3, <3>4, <3>5, <3>6, NotOverBefore
  <2>7. pc' # "rename" /\ torn' \subseteq Games /\ torn \subseteq torn'
    BY <2>1, <2>2, Types DEF PastTypes
  <2>8. UNCHANGED <<NotLoop, loopVars, storeVars, frameVars, several, staled>>
    BY <1>1, <1>3, <2>1
  <2> QED
    BY <1>1, <2>3, <2>4, <2>5, <2>6, <2>7, <2>8, ArchiveUntouched
<1> QED
  BY <1>2, <1>3 DEF Tick

LEMMA StaleStep ==
  ASSUME CaptureInv, StaleTimeout PROVE CaptureInv'
<1>1. /\ up /\ capturing /\ pc = "select" /\ Drain /\ FinishGame
      /\ UNCHANGED <<NotLoop, pc, image, frameVars, several, torn>>
      /\ staled' = staled \cup {storeGame}
  BY DEF StaleTimeout
<1>2. staled' \subseteq Games
  BY <1>1, Types DEF CaptureInv, Session, PastTypes
<1> QED
  BY <1>1, <1>2, FinishStep

\* A session begun: a second one of its game is recorded as such.
LEMMA StartStep ==
  ASSUME CaptureInv, StartSession PROVE CaptureInv'
<1> USE DEF CaptureInv
<1>1. /\ up /\ pc = "start" /\ caughtUp /\ gameID # NoGame
      /\ games' = [games EXCEPT ![gameID].stored = TRUE]
      /\ storeGame' = gameID /\ frameCount' = 0 /\ capturing' = TRUE /\ sequence' = 0
      /\ pc' = "screenshot"
      /\ several' = IF games[gameID].stored THEN several \cup {gameID} ELSE several
      /\ UNCHANGED <<NotLoop, fresh, caughtUpCh, caughtUp, image, frameVars, torn, staled>>
  BY DEF StartSession, CaughtUp, CountAtInit
<1>2. /\ UNCHANGED <<log, boundary, up, marked, caughtUpCh, caughtUp, fresh, image>>
      /\ UNCHANGED <<rows, files, torn, staled>>
  BY <1>1 DEF NotLoop, clientVars, feedVars, frameVars
<1>3. Caught' <=> Caught
  BY <1>2 DEF Caught
<1>4. gameID \in Games /\ ~capturing
  BY <1>1, Types DEF FeedTypes, Session
<1>5. Flags'
  BY <1>1, <1>2, Types DEF Flags
<1>6. LoopTypes' /\ PastTypes'
  BY <1>1, <1>2, <1>4, Types, Bounds DEF LoopTypes, PastTypes
<1>7. games \in [Games -> Archive]
  BY Types DEF GamesTypes
<1>8. /\ games' \in [Games -> Archive]
      /\ \A g \in Games : g # gameID => games'[g] = games[g]
      /\ games'[gameID].stored /\ games'[gameID].ended = games[gameID].ended
      /\ games'[gameID].total = games[gameID].total
  BY <1>1, <1>4, <1>7 DEF Archive
<1>9. GamesTypes' /\ FilesTypes' /\ FilesType'
  BY <1>2, <1>8, Types DEF GamesTypes, FilesTypes, FilesType
<1>a. MayStart' /\ Session'
  BY <1>1, <1>4 DEF MayStart, Session
<1>b. NoHistoricSession'
  BY <1>1, <1>2 DEF MayStart, NoHistoricSession, Historic
<1>c. FilesHaveRows'
  BY <1>2 DEF FilesHaveRows
<1>d. Rows'
  <2>1. ASSUME NEW g \in Games, g \notin several' \cup torn
        PROVE  /\ ~games'[g].stored => rows[g] = {} /\ ~games'[g].ended
               /\ games'[g].ended => games'[g].total = Cardinality(rows[g])
               /\ gameID = g => /\ ~games'[g].ended /\ games'[g].stored
                                /\ rows[g] = 0..(0 - 1)
    <3>1. g \in Games \ (several \cup torn)
      BY <2>1, <1>1
    <3>2. CASE g = gameID
      <4>1. ~games[g].stored
        BY <2>1, <3>2, <1>1
      <4>2. rows[g] = {} /\ ~games[g].ended
        BY <3>1, <4>1 DEF Rows
      <4>3. 0..(0 - 1) = {}
        OBVIOUS
      <4> QED
        BY <3>2, <4>2, <4>3, <1>8
    <3>3. CASE g # gameID
      BY <3>1, <3>3, <1>8 DEF Rows
    <3> QED
      BY <3>2, <3>3
  <2> QED
    BY <2>1, <1>1, <1>2 DEF Rows
<1> QED
  BY <1>1, <1>3, <1>5, <1>6, <1>9, <1>a, <1>b, <1>c, <1>d, FeedUntouched

\* The steps that change neither the session nor the archive: no session yet, a
\* screenshot, or one that fails or has no row, or no file, of its own.
LEMMA PassStep ==
  ASSUME CaptureInv,
         \/ \E failed \in BOOLEAN : DeferSession(failed) \/ InsertFails(failed)
         \/ Screenshot \/ ScreenshotFails \/ RenameFails
  PROVE  CaptureInv'
<1> USE DEF CaptureInv
<1>1. ASSUME up, UNCHANGED <<NotTake, loopVars, storeVars, frameVars, several, staled>>,
             image' \in Games \cup {NoGame},
             pc' \in {"select", "insert"},
             pc' = "insert" => pc = "screenshot" /\ sequence < MaxFrames,
             torn' \subseteq Games, torn \subseteq torn', pc = "rename" => storeGame \in torn'
      PROVE  CaptureInv'
  <2>1. /\ UNCHANGED <<log, boundary, gameID, up, marked, fresh, caughtUpCh, caughtUp, capturing>>
        /\ UNCHANGED <<sequence, storeGame, frameCount, games, rows, files>>
    BY <1>1 DEF NotTake, NotLoop, clientVars, feedVars, trackerVars, loopVars, storeVars,
                frameVars
  <2>2. Caught' <=> Caught
    BY <2>1 DEF Caught
  <2>3. Flags'
    BY <2>1, Types DEF Flags
  <2>4. LoopTypes' /\ Session' /\ MayStart'
    BY <2>1, <1>1, Types DEF LoopTypes, Session, MayStart
  <2>5. UNCHANGED <<NotLoop, loopVars, storeVars, frameVars, several, staled>>
    BY <1>1 DEF NotTake
  <2>6. pc' # "rename"
    BY <1>1
  <2> QED
    BY <1>1, <2>2, <2>3, <2>4, <2>5, <2>6, ArchiveUntouched
<1>2. playing \in Games \cup {NoGame} /\ image \in Games \cup {NoGame} /\ torn \subseteq Games
  BY Types DEF ClientTypes, LoopTypes, PastTypes
<1>3. ASSUME NEW failed \in BOOLEAN, DeferSession(failed) PROVE CaptureInv'
  <2>1. /\ up /\ pc = "start" /\ pc' = "select" /\ image' = image /\ torn' = torn
        /\ UNCHANGED <<NotTake, loopVars, storeVars, frameVars, several, staled>>
    BY <1>3 DEF DeferSession, ghostVars, NotTake
  <2> QED
    BY <2>1, <1>1, <1>2
<1>4. ASSUME NEW failed \in BOOLEAN, InsertFails(failed) PROVE CaptureInv'
  <2>1. /\ up /\ pc = "insert" /\ pc' = "select" /\ image' = NoGame /\ torn' = torn
        /\ UNCHANGED <<NotTake, loopVars, storeVars, frameVars, several, staled>>
    BY <1>4 DEF InsertFails, NoMore, ghostVars
  <2> QED
    BY <2>1, <1>1, <1>2
<1>5. CASE Screenshot
  <2>1. /\ up /\ pc = "screenshot" /\ sequence < MaxFrames /\ pc' = "insert"
        /\ image' = playing /\ torn' = torn
        /\ UNCHANGED <<NotTake, loopVars, storeVars, frameVars, several, staled>>
    BY <1>5 DEF Screenshot, ghostVars
  <2> QED
    BY <2>1, <1>1, <1>2
<1>6. CASE ScreenshotFails
  <2>1. /\ up /\ pc = "screenshot" /\ pc' = "select" /\ image' = NoGame /\ torn' = torn
        /\ UNCHANGED <<NotTake, loopVars, storeVars, frameVars, several, staled>>
    BY <1>6 DEF ScreenshotFails, NoMore, ghostVars
  <2> QED
    BY <2>1, <1>1, <1>2
<1>7. CASE RenameFails
  <2>1. /\ up /\ pc = "rename" /\ pc' = "select" /\ image' = NoGame
        /\ torn' = torn \cup {storeGame}
        /\ UNCHANGED <<NotTake, loopVars, storeVars, frameVars, several, staled>>
    BY <1>7 DEF RenameFails, NoMore
  <2>2. storeGame \in Games
    BY <2>1 DEF Session
  <2> QED
    BY <2>1, <2>2, <1>1, <1>2
<1> QED
  BY <1>3, <1>4, <1>5, <1>6, <1>7

\* The row of a frame: its sequence number was free, so it has no file.
LEMMA InsertStep ==
  ASSUME CaptureInv, InsertRow PROVE CaptureInv'
<1> USE DEF CaptureInv
<1>1. /\ up /\ pc = "insert" /\ sequence \notin rows[storeGame]
      /\ rows' = [rows EXCEPT ![storeGame] = @ \cup {sequence}] /\ pc' = "rename"
      /\ UNCHANGED <<NotTake, image, loopVars, storeVars, files, ghostVars>>
  BY DEF InsertRow, Conflict
<1>2. /\ UNCHANGED <<log, boundary, gameID, up, marked, fresh, caughtUpCh, caughtUp, capturing>>
      /\ UNCHANGED <<sequence, image, storeGame, frameCount, games, files, several, torn, staled>>
      /\ UNCHANGED NotLoop
  BY <1>1 DEF NotTake, NotLoop, clientVars, feedVars, trackerVars, loopVars, storeVars,
              ghostVars
<1>3. capturing /\ storeGame \in Games /\ sequence < MaxFrames
  BY <1>1 DEF Session
<1>4. /\ rows \in [Games -> SUBSET (0..MaxFrames)] /\ sequence \in 0..MaxFrames
      /\ games \in [Games -> Archive]
  BY Types DEF GamesTypes, LoopTypes
<1>5. /\ rows' \in [Games -> SUBSET (0..MaxFrames)]
      /\ rows'[storeGame] = rows[storeGame] \cup {sequence}
      /\ \A g \in Games : g # storeGame => rows'[g] = rows[g]
  BY <1>1, <1>3, <1>4
<1>6. Flags' /\ (Caught' <=> Caught)
  BY <1>2, Types DEF Flags, Caught
<1>7. LoopTypes' /\ PastTypes' /\ GamesTypes' /\ FilesTypes' /\ FilesType'
  BY <1>1, <1>2, <1>5, Types DEF LoopTypes, PastTypes, GamesTypes, FilesTypes, FilesType
<1>8. MayStart' /\ NoHistoricSession'
  BY <1>1, <1>2 DEF MayStart, NoHistoricSession, Historic
<1>9. Session'
  <2>1. sequence \notin DOMAIN files[storeGame]
    BY <1>1, <1>3 DEF FilesHaveRows
  <2> QED
    BY <2>1, <1>1, <1>2, <1>3, <1>5 DEF Session
<1>a. FilesHaveRows'
  BY <1>2, <1>5 DEF FilesHaveRows
<1>b. Rows'
  <2>1. ASSUME NEW g \in Games \ (several \cup torn)
        PROVE  /\ ~games[g].stored => rows'[g] = {} /\ ~games[g].ended
               /\ games[g].ended => games[g].total = Cardinality(rows'[g])
               /\ storeGame = g => /\ ~games[g].ended /\ games[g].stored
                                   /\ rows'[g] = 0..sequence
    <3>1. CASE g = storeGame
      <4>1. /\ ~games[g].ended /\ games[g].stored /\ rows[g] = 0..(sequence - 1)
        BY <2>1, <3>1, <1>1, <1>3 DEF Rows
      <4>2. rows'[g] = 0..sequence
        BY <3>1, <4>1, <1>4, <1>5
      <4> QED
        BY <4>1, <4>2
    <3>2. CASE g # storeGame
      BY <2>1, <3>2, <1>5 DEF Rows
    <3> QED
      BY <3>1, <3>2
  <2> QED
    BY <2>1, <1>1, <1>2, <1>3 DEF Rows
<1> QED
  BY <1>1, <1>2, <1>6, <1>7, <1>8, <1>9, <1>a, <1>b, FeedUntouched

\* The file of a frame, in its place.
LEMMA RenameStep ==
  ASSUME CaptureInv, RenameFile PROVE CaptureInv'
<1> USE DEF CaptureInv
<1>1. /\ up /\ pc = "rename" /\ pc' = "select" /\ image' = NoGame
      /\ files' = [files EXCEPT ![storeGame] =
                    [s \in DOMAIN @ \cup {sequence} |->
                      IF s = sequence THEN image ELSE @[s]]]
      /\ frameCount' = frameCount + 1 /\ sequence' = sequence + 1
      /\ UNCHANGED <<NotTake, capturing, storeGame, games, rows, ghostVars>>
  BY DEF RenameFile, NoMore
<1>2. /\ UNCHANGED <<log, boundary, gameID, up, marked, fresh, caughtUpCh, caughtUp, capturing>>
      /\ UNCHANGED <<storeGame, games, rows, several, torn, staled>>
      /\ UNCHANGED NotLoop
  BY <1>1 DEF NotTake, NotLoop, clientVars, feedVars, trackerVars, ghostVars
<1>3. /\ capturing /\ storeGame \in Games /\ frameCount = sequence
      /\ sequence \in rows[storeGame]
  BY <1>1 DEF Session
<1>4. /\ rows \in [Games -> SUBSET (0..MaxFrames)] /\ sequence \in 0..MaxFrames
      /\ image \in Games \cup {NoGame} /\ frameCount \in 0..MaxFrames /\ MaxFrames \in Nat
  BY Types, Bounds DEF GamesTypes, LoopTypes
<1>5. sequence < MaxFrames
  BY <1>1 DEF Session
<1>6. DOMAIN files = Games
  BY DEF FilesType
<1>7. /\ DOMAIN files' = Games
      /\ \A g \in Games : g # storeGame => files'[g] = files[g]
      /\ DOMAIN files'[storeGame] = DOMAIN files[storeGame] \cup {sequence}
      /\ files'[storeGame][sequence] = image
      /\ \A s \in DOMAIN files[storeGame] :
           s # sequence => files'[storeGame][s] = files[storeGame][s]
  BY <1>1, <1>3, <1>6
<1>8. Flags' /\ (Caught' <=> Caught)
  BY <1>2, Types DEF Flags, Caught
<1>9. LoopTypes' /\ PastTypes' /\ GamesTypes'
  BY <1>1, <1>2, <1>3, <1>4, <1>5, Types DEF LoopTypes, PastTypes, GamesTypes
<1>a. FilesTypes' /\ FilesType'
  <2>1. FilesTypes'
    <3>1. ASSUME NEW g \in Games
          PROVE  /\ DOMAIN files'[g] \subseteq 0..MaxFrames
                 /\ \A s \in DOMAIN files'[g] : files'[g][s] \in Games \cup {NoGame}
      <4>1. /\ DOMAIN files[g] \subseteq 0..MaxFrames
            /\ \A s \in DOMAIN files[g] : files[g][s] \in Games \cup {NoGame}
        BY Types DEF FilesTypes
      <4>2. CASE g = storeGame
        BY <4>1, <4>2, <1>4, <1>7
      <4>3. CASE g # storeGame
        BY <4>1, <4>3, <1>7
      <4> QED
        BY <4>2, <4>3
    <3> QED
      BY <3>1 DEF FilesTypes
  <2>2. FilesType'
    BY <1>1, <1>6 DEF FilesType
  <2> QED
    BY <2>1, <2>2
<1>b. MayStart' /\ Session' /\ NoHistoricSession'
  BY <1>1, <1>2, <1>3 DEF MayStart, Session, NoHistoricSession, Historic
<1>c. FilesHaveRows'
  <2>1. \A g \in Games : DOMAIN files'[g] \subseteq rows[g]
    BY <1>3, <1>7 DEF FilesHaveRows
  <2> QED
    BY <2>1, <1>2 DEF FilesHaveRows
<1>d. Rows'
  <2>1. ASSUME NEW g \in Games \ (several \cup torn)
        PROVE  /\ ~games[g].stored => rows[g] = {} /\ ~games[g].ended
               /\ games[g].ended => games[g].total = Cardinality(rows[g])
               /\ capturing /\ storeGame = g =>
                    /\ ~games[g].ended /\ games[g].stored
                    /\ rows[g] = 0..((sequence + 1) - 1)
    <3>1. (sequence + 1) - 1 = sequence
      BY <1>4
    <3> QED
      BY <2>1, <3>1, <1>1 DEF Rows
  <2> QED
    BY <2>1, <1>1, <1>2 DEF Rows
<1> QED
  BY <1>1, <1>2, <1>8, <1>9, <1>a, <1>b, <1>c, <1>d, FeedUntouched

-----------------------------------------------------------------------------
(* The process *)

\* A process that is gone has nothing in memory; what it kept is as it was, or
\* finalized.
LEMMA DownStep ==
  ASSUME CaptureInv, Stop \/ Crash PROVE CaptureInv'
<1> USE DEF CaptureInv
<1>1. /\ up' = FALSE /\ Fresh
      /\ UNCHANGED <<clientVars, starts, boundary, frameVars, several, staled>>
  BY DEF Stop, Crash, ghostVars
<1>2. /\ UNCHANGED <<playing, nextGame, log, starts, boundary, rows, files, several, staled>>
      /\ fed' = 0 /\ marked' = FALSE /\ events' = <<>> /\ phase' = "IDLE" /\ gameID' = NoGame
      /\ fresh' = FALSE /\ caughtUpCh' = FALSE /\ pc' = "select" /\ caughtUp' = FALSE
      /\ capturing' = FALSE /\ sequence' = 0 /\ image' = NoGame /\ storeGame' = NoGame
      /\ frameCount' = 0
  BY <1>1 DEF Fresh, clientVars, frameVars
<1>3. torn \subseteq torn' /\ torn' \subseteq Games
  BY Types DEF Stop, Crash, ghostVars, Session, PastTypes
<1>4. /\ games' \in [Games -> Archive]
      /\ \A g \in Games \ (several \cup torn) :
           /\ ~games'[g].stored => rows[g] = {} /\ ~games'[g].ended
           /\ games'[g].ended => games'[g].total = Cardinality(rows[g])
  <2>1. PICK F : F = Finalized
    OBVIOUS
  <2>2. capturing /\ pc = "select" =>
          /\ F \in [Games -> Archive]
          /\ \A g \in Games \ (several \cup torn) :
               /\ ~F[g].stored => rows[g] = {} /\ ~F[g].ended
               /\ F[g].ended => F[g].total = Cardinality(rows[g])
    BY <2>1, Finalizing
  <2>3. /\ games \in [Games -> Archive]
        /\ \A g \in Games \ (several \cup torn) :
             /\ ~games[g].stored => rows[g] = {} /\ ~games[g].ended
             /\ games[g].ended => games[g].total = Cardinality(rows[g])
    BY Types DEF GamesTypes, Rows
  <2>4. games' = games \/ (capturing /\ pc = "select" /\ games' = F)
    BY <2>1 DEF Stop, Crash
  <2> QED
    BY <2>2, <2>3, <2>4
<1>5. ClientTypes' /\ LogInOrder' /\ ClientAt' /\ Len(log') <= MaxLog /\ boundary' <= Len(log')
  BY <1>2, Types DEF ClientTypes, LogInOrder, ClientAt
<1>6. Flags'
  BY <1>1, <1>2 DEF Flags
<1>7. FeedTypes'
  <2>1. <<>> \in Seq(Item) /\ Len(log) \in Nat
    BY Types, LenProperties DEF ClientTypes
  <2> QED
    BY <2>1, <1>2, Types DEF FeedTypes, Phases
<1>8. LoopTypes' /\ GamesTypes' /\ FilesTypes' /\ PastTypes' /\ FilesType'
  BY <1>2, <1>3, <1>4, Types, Bounds DEF LoopTypes, GamesTypes, FilesTypes, PastTypes, FilesType
<1>9. FeedInv'
  <2>1. Queued(0)'
    BY <1>2 DEF Queued
  <2>2. Tracker(0)' /\ ~Caught'
    BY <1>2 DEF Tracker, Caught
  <2>3. 0 \in 0..fed'
    BY <1>2
  <2> QED
    BY <2>1, <2>2, <2>3 DEF FeedInv
<1>a. Down' /\ MayStart' /\ Session' /\ NoHistoricSession'
  BY <1>2 DEF Down, MayStart, Session, NoHistoricSession
<1>b. FilesHaveRows' /\ Rows'
  BY <1>2, <1>3, <1>4 DEF FilesHaveRows, Rows
<1> QED
  BY <1>5, <1>6, <1>7, <1>8, <1>9, <1>a, <1>b, TypesNext

\* A process started takes all of the log for the old log.
LEMMA RestartStep ==
  ASSUME CaptureInv, Restart PROVE CaptureInv'
<1> USE DEF CaptureInv
<1>1. /\ ~up /\ starts < MaxStarts /\ starts' = starts + 1 /\ up' = TRUE
      /\ boundary' = Len(log)
      /\ UNCHANGED <<playing, nextGame, log, fed, marked, events, phase, gameID, fresh>>
      /\ UNCHANGED <<caughtUpCh, pc, caughtUp, capturing, sequence, image, storeGame>>
      /\ UNCHANGED <<frameCount, games, rows, files, several, torn, staled>>
  BY DEF Restart, clientVars, trackerVars, loopVars, storeVars, frameVars, ghostVars
<1>2. /\ fed = 0 /\ ~marked /\ events = <<>> /\ phase = "IDLE" /\ gameID = NoGame
      /\ ~caughtUpCh /\ ~caughtUp /\ ~capturing /\ pc = "select"
  BY <1>1 DEF Down
<1>3. /\ ClientTypes' /\ LogInOrder' /\ ClientAt' /\ Len(log') <= MaxLog
      /\ boundary' <= Len(log') /\ Len(log) \in Nat
  BY <1>1, Types, LenProperties DEF ClientTypes, LogInOrder, ClientAt
<1>4. Flags'
  BY <1>1, Types DEF Flags
<1>5. FeedTypes'
  BY <1>1, <1>3, Types, Bounds DEF FeedTypes
<1>6. LoopTypes' /\ GamesTypes' /\ FilesTypes' /\ PastTypes' /\ FilesType'
  BY <1>1, Types DEF LoopTypes, GamesTypes, FilesTypes, PastTypes, FilesType
<1>7. FeedInv'
  <2>1. Queued(0)'
    BY <1>1, <1>2 DEF Queued
  <2>2. Tracker(0)' /\ ~Caught' /\ 0 \in 0..fed'
    BY <1>1, <1>2 DEF Tracker, Caught
  <2> QED
    BY <2>1, <2>2 DEF FeedInv
<1>8. Down' /\ MayStart' /\ Session' /\ NoHistoricSession'
  BY <1>1, <1>2 DEF Down, MayStart, Session, NoHistoricSession
<1>9. FilesHaveRows' /\ Rows'
  BY <1>1 DEF FilesHaveRows, Rows
<1> QED
  BY <1>3, <1>4, <1>5, <1>6, <1>7, <1>8, <1>9, TypesNext

-----------------------------------------------------------------------------
(* Theorems *)

LEMMA InitHolds == ASSUME Init PROVE CaptureInv
<1> USE DEF Init
<1>1. <<>> \in Seq(Event) /\ <<>> \in Seq(Item) /\ Len(<<>>) = 0 /\ DOMAIN <<>> = {}
  OBVIOUS
<1>2. Flags /\ ClientTypes /\ LoopTypes /\ PastTypes
  <2>1. Flags
    BY DEF Flags
  <2>2. ClientTypes
    BY <1>1 DEF ClientTypes
  <2>3. LoopTypes
    BY Bounds DEF LoopTypes
  <2>4. PastTypes
    BY DEF PastTypes
  <2> QED
    BY <2>1, <2>2, <2>3, <2>4
<1>3. FeedTypes
  BY <1>1, Bounds DEF FeedTypes, Phases
<1>4. GamesTypes /\ FilesTypes /\ FilesType
  BY <1>1, Bounds DEF GamesTypes, FilesTypes, FilesType, Archive
<1>5. Len(log) <= MaxLog /\ boundary <= Len(log) /\ LogInOrder /\ ClientAt
  BY <1>1, Bounds DEF LogInOrder, ClientAt, NoGame
<1>6. FeedInv
  <2>1. Queued(0)
    BY <1>1 DEF Queued
  <2>2. Tracker(0) /\ ~Caught /\ 0 \in 0..fed
    BY DEF Tracker, Caught
  <2> QED
    BY <2>1, <2>2 DEF FeedInv
<1>7. Down /\ MayStart /\ Session /\ NoHistoricSession
  BY DEF Down, MayStart, Session, NoHistoricSession
<1>8. FilesHaveRows /\ Rows
  BY <1>1 DEF FilesHaveRows, Rows
<1> QED
  BY <1>2, <1>3, <1>4, <1>5, <1>6, <1>7, <1>8, Types DEF CaptureInv

LEMMA StepHolds == ASSUME CaptureInv, [Next]_vars PROVE CaptureInv'
<1>1. CASE CreateGame \/ Turn \/ Rejoin \/ GameOver \/ LeaveGame
  BY <1>1, ClientStep, LongerStep
<1>2. CASE FeedLine \/ Quiesce \/ ConsumeEvent
  BY <1>2, FeedLineStep, QuiesceStep, ConsumeStep
<1>3. CASE LoopStep
  BY <1>3, TickStep, StartStep, PassStep, InsertStep, RenameStep DEF LoopStep
<1>4. CASE StaleTimeout \/ Stop \/ Crash \/ Restart
  BY <1>4, StaleStep, DownStep, RestartStep
<1>5. CASE UNCHANGED vars
  <2>1. ClientTypes' /\ LogInOrder' /\ ClientAt' /\ Longer
    <3>1. UNCHANGED <<playing, nextGame, log>> /\ UNCHANGED NotClient
      BY <1>5 DEF vars, clientVars, NotClient
    <3>2. ClientTypes /\ LogInOrder /\ ClientAt /\ Len(log) <= MaxLog
      BY Types DEF CaptureInv
    <3> QED
      BY <3>1, <3>2, LenProperties DEF ClientTypes, LogInOrder, ClientAt, Longer
  <2> QED
    BY <2>1, LongerStep
<1> QED
  BY <1>1, <1>2, <1>3, <1>4, <1>5 DEF Next

\* The conjuncts above hold together in every reachable state: each step of the
\* client, the feed, the loop and the process keeps all of them.
THEOREM Invariant == Spec => []CaptureInv
<1>1. Init => CaptureInv
  BY InitHolds
<1>2. CaptureInv /\ [Next]_vars => CaptureInv'
  BY StepHolds
<1> QED
  BY <1>1, <1>2, PTL DEF Spec

\* Every variable of the capture tool keeps its type: the client, the feed, the
\* tracker, the loop and the store of bscapture.
THEOREM TypeCorrect == Spec => []TypeOK
<1>1. CaptureInv => TypeOK
  BY DEF CaptureInv
<1> QED
  BY <1>1, Invariant, PTL

\* However the feed, the consumer and the ticks of the loop interleave, no session
\* is open for a game that the log of the start ends (Loop.Run, the barrier).
THEOREM NoHistoricSessionHolds == Spec => []NoHistoricSession
<1>1. CaptureInv => NoHistoricSession
  BY DEF CaptureInv
<1> QED
  BY <1>1, Invariant, PTL

\* Every file has its row, and a game with one session, all of its files in place,
\* is finalized with the number of its rows (sqliteStore.FinalizeGame).
THEOREM TotalsExactHolds == Spec => []TotalsExact
<1>1. CaptureInv => TotalsExact
  BY DEF CaptureInv, TotalsExact, FilesHaveRows, Rows
<1> QED
  BY <1>1, Invariant, PTL

\* No step, also of a later session of the game or of a process restarted,
\* replaces a file in its place (sqliteStore.SaveFrame).
THEOREM FramesKeptHolds == Spec => FramesKept
<1> DEFINE Kept == \A g \in Games : \A s \in DOMAIN files[g] :
                     s \in DOMAIN files'[g] /\ files'[g][s] = files[g][s]
<1>1. CaptureInv /\ [Next]_vars => Kept
  <2> SUFFICES ASSUME CaptureInv, [Next]_vars PROVE Kept
    OBVIOUS
  <2>1. CASE RenameFile
    <3>1. /\ pc = "rename"
          /\ files' = [files EXCEPT ![storeGame] =
                        [s \in DOMAIN @ \cup {sequence} |->
                          IF s = sequence THEN image ELSE @[s]]]
      BY <2>1 DEF RenameFile
    <3>2. storeGame \in Games /\ sequence \notin DOMAIN files[storeGame] /\ DOMAIN files = Games
      BY <3>1 DEF CaptureInv, Session, FilesType
    <3>3. /\ \A g \in Games : g # storeGame => files'[g] = files[g]
          /\ DOMAIN files'[storeGame] = DOMAIN files[storeGame] \cup {sequence}
          /\ \A s \in DOMAIN files[storeGame] :
               s # sequence => files'[storeGame][s] = files[storeGame][s]
      BY <3>1, <3>2
    <3> QED
      BY <3>2, <3>3
  <2>2. CASE ~RenameFile
    <3>1. files' = files
      <4>1. CASE CreateGame \/ Turn \/ Rejoin \/ GameOver \/ LeaveGame
        BY <4>1 DEF CreateGame, Turn, Rejoin, GameOver, LeaveGame, NotClient, frameVars
      <4>2. CASE FeedLine \/ Quiesce \/ ConsumeEvent
        BY <4>2 DEF FeedLine, Quiesce, ConsumeEvent, NotFeed, frameVars
      <4>3. CASE LoopStep
        BY <2>2, <4>3 DEF LoopStep, Tick, StartSession, DeferSession, Screenshot, ScreenshotFails,
                          InsertRow, InsertFails, RenameFails, frameVars
      <4>4. CASE StaleTimeout \/ Stop \/ Crash \/ Restart
        BY <4>4 DEF StaleTimeout, Stop, Crash, Restart, frameVars
      <4>5. CASE UNCHANGED vars
        BY <4>5 DEF vars, frameVars
      <4> QED
        BY <4>1, <4>2, <4>3, <4>4, <4>5 DEF Next
    <3> QED
      BY <3>1
  <2> QED
    BY <2>1, <2>2
<1> QED
  BY <1>1, Invariant, PTL DEF Spec, FramesKept
=============================================================================
