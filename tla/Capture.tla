------------------------------ MODULE Capture ------------------------------
(***************************************************************************)
(* bscapture: screenshots of the games of a Power.log, one archive each.   *)
(*                                                                         *)
(* Three goroutines.  The feed takes the lines of the watcher, which reads *)
(* the log from its start, and marks where the part that existed at start  *)
(* ends.  The consumer applies the events to the state tracker.  The loop  *)
(* looks at the tracker at every tick, and starts, continues or ends the   *)
(* session of a game.  A frame is a row of the game's database and a file, *)
(* and both outlive the process.                                           *)
(*                                                                         *)
(* A line here is an event of the parser that matters to the loop.         *)
(***************************************************************************)
EXTENDS Integers, Sequences, FiniteSets

CONSTANTS
  NumGames,   \* bound on the games played
  MaxLog,     \* bound on the events of the log
  MaxFrames,  \* bound on the frames of a session: then screenshots fail
  MaxStarts   \* bound on the starts of the process

ASSUME BoundsAssumption ==
  /\ NumGames \in Nat /\ MaxLog \in Nat /\ MaxFrames \in Nat /\ MaxStarts \in Nat \ {0}

Games   == 1..NumGames
NoGame  == 0
Phases  == {"IDLE", "LOBBY", "PLAY", "GAME_OVER"}
Event   == [kind : {"create", "turn", "rejoin", "over"}, game : Games]
Marker  == [kind |-> "caught up", game |-> NoGame]
Archive == [stored : BOOLEAN, ended : BOOLEAN, total : Nat]

VARIABLES
  \* The client and its log.
  playing, nextGame, log,
  \* The process and its feed.
  up, starts,
  boundary,    \* the length of the log when the tail started
  fed, marked, \* lines fed to the parser; the marker is sent
  events,      \* logEventSource.events
  \* The tracker, and the consumer's signals to the loop.
  phase, gameID, fresh, caughtUpCh,
  \* Loop.Run
  pc, caughtUp, capturing, sequence, image,
  \* sqliteStore, and what it keeps on disk.
  storeGame, frameCount,
  games, rows, files,
  \* History
  several,     \* games with more than one session
  torn,        \* games with a row whose file never came
  staled       \* games whose capture the stale timeout has ended

clientVars  == <<playing, nextGame, log>>
feedVars    == <<up, starts, boundary, fed, marked>>
trackerVars == <<phase, gameID>>
loopVars    == <<capturing, sequence>>
storeVars   == <<storeGame, frameCount, games>>
frameVars   == <<rows, files>>
ghostVars   == <<several, torn, staled>>
vars        == <<clientVars, feedVars, events, trackerVars, fresh, caughtUpCh, pc, caughtUp,
                 loopVars, image, storeVars, frameVars, ghostVars>>

TypeOK ==
  /\ playing \in Games \cup {NoGame} /\ nextGame \in Nat /\ log \in Seq(Event)
  /\ up \in BOOLEAN /\ starts \in 1..MaxStarts /\ boundary \in 0..MaxLog
  /\ fed \in 0..Len(log) /\ marked \in BOOLEAN
  /\ events \in Seq(Event \cup {Marker})
  /\ phase \in Phases /\ gameID \in Games \cup {NoGame}
  /\ fresh \in BOOLEAN /\ caughtUpCh \in BOOLEAN
  /\ pc \in {"select", "start", "screenshot", "insert", "rename"}
  /\ caughtUp \in BOOLEAN /\ capturing \in BOOLEAN /\ sequence \in 0..MaxFrames
  /\ image \in Games \cup {NoGame}
  /\ storeGame \in Games \cup {NoGame} /\ frameCount \in 0..MaxFrames
  /\ games \in [Games -> Archive] /\ rows \in [Games -> SUBSET (0..MaxFrames)]
  /\ \A g \in Games : DOMAIN files[g] \subseteq 0..MaxFrames
                      /\ \A s \in DOMAIN files[g] : files[g][s] \in Games \cup {NoGame}
  /\ several \subseteq Games /\ torn \subseteq Games /\ staled \subseteq Games

Fresh == \* a process before it reads a line
  /\ fed' = 0 /\ marked' = FALSE /\ events' = <<>>
  /\ phase' = "IDLE" /\ gameID' = NoGame /\ fresh' = FALSE /\ caughtUpCh' = FALSE
  /\ pc' = "select" /\ caughtUp' = FALSE /\ capturing' = FALSE /\ sequence' = 0
  /\ image' = NoGame /\ storeGame' = NoGame /\ frameCount' = 0

Init ==
  /\ playing = NoGame /\ nextGame = 1 /\ log = <<>>
  /\ up = TRUE /\ starts = 1 /\ boundary = 0 /\ fed = 0 /\ marked = FALSE
  /\ events = <<>> /\ phase = "IDLE" /\ gameID = NoGame
  /\ fresh = FALSE /\ caughtUpCh = FALSE
  /\ pc = "select" /\ caughtUp = FALSE /\ capturing = FALSE /\ sequence = 0
  /\ image = NoGame /\ storeGame = NoGame /\ frameCount = 0
  /\ games = [g \in Games |-> [stored |-> FALSE, ended |-> FALSE, total |-> 0]]
  /\ rows = [g \in Games |-> {}] /\ files = [g \in Games |-> <<>>]
  /\ several = {} /\ torn = {} /\ staled = {}

-----------------------------------------------------------------------------
(* The client *)

Write(kind, g) == Len(log) < MaxLog /\ log' = Append(log, [kind |-> kind, game |-> g])
NotClient      == <<feedVars, events, trackerVars, fresh, caughtUpCh, pc, caughtUp, loopVars,
                    image, storeVars, frameVars, ghostVars>>

CreateGame ==
  /\ playing = NoGame /\ nextGame \in Games /\ Write("create", nextGame)
  /\ playing' = nextGame /\ nextGame' = nextGame + 1
  /\ UNCHANGED NotClient

\* The TURN after a CREATE_GAME; the later ones change nothing the loop reads.
Turn ==
  /\ playing # NoGame /\ log[Len(log)].kind \in {"create", "rejoin"} /\ Write("turn", playing)
  /\ UNCHANGED <<playing, nextGame, NotClient>>

Rejoin ==
  /\ playing # NoGame /\ log[Len(log)].kind = "turn" /\ Write("rejoin", playing)
  /\ UNCHANGED <<playing, nextGame, NotClient>>

GameOver ==
  /\ playing # NoGame /\ Write("over", playing)
  /\ playing' = NoGame /\ UNCHANGED <<nextGame, NotClient>>

\* The player leaves a game, and the log says nothing.
LeaveGame ==
  /\ playing # NoGame /\ playing' = NoGame
  /\ UNCHANGED <<nextGame, log, NotClient>>

-----------------------------------------------------------------------------
(* The feed and the consumer *)

NotFeed == <<clientVars, up, starts, boundary, trackerVars, fresh, caughtUpCh, pc, caughtUp,
             loopVars, image, storeVars, frameVars, ghostVars>>

MarksAt_late(n) == n > boundary + 1 \* mutant: the marker waits for one line more
MarksAt_early(n) == n >= boundary \* mutant: < for <= at the byte boundary
MarksAt(n) == n > boundary
FeedLine ==
  /\ up /\ fed < Len(log) /\ fed' = fed + 1
  /\ marked' = (marked \/ MarksAt(fed'))
  /\ events' = (IF marked' /\ ~marked THEN Append(events, Marker) ELSE events)
               \o <<log[fed']>>
  /\ UNCHANGED NotFeed

Parked_never == FALSE \* mutant: no fallback, only a live line ends the backlog
\* No line for catchupQuiescence: the tail has read all of the log.
Parked == fed = Len(log)
Quiesce ==
  /\ up /\ ~marked /\ Parked
  /\ marked' = TRUE /\ events' = Append(events, Marker)
  /\ UNCHANGED <<fed, NotFeed>>

InGame == phase = "PLAY"

\* consumeEvents; the tracker keeps the game's ID through a reconnect, whose
\* CREATE_GAME takes it to the lobby until the next TURN.
Apply(e) ==
  CASE e.kind = "create" -> phase' = "LOBBY" /\ gameID' = e.game
    [] e.kind = "turn"   -> phase' = "PLAY" /\ UNCHANGED gameID
    [] e.kind = "rejoin" -> phase' = "LOBBY" /\ UNCHANGED gameID
    [] e.kind = "over"   -> phase' = "GAME_OVER" /\ UNCHANGED gameID
ConsumeEvent ==
  /\ up /\ events # <<>> /\ events' = Tail(events)
  /\ IF Head(events) = Marker
     THEN caughtUpCh' = TRUE /\ UNCHANGED <<trackerVars, fresh>>
     ELSE Apply(Head(events)) /\ fresh' = TRUE /\ UNCHANGED caughtUpCh
  /\ UNCHANGED <<clientVars, feedVars, pc, caughtUp, loopVars, image, storeVars,
                 frameVars, ghostVars>>

-----------------------------------------------------------------------------
(* The loop *)

NotLoop == <<clientVars, feedVars, events, trackerVars>>

\* FinalizeGame and Close: the row of the game takes this session's count.
Finalized == [games EXCEPT ![storeGame].ended = TRUE, ![storeGame].total = frameCount]
FinishGame ==
  /\ games' = Finalized
  /\ storeGame' = NoGame /\ capturing' = FALSE /\ sequence' = 0
  /\ UNCHANGED frameCount

\* At a tick the pending signals are drained before the tracker is asked.
Drain == caughtUp' = (caughtUp \/ caughtUpCh) /\ caughtUpCh' = FALSE /\ fresh' = FALSE

\* No event for staleTimeout: the log was quiet all that time.
StaleTimeout ==
  /\ up /\ pc = "select" /\ capturing
  /\ ~fresh /\ events = <<>> /\ fed = Len(log)
  /\ Drain /\ FinishGame
  /\ staled' = staled \cup {storeGame}
  /\ UNCHANGED <<NotLoop, pc, image, frameVars, several, torn>>

Ended_never == FALSE \* mutant: the end of a game does not end its session
Ended == ~InGame /\ capturing
Tick ==
  /\ up /\ pc = "select" /\ Drain
  /\ \/ Ended /\ FinishGame /\ UNCHANGED pc
     \/ /\ ~Ended
        /\ pc' = IF ~InGame THEN "select" ELSE IF capturing THEN "screenshot" ELSE "start"
        /\ UNCHANGED <<loopVars, storeVars>>
  /\ UNCHANGED <<NotLoop, image, frameVars, ghostVars>>

CaughtUp_now == caughtUp \/ caughtUpCh \* mutant: the signal is read after InGame
CaughtUp == caughtUp

CountAtInit_kept == frameCount \* mutant: InitGame keeps the count
CountAtInit == 0

\* InGame was true; the snapshot of the game ID is taken now.
StartSession ==
  /\ up /\ pc = "start"
  /\ CaughtUp /\ gameID # NoGame
  /\ games' = [games EXCEPT ![gameID].stored = TRUE]
  /\ storeGame' = gameID /\ frameCount' = CountAtInit
  /\ capturing' = TRUE /\ sequence' = 0 /\ pc' = "screenshot"
  /\ several' = IF games[gameID].stored THEN several \cup {gameID} ELSE several
  /\ UNCHANGED <<NotLoop, fresh, caughtUpCh, caughtUp, image, frameVars, torn, staled>>

\* Not caught up, no game ID, or InitGame fails: the next tick tries again.
DeferSession(failed) ==
  /\ up /\ pc = "start" /\ pc' = "select"
  /\ ~CaughtUp \/ gameID = NoGame \/ failed
  /\ UNCHANGED <<NotLoop, fresh, caughtUpCh, caughtUp, loopVars, image, storeVars,
                 frameVars, ghostVars>>

NotTake == <<NotLoop, fresh, caughtUpCh, caughtUp>>
\* A frame is what is on the screen; the state stored with it is left out.
Screenshot ==
  /\ up /\ pc = "screenshot" /\ sequence < MaxFrames
  /\ image' = playing /\ pc' = "insert"
  /\ UNCHANGED <<NotTake, loopVars, storeVars, frameVars, ghostVars>>

NoMore == pc' = "select" /\ image' = NoGame
ScreenshotFails ==
  /\ up /\ pc = "screenshot" /\ NoMore
  /\ UNCHANGED <<NotTake, loopVars, storeVars, frameVars, ghostVars>>

Conflict_ignored == FALSE \* mutant: no UNIQUE(game_id, sequence)
Conflict == sequence \in rows[storeGame]
\* SaveFrame: the row first, then the file to its place.
InsertRow ==
  /\ up /\ pc = "insert" /\ ~Conflict
  /\ rows' = [rows EXCEPT ![storeGame] = @ \cup {sequence}] /\ pc' = "rename"
  /\ UNCHANGED <<NotTake, image, loopVars, storeVars, files, ghostVars>>

InsertFails(failed) ==
  /\ up /\ pc = "insert" /\ (Conflict \/ failed) /\ NoMore
  /\ UNCHANGED <<NotTake, loopVars, storeVars, frameVars, ghostVars>>

RenameFile ==
  /\ up /\ pc = "rename" /\ NoMore
  /\ files' = [files EXCEPT ![storeGame] =
                [s \in DOMAIN @ \cup {sequence} |->
                  IF s = sequence THEN image ELSE @[s]]]
  /\ frameCount' = frameCount + 1 /\ sequence' = sequence + 1
  /\ UNCHANGED <<NotTake, capturing, storeGame, games, rows, ghostVars>>

RenameFails ==
  /\ up /\ pc = "rename" /\ NoMore
  /\ torn' = torn \cup {storeGame}
  /\ UNCHANGED <<NotTake, loopVars, storeVars, frameVars, several, staled>>

\* SIGINT or SIGTERM, seen between two ticks: the session is finalized. What the
\* process had in memory is gone at once.
Stop ==
  /\ up /\ pc = "select" /\ up' = FALSE /\ Fresh
  /\ games' = IF capturing THEN Finalized ELSE games
  /\ UNCHANGED <<clientVars, starts, boundary, frameVars, ghostVars>>

Crash ==
  /\ up /\ up' = FALSE /\ Fresh
  /\ torn' = IF pc = "rename" THEN torn \cup {storeGame} ELSE torn
  /\ UNCHANGED <<clientVars, starts, boundary, games, frameVars, several, staled>>

Restart ==
  /\ ~up /\ starts < MaxStarts /\ starts' = starts + 1 /\ up' = TRUE
  /\ boundary' = Len(log)
  /\ UNCHANGED <<clientVars, fed, marked, events, trackerVars, fresh, caughtUpCh, pc, caughtUp,
                 loopVars, image, storeVars, frameVars, ghostVars>>

LoopStep ==
  \/ Tick \/ StartSession \/ (\E failed \in BOOLEAN : DeferSession(failed))
  \/ Screenshot \/ ScreenshotFails
  \/ InsertRow \/ (\E failed \in BOOLEAN : InsertFails(failed))
  \/ RenameFile \/ RenameFails

Next ==
  \/ CreateGame \/ Turn \/ Rejoin \/ GameOver \/ LeaveGame
  \/ FeedLine \/ Quiesce \/ ConsumeEvent
  \/ LoopStep \/ StaleTimeout \/ Stop \/ Crash \/ Restart

\* The goroutines run; an InitGame retried at every tick works in the end.
Fairness == /\ WF_vars(FeedLine) /\ WF_vars(Quiesce) /\ WF_vars(ConsumeEvent)
            /\ WF_vars(LoopStep) /\ SF_vars(StartSession)

Spec == Init /\ [][Next]_vars /\ Fairness

-----------------------------------------------------------------------------
\* The log at the start of the process ends the game.
Historic(g) == \E i \in 1..boundary : log[i] = [kind |-> "over", game |-> g]

\* A game that was over before the process started is never captured, though
\* the replay of the log passes through it while the loop is ticking: the
\* catchup barrier (EventCatchupComplete, the order of Run's reads).
NoHistoricSession == capturing => ~Historic(storeGame)

\* A frame once in its place stays what it is, through later sessions of the
\* same game and restarts (SaveFrame: the row is inserted before the rename).
FramesKept ==
  [][\A g \in Games : \A s \in DOMAIN files[g] :
       s \in DOMAIN files'[g] /\ files'[g][s] = files[g][s]]_vars

\* Every file has its row, and a game captured in one session and finalized
\* has as many rows as its total says, unless a file did not get to its place.
TotalsExact ==
  \A g \in Games :
    /\ DOMAIN files[g] \subseteq rows[g]
    /\ games[g].ended /\ g \notin several \cup torn
         => games[g].total = Cardinality(rows[g])

\* If in the end no game is on, no session stays open.
SessionsEnd == <>[](up /\ ~InGame) => <>[](~capturing)

\* The tracker has game g on.
GameOn(g) == up /\ InGame /\ gameID = g

\* A game that stays on, also one begun before the process, gets sessions of its
\* own for as long as it does: the barrier opens at a quiet log too, and a stale
\* timeout or a failed InitGame only puts them off.  The exception is a game that
\* comes upon the open session of an earlier one: Run compares no game IDs, and
\* when the end of one game and the first TURN of the next are applied between
\* two ticks the frames go to the earlier game's archive.
LiveGamesCaptured ==
  \A g \in Games :
    <>[]GameOn(g) => []<>(capturing /\ storeGame = g) \/ <>[](capturing /\ storeGame < g)

\* A comment of Run, loop.go:177: "a game genuinely in progress at startup is
\* still captured then", and with it any other, without the exception.
EveryGameCaptured ==
  \A g \in Games : <>[]GameOn(g) => []<>(capturing /\ storeGame = g)

\* docs/plans/2026-03-27-bscapture-screenshot-capture-design.md:107: "If exceeds
\* `stale_timeout` (default 5m) during active game, game is ended and capture
\* stops. Resets on new game."
StaleStops == capturing => storeGame \notin staled
=============================================================================
