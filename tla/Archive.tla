------------------------------ MODULE Archive ------------------------------
(***************************************************************************)
(* How finished games reach the store, and what restarts do to it: the     *)
(* client opens a log directory for each of its sessions, the daemon tails *)
(* the newest from its start, saves a game when its end is read, and after *)
(* a restart reads that session again.  `battlestream reparse` reads every *)
(* session while the daemon is down.                                       *)
(*                                                                         *)
(* Lifecycle has the CREATE_GAME block in detail; here a whole block is    *)
(* one log entry, and a game is past its first turns when the client comes *)
(* back to it or it ends.                                                  *)
(***************************************************************************)
EXTENDS Integers, Sequences, SequencesExt

CONSTANTS
  MaxCreates,    \* bound on CREATE_GAME blocks over all sessions
  MaxSessions,   \* bound on sessions of the client
  MaxTime,       \* bound on the clock, in half days
  MaxRestarts,   \* bound on starts of the daemon, or of a reparse, after the first
  MaxFailures    \* bound on failing store calls

ASSUME BoundsAssumption ==
  /\ {MaxCreates, MaxSessions, MaxTime, MaxRestarts, MaxFailures} \subseteq Nat
  /\ MaxSessions > 0

Day(t)  == t \div 2
Half(t) == t % 2        \* 0 is the morning: an evening's line is 12 hours later

Sessions == 1..MaxSessions
Times    == 0..MaxTime
Days     == 0..Day(MaxTime)
Creates  == 1..MaxCreates       \* CREATE_GAME blocks in the order they are logged
Games    == Creates             \* a game is named by its first block
NoGame   == 0
\* A game ID is the timestamp of a CREATE_GAME, whose line has no date of its own.
IDs      == [day : Days, n : Creates]
NoID     == [day |-> 0, n |-> 0]     \* GameID == ""

CreateEntry   == [kind : {"create"}, n : Creates, game : Games, resume : BOOLEAN,
                  time : Times]
CompleteEntry == [kind : {"complete"}, game : Games, time : Times]

VARIABLES
  \* The client and its logs.
  log,          \* Power.log of each session
  sessions,     \* sessions so far; the newest is the one being written
  opened,       \* when each was opened: the date in its directory's name
  time,
  creates,      \* CREATE_GAME blocks so far
  playing,      \* the game being played
  away,         \* the client is out of it
  \* The process reading the log: what it is, its tail and its parser's clock,
  \* its record of a game and how far it is with saving it.
  mode, session, pos, refDay, lastHalf, gameID, running, step, restarts, failures,
  \* The store, which outlives the process.
  list,         \* game:list
  states,       \* the game:meta and game:state keys, written together
  turns,        \* the game:turns keys
  \* History: the real games behind the IDs, and what befell them.
  owner,        \* the game each CREATE_GAME belongs to
  places,       \* the sessions each game was logged in
  current,      \* the game of the last entry read
  entries,      \* which game was saved under which ID, since the last reset
  unsaved,      \* games whose save failed
  silent,       \* games whose record a silence of the log closed
  misdated,     \* games with a CREATE_GAME that was read under a wrong date
  skipped       \* a session was left with entries unread

clientVars == <<log, sessions, opened, time, creates, playing, away, owner, places>>
tailVars   == <<mode, session, pos, refDay, lastHalf, restarts>>
storeVars  == <<list, states, turns>>
pastVars   == <<current, entries, unsaved, silent, misdated, skipped>>
daemonVars == <<tailVars, gameID, running, step, failures, storeVars, pastVars>>
vars       == <<clientVars, daemonVars>>

TypeOK ==
  /\ log \in [Sessions -> Seq(CreateEntry \cup CompleteEntry)]
  /\ sessions \in Sessions /\ opened \in [Sessions -> Times] /\ time \in Times
  /\ creates \in 0..MaxCreates
  /\ playing \in Games \cup {NoGame} /\ away \in BOOLEAN
  /\ mode \in {"daemon", "reparse", "down"} /\ session \in 1..sessions
  /\ pos \in 0..Len(log[session]) /\ refDay \in Days /\ lastHalf \in {0, 1}
  /\ gameID \in IDs \cup {NoID}
  /\ running \in BOOLEAN /\ step \in {"idle", "check", "save", "turns"}
  /\ restarts \in 0..MaxRestarts /\ failures \in 0..MaxFailures
  /\ list \in Seq(IDs) /\ states \subseteq IDs /\ turns \subseteq IDs
  /\ owner \in [Creates -> Games \cup {NoGame}]
  /\ places \in [Games -> SUBSET Sessions]
  /\ current \in Games \cup {NoGame} /\ entries \subseteq Games \X IDs
  /\ unsaved \subseteq Games /\ silent \subseteq Games \cup {NoGame}
  /\ misdated \subseteq Games /\ skipped \in BOOLEAN

Init ==
  /\ log = [s \in Sessions |-> <<>>] /\ sessions = 1
  /\ opened = [s \in Sessions |-> 0] /\ time = 0 /\ creates = 0
  /\ playing = NoGame /\ away = FALSE
  /\ mode = "daemon" /\ session = 1 /\ pos = 0 /\ refDay = 0 /\ lastHalf = 0
  /\ gameID = NoID /\ running = FALSE /\ step = "idle"
  /\ restarts = 0 /\ failures = 0
  /\ list = <<>> /\ states = {} /\ turns = {}
  /\ owner = [n \in Creates |-> NoGame] /\ places = [g \in Games |-> {}]
  /\ current = NoGame /\ entries = {} /\ unsaved = {} /\ silent = {}
  /\ misdated = {} /\ skipped = FALSE

-----------------------------------------------------------------------------
(* The client *)

Write(entry) == log' = [log EXCEPT ![sessions] = Append(@, entry)]

\* CREATE_GAME of game g, which is new or being returned to.
Create(g, resume) ==
  /\ creates < MaxCreates
  /\ creates' = creates + 1
  /\ Write([kind |-> "create", n |-> creates', game |-> g, resume |-> resume,
            time |-> time])
  /\ owner' = [owner EXCEPT ![creates'] = g]
  /\ places' = [places EXCEPT ![g] = @ \cup {sessions}]
  /\ playing' = g /\ away' = FALSE
  /\ UNCHANGED <<sessions, opened, time, daemonVars>>

NewGame == playing = NoGame /\ Create(creates + 1, FALSE)
Rejoin  == playing # NoGame /\ away /\ Create(playing, TRUE)

Finish ==
  /\ playing # NoGame /\ ~away
  /\ Write([kind |-> "complete", game |-> playing, time |-> time])
  /\ playing' = NoGame
  /\ UNCHANGED <<sessions, opened, time, creates, away, owner, places, daemonVars>>

\* The client loses its game, for a while or for good.
Leave ==
  /\ playing # NoGame
  /\ \/ ~away /\ away' = TRUE /\ UNCHANGED playing
     \/ away /\ playing' = NoGame /\ away' = FALSE
  /\ UNCHANGED <<log, sessions, opened, time, creates, owner, places, daemonVars>>

\* Hearthstone is started again and logs to a directory of its own.
NewSession ==
  /\ sessions < MaxSessions
  /\ sessions' = sessions + 1
  /\ opened' = [opened EXCEPT ![sessions'] = time]
  /\ away' = (playing # NoGame)
  /\ UNCHANGED <<log, time, creates, playing, owner, places, daemonVars>>

Tick ==
  /\ time < MaxTime
  /\ time' = time + 1
  /\ UNCHANGED <<log, sessions, opened, creates, playing, away, owner, places,
                 daemonVars>>

-----------------------------------------------------------------------------
(* Reading the log *)

Up == mode # "down"

\* extractTimestamp: a line has a time and no date; the date goes on by a day when
\* the time falls by more than twelve hours.  lastHalf = 0 if no line was read.
DayOf(t) == IF Half(t) < lastHalf THEN refDay + 1 ELSE refDay

\* OnGameStart, and OnReconnect when the record in progress was stashed.
IDAfterCreate_liveOnly(e) == \* mutant: a replayed reconnect is not seen as one
  IF running /\ e.resume /\ restarts = 0 THEN gameID
  ELSE [day |-> DayOf(e.time), n |-> e.n]
IDAfterCreate_anyGame(e) == \* mutant: the tags are not read
  IF running THEN gameID ELSE [day |-> DayOf(e.time), n |-> e.n]
IDAfterCreate(e) ==
  IF running /\ e.resume THEN gameID ELSE [day |-> DayOf(e.time), n |-> e.n]

OnCreate(e) ==
  /\ gameID' = IDAfterCreate(e)
  /\ running' = TRUE
  /\ misdated' = IF DayOf(e.time) = Day(e.time) THEN misdated
                 ELSE misdated \cup {e.game}
  /\ UNCHANGED step

\* OnGameEnd; the loop then persists the record if it has an ID.
OnComplete ==
  /\ running' = FALSE
  /\ step' = IF gameID = NoID THEN "idle" ELSE "check"
  /\ UNCHANGED <<gameID, misdated>>

Unread == pos < Len(log[session])

Read ==
  /\ Up /\ step = "idle" /\ Unread
  /\ pos' = pos + 1
  /\ LET e == log[session][pos'] IN
       /\ IF e.kind = "create" THEN OnCreate(e) ELSE OnComplete
       /\ current' = e.game
       /\ refDay' = DayOf(e.time) /\ lastHalf' = Half(e.time)
  /\ UNCHANGED <<clientVars, mode, session, restarts, failures, storeVars, entries,
                 unsaved, silent, skipped>>

\* startTails with fromStart.
TailFrom_kept == pos \* mutant: the position of the old tail is kept
TailFrom == 0

\* The session directory's name has the date; without it a file's times tell.
SessionDirDate(s) == Day(opened[s])

SetReferenceDate(s) == refDay' = SessionDirDate(s) /\ lastHalf' = 0

\* watchForNewSessions stops the tail of the old session where it is, and the
\* parser goes on with the clock it has; reparse reads each session to its end.
NextSession ==
  /\ session < sessions
  /\ session' = session + 1
  /\ pos' = TailFrom
  /\ \/ /\ mode = "daemon"
        /\ skipped' = (skipped \/ Unread)
        /\ UNCHANGED <<refDay, lastHalf>>
     \/ /\ mode = "reparse" /\ ~Unread /\ step = "idle"
        /\ SetReferenceDate(session')
        /\ UNCHANGED skipped
  /\ UNCHANGED <<clientVars, mode, gameID, running, step, restarts, failures,
                 storeVars, current, entries, unsaved, silent, misdated>>

\* CheckStaleness, when the log has been silent for three minutes.
Silence ==
  /\ mode = "daemon" /\ step = "idle" /\ running /\ ~Unread
  /\ running' = FALSE
  /\ silent' = silent \cup {current}
  /\ UNCHANGED <<clientVars, tailVars, gameID, step, failures, storeVars, current,
                 entries, unsaved, misdated, skipped>>

-----------------------------------------------------------------------------
(* Persisting the end of a game *)

Stored(id) == id \in states

\* A store call may fail; the loop logs the error and goes on.
Fails == failures < MaxFailures /\ failures' = failures + 1
Works == UNCHANGED failures

\* HasGame returns false beside an error, which the loop takes for an answer, as
\* the save is idempotent.
FoundOnError_true == TRUE \* mutant: an error is taken for "stored"
FoundOnError == FALSE

AfterCheck(found) == IF found THEN "idle" ELSE "save"

CheckStored ==
  /\ step = "check"
  /\ \/ Works /\ step' = AfterCheck(Stored(gameID))
     \/ Fails /\ step' = AfterCheck(FoundOnError)
  /\ UNCHANGED <<clientVars, tailVars, gameID, running, storeVars, pastVars>>

\* saveGameTxn appends an ID to the list unless it is there.
Listed_twice(id) == Append(list, id) \* mutant: no dedup in the transaction
Listed(id) == IF id \in ToSet(list) THEN list ELSE Append(list, id)

\* SaveFullGame: list, metadata and state in one transaction, or nothing.  After
\* an error only reparse leaves the turns out.
SaveFullGame ==
  /\ step = "save"
  /\ \/ /\ Works
        /\ step' = "turns"
        /\ list' = Listed(gameID)
        /\ states' = states \cup {gameID}
        /\ entries' = entries \cup {<<current, gameID>>}
        /\ UNCHANGED unsaved
     \/ /\ Fails
        /\ step' = IF mode = "reparse" THEN "idle" ELSE "turns"
        /\ unsaved' = unsaved \cup {current}
        /\ UNCHANGED <<list, states, entries>>
  /\ UNCHANGED <<clientVars, tailVars, gameID, running, turns, current, silent,
                 misdated, skipped>>

SaveTurnSnapshots ==
  /\ step = "turns"
  /\ step' = "idle"
  /\ \/ Works /\ turns' = turns \cup {gameID}
     \/ Fails /\ UNCHANGED turns
  /\ UNCHANGED <<clientVars, tailVars, gameID, running, list, states, pastVars>>

-----------------------------------------------------------------------------
(* Stopping and starting *)

\* A crash, at any point; a shutdown is one at a point where step is idle.
Stop ==
  /\ Up
  /\ mode' = "down"
  /\ gameID' = NoID /\ running' = FALSE /\ step' = "idle" /\ current' = NoGame
  /\ UNCHANGED <<clientVars, session, pos, refDay, lastHalf, restarts, failures,
                 storeVars, entries, unsaved, silent, misdated, skipped>>

StartIn(m, s) ==
  /\ mode = "down" /\ restarts < MaxRestarts
  /\ mode' = m /\ restarts' = restarts + 1
  /\ session' = s /\ pos' = TailFrom
  /\ SetReferenceDate(s)
  /\ UNCHANGED <<clientVars, gameID, running, step, failures, storeVars, pastVars>>

Start   == StartIn("daemon", sessions)   \* resolveLogDir: the newest session
FirstLog == 1                            \* findPowerLogs: all of them, oldest first
Reparse == StartIn("reparse", FirstLog)

\* `battlestream db-reset`, which copies the database first unless told not to, and
\* stops if it cannot; it gets the store while no other process has it.
Reset ==
  /\ mode = "down" /\ list # <<>> /\ restarts < MaxRestarts
  /\ list' = <<>> /\ states' = {} /\ turns' = {}
  /\ entries' = {}
  /\ UNCHANGED <<clientVars, tailVars, gameID, running, step, failures, current,
                 unsaved, silent, misdated, skipped>>

-----------------------------------------------------------------------------
Client  == NewGame \/ Rejoin \/ Finish \/ Leave \/ NewSession \/ Tick
Process == Read \/ NextSession \/ CheckStored \/ SaveFullGame \/ SaveTurnSnapshots

Next == Client \/ Process \/ Silence \/ Stop \/ Start \/ Reparse \/ Reset

Safe == Init /\ [][Next]_vars

\* The event loop and the session watcher run for as long as the daemon does.
Fairness ==
  /\ WF_vars(Read) /\ WF_vars(NextSession)
  /\ WF_vars(CheckStored) /\ WF_vars(SaveFullGame) /\ WF_vars(SaveTurnSnapshots)

Spec == Safe /\ Fairness

-----------------------------------------------------------------------------
(* What the store promises *)

\* The list has each ID once, though a failed HasGame lets a stored game through
\* to the save, and every listed game has its state, though the process may stop
\* between any two steps.
ListMatchesStates == IsInjective(list) /\ ToSet(list) = states

IDsOf(g) == {e[2] : e \in {x \in entries : x[1] = g}}

\* Whole games: logged in one session, never silent for three minutes, and read
\* under the right date.
Whole(g) == Cardinality(places[g]) <= 1 /\ g \notin silent \cup misdated

\* Reading a session again, after a restart or by reparse, never stores a whole
\* game twice, even one the client came back to: replay finds the same ID.
OneEntryPerWholeGame == \A g \in Games : Whole(g) => Cardinality(IDsOf(g)) <= 1

\* A game is stored under the timestamp of one of its own CREATE_GAMEs, never
\* under the ID of a game left before it, as long as no session was left unread.
StoredUnderOwnID == ~skipped => \A e \in entries : owner[e[2].n] = e[1]

\* A game that ends in the newest session is stored, and again after a crash in
\* the middle of it, unless its save fails or the client restarts first; that the
\* daemon kept up with the sessions is assumed here too.
Ended(g) == \E i \in DOMAIN log[sessions] :
              log[sessions][i].kind = "complete" /\ log[sessions][i].game = g
EndedGamesAreStored ==
  \A g \in Games :
    mode = "daemon" /\ Ended(g) ~>
      IDsOf(g) # {} \/ g \in unsaved \/ mode # "daemon" \/ ~Ended(g) \/ skipped

-----------------------------------------------------------------------------
(* What the documentation says and the code does not do *)

\* "Stable timestamp-based game IDs": no CREATE_GAME names two stored games.
StableGameID == \A a, b \in entries : a[2].n = b[2].n => a[2] = b[2]

\* "Per-turn snapshots are persisted": once the daemon is past the end of a game
\* that it stored, no save of it having failed, its turns are there too.
StoredGamesHaveTurns ==
  step = "idle" /\ mode = "daemon" /\ ~Unread /\ failures = 0 =>
    \A e \in entries :
      (\E i \in 1..pos : log[session][i].kind = "complete" /\ log[session][i].game = e[1])
        => e[2] \in turns
=============================================================================
