------------------------------- MODULE Replay -------------------------------
(***************************************************************************)
(* The replay of past games.  A loader feeds the log files, line by line,  *)
(* to the parser and keeps one step for every event that changed the state *)
(* of the game, with the raw lines read since the step before; the steps   *)
(* of a game are a range of them.  A browser shows one game at a time, a   *)
(* step at a time, and can load the other source, the store, in its place. *)
(*                                                                         *)
(* What an event does to the state of the game is known by the turn and    *)
(* the phase it leads to and by whether anything changed.                  *)
(***************************************************************************)
EXTENDS Parser, FiniteSetsExt

CONSTANTS
  MaxLogLines,  \* bound on the lines of the log files
  MaxBrowsed,   \* bound on the lines of a log that is browsed
  MaxFiles,     \* bound on the log files
  MaxRaw,       \* maxRawLinesPerStep; 200 in the source
  StoreReplays, \* replays the store may hold
  Filters       \* kinds of events the browser filters by

ALL == "ALL"

\* What a step, a game, which is a range of steps, and a replay are made of.
StepType   == [kind : LineKind, of : Nat, t : Nat, over : BOOLEAN, raw : Seq(Nat), dropped : Nat]
GameType   == [lo : Nat, hi : Nat]
ReplayType == [present : BOOLEAN, steps : Seq(StepType), games : Seq(GameType)]
Ranges(ss, gs) == \A g \in 1..Len(gs) : 1 <= gs[g].lo /\ gs[g].lo <= gs[g].hi /\ gs[g].hi <= Len(ss)

\* The store's games are those with turns.
ASSUME ReplayAssumption ==
  /\ {MaxLogLines, MaxBrowsed, MaxFiles, MaxRaw} \subseteq Nat /\ MaxRaw > 0
  /\ Filters \subseteq LineKind
  /\ \A r \in StoreReplays : r \in ReplayType /\ Ranges(r.steps, r.games)

VARIABLES
  \* The loader: the lines read so far, the parser, what accumulates until the
  \* next step, the open game, and what it has built.
  log, files, parser, accum, gameStepStart, steps, games,
  events, early, \* History: the events emitted; lines dropped before the first step
  \* The browser: what it does, the replay installed, the games of the store.
  stage, replay, store,
  source, embedded, loadErr, notice, picking, gameCursor, gameIdx, shown,
  filtered, cursor, filter

loadVars   == <<log, files, parser, accum, gameStepStart, steps, games, events, early>>
pickVars   == <<picking, gameCursor>>
viewVars   == <<gameIdx, shown, filtered, cursor, filter>>
modeVars   == <<stage, replay, store, source, embedded, loadErr, notice>>
replayVars == <<loadVars, modeVars, pickVars, viewVars>>

NoGame   == 0
Loaded(ss, gs) == [present |-> TRUE, steps |-> ss, games |-> gs]
NoReplay == [present |-> FALSE, steps |-> <<>>, games |-> <<>>]  \* the nil pointer

\* A step: the event and the state after it, whose turn and phase follow from
\* the TURN of the game entity, and its raw lines.
Step(e, t, over, raw, dropped) ==
  [kind |-> e.kind, of |-> e.of, t |-> t, over |-> over, raw |-> raw, dropped |-> dropped]
Turn(s)  == (s.t + 1) \div 2
Phase(s) == IF s.over THEN "over" ELSE IF s.t = 0 THEN "lobby"
            ELSE IF s.t % 2 = 1 THEN "recruit" ELSE "combat"

ReplayInit ==
  /\ log = <<>> /\ files = 1 /\ parser = New /\ accum = <<>>
  /\ gameStepStart = NoGame /\ steps = <<>> /\ games = <<>>
  /\ events = <<>> /\ early = 0
  /\ stage = "loading" /\ replay = NoReplay /\ store = NoReplay
  /\ source = "logs" /\ embedded = FALSE /\ loadErr = FALSE /\ notice = FALSE
  /\ picking = FALSE /\ gameCursor = 1
  /\ gameIdx = 1 /\ shown = <<>> /\ filtered = <<>> /\ cursor = 1 /\ filter = ALL

(***************************************************************************)
(* The client writes the log: tags follow the header they belong to, and a *)
(* game entity follows its CREATE_GAME.                                    *)
(***************************************************************************)
Before == {i \in 1..Len(log) : log[i] # "foreign"}
LastKind == IF Before = {} THEN "other" ELSE log[Max(Before)]

StateOf(b) == IF b.steps = <<>> THEN [t |-> 0, over |-> FALSE] ELSE b.steps[Len(b.steps)]

MayFollow(kind) ==
  /\ kind = "blockTag" => LastKind \in Held \cup {"gameEntity", "blockTag", "other"}
  /\ kind = "gameEntity" => LastKind = "create"
  /\ kind = "turn" => ~StateOf([steps |-> steps]).over
  /\ Before = {} => kind \in {"create", "foreign"}

(***************************************************************************)
(* The loader.                                                             *)
(***************************************************************************)

\* What an event may do to the state that a step shows: its turn, its end, and
\* whether anything changed.
Effects(kind, s) ==
  CASE kind = "create"   -> {[t |-> 0, over |-> FALSE, changes |-> TRUE]}
    [] kind = "turn"     -> {[t |-> s.t + 1, over |-> s.over, changes |-> TRUE]}
    [] kind = "complete" -> {[t |-> s.t, over |-> TRUE, changes |-> ~s.over]}
    [] OTHER             -> {[t |-> s.t, over |-> s.over, changes |-> c] : c \in BOOLEAN}

Forced(kind) == kind \in {"create", "complete"}

\* appendRawLines: the oldest lines are dropped, and counted.
Capped(raw, dropped, lines) ==
  LET all  == raw \o lines
      over == Max({0, Len(all) - MaxRaw})
  IN  [raw |-> SubSeq(all, over + 1, Len(all)), dropped |-> dropped + over]

\* The last step, with more lines.
Topped(ss, lines) ==
  LET last == ss[Len(ss)]
      c    == Capped(last.raw, last.dropped, lines)
  IN  [ss EXCEPT ![Len(ss)] = [last EXCEPT !.raw = c.raw, !.dropped = c.dropped]]

\* What the loader builds, as a record, so that events are taken one by one.
Built == [steps |-> steps, games |-> games, start |-> gameStepStart, accum |-> accum, early |-> early]

BuiltType == [steps : Seq(StepType), games : Seq(GameType), start : Nat, accum : Seq(Nat), early : Nat]

\* mutant: the accumulator is cleared without being merged
X_foldAccum(b) == [b EXCEPT !.accum = <<>>]
foldAccum(b) ==
  IF b.steps = <<>>
    THEN [b EXCEPT !.accum = <<>>, !.early = @ + Len(b.accum)]
    ELSE [b EXCEPT !.accum = <<>>, !.steps = Topped(@, b.accum)]

\* mutant: the game that ended stays open
X_AppendStep(b, e, effect) ==
  LET c == Capped(<<>>, 0, b.accum)
      n == Len(b.steps) + 1
      grown == [b EXCEPT !.steps = Append(@, Step(e, effect.t, effect.over, c.raw, c.dropped)),
                         !.accum = <<>>]
  IN  CASE e.kind = "create" -> [grown EXCEPT !.start = n]
        [] e.kind = "complete" /\ b.start # NoGame ->
             [grown EXCEPT !.games = Append(@, [lo |-> b.start, hi |-> n])]
        [] OTHER -> grown
AppendStep(b, e, effect) ==
  LET c == Capped(<<>>, 0, b.accum)
      n == Len(b.steps) + 1
      grown == [b EXCEPT !.steps = Append(@, Step(e, effect.t, effect.over, c.raw, c.dropped)),
                         !.accum = <<>>]
  IN  CASE e.kind = "create" -> [grown EXCEPT !.start = n]
        [] e.kind = "complete" /\ b.start # NoGame ->
             [grown EXCEPT !.games = Append(@, [lo |-> b.start, hi |-> n]), !.start = NoGame]
        [] OTHER -> grown

\* One turn of the drain loop, for one effect of the event.
Drain(b, e) ==
  {IF ~Forced(e.kind) /\ b.steps # <<>> /\ ~effect.changes
     THEN foldAccum(b) ELSE AppendStep(b, e, effect) : effect \in Effects(e.kind, StateOf(b))}

\* A line emits at most two events.
DrainAll(b, es) ==
  CASE es = <<>>    -> {b}
    [] Len(es) = 1  -> Drain(b, es[1])
    [] OTHER        -> UNION {Drain(c, es[2]) : c \in Drain(b, es[1])}

Build(b) ==
  /\ steps' = b.steps /\ games' = b.games /\ gameStepStart' = b.start
  /\ accum' = b.accum /\ early' = b.early

ReadLine ==
  /\ stage = "loading" /\ Len(log) < MaxLogLines
  /\ \E kind \in LineKind :
       LET fed == Feed(parser, Len(log) + 1, kind)
       IN  /\ MayFollow(kind)
           /\ log' = Append(log, kind)
           /\ parser' = fed.parser /\ events' = events \o fed.events
           /\ \E b \in DrainAll([Built EXCEPT !.accum = Append(@, Len(log) + 1)], fed.events) : Build(b)
  /\ UNCHANGED <<files, modeVars, pickVars, viewVars>>

\* The next file: what is left of the last one is folded into its last step,
\* and the parser goes on as it is.
NextFile ==
  /\ stage = "loading" /\ files < MaxFiles /\ log # <<>>
  /\ files' = files + 1
  /\ Build(foldAccum(Built))
  /\ UNCHANGED <<log, parser, events, modeVars, pickVars, viewVars>>

Flushed == Flush(parser)

FinishLoad ==
  /\ stage = "loading"
  /\ parser' = Flushed.parser /\ events' = events \o Flushed.events
  /\ \E b \in DrainAll(Built, Flushed.events) :
       LET c == foldAccum(b)
       IN  Build([c EXCEPT !.games = IF c.start = NoGame THEN @
                    ELSE Append(@, [lo |-> c.start, hi |-> Len(c.steps)])])
  /\ stage' = "loaded"
  /\ UNCHANGED <<log, files, replay, store, source, embedded, loadErr, notice, pickVars, viewVars>>

(***************************************************************************)
(* The browser.                                                            *)
(***************************************************************************)
Matches(s, f) == f = ALL \/ s.kind = f

\* The steps that match, in their order.
FilterOf(ss, f) ==
  LET matching == {i \in 1..Len(ss) : Matches(ss[i], f)}
  IN  [k \in 1..Cardinality(matching) |->
         CHOOSE i \in matching : Cardinality({j \in matching : j <= i}) = k]

\* mutant: the cursor is left where it was
X_rebuildFiltered(ss, f, at) ==
  /\ shown' = ss /\ filter' = f /\ filtered' = FilterOf(ss, f) /\ cursor' = at
rebuildFiltered(ss, f, at) ==
  /\ shown' = ss /\ filter' = f /\ filtered' = FilterOf(ss, f)
  /\ cursor' = Max({1, Min({at, Len(FilterOf(ss, f))})})

StepsOf(r, g) == SubSeq(r.steps, r.games[g].lo, r.games[g].hi)

\* An index that is out of range selects nothing.
selectGame(r, g) ==
  IF g \in 1..Len(r.games)
    THEN /\ gameIdx' = g /\ picking' = FALSE
         /\ rebuildFiltered(StepsOf(r, g), ALL, 1)
    ELSE UNCHANGED <<picking, viewVars>>

\* A replay takes the place of the one before; the only game is selected.
Install(r) ==
  /\ replay' = r /\ loadErr' = FALSE
  /\ UNCHANGED gameCursor
  /\ IF Len(r.games) = 1 THEN selectGame(r, 1)
     ELSE picking' = (Len(r.games) > 1) /\ UNCHANGED viewVars

\* What is kept of the loader's steps once they are in a replay.
Plain(ss) == [i \in 1..Len(ss) |-> [ss[i] EXCEPT !.of = 0, !.raw = <<>>, !.dropped = 0]]

Forget ==
  /\ log' = <<>> /\ parser' = New /\ events' = <<>> /\ files' = 1 /\ early' = 0
  /\ accum' = <<>> /\ gameStepStart' = NoGame /\ steps' = Plain(steps)
  /\ UNCHANGED games

\* The logs are read, by the replay command or because the store has no game;
\* reading them may fail.
OpenLogs ==
  /\ stage = "loaded" /\ Len(log) <= MaxBrowsed
  /\ \/ store' = NoReplay /\ embedded' \in BOOLEAN
     \/ store' = Loaded(<<>>, <<>>) /\ embedded' = TRUE
  /\ stage' = "browsing" /\ Forget
  /\ \/ games # <<>> /\ Install(Loaded(Plain(steps), games))
     \/ games = <<>> /\ replay' = Loaded(Plain(steps), games) /\ loadErr' = TRUE
        /\ UNCHANGED <<pickVars, viewVars>>
     \/ loadErr' = TRUE /\ UNCHANGED <<replay, pickVars, viewVars>>
  /\ UNCHANGED <<source, notice>>

\* The combined view opens the games of the store, if it has any.
OpenStore ==
  /\ stage = "loaded" /\ Len(log) <= MaxBrowsed
  /\ \E r \in StoreReplays : store' = r /\ Install(r)
  /\ stage' = "browsing" /\ source' = "store" /\ embedded' = TRUE /\ Forget
  /\ UNCHANGED notice

Other == IF source = "logs" THEN "store" ELSE "logs"

Reloaded ==
  /\ stage = "reloading" /\ stage' = "browsing"
  /\ LET r == IF Other = "store" THEN store ELSE Loaded(steps, games)
     IN  \/ loadErr' = TRUE /\ UNCHANGED <<replay, source, notice, pickVars, viewVars>>
         \/ r.games = <<>> /\ notice' = TRUE /\ UNCHANGED <<replay, source, loadErr, pickVars, viewVars>>
         \/ r.games # <<>> /\ Install(r) /\ source' = Other /\ UNCHANGED notice
  /\ UNCHANGED <<loadVars, store, embedded>>

(***************************************************************************)
(* The keys, by the state they are pressed in.                             *)
(***************************************************************************)
Pressed == stage = "browsing" /\ ~notice
Picker  == Pressed /\ ~loadErr /\ picking
Normal  == Pressed /\ ~loadErr /\ ~picking

switchSource ==
  /\ Normal \/ (Pressed /\ loadErr /\ embedded)
  /\ Other = "store" => store.present
  /\ embedded
  /\ stage' = "reloading" /\ loadErr' = FALSE
  /\ UNCHANGED <<loadVars, replay, store, source, embedded, notice, pickVars, viewVars>>

Dismiss ==
  /\ stage = "browsing" /\ notice
  /\ notice' = FALSE
  /\ UNCHANGED <<loadVars, stage, replay, store, source, embedded, loadErr, pickVars, viewVars>>

PickGame ==
  /\ Picker
  /\ \/ /\ gameCursor' \in {gameCursor - 1, gameCursor + 1, 1, Len(replay.games)}
        /\ gameCursor' > gameCursor => gameCursor' <= Len(replay.games)
        /\ gameCursor' >= 1
        /\ UNCHANGED <<picking, viewVars>>
     \/ selectGame(replay, gameCursor) /\ UNCHANGED gameCursor
  /\ UNCHANGED <<loadVars, modeVars>>

\* The key reads the games of the replay, whether there is one or not.
OpenPicker ==
  /\ Normal
  /\ IF replay.present
       THEN Len(replay.games) > 1 /\ picking' = TRUE /\ UNCHANGED stage
       ELSE stage' = "dead" /\ UNCHANGED picking
  /\ UNCHANGED <<loadVars, replay, store, source, embedded, loadErr, notice, gameCursor, viewVars>>

\* Where the keys lead.
At(i)   == shown[filtered[i]]
Places  == 1..Len(filtered)
After(c) == {i \in Places : i > c}
Up(c)    == {i \in Places : i < c}

FirstOf(S, c) == IF S = {} THEN c ELSE Min(S)

nextTurn(c)  == FirstOf({i \in After(c) : Turn(At(i)) > Turn(At(c))}, c)
nextPhase(c) == FirstOf({i \in After(c) : Phase(At(i)) # Phase(At(c))}, c)

\* The start of a run of places, by the places before it that break it.
\* mutant: the first step of a turn is missed by one
X_StartOf(breaks) == IF breaks = {} THEN 1 ELSE Max(breaks)
StartOf(breaks) == IF breaks = {} THEN 1 ELSE Max(breaks) + 1

prevTurn(c) ==
  LET earlier == {i \in Up(c) : Turn(At(i)) < Turn(At(c))}
  IN  IF earlier = {} THEN c
      ELSE LET i == Max(earlier) IN StartOf({j \in Up(i) : Turn(At(j)) < Turn(At(i))})

prevPhase(c) ==
  LET other == {i \in Up(c) : Phase(At(i)) # Phase(At(c))}
  IN  IF other = {} THEN c
      ELSE LET i == Max(other) IN StartOf({j \in Up(i) : Phase(At(j)) # Phase(At(i))})

\* The last step of the turn, or the first one after it.
jumpToTurn(turn, c) ==
  LET same == {i \in Places : Turn(At(i)) = turn}
  IN  IF same # {}
        THEN Max({i \in same : \A j \in Min(same)..i : j \in same})
        ELSE FirstOf({i \in Places : Turn(At(i)) >= turn}, c)

\* The position of the cursor may leave the list when the list is empty.
moveCursor(c) == IF filtered = <<>> THEN 0 ELSE Max({1, Min({c, Len(filtered)})})

Move ==
  /\ Normal
  /\ \/ cursor' \in {moveCursor(cursor - 1), moveCursor(cursor + 1), 1}
     \/ /\ filtered # <<>>
        /\ \/ cursor' \in {Len(filtered), nextTurn(cursor), prevTurn(cursor),
                           nextPhase(cursor), prevPhase(cursor)}
           \/ \E turn \in 0..MaxLogLines : cursor' = jumpToTurn(turn, cursor)
  /\ UNCHANGED <<loadVars, modeVars, pickVars, gameIdx, shown, filtered, filter>>

Refilter ==
  /\ Normal
  /\ \E f \in Filters \cup {ALL} : rebuildFiltered(shown, f, cursor)
  /\ UNCHANGED <<loadVars, modeVars, pickVars, gameIdx>>

\* Any key leaves the replay command after an error.
Quit ==
  /\ Pressed /\ loadErr /\ ~embedded
  /\ stage' = "left"
  /\ UNCHANGED <<loadVars, replay, store, source, embedded, loadErr, notice, pickVars, viewVars>>

ReplayNext ==
  \/ ReadLine \/ NextFile \/ FinishLoad
  \/ OpenLogs \/ OpenStore \/ Reloaded
  \/ switchSource \/ Dismiss \/ PickGame \/ OpenPicker \/ Move \/ Refilter \/ Quit

ReplaySpec == ReplayInit /\ [][ReplayNext]_replayVars

(***************************************************************************)
(* Properties.                                                             *)
(***************************************************************************)
\* Types; the parser, the steps and the events are made of their parts.
ReplayTypeOK ==
  /\ log \in Seq(LineKind) /\ files \in Nat /\ parser \in ParserType /\ events \in Seq(EventType)
  /\ Built \in BuiltType
  /\ stage \in {"loading", "loaded", "browsing", "reloading", "left", "dead"}
  /\ replay \in ReplayType /\ store \in ReplayType /\ source \in {"logs", "store"}
  /\ {embedded, loadErr, notice, picking} \subseteq BOOLEAN /\ gameCursor \in Nat
  /\ gameIdx \in Nat /\ shown \in Seq(StepType) /\ filtered \in Seq(Nat)
  /\ cursor \in Nat /\ filter \in Filters \cup {ALL}

\* The parser emits one event for each line that begins one, in the order of
\* these lines, with the tag lines that belong to it and the block it is in:
\* but for the one still held back, and the one a new game discards.
EventsExact ==
  stage \in {"loading", "loaded"} =>
    /\ events = [k \in 1..Len(events) |-> ExpectedEvent(log, events[k].of)]
    /\ {events[k].of : k \in 1..Len(events)}
         = {i \in 1..Len(log) : HasEvent(log, stage = "loaded", i)}
    /\ \A k \in 1..(Len(events) - 1) : events[k].of < events[k + 1].of

\* The games of the replay are the logs' games that ended, and the last one
\* if it did not: each begins with its GAME_START, contains no other, and
\* ends with the first GAME_END after it or at the end of the logs.
EndOf(lo) ==
  LET ends == {i \in (lo + 1)..Len(steps) : steps[i].kind = "complete"}
      next == {i \in (lo + 1)..Len(steps) : steps[i].kind = "create"}
      hi   == Min(ends \cup {Len(steps)})
  IN  IF \E i \in next : i <= hi THEN {} ELSE {[lo |-> lo, hi |-> hi]}
GamesExact ==
  stage = "loaded" =>
    {games[g] : g \in 1..Len(games)}
      = UNION {EndOf(i) : i \in {j \in 1..Len(steps) : steps[j].kind = "create"}}
    /\ \A g \in 1..(Len(games) - 1) : games[g].hi < games[g + 1].lo

\* Every line read is the raw line of exactly one step, in the order of the
\* log, or counted among those a step has dropped.  The exception, `early`, is the
\* lines at the end of a file that come before any step: foldAccum drops those.
Kept(s) == Len(s.raw) + s.dropped
KeptTo(ss) ==
  LET to[k \in 0..Len(ss)] == IF k = 0 THEN 0 ELSE to[k - 1] + Kept(ss[k]) IN to
LinesKept ==
  stage \in {"loading", "loaded"} =>
    /\ early + KeptTo(steps)[Len(steps)] + Len(accum) = Len(log)
    /\ \A k \in 1..Len(steps) : \A j \in 1..Len(steps[k].raw) :
         steps[k].raw[j] = early + KeptTo(steps)[k - 1] + steps[k].dropped + j

\* The browser shows a step whenever one matches the filter, of the game that
\* is selected in the replay that is installed.
ShownStep ==
  stage = "browsing" /\ ~picking =>
    /\ filtered # <<>> => cursor \in Places
    /\ filtered = FilterOf(shown, filter)
    /\ replay.games # <<>> => shown = StepsOf(replay, gameIdx)

\* The keys for the turn before and the phase before lead to the first step
\* shown of that turn, or phase, and the jump to a turn to its last.
TurnsReached ==
  Normal /\ filtered # <<>> /\ cursor \in Places =>
    /\ LET p == prevTurn(cursor)
       IN  p # cursor => /\ p < cursor /\ Turn(At(p)) < Turn(At(cursor))
                         /\ \A i \in Places : i < p => Turn(At(i)) < Turn(At(p))
                         /\ \A i \in p..cursor : Turn(At(i)) \in {Turn(At(p)), Turn(At(cursor))}
    /\ LET p == prevPhase(cursor)
       IN  p # cursor => /\ p < cursor
                         /\ p > 1 => Phase(At(p - 1)) # Phase(At(p))
    /\ \A i \in Places :
         LET j == jumpToTurn(Turn(At(i)), cursor)
         IN  Turn(At(j)) = Turn(At(i)) /\ \A k \in Places : Turn(At(k)) = Turn(At(i)) => k <= j

\* model.go:124 says that a load error of the embedded replay never quits the
\* program: after one, no key ends it.
EmbeddedStays == ~(embedded /\ stage = "dead")
=============================================================================
