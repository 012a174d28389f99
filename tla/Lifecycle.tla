----------------------------- MODULE Lifecycle -----------------------------
(***************************************************************************)
(* The life of a game in the daemon's event loop: what CREATE_GAME, TURN,  *)
(* the reconnect block, a silent log and STATE=COMPLETE do to the phase    *)
(* kept by the ActionBuilder, the phase kept by the ActionDispatcher and   *)
(* the record kept by the Machine, across games that are left, resumed and *)
(* left for good.                                                          *)
(*                                                                         *)
(* One event of the log goes through ActionBuilder.Build,                  *)
(* ActionDispatcher.Dispatch and one Processor visitor in the same         *)
(* goroutine, so an event is one action here.  The ticker of that          *)
(* goroutine calls CheckStaleness: the action Timeout.                     *)
(***************************************************************************)
EXTENDS Integers, Sequences, SequencesExt

CONSTANTS
  MaxCreates,   \* bound on CREATE_GAME lines (games and reconnects together)
  MaxTurn,      \* bound on the GameEntity TURN of one game
  Places,       \* final placements; the source's 1..8
  NoStash       \* Processor.reconnectStash == nil

ASSUME BoundsAssumption == /\ MaxCreates \in Nat /\ MaxTurn \in Nat
                           /\ Places \subseteq Nat \ {0}

Phases  == {"IDLE", "LOBBY", "RECRUIT", "COMBAT", "GAME_OVER"}
Record  == [gameID : Nat, turn : Nat, snaps : Seq(Nat)]

ASSUME NoStashAssumption == NoStash \notin Record

VARIABLES
  \* The game as the Hearthstone client plays and logs it.
  creates,      \* CREATE_GAME lines so far: the n-th one has timestamp n
  game,         \* timestamp of the first CREATE_GAME of the current game
  live,         \* the current game is still being played
  geTurn,       \* GameEntity TURN of the current game (odd recruit, even combat)
  owed,         \* the player's own TURN has yet to follow the GameEntity's
  block,        \* how far the client's log of the game has got
  resume,       \* the last CREATE_GAME returned to a game already begun
  \* ActionBuilder, ActionDispatcher
  bPhase, dPhase,
  \* Machine
  mPhase, gameID, turn, snaps, placement, winStreak, lossStreak,
  \* Processor
  stash, isReconnect, result, turnsStarted, pendingPlacement,
  \* History: what the log has said, to compare the record with.
  anchor,       \* game ID of the record when the game had its first combat
  seen,         \* BG turns announced since the record was begun
  closedAt,     \* its turns in which it was ended, by the log or by the ticker
  turned,       \* a TURN was logged since CREATE_GAME and the last forced end
  faults,       \* what happened to the current game's record
  outcome,      \* 1, -1, 0: the local hero won, lost, did neither
  trueWins, trueLosses,
  announced     \* last placement announced in the current game

gameVars    == <<creates, game, live, geTurn, owed, block, resume>>
phaseVars   == <<bPhase, dPhase>>
machineVars == <<mPhase, gameID, turn, snaps, placement, winStreak, lossStreak>>
procVars    == <<stash, isReconnect, result, turnsStarted, pendingPlacement>>
ghostVars   == <<anchor, seen, closedAt, turned, faults, outcome, trueWins,
                 trueLosses, announced>>
vars        == <<gameVars, phaseVars, machineVars, procVars, ghostVars>>

TypeOK ==
  /\ creates \in Nat /\ game \in Nat /\ live \in BOOLEAN /\ geTurn \in Nat
  /\ owed \in BOOLEAN /\ block \in {"off", "created", "tags", "play"}
  /\ resume \in BOOLEAN
  /\ bPhase \in Phases \ {"LOBBY"} /\ dPhase \in Phases \ {"LOBBY"}
  /\ mPhase \in Phases /\ gameID \in Nat /\ turn \in Nat /\ snaps \in Seq(Nat)
  /\ placement \in Places \cup {0} /\ winStreak \in Nat /\ lossStreak \in Nat
  /\ stash \in Record \cup {NoStash} /\ isReconnect \in BOOLEAN
  /\ result \in {-1, 0, 1} /\ turnsStarted \in Nat
  /\ pendingPlacement \in Places \cup {0}
  /\ anchor \in Nat /\ seen \subseteq Nat /\ closedAt \subseteq Nat
  /\ turned \in BOOLEAN
  /\ faults \subseteq {"forced", "torn"}
  /\ outcome \in {-1, 0, 1} /\ trueWins \in Nat /\ trueLosses \in Nat
  /\ announced \in Places \cup {0}

Init ==
  /\ creates = 0 /\ game = 0 /\ live = FALSE /\ geTurn = 0 /\ owed = FALSE
  /\ block = "off" /\ resume = FALSE
  /\ bPhase = "IDLE" /\ dPhase = "IDLE"
  /\ mPhase = "IDLE" /\ gameID = 0 /\ turn = 0 /\ snaps = <<>>
  /\ placement = 0 /\ winStreak = 0 /\ lossStreak = 0
  /\ stash = NoStash /\ isReconnect = FALSE /\ result = 0 /\ turnsStarted = 0
  /\ pendingPlacement = 0
  /\ anchor = 0 /\ seen = {} /\ closedAt = {} /\ turned = FALSE /\ faults = {}
  /\ outcome = 0 /\ trueWins = 0 /\ trueLosses = 0 /\ announced = 0

-----------------------------------------------------------------------------
(* Machine *)

\* SetGameEntityTurn and buildTurnTransition: odd is recruit, even is combat.
PhaseOf(t) == IF t % 2 = 1 THEN "RECRUIT" ELSE "COMBAT"

\* The BG turn of a GameEntity turn, which counts recruit and combat apart.
BGTurn(t) == (t + 1) \div 2

Running(phase) == phase \notin {"IDLE", "GAME_OVER"}

\* captureTurnSnapshot as SetTurn and as GameEnd call it.
SnapshotsBefore_atSameTurn(t) == \* mutant: >= for >
  IF turn > 0 /\ t >= turn THEN Append(snaps, turn) ELSE snaps
SnapshotsBefore(t) == IF turn > 0 /\ t > turn THEN Append(snaps, turn) ELSE snaps
FinalSnapshots     == IF turn > 0 THEN Append(snaps, turn) ELSE snaps

SetGameEntityTurn_unlessOver(t) == \* mutant: a forced end is final
  mPhase' = IF mPhase = "GAME_OVER" THEN mPhase ELSE PhaseOf(t)
SetGameEntityTurn(t) == mPhase' = PhaseOf(t)

SetTurn(t) ==
  /\ snaps' = SnapshotsBefore(t)
  /\ turn' = t
  /\ mPhase' = "RECRUIT"

GameEnd(place) ==
  /\ mPhase' = "GAME_OVER"
  /\ placement' = place
  /\ snaps' = FinalSnapshots

\* RecordRoundWin and RecordRoundLoss, by the sign of the combat result.
WinsAfter_decrement(r, w) == \* mutant: a loss takes a win away
  CASE r > 0 -> w + 1 [] r < 0 -> w - 1 [] OTHER -> w
WinsAfter(r, w)   == CASE r > 0 -> w + 1 [] r < 0 -> 0 [] OTHER -> w
LossesAfter(r, l) == CASE r < 0 -> l + 1 [] r > 0 -> 0 [] OTHER -> l

RecordRound(r) ==
  /\ winStreak' = WinsAfter(r, winStreak)
  /\ lossStreak' = LossesAfter(r, lossStreak)

-----------------------------------------------------------------------------
(* CREATE_GAME *)

\* buildGameStart: a builder in mid-game takes the CREATE_GAME for a reconnect.
BuilderReconnect(phase) == phase \in {"RECRUIT", "COMBAT"}
BuilderAfterCreate(phase) == IF BuilderReconnect(phase) THEN phase ELSE "IDLE"

\* The dispatcher follows the builder's GameStartAction.IsReconnect.
DispatcherAfterCreate_reset(reconnect, phase) == "IDLE" \* mutant: always resets
DispatcherAfterCreate(reconnect, phase) == IF reconnect THEN phase ELSE "IDLE"

\* OnGameStart puts a game in progress aside before the reset.
StashOf_recruitOnly(phase) == \* mutant: no stash out of the combat phase
  IF phase = "RECRUIT"
  THEN [gameID |-> gameID, turn |-> turn, snaps |-> snaps]
  ELSE NoStash
StashOf(phase) ==
  IF Running(phase)
  THEN [gameID |-> gameID, turn |-> turn, snaps |-> snaps]
  ELSE NoStash

\* resetProcessorState and Machine.GameStart.
ResetProcessor_keepPlacement == \* mutant: the placement is not reset
  result' = 0 /\ turnsStarted' = 0 /\ UNCHANGED pendingPlacement
ResetProcessor ==
  /\ result' = 0
  /\ turnsStarted' = 0
  /\ pendingPlacement' = 0

GameStart(id) ==
  /\ gameID' = id /\ mPhase' = "LOBBY" /\ turn' = 0 /\ snaps' = <<>>
  /\ placement' = 0 /\ winStreak' = 0 /\ lossStreak' = 0

OnGameStart ==
  /\ bPhase' = BuilderAfterCreate(bPhase)
  /\ dPhase' = DispatcherAfterCreate(BuilderReconnect(bPhase), dPhase)
  /\ isReconnect' = FALSE
  /\ stash' = StashOf(mPhase)
  /\ ResetProcessor
  /\ GameStart(creates')

\* The client opens a new game: its log starts with the first CREATE_GAME.
NewGame ==
  /\ ~live /\ creates < MaxCreates
  /\ creates' = creates + 1 /\ game' = creates' /\ live' = TRUE
  /\ geTurn' = 0 /\ owed' = FALSE /\ block' = "created" /\ resume' = FALSE
  /\ OnGameStart
  /\ anchor' = 0 /\ turned' = FALSE /\ faults' = {} /\ outcome' = 0
  /\ trueWins' = 0 /\ trueLosses' = 0 /\ announced' = 0
  /\ seen' = {} /\ closedAt' = {}

\* The client comes back to a game that went on without it.
Reconnect ==
  /\ live /\ block = "off" /\ creates < MaxCreates
  /\ creates' = creates + 1 /\ block' = "created" /\ resume' = TRUE
  /\ OnGameStart
  /\ turned' = FALSE /\ outcome' = 0
  /\ IF Running(mPhase) THEN UNCHANGED <<seen, closedAt>>
                        ELSE seen' = {} /\ closedAt' = {}
  /\ UNCHANGED <<game, live, geTurn, owed, anchor, faults, trueWins, trueLosses,
                 announced>>

CreateGame == NewGame \/ Reconnect

-----------------------------------------------------------------------------
(* The rest of the CREATE_GAME block *)

\* OnReconnect restores the stash on STATE=RUNNING with TURN > 1.
Restores_unconfirmed(running, t) == stash # NoStash \* mutant: tags not read
Restores(running, t) == running /\ t > 1 /\ stash # NoStash

RestoreFromReconnect ==
  /\ gameID' = stash.gameID /\ turn' = stash.turn /\ snaps' = stash.snaps
  /\ isReconnect' = TRUE

\* The tags of the GameEntity: a first CREATE_GAME has neither STATE nor TURN.
GameEntityTags ==
  /\ block = "created"
  /\ block' = "tags"
  /\ IF Restores(resume, geTurn)
     THEN RestoreFromReconnect /\ UNCHANGED <<seen, closedAt>>
     ELSE /\ UNCHANGED <<gameID, turn, snaps, isReconnect>>
          /\ seen' = {} /\ closedAt' = {}
  /\ stash' = NoStash
  /\ UNCHANGED <<creates, game, live, geTurn, owed, resume, phaseVars, mPhase,
                 placement, winStreak, lossStreak, result, turnsStarted,
                 pendingPlacement, anchor, turned, faults, outcome, trueWins,
                 trueLosses, announced>>

\* anchor, once the game is past its first recruit phase.
AnchorAfter(t) == IF anchor = 0 /\ t > 1 THEN gameID ELSE anchor

\* OnPlayerDef for the local player: InitialTurn, 0 in a first CREATE_GAME.
PlayerDef ==
  /\ block = "tags"
  /\ block' = "play"
  /\ owed' = FALSE
  /\ IF BGTurn(geTurn) > 0
     THEN SetTurn(BGTurn(geTurn)) /\ seen' = seen \cup {BGTurn(geTurn)}
     ELSE UNCHANGED <<snaps, turn, mPhase, seen>>
  /\ anchor' = AnchorAfter(geTurn)
  /\ UNCHANGED <<creates, game, live, geTurn, resume, phaseVars, gameID,
                 placement, winStreak, lossStreak, procVars, closedAt, turned,
                 faults, outcome, trueWins, trueLosses, announced>>

-----------------------------------------------------------------------------
(* The game in play *)

InPlay == live /\ block = "play"

\* EventTurnStart: buildTurnTransition, Dispatch and OnTurnTransition.
TurnStart ==
  /\ InPlay /\ ~owed /\ geTurn < MaxTurn
  /\ geTurn' = geTurn + 1
  /\ owed' = (geTurn' % 2 = 1)
  /\ bPhase' = PhaseOf(geTurn')
  /\ dPhase' = PhaseOf(geTurn')
  /\ SetGameEntityTurn(geTurn')
  /\ turned' = TRUE
  /\ anchor' = AnchorAfter(geTurn')
  /\ UNCHANGED <<creates, game, live, block, resume, gameID, turn, snaps,
                 placement, winStreak, lossStreak, procVars, seen, closedAt,
                 faults, outcome, trueWins, trueLosses, announced>>

\* OnPlayerBGTurnChanged skips the round before the first turn it sees.
RoundToRecord_late == \* mutant: the second round is skipped too
  IF turnsStarted > 1 THEN result ELSE 0
RoundToRecord == IF turnsStarted > 0 THEN result ELSE 0

PlayerTurn ==
  /\ InPlay /\ owed
  /\ owed' = FALSE
  /\ RecordRound(RoundToRecord)
  /\ result' = 0
  /\ turnsStarted' = turnsStarted + 1
  /\ SetTurn(BGTurn(geTurn))
  /\ seen' = seen \cup {BGTurn(geTurn)}
  /\ outcome' = 0
  /\ trueWins' = WinsAfter(outcome, trueWins)
  /\ trueLosses' = LossesAfter(outcome, trueLosses)
  /\ UNCHANGED <<creates, game, live, geTurn, block, resume, phaseVars, gameID,
                 placement, stash, isReconnect, pendingPlacement, anchor,
                 closedAt, turned, faults, announced>>

\* PROPOSED_ATTACKER and PROPOSED_DEFENDER between the two heroes, which the
\* builder emits and the dispatcher routes in the combat phase only.
CombatRouted == bPhase = "COMBAT" /\ dPhase = "COMBAT"

HeroAttack(r) ==
  /\ InPlay /\ geTurn > 0 /\ geTurn % 2 = 0 /\ outcome = 0
  /\ outcome' = r
  /\ result' = IF CombatRouted THEN r ELSE result
  /\ UNCHANGED <<gameVars, phaseVars, machineVars, stash, isReconnect,
                 turnsStarted, pendingPlacement, anchor, seen, closedAt, turned,
                 faults, trueWins, trueLosses, announced>>

PlacementChanged(place) ==
  /\ InPlay /\ geTurn > 1
  /\ pendingPlacement' = place
  /\ announced' = place
  /\ UNCHANGED <<gameVars, phaseVars, machineVars, stash, isReconnect, result,
                 turnsStarted, anchor, seen, closedAt, turned, faults, outcome,
                 trueWins, trueLosses>>

\* STATE=COMPLETE: buildGameEnd, Dispatch and OnGameEnd.
GameComplete ==
  /\ InPlay
  /\ live' = FALSE /\ block' = "off" /\ owed' = FALSE
  /\ bPhase' = "GAME_OVER" /\ dPhase' = "GAME_OVER"
  /\ RecordRound(result)
  /\ result' = 0
  /\ GameEnd(pendingPlacement)
  /\ pendingPlacement' = 0
  /\ outcome' = 0
  /\ trueWins' = WinsAfter(outcome, trueWins)
  /\ trueLosses' = LossesAfter(outcome, trueLosses)
  /\ closedAt' = closedAt \cup {turn}
  /\ UNCHANGED <<creates, game, geTurn, resume, gameID, turn, stash,
                 isReconnect, turnsStarted, anchor, seen, turned, faults,
                 announced>>

-----------------------------------------------------------------------------
(* What interrupts a game *)

\* The block of a reconnect without its tags, with a record of a turn put aside:
\* the next OnGameStart puts the empty record of the lobby in its place.
TearsRecord ==
  block = "created" /\ resume /\ stash # NoStash /\ stash.turn > 0

\* The client stops logging: it lost its connection, or it was closed.
Disconnect ==
  /\ live /\ block # "off"
  /\ block' = "off"
  /\ faults' = IF TearsRecord THEN faults \cup {"torn"} ELSE faults
  /\ UNCHANGED <<creates, game, live, geTurn, owed, resume, phaseVars,
                 machineVars, procVars, anchor, seen, closedAt, turned, outcome,
                 trueWins, trueLosses, announced>>

\* The game goes on without the client, or ends without it.
MissTurn ==
  /\ live /\ block = "off" /\ geTurn < MaxTurn
  /\ geTurn' = geTurn + 1
  /\ UNCHANGED <<creates, game, live, owed, block, resume, phaseVars,
                 machineVars, procVars, ghostVars>>

Abandon ==
  /\ live /\ block = "off"
  /\ live' = FALSE
  /\ UNCHANGED <<creates, game, geTurn, owed, block, resume, phaseVars,
                 machineVars, procVars, ghostVars>>

\* CheckStaleness after three silent minutes.  Any pause between two lines can
\* be that long: a late recruit phase, a reconnect, or the end of the log.
Stale_inPlay == mPhase \in {"RECRUIT", "COMBAT"} \* mutant: forgets the lobby
Stale == Running(mPhase)

Timeout ==
  /\ Stale
  /\ GameEnd(0)
  /\ turned' = FALSE
  /\ faults' = faults \cup {"forced"}
  /\ closedAt' = closedAt \cup {turn}
  /\ UNCHANGED <<gameVars, phaseVars, gameID, turn, winStreak, lossStreak,
                 procVars, anchor, seen, outcome, trueWins, trueLosses,
                 announced>>

-----------------------------------------------------------------------------
Log == \/ CreateGame \/ GameEntityTags \/ PlayerDef
       \/ TurnStart \/ PlayerTurn \/ GameComplete
       \/ \E r \in {-1, 1} : HeroAttack(r)
       \/ \E place \in Places : PlacementChanged(place)

Next == Log \/ Disconnect \/ MissTurn \/ Abandon \/ Timeout

Safe == Init /\ [][Next]_vars

\* The ticker fires every write_interval_ms for as long as the daemon runs; the
\* log promises nothing.
Spec == Safe /\ WF_vars(Timeout)

-----------------------------------------------------------------------------
(* What the daemon promises about the record of a game *)

\* The builder gates what it emits by its own phase and the dispatcher routes by
\* its own: were the two to part, an action meant for one visitor would be
\* dropped at the other, which the dispatcher logs as a builder bug.
PhasesAgree == bPhase = dPhase

\* Once a TURN has been logged since CREATE_GAME, the builder, the dispatcher and
\* the record are all in the phase the game is in, whatever reconnects and forced
\* ends came before: the TURN repairs what they left behind.
PhasesTrackTurn ==
  turned /\ block = "play" =>
    bPhase = PhaseOf(geTurn) /\ dPhase = PhaseOf(geTurn) /\ mPhase = PhaseOf(geTurn)

\* A game keeps the game ID it had at its first combat over every reconnect, so
\* that its end is stored once.  Two things break this, and are excepted: a log
\* silent for three minutes, and the connection lost again inside a reconnect's
\* CREATE_GAME block, before the tags that restore the record put aside.  Up to
\* those tags the record is the lobby's, and nothing is said of it.
GameIdentity ==
  faults = {} /\ anchor # 0 /\ block # "created" => gameID = anchor

\* The stash never carries the record of an earlier game into the present one:
\* a record is restored only if one of this game's own CREATE_GAMEs began it.
RestoreSameGame ==
  [][GameEntityTags /\ isReconnect' => gameID' >= game]_vars

\* The snapshots are those of the BG turns announced, in their order: reconnects,
\* which announce a turn again, turns missed in between and forced ends lose none.
\* The turn in progress has one only if the record was ended in it, and only such a
\* turn may have more than one, when the game goes on after a forced end.  Excepted
\* is a game that lost its record in the torn block of a reconnect.
SnapshotsMatchTurns ==
  "torn" \notin faults /\ block # "created" =>
    /\ \A i, j \in DOMAIN snaps :
         i < j => snaps[i] < snaps[j] \/ (snaps[i] = snaps[j] /\ snaps[i] \in closedAt)
    /\ ToSet(snaps) = seen \ ({turn} \ closedAt)

\* docs/plans/2026-03-25-reconnect-aware-handling.md:111 and :114: "The original game
\* ID is preserved via the stash", so that "Turn snapshots attach to the same game":
\* in a game on again after a torn block as well.
IdentityOverTornBlocks ==
  "forced" \notin faults /\ anchor # 0 /\ block = "play" => gameID = anchor
SnapshotsOverTornBlocks ==
  "forced" \notin faults /\ block = "play" => ToSet(snaps) = seen \ {turn}

\* docs/API.md:63: "Per-turn snapshots": one for each turn, over forced ends as well.
OneSnapshotEach == \A i, j \in DOMAIN snaps : i < j => snaps[i] < snaps[j]

\* In a game played without a reconnect the streaks are those of its combats: no
\* combat is counted twice, none is lost, and the first TURN counts none.
StreaksMatchCombats ==
  creates = game => winStreak = trueWins /\ lossStreak = trueLosses

\* Only a finished game has a placement, and it is the last one announced in this
\* game: none is left over from the game before or from before a forced end.
PlacedMeansComplete ==
  placement # 0 => mPhase = "GAME_OVER" /\ ~live /\ placement = announced

\* A record in progress whose game ended without a word is closed in the end: the
\* ticker outlives the log.
AbandonedGameCloses ==
  (~live /\ block = "off" /\ Running(mPhase)) ~> (~Running(mPhase) \/ block # "off")
=============================================================================
