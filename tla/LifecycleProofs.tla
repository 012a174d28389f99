-------------------------- MODULE LifecycleProofs --------------------------
(* Theorems of Lifecycle, for any number of games, reconnects and turns,  *)
(* and of the routes of the log's events over them.                       *)
EXTENDS Routing, TLAPS

-----------------------------------------------------------------------------
(* Types *)

\* PhaseOf is a phase of play.
LEMMA PhaseOfType == \A t : PhaseOf(t) \in {"RECRUIT", "COMBAT"}
  BY DEF PhaseOf

\* The BG turn of a GameEntity turn is a natural number, and positive with it.
LEMMA BGTurnType ==
  \A t \in Nat : BGTurn(t) \in Nat /\ (t > 0 => BGTurn(t) > 0)
  BY SMT DEF BGTurn

\* Both ways of taking a turn snapshot leave a sequence of turns.
LEMMA SnapshotsType ==
  ASSUME TypeOK, NEW t \in Nat
  PROVE  SnapshotsBefore(t) \in Seq(Nat) /\ FinalSnapshots \in Seq(Nat)
  BY DEF TypeOK, SnapshotsBefore, FinalSnapshots

\* A round leaves a streak a natural number.
LEMMA StreakType ==
  \A r \in {-1, 0, 1}, n \in Nat : WinsAfter(r, n) \in Nat /\ LossesAfter(r, n) \in Nat
  BY DEF WinsAfter, LossesAfter

\* What OnGameStart puts aside is a record or nothing.
LEMMA StashType ==
  ASSUME TypeOK
  PROVE  StashOf(mPhase) \in Record \cup {NoStash}
  BY DEF TypeOK, StashOf, Record

\* OnGameStart keeps the types of what it assigns.
LEMMA GameStartType ==
  ASSUME TypeOK, OnGameStart, creates' \in Nat
  PROVE  /\ bPhase' \in Phases \ {"LOBBY"} /\ dPhase' \in Phases \ {"LOBBY"}
         /\ mPhase' \in Phases /\ gameID' \in Nat /\ turn' \in Nat
         /\ snaps' \in Seq(Nat) /\ placement' \in Places \cup {0}
         /\ winStreak' \in Nat /\ lossStreak' \in Nat
         /\ stash' \in Record \cup {NoStash} /\ isReconnect' \in BOOLEAN
         /\ result' \in {-1, 0, 1} /\ turnsStarted' \in Nat
         /\ pendingPlacement' \in Places \cup {0}
<1>1. bPhase' \in Phases \ {"LOBBY"} /\ dPhase' \in Phases \ {"LOBBY"}
  BY DEF TypeOK, OnGameStart, BuilderAfterCreate, DispatcherAfterCreate, Phases
<1>2. /\ mPhase' \in Phases /\ gameID' \in Nat /\ turn' \in Nat
      /\ snaps' \in Seq(Nat) /\ placement' \in Places \cup {0}
      /\ winStreak' \in Nat /\ lossStreak' \in Nat
  BY DEF OnGameStart, GameStart, Phases
<1>3. stash' \in Record \cup {NoStash} /\ isReconnect' \in BOOLEAN
  BY StashType, Zenon DEF OnGameStart
<1>4. /\ result' \in {-1, 0, 1} /\ turnsStarted' \in Nat
      /\ pendingPlacement' \in Places \cup {0}
  BY DEF OnGameStart, ResetProcessor
<1> QED
  BY <1>1, <1>2, <1>3, <1>4

\* Every step of the daemon and of the client keeps every variable in its type.
LEMMA TypeStep == TypeOK /\ [Next]_vars => TypeOK'
<1> SUFFICES ASSUME TypeOK, [Next]_vars PROVE TypeOK'
  OBVIOUS
<1>1. CASE NewGame
  <2>1. /\ creates' \in Nat /\ game' \in Nat /\ geTurn' \in Nat /\ anchor' \in Nat
        /\ seen' \subseteq Nat /\ closedAt' \subseteq Nat
        /\ outcome' \in {-1, 0, 1} /\ trueWins' \in Nat /\ trueLosses' \in Nat
        /\ announced' \in Places \cup {0}
    BY <1>1 DEF NewGame, TypeOK
  <2> QED
    BY <1>1, <2>1, GameStartType, Zenon DEF NewGame, TypeOK
<1>2. CASE Reconnect
  <2>1. creates' \in Nat /\ outcome' \in {-1, 0, 1}
    BY <1>2 DEF Reconnect, TypeOK
  <2>2. /\ seen' = seen \/ seen' = {}
        /\ closedAt' = closedAt \/ closedAt' = {}
    BY <1>2, Zenon DEF Reconnect
  <2>3. seen' \subseteq Nat /\ closedAt' \subseteq Nat
    BY <2>2 DEF TypeOK
  <2> QED
    BY <1>2, <2>1, <2>3, GameStartType, Zenon DEF Reconnect, TypeOK
<1>3. CASE GameEntityTags
  <2>1. CASE Restores(resume, geTurn)
    <3>1. stash \in Record
      BY <2>1 DEF TypeOK, Restores
    <3>2. gameID' \in Nat /\ turn' \in Nat /\ snaps' \in Seq(Nat) /\ isReconnect' = TRUE
      BY <1>3, <2>1, <3>1 DEF GameEntityTags, RestoreFromReconnect, Record
    <3> QED
      BY <1>3, <2>1, <3>2 DEF GameEntityTags, TypeOK, phaseVars
  <2>2. CASE ~Restores(resume, geTurn)
    BY <1>3, <2>2 DEF GameEntityTags, TypeOK, phaseVars
  <2> QED
    BY <2>1, <2>2
<1>4. CASE PlayerDef
  <2>1. geTurn \in Nat /\ anchor' \in Nat
    BY <1>4 DEF PlayerDef, TypeOK, AnchorAfter
  <2>2. snaps' \in Seq(Nat) /\ turn' \in Nat /\ mPhase' \in Phases /\ seen' \subseteq Nat
    BY <1>4, <2>1, BGTurnType, SnapshotsType DEF PlayerDef, SetTurn, TypeOK, Phases
  <2> QED
    BY <1>4, <2>1, <2>2, ZenonT(40) DEF PlayerDef, TypeOK, phaseVars, procVars
<1>5. CASE TurnStart
  <2>1. /\ bPhase' \in Phases \ {"LOBBY"} /\ dPhase' \in Phases \ {"LOBBY"}
        /\ mPhase' \in Phases
    BY <1>5, PhaseOfType DEF TurnStart, SetGameEntityTurn, Phases
  <2>2. geTurn' \in Nat /\ owed' \in BOOLEAN /\ anchor' \in Nat
    BY <1>5 DEF TurnStart, TypeOK, AnchorAfter
  <2> QED
    BY <1>5, <2>1, <2>2 DEF TurnStart, TypeOK, procVars
<1>6. CASE PlayerTurn
  <2>1. snaps' \in Seq(Nat) /\ turn' \in Nat /\ mPhase' \in Phases /\ seen' \subseteq Nat
    BY <1>6, BGTurnType, SnapshotsType DEF PlayerTurn, SetTurn, TypeOK, Phases
  <2>2. /\ winStreak' \in Nat /\ lossStreak' \in Nat /\ trueWins' \in Nat
        /\ trueLosses' \in Nat
    BY <1>6, StreakType DEF PlayerTurn, RecordRound, RoundToRecord, TypeOK
  <2>3. result' \in {-1, 0, 1} /\ outcome' \in {-1, 0, 1} /\ turnsStarted' \in Nat
    BY <1>6 DEF PlayerTurn, TypeOK
  <2> QED
    BY <1>6, <2>1, <2>2, <2>3, Zenon DEF PlayerTurn, TypeOK, phaseVars
<1>7. CASE GameComplete
  <2>1. /\ winStreak' \in Nat /\ lossStreak' \in Nat /\ trueWins' \in Nat
        /\ trueLosses' \in Nat
    BY <1>7, StreakType DEF GameComplete, RecordRound, TypeOK
  <2>2. /\ mPhase' \in Phases /\ snaps' \in Seq(Nat)
        /\ placement' \in Places \cup {0} /\ closedAt' \subseteq Nat
    BY <1>7, SnapshotsType DEF GameComplete, GameEnd, TypeOK, Phases
  <2> QED
    BY <1>7, <2>1, <2>2 DEF GameComplete, TypeOK, Phases
<1>8. ASSUME NEW r \in {-1, 1}, HeroAttack(r)
      PROVE  TypeOK'
  BY <1>8 DEF HeroAttack, TypeOK, gameVars, phaseVars, machineVars
<1>9. ASSUME NEW place \in Places, PlacementChanged(place)
      PROVE  TypeOK'
  BY <1>9 DEF PlacementChanged, TypeOK, gameVars, phaseVars, machineVars
<1>10. CASE Disconnect
  BY <1>10 DEF Disconnect, TypeOK, phaseVars, machineVars, procVars
<1>11. CASE MissTurn \/ Abandon
  <2>1. geTurn' \in Nat
    BY <1>11 DEF MissTurn, Abandon, TypeOK
  <2> QED
    BY <1>11, <2>1, Zenon
       DEF MissTurn, Abandon, TypeOK, phaseVars, machineVars, procVars, ghostVars
<1>12. CASE Timeout
  <2>1. /\ mPhase' \in Phases /\ placement' \in Places \cup {0}
        /\ faults' \subseteq {"forced", "torn"} /\ snaps' \in Seq(Nat)
        /\ turned' \in BOOLEAN /\ closedAt' \subseteq Nat
    BY <1>12, SnapshotsType, Zenon DEF Timeout, GameEnd, TypeOK, Phases
  <2>2. UNCHANGED <<gameVars, phaseVars, gameID, turn, winStreak, lossStreak, procVars,
                    anchor, seen, outcome, trueWins, trueLosses, announced>>
    BY <1>12 DEF Timeout
  <2> QED
    BY <2>1, <2>2 DEF TypeOK, gameVars, phaseVars, procVars
<1>13. CASE UNCHANGED vars
  BY <1>13 DEF TypeOK, vars, gameVars, phaseVars, machineVars, procVars, ghostVars
<1> QED
  BY <1>1, <1>2, <1>3, <1>4, <1>5, <1>6, <1>7, <1>8, <1>9, <1>10, <1>11, <1>12,
     <1>13 DEF Next, Log, CreateGame

\* The daemon starts with every variable in its type.
LEMMA TypeInit == Init => TypeOK
<1> SUFFICES ASSUME Init PROVE TypeOK
  OBVIOUS
<1>1. /\ creates \in Nat /\ game \in Nat /\ geTurn \in Nat
      /\ block \in {"off", "created", "tags", "play"}
      /\ bPhase \in Phases \ {"LOBBY"} /\ dPhase \in Phases \ {"LOBBY"}
      /\ mPhase \in Phases /\ gameID \in Nat /\ turn \in Nat /\ snaps \in Seq(Nat)
      /\ placement \in Places \cup {0} /\ winStreak \in Nat /\ lossStreak \in Nat
  BY DEF Init, Phases
<1>2. /\ stash \in Record \cup {NoStash} /\ result \in {-1, 0, 1}
      /\ turnsStarted \in Nat /\ pendingPlacement \in Places \cup {0}
      /\ anchor \in Nat /\ seen \subseteq Nat /\ closedAt \subseteq Nat
      /\ faults \subseteq {"forced", "torn"}
      /\ outcome \in {-1, 0, 1} /\ trueWins \in Nat /\ trueLosses \in Nat
      /\ announced \in Places \cup {0}
  BY DEF Init
<1> QED
  BY <1>1, <1>2, Zenon DEF Init, TypeOK

\* Every variable keeps its type: the Machine's phase is one of the five, the
\* streaks never fall below zero, the stash is nil or a whole record.
THEOREM TypeCorrect == Spec => []TypeOK
  BY TypeInit, TypeStep, PTL DEF Spec, Safe

-----------------------------------------------------------------------------
(* The phases *)

\* The builder and the dispatcher are always in the same phase: the dispatcher
\* takes each change from the action the builder made of the same event.
THEOREM PhasesAgreeHolds == Spec => []PhasesAgree
<1>1. Init => PhasesAgree
  BY DEF Init, PhasesAgree
<1>2. PhasesAgree /\ [Next]_vars => PhasesAgree'
  <2> SUFFICES ASSUME PhasesAgree, [Next]_vars PROVE PhasesAgree'
    OBVIOUS
  <2>1. CASE CreateGame
    BY <2>1 DEF CreateGame, NewGame, Reconnect, OnGameStart, BuilderAfterCreate,
                DispatcherAfterCreate, PhasesAgree
  <2>2. CASE TurnStart \/ GameComplete
    BY <2>2 DEF TurnStart, GameComplete, PhasesAgree
  <2>3. CASE UNCHANGED phaseVars
    BY <2>3 DEF phaseVars, PhasesAgree
  <2>4. [Next]_vars => CreateGame \/ TurnStart \/ GameComplete \/ UNCHANGED phaseVars
    BY DEF Next, Log, GameEntityTags, PlayerDef, PlayerTurn, HeroAttack,
           PlacementChanged, Disconnect, MissTurn, Abandon, Timeout, vars
  <2> QED
    BY <2>1, <2>2, <2>3, <2>4
<1> QED
  BY <1>1, <1>2, PTL DEF Spec, Safe

-----------------------------------------------------------------------------
(* The identity of a game *)

\* The record is never older than the game, and neither is a stash that a
\* reconnect may restore.
GameOrder ==
  /\ game <= creates /\ gameID >= game
  /\ resume /\ stash # NoStash => stash.gameID >= game

\* A step keeps GameOrder: only a first CREATE_GAME opens a game, and it begins a
\* record; a CREATE_GAME that returns to it stashes the record it finds.
LEMMA GameOrderStep == TypeOK /\ GameOrder /\ [Next]_vars => GameOrder'
<1> SUFFICES ASSUME TypeOK, GameOrder, [Next]_vars PROVE GameOrder'
  OBVIOUS
<1> USE DEF TypeOK, GameOrder
<1>1. CASE NewGame
  BY <1>1 DEF NewGame, OnGameStart, GameStart
<1>2. CASE Reconnect
  <2>1. stash' = StashOf(mPhase) /\ gameID' = creates + 1 /\ game' = game
    BY <1>2 DEF Reconnect, OnGameStart, GameStart
  <2>2. StashOf(mPhase) # NoStash => StashOf(mPhase).gameID = gameID
    BY DEF StashOf
  <2> QED
    BY <1>2, <2>1, <2>2 DEF Reconnect
<1>3. CASE GameEntityTags
  BY <1>3 DEF GameEntityTags, Restores, RestoreFromReconnect
<1>4. CASE UNCHANGED <<creates, game, gameID, resume, stash>>
  BY <1>4
<1>5. [Next]_vars => \/ NewGame \/ Reconnect \/ GameEntityTags
                     \/ UNCHANGED <<creates, game, gameID, resume, stash>>
  BY DEF Next, Log, CreateGame, PlayerDef, TurnStart, PlayerTurn, GameComplete,
         HeroAttack, PlacementChanged, Disconnect, MissTurn, Abandon, Timeout, vars,
         gameVars, machineVars, procVars
<1> QED
  BY <1>1, <1>2, <1>3, <1>4, <1>5

\* No record of an earlier game is ever restored into the present one.
THEOREM RestoreSameGameHolds == Spec => RestoreSameGame
<1>1. Init => TypeOK /\ GameOrder
  <2>1. Init => GameOrder
    BY DEF Init, GameOrder
  <2>2. Init => TypeOK
    BY TypeInit
  <2> QED
    BY <2>1, <2>2
<1>2. TypeOK /\ GameOrder /\ [Next]_vars => (TypeOK /\ GameOrder)'
  BY TypeStep, GameOrderStep
<1>3. TypeOK /\ GameOrder /\ [Next]_vars
        => [GameEntityTags /\ isReconnect' => gameID' >= game]_vars
  BY DEF TypeOK, GameOrder, GameEntityTags, Restores, RestoreFromReconnect
<1> QED
  BY <1>1, <1>2, <1>3, PTL DEF Spec, Safe, RestoreSameGame

\* Why a game keeps its ID.  Until a forced end or a torn block, the record of a
\* live game is in progress, so a reconnect stashes it; from the game's first
\* combat on the ID is the anchor, in the record or, inside the CREATE_GAME
\* block, in the stash that the block is about to restore.  By then the record
\* has a turn, so that a block that loses it counts as torn.
IdentityInv ==
  /\ block = "play" /\ geTurn > 0 /\ ~owed => turn > 0
  /\ faults = {} =>
       /\ live => Running(mPhase)
       /\ anchor # 0 =>
            /\ geTurn > 1
            /\ block # "created" => gameID = anchor /\ turn > 0
            /\ block = "created" => /\ resume /\ stash # NoStash
                                    /\ stash.gameID = anchor /\ stash.turn > 0

\* A step keeps IdentityInv.
LEMMA IdentityStep == TypeOK /\ IdentityInv /\ [Next]_vars => IdentityInv'
<1> SUFFICES ASSUME TypeOK, IdentityInv, [Next]_vars PROVE IdentityInv'
  OBVIOUS
<1> USE DEF TypeOK, IdentityInv, Running
<1>1. CASE NewGame
  BY <1>1 DEF NewGame, OnGameStart, GameStart
<1>2. CASE Reconnect
  <2>1. /\ stash' = StashOf(mPhase) /\ mPhase' = "LOBBY" /\ block' = "created"
        /\ live /\ block = "off" /\ resume'
        /\ UNCHANGED <<geTurn, anchor, faults, live>>
    BY <1>2 DEF Reconnect, OnGameStart, GameStart
  <2>2. Running(mPhase) => /\ StashOf(mPhase) \in Record
                           /\ StashOf(mPhase).gameID = gameID /\ StashOf(mPhase).turn = turn
    BY DEF StashOf, Record
  <2>3. ASSUME faults' = {}, anchor' # 0
        PROVE  stash' # NoStash /\ stash'.gameID = anchor' /\ stash'.turn > 0 /\ geTurn' > 1
    BY <2>1, <2>2, <2>3, NoStashAssumption
  <2> QED
    BY <2>1, <2>3
<1>3. CASE GameEntityTags
  BY <1>3 DEF GameEntityTags, Restores, RestoreFromReconnect
<1>4. CASE PlayerDef
  <2>1. geTurn > 0 => BGTurn(geTurn) > 0
    BY BGTurnType
  <2> QED
    BY <1>4, <2>1 DEF PlayerDef, SetTurn, AnchorAfter
<1>5. CASE TurnStart
  <2>1. /\ block = "play" /\ ~owed /\ geTurn' = geTurn + 1 /\ owed' = (geTurn' % 2 = 1)
        /\ mPhase' \in {"RECRUIT", "COMBAT"} /\ anchor' = AnchorAfter(geTurn')
        /\ UNCHANGED <<block, live, turn, gameID, faults, stash, resume>>
    BY <1>5, PhaseOfType DEF TurnStart, SetGameEntityTurn, InPlay, procVars
  <2>2. geTurn = 0 => owed'
    <3>1. geTurn = 0 => (geTurn + 1) % 2 = 1
      OBVIOUS
    <3> QED
      BY <2>1, <3>1, Zenon
  <2>3. geTurn > 0 => turn' > 0
    BY <2>1
  <2> QED
    BY <2>1, <2>2, <2>3 DEF AnchorAfter
<1>6. CASE PlayerTurn
  <2>1. geTurn > 0 => BGTurn(geTurn) > 0
    BY BGTurnType
  <2> QED
    BY <1>6, <2>1 DEF PlayerTurn, SetTurn, InPlay
<1>7. CASE GameComplete
  BY <1>7 DEF GameComplete, InPlay
<1>8. CASE Disconnect
  <2>1. /\ block' = "off" /\ faults' = IF TearsRecord THEN faults \cup {"torn"} ELSE faults
        /\ UNCHANGED <<geTurn, live, mPhase, gameID, turn, anchor>>
    BY <1>8 DEF Disconnect, machineVars
  <2>2. ASSUME faults' = {} PROVE faults = {} /\ ~TearsRecord
    BY <2>1, <2>2
  <2>3. ASSUME faults' = {}, anchor # 0 PROVE block # "created"
    BY <2>2, <2>3 DEF TearsRecord
  <2> QED
    BY <2>1, <2>2, <2>3
<1>9. CASE MissTurn \/ Abandon
  BY <1>9 DEF MissTurn, Abandon, machineVars, procVars, ghostVars
<1>10. CASE Timeout
  BY <1>10 DEF Timeout, gameVars
<1>11. CASE UNCHANGED <<geTurn, live, owed, block, resume, mPhase, gameID, turn, stash, anchor,
                        faults>>
  BY <1>11
<1>12. ASSUME NEW r, HeroAttack(r) \/ PlacementChanged(r)
       PROVE  UNCHANGED <<geTurn, live, owed, block, resume, mPhase, gameID, turn, stash, anchor,
                          faults>>
  BY <1>12 DEF HeroAttack, PlacementChanged, gameVars, machineVars
<1>13. CASE UNCHANGED vars
  BY <1>13, <1>11 DEF vars, gameVars, machineVars, procVars, ghostVars
<1> QED
  BY <1>1, <1>2, <1>3, <1>4, <1>5, <1>6, <1>7, <1>8, <1>9, <1>10, <1>11, <1>12, <1>13
     DEF Next, Log, CreateGame

\* A game keeps the ID of its first combat over every reconnect, whole or cut off,
\* but for two cases: a log silent for three minutes, and the block of a reconnect
\* cut off before its tags while the record of a turn was put aside.
THEOREM GameIdentityHolds == Spec => []GameIdentity
<1>1. Init => TypeOK /\ IdentityInv
  <2>1. Init => IdentityInv
    BY DEF Init, IdentityInv
  <2> QED
    BY <2>1, TypeInit
<1>2. TypeOK /\ IdentityInv /\ [Next]_vars => (TypeOK /\ IdentityInv)'
  BY TypeStep, IdentityStep
<1>3. IdentityInv => GameIdentity
  BY DEF IdentityInv, GameIdentity
<1> QED
  BY <1>1, <1>2, <1>3, PTL DEF Spec, Safe

-----------------------------------------------------------------------------
(* The turn snapshots *)

\* BG turns grow with the GameEntity's.
LEMMA BGTurnGrows == \A t \in Nat : BGTurn(t) <= BGTurn(t + 1)
  BY SMT DEF BGTurn

\* The turns of s in their order; only one of those in C may come again.
Ordered(s, C) ==
  \A i, j \in DOMAIN s : i < j => s[i] < s[j] \/ (s[i] = s[j] /\ s[i] \in C)

\* Appending a turn above all the others, or one of C that none is above, keeps them
\* in order.
LEMMA AppendOrdered ==
  ASSUME NEW C, NEW s \in Seq(Nat), Ordered(s, C), NEW t \in Nat,
         \A x \in ToSet(s) : x < t \/ (x = t /\ t \in C)
  PROVE  Ordered(Append(s, t), C) /\ ToSet(Append(s, t)) = ToSet(s) \cup {t}
<1>1. \A i \in DOMAIN s : s[i] \in Nat /\ (s[i] < t \/ (s[i] = t /\ t \in C))
  BY DEF ToSet
<1>2. /\ DOMAIN Append(s, t) = DOMAIN s \cup {Len(s) + 1}
      /\ \A i \in DOMAIN s : Append(s, t)[i] = s[i] /\ i < Len(s) + 1
      /\ Append(s, t)[Len(s) + 1] = t
  OBVIOUS
<1>3. Ordered(Append(s, t), C)
  BY <1>1, <1>2 DEF Ordered
<1>4. ToSet(Append(s, t)) = ToSet(s) \cup {t}
  BY <1>2 DEF ToSet
<1> QED
  BY <1>3, <1>4

\* The snapshots s of a record in turn t, when S was announced and the record was
\* ended in the turns of C.
Tells(s, t, S, C) ==
  /\ Ordered(s, C)
  /\ ToSet(s) = S \ ({t} \ C)
  /\ S \subseteq 1..t /\ C \subseteq 0..t
  /\ t > 0 => t \in S

\* No snapshot is of a turn after the one in progress, which has its own only if the
\* record was ended in it.
LEMMA TellsBefore ==
  ASSUME NEW s, NEW t \in Nat, NEW S, NEW C, Tells(s, t, S, C)
  PROVE  /\ \A x \in ToSet(s) : x \in Nat /\ (x < t \/ (x = t /\ t \in C))
         /\ t > 0 => ToSet(s) \cup {t} = S
         /\ t = 0 => ToSet(s) = {} /\ S = {}
<1>1. ToSet(s) = S \ ({t} \ C) /\ S \subseteq 1..t /\ (t > 0 => t \in S)
  BY DEF Tells
<1>2. \A x \in ToSet(s) : x \in Nat /\ (x < t \/ (x = t /\ t \in C))
  <2> TAKE x \in ToSet(s)
  <2>1. x \in 1..t /\ (x = t => t \in C)
    BY <1>1
  <2> QED
    BY <2>1
<1>3. t > 0 => ToSet(s) \cup {t} = S
  BY <1>1
<1>4. t = 0 => ToSet(s) = {} /\ S = {}
  <2>1. t = 0 => 1..t = {}
    OBVIOUS
  <2> QED
    BY <1>1, <2>1
<1> QED
  BY <1>2, <1>3, <1>4

\* A record that has seen no turn tells none.
LEMMA EmptyTells == \A C : C \subseteq {0} => Tells(<<>>, 0, {}, C)
  BY DEF Tells, Ordered, ToSet

\* SetTurn to a later turn takes the snapshot of the turn it leaves; to the same
\* turn, as a reconnect may announce it, none.
LEMMA SetTurnTells ==
  ASSUME TypeOK, Tells(snaps, turn, seen, closedAt), NEW t \in Nat, t > 0, turn <= t
  PROVE  Tells(SnapshotsBefore(t), t, seen \cup {t}, closedAt)
<1>1. turn \in Nat /\ snaps \in Seq(Nat)
  BY DEF TypeOK
<1>2. seen \cup {t} \subseteq 1..t /\ closedAt \subseteq 0..t
  BY <1>1 DEF Tells
<1>3. CASE turn = t
  <2>1. SnapshotsBefore(t) = snaps /\ seen \cup {t} = seen
    BY <1>1, <1>3 DEF SnapshotsBefore, Tells
  <2> QED
    BY <1>3, <2>1
<1>4. CASE turn < t
  <2>1. t \notin seen /\ t \notin closedAt
    BY <1>1, <1>4 DEF Tells
  <2>2. seen = (seen \cup {t}) \ ({t} \ closedAt)
    BY <2>1
  <2>3. CASE turn = 0
    <3>1. SnapshotsBefore(t) = snaps /\ Ordered(snaps, closedAt) /\ ToSet(snaps) = seen
      BY <1>1, <2>3, TellsBefore DEF SnapshotsBefore, Tells
    <3> QED
      BY <1>2, <2>2, <3>1 DEF Tells
  <2>4. CASE turn > 0
    <3>1. /\ Ordered(snaps, closedAt) /\ ToSet(snaps) \cup {turn} = seen
          /\ \A x \in ToSet(snaps) : x < turn \/ (x = turn /\ turn \in closedAt)
      BY <1>1, <2>4, TellsBefore DEF Tells
    <3>2. Ordered(Append(snaps, turn), closedAt)
      BY <1>1, <3>1, AppendOrdered
    <3>3. ToSet(Append(snaps, turn)) = ToSet(snaps) \cup {turn}
      BY <1>1, <3>1, AppendOrdered
    <3>4. SnapshotsBefore(t) = Append(snaps, turn)
      BY <1>4, <2>4 DEF SnapshotsBefore
    <3>5. ToSet(SnapshotsBefore(t)) = (seen \cup {t}) \ ({t} \ closedAt)
      BY <2>2, <3>1, <3>3, <3>4, Zenon
    <3> QED
      BY <1>2, <3>2, <3>4, <3>5 DEF Tells
  <2> QED
    BY <1>1, <2>3, <2>4
<1> QED
  BY <1>1, <1>3, <1>4

\* The turn 0 of a record that has begun no turn has no snapshot, ended or not.
LEMMA ZeroTells ==
  ASSUME NEW s, NEW t \in Nat, NEW S, NEW C, Tells(s, t, S, C)
  PROVE  Tells(s, t, S, C \cup {0})
<1>1. Ordered(s, C \cup {0})
  BY DEF Tells, Ordered
<1>2. 0 \notin S /\ C \cup {0} \subseteq 0..t
  BY DEF Tells
<1>3. S \ ({t} \ C) = S \ ({t} \ (C \cup {0}))
  BY <1>2
<1> QED
  BY <1>1, <1>2, <1>3 DEF Tells

\* GameEnd takes the snapshot of the last turn, and then every turn has its own.
LEMMA GameEndTells ==
  ASSUME TypeOK, Tells(snaps, turn, seen, closedAt)
  PROVE  Tells(FinalSnapshots, turn, seen, closedAt \cup {turn})
<1>1. turn \in Nat /\ snaps \in Seq(Nat)
  BY DEF TypeOK
<1>2. CASE turn = 0
  <2>1. FinalSnapshots = snaps
    BY <1>2 DEF FinalSnapshots
  <2> QED
    BY <1>1, <1>2, <2>1, ZeroTells
<1>3. CASE turn > 0
  <2>1. Ordered(snaps, closedAt \cup {turn})
    BY DEF Tells, Ordered
  <2>2. \A x \in ToSet(snaps) : x < turn \/ (x = turn /\ turn \in closedAt \cup {turn})
    BY <1>1, TellsBefore
  <2>3. FinalSnapshots = Append(snaps, turn)
    BY <1>3 DEF FinalSnapshots
  <2>4. /\ Ordered(FinalSnapshots, closedAt \cup {turn})
        /\ ToSet(FinalSnapshots) = ToSet(snaps) \cup {turn}
    BY <1>1, <2>1, <2>2, <2>3, AppendOrdered
  <2>5. ToSet(snaps) \cup {turn} = seen
    BY <1>1, <1>3, TellsBefore
  <2>6. seen = seen \ ({turn} \ (closedAt \cup {turn}))
    OBVIOUS
  <2>7. seen \subseteq 1..turn /\ closedAt \cup {turn} \subseteq 0..turn /\ turn \in seen
    BY <1>1, <1>3 DEF Tells
  <2> QED
    BY <2>4, <2>5, <2>6, <2>7 DEF Tells
<1> QED
  BY <1>1, <1>2, <1>3

\* Why the snapshots match.  Outside the CREATE_GAME block the record tells the
\* turns; inside it the record is empty and the stash tells them, unless there is
\* none to restore.
SnapshotsInv ==
  "torn" \notin faults =>
    /\ block # "off" => live
    /\ owed => geTurn > 0
    /\ block = "created" =>
         /\ turn = 0 /\ snaps = <<>>
         /\ IF resume /\ stash # NoStash
            THEN Tells(stash.snaps, stash.turn, seen, closedAt) /\ stash.turn <= BGTurn(geTurn)
            ELSE seen = {} /\ closedAt \subseteq {0}
    /\ block # "created" => Tells(snaps, turn, seen, closedAt) /\ turn <= BGTurn(geTurn)

\* The steps that leave the record, the stash and the place in the log alone.
Elsewhere ==
  UNCHANGED <<block, live, geTurn, owed, resume, turn, snaps, stash, seen, closedAt, faults>>

\* A step keeps SnapshotsInv.
LEMMA SnapshotsStep == TypeOK /\ SnapshotsInv /\ [Next]_vars => SnapshotsInv'
<1> SUFFICES ASSUME TypeOK, SnapshotsInv, [Next]_vars, "torn" \notin faults'
             PROVE  SnapshotsInv'
  BY DEF SnapshotsInv
<1>0. /\ turn \in Nat /\ geTurn \in Nat /\ snaps \in Seq(Nat)
      /\ stash # NoStash => stash \in Record /\ stash.turn \in Nat
      /\ BGTurn(geTurn) \in Nat /\ BGTurn(geTurn) <= BGTurn(geTurn + 1)
      /\ BGTurn(geTurn + 1) \in Nat
  <2>1. /\ turn \in Nat /\ geTurn \in Nat /\ snaps \in Seq(Nat)
        /\ stash # NoStash => stash \in Record
    BY DEF TypeOK
  <2>2. stash # NoStash => stash.turn \in Nat
    BY <2>1 DEF Record
  <2>3. geTurn + 1 \in Nat
    BY <2>1
  <2> QED
    BY <2>1, <2>2, <2>3, BGTurnType, BGTurnGrows
<1>1. CASE NewGame
  <2>1. /\ block' = "created" /\ live' /\ ~owed' /\ ~resume' /\ turn' = 0 /\ snaps' = <<>>
        /\ seen' = {} /\ closedAt' = {}
    BY <1>1 DEF NewGame, OnGameStart, GameStart
  <2> QED
    BY <2>1 DEF SnapshotsInv
<1>2. CASE Reconnect
  <2>1. /\ live /\ block = "off" /\ "torn" \notin faults /\ resume'
        /\ block' = "created" /\ turn' = 0 /\ snaps' = <<>>
        /\ stash' = StashOf(mPhase) /\ UNCHANGED <<live, geTurn, owed>>
        /\ IF Running(mPhase) THEN UNCHANGED <<seen, closedAt>>
                              ELSE seen' = {} /\ closedAt' = {}
    BY <1>2 DEF Reconnect, OnGameStart, GameStart
  <2>2. Tells(snaps, turn, seen, closedAt) /\ turn <= BGTurn(geTurn) /\ (owed => geTurn > 0)
    BY <2>1 DEF SnapshotsInv
  <2>3. CASE Running(mPhase)
    <3>1. /\ StashOf(mPhase) \in Record
          /\ StashOf(mPhase).snaps = snaps /\ StashOf(mPhase).turn = turn
      BY <2>3 DEF StashOf, Record, TypeOK
    <3>2. stash' # NoStash
      BY <2>1, <3>1, NoStashAssumption
    <3> QED
      BY <2>1, <2>2, <2>3, <3>1, <3>2 DEF SnapshotsInv
  <2>4. CASE ~Running(mPhase)
    <3>1. stash' = NoStash
      BY <2>1, <2>4 DEF StashOf
    <3> QED
      BY <2>1, <2>2, <2>4, <3>1 DEF SnapshotsInv
  <2> QED
    BY <2>3, <2>4
<1>3. CASE GameEntityTags
  <2>1. /\ block = "created" /\ block' = "tags" /\ "torn" \notin faults
        /\ UNCHANGED <<live, geTurn, owed>>
        /\ turn = 0 /\ snaps = <<>> /\ live /\ (owed => geTurn > 0)
    BY <1>3 DEF GameEntityTags, SnapshotsInv
  <2>2. CASE Restores(resume, geTurn)
    BY <1>3, <2>1, <2>2 DEF GameEntityTags, RestoreFromReconnect, Restores, SnapshotsInv
  <2>3. CASE ~Restores(resume, geTurn)
    <3>1. turn' = 0 /\ snaps' = <<>> /\ seen' = {} /\ closedAt' = {}
      BY <1>3, <2>1, <2>3 DEF GameEntityTags
    <3>2. Tells(snaps', turn', seen', closedAt') /\ turn' <= BGTurn(geTurn')
      BY <1>0, <2>1, <3>1, EmptyTells
    <3> QED
      BY <2>1, <3>2 DEF SnapshotsInv
  <2> QED
    BY <2>2, <2>3
<1>4. CASE PlayerDef
  <2>1. /\ block = "tags" /\ block' = "play" /\ "torn" \notin faults /\ ~owed'
        /\ UNCHANGED <<live, geTurn, closedAt>>
    BY <1>4 DEF PlayerDef
  <2>2. Tells(snaps, turn, seen, closedAt) /\ turn <= BGTurn(geTurn) /\ live
    BY <2>1 DEF SnapshotsInv
  <2>3. CASE BGTurn(geTurn) > 0
    <3>1. /\ snaps' = SnapshotsBefore(BGTurn(geTurn)) /\ turn' = BGTurn(geTurn)
          /\ seen' = seen \cup {BGTurn(geTurn)}
      BY <1>4, <2>3 DEF PlayerDef, SetTurn
    <3>2. Tells(snaps', turn', seen', closedAt')
      BY <1>0, <2>1, <2>2, <2>3, <3>1, SetTurnTells
    <3> QED
      BY <1>0, <2>1, <2>2, <3>1, <3>2 DEF SnapshotsInv
  <2>4. CASE ~(BGTurn(geTurn) > 0)
    BY <1>4, <2>1, <2>2, <2>4 DEF PlayerDef, SnapshotsInv
  <2> QED
    BY <2>3, <2>4
<1>5. CASE TurnStart
  <2>1. /\ live /\ block = "play" /\ "torn" \notin faults
        /\ geTurn' = geTurn + 1 /\ UNCHANGED <<live, block, turn, snaps, seen, closedAt>>
    BY <1>5 DEF TurnStart, InPlay
  <2>2. Tells(snaps, turn, seen, closedAt) /\ turn <= BGTurn(geTurn)
    BY <2>1 DEF SnapshotsInv
  <2>3. turn' <= BGTurn(geTurn') /\ geTurn' > 0
    BY <1>0, <2>1, <2>2
  <2> QED
    BY <2>1, <2>2, <2>3 DEF SnapshotsInv
<1>6. CASE PlayerTurn
  <2>1. /\ live /\ block = "play" /\ "torn" \notin faults /\ owed /\ ~owed'
        /\ snaps' = SnapshotsBefore(BGTurn(geTurn)) /\ turn' = BGTurn(geTurn)
        /\ seen' = seen \cup {BGTurn(geTurn)}
        /\ UNCHANGED <<live, block, geTurn, closedAt>>
    BY <1>6 DEF PlayerTurn, InPlay, SetTurn
  <2>2. Tells(snaps, turn, seen, closedAt) /\ turn <= BGTurn(geTurn) /\ geTurn > 0
    BY <2>1 DEF SnapshotsInv
  <2>3. BGTurn(geTurn) > 0
    BY <1>0, <2>2, BGTurnType
  <2>4. Tells(snaps', turn', seen', closedAt')
    BY <1>0, <2>1, <2>2, <2>3, SetTurnTells
  <2> QED
    BY <1>0, <2>1, <2>4 DEF SnapshotsInv
<1>7. CASE GameComplete
  <2>1. /\ block = "play" /\ "torn" \notin faults /\ block' = "off" /\ ~owed'
        /\ snaps' = FinalSnapshots /\ closedAt' = closedAt \cup {turn}
        /\ UNCHANGED <<seen, turn, geTurn>>
    BY <1>7 DEF GameComplete, GameEnd, InPlay
  <2>2. Tells(snaps, turn, seen, closedAt) /\ turn <= BGTurn(geTurn)
    BY <2>1 DEF SnapshotsInv
  <2>3. Tells(snaps', turn', seen', closedAt')
    BY <2>1, <2>2, GameEndTells
  <2> QED
    BY <2>1, <2>2, <2>3 DEF SnapshotsInv
<1>8. CASE Disconnect
  <2>1. /\ block' = "off" /\ "torn" \notin faults /\ ~TearsRecord /\ live
        /\ UNCHANGED <<live, geTurn, owed, turn, snaps, seen, closedAt>>
    BY <1>8 DEF Disconnect, machineVars
  <2>2. CASE block = "created"
    <3>1. turn = 0 /\ snaps = <<>> /\ (owed => geTurn > 0)
      BY <2>1, <2>2 DEF SnapshotsInv
    <3>2. seen = {} /\ closedAt \subseteq {0}
      <4>1. CASE resume /\ stash # NoStash
        <5>1. stash.turn = 0 /\ Tells(stash.snaps, 0, seen, closedAt)
          BY <1>0, <2>1, <2>2, <4>1 DEF TearsRecord, SnapshotsInv
        <5> QED
          BY <5>1, TellsBefore DEF Tells
      <4>2. CASE ~(resume /\ stash # NoStash)
        BY <2>1, <2>2, <4>2 DEF SnapshotsInv
      <4> QED
        BY <4>1, <4>2
    <3>3. Tells(<<>>, 0, {}, closedAt)
      BY <3>2, EmptyTells
    <3> QED
      BY <1>0, <2>1, <3>1, <3>2, <3>3 DEF SnapshotsInv
  <2>3. CASE block # "created"
    BY <2>1, <2>3 DEF SnapshotsInv
  <2> QED
    BY <2>2, <2>3
<1>9. CASE MissTurn
  <2>1. /\ live /\ block = "off" /\ "torn" \notin faults /\ geTurn' = geTurn + 1
        /\ UNCHANGED <<live, block, turn, snaps, seen, closedAt>>
    BY <1>9 DEF MissTurn, machineVars, ghostVars
  <2>2. Tells(snaps, turn, seen, closedAt) /\ turn <= BGTurn(geTurn)
    BY <2>1 DEF SnapshotsInv
  <2>3. turn' <= BGTurn(geTurn') /\ geTurn' > 0
    BY <1>0, <2>1, <2>2
  <2> QED
    BY <2>1, <2>2, <2>3 DEF SnapshotsInv
<1>10. CASE Abandon
  BY <1>10 DEF Abandon, SnapshotsInv, machineVars, procVars, ghostVars
<1>11. CASE Timeout
  <2>1. /\ "torn" \notin faults /\ snaps' = FinalSnapshots /\ closedAt' = closedAt \cup {turn}
        /\ UNCHANGED <<block, live, geTurn, owed, resume, turn, stash, seen>>
    BY <1>11 DEF Timeout, GameEnd, gameVars, procVars
  <2>2. (block # "off" => live) /\ (owed => geTurn > 0)
    BY <2>1 DEF SnapshotsInv
  <2>3. CASE block # "created"
    <3>1. Tells(snaps, turn, seen, closedAt) /\ turn <= BGTurn(geTurn)
      BY <2>1, <2>3 DEF SnapshotsInv
    <3>2. Tells(snaps', turn', seen', closedAt')
      BY <2>1, <3>1, GameEndTells
    <3> QED
      BY <2>1, <2>2, <2>3, <3>1, <3>2 DEF SnapshotsInv
  <2>4. CASE block = "created"
    <3>1. turn = 0 /\ snaps = <<>>
      BY <2>1, <2>4 DEF SnapshotsInv
    <3>2. snaps' = <<>> /\ closedAt' = closedAt \cup {0}
      BY <2>1, <3>1 DEF FinalSnapshots
    <3>3. CASE resume /\ stash # NoStash
      <4>1. Tells(stash.snaps, stash.turn, seen, closedAt) /\ stash.turn <= BGTurn(geTurn)
        BY <2>1, <2>4, <3>3 DEF SnapshotsInv
      <4>2. Tells(stash.snaps, stash.turn, seen, closedAt \cup {0})
        BY <1>0, <3>3, <4>1, ZeroTells
      <4> QED
        BY <2>1, <2>2, <2>4, <3>1, <3>2, <3>3, <4>1, <4>2 DEF SnapshotsInv
    <3>4. CASE ~(resume /\ stash # NoStash)
      <4>1. seen = {} /\ closedAt \subseteq {0}
        BY <2>1, <2>4, <3>4 DEF SnapshotsInv
      <4> QED
        BY <2>1, <2>2, <2>4, <3>1, <3>2, <3>4, <4>1 DEF SnapshotsInv
    <3> QED
      BY <3>3, <3>4
  <2> QED
    BY <2>3, <2>4
<1>12. CASE Elsewhere
  BY <1>12 DEF Elsewhere, SnapshotsInv
<1>13. ASSUME NEW r, HeroAttack(r) \/ PlacementChanged(r)
       PROVE  Elsewhere
  BY <1>13 DEF HeroAttack, PlacementChanged, gameVars, machineVars, Elsewhere
<1>14. UNCHANGED vars => Elsewhere
  BY DEF vars, gameVars, machineVars, procVars, ghostVars, Elsewhere
<1> QED
  BY <1>1, <1>2, <1>3, <1>4, <1>5, <1>6, <1>7, <1>8, <1>9, <1>10, <1>11, <1>12, <1>13, <1>14
     DEF Next, Log, CreateGame

\* The snapshots of a game are those of the turns that were announced, in order,
\* over every reconnect, every turn missed in one and every forced end; a turn has
\* more than one only if the record was ended in it.  Excepted is a game whose
\* record was lost in the torn block of a reconnect.
THEOREM SnapshotsMatchTurnsHolds == Spec => []SnapshotsMatchTurns
<1>1. Init => TypeOK /\ SnapshotsInv
  <2>1. Init => SnapshotsInv
    <3>1. BGTurn(0) \in Nat /\ Tells(<<>>, 0, {}, {})
      BY BGTurnType, EmptyTells
    <3> QED
      BY <3>1 DEF Init, SnapshotsInv
  <2> QED
    BY <2>1, TypeInit
<1>2. TypeOK /\ SnapshotsInv /\ [Next]_vars => (TypeOK /\ SnapshotsInv)'
  BY TypeStep, SnapshotsStep
<1>3. SnapshotsInv => SnapshotsMatchTurns
  BY DEF SnapshotsInv, SnapshotsMatchTurns, Tells, Ordered
<1> QED
  BY <1>1, <1>2, <1>3, PTL DEF Spec, Safe

-----------------------------------------------------------------------------
(* Routing: what the tables of the routes say *)

\* The table h has the events of f and g, with their methods, those of f first.
Covers(h, f, g) ==
  /\ DOMAIN h = DOMAIN f \cup DOMAIN g
  /\ \A e \in DOMAIN f : h[e] = f[e]
  /\ \A e \in DOMAIN g : e \notin DOMAIN f => h[e] = g[e]

\* A table over another one.
LEMMA OverIs ==
  ASSUME NEW f, NEW g
  PROVE  Covers(Over(f, g), f, g)
  BY DEF Over, Covers

\* The events that are built in any phase, and the methods they reach.
UngatedEvents ==
  {"GAME_START", "TURN_START", "GAME_END", "GAME_ENTITY_TAGS", "PLAYER_DEF", "PLAYER_NAME",
   "PLAYER_TRIPLES", "RESOURCES", "PLAYER_TECH_LEVEL", "SPELLS_3809", "PLAYER_LEADERBOARD_PLACE",
   "TURN", "BACON_DUO_TEAMMATE_PLAYER_ID", "HERO_ENTITY", "BACON_DUO_PASSABLE", "CONTROLLER",
   "BACON_DUOS_PUNISH_LEAVERS", "BACON_CURRENT_COMBAT_PLAYER_ID"}

\* None of their methods is the one that looks at the phase again, nor a word of the routing's.
Reserved == {"OnPlayerTagChanged", "refused", "nil", "Drop"}

\* They are all ungated, and each admitted in every phase.
LEMMA UngatedIs ==
  /\ DOMAIN Ungated = UngatedEvents
  /\ \A e \in UngatedEvents : Ungated[e] \in TransitionActions /\ Ungated[e] \notin Reserved
<1> DEFINE S1 == {"GAME_START", "TURN_START", "GAME_END", "GAME_ENTITY_TAGS", "PLAYER_DEF",
                  "PLAYER_NAME"}
           S2 == {"PLAYER_TRIPLES", "RESOURCES", "PLAYER_TECH_LEVEL", "SPELLS_3809",
                  "PLAYER_LEADERBOARD_PLACE", "TURN"}
           S3 == {"BACON_DUO_TEAMMATE_PLAYER_ID", "HERO_ENTITY", "BACON_DUO_PASSABLE",
                  "CONTROLLER", "BACON_DUOS_PUNISH_LEAVERS", "BACON_CURRENT_COMBAT_PLAYER_ID"}
           r == Over(PlayerActions, DuosActions)
           all == Over(Ungated, Registered)
<1>1. DOMAIN LifecycleActions = S1 /\ \A e \in S1 : LifecycleActions[e] \notin Reserved
  BY DEF LifecycleActions, Reserved
<1>2. DOMAIN PlayerActions = S2 /\ \A e \in S2 : PlayerActions[e] \notin Reserved
  BY DEF PlayerActions, Reserved
<1>3. DOMAIN DuosActions = S3 /\ \A e \in S3 : DuosActions[e] \notin Reserved
  BY DEF DuosActions, Reserved
<1>4. UngatedEvents = S1 \cup S2 \cup S3
  BY DEF UngatedEvents
<1>5. /\ Covers(r, PlayerActions, DuosActions)
      /\ Covers(Ungated, LifecycleActions, r) /\ Covers(all, Ungated, Registered)
  BY OverIs DEF Ungated
<1> HIDE DEF S1, S2, S3, r, all
<1>6. DOMAIN r = S2 \cup S3 /\ \A e \in S2 \cup S3 : r[e] \notin Reserved
  BY <1>2, <1>3, <1>5 DEF Covers
<1>7. DOMAIN Ungated = S1 \cup (S2 \cup S3)
      /\ \A e \in S1 \cup (S2 \cup S3) : Ungated[e] \notin Reserved
  BY <1>1, <1>6, <1>5 DEF Covers
<1>8. \A e \in DOMAIN Ungated : e \in DOMAIN all /\ all[e] = Ungated[e]
  BY <1>5 DEF Covers
<1>9. \A e \in DOMAIN Ungated : Ungated[e] \in TransitionActions
  BY <1>8 DEF TransitionActions, all
<1> QED
  BY <1>4, <1>7, <1>9

\* The tags that are built in one phase alone, and those that are in no table of Handle's
\* but the one of these tags.
GatedEvents == BuffTags \cup {Refresh, Gold} \cup {"PROPOSED_ATTACKER", "PROPOSED_DEFENDER"}

LEMMA GatedApart ==
  /\ GatedEvents \cap UngatedEvents = {}
  /\ Refresh \notin BuffTags /\ Gold \notin BuffTags /\ Refresh # Gold
  /\ {"PROPOSED_ATTACKER", "PROPOSED_DEFENDER"} \cap (BuffTags \cup {Refresh, Gold}) = {}
  BY DEF GatedEvents, UngatedEvents, BuffTags, Refresh, Gold

\* The methods of the gated tags, phase by phase.
LEMMA GatedInIs ==
  /\ DOMAIN GatedIn["RECRUIT"] = BuffTags \cup {Refresh, Gold}
  /\ \A t \in BuffTags : GatedIn["RECRUIT"][t] = "OnPlayerTagChanged"
  /\ \A t \in {Refresh, Gold} : GatedIn["RECRUIT"][t] = "OnEconomyChanged"
  /\ DOMAIN GatedIn["COMBAT"] = {Gold, "PROPOSED_ATTACKER", "PROPOSED_DEFENDER"}
  /\ GatedIn["COMBAT"][Gold] = "OnCombatEconomyEffect"
  /\ GatedIn["COMBAT"]["PROPOSED_ATTACKER"] = "OnCombatAttacker"
  /\ GatedIn["COMBAT"]["PROPOSED_DEFENDER"] = "OnCombatDefender"
  /\ \A p \in Phases \ {"RECRUIT", "COMBAT"} : DOMAIN GatedIn[p] = {}
<1> DEFINE b == [t \in BuffTags |-> "OnPlayerTagChanged"]
           e == [t \in {Refresh, Gold} |-> "OnEconomyChanged"]
           g == [t \in {Gold} |-> "OnCombatEconomyEffect"]
<1>1. GatedIn["RECRUIT"] = Over(b, e) /\ GatedIn["COMBAT"] = Over(g, Attacks)
      /\ \A p \in Phases \ {"RECRUIT", "COMBAT"} : GatedIn[p] = <<>>
  BY DEF GatedIn, Phases
<1>2. DOMAIN <<>> = {}
  OBVIOUS
<1>3. /\ DOMAIN b = BuffTags /\ \A t \in BuffTags : b[t] = "OnPlayerTagChanged"
      /\ DOMAIN e = {Refresh, Gold} /\ \A t \in {Refresh, Gold} : e[t] = "OnEconomyChanged"
      /\ DOMAIN g = {Gold} /\ g[Gold] = "OnCombatEconomyEffect"
      /\ DOMAIN Attacks = {"PROPOSED_ATTACKER", "PROPOSED_DEFENDER"}
      /\ Attacks["PROPOSED_ATTACKER"] = "OnCombatAttacker"
      /\ Attacks["PROPOSED_DEFENDER"] = "OnCombatDefender"
  BY DEF Attacks
<1>4. Covers(Over(b, e), b, e) /\ Covers(Over(g, Attacks), g, Attacks)
  BY OverIs
<1> HIDE DEF b, e, g
<1>5. /\ DOMAIN Over(b, e) = BuffTags \cup {Refresh, Gold}
      /\ \A t \in BuffTags : Over(b, e)[t] = "OnPlayerTagChanged"
      /\ \A t \in {Refresh, Gold} : Over(b, e)[t] = "OnEconomyChanged"
  BY <1>3, <1>4, GatedApart DEF Covers
<1>6. /\ DOMAIN Over(g, Attacks) = {Gold, "PROPOSED_ATTACKER", "PROPOSED_DEFENDER"}
      /\ Over(g, Attacks)[Gold] = "OnCombatEconomyEffect"
      /\ Over(g, Attacks)["PROPOSED_ATTACKER"] = "OnCombatAttacker"
      /\ Over(g, Attacks)["PROPOSED_DEFENDER"] = "OnCombatDefender"
  BY <1>3, <1>4, GatedApart DEF Covers
<1> QED
  BY <1>1, <1>2, <1>5, <1>6

\* They are the gated ones.
LEMMA GatedAre == Gated = GatedEvents
<1>1. {"RECRUIT", "COMBAT"} \subseteq Phases
  BY DEF Phases
<1>2. \A p \in Phases : DOMAIN GatedIn[p] \subseteq GatedEvents
  BY GatedInIs DEF GatedEvents
<1>3. \A e \in GatedEvents : e \in DOMAIN GatedIn["RECRUIT"] \cup DOMAIN GatedIn["COMBAT"]
  BY GatedInIs DEF GatedEvents
<1> QED
  BY <1>1, <1>2, <1>3 DEF Gated

\* What the builder makes of an event in a phase.
LEMMA BuildIs ==
  ASSUME NEW p \in Phases
  PROVE  /\ \A e \in UngatedEvents : Build(e, p) = Ungated[e]
         /\ \A e \in GatedEvents :
              Build(e, p) = IF e \in DOMAIN GatedIn[p] THEN GatedIn[p][e] ELSE Drop
         /\ \A e : e \notin UngatedEvents \cup GatedEvents => Build(e, p) = Nil
<1>0. Covers(Built[p], Ungated, GatedIn[p])
  BY OverIs DEF Built
<1>1. /\ DOMAIN Built[p] = UngatedEvents \cup DOMAIN GatedIn[p]
      /\ \A e \in UngatedEvents : Built[p][e] = Ungated[e]
      /\ \A e \in DOMAIN GatedIn[p] : e \notin UngatedEvents => Built[p][e] = GatedIn[p][e]
  BY <1>0, UngatedIs DEF Covers
<1>2. DOMAIN GatedIn[p] \subseteq GatedEvents
  BY GatedAre DEF Gated
<1> QED
  BY <1>1, <1>2, GatedApart, GatedAre DEF Build

\* Handle takes a gated tag, of the builder's method in the phase it builds it in, and in a
\* combat no buff.
LEMMA GatedTagsAre ==
  ASSUME NEW p
  PROVE  /\ p # "COMBAT" => DOMAIN GatedTags(p) = GatedEvents
         /\ p = "COMBAT" => DOMAIN GatedTags(p) = GatedEvents \ BuffTags
         /\ p \in {"RECRUIT", "COMBAT"} =>
              \A e \in DOMAIN GatedIn[p] : GatedTags(p)[e] = GatedIn[p][e]
         /\ \A e \in DOMAIN GatedTags(p) : GatedTags(p)[e] # "refused"
<1> DEFINE c == [t \in {Gold} |-> "OnCombatEconomyEffect"]
           b == [t \in BuffTags |-> "OnPlayerTagChanged"]
           g == [t \in {Gold} |-> "OnEconomyChanged"]
           f == [t \in {Refresh} |-> "OnEconomyChanged"]
           bg == Over(b, g)
           fa == Over(f, Attacks)
<1>1. /\ Covers(bg, b, g) /\ Covers(fa, f, Attacks)
      /\ p = "COMBAT" => Covers(GatedTags(p), c, fa)
      /\ p # "COMBAT" => Covers(GatedTags(p), bg, fa)
  <2>1. p = "COMBAT" => GatedTags(p) = Over(c, fa)
    BY DEF GatedTags
  <2>2. p # "COMBAT" => GatedTags(p) = Over(bg, fa)
    BY DEF GatedTags
  <2> HIDE DEF bg, fa
  <2>3. Covers(Over(c, fa), c, fa) /\ Covers(Over(bg, fa), bg, fa)
    BY OverIs
  <2>4. Covers(bg, b, g) /\ Covers(fa, f, Attacks)
    BY OverIs DEF bg, fa
  <2> QED
    BY <2>1, <2>2, <2>3, <2>4
<1>2. /\ DOMAIN b = BuffTags /\ \A t \in BuffTags : b[t] = "OnPlayerTagChanged"
      /\ DOMAIN g = {Gold} /\ g[Gold] = "OnEconomyChanged"
      /\ DOMAIN c = {Gold} /\ c[Gold] = "OnCombatEconomyEffect"
      /\ DOMAIN f = {Refresh} /\ f[Refresh] = "OnEconomyChanged"
      /\ DOMAIN Attacks = {"PROPOSED_ATTACKER", "PROPOSED_DEFENDER"}
      /\ Attacks["PROPOSED_ATTACKER"] = "OnCombatAttacker"
      /\ Attacks["PROPOSED_DEFENDER"] = "OnCombatDefender"
  BY DEF Attacks
<1> HIDE DEF c, b, g, f, bg, fa
<1>3. /\ DOMAIN fa = {Refresh, "PROPOSED_ATTACKER", "PROPOSED_DEFENDER"}
      /\ fa[Refresh] = "OnEconomyChanged"
      /\ fa["PROPOSED_ATTACKER"] = "OnCombatAttacker"
      /\ fa["PROPOSED_DEFENDER"] = "OnCombatDefender"
  BY <1>1, <1>2, GatedApart DEF Covers
<1>4. /\ DOMAIN bg = BuffTags \cup {Gold} /\ bg[Gold] = "OnEconomyChanged"
      /\ \A t \in BuffTags : bg[t] = "OnPlayerTagChanged"
  BY <1>1, <1>2, GatedApart DEF Covers
<1>5. CASE p = "COMBAT"
  <2>1. /\ DOMAIN GatedTags(p) = {Gold, Refresh, "PROPOSED_ATTACKER", "PROPOSED_DEFENDER"}
        /\ GatedTags(p)[Gold] = "OnCombatEconomyEffect"
        /\ GatedTags(p)[Refresh] = "OnEconomyChanged"
        /\ GatedTags(p)["PROPOSED_ATTACKER"] = "OnCombatAttacker"
        /\ GatedTags(p)["PROPOSED_DEFENDER"] = "OnCombatDefender"
    BY <1>1, <1>2, <1>3, <1>5, GatedApart DEF Covers
  <2>2. DOMAIN GatedTags(p) = GatedEvents \ BuffTags
    BY <2>1, GatedApart DEF GatedEvents
  <2> QED
    BY <1>5, <2>1, <2>2, GatedInIs
<1>6. CASE p # "COMBAT"
  <2>1. /\ DOMAIN GatedTags(p) = GatedEvents
        /\ \A t \in BuffTags : GatedTags(p)[t] = "OnPlayerTagChanged"
        /\ \A t \in {Refresh, Gold} : GatedTags(p)[t] = "OnEconomyChanged"
        /\ GatedTags(p)["PROPOSED_ATTACKER"] = "OnCombatAttacker"
        /\ GatedTags(p)["PROPOSED_DEFENDER"] = "OnCombatDefender"
    BY <1>1, <1>3, <1>4, <1>6, GatedApart DEF Covers, GatedEvents
  <2>2. \A e \in GatedEvents : GatedTags(p)[e] # "refused"
    BY <2>1 DEF GatedEvents
  <2> QED
    BY <1>6, <2>1, <2>2, GatedInIs
<1> QED
  BY <1>5, <1>6

\* The rest of Handle's table has other events, of methods that look at no phase again.
LEMMA UnmigratedIs ==
  ASSUME NEW p
  PROVE  /\ DOMAIN Unmigrated(p) \cap (UngatedEvents \cup GatedEvents) = {}
         /\ \A e \in DOMAIN Unmigrated(p) : Unmigrated(p)[e] \notin Reserved
         /\ "ATK" \in DOMAIN Unmigrated(p)
         /\ Unmigrated(p)["ATK"] =
              IF p = "COMBAT" THEN "OnMinionTempStatChanged" ELSE "OnMinionPermStatChanged"
<1> DEFINE h == [e \in HeroStats |-> "OnHeroStatChanged"]
           t == [TAG_SCRIPT_DATA_NUM |-> "OnDntEnchantment"]
           s == StatChange(p)
           z == ZoneChange(p)
           rh == Over(Registered, h)
           sz == Over(s, z)
           szt == Over(sz, t)
           R == {"BATTLEGROUND_ANOMALY", "ENCHANTMENT", "HERO", "MINION"}
           S == {"ATK", "HEALTH"}
           Z == {"PLAY", "NOT_PLAY", "SPELL_PLAYED"}
           T == {"TAG_SCRIPT_DATA_NUM"}
<1>1. Covers(rh, Registered, h)
  BY OverIs
<1>2. Covers(sz, s, z)
  BY OverIs
<1>3. Covers(szt, sz, t)
  <2> HIDE DEF sz, t
  <2> QED
    BY OverIs
<1>4. Covers(Unmigrated(p), rh, szt)
  <2>1. Unmigrated(p) = Over(rh, szt)
    BY DEF Unmigrated
  <2> HIDE DEF rh, szt
  <2> QED
    BY <2>1, OverIs
<1>5. DOMAIN Registered = R /\ \A e \in R : Registered[e] \notin Reserved
  BY DEF Registered, Reserved
<1>6. DOMAIN h = HeroStats /\ \A e \in HeroStats : h[e] \notin Reserved
  BY DEF Reserved
<1>7. /\ DOMAIN s = S /\ \A e \in S : s[e] \notin Reserved
      /\ s["ATK"] = IF p = "COMBAT" THEN "OnMinionTempStatChanged" ELSE "OnMinionPermStatChanged"
  BY DEF StatChange, Reserved
<1>8. DOMAIN z \subseteq Z /\ \A e \in DOMAIN z : z[e] \notin Reserved
  <2>1. CASE p = "GAME_OVER"
    BY <2>1 DEF ZoneChange
  <2>2. CASE p # "GAME_OVER"
    BY <2>2 DEF ZoneChange, Reserved
  <2> QED
    BY <2>1, <2>2
<1>9. DOMAIN t = T /\ \A e \in T : t[e] \notin Reserved
  BY DEF Reserved
<1>10. /\ (R \cup HeroStats \cup S \cup Z \cup T) \cap UngatedEvents = {}
       /\ (R \cup HeroStats \cup S \cup Z \cup T) \cap GatedEvents = {}
       /\ "ATK" \in S /\ "ATK" \notin R \cup HeroStats
  BY DEF HeroStats, UngatedEvents, GatedEvents, BuffTags, Refresh, Gold
<1> HIDE DEF h, t, s, z, rh, sz, szt, R, S, Z, T
<1>11. DOMAIN rh = R \cup HeroStats /\ \A e \in R \cup HeroStats : rh[e] \notin Reserved
  BY <1>1, <1>5, <1>6 DEF Covers
<1>12. /\ DOMAIN sz = S \cup DOMAIN z /\ \A e \in S \cup DOMAIN z : sz[e] \notin Reserved
       /\ sz["ATK"] = s["ATK"]
  BY <1>2, <1>7, <1>8, <1>10 DEF Covers
<1>13. /\ DOMAIN szt = S \cup DOMAIN z \cup T /\ \A e \in DOMAIN szt : szt[e] \notin Reserved
       /\ szt["ATK"] = s["ATK"]
  BY <1>3, <1>9, <1>10, <1>12 DEF Covers
<1>14. /\ DOMAIN Unmigrated(p) = R \cup HeroStats \cup S \cup DOMAIN z \cup T
       /\ \A e \in DOMAIN Unmigrated(p) : Unmigrated(p)[e] \notin Reserved
       /\ Unmigrated(p)["ATK"] = s["ATK"]
  BY <1>4, <1>10, <1>11, <1>13 DEF Covers
<1> QED
  BY <1>7, <1>8, <1>10, <1>14

\* What Handle makes of an event in a phase.
LEMMA HandleIs ==
  ASSUME NEW p \in Phases
  PROVE  /\ \A e \in UngatedEvents : Handle(e, p) = {Ungated[e]}
         /\ p \in {"RECRUIT", "COMBAT"} =>
              \A e \in DOMAIN GatedIn[p] : Handle(e, p) = {GatedIn[p][e]}
         /\ p = "COMBAT" => \A e \in BuffTags : Handle(e, p) = {}
         /\ \A e : "refused" \notin Handle(e, p)
         /\ \A e : e \notin UngatedEvents \cup GatedEvents =>
              \A m \in Handle(e, p) : m \notin Reserved
         /\ Handle("ATK", p) = {IF p = "COMBAT" THEN "OnMinionTempStatChanged"
                                ELSE "OnMinionPermStatChanged"}
<1> DEFINE gu == Over(GatedTags(p), Unmigrated(p))
           h == Handled[p]
<1>1. Covers(gu, GatedTags(p), Unmigrated(p)) /\ Covers(h, Ungated, gu)
  <2>1. h = Over(Ungated, gu)
    BY DEF Handled
  <2>2. Covers(gu, GatedTags(p), Unmigrated(p))
    BY OverIs
  <2> HIDE DEF gu
  <2> QED
    BY <2>1, <2>2, OverIs
<1>2. \A e : Handle(e, p) = IF e \in DOMAIN h THEN {h[e]} ELSE {}
  BY DEF Handle
<1> HIDE DEF gu, h
<1>3. DOMAIN GatedTags(p) \subseteq GatedEvents
  BY GatedTagsAre
<1>4. /\ DOMAIN h = UngatedEvents \cup DOMAIN GatedTags(p) \cup DOMAIN Unmigrated(p)
      /\ \A e \in UngatedEvents : h[e] = Ungated[e]
      /\ \A e \in DOMAIN GatedTags(p) : h[e] = GatedTags(p)[e]
      /\ \A e \in DOMAIN Unmigrated(p) : h[e] = Unmigrated(p)[e]
  BY <1>1, <1>3, UngatedIs, GatedApart, UnmigratedIs DEF Covers
<1>5. \A e \in UngatedEvents : Handle(e, p) = {Ungated[e]}
  BY <1>2, <1>4
<1>6. p \in {"RECRUIT", "COMBAT"} => \A e \in DOMAIN GatedIn[p] : Handle(e, p) = {GatedIn[p][e]}
  <2>1. p \in {"RECRUIT", "COMBAT"} => DOMAIN GatedIn[p] \subseteq DOMAIN GatedTags(p)
    BY GatedTagsAre, GatedInIs, GatedApart DEF GatedEvents
  <2> QED
    BY <1>2, <1>4, <2>1, GatedTagsAre
<1>7. p = "COMBAT" => \A e \in BuffTags : Handle(e, p) = {}
  <2>1. p = "COMBAT" => \A e \in BuffTags : e \notin DOMAIN h
    BY <1>4, GatedTagsAre, UnmigratedIs, GatedApart DEF GatedEvents
  <2> QED
    BY <1>2, <2>1
<1>8. \A e : "refused" \notin Handle(e, p)
  <2>1. \A e \in DOMAIN h : h[e] # "refused"
    BY <1>4, UngatedIs, GatedTagsAre, UnmigratedIs DEF Reserved
  <2> QED
    BY <1>2, <2>1
<1>9. \A e : e \notin UngatedEvents \cup GatedEvents => \A m \in Handle(e, p) : m \notin Reserved
  BY <1>2, <1>3, <1>4, UnmigratedIs
<1>10. Handle("ATK", p) = {IF p = "COMBAT" THEN "OnMinionTempStatChanged"
                           ELSE "OnMinionPermStatChanged"}
  BY <1>2, <1>4, UnmigratedIs
<1> QED
  BY <1>5, <1>6, <1>7, <1>8, <1>9, <1>10

-----------------------------------------------------------------------------
(* Routing: where an event arrives *)

\* Route, of the phases it looks at: the builder's and the dispatcher's, which agree, and
\* the Machine's.
RouteOf(e, b, m) ==
  {x \in IF Build(e, b) = Nil THEN Handle(e, m) ELSE Dispatch(Build(e, b), b) :
     ~(x = "OnPlayerTagChanged" /\ m = "COMBAT")}

\* It is an event's route in a state.
LEMMA RouteIs == dPhase = bPhase => \A e : Route(e) = RouteOf(e, bPhase, mPhase)
  BY DEF Route, RouteOf, TakenBy

\* An event that is built in any phase arrives in every one.
LEMMA UngatedRoute ==
  ASSUME NEW b \in Phases, NEW m, NEW e \in UngatedEvents
  PROVE  RouteOf(e, b, m) = {Ungated[e]}
<1>1. Build(e, b) = Ungated[e]
  BY BuildIs
<1>2. Ungated[e] \in TransitionActions /\ Ungated[e] \notin Reserved
  BY UngatedIs
<1>3. Ungated[e] # Nil /\ Ungated[e] # Drop /\ Ungated[e] # "OnPlayerTagChanged"
  BY <1>2 DEF Reserved, Nil, Drop
<1>4. Dispatch(Ungated[e], b) = {Ungated[e]}
  BY <1>2, <1>3 DEF Dispatch, Admits
<1> QED
  BY <1>1, <1>3, <1>4 DEF RouteOf

\* A gated tag arrives in the phase it is built in, whatever phase the Machine is in, if
\* that is a combat in a combat alone.
LEMMA GatedRoute ==
  ASSUME NEW b \in Phases, NEW m, m = "COMBAT" => b = "COMBAT", NEW e \in GatedEvents
  PROVE  RouteOf(e, b, m) = IF e \in DOMAIN GatedIn[b] THEN {GatedIn[b][e]} ELSE {}
<1>1. CASE e \notin DOMAIN GatedIn[b]
  <2>1. Build(e, b) = Drop
    BY <1>1, BuildIs
  <2>2. Drop # Nil
    BY DEF Drop, Nil
  <2> QED
    BY <1>1, <2>1, <2>2 DEF RouteOf, Dispatch
<1>2. CASE e \in DOMAIN GatedIn[b]
  <2>1. Build(e, b) = GatedIn[b][e] /\ b \in {"RECRUIT", "COMBAT"}
    BY <1>2, BuildIs, GatedInIs
  <2>2. /\ b = "RECRUIT" => GatedIn[b][e] \in {"OnPlayerTagChanged", "OnEconomyChanged"}
        /\ b = "COMBAT" => GatedIn[b][e] \in {"OnCombatEconomyEffect", "OnCombatAttacker",
                                              "OnCombatDefender"}
    BY <1>2, GatedInIs
  <2>3. Admits(b, GatedIn[b][e])
    BY <2>1, <2>2 DEF Admits, RecruitActions, CombatActions
  <2>4. /\ GatedIn[b][e] # Nil /\ GatedIn[b][e] # Drop
        /\ ~(GatedIn[b][e] = "OnPlayerTagChanged" /\ m = "COMBAT")
    BY <2>1, <2>2 DEF Nil, Drop
  <2> QED
    BY <1>2, <2>1, <2>3, <2>4 DEF RouteOf, Dispatch
<1> QED
  BY <1>1, <1>2

\* Every other event is Handle's.
LEMMA OtherRoute ==
  ASSUME NEW b \in Phases, NEW m \in Phases, NEW e, e \notin UngatedEvents \cup GatedEvents
  PROVE  RouteOf(e, b, m) = Handle(e, m)
<1>1. Build(e, b) = Nil
  BY BuildIs
<1>2. "OnPlayerTagChanged" \notin Handle(e, m)
  BY HandleIs DEF Reserved
<1> QED
  BY <1>1, <1>2 DEF RouteOf

\* No action of the builder is refused.
LEMMA NoneRefused ==
  ASSUME NEW b \in Phases, NEW m \in Phases, m = "COMBAT" => b = "COMBAT", NEW e
  PROVE  RouteOf(e, b, m) # Refused
<1>1. CASE e \in UngatedEvents
  <2>1. RouteOf(e, b, m) = {Ungated[e]} /\ Ungated[e] # "refused"
    BY <1>1, UngatedRoute, UngatedIs DEF Reserved
  <2> QED
    BY <2>1 DEF Refused
<1>2. CASE e \in GatedEvents
  <2>1. RouteOf(e, b, m) = IF e \in DOMAIN GatedIn[b] THEN {GatedIn[b][e]} ELSE {}
    BY <1>2, GatedRoute
  <2>2. e \in DOMAIN GatedIn[b] => GatedIn[b][e] # "refused"
    BY GatedInIs
  <2> QED
    BY <2>1, <2>2 DEF Refused
<1>3. CASE e \notin UngatedEvents \cup GatedEvents
  <2>1. RouteOf(e, b, m) = Handle(e, m) /\ "refused" \notin Handle(e, m)
    BY <1>3, OtherRoute, HandleIs
  <2> QED
    BY <2>1 DEF Refused
<1> QED
  BY <1>1, <1>2, <1>3

\* When all three are in the phase of the game, the routes are those of that phase.
RoutesOf(p) ==
  /\ \A e \in BuffTags \cup {Refresh} : RouteOf(e, p, p) # {} <=> p = "RECRUIT"
  /\ RouteOf("PROPOSED_ATTACKER", p, p) # {} <=> p = "COMBAT"
  /\ RouteOf(Gold, p, p) # {}
  /\ RouteOf("ATK", p, p) = {"OnMinionTempStatChanged"} <=> p = "COMBAT"
  /\ \A e \in Logged(p) : RouteOf(e, p, p) = Handle(e, p)

\* They are, in either phase.
LEMMA PlayRoutes ==
  ASSUME NEW p \in {"RECRUIT", "COMBAT"}
  PROVE  RoutesOf(p)
<1>1. p \in Phases
  BY DEF Phases
<1>2. \A e \in GatedEvents :
        RouteOf(e, p, p) = IF e \in DOMAIN GatedIn[p] THEN {GatedIn[p][e]} ELSE {}
  BY <1>1, GatedRoute
<1>3. /\ BuffTags \cup {Refresh} \subseteq GatedEvents /\ "PROPOSED_ATTACKER" \in GatedEvents
      /\ Gold \in GatedEvents
      /\ p = "RECRUIT" => DOMAIN GatedIn[p] = BuffTags \cup {Refresh, Gold}
      /\ p = "COMBAT" => DOMAIN GatedIn[p] = {Gold, "PROPOSED_ATTACKER", "PROPOSED_DEFENDER"}
  BY GatedInIs DEF GatedEvents
<1>4. \A e \in BuffTags \cup {Refresh} : RouteOf(e, p, p) # {} <=> p = "RECRUIT"
  BY <1>2, <1>3, GatedApart
<1>5. RouteOf("PROPOSED_ATTACKER", p, p) # {} <=> p = "COMBAT"
  BY <1>2, <1>3, GatedApart
<1>6. RouteOf(Gold, p, p) # {}
  BY <1>2, <1>3
<1>7. RouteOf("ATK", p, p) = {"OnMinionTempStatChanged"} <=> p = "COMBAT"
  <2>1. "ATK" \notin UngatedEvents \cup GatedEvents
    BY DEF UngatedEvents, GatedEvents, BuffTags, Refresh, Gold
  <2>2. RouteOf("ATK", p, p) = Handle("ATK", p)
    BY <1>1, <2>1, OtherRoute
  <2> QED
    BY <1>1, <2>2, HandleIs
<1>8. ASSUME NEW e \in Logged(p) PROVE RouteOf(e, p, p) = Handle(e, p)
  <2>1. CASE e \in UngatedEvents
    BY <1>1, <2>1, UngatedRoute, HandleIs
  <2>2. CASE e \in GatedEvents
    <3>1. CASE e \in DOMAIN GatedIn[p]
      BY <1>1, <1>2, <2>2, <3>1, HandleIs
    <3>2. CASE e \notin DOMAIN GatedIn[p]
      <4>1. p = "COMBAT" /\ e \in BuffTags
        BY <1>3, <1>8, <2>2, <3>2 DEF Logged, GatedEvents
      <4> QED
        BY <1>1, <1>2, <2>2, <3>2, <4>1, HandleIs
    <3> QED
      BY <3>1, <3>2
  <2>3. CASE e \notin UngatedEvents \cup GatedEvents
    BY <1>1, <2>3, OtherRoute
  <2> QED
    BY <2>1, <2>2, <2>3
<1> QED
  BY <1>4, <1>5, <1>6, <1>7, <1>8 DEF RoutesOf

\* Once a TURN was logged, the phase is the game's, unless the rest of a CREATE_GAME block
\* is to come; the player's own TURN is owed in a recruit phase; and the record is never in
\* a combat that the builder is not in.
PhaseInv ==
  /\ PhasesTrackTurn
  /\ block \in {"created", "tags"} => ~turned
  /\ block = "play" /\ owed => geTurn % 2 = 1
  /\ mPhase = "COMBAT" => bPhase = "COMBAT"

\* Nothing is in a phase at first.
LEMMA PhaseInit == Init => PhaseInv
  BY DEF Init, PhaseInv, PhasesTrackTurn

\* And every step keeps it.
LEMMA PhaseStep == TypeOK /\ PhasesAgree /\ PhaseInv /\ [Next]_vars => PhaseInv'
<1> SUFFICES ASSUME TypeOK, PhasesAgree, PhaseInv, [Next]_vars PROVE PhaseInv'
  OBVIOUS
<1> USE DEF PhaseInv, PhasesTrackTurn, PhasesAgree
<1>1. CASE NewGame \/ Reconnect
  BY <1>1 DEF NewGame, Reconnect, OnGameStart, GameStart
<1>2. CASE GameEntityTags
  BY <1>2 DEF GameEntityTags, phaseVars
<1>3. CASE PlayerDef
  BY <1>3 DEF PlayerDef, phaseVars, SetTurn
<1>4. CASE TurnStart
  <2>1. PhaseOf(geTurn') \in {"RECRUIT", "COMBAT"}
    BY PhaseOfType
  <2> QED
    BY <1>4, <2>1 DEF TurnStart, SetGameEntityTurn, InPlay
<1>5. CASE PlayerTurn
  BY <1>5 DEF PlayerTurn, SetTurn, phaseVars, InPlay, PhaseOf
<1>6. CASE GameComplete
  BY <1>6 DEF GameComplete, GameEnd
<1>7. CASE (\E r \in {-1, 1} : HeroAttack(r)) \/ (\E place \in Places : PlacementChanged(place))
  BY <1>7 DEF HeroAttack, PlacementChanged, gameVars, phaseVars, machineVars
<1>8. CASE Disconnect \/ MissTurn \/ Abandon
  BY <1>8 DEF Disconnect, MissTurn, Abandon, phaseVars, machineVars, procVars, ghostVars
<1>9. CASE Timeout
  BY <1>9 DEF Timeout, GameEnd, gameVars, phaseVars
<1>10. CASE UNCHANGED vars
  BY <1>10 DEF vars, gameVars, phaseVars, machineVars, ghostVars
<1> QED
  BY <1>1, <1>2, <1>3, <1>4, <1>5, <1>6, <1>7, <1>8, <1>9, <1>10 DEF Next, Log, CreateGame

\* In such a state the routes are right.
LEMMA RoutesRight ==
  ASSUME TypeOK, PhasesAgree, PhaseInv
  PROVE  Routed
<1>1. bPhase \in Phases /\ mPhase \in Phases /\ dPhase = bPhase
      /\ (mPhase = "COMBAT" => bPhase = "COMBAT")
  BY DEF TypeOK, PhasesAgree, PhaseInv
<1>2. \A e : Route(e) = RouteOf(e, bPhase, mPhase)
  BY <1>1, RouteIs
<1>3. \A e \in Events : Route(e) # Refused
  BY <1>1, <1>2, NoneRefused
<1>4. ASSUME turned, block = "play" PROVE RoutesOf(PhaseOf(geTurn))
                                          /\ bPhase = PhaseOf(geTurn) /\ mPhase = PhaseOf(geTurn)
  BY <1>4, PhaseOfType, PlayRoutes DEF PhaseInv, PhasesTrackTurn
<1> QED
  BY <1>2, <1>3, <1>4 DEF Routed, RoutesOf

\* A reconnect leaves the routes of the gated tags as they were.
LEMMA ReconnectRoutes ==
  ASSUME TypeOK, PhasesAgree, PhaseInv, Reconnect, NEW e \in Gated
  PROVE  Route(e)' = Route(e)
<1>1. bPhase \in Phases /\ dPhase = bPhase /\ (mPhase = "COMBAT" => bPhase = "COMBAT")
      /\ e \in GatedEvents
  BY GatedAre DEF TypeOK, PhasesAgree, PhaseInv
<1>2. /\ bPhase' = BuilderAfterCreate(bPhase) /\ mPhase' = "LOBBY"
      /\ dPhase' = DispatcherAfterCreate(BuilderReconnect(bPhase), dPhase)
  BY DEF Reconnect, OnGameStart, GameStart
<1>3. dPhase' = bPhase' /\ bPhase' \in Phases
      /\ (bPhase \in {"RECRUIT", "COMBAT"} => bPhase' = bPhase)
      /\ (bPhase \notin {"RECRUIT", "COMBAT"} => bPhase' = "IDLE")
  BY <1>1, <1>2 DEF BuilderAfterCreate, DispatcherAfterCreate, BuilderReconnect, Phases
<1>4. Route(e) = RouteOf(e, bPhase, mPhase)
  BY <1>1, RouteIs
<1>5. Route(e)' = RouteOf(e, bPhase', mPhase')
  BY <1>3 DEF Route, RouteOf, TakenBy
<1>6. RouteOf(e, bPhase, mPhase)
        = IF e \in DOMAIN GatedIn[bPhase] THEN {GatedIn[bPhase][e]} ELSE {}
  BY <1>1, GatedRoute
<1>7. RouteOf(e, bPhase', mPhase')
        = IF e \in DOMAIN GatedIn[bPhase'] THEN {GatedIn[bPhase'][e]} ELSE {}
  BY <1>1, <1>2, <1>3, GatedRoute
<1>8. CASE bPhase \in {"RECRUIT", "COMBAT"}
  BY <1>3, <1>4, <1>5, <1>6, <1>7, <1>8
<1>9. CASE bPhase \notin {"RECRUIT", "COMBAT"}
  <2>1. DOMAIN GatedIn[bPhase] = {} /\ DOMAIN GatedIn[bPhase'] = {}
    BY <1>1, <1>3, <1>9, GatedInIs DEF Phases
  <2> QED
    BY <1>4, <1>5, <1>6, <1>7, <2>1
<1> QED
  BY <1>8, <1>9

\* Whatever reconnects and forced ends came before, every event of the log reaches the
\* method of the phase the game is in, once a TURN told it; no action is ever refused; and
\* the tags that depend on the phase keep their routes over a reconnect.
THEOREM RoutedAsPlayedHolds == Spec => RoutedAsPlayed
<1> DEFINE Inv == TypeOK /\ PhasesAgree /\ PhaseInv
<1>1. Spec => []Inv
  <2>1. Init => PhaseInv
    BY PhaseInit
  <2>2. Spec => []TypeOK /\ []PhasesAgree
    BY TypeCorrect, PhasesAgreeHolds
  <2> QED
    BY <2>1, <2>2, PhaseStep, PTL DEF Spec, Safe
<1>2. Inv => Routed
  BY RoutesRight
<1>3. Inv /\ Reconnect => \A e \in Gated : Route(e)' = Route(e)
  BY ReconnectRoutes
<1> DEFINE A == routeVars' # routeVars =>
                  Routed' /\ (Reconnect => \A e \in Gated : Route(e)' = Route(e))
<1>4. Inv /\ Routed' => A
  BY <1>3
<1> HIDE DEF Inv
<1>5. Inv /\ Routed' => [A]_vars
  BY <1>4
<1>6. []Inv => [][A]_vars
  BY <1>2, <1>5, PTL
<1> QED
  BY <1>1, <1>6, PTL DEF RoutedAsPlayed
=============================================================================
