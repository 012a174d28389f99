-------------------------------- MODULE Duos --------------------------------
(***************************************************************************)
(* A duos game: how the processor learns who the partner is, and what it   *)
(* keeps of the partner's combats, which the log shows on the local        *)
(* player's own entities.  In a combat the two partners fight one after    *)
(* the other.  For the partner's part the client swaps the partner's hero, *)
(* minions and counters in under the local controller, and out again; the  *)
(* tag BACON_CURRENT_COMBAT_PLAYER_ID, here "the flag", names the fighter, *)
(* before the swap when the partner fights first and after it otherwise.   *)
(*                                                                         *)
(* A minion has one stat: ATK and HEALTH take the same path.               *)
(***************************************************************************)
EXTENDS Integers, Sequences, FiniteSets

CONSTANTS
  MaxBoard,   \* minions a side brings; the source's cap of 7
  MaxFoes,    \* bound on the opponents and on the minions summoned, in play
  MaxEntities, \* bound on the entities created in the combats
  MaxStat,    \* bound on a minion's stat
  LastTurn,   \* bound on the local player's turn
  MaxCounts,  \* bound on the spells cast and the growth of the buff, together
  Base        \* the part of the buff every player starts with

ASSUME DuosAssumption ==
  /\ MaxBoard \in Nat \ {0} /\ MaxFoes \in 0..MaxBoard /\ MaxEntities \in Nat
  /\ MaxStat \in Nat \ {0} /\ LastTurn \in Nat \ {0}
  /\ MaxCounts \in Nat /\ Base \in Nat

Partners == {"own", "mate"}
NoOne    == "none"
NoBoard  == [minions |-> <<>>, turn |-> 0, stale |-> TRUE]

VARIABLES
  \* The game as the client logs it.
  naming,    \* whether the log has told, will tell or never tells the teammate's ID
  localTurn, \* the local player's TURN
  part,      \* where the client is in the turn
  order,     \* the partners still to fight in this combat
  swapped,   \* the partner's side is in under the local controller
  made,      \* how many entities the combats have created
  ents,      \* those of this combat
  stat,      \* entityProps: the stat last logged of each
  gone,      \* those no longer in PLAY
  spells,    \* tag 3809 of each partner
  team,      \* the team total a Dnt entity carries
  \* Processor
  isDuos, duosFromTeammate, punishLeaversActive,
  partnerPlayerID,
  combatPhaseActive, combatPhaseEntityIDs,
  partnerCombatActive, partnerBoardSetupDone,
  partnerCombatMinions, opponentCombatMinions,
  dntTeamTotal, dntPartnerAccum,
  \* Machine
  duosMode,                 \* IsDuos of the state it publishes
  partnerBoard, opponentBoard,
  buff, partnerBuff,        \* a buff source of each partner
  spellsCast,               \* the SPELLS_CAST counter
  \* History
  lastFight,  \* the partner's last fight: turn, lineup, opponents, known as duos
  growth,     \* growth of the team's buff in each partner's part
  unsplit,    \* a total came before duos was known, or its split was lost
  rejoined    \* a reconnect happened

duosClientVars ==
  <<naming, localTurn, part, order, swapped, made, ents, stat, gone, spells, team>>
duosVars    == <<isDuos, duosFromTeammate, punishLeaversActive, partnerPlayerID>>
combatVars  == <<combatPhaseActive, combatPhaseEntityIDs, partnerCombatActive,
                 partnerBoardSetupDone, partnerCombatMinions, opponentCombatMinions>>
splitVars   == <<dntTeamTotal, dntPartnerAccum>>
machineVars == <<duosMode, partnerBoard, opponentBoard, buff, partnerBuff, spellsCast>>
ghostVars   == <<lastFight, growth, unsplit, rejoined>>
allVars     == <<duosClientVars, duosVars, combatVars, splitVars, machineVars, ghostVars>>

Entities  == 1..Len(ents)
Positions == 1..MaxBoard
Entity    == [kind : {"hero", "mate", "token", "foe"}, pos : 0..MaxBoard]
Minion    == [id : Nat \ {0}, stat : 1..MaxStat]
NoFight   == [turn |-> 0, lineup |-> <<>>, foes |-> {}, known |-> FALSE]

Counted         == spells["own"] + spells["mate"] + team
Larger(m, n)    == IF m > n THEN m ELSE n
IDs(ms)         == {ms[i].id : i \in DOMAIN ms}
Standing(kinds) == {e \in Entities : ents[e].kind \in kinds /\ e \notin gone}

\* A set of indices in the order of their keys, and of equal keys in their own: the
\* minions that are sorted have no two equal positions (Placed in ProcessorProofs).
Before(key, i, j) == key[i] < key[j] \/ (key[i] = key[j] /\ i < j)
Sorted(S, key) ==
  [k \in 1..Cardinality(S) |->
     CHOOSE i \in S : Cardinality({j \in S : Before(key, j, i)}) = k - 1]

ByPosition(ms) ==
  LET at == Sorted(DOMAIN ms, [i \in DOMAIN ms |-> ents[ms[i].id].pos])
  IN  [k \in DOMAIN ms |-> ms[at[k]]]

DuosTypeOK ==
  /\ naming \in {"told", "tag", "never"} /\ localTurn \in 1..LastTurn
  /\ part \in {"recruit", "idle", "own", "lead", "mate", "clash", "after", "over"}
  /\ order \in Seq(Partners) /\ swapped \in BOOLEAN
  /\ made \in 0..MaxEntities /\ ents \in Seq(Entity) /\ stat \in [Entities -> 1..MaxStat] /\ gone \subseteq Entities
  /\ spells \in [Partners -> 0..MaxCounts] /\ team \in 0..MaxCounts
  /\ isDuos \in BOOLEAN /\ duosFromTeammate \in BOOLEAN /\ punishLeaversActive \in BOOLEAN
  /\ partnerPlayerID \in {"mate", NoOne}
  /\ combatPhaseActive \in BOOLEAN /\ combatPhaseEntityIDs \in Seq(Entities)
  /\ partnerCombatActive \in BOOLEAN /\ partnerBoardSetupDone \in BOOLEAN
  /\ partnerCombatMinions \in Seq(Minion) /\ opponentCombatMinions \in Seq(Minion)
  /\ dntTeamTotal \in 0..MaxCounts /\ dntPartnerAccum \in 0..MaxCounts
  /\ duosMode \in BOOLEAN /\ opponentBoard \in Seq(Minion)
  /\ partnerBoard.minions \in Seq(Minion) /\ Len(partnerBoard.minions) <= MaxBoard
  /\ partnerBoard.turn \in 0..LastTurn /\ partnerBoard.stale \in BOOLEAN
  /\ buff \in Int /\ partnerBuff \in Nat /\ spellsCast \in Nat
  /\ lastFight.lineup \in Seq(Minion) /\ growth \in [Partners -> Nat]
  /\ unsplit \in BOOLEAN /\ rejoined \in BOOLEAN

\* A game begins with PUNISH_LEAVERS=1 in the tags of the GameEntity and, when
\* the local player's definition carries it, with the teammate's ID.
DuosInit ==
  /\ naming \in {"told", "tag", "never"}
  /\ localTurn = 1 /\ part = "recruit" /\ order = <<>> /\ swapped = FALSE
  /\ made = 0 /\ ents = <<>> /\ stat = <<>> /\ gone = {}
  /\ spells = [p \in Partners |-> 0] /\ team = 0
  /\ isDuos = (naming = "told") /\ duosFromTeammate = (naming = "told")
  /\ punishLeaversActive = TRUE
  /\ partnerPlayerID = IF naming = "told" THEN "mate" ELSE NoOne
  /\ combatPhaseActive = FALSE /\ combatPhaseEntityIDs = <<>>
  /\ partnerCombatActive = FALSE /\ partnerBoardSetupDone = FALSE
  /\ partnerCombatMinions = <<>> /\ opponentCombatMinions = <<>>
  /\ dntTeamTotal = 0 /\ dntPartnerAccum = 0
  /\ duosMode = (naming = "told") /\ partnerBoard = NoBoard /\ opponentBoard = <<>>
  /\ buff = Base /\ partnerBuff = 0 /\ spellsCast = 0
  /\ lastFight = NoFight /\ growth = [p \in Partners |-> 0]
  /\ unsplit = FALSE /\ rejoined = FALSE

-----------------------------------------------------------------------------
(* Who the partner is *)

OnDuosTeammate_weak == \* mutant: the tag does not upgrade the detection
  /\ isDuos' = TRUE /\ duosFromTeammate' = ~isDuos /\ duosMode' = TRUE
  /\ partnerPlayerID' = "mate"
  /\ UNCHANGED punishLeaversActive
\* SetDuosMode on detection; the upgrade of a backup detection leaves it be.
OnDuosTeammate ==
  /\ isDuos' = TRUE /\ duosFromTeammate' = TRUE /\ duosMode' = TRUE
  /\ partnerPlayerID' = "mate"
  /\ UNCHANGED punishLeaversActive

OnDuosPassableChanged ==
  /\ isDuos' = (isDuos \/ punishLeaversActive)
  /\ duosMode' = (duosMode \/ punishLeaversActive)
  /\ UNCHANGED <<duosFromTeammate, punishLeaversActive, partnerPlayerID>>

\* PUNISH_LEAVERS=0: a detection by the backup path alone is undone.
OnDuosPunishLeaversChanged ==
  LET undone == isDuos /\ ~duosFromTeammate
  IN  /\ isDuos' = (isDuos /\ ~undone) /\ duosMode' = (duosMode /\ ~undone)
      /\ punishLeaversActive' = (punishLeaversActive /\ ~undone)
      /\ partnerBoard' = IF undone THEN NoBoard ELSE partnerBoard
      /\ UNCHANGED <<duosFromTeammate, partnerPlayerID>>

-----------------------------------------------------------------------------
(* The partner's combats *)

\* The minions of the indices in S, in the order of the IDs.
MinionsOf(ids, S) ==
  LET at == Sorted(S, [i \in S |-> i])
  IN  [k \in DOMAIN at |-> [id |-> ids[at[k]], stat |-> stat[ids[at[k]]]]]

Collected_dead(ids, kinds) == \* mutant: those that died before are collected
  MinionsOf(ids, {i \in DOMAIN ids : ents[ids[i]].kind \in kinds})
Collected(ids, kinds) ==
  MinionsOf(ids, {i \in DOMAIN ids : ents[ids[i]].kind \in kinds /\ ids[i] \notin gone})

\* collectPartnerCombatRetro: only with the partner's hero copy in PLAY.
Retro(ids, kinds) ==
  IF \E i \in DOMAIN ids : ents[ids[i]].kind = "hero" /\ ids[i] \notin gone
  THEN Collected(ids, kinds) ELSE <<>>

Kept_unsorted(ms) == SubSeq(ms, 1, IF Len(ms) > MaxBoard THEN MaxBoard ELSE Len(ms)) \* mutant
Kept(ms) ==
  SubSeq(ByPosition(ms), 1, IF Len(ms) > MaxBoard THEN MaxBoard ELSE Len(ms))

\* finalizePartnerCombat
FinalizePartnerCombat(ends) ==
  /\ partnerBoard' = IF ends /\ partnerCombatMinions # <<>>
                     THEN [minions |-> Kept(partnerCombatMinions), turn |-> localTurn, stale |-> FALSE]
                     ELSE partnerBoard
  /\ opponentBoard' = IF ends /\ opponentCombatMinions # <<>>
                      THEN Kept(opponentCombatMinions) ELSE opponentBoard

\* resolvePartner: without the tag, the first to fight who is not the player is the partner.
ResolvePartner(fighter) ==
  partnerPlayerID' = IF fighter = "mate" /\ isDuos THEN "mate" ELSE partnerPlayerID

OnCombatPlayerChanged_lingers(fighter) == \* mutant: only flag 0 ends the partner's combat
  LET ends   == partnerCombatActive /\ fighter = NoOne
      ids    == IF fighter = NoOne \/ ~combatPhaseActive THEN <<>> ELSE combatPhaseEntityIDs
      starts == fighter # NoOne /\ fighter = partnerPlayerID'
  IN  /\ FinalizePartnerCombat(ends)
      /\ combatPhaseActive' = (fighter # NoOne) /\ combatPhaseEntityIDs' = ids
      /\ ResolvePartner(fighter)
      /\ partnerCombatActive' = (starts \/ (partnerCombatActive /\ ~ends))
      /\ partnerBoardSetupDone' = (partnerBoardSetupDone /\ ~ends /\ ~starts)
      /\ partnerCombatMinions' = IF starts THEN Retro(ids, {"mate", "token"})
                                 ELSE IF ends THEN <<>> ELSE partnerCombatMinions
      /\ opponentCombatMinions' = IF starts THEN Retro(ids, {"foe"})
                                  ELSE IF ends THEN <<>> ELSE opponentCombatMinions
OnCombatPlayerChanged_keepsIDs(fighter) == \* mutant: flag 0 keeps the entities of the combat
  LET ends   == partnerCombatActive /\ fighter # partnerPlayerID
      ids    == IF ~combatPhaseActive THEN <<>> ELSE combatPhaseEntityIDs
      starts == fighter # NoOne /\ fighter = partnerPlayerID'
  IN  /\ FinalizePartnerCombat(ends)
      /\ combatPhaseActive' = (fighter # NoOne) /\ combatPhaseEntityIDs' = ids
      /\ ResolvePartner(fighter)
      /\ partnerCombatActive' = starts
      /\ partnerBoardSetupDone' = (partnerBoardSetupDone /\ ~ends /\ ~starts)
      /\ partnerCombatMinions' = IF starts THEN Retro(ids, {"mate", "token"})
                                 ELSE IF ends THEN <<>> ELSE partnerCombatMinions
      /\ opponentCombatMinions' = IF starts THEN Retro(ids, {"foe"})
                                  ELSE IF ends THEN <<>> ELSE opponentCombatMinions
\* OnCombatPlayerChanged: the partner's combat ends, the combat phase begins or
\* ends, a partner not yet known is resolved, the partner's combat starts.
OnCombatPlayerChanged(fighter) ==
  LET ends   == partnerCombatActive /\ fighter # partnerPlayerID
      ids    == IF fighter = NoOne \/ ~combatPhaseActive THEN <<>> ELSE combatPhaseEntityIDs
      starts == fighter # NoOne /\ fighter = partnerPlayerID'
  IN  /\ FinalizePartnerCombat(ends)
      /\ combatPhaseActive' = (fighter # NoOne) /\ combatPhaseEntityIDs' = ids
      /\ ResolvePartner(fighter)
      /\ partnerCombatActive' = starts
      /\ partnerBoardSetupDone' = (partnerBoardSetupDone /\ ~ends /\ ~starts)
      /\ partnerCombatMinions' = IF starts THEN Retro(ids, {"mate", "token"})
                                 ELSE IF ends THEN <<>> ELSE partnerCombatMinions
      /\ opponentCombatMinions' = IF starts THEN Retro(ids, {"foe"})
                                  ELSE IF ends THEN <<>> ELSE opponentCombatMinions

Setup_always == partnerCombatActive \* mutant: minions summoned in the fight are collected
Setup == partnerCombatActive /\ ~partnerBoardSetupDone

\* handleEntityUpdate, for an entity of a combat logged in PLAY.
HandleEntityUpdate(entity, v) ==
  LET e       == Len(ents) + 1
      minion  == [id |-> e, stat |-> v]
      With(ms, kinds) == IF Setup /\ entity.kind \in kinds THEN Append(ms, minion) ELSE ms
  IN  /\ made' = made + 1 /\ ents' = Append(ents, entity) /\ stat' = Append(stat, v)
      /\ combatPhaseEntityIDs' = IF combatPhaseActive /\ isDuos
                                 THEN Append(combatPhaseEntityIDs, e)
                                 ELSE combatPhaseEntityIDs
      /\ partnerCombatMinions' = With(partnerCombatMinions, {"mate", "token"})
      /\ opponentCombatMinions' = With(opponentCombatMinions, {"foe"})
      /\ UNCHANGED <<combatPhaseActive, partnerCombatActive, partnerBoardSetupDone>>

\* ATK or HEALTH of an entity.  updatePartnerCombatMinion is called for those of
\* the local controller alone; the opponents' entries keep their first stat.
UpdatePartnerCombatMinion(e, v) ==
  partnerCombatMinions' =
    [i \in DOMAIN partnerCombatMinions |->
       IF Setup /\ partnerCombatMinions[i].id = e
       THEN [partnerCombatMinions[i] EXCEPT !.stat = v] ELSE partnerCombatMinions[i]]

HandleDntDuos_whole(value, inPartnerCombat) == \* mutant: the partner gets the total
  /\ dntTeamTotal' = value
  /\ dntPartnerAccum' = IF inPartnerCombat THEN value ELSE dntPartnerAccum
  /\ buff' = Base + value - dntPartnerAccum'
  /\ partnerBuff' = IF dntPartnerAccum' > 0 THEN dntPartnerAccum' ELSE partnerBuff
\* handleAbsoluteDntDuos on a Dnt entity that carries the team total value.
HandleDntDuos(value, inPartnerCombat) ==
  LET delta == Larger(value - dntTeamTotal, 0)
  IN  /\ dntTeamTotal' = value
      /\ dntPartnerAccum' = dntPartnerAccum + (IF inPartnerCombat THEN delta ELSE 0)
      /\ buff' = Base + value - dntPartnerAccum'
      /\ partnerBuff' = IF dntPartnerAccum' > 0 THEN dntPartnerAccum' ELSE partnerBuff

\* A Dnt in a game not (yet) known as duos goes to handleAbsoluteDnt's plain path.
HandleDnt(value) ==
  IF isDuos THEN HandleDntDuos(value, partnerCombatActive)
  ELSE /\ buff' = Base + value
       /\ UNCHANGED <<dntTeamTotal, dntPartnerAccum, partnerBuff>>

\* OnSpellcraftChanged: tag 3809 of the local player entity.
SpellsCounted_last(value) == value \* mutant: HDT's plain assignment
SpellsCounted(value) == Larger(spellsCast, value)

-----------------------------------------------------------------------------
(* The game, line by line *)

Teammate ==
  /\ part = "recruit" /\ naming = "tag" /\ naming' = "told"
  /\ OnDuosTeammate
  /\ UNCHANGED <<localTurn, part, order, swapped, made, ents, stat, gone, spells, team, combatVars, splitVars,
                 partnerBoard, opponentBoard, buff,
                 partnerBuff, spellsCast, ghostVars>>

\* A card that can be passed to the partner is offered.
Passable ==
  /\ part = "recruit" /\ ~isDuos
  /\ OnDuosPassableChanged
  /\ UNCHANGED <<duosClientVars, combatVars, splitVars, partnerBoard, opponentBoard, buff,
                 partnerBuff, spellsCast, ghostVars>>

CastSpell(p) ==
  /\ IF p = "own" THEN part \in {"recruit", "own"} ELSE part \in {"recruit", "clash"}
  /\ Counted < MaxCounts
  /\ spells' = [spells EXCEPT ![p] = @ + 1]
  /\ spellsCast' = IF p = "own" \/ swapped THEN SpellsCounted(spells'[p]) ELSE spellsCast
  /\ UNCHANGED <<naming, localTurn, part, order, swapped, made, ents, stat, gone, team, duosVars,
                 combatVars, splitVars, duosMode, partnerBoard, opponentBoard, buff,
                 partnerBuff, ghostVars>>

\* The Dnt entity of the buff shows a higher total in the recruit phase or in a
\* partner's part of the combat.
GrowTeam(p) ==
  /\ IF p = "own" THEN part \in {"recruit", "own"} ELSE part = "clash"
  /\ Counted < MaxCounts
  /\ team' = team + 1
  /\ HandleDnt(team')
  /\ growth' = [growth EXCEPT ![p] = @ + 1]
  /\ unsplit' = (unsplit \/ ~isDuos)
  /\ UNCHANGED <<naming, localTurn, part, order, swapped, made, ents, stat, gone, spells, duosVars,
                 combatVars, duosMode, partnerBoard, opponentBoard, spellsCast, lastFight,
                 rejoined>>

MarkStale == IF isDuos THEN [partnerBoard EXCEPT !.stale = TRUE] ELSE partnerBoard

\* GameEntity TURN even.  The local player alone, or both in either order.
BeginCombat ==
  /\ part = "recruit" /\ localTurn < LastTurn
  /\ part' = "idle" /\ order' \in {<<"own">>, <<"own", "mate">>, <<"mate", "own">>}
  /\ partnerBoard' = MarkStale
  /\ UNCHANGED <<naming, localTurn, swapped, made, ents, stat, gone, spells, team, duosVars,
                 combatVars, splitVars, duosMode, opponentBoard, buff, partnerBuff,
                 spellsCast, ghostVars>>

\* The flag names the next fighter.
Flag(p) ==
  /\ order # <<>> /\ p = Head(order)
  /\ IF swapped THEN part = "lead" ELSE part = "idle"
  /\ part' = p /\ order' = Tail(order)
  /\ OnCombatPlayerChanged(p)
  /\ UNCHANGED <<naming, localTurn, swapped, made, ents, stat, gone, spells, team, isDuos,
                 duosFromTeammate, punishLeaversActive, splitVars, duosMode, buff,
                 partnerBuff, spellsCast, ghostVars>>

\* The partner's side comes in: the local side is set aside, the hero copy is
\* created, tag 3809 goes to zero and to the partner's number.
SwapIn ==
  /\ ~swapped /\ made < MaxEntities
  /\ \/ part = "own" /\ order = <<"mate">> /\ part' = "lead"
     \/ part = "mate" /\ part' = "mate"
  /\ swapped' = TRUE /\ gone' = gone \cup Standing({"token"})
  /\ HandleEntityUpdate([kind |-> "hero", pos |-> 0], 1)
  /\ spellsCast' = SpellsCounted(spells["mate"])
  /\ UNCHANGED <<naming, localTurn, order, spells, team, duosVars, splitVars, duosMode,
                 partnerBoard, opponentBoard, buff, partnerBuff, ghostVars>>

Summoned(entity, v) ==
  /\ made < MaxEntities
  /\ HandleEntityUpdate(entity, v)
  /\ UNCHANGED <<naming, localTurn, part, order, swapped, gone, spells, team, duosVars,
                 splitVars, machineVars, ghostVars>>

\* A copy of a minion of the partner, with its base stat.
MateMinion ==
  /\ swapped /\ part \in {"lead", "mate"}
  /\ \E pos \in Positions \ {ents[e].pos : e \in Standing({"mate"})} :
       Summoned([kind |-> "mate", pos |-> pos], 1)

FoeMinion ==
  /\ part \in {"own", "mate"}
  /\ \E pos \in (1..MaxFoes) \ {ents[e].pos : e \in Standing({"foe"})} :
       Summoned([kind |-> "foe", pos |-> pos], 1)

\* A minion summoned for either partner in a fight; its entity has a position too.
Token ==
  /\ part \in {"own", "clash"}
  /\ \E pos \in (1..MaxFoes) \ {ents[e].pos : e \in Standing({"token"})} :
       Summoned([kind |-> "token", pos |-> pos], 1)

\* A minion's stat is raised: a copy of the partner's in its setup or its fight, an
\* opponent's before the partner's fight.
Raise(e) ==
  /\ stat[e] < MaxStat
  /\ \/ ents[e].kind = "mate" /\ part \in {"lead", "mate", "clash"}
     \/ ents[e].kind = "foe" /\ part \in {"own", "mate"}
  /\ stat' = [stat EXCEPT ![e] = @ + 1]
  /\ IF ents[e].kind = "foe" THEN UNCHANGED partnerCombatMinions
                             ELSE UpdatePartnerCombatMinion(e, stat'[e])
  /\ UNCHANGED <<naming, localTurn, part, order, swapped, made, ents, gone, spells, team, duosVars,
                 combatPhaseActive, combatPhaseEntityIDs, partnerCombatActive,
                 partnerBoardSetupDone, opponentCombatMinions, splitVars, machineVars,
                 ghostVars>>

\* A minion dies in the local fight that the partner's follows.
Die(e) ==
  /\ part = "own" /\ order # <<>>
  /\ gone' = gone \cup {e}
  /\ UNCHANGED <<naming, localTurn, part, order, swapped, made, ents, stat, spells, team, duosVars,
                 combatVars, splitVars, machineVars, ghostVars>>

\* GameEntity PROPOSED_ATTACKER: the partner's fight begins.
MateAttack ==
  /\ part = "mate" /\ swapped /\ part' = "clash"
  /\ partnerBoardSetupDone' = (partnerBoardSetupDone \/ partnerCombatActive)
  /\ lastFight' = [turn |-> localTurn, known |-> isDuos,
                   lineup |-> ByPosition(Collected([e \in Entities |-> e], {"mate"})),
                   foes |-> Standing({"foe"})]
  /\ UNCHANGED <<naming, localTurn, order, swapped, made, ents, stat, gone, spells, team, duosVars,
                 combatPhaseActive, combatPhaseEntityIDs, partnerCombatActive,
                 partnerCombatMinions, opponentCombatMinions, splitVars, machineVars,
                 growth, unsplit, rejoined>>

\* The partner's side goes out and the local player's numbers come back.
SwapOut ==
  /\ part = "clash" /\ part' = "idle" /\ swapped' = FALSE
  /\ gone' = gone \cup Standing({"mate", "token", "hero"})
  /\ spellsCast' = SpellsCounted(spells["own"])
  /\ UNCHANGED <<naming, localTurn, order, made, ents, stat, spells, team, duosVars, combatVars,
                 splitVars, duosMode, partnerBoard, opponentBoard, buff, partnerBuff,
                 ghostVars>>

\* GameEntity TURN odd and the local player's next TURN, before the flag is reset.
TurnOdd ==
  /\ part \in {"own", "idle"} /\ order = <<>>
  /\ part' = "after" /\ localTurn' = localTurn + 1
  /\ UNCHANGED <<naming, order, swapped, made, ents, stat, gone, spells, team, duosVars,
                 combatVars, splitVars, machineVars, ghostVars>>

\* The flag goes to 0; the combat's entities leave play.
FlagZero ==
  /\ part = "after" /\ part' = "recruit"
  /\ OnCombatPlayerChanged(NoOne)
  /\ ents' = <<>> /\ stat' = <<>> /\ gone' = {}
  /\ UNCHANGED <<naming, localTurn, order, swapped, made, spells, team, isDuos, duosFromTeammate,
                 punishLeaversActive, splitVars, duosMode, buff, partnerBuff, spellsCast,
                 ghostVars>>

\* The game ends at the end of a combat, or is conceded: PUNISH_LEAVERS goes to 0.
EndGame ==
  /\ part = "recruit" \/ (part \in {"own", "idle"} /\ order = <<>>)
  /\ part' = "over"
  /\ OnDuosPunishLeaversChanged
  /\ UNCHANGED <<naming, localTurn, order, swapped, made, ents, stat, gone, spells, team, combatVars,
                 splitVars, opponentBoard, buff, partnerBuff, spellsCast, ghostVars>>

\* The client rejoins in a recruit phase.  The processor is reset, the machine is
\* emptied of boards; what was stashed comes back, without the split; the Dnt
\* entity is logged anew with the total.
Rejoin ==
  /\ part = "recruit" /\ localTurn > 1 /\ ~rejoined /\ rejoined' = TRUE
  /\ combatPhaseActive' = FALSE /\ combatPhaseEntityIDs' = <<>>
  /\ partnerCombatActive' = FALSE /\ partnerBoardSetupDone' = FALSE
  /\ partnerCombatMinions' = <<>> /\ opponentCombatMinions' = <<>>
  /\ partnerBoard' = NoBoard /\ opponentBoard' = <<>>
  /\ dntTeamTotal' = (IF isDuos THEN team ELSE 0) /\ dntPartnerAccum' = 0
  /\ buff' = IF team > 0 THEN Base + team ELSE buff
  /\ unsplit' = (unsplit \/ team > 0) /\ lastFight' = NoFight
  /\ UNCHANGED <<duosClientVars, duosVars, duosMode,
                 partnerBuff, spellsCast, growth>>

DuosNext ==
  \/ Teammate \/ Passable \/ BeginCombat \/ SwapIn \/ MateMinion \/ FoeMinion \/ Token
  \/ MateAttack \/ SwapOut \/ TurnOdd \/ FlagZero \/ EndGame \/ Rejoin
  \/ \E p \in Partners : CastSpell(p) \/ GrowTeam(p) \/ Flag(p)
  \/ \E e \in Standing({"token", "mate", "foe"}) : Raise(e) \/ Die(e)

DuosSpec == DuosInit /\ [][DuosNext]_allVars

-----------------------------------------------------------------------------
(* Properties *)

\* In a recruit phase the partner board is the line-up of the partner's last fight,
\* in order and with the stats of its first attack, whichever partner fought first
\* and whatever was created before the flag; it is marked stale just when the
\* partner did not fight in the combat before.  (finalizePartnerCombat,
\* collectPartnerCombatRetro, MarkPartnerBoardStale)
PartnerBoardFresh ==
  part = "recruit" /\ lastFight.known /\ lastFight.lineup # <<>> =>
    /\ partnerBoard.minions = lastFight.lineup
    /\ partnerBoard.stale = (lastFight.turn # localTurn - 1)
    /\ partnerBoard.turn \in {lastFight.turn, lastFight.turn + 1}

\* The opponent board is made of the opponents the partner's last fight began with.
\* (handleEntityUpdate, collectPartnerCombatRetro, finalizePartnerCombat)
OpponentBoardIsFoes ==
  part = "recruit" /\ lastFight.known /\ lastFight.foes # {} =>
    IDs(opponentBoard) = lastFight.foes

\* The two boards that a partner's fight leaves, together.
BoardsOfTheFight == PartnerBoardFresh /\ OpponentBoardIsFoes

\* The total of the team's buff is split by the part it grew in: the partner's share
\* is the growth of the partner's fights, the local share the rest.
\* (handleAbsoluteDntDuos)
SplitExact ==
  ~unsplit => /\ partnerBuff = growth["mate"]
              /\ buff = Base + growth["own"]

\* The partner's totals, swapped in for a fight, and the zeros around them never take
\* away a spell the local player cast.  (OnSpellcraftChanged)
OwnSpellsKept == spellsCast >= spells["own"]

\* Once the log has told the teammate's ID the game is a duos game with a known
\* partner to its end: after a backup detection before it, through a reconnect and
\* the PUNISH_LEAVERS=0 of the end.  (OnDuosTeammate, OnDuosPunishLeaversChanged,
\* OnReconnect)
TeammateIsFinal ==
  naming = "told" => isDuos /\ duosMode /\ partnerPlayerID = "mate"

\* The counter of spells played is the number the local player cast.  The comment of
\* OnSpellcraftChanged says that on the local player entity tag 3809 "is strictly
\* monotonic" and that its dips live on other entities.
SpellsAreOwn == spellsCast = spells["own"]
=============================================================================
