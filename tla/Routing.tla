------------------------------ MODULE Routing ------------------------------
(***************************************************************************)
(* Which method of the Processor an event of the log reaches.  The event   *)
(* loop asks the ActionBuilder first: it makes an action of the event,     *)
(* which the ActionDispatcher hands to a visitor method if its phase       *)
(* admits it, or drops it, or leaves it to Processor.Handle.  Handle can   *)
(* take every event by itself, and the tests of the repository call it     *)
(* directly.  The three go by a phase of their own: those of Lifecycle.    *)
(*                                                                         *)
(* An event is its type, a registered entity its CARDTYPE, a TAG_CHANGE    *)
(* its tag; one tag stands for those that share a case.  Whose tag it is,  *)
(* which each method looks at, is left to the modules about them.          *)
(***************************************************************************)
EXTENDS Lifecycle

----------------------------------------------------------------------------
(* The actions: the visitor method of each, by the event it is built from. *)

\* The methods of f, and those of g for the events f does not have.
Over(f, g) ==
  [e \in DOMAIN f \cup DOMAIN g |-> IF e \in DOMAIN f THEN f[e] ELSE g[e]]

LifecycleActions ==
  [GAME_START |-> "OnGameStart", TURN_START |-> "OnTurnTransition",
   GAME_END |-> "OnGameEnd", GAME_ENTITY_TAGS |-> "OnReconnect",
   PLAYER_DEF |-> "OnPlayerDef", PLAYER_NAME |-> "OnPlayerName"]

PlayerActions ==
  [PLAYER_TRIPLES |-> "OnPlayerTriplesChanged", RESOURCES |-> "OnGoldChanged",
   PLAYER_TECH_LEVEL |-> "OnTavernTierChanged", SPELLS_3809 |-> "OnSpellcraftChanged",
   PLAYER_LEADERBOARD_PLACE |-> "OnPlacementChanged", TURN |-> "OnPlayerBGTurnChanged"]

DuosActions ==
  [BACON_DUO_TEAMMATE_PLAYER_ID |-> "OnDuosTeammate", HERO_ENTITY |-> "OnHeroEntityAssigned",
   BACON_DUO_PASSABLE |-> "OnDuosPassableChanged", CONTROLLER |-> "OnEntityControllerChanged",
   BACON_DUOS_PUNISH_LEAVERS |-> "OnDuosPunishLeaversChanged",
   BACON_CURRENT_COMBAT_PLAYER_ID |-> "OnCombatPlayerChanged"]

\* Built in no phase: handleEntityUpdate calls their methods itself.
Registered ==
  [BATTLEGROUND_ANOMALY |-> "OnAnomalyRegistered", ENCHANTMENT |-> "OnEnchantmentRegistered",
   HERO |-> "OnHeroRegistered", MINION |-> "OnMinionRegistered"]

Ungated == Over(LifecycleActions, Over(PlayerActions, DuosActions))

BuffTags == {"BACON_BLOODGEMBUFF", "BACON_ELEMENTAL_BUFF", "TAVERN_SPELL_INCREASE"}
Gold     == "BACON_PLAYER_EXTRA_GOLD_NEXT_TURN"
Refresh  == "BACON_FREE_REFRESH_COUNT"

\* What the types of action implement: the ones of either phase, some of which
\* nothing builds, and the ones of any.
RecruitActions ==
  {"OnMinionBought", "OnMinionSold", "OnTavernUpgraded", "OnTavernSpellPlayed",
   "OnMinionPermStatChanged", "OnDntEnchantment", "OnPlayerTagChanged", "OnEconomyChanged"}
CombatActions ==
  {"OnMinionTempStatChanged", "OnHeroDamaged", "OnMinionAttacked", "OnDeathrattleTriggered",
   "OnCombatTavernSpell", "OnCombatEconomyEffect", "OnCombatOutcome", "OnCombatAttacker",
   "OnCombatDefender"}
TransitionActions ==
  LET all == Over(Ungated, Registered)
  IN  {all[e] : e \in DOMAIN all} \cup {"OnHeroStatChanged"}

----------------------------------------------------------------------------
(* ActionBuilder.Build *)

Drop == "Drop"
Nil  == "nil"

Attacks ==
  [PROPOSED_ATTACKER |-> "OnCombatAttacker", PROPOSED_DEFENDER |-> "OnCombatDefender"]

GatedIn ==
  [phase \in Phases |->
     CASE phase = "RECRUIT" -> Over([t \in BuffTags |-> "OnPlayerTagChanged"],
                                    [t \in {Refresh, Gold} |-> "OnEconomyChanged"])
       [] phase = "COMBAT"  -> Over([t \in {Gold} |-> "OnCombatEconomyEffect"], Attacks)
       [] OTHER             -> <<>>]
Gated == UNION {DOMAIN GatedIn[phase] : phase \in Phases}
Built == [phase \in Phases |-> Over(Ungated, GatedIn[phase])]

Build_leaks(e, phase) == \* mutant: a tag out of its phase is left to Handle
  IF e \in DOMAIN Built[phase] THEN Built[phase][e] ELSE Nil
\* A tag the builder knows is dropped out of its phase, never left to Handle.
Build(e, phase) ==
  IF e \in DOMAIN Built[phase] THEN Built[phase][e] ELSE IF e \in Gated THEN Drop ELSE Nil

----------------------------------------------------------------------------
(* ActionDispatcher.Dispatch: the methods called, or a refusal, which it   *)
(* logs as a builder bug.                                                  *)

Refused == {"refused"}

Admits(phase, method) ==
  \/ method \in TransitionActions
  \/ phase = "RECRUIT" /\ method \in RecruitActions
  \/ phase = "COMBAT" /\ method \in CombatActions

Dispatch(action, phase) ==
  IF action = Drop THEN {} ELSE IF Admits(phase, action) THEN {action} ELSE Refused

----------------------------------------------------------------------------
(* Processor.Handle: the methods it calls, by the phase of the Machine.    *)

\* HEALTH of a hero, and the tags only heroes or the player have.
HeroStats == {"HERO_HEALTH", "DAMAGE", "ARMOR", "SPELL_POWER"}

StatChange(phase) ==
  [e \in {"ATK", "HEALTH"} |->
     IF phase = "COMBAT" THEN "OnMinionTempStatChanged" ELSE "OnMinionPermStatChanged"]

\* ZONE: a minion comes into or leaves PLAY, a spellcraft spell is played.
ZoneChange(phase) ==
  IF phase = "GAME_OVER" THEN <<>>
  ELSE [PLAY |-> "OnMinionBought", NOT_PLAY |-> "OnMinionSold", SPELL_PLAYED |-> "OnCombatTavernSpell"]

\* A buff tag is taken without its visitor method, which has the same guard.
GatedTags(phase) ==
  Over(IF phase = "COMBAT" THEN [t \in {Gold} |-> "OnCombatEconomyEffect"]
       ELSE Over([t \in BuffTags |-> "OnPlayerTagChanged"], [t \in {Gold} |-> "OnEconomyChanged"]),
       Over([t \in {Refresh} |-> "OnEconomyChanged"], Attacks))

\* PLAYER_ID, SPELLCRAFT_HINT and BACON_SUBSET_* change the registry alone.
RegistryTags == {"PLAYER_ID", "SPELLCRAFT_HINT", "BACON_SUBSET"}

Unmigrated(phase) ==
  Over(Over(Registered, [e \in HeroStats |-> "OnHeroStatChanged"]),
       Over(Over(StatChange(phase), ZoneChange(phase)), [TAG_SCRIPT_DATA_NUM |-> "OnDntEnchantment"]))

Handled == [phase \in Phases |-> Over(Ungated, Over(GatedTags(phase), Unmigrated(phase)))]
Handle(e, phase) == IF e \in DOMAIN Handled[phase] THEN {Handled[phase][e]} ELSE {}

----------------------------------------------------------------------------
(* The event loop *)

Events == DOMAIN Ungated \cup Gated \cup DOMAIN Unmigrated("RECRUIT") \cup RegistryTags

\* OnPlayerTagChanged looks at the Machine's phase again.
TakenBy(method) == ~(method = "OnPlayerTagChanged" /\ mPhase = "COMBAT")

Route(e) ==
  LET action == Build(e, bPhase)
      calls  == IF action = Nil THEN Handle(e, mPhase) ELSE Dispatch(action, dPhase)
  IN  {m \in calls : TakenBy(m)}

----------------------------------------------------------------------------
(* Properties *)

\* What the client logs in a phase: heroes attack in a combat alone.  The builder
\* drops a refresh count in a combat, which Handle would take: it is left out there.
Logged(phase) ==
  CASE phase = "COMBAT" -> Events \ {Refresh} [] OTHER -> Events \ {"PROPOSED_ATTACKER", "PROPOSED_DEFENDER"}

\* No action is refused in any state.  Once a TURN has told the phase, buffs and refreshes
\* count in a recruit phase alone and attacks in a combat alone, gold counts in both,
\* stats change for good in a recruit phase and for the fight in a combat, and every
\* event reaches what Handle, called directly, would call.
Routed ==
  /\ \A e \in Events : Route(e) # Refused
  /\ turned /\ block = "play" =>
       LET phase == PhaseOf(geTurn) IN
       /\ \A e \in BuffTags \cup {Refresh} : Route(e) # {} <=> phase = "RECRUIT"
       /\ Route("PROPOSED_ATTACKER") # {} <=> phase = "COMBAT"
       /\ Route(Gold) # {}
       /\ Route("ATK") = {"OnMinionTempStatChanged"} <=> phase = "COMBAT"
       /\ \A e \in Logged(phase) : Route(e) = Handle(e, phase)

routeVars == <<phaseVars, mPhase, geTurn, turned, block>>

\* The routes are right whenever a step changes what they depend on; and a reconnect, which
\* brings no TURN of its own, leaves those of the tags that depend on the phase as they were,
\* which is why the builder keeps its phase.  (Build, Dispatch, Handle)
RoutedAsPlayed ==
  [][routeVars' # routeVars =>
       Routed' /\ (Reconnect => \A e \in Gated : Route(e)' = Route(e))]_vars
=============================================================================
