------------------------------- MODULE Buffs -------------------------------
(***************************************************************************)
(* The buff sources and the gold counter of the local player: what the     *)
(* Processor keeps of the Dnt enchantments, of the player's tags and of    *)
(* the Overconfidence cards, what the Machine shows of them, and what a    *)
(* turn's snapshot says they grew.  A Dnt carries its running totals in    *)
(* two numbers, attack and health, that the log gives one line at a time.  *)
(*                                                                         *)
(* One source stands for each handler of handleDntTagChange:               *)
(*   "absolute"  a total (beetles, undead, whelps, ...)                    *)
(*   "shop"      BG_ShopBuff, kept as differences per category             *)
(*   "elemental" BG_ShopBuff_Elemental, differences per entity             *)
(*   "sticker"   the Nomi sticker, one number for attack and health        *)
(*   "beast"     Leviathan's Wrath, one number, replayed with old values   *)
(* and "spell" for the tags of the player.  Duos has the partner's share.  *)
(***************************************************************************)
EXTENDS Integers, Sequences, FiniteSets

CONSTANTS
  Dnts,        \* the sources with a Dnt that a run has
  Cards,       \* the Overconfidence cards
  MaxGrowth,   \* bound on the growth of the sources together
  MaxGold,     \* bound on the gold for the next turn
  MaxTurn,     \* bound on the local player's turn
  MaxRejoins   \* bound on reconnects

ASSUME SourcesAssumption ==
  Dnts \subseteq {"absolute", "shop", "elemental", "sticker", "beast"}
ASSUME CardsAssumption == IsFiniteSet(Cards)
ASSUME BoundsAssumption ==
  /\ MaxGrowth \in Nat /\ MaxGold \in Nat /\ MaxTurn \in Nat \ {0} /\ MaxRejoins \in Nat

Attack     == 1
Health     == 2
Components == {Attack, Health}
Pair       == [Components -> Nat]
Zero       == <<0, 0>>
Categories == {"absolute", "shop", "nomi", "beast", "spell"}
CategoryOf == [absolute |-> "absolute", shop |-> "shop", elemental |-> "nomi",
               sticker |-> "nomi", beast |-> "beast"]
Gold       == [sure : Nat, bonus : Nat]
NoCounter  == [sure |-> 0, bonus |-> 0]

VARIABLES
  \* The game as the client plays and logs it.
  turn, stage,
  sd,          \* the two numbers of each Dnt
  tags,        \* the TAVERN_SPELL tags of the player
  owed,        \* lines about a Dnt still to be written
  extraGold,   \* BACON_PLAYER_EXTRA_GOLD_NEXT_TURN
  inPlay,      \* Overconfidence cards in PLAY
  rejoins,
  \* ActionBuilder
  bPhase,
  \* Processor: the buffTracker of the local player
  buffSourceState, shopBuffPrev, shopBuffGlobal, nomiCounter,
  goldNextTurnSure, overconfidenceCount,
  \* Machine
  buffSources, goldNextTurn, prevBuffSources,
  turnGrowth,  \* sum of the BuffDeltas of the turn snapshots
  \* History
  atCapture,   \* what was shown at the last snapshot
  older,       \* a reconnect, and the beasts' buff has not grown since
  missed,      \* tags that grew where the log's line is not taken
  forgotten,   \* cards in play at a reconnect, and since
  untold       \* a reconnect took the tag's gold, and no line has told it since

clientVars  == <<turn, stage, sd, tags, owed, extraGold, inPlay, rejoins>>
buffVars    == <<buffSourceState, shopBuffPrev, shopBuffGlobal, nomiCounter>>
goldVars    == <<goldNextTurnSure, overconfidenceCount, goldNextTurn, forgotten, untold>>
turnVars    == <<prevBuffSources, turnGrowth, atCapture>>
vars        == <<clientVars, bPhase, buffVars, goldVars, buffSources, turnVars, older, missed>>

Plus(p, q)   == [c \in Components |-> p[c] + q[c]]
Minus(p, q)  == [c \in Components |-> p[c] - q[c]]
Line(d, c)   == [dnt |-> d, component |-> c]
\* The lines about a Dnt, attack first; the one-number sources have one.
LinesOf(d)   == IF d \in {"sticker", "beast"} THEN <<Line(d, Attack)>>
                ELSE <<Line(d, Attack), Line(d, Health)>>
EmptyTracker == [c \in Categories |-> Zero]

TypeOK ==
  /\ turn \in 1..MaxTurn /\ stage \in {"recruit", "combat", "turning", "leaving"}
  /\ sd \in [Dnts -> Pair] /\ tags \in Pair
  /\ owed \in Seq([dnt : Dnts, component : Components])
  /\ extraGold \in 0..MaxGold /\ inPlay \subseteq Cards /\ rejoins \in 0..MaxRejoins
  /\ bPhase \in {"RECRUIT", "COMBAT"}
  /\ buffSourceState \in [Categories -> Pair]
  /\ shopBuffPrev \in [Dnts -> Pair] /\ shopBuffGlobal \in Pair /\ nomiCounter \in Pair
  /\ goldNextTurnSure \in 0..MaxGold /\ overconfidenceCount \in 0..Cardinality(Cards)
  /\ buffSources \in [Categories -> Pair] /\ goldNextTurn \in Gold
  /\ prevBuffSources \in [Categories -> Pair] /\ turnGrowth \in [Categories -> Pair]
  /\ atCapture \in [Categories -> Pair] /\ older \in BOOLEAN /\ missed \in BOOLEAN
  /\ forgotten \subseteq Cards /\ untold \in BOOLEAN

Init ==
  /\ turn = 1 /\ stage = "recruit" /\ sd = [d \in Dnts |-> Zero] /\ tags = Zero
  /\ owed = <<>> /\ extraGold = 0 /\ inPlay = {} /\ rejoins = 0
  /\ bPhase = "RECRUIT"
  /\ buffSourceState = EmptyTracker /\ shopBuffPrev = [d \in Dnts |-> Zero]
  /\ shopBuffGlobal = Zero /\ nomiCounter = Zero
  /\ goldNextTurnSure = 0 /\ overconfidenceCount = 0
  /\ buffSources = EmptyTracker /\ goldNextTurn = NoCounter
  /\ prevBuffSources = EmptyTracker /\ turnGrowth = EmptyTracker
  /\ atCapture = EmptyTracker /\ older = FALSE /\ missed = FALSE
  /\ forgotten = {} /\ untold = FALSE

-----------------------------------------------------------------------------
(* The handlers of one line about a Dnt: the number v of component c *)

SetBuffSource(category, p) == buffSources' = [buffSources EXCEPT ![category] = p]

HandleAbsoluteDnt(c, v) ==
  /\ buffSourceState' = [buffSourceState EXCEPT !["absolute"][c] = v]
  /\ SetBuffSource("absolute", buffSourceState'["absolute"])
  /\ UNCHANGED <<shopBuffPrev, shopBuffGlobal, nomiCounter>>

HandleGenericShopBuffDnt_summed(c, v) == \* mutant: the running total is added
  /\ shopBuffGlobal' = [shopBuffGlobal EXCEPT ![c] = v]
  /\ buffSourceState' = [buffSourceState EXCEPT !["shop"][c] = @ + v]
  /\ SetBuffSource("shop", buffSourceState'["shop"])
  /\ UNCHANGED <<shopBuffPrev, nomiCounter>>
HandleGenericShopBuffDnt(c, v) ==
  /\ shopBuffGlobal' = [shopBuffGlobal EXCEPT ![c] = v]
  /\ buffSourceState' = [buffSourceState EXCEPT !["shop"][c] = @ + v - shopBuffGlobal[c]]
  /\ SetBuffSource("shop", buffSourceState'["shop"])
  /\ UNCHANGED <<shopBuffPrev, nomiCounter>>

HandleShopBuffDnt(c, v) ==
  /\ shopBuffPrev' = [shopBuffPrev EXCEPT !["elemental"][c] = v]
  /\ nomiCounter' = [nomiCounter EXCEPT ![c] = @ + v - shopBuffPrev["elemental"][c]]
  /\ SetBuffSource("nomi", nomiCounter')
  /\ UNCHANGED <<buffSourceState, shopBuffGlobal>>

HandleNomiStickerDnt(v) ==
  LET delta == v - shopBuffPrev["sticker"][Attack]
  IN /\ shopBuffPrev' = [shopBuffPrev EXCEPT !["sticker"][Attack] = v]
     /\ nomiCounter' = Plus(nomiCounter, <<delta, delta>>)
     /\ SetBuffSource("nomi", nomiCounter')
     /\ UNCHANGED <<buffSourceState, shopBuffGlobal>>

HandleMaxDnt(v) ==
  /\ IF v <= buffSourceState["beast"][Attack]
     THEN UNCHANGED <<buffSourceState, buffSources>>
     ELSE /\ buffSourceState' = [buffSourceState EXCEPT !["beast"][Attack] = v]
          /\ SetBuffSource("beast", buffSourceState'["beast"])
  /\ UNCHANGED <<shopBuffPrev, shopBuffGlobal, nomiCounter>>

HandleDntTagChange(d, c, v) ==
  \/ d = "absolute" /\ HandleAbsoluteDnt(c, v)
  \/ d = "shop" /\ HandleGenericShopBuffDnt(c, v)
  \/ d = "elemental" /\ HandleShopBuffDnt(c, v)
  \/ d = "sticker" /\ HandleNomiStickerDnt(v)
  \/ d = "beast" /\ HandleMaxDnt(v)

Taken_always == TRUE \* mutant: no phase gate
\* buildTagChange drops a buff tag of the player outside the recruit phase.
Taken == bPhase = "RECRUIT"

\* OnPlayerTagChanged
UpdateBuffSourceFromPlayerTag(c, v) ==
  IF Taken
  THEN /\ buffSourceState' = [buffSourceState EXCEPT !["spell"][c] = v]
       /\ SetBuffSource("spell", buffSourceState'["spell"])
  ELSE UNCHANGED <<buffSourceState, buffSources>>

\* updateGoldNextTurnCounter: no counter is shown of nothing.
Counter(sure, count) == [sure |-> sure, bonus |-> 3 * count]

Decremented_below(n) == n - 1 \* mutant: not clamped
Decremented(n) == IF n = 0 THEN 0 ELSE n - 1

-----------------------------------------------------------------------------
(* The client's lines *)

Grown     == LET Of(p) == p[Attack] + p[Health]
                 OfDnt[S \in SUBSET Dnts] ==
                   IF S = {} THEN 0 ELSE LET d == CHOOSE x \in S : TRUE
                                         IN Of(sd[d]) + OfDnt[S \ {d}]
             IN OfDnt[Dnts] + Of(tags)
Steps(d)  == IF d \in {"sticker", "beast"} THEN {<<1, 0>>} ELSE {<<1, 0>>, <<0, 1>>, <<1, 1>>}
Playing   == stage \in {"recruit", "combat"} /\ owed = <<>>

\* A source grows; its numbers follow, one line each.
Grow(d, step) ==
  /\ Playing /\ Grown + step[Attack] + step[Health] <= MaxGrowth
  /\ sd' = [sd EXCEPT ![d] = Plus(@, step)]
  /\ owed' = LinesOf(d)
  /\ older' = (older /\ d # "beast")
  /\ UNCHANGED <<turn, stage, tags, extraGold, inPlay, rejoins, bPhase, buffVars,
                 goldVars, buffSources, turnVars, missed>>

DntLine ==
  /\ owed # <<>>
  /\ LET line == Head(owed)
     IN HandleDntTagChange(line.dnt, line.component, sd[line.dnt][line.component])
  /\ owed' = Tail(owed)
  /\ UNCHANGED <<turn, stage, sd, tags, extraGold, inPlay, rejoins, bPhase, goldVars,
                 turnVars, older, missed>>

\* A copy made for the combat carries the value its original had once.
ReplayLine(v) ==
  /\ Playing /\ stage = "combat" /\ "beast" \in Dnts /\ v \in 1..sd["beast"][Attack]
  /\ HandleDntTagChange("beast", Attack, v)
  /\ UNCHANGED <<clientVars, bPhase, goldVars, turnVars, older, missed>>

TagLine(c) ==
  /\ Playing /\ Grown < MaxGrowth
  /\ tags' = [tags EXCEPT ![c] = @ + 1]
  /\ UpdateBuffSourceFromPlayerTag(c, tags'[c])
  /\ missed' = (missed \/ ~Taken)
  /\ UNCHANGED <<turn, stage, sd, owed, extraGold, inPlay, rejoins, bPhase,
                 shopBuffPrev, shopBuffGlobal, nomiCounter, goldVars, turnVars, older>>

\* An enchantment that saves the tags for the combat zeroes them; what puts
\* them back is in the log of another source, which is not read.
TagZeroed(c) ==
  /\ Playing /\ stage = "combat"
  /\ UpdateBuffSourceFromPlayerTag(c, 0)
  /\ UNCHANGED <<clientVars, bPhase, shopBuffPrev, shopBuffGlobal, nomiCounter,
                 goldVars, turnVars, older, missed>>

\* OnEconomyChanged in the recruit phase, OnCombatEconomyEffect in a combat.
GoldLine(n) ==
  /\ Playing /\ extraGold' = n
  /\ goldNextTurnSure' = n /\ goldNextTurn' = Counter(n, overconfidenceCount)
  /\ untold' = FALSE
  /\ UNCHANGED <<turn, stage, sd, tags, owed, inPlay, rejoins, bPhase, buffVars,
                 overconfidenceCount, buffSources, turnVars, older, missed, forgotten>>

HandleOverconfidenceZone(count) ==
  /\ overconfidenceCount' = count /\ goldNextTurn' = Counter(goldNextTurnSure, count)
  /\ UNCHANGED goldNextTurnSure

PlayOverconfidence(card) ==
  /\ Playing /\ stage = "recruit" /\ card \notin inPlay
  /\ inPlay' = inPlay \cup {card}
  /\ HandleOverconfidenceZone(overconfidenceCount + 1)
  /\ UNCHANGED <<turn, stage, sd, tags, owed, extraGold, rejoins, bPhase, buffVars,
                 buffSources, turnVars, older, missed, forgotten, untold>>

\* The enchantments go to the graveyard after the player's TURN.
Leave(card) ==
  /\ stage = "leaving" /\ card \in inPlay
  /\ inPlay' = inPlay \ {card}
  /\ HandleOverconfidenceZone(Decremented(overconfidenceCount))
  /\ stage' = IF inPlay' = {} THEN "recruit" ELSE "leaving"
  /\ forgotten' = forgotten \ {card}
  /\ UNCHANGED <<turn, sd, tags, owed, extraGold, rejoins, bPhase, buffVars, buffSources,
                 turnVars, older, missed, untold>>

StartCombat ==
  /\ Playing /\ stage = "recruit" /\ stage' = "combat" /\ bPhase' = "COMBAT"
  /\ UNCHANGED <<turn, sd, tags, owed, extraGold, inPlay, rejoins, buffVars, goldVars,
                 buffSources, turnVars, older, missed>>

\* TURN of the GameEntity, odd.
EndCombat ==
  /\ Playing /\ stage = "combat" /\ turn < MaxTurn
  /\ stage' = "turning" /\ bPhase' = "RECRUIT"
  /\ UNCHANGED <<turn, sd, tags, owed, extraGold, inPlay, rejoins, buffVars, goldVars,
                 buffSources, turnVars, older, missed>>

\* captureTurnSnapshot adds the BuffDeltas of the turn that ends.
CaptureTurnSnapshot ==
  /\ turnGrowth' = [k \in Categories |->
                     Plus(turnGrowth[k], Minus(buffSources[k], prevBuffSources[k]))]
  /\ prevBuffSources' = buffSources /\ atCapture' = buffSources

\* OnPlayerBGTurnChanged: the count starts again, the snapshot is taken.
PlayerTurn ==
  /\ stage = "turning" /\ turn' = turn + 1
  /\ stage' = IF inPlay = {} THEN "recruit" ELSE "leaving"
  /\ overconfidenceCount' = 0
  /\ goldNextTurn' = IF overconfidenceCount > 0 THEN Counter(goldNextTurnSure, 0)
                     ELSE goldNextTurn
  /\ CaptureTurnSnapshot
  /\ UNCHANGED <<sd, tags, owed, extraGold, inPlay, rejoins, bPhase, buffVars,
                 goldNextTurnSure, buffSources, older, missed, forgotten, untold>>

-----------------------------------------------------------------------------
(* Reconnect: the tracker is emptied, the machine's record comes back from  *)
(* the stash, and the new CREATE_GAME declares the Dnts with their numbers. *)

RestoredPrev_lost == EmptyTracker \* mutant: prevBuffSources is not stashed
RestoredPrev == prevBuffSources

\* handleEnchantmentEntity: the numbers that are not zero.
Nonzero(ds, d, c) ==
  IF d \in ds /\ Line(d, c) \in {LinesOf(d)[i] : i \in DOMAIN LinesOf(d)} /\ sd[d][c] # 0
  THEN <<Line(d, c)>> ELSE <<>>
Numbers(ds, d) == Nonzero(ds, d, Attack) \o Nonzero(ds, d, Health)
Declared(ds)   == Numbers(ds, "absolute") \o Numbers(ds, "shop")
                    \o Numbers(ds, "elemental") \o Numbers(ds, "sticker")

\* The beast with the highest value may have been sold: the ones declared then
\* have older values, or there is none.  The Overconfidence cards in play are
\* declared too, by FULL_ENTITY, which handleOverconfidenceZone does not count.
Reconnect(best) ==
  /\ Playing /\ rejoins < MaxRejoins /\ rejoins' = rejoins + 1
  /\ best \in IF "beast" \in Dnts THEN 0..sd["beast"][Attack] ELSE {0}
  /\ buffSourceState' = [EmptyTracker EXCEPT !["beast"] = <<best, 0>>]
  /\ shopBuffPrev' = [d \in Dnts |-> Zero] /\ shopBuffGlobal' = Zero /\ nomiCounter' = Zero
  /\ buffSources' = IF best = 0 THEN buffSources
                    ELSE [buffSources EXCEPT !["beast"] = <<best, 0>>]
  /\ owed' = Declared(Dnts \ {"beast"})
  /\ older' = TRUE
  /\ goldNextTurnSure' = 0 /\ overconfidenceCount' = 0
  /\ forgotten' = inPlay /\ untold' = (extraGold # 0)
  /\ prevBuffSources' = RestoredPrev
  /\ UNCHANGED <<turn, stage, sd, tags, extraGold, inPlay, bPhase, goldNextTurn,
                 turnGrowth, atCapture, missed>>

Next ==
  \/ \E d \in Dnts : \E step \in Steps(d) : Grow(d, step)
  \/ DntLine \/ \E v \in 1..MaxGrowth : ReplayLine(v)
  \/ \E c \in Components : TagLine(c) \/ TagZeroed(c)
  \/ \E n \in 0..MaxGold : GoldLine(n)
  \/ \E card \in Cards : PlayOverconfidence(card) \/ Leave(card)
  \/ StartCombat \/ EndCombat \/ PlayerTurn
  \/ \E best \in 0..MaxGrowth : Reconnect(best)

Spec == Init /\ [][Next]_vars

-----------------------------------------------------------------------------
\* What the sources carry, category by category.
Carried(d) == IF d \in Dnts THEN sd[d] ELSE Zero
Total == [absolute |-> Carried("absolute"), shop |-> Carried("shop"),
          nomi |-> Plus(Carried("elemental"),
                        <<Carried("sticker")[Attack], Carried("sticker")[Attack]>>),
          beast |-> Carried("beast")]

\* Once the lines of a change are read, every buff shown is what its sources
\* carry, over combats that replay old values and through a reconnect, where
\* the running totals come again (handleGenericShopBuffDnt, handleMaxDnt).  The
\* beasts' buff is excepted from a reconnect until it grows again, as the one
\* with the highest value may be gone from the board.
BuffsShown ==
  owed = <<>> => \A k \in Categories \ {"spell"} :
                   buffSources[k] = Total[k] \/ (k = "beast" /\ older)

\* The buff of the player's spells is the player's tags, whatever a combat
\* saves and zeroes (OnPlayerTagChanged), as long as no growth fell in a combat
\* and the tags were not forgotten in a reconnect.
TagsShown == missed \/ rejoins > 0 \/ buffSources["spell"] = tags

\* The growth the turns of a game report is what was shown at the last turn's
\* end, a reconnect in a turn included (captureTurnSnapshot).
DeltasAddUp == turnGrowth = atCapture

\* While the player can act, the gold promised for the next turn is the tag and
\* three for each Overconfidence in play: cards that leave after the count was
\* reset do not eat into the next turn's (handleOverconfidenceZone).  A reconnect
\* makes two exceptions: the cards in play then are not counted again (the zone
\* change of a FULL_ENTITY is not seen), so that any part of them may be missing
\* for as long as they stay, and the tag may be shown as 0 until it changes.
GoldExact ==
  stage \in {"recruit", "combat"} =>
    /\ goldNextTurn.sure = extraGold \/ (untold /\ goldNextTurn.sure = 0)
    /\ goldNextTurn.bonus >= 3 * Cardinality(inPlay \ forgotten)
    /\ goldNextTurn.bonus <= 3 * Cardinality(inPlay)

\* A comment of handleOverconfidenceZone, processor.go:1873: "Each active
\* Overconfidence contributes +3 potential gold next turn"; without exceptions.
GoldOverReconnects ==
  stage \in {"recruit", "combat"}
    => goldNextTurn = Counter(extraGold, Cardinality(inPlay))
=============================================================================
