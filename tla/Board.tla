------------------------------- MODULE Board -------------------------------
(***************************************************************************)
(* The local player's board over the recruit and combat phases of a solo   *)
(* game: the minions the log puts into play and takes out of it, the       *)
(* snapshot of the recruit board that GameEnd brings back, the combat      *)
(* copies whose stats raise it, and the counters that are fed on the way.  *)
(*                                                                         *)
(* A minion has one stat here: ATK and HEALTH take the same path.  An      *)
(* entity is the number of its FULL_ENTITY.  Reconnects are Lifecycle's.   *)
(***************************************************************************)
EXTENDS Integers, Sequences, FiniteSets, Functions

CONSTANTS
  Cards,        \* card IDs
  MaxStat,      \* bound on a minion's stat
  MaxBoard,     \* minions a board holds; the source's 7
  MaxEntities,  \* bound on the minions ever created
  MaxForced,    \* the same for a game whose record is forced over
  MaxTurn       \* bound on the GameEntity TURN

ASSUME BoundsAssumption ==
  /\ MaxStat \in Nat \ {0} /\ MaxBoard \in Nat \ {0} /\ MaxTurn \in Nat
  /\ MaxEntities \in Nat /\ MaxForced \in Nat

Stats  == 1..MaxStat
Deltas == (-MaxStat)..MaxStat

VARIABLES
  \* The game as the client logs it.
  ents,      \* ents[e]: card, side, the minion it is a copy of (0: none), turn
  zone,      \* zone[e]; GONE for one sold, merged, dead or removed
  geTurn,    \* GameEntity TURN
  stage,     \* how far the client is in the turn
  \* Processor
  stat,      \* entityProps: the stat last logged
  copies,    \* combatCopies: entity -> highest stat
  gate,      \* tripleFormationActive
  pending,   \* pendingStatChanges, their deltas
  \* Machine
  phase, board, snapshot,
  slotOf,    \* combatCopySlotMap
  sold,      \* the MINIONS_SOLD counter
  mods,      \* Modifications: the turn and the delta of each
  \* History
  truth,     \* the recruit board: minion -> best stat known of it
  sales, merged, \* minions sold, minions merged into triples
  forced     \* CheckStaleness ended the record of a game in progress

clientVars  == <<ents, zone, geTurn, stage>>
procVars    == <<stat, copies, gate, pending>>
machineVars == <<phase, board, snapshot, slotOf, sold, mods>>
ghostVars   == <<truth, sales, merged, forced>>
vars        == <<clientVars, procVars, machineVars, ghostVars>>

Entities == 1..Len(ents)
Minion   == [id : Nat \ {0}, stat : Stats]
Entity   == [card : Cards, side : {"own", "foe"}, of : Nat, turn : Nat]
Zones    == {"PLAY", "HAND", "SETASIDE", "GONE"}

IDs(b)       == {b[i].id : i \in DOMAIN b}
Distinct(b)  == \A i, j \in DOMAIN b : b[i].id = b[j].id => i = j
CardOf(e)    == ents[e].card
InPlay       == {e \in Entities : zone[e] = "PLAY"}
Lineup       == [e \in InPlay |-> stat[e]]
Larger(m, n) == IF m > n THEN m ELSE n
Empty        == [e \in {} |-> 0]

TypeOK ==
  /\ ents \in Seq(Entity) /\ zone \in [Entities -> Zones] /\ geTurn \in Nat
  /\ stage \in {"recruit", "ending", "combat", "after", "over"}
  /\ stat \in [Entities -> Stats] /\ gate \in BOOLEAN /\ pending \in Seq(Deltas)
  /\ DOMAIN copies \subseteq Entities /\ \A e \in DOMAIN copies : copies[e] \in Stats
  /\ phase \in {"RECRUIT", "COMBAT", "GAME_OVER"}
  /\ board \in Seq(Minion) /\ Len(board) <= MaxBoard /\ Distinct(board)
  /\ snapshot \in Seq(Minion) /\ Len(snapshot) <= MaxBoard /\ Distinct(snapshot)
  /\ DOMAIN slotOf \subseteq Entities /\ \A e \in DOMAIN slotOf : slotOf[e] \in 1..MaxBoard
  /\ sold \in Nat /\ mods \subseteq Nat \X Deltas
  /\ DOMAIN truth \subseteq Entities /\ sales \in Nat /\ merged \in Nat
  /\ forced \in BOOLEAN

Init ==
  /\ ents = <<>> /\ zone = <<>> /\ geTurn = 1 /\ stage = "recruit"
  /\ stat = <<>> /\ copies = Empty /\ gate = FALSE /\ pending = <<>>
  /\ phase = "RECRUIT" /\ board = <<>> /\ snapshot = <<>> /\ slotOf = Empty
  /\ sold = 0 /\ mods = {}
  /\ truth = Empty /\ sales = 0 /\ merged = 0 /\ forced = FALSE

-----------------------------------------------------------------------------
(* Machine *)

Upsert_noCap(b, m) == \* mutant: an eighth minion is added
  IF m.id \in IDs(b) THEN [i \in DOMAIN b |-> IF b[i].id = m.id THEN m ELSE b[i]]
  ELSE Append(b, m)
Upsert(b, m) ==
  IF m.id \in IDs(b) THEN [i \in DOMAIN b |-> IF b[i].id = m.id THEN m ELSE b[i]]
  ELSE IF Len(b) < MaxBoard THEN Append(b, m) ELSE b

UpdateMinionStat(b, e, v) ==
  [i \in DOMAIN b |-> IF b[i].id = e THEN [b[i] EXCEPT !.stat = v] ELSE b[i]]

\* The others close up; no other minion on a board has the ID.
PlaceOf(b, e) == CHOOSE i \in DOMAIN b : b[i].id = e
RemoveMinion(b, e) ==
  IF e \notin IDs(b) THEN b
  ELSE [i \in 1..(Len(b) - 1) |-> IF i < PlaceOf(b, e) THEN b[i] ELSE b[i + 1]]

\* UpdateBoardSnapshot, which every caller in the processor runs in RECRUIT only.
Mirrored_inCombat(b) == IF phase # "GAME_OVER" THEN b ELSE snapshot \* mutant
Mirrored(b) == IF phase = "RECRUIT" THEN b ELSE snapshot

\* UpdateSnapshotFromCombatCopy: the slot of the copy, or the first free one with
\* its card; no slot at all without a snapshot.
SlotFor(snap, e, card) ==
  LET free == {i \in DOMAIN snap : CardOf(snap[i].id) = card /\ i \notin Range(slotOf)}
  IN  CASE snap = <<>>         -> {}
        [] snap # <<>> /\ e \in DOMAIN slotOf -> {slotOf[e]}
        [] OTHER               -> {i \in free : \A j \in free : i <= j}

Raise_overwrite(snap, slots, v) == \* mutant: the last stat shown wins
  [i \in DOMAIN snap |-> IF i \in slots THEN [snap[i] EXCEPT !.stat = v] ELSE snap[i]]
Raise(snap, slots, v) ==
  [i \in DOMAIN snap |->
     IF i \in slots THEN [snap[i] EXCEPT !.stat = Larger(@, v)] ELSE snap[i]]

Claim(e, slots) ==
  [f \in DOMAIN slotOf \cup {x \in {e} : slots # {}} |->
     IF f \in DOMAIN slotOf THEN slotOf[f] ELSE CHOOSE i \in slots : TRUE]

Trim(b) == IF Len(b) > MaxBoard THEN SubSeq(b, 1, MaxBoard) ELSE b

GameEnd ==
  /\ phase' = "GAME_OVER"
  /\ board' = IF snapshot = <<>> THEN board ELSE Trim(snapshot)
  /\ snapshot' = <<>>
  /\ UNCHANGED <<slotOf, sold>>

-----------------------------------------------------------------------------
(* Processor *)

\* tryAddMinionFromRegistry and OnMinionRegistered, for a minion in PLAY.
AddMinion(m) ==
  /\ board' = IF phase = "GAME_OVER" THEN board ELSE Upsert(board, m)
  /\ snapshot' = Mirrored(board')
  /\ UNCHANGED <<phase, slotOf, sold, mods, copies, gate, pending>>

\* OnMinionRegistered, for a combat copy: its peak is kept and raises the snapshot.
RegisterCopy(e, card, v) ==
  /\ IF phase = "COMBAT"
     THEN LET slots == SlotFor(snapshot, e, card) IN
          /\ copies' = [f \in DOMAIN copies \cup {e} |-> IF f = e THEN v ELSE copies[f]]
          /\ snapshot' = Raise(snapshot, slots, v)
          /\ slotOf' = Claim(e, slots)
     ELSE UNCHANGED <<copies, snapshot, slotOf>>
  /\ UNCHANGED <<phase, board, sold, mods, gate, pending>>

\* The registry's value when updateMinionStatByID reads it: handleTagChange has
\* written the new one before the call.
OldValue(e, v) == v

PendingAfter(e, v) ==
  IF phase # "COMBAT" /\ OldValue(e, v) # v THEN Append(pending, v - OldValue(e, v))
  ELSE pending

\* HEALTH or ATK: the board, its mirror in RECRUIT, then the peak of a copy.
SetStat(e, v) ==
  LET onBoard  == e \in IDs(board)
      mirrored == IF onBoard THEN Mirrored(board') ELSE snapshot
      higher   == e \in DOMAIN copies /\ v > copies[e]
      slots    == IF higher THEN SlotFor(mirrored, e, CardOf(e)) ELSE {}
  IN  /\ stat' = [stat EXCEPT ![e] = v]
      /\ board' = UpdateMinionStat(board, e, v)
      /\ pending' = PendingAfter(e, v)
      /\ copies' = IF higher THEN [copies EXCEPT ![e] = v] ELSE copies
      /\ snapshot' = Raise(mirrored, slots, v)
      /\ slotOf' = IF higher THEN Claim(e, slots) ELSE slotOf
      /\ UNCHANGED <<phase, sold, mods, gate>>

CountsAsSold_always(e, to) == e \in IDs(board) /\ ~gate /\ to # "HAND" \* mutant: deaths too
CountsAsSold(e, to) ==
  phase = "RECRUIT" /\ e \in IDs(board) /\ ~gate /\ to # "HAND"

OnMinionSold_recruitOnly(e, to) == \* mutant: a death in combat leaves the board as it is
  IF phase # "RECRUIT" THEN UNCHANGED <<board, snapshot, sold>>
  ELSE /\ board' = RemoveMinion(board, e)
       /\ snapshot' = Mirrored(board')
       /\ sold' = IF CountsAsSold(e, to) THEN sold + 1 ELSE sold
\* A minion leaves PLAY; handleTagChange makes nothing of it once the record is over.
OnMinionSold(e, to) ==
  IF phase = "GAME_OVER" THEN UNCHANGED <<board, snapshot, sold>>
  ELSE /\ board' = RemoveMinion(board, e)
       /\ snapshot' = Mirrored(board')
       /\ sold' = IF CountsAsSold(e, to) THEN sold + 1 ELSE sold

\* flushPendingStatChanges.
Flush ==
  /\ mods' = mods \cup {<<geTurn, d>> : d \in {x \in Deltas :
               Cardinality({i \in DOMAIN pending : pending[i] = x}) >= 2}}
  /\ pending' = <<>>

\* pruneStaleEntities: what is known of a minion that is gone is forgotten.
Pruned == [e \in Entities |-> IF zone[e] = "GONE" THEN 1 ELSE stat[e]]

\* OnTurnTransition and SetGameEntityTurn.
CopiesAfter_kept(t) == copies \* mutant: copies of the last combat stay tracked
CopiesAfter(t) == IF t % 2 = 1 THEN Empty ELSE copies

OnTurnTransition(t) ==
  /\ Flush
  /\ gate' = FALSE
  /\ copies' = CopiesAfter(t)
  /\ stat' = IF t % 2 = 1 THEN Pruned ELSE stat
  /\ phase' = IF t % 2 = 1 THEN "RECRUIT" ELSE "COMBAT"
  /\ snapshot' = IF t % 2 = 1 THEN snapshot ELSE board
  /\ slotOf' = IF t % 2 = 1 THEN slotOf ELSE Empty
  /\ UNCHANGED <<board, sold>>

-----------------------------------------------------------------------------
(* The client: recruit phase *)

\* History of a recruit event, kept until a forced end.
Remember(sells, merges) ==
  IF forced THEN UNCHANGED <<truth, sales, merged>>
  ELSE truth' = Lineup' /\ sales' = sales + sells /\ merged' = merged + merges

Acts == stage = "recruit"

\* A minion created into a zone, its stat still the base of its card.
Create(card, side, of, to) ==
  /\ Len(ents) < (IF forced THEN MaxForced ELSE MaxEntities)
  /\ ents' = Append(ents, [card |-> card, side |-> side, of |-> of, turn |-> geTurn])
  /\ zone' = Append(zone, to)
  /\ stat' = Append(stat, 1)

Leave(e, to) ==
  /\ zone' = [zone EXCEPT ![e] = to]
  /\ OnMinionSold(e, to)
  /\ UNCHANGED <<ents, geTurn, stat, copies, pending, phase, slotOf, mods>>

\* A minion bought and played, in one block.
Buy(card) ==
  /\ Acts /\ Cardinality(InPlay) < MaxBoard
  /\ Create(card, "own", 0, "PLAY")
  /\ AddMinion([id |-> Len(ents'), stat |-> 1])
  /\ Remember(0, 0)
  /\ UNCHANGED <<geTurn, stage, forced>>

Replay(e) ==
  /\ Acts /\ zone[e] = "HAND" /\ Cardinality(InPlay) < MaxBoard
  /\ zone' = [zone EXCEPT ![e] = "PLAY"]
  /\ UNCHANGED <<ents, geTurn, stage, stat, forced>>
  /\ AddMinion([id |-> e, stat |-> stat[e]])
  /\ Remember(0, 0)

Sell(e) ==
  /\ Acts /\ e \in InPlay
  /\ Leave(e, "GONE")
  /\ Remember(1, 0)
  /\ UNCHANGED <<stage, gate, forced>>

Bounce(e) ==
  /\ Acts /\ e \in InPlay
  /\ Leave(e, "HAND")
  /\ Remember(0, 0)
  /\ UNCHANGED <<stage, gate, forced>>

\* A minion on the board merges with others, there or in the hand, into a golden one
\* that goes to the hand.  After the last of them PLAYER_TRIPLES closes the gate;
\* TB_BaconShop_3ofKindChecke stays in play.
Merge(e) ==
  /\ Acts /\ e \in InPlay
  /\ Leave(e, "GONE")
  /\ gate' \in {gate, FALSE}
  /\ Remember(0, 1)
  /\ UNCHANGED <<stage, forced>>

\* The turn ends with TB_BaconShop_3ofKindChecke going to the GRAVEYARD.
EndOfTurn ==
  /\ Acts /\ stage' = "ending"
  /\ gate' = (gate \/ phase # "GAME_OVER")
  /\ UNCHANGED <<ents, zone, geTurn, stat, copies, pending, machineVars, ghostVars>>

-----------------------------------------------------------------------------
(* The client: combat *)

Aside(e)    == zone[e] = "SETASIDE" /\ ents[e].turn = geTurn /\ geTurn % 2 = 0
CopyOf(f)   == {e \in Entities : ents[e].of = f /\ ents[e].turn = geTurn}
Fighters    == {e \in InPlay : ents[e].turn < geTurn}
AllCopied   == \A f \in Fighters : CopyOf(f) # {}
Returned(e) == ents[e].turn = geTurn /\ ents[e].of # 0

StartCombat ==
  /\ stage = "ending" /\ geTurn < MaxTurn
  /\ geTurn' = geTurn + 1 /\ stage' = "combat"
  /\ UNCHANGED <<ents, zone, forced>>
  /\ OnTurnTransition(geTurn')
  /\ Remember(0, 0)

\* The copy that will be the minion of the next recruit phase, its stats still base.
OwnCopy(f) ==
  /\ stage = "combat" /\ f \in Fighters /\ CopyOf(f) = {}
  /\ Create(CardOf(f), "own", f, "SETASIDE")
  /\ RegisterCopy(Len(ents'), CardOf(f), 1)
  /\ UNCHANGED <<geTurn, stage, ghostVars>>

\* A copy of an opponent's minion: its CONTROLLER is the local player too.
FoeCopy(card) ==
  /\ stage = "combat"
  /\ Create(card, "foe", 0, "SETASIDE")
  /\ RegisterCopy(Len(ents'), card, 1)
  /\ UNCHANGED <<geTurn, stage, ghostVars>>

\* A stat is logged for a minion in play or for a copy.
StatChange(e, v) ==
  /\ stage # "over" /\ v # stat[e]
  /\ e \in InPlay \/ Aside(e)
  /\ UNCHANGED <<clientVars, forced>>
  /\ SetStat(e, v)
  /\ IF stage \in {"recruit", "ending"} THEN Remember(0, 0)
     ELSE /\ UNCHANGED <<sales, merged>>
          /\ truth' = [f \in DOMAIN truth |->
                        IF e \in CopyOf(f) THEN Larger(truth[f], v) ELSE truth[f]]

Die(e) ==
  /\ stage = "combat" /\ AllCopied /\ e \in InPlay
  /\ Leave(e, "GONE")
  /\ UNCHANGED <<stage, gate, ghostVars>>

\* A deathrattle summons a token.
Summon(card) ==
  /\ stage = "combat" /\ AllCopied /\ Cardinality(InPlay) < MaxBoard
  /\ \E e \in Entities : zone[e] = "GONE" /\ CopyOf(e) # {}
  /\ Create(card, "own", 0, "PLAY")
  /\ AddMinion([id |-> Len(ents'), stat |-> 1])
  /\ UNCHANGED <<geTurn, stage, ghostVars>>

\* After the combat what is left of it is removed, and the copies take its place.
Clear(e) ==
  /\ stage \in {"combat", "after"} /\ AllCopied /\ e \in InPlay /\ ~Returned(e)
  /\ stage' = "after"
  /\ Leave(e, "GONE")
  /\ UNCHANGED <<gate, ghostVars>>

ReturnCopy(e) ==
  /\ stage \in {"combat", "after"} /\ AllCopied
  /\ Aside(e) /\ Returned(e) /\ \A f \in InPlay : Returned(f)
  /\ stage' = "after"
  /\ zone' = [zone EXCEPT ![e] = "PLAY"]
  /\ AddMinion([id |-> e, stat |-> stat[e]])
  /\ UNCHANGED <<ents, geTurn, stat, ghostVars>>

StartRecruit ==
  /\ stage \in {"combat", "after"} /\ AllCopied /\ geTurn < MaxTurn
  /\ \A e \in InPlay : Returned(e)
  /\ \A e \in Entities : Returned(e) => zone[e] = "PLAY"
  /\ geTurn' = geTurn + 1 /\ stage' = "recruit"
  /\ OnTurnTransition(geTurn')
  /\ UNCHANGED <<ents, zone, truth, sales, merged, forced>>

-----------------------------------------------------------------------------
(* The end *)

\* STATE=COMPLETE, at any moment: the player leaves, dies or wins.
Complete ==
  /\ stage # "over" /\ stage' = "over"
  /\ Flush /\ GameEnd
  /\ UNCHANGED <<ents, zone, geTurn, stat, copies, gate, truth, sales, merged, forced>>

\* CheckStaleness: the record ends, the game may go on.
Timeout ==
  /\ stage # "over" /\ phase # "GAME_OVER" /\ Len(ents) <= MaxForced
  /\ GameEnd
  /\ forced' = TRUE /\ truth' = Empty /\ sales' = 0 /\ merged' = 0
  /\ UNCHANGED <<clientVars, procVars, mods>>

Recruit == \/ \E c \in Cards : Buy(c)
           \/ \E e \in Entities : Replay(e) \/ Sell(e) \/ Bounce(e) \/ Merge(e)
           \/ EndOfTurn

Combat == \/ StartCombat
          \/ \E e \in Entities : OwnCopy(e)
          \/ \E c \in Cards : FoeCopy(c) \/ Summon(c)
          \/ \E e \in Entities : Die(e) \/ Clear(e) \/ ReturnCopy(e)
          \/ StartRecruit

Next == \/ Recruit \/ Combat
        \/ \E e \in Entities, v \in Stats : StatChange(e, v)
        \/ Complete \/ Timeout

Spec == Init /\ [][Next]_vars

-----------------------------------------------------------------------------
(* What the record promises *)

\* A combat copy raises the snapshot entry it was given, by an index kept across
\* events: the entry is still there, of its card, and no other copy's.  Were the
\* index out of range the daemon would panic.
SlotsFit ==
  LET claiming == DOMAIN copies \cap DOMAIN slotOf IN
  snapshot # <<>> =>
    /\ \A e \in claiming : /\ slotOf[e] \in DOMAIN snapshot
                           /\ CardOf(snapshot[slotOf[e]].id) = CardOf(e)
    /\ \A e, f \in claiming : slotOf[e] = slotOf[f] => e = f

\* Until the game is over the board is the minions in play, with the stats last
\* logged, through the deaths of a combat and the return of its copies.
BoardInPlay ==
  ~forced /\ stage # "over" =>
    IDs(board) = InPlay /\ \A i \in DOMAIN board : board[i].stat = stat[board[i].id]

\* However the game ends, and wherever in a turn, the final board is the last one
\* the player had in a recruit phase: nothing sold, nothing that fought, no token.
RecruitBoardRestored == ~forced /\ stage = "over" => IDs(board) = DOMAIN truth

\* The copies of the last combat.
CombatTurn == geTurn - (geTurn % 2)
OwnCards(e)    == {f \in DOMAIN truth : f # e /\ CardOf(f) = CardOf(e)}
OtherCopies(e) == {f \in Entities : /\ ents[f].turn = CombatTurn /\ CardOf(f) = CardOf(e)
                                    /\ ents[f].of \notin {0, e} \/ ents[f].side = "foe"}

\* The final board shows of each minion whose card is its own in the fight the best
\* stat known of it: its last in the recruit phase, or more if its copy showed more.
StatsRecovered ==
  ~forced /\ stage = "over" =>
    \A i \in DOMAIN board : LET e == board[i].id IN
      OwnCards(e) = {} /\ OtherCopies(e) = {} => board[i].stat = truth[e]

\* Each minion that leaves the board in a recruit phase other than to the hand
\* counts once, and none that dies in combat or goes when its copies return.
SoldExact == ~forced => sold = sales + merged

-----------------------------------------------------------------------------
(* What the documentation says and the code does not do *)

\* "Ensures final board has recruit stats": with one minion of each card, no final
\* stat is above what the minion and its own copy have shown.
RecruitStatsRestored ==
  ~forced /\ stage = "over" =>
    \A i \in DOMAIN board : LET e == board[i].id IN
      OwnCards(e) = {} => board[i].stat <= truth[e]

\* "During recruit phase, ATK/HEALTH changes on board minions are buffered", for a
\* change of two or more to be recorded as a modification.
RecruitChangesBuffered ==
  [][\A i \in DOMAIN board : LET e == board[i].id IN
       phase = "RECRUIT" /\ stat'[e] # stat[e] => Len(pending') > Len(pending)]_vars

\* "Triple-consumed board minions are not counted as sells".
TriplesNotSold == ~forced => sold <= sales
=============================================================================
