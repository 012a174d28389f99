----------------------------- MODULE BoardProofs -----------------------------
(* Theorems of Board, for any cards and stats, boards of any size and games of *)
(* any length.                                                                 *)
EXTENDS Board, FiniteSetTheorems, SequenceTheorems, TLAPS

-----------------------------------------------------------------------------
(* The inductive invariant *)

\* The phase of the record is that of the client's turn, until the record is over.
PhaseOfStage ==
  /\ phase = "RECRUIT" => stage \in {"recruit", "ending"}
  /\ phase = "COMBAT" => stage \in {"combat", "after"}
  /\ phase = "GAME_OVER" => snapshot = <<>> /\ (forced \/ stage = "over")
  /\ stage \in {"recruit", "ending"} => geTurn % 2 = 1
  /\ stage \in {"combat", "after"} => geTurn % 2 = 0
  /\ stage = "over" => phase = "GAME_OVER"

\* An entity was created in a turn that has begun.
Made == \A e \in Entities : ents[e].turn <= geTurn

Known == IDs(board) \subseteq Entities /\ IDs(snapshot) \subseteq Entities

\* The copies of the combat that will return, one of each minion.
Returning == {e \in Entities : Returned(e)}
OneCopyEach ==
  /\ stage \in {"recruit", "ending"} => Returning = {}
  /\ \A e, f \in Returning : ents[e].of = ents[f].of => e = f

\* The gate of a triple is open at most from the end of a turn to its combat.
GateShut == gate => stage \in {"ending", "over"}

\* The entities that follow a slot are copies of this combat, of the slot's card.
Copy(e) == ents[e].turn = geTurn /\ (ents[e].of # 0 \/ ents[e].side = "foe")
SlotsClaimed ==
  /\ stage \in {"recruit", "ending"} => DOMAIN copies = {}
  /\ phase = "COMBAT" =>
       /\ \A e \in DOMAIN copies \cup DOMAIN slotOf : Copy(e)
       /\ \A e \in DOMAIN slotOf : /\ slotOf[e] \in DOMAIN snapshot
                                   /\ CardOf(snapshot[slotOf[e]].id) = CardOf(e)
       /\ \A e, f \in DOMAIN slotOf : slotOf[e] = slotOf[f] => e = f

\* The snapshot is of the last recruit board, and every minion that is still to be
\* copied, or was, is on it.
SnapshotKept ==
  /\ IDs(snapshot) = DOMAIN truth
  /\ snapshot = <<>> => board = <<>>
  /\ stage \in {"combat", "after"} =>
       Fighters \subseteq DOMAIN truth /\ \A e \in Returning : ents[e].of \in DOMAIN truth

\* A minion whose card is its own has the stat that is known of it, and in a combat
\* its copy, once there, follows its slot.
Alone(e) == OwnCards(e) = {} /\ OtherCopies(e) = {}
StatsKept ==
  \A i \in DOMAIN snapshot : LET e == snapshot[i].id IN
    Alone(e) =>
      /\ snapshot[i].stat = truth[e]
      /\ phase = "COMBAT" => \A c \in CopyOf(e) :
           /\ c \in DOMAIN copies /\ copies[c] <= truth[e]
           /\ c \in DOMAIN slotOf /\ slotOf[c] = i

InGame == ~forced /\ stage # "over"

BoardInv ==
  /\ TypeOK /\ PhaseOfStage /\ Made /\ Known /\ OneCopyEach /\ GateShut /\ SlotsClaimed
  /\ InGame => BoardInPlay /\ SnapshotKept /\ StatsKept
  /\ RecruitBoardRestored /\ StatsRecovered /\ SoldExact

-----------------------------------------------------------------------------
(* Lemmas about boards *)

\* A function on the first numbers is a sequence.
LEMMA FunctionIsSeq ==
  ASSUME NEW S, NEW n \in Nat, NEW f \in [1..n -> S]
  PROVE  f \in Seq(S) /\ Len(f) = n
<1>1. f \in Seq(S)
  BY SeqDef
<1>2. 1..Len(f) = 1..n /\ Len(f) \in Nat
  BY <1>1, LenProperties
<1>3. Len(f) = n
  <2>1. CASE n = 0
    BY <1>2, <2>1
  <2>2. CASE n > 0
    <3>1. n \in 1..Len(f)
      BY <1>2, <2>2
    <3>2. Len(f) \in 1..n
      BY <1>2, <3>1
    <3> QED
      BY <1>2, <3>1, <3>2
  <2> QED
    BY <2>1, <2>2
<1> QED
  BY <1>1, <1>3

\* A board of the machine: the minions are different ones, and fit.
IsBoard(b) == b \in Seq(Minion) /\ Len(b) <= MaxBoard /\ Distinct(b)

\* The same minions in the same places, whatever their stats.
SameMinions(b, c) == DOMAIN c = DOMAIN b /\ \A i \in DOMAIN b : c[i].id = b[i].id

\* A board's places, and what is in them.
LEMMA SeqDomain ==
  ASSUME NEW b, IsBoard(b)
  PROVE  /\ Len(b) \in Nat /\ DOMAIN b = 1..Len(b) /\ b \in [1..Len(b) -> Minion]
         /\ \A i \in DOMAIN b : b[i] \in Minion /\ b[i].id \in Nat \ {0} /\ b[i].stat \in Stats
         /\ b = <<>> <=> DOMAIN b = {}
         /\ b = <<>> <=> IDs(b) = {}
<1>1. Len(b) \in Nat /\ DOMAIN b = 1..Len(b) /\ b \in [1..Len(b) -> Minion]
  BY LenProperties DEF IsBoard
<1>2. \A i \in DOMAIN b : b[i] \in Minion /\ b[i].id \in Nat \ {0} /\ b[i].stat \in Stats
  BY <1>1 DEF Minion
<1>3. b = <<>> <=> Len(b) = 0
  BY EmptySeq DEF IsBoard
<1>4. Len(b) = 0 <=> DOMAIN b = {}
  <2>1. Len(b) > 0 => 1 \in DOMAIN b
    BY <1>1
  <2> QED
    BY <1>1, <2>1
<1> QED
  BY <1>1, <1>2, <1>3, <1>4 DEF IDs

\* Boards of the same minions have the same IDs.
LEMMA SameMinionsIDs ==
  ASSUME NEW b, NEW c, SameMinions(b, c)
  PROVE  IDs(c) = IDs(b) /\ (Distinct(b) => Distinct(c))
BY DEF SameMinions, IDs, Distinct

\* A board whose stats change stays one.
LEMMA RestatedIsBoard ==
  ASSUME NEW b, IsBoard(b), NEW c \in [DOMAIN b -> Minion], SameMinions(b, c)
  PROVE  IsBoard(c)
<1>1. c \in Seq(Minion) /\ Len(c) = Len(b)
  BY SeqDomain, FunctionIsSeq
<1> QED
  BY <1>1, SameMinionsIDs DEF IsBoard

\* UpdateMinionStat changes the stat of one minion.
LEMMA UpdateRestates ==
  ASSUME NEW b, IsBoard(b), NEW e, NEW v \in Stats
  PROVE  LET u == UpdateMinionStat(b, e, v) IN
         /\ IsBoard(u) /\ SameMinions(b, u)
         /\ \A i \in DOMAIN b : u[i].stat = IF b[i].id = e THEN v ELSE b[i].stat
<1> DEFINE u == UpdateMinionStat(b, e, v)
<1>1. ASSUME NEW i \in DOMAIN b
      PROVE  /\ u[i] \in Minion /\ u[i].id = b[i].id
             /\ u[i].stat = IF b[i].id = e THEN v ELSE b[i].stat
  <2>1. b[i] \in Minion
    BY SeqDomain
  <2>2. u[i] = IF b[i].id = e THEN [b[i] EXCEPT !.stat = v] ELSE b[i]
    BY DEF UpdateMinionStat
  <2> QED
    BY <2>1, <2>2 DEF Minion
<1>2. u \in [DOMAIN b -> Minion] /\ DOMAIN u = DOMAIN b
  BY <1>1 DEF UpdateMinionStat
<1>3. SameMinions(b, u)
  BY <1>1, <1>2 DEF SameMinions
<1>4. IsBoard(u)
  BY <1>2, <1>3, RestatedIsBoard
<1> HIDE DEF u
<1> QED
  BY <1>1, <1>3, <1>4 DEF u

\* Raise changes the stats in some places, upwards.
LEMMA RaiseRestates ==
  ASSUME NEW b, IsBoard(b), NEW slots, NEW v \in Stats
  PROVE  LET r == Raise(b, slots, v) IN
         /\ IsBoard(r) /\ SameMinions(b, r)
         /\ \A i \in DOMAIN b : r[i].stat = IF i \in slots THEN Larger(b[i].stat, v) ELSE b[i].stat
         /\ slots = {} => r = b
<1> DEFINE r == Raise(b, slots, v)
<1>1. ASSUME NEW i \in DOMAIN b
      PROVE  /\ r[i] \in Minion /\ r[i].id = b[i].id
             /\ r[i].stat = IF i \in slots THEN Larger(b[i].stat, v) ELSE b[i].stat
  <2>1. b[i] \in Minion /\ b[i].stat \in Stats
    BY SeqDomain
  <2>2. r[i] = IF i \in slots THEN [b[i] EXCEPT !.stat = Larger(@, v)] ELSE b[i]
    BY DEF Raise
  <2>3. Larger(b[i].stat, v) \in Stats
    BY <2>1 DEF Larger
  <2> QED
    BY <2>1, <2>2, <2>3 DEF Minion
<1>2. r \in [DOMAIN b -> Minion] /\ DOMAIN r = DOMAIN b
  BY <1>1 DEF Raise
<1>3. SameMinions(b, r)
  BY <1>1, <1>2 DEF SameMinions
<1>4. IsBoard(r)
  BY <1>2, <1>3, RestatedIsBoard
<1>5. slots = {} => r = b
  BY SeqDomain DEF Raise
<1> HIDE DEF r
<1> QED
  BY <1>1, <1>3, <1>4, <1>5 DEF r

\* UpsertMinion replaces a minion, or adds it where there is room.
LEMMA UpsertAdds ==
  ASSUME NEW b, IsBoard(b), NEW m \in Minion
  PROVE  LET u == Upsert(b, m) IN
         /\ IsBoard(u) /\ IDs(u) \subseteq IDs(b) \cup {m.id}
         /\ m.id \in IDs(b) \/ Len(b) < MaxBoard => IDs(u) = IDs(b) \cup {m.id}
         /\ \A i \in DOMAIN u : \/ u[i] = m
                                \/ \E j \in DOMAIN b : u[i] = b[j] /\ b[j].id # m.id
<1> DEFINE u == Upsert(b, m)
<1>0. /\ Len(b) \in Nat /\ DOMAIN b = 1..Len(b) /\ b \in [1..Len(b) -> Minion]
      /\ Len(b) <= MaxBoard /\ b \in Seq(Minion)
  BY SeqDomain DEF IsBoard
<1>1. CASE m.id \in IDs(b)
  <2>1. u = [i \in DOMAIN b |-> IF b[i].id = m.id THEN m ELSE b[i]]
    BY <1>1 DEF Upsert
  <2>2. u \in [DOMAIN b -> Minion] /\ SameMinions(b, u)
    BY <1>0, <2>1 DEF SameMinions
  <2>3. IsBoard(u) /\ IDs(u) = IDs(b)
    BY <2>2, RestatedIsBoard, SameMinionsIDs
  <2>4. \A i \in DOMAIN u : \/ u[i] = m
                            \/ \E j \in DOMAIN b : u[i] = b[j] /\ b[j].id # m.id
    BY <2>1
  <2>5. IDs(b) \cup {m.id} = IDs(b)
    BY <1>1
  <2> HIDE DEF u
  <2> QED
    BY <2>3, <2>4, <2>5 DEF u
<1>2. CASE m.id \notin IDs(b) /\ Len(b) < MaxBoard
  <2>1. u = Append(b, m)
    BY <1>2 DEF Upsert
  <2>2. /\ u \in Seq(Minion) /\ Len(u) = Len(b) + 1
        /\ \A i \in 1..Len(b) : u[i] = b[i]
        /\ u[Len(b) + 1] = m
    BY <1>0, <2>1, AppendProperties
  <2>3. DOMAIN u = 1..(Len(b) + 1)
    BY <1>0, <2>2, LenProperties
  <2>4. \A i \in DOMAIN u : i \in DOMAIN b \/ i = Len(b) + 1
    BY <1>0, <2>3
  <2>5. \A i \in DOMAIN b : b[i].id # m.id
    BY <1>2 DEF IDs
  <2>6. Len(b) + 1 \notin DOMAIN b /\ DOMAIN b \subseteq DOMAIN u /\ Len(b) + 1 \in DOMAIN u
    BY <1>0, <2>3
  <2>7. Distinct(u)
    <3> SUFFICES ASSUME NEW i \in DOMAIN u, NEW j \in DOMAIN u, u[i].id = u[j].id
                 PROVE  i = j
      BY DEF Distinct
    <3> HIDE DEF u
    <3>1. \A k \in DOMAIN b : u[k] = b[k]
      BY <1>0, <2>2
    <3>2. \A k, l \in DOMAIN b : b[k].id = b[l].id => k = l
      BY DEF IsBoard, Distinct
    <3> QED
      BY <2>2, <2>4, <2>5, <3>1, <3>2
  <2>8. \A i \in DOMAIN u : u[i] = m \/ \E j \in DOMAIN b : u[i] = b[j] /\ b[j].id # m.id
    BY <1>0, <2>2, <2>4, <2>5
  <2> HIDE DEF u
  <2>9. IDs(u) = IDs(b) \cup {m.id}
    BY <1>0, <2>2, <2>4, <2>6 DEF IDs
  <2>10. Len(u) <= MaxBoard
    BY <1>0, <1>2, <2>2, BoundsAssumption
  <2> QED
    BY <2>2, <2>7, <2>8, <2>9, <2>10 DEF IsBoard, u
<1>3. CASE m.id \notin IDs(b) /\ ~(Len(b) < MaxBoard)
  <2>1. u = b
    BY <1>3 DEF Upsert
  <2>2. \A i \in DOMAIN b : b[i].id # m.id
    BY <1>3 DEF IDs
  <2> HIDE DEF u
  <2> QED
    BY <1>3, <2>1, <2>2 DEF u
<1> QED
  BY <1>1, <1>2, <1>3

\* RemoveMinion takes one minion, and the others stay.
LEMMA RemoveTakes ==
  ASSUME NEW b, IsBoard(b), NEW e
  PROVE  LET r == RemoveMinion(b, e) IN
         /\ IsBoard(r) /\ IDs(r) = IDs(b) \ {e}
         /\ \A i \in DOMAIN r : \E j \in DOMAIN b : r[i] = b[j] /\ b[j].id # e
<1> DEFINE r == RemoveMinion(b, e)
<1>0. /\ Len(b) \in Nat /\ DOMAIN b = 1..Len(b) /\ b \in [1..Len(b) -> Minion]
      /\ Len(b) <= MaxBoard /\ \A i, j \in DOMAIN b : b[i].id = b[j].id => i = j
  BY SeqDomain DEF IsBoard, Distinct
<1>1. CASE e \notin IDs(b)
  <2>1. r = b /\ \A i \in DOMAIN b : b[i].id # e
    BY <1>1 DEF RemoveMinion, IDs
  <2> HIDE DEF r
  <2>2. IDs(b) = IDs(b) \ {e}
    BY <1>1
  <2> QED
    BY <2>1, <2>2 DEF r
<1>2. CASE e \in IDs(b)
  <2>1. PICK k \in DOMAIN b : k = PlaceOf(b, e) /\ b[k].id = e
    BY <1>2 DEF IDs, PlaceOf
  <2>2. PICK n \in Nat : n = Len(b) - 1
    <3>1. Len(b) \in Nat /\ k \in 1..Len(b)
      BY <1>0, <2>1
    <3>2. \A l \in Nat : k \in 1..l => l - 1 \in Nat
      OBVIOUS
    <3> QED
      BY <3>1, <3>2
  <2>3. r = [i \in 1..n |-> IF i < k THEN b[i] ELSE b[i + 1]]
    BY <1>2, <2>1, <2>2 DEF RemoveMinion
  <2>4. DOMAIN r = 1..n /\ \A i \in 1..n : r[i] = IF i < k THEN b[i] ELSE b[i + 1]
    BY <2>3
  <2> HIDE DEF r
  <2>5. \A i \in 1..n : i \in DOMAIN b /\ i + 1 \in DOMAIN b
    BY <1>0, <2>2
  <2>6. \A i \in 1..n : r[i] \in Minion
    BY <1>0, <2>4, <2>5
  <2>7. r \in [1..n -> Minion]
    BY <2>3, <2>4, <2>6
  <2>8. r \in Seq(Minion) /\ Len(r) = n
    BY <2>7, FunctionIsSeq
  <2>9. ASSUME NEW i \in 1..n
        PROVE  \E j \in DOMAIN b : /\ r[i] = b[j] /\ b[j].id # e
                                   /\ j = IF i < k THEN i ELSE i + 1
    <3>1. CASE i < k
      BY <1>0, <2>1, <2>4, <2>5, <3>1
    <3>2. CASE ~(i < k)
      <4>1. i + 1 # k /\ i + 1 \in DOMAIN b
        BY <1>0, <2>1, <2>5, <3>2
      <4> QED
        BY <1>0, <2>1, <2>4, <3>2, <4>1
    <3> QED
      BY <3>1, <3>2
  <2>10. Distinct(r)
    <3> SUFFICES ASSUME NEW i \in 1..n, NEW j \in 1..n, r[i].id = r[j].id
                 PROVE  i = j
      BY <2>4 DEF Distinct
    <3>1. PICK x \in DOMAIN b : r[i] = b[x] /\ x = IF i < k THEN i ELSE i + 1
      BY <2>9
    <3>2. PICK y \in DOMAIN b : r[j] = b[y] /\ y = IF j < k THEN j ELSE j + 1
      BY <2>9
    <3>3. x = y
      BY <1>0, <3>1, <3>2
    <3> QED
      BY <1>0, <2>1, <3>1, <3>2, <3>3
  <2>11. ASSUME NEW j \in DOMAIN b, b[j].id # e
         PROVE  \E i \in 1..n : r[i] = b[j]
    <3>1. j # k
      BY <2>1, <2>11
    <3>2. CASE j < k
      <4>1. j \in 1..n
        BY <1>0, <2>1, <2>2, <3>2
      <4> QED
        BY <2>4, <3>2, <4>1
    <3>3. CASE j > k
      <4>1. j - 1 \in 1..n /\ ~(j - 1 < k) /\ (j - 1) + 1 = j
        BY <1>0, <2>1, <2>2, <3>3
      <4> QED
        BY <2>4, <4>1
    <3>4. j \in Nat /\ k \in Nat
      BY <1>0, <2>1
    <3>5. j < k \/ j > k
      BY <3>1, <3>4
    <3> QED
      BY <3>2, <3>3, <3>5
  <2>12. IDs(r) = IDs(b) \ {e}
    <3>1. IDs(r) = {r[i].id : i \in 1..n} /\ IDs(b) = {b[i].id : i \in DOMAIN b}
      BY <2>4 DEF IDs
    <3>2. ASSUME NEW x \in IDs(r) PROVE x \in IDs(b) \ {e}
      <4>1. PICK i \in 1..n : x = r[i].id
        BY <3>1
      <4>2. PICK j \in DOMAIN b : r[i] = b[j] /\ b[j].id # e
        BY <2>9
      <4> QED
        BY <3>1, <4>1, <4>2
    <3>3. ASSUME NEW x \in IDs(b) \ {e} PROVE x \in IDs(r)
      <4>1. PICK j \in DOMAIN b : x = b[j].id /\ b[j].id # e
        BY <3>1
      <4>2. PICK i \in 1..n : r[i] = b[j]
        BY <2>11, <4>1
      <4> QED
        BY <3>1, <4>1, <4>2
    <3> QED
      BY <3>2, <3>3
  <2>13. Len(r) <= MaxBoard
    BY <1>0, <2>2, <2>8, BoundsAssumption
  <2> QED
    BY <2>4, <2>8, <2>9, <2>10, <2>12, <2>13 DEF IsBoard, r
<1> QED
  BY <1>1, <1>2

\* A board has as many places as minions.
LEMMA BoardSize ==
  ASSUME NEW b, IsBoard(b)
  PROVE  IsFiniteSet(IDs(b)) /\ Cardinality(IDs(b)) = Len(b)
<1>1. Len(b) \in Nat /\ DOMAIN b = 1..Len(b) /\ \A i, j \in DOMAIN b : b[i].id = b[j].id => i = j
  BY SeqDomain DEF IsBoard, Distinct
<1> DEFINE f == [i \in 1..Len(b) |-> b[i].id]
<1>2. f \in Bijection(1..Len(b), IDs(b))
  <2>1. f \in [1..Len(b) -> IDs(b)] /\ DOMAIN f = 1..Len(b)
    BY <1>1 DEF IDs
  <2>2. \A i, j \in 1..Len(b) : f[i] = f[j] => i = j
    BY <1>1
  <2>3. \A x \in IDs(b) : \E i \in 1..Len(b) : f[i] = x
    BY <1>1 DEF IDs
  <2> QED
    BY <2>1, <2>2, <2>3 DEF Bijection, Injection, IsInjective, Surjection
<1>3. ExistsBijection(1..Len(b), IDs(b))
  BY <1>2 DEF ExistsBijection
<1>4. IsFiniteSet(1..Len(b)) /\ Cardinality(1..Len(b)) = Len(b)
  <2>1. 1 \in Int /\ Len(b) \in Int
    BY <1>1
  <2>2. /\ IsFiniteSet(1..Len(b))
        /\ Cardinality(1..Len(b)) = IF 1 > Len(b) THEN 0 ELSE Len(b) - 1 + 1
    BY <2>1, FS_Interval
  <2> QED
    BY <1>1, <2>2
<1> QED
  BY <1>3, <1>4, FS_Bijection

-----------------------------------------------------------------------------
(* Lemmas about the client's part of the state *)

ClientOK ==
  /\ ents \in Seq(Entity) /\ zone \in [Entities -> Zones] /\ stat \in [Entities -> Stats]
  /\ geTurn \in Nat /\ stage \in {"recruit", "ending", "combat", "after", "over"}

\* What is known of every entity.
LEMMA EntityFields ==
  ASSUME ClientOK, NEW e \in Entities
  PROVE  /\ CardOf(e) \in Cards /\ ents[e].card = CardOf(e) /\ ents[e].turn \in Nat
         /\ ents[e].of \in Nat /\ ents[e].side \in {"own", "foe"} /\ e \in Nat \ {0}
         /\ Len(ents) \in Nat
<1>1. ents \in Seq(Entity) /\ e \in 1..Len(ents) /\ Len(ents) \in Nat
  BY LenProperties DEF ClientOK, Entities
<1>2. ents[e] \in Entity
  BY <1>1, ElementOfSeq
<1> QED
  BY <1>1, <1>2 DEF Entity, CardOf

\* What is created is a new entity, and nothing of the others changes.
LEMMA CreateEffect ==
  ASSUME ClientOK, NEW card \in Cards, NEW side \in {"own", "foe"}, NEW of \in Nat,
         NEW to \in Zones, Create(card, side, of, to)
  PROVE  LET n == Len(ents') IN
         /\ n = Len(ents) + 1 /\ n \in Nat \ {0} /\ n \notin Entities
         /\ Entities' = Entities \cup {n}
         /\ ents' \in Seq(Entity) /\ zone' \in [Entities' -> Zones] /\ stat' \in [Entities' -> Stats]
         /\ \A e \in Entities : ents'[e] = ents[e] /\ zone'[e] = zone[e] /\ stat'[e] = stat[e]
         /\ ents'[n].card = card /\ ents'[n].side = side
         /\ ents'[n].of = of /\ ents'[n].turn = geTurn
         /\ zone'[n] = to /\ stat'[n] = 1
<1> DEFINE r == [card |-> card, side |-> side, of |-> of, turn |-> geTurn]
<1>1. /\ ents \in Seq(Entity) /\ zone \in [1..Len(ents) -> Zones] /\ stat \in [1..Len(ents) -> Stats]
      /\ r \in Entity /\ 1 \in Stats
  BY BoundsAssumption DEF ClientOK, Entities, Entity, Stats
<1>2. Len(ents) \in Nat
  BY <1>1, LenProperties
<1>3. /\ zone \in Seq(Zones) /\ Len(zone) = Len(ents)
      /\ stat \in Seq(Stats) /\ Len(stat) = Len(ents)
  BY <1>1, <1>2, FunctionIsSeq
<1>4. ents' = Append(ents, r) /\ zone' = Append(zone, to) /\ stat' = Append(stat, 1)
  BY DEF Create
<1> HIDE DEF r
<1>5. /\ ents' \in Seq(Entity) /\ Len(ents') = Len(ents) + 1
      /\ \A i \in 1..Len(ents) : ents'[i] = ents[i]
      /\ ents'[Len(ents) + 1] = r
  BY <1>1, <1>4, AppendProperties
<1>6. /\ zone' \in Seq(Zones) /\ Len(zone') = Len(ents) + 1
      /\ \A i \in 1..Len(ents) : zone'[i] = zone[i]
      /\ zone'[Len(ents) + 1] = to
  BY <1>3, <1>4, AppendProperties
<1>7. /\ stat' \in Seq(Stats) /\ Len(stat') = Len(ents) + 1
      /\ \A i \in 1..Len(ents) : stat'[i] = stat[i]
      /\ stat'[Len(ents) + 1] = 1
  BY <1>1, <1>3, <1>4, AppendProperties
<1>8. /\ Len(ents) + 1 \in Nat \ {0} /\ Len(ents) + 1 \notin 1..Len(ents)
      /\ 1..(Len(ents) + 1) = 1..Len(ents) \cup {Len(ents) + 1}
  BY <1>2
<1>9. zone' \in [1..(Len(ents) + 1) -> Zones] /\ stat' \in [1..(Len(ents) + 1) -> Stats]
  BY <1>6, <1>7, LenProperties
<1> QED
  BY <1>5, <1>6, <1>7, <1>8, <1>9 DEF Entities, r

\* What is created follows the client's rules.
LEMMA CreateKeeps ==
  ASSUME ClientOK, Made, OneCopyEach,
         NEW card \in Cards, NEW side \in {"own", "foe"}, NEW of \in Nat,
         NEW to \in Zones, Create(card, side, of, to), geTurn' = geTurn, stage' = stage,
         of # 0 => stage \notin {"recruit", "ending"} /\ CopyOf(of) = {}
  PROVE  ClientOK' /\ Made' /\ OneCopyEach'
<1> DEFINE n == Len(ents')
<1>1. /\ n \notin Entities /\ Entities' = Entities \cup {n}
      /\ \A e \in Entities : ents'[e] = ents[e]
      /\ ents'[n].of = of /\ ents'[n].turn = geTurn
  BY CreateEffect
<1>2. ClientOK'
  BY CreateEffect DEF ClientOK
<1> HIDE DEF n
<1>3. Made'
  BY <1>1 DEF Made, ClientOK
<1>4. \A e \in Returning' : e \in Returning \/ (e = n /\ of # 0)
  BY <1>1 DEF Returning, Returned
<1>5. \A e \in Returning : of = 0 \/ ents[e].of # of
  BY DEF Returning, Returned, CopyOf
<1>6. \A e \in Returning : ents'[e] = ents[e]
  BY <1>1 DEF Returning
<1>7. OneCopyEach'
  <2>1. stage' \in {"recruit", "ending"} => Returning' = {}
    BY <1>4 DEF OneCopyEach
  <2>2. ASSUME NEW e \in Returning', NEW f \in Returning', ents'[e].of = ents'[f].of
        PROVE  e = f
    <3>1. CASE e \in Returning /\ f \in Returning
      BY <1>6, <2>2, <3>1 DEF OneCopyEach
    <3>2. CASE e \in Returning /\ f = n /\ of # 0
      BY <1>1, <1>5, <1>6, <2>2, <3>2
    <3>3. CASE f \in Returning /\ e = n /\ of # 0
      BY <1>1, <1>5, <1>6, <2>2, <3>3
    <3> QED
      BY <1>4, <3>1, <3>2, <3>3
  <2> QED
    BY <2>1, <2>2 DEF OneCopyEach
<1> QED
  BY <1>2, <1>3, <1>7

\* The entities themselves do not change while the turn lasts.
LEMMA ZonesKeep ==
  ASSUME ClientOK, Made, OneCopyEach, UNCHANGED <<ents, geTurn>>,
         zone' \in [Entities -> Zones], stat' \in [Entities -> Stats],
         stage' \in {"recruit", "ending", "combat", "after", "over"},
         stage' \in {"recruit", "ending"} => stage \in {"recruit", "ending"}
  PROVE  ClientOK' /\ Made' /\ OneCopyEach'
<1>1. Entities' = Entities /\ Returning' = Returning
  BY DEF Entities, Returning, Returned
<1> QED
  BY <1>1 DEF ClientOK, Made, OneCopyEach

\* In a new turn nothing has been copied yet.
LEMMA TurnKeeps ==
  ASSUME ClientOK, Made, geTurn' = geTurn + 1, UNCHANGED <<ents, zone>>,
         stat' \in [Entities -> Stats], stage' \in {"recruit", "combat"}
  PROVE  ClientOK' /\ Made' /\ OneCopyEach' /\ Entities' = Entities /\ Returning' = {}
         /\ \A e \in Entities : CopyOf(e)' = {} /\ ents'[e].turn < geTurn'
<1>1. Entities' = Entities /\ geTurn' \in Nat
  BY DEF Entities, ClientOK
<1>2. \A e \in Entities : ents[e].turn \in Nat
  BY EntityFields
<1>3. \A e \in Entities : ents'[e].turn < geTurn' /\ ents'[e].turn # geTurn'
  BY <1>1, <1>2 DEF Made, ClientOK
<1>4. Returning' = {} /\ \A e \in Entities : CopyOf(e)' = {}
  BY <1>1, <1>3 DEF Returning, Returned, CopyOf
<1>5. Made'
  <2>1. \A e \in Entities' : ents'[e].turn \in Nat
    BY <1>1, <1>2
  <2> QED
    BY <1>1, <1>3, <2>1 DEF Made
<1> QED
  BY <1>1, <1>3, <1>4, <1>5 DEF ClientOK, OneCopyEach

\* Every step keeps the client's part of the state.
LEMMA ClientKept ==
  ASSUME BoardInv, Next
  PROVE  ClientOK' /\ Made' /\ OneCopyEach'
<1> DEFINE Goal == ClientOK' /\ Made' /\ OneCopyEach'
<1>1. ClientOK /\ Made /\ OneCopyEach
  BY DEF BoardInv, TypeOK, ClientOK
<1>2. \A e \in Entities : CardOf(e) \in Cards /\ e \in Nat \ {0}
  BY <1>1, EntityFields
<1> HIDE DEF Goal
<1>3. ASSUME NEW c \in Cards, Buy(c) \/ Summon(c) PROVE Goal
  <2>1. Create(c, "own", 0, "PLAY") /\ geTurn' = geTurn /\ stage' = stage
    BY <1>3 DEF Buy, Summon
  <2> QED
    BY <1>1, <2>1, CreateKeeps DEF Goal, Zones
<1>4. ASSUME NEW f \in Entities, OwnCopy(f) PROVE Goal
  <2>1. Create(CardOf(f), "own", f, "SETASIDE") /\ geTurn' = geTurn /\ stage' = stage
    BY <1>4 DEF OwnCopy
  <2>2. stage \notin {"recruit", "ending"} /\ CopyOf(f) = {}
    BY <1>4 DEF OwnCopy
  <2> QED
    BY <1>1, <1>2, <2>1, <2>2, CreateKeeps DEF Goal, Zones
<1>5. ASSUME NEW c \in Cards, FoeCopy(c) PROVE Goal
  <2>1. Create(c, "foe", 0, "SETASIDE") /\ geTurn' = geTurn /\ stage' = stage
    BY <1>5 DEF FoeCopy
  <2> QED
    BY <1>1, <2>1, CreateKeeps DEF Goal, Zones
<1>6. ASSUME NEW e \in Entities,
             Replay(e) \/ Sell(e) \/ Bounce(e) \/ Merge(e) \/ Die(e) \/ Clear(e) \/ ReturnCopy(e)
      PROVE  Goal
  <2>1. UNCHANGED <<ents, geTurn, stat>>
    BY <1>6 DEF Replay, Sell, Bounce, Merge, Die, Clear, ReturnCopy, Leave
  <2>2. \E to \in Zones : zone' = [zone EXCEPT ![e] = to]
    BY <1>6 DEF Replay, Sell, Bounce, Merge, Die, Clear, ReturnCopy, Leave, Zones
  <2>3. stage' = stage \/ stage' = "after"
    BY <1>6 DEF Replay, Sell, Bounce, Merge, Die, Clear, ReturnCopy
  <2>4. zone' \in [Entities -> Zones]
    BY <1>1, <2>2 DEF ClientOK
  <2> QED
    BY <1>1, <2>1, <2>3, <2>4, ZonesKeep DEF Goal, ClientOK
<1>7. ASSUME EndOfTurn \/ Complete \/ Timeout PROVE Goal
  <2>1. UNCHANGED <<ents, geTurn, stat, zone>>
    BY <1>7 DEF EndOfTurn, Complete, Timeout, clientVars, procVars
  <2>2. \/ stage' \in {"ending", "over"} /\ (stage' = "ending" => stage = "recruit")
        \/ stage' = stage
    BY <1>7 DEF EndOfTurn, Complete, Timeout, clientVars, Acts
  <2> QED
    BY <1>1, <2>1, <2>2, ZonesKeep DEF Goal, ClientOK
<1>8. ASSUME NEW e \in Entities, NEW v \in Stats, StatChange(e, v) PROVE Goal
  <2>1. UNCHANGED <<ents, geTurn, zone, stage>> /\ stat' = [stat EXCEPT ![e] = v]
    BY <1>8 DEF StatChange, SetStat, clientVars
  <2> QED
    BY <1>1, <2>1, ZonesKeep DEF Goal, ClientOK
<1>9. ASSUME StartCombat \/ StartRecruit PROVE Goal
  <2>1. UNCHANGED <<ents, zone>> /\ geTurn' = geTurn + 1 /\ stage' \in {"recruit", "combat"}
    BY <1>9 DEF StartCombat, StartRecruit
  <2>2. stat' \in {stat, Pruned}
    BY <1>9 DEF StartCombat, StartRecruit, OnTurnTransition
  <2>3. stat' \in [Entities -> Stats]
    BY <1>1, <2>2, BoundsAssumption DEF Pruned, ClientOK, Stats
  <2> QED
    BY <1>1, <2>1, <2>3, TurnKeeps DEF Goal
<1>10. Goal
  BY <1>3, <1>4, <1>5, <1>6, <1>7, <1>8, <1>9 DEF Next, Recruit, Combat
<1> QED
  BY <1>10 DEF Goal

-----------------------------------------------------------------------------
(* The boards *)

BoardsOK ==
  /\ IsBoard(board) /\ IsBoard(snapshot) /\ Known
  /\ phase = "GAME_OVER" => snapshot = <<>>

\* What the four actions that put a minion into play have in common.
Joins(e) ==
  /\ Entities' = Entities \cup {e} /\ InPlay' = InPlay \cup {e} /\ e \notin InPlay
  /\ \A f \in Entities : stat'[f] = stat[f] /\ ents'[f] = ents[f]
  /\ UNCHANGED geTurn
  /\ AddMinion([id |-> e, stat |-> stat'[e]])

\* A minion that is bought or summoned joins the ones in play.
LEMMA NewJoins ==
  ASSUME ClientOK, NEW card \in Cards, Buy(card) \/ Summon(card)
  PROVE  Joins(Len(ents')) /\ Create(card, "own", 0, "PLAY")
<1>1. Create(card, "own", 0, "PLAY") /\ UNCHANGED geTurn
  BY DEF Buy, Summon
<1> DEFINE n == Len(ents')
<1>2. /\ n \notin Entities /\ Entities' = Entities \cup {n}
      /\ \A e \in Entities : ents'[e] = ents[e] /\ zone'[e] = zone[e] /\ stat'[e] = stat[e]
      /\ zone'[n] = "PLAY" /\ stat'[n] = 1
  BY <1>1, CreateEffect DEF Zones
<1>3. AddMinion([id |-> n, stat |-> 1])
  BY DEF Buy, Summon
<1> HIDE DEF n
<1>4. InPlay' = InPlay \cup {n} /\ n \notin InPlay
  BY <1>2 DEF InPlay
<1> QED
  BY <1>1, <1>2, <1>3, <1>4 DEF Joins, n

\* So does one that comes from the hand or returns from a combat.
LEMMA OldJoins ==
  ASSUME ClientOK, NEW e \in Entities, Replay(e) \/ ReturnCopy(e)
  PROVE  Joins(e) /\ UNCHANGED <<ents, stat>>
<1>1. /\ zone[e] \in {"HAND", "SETASIDE"} /\ zone' = [zone EXCEPT ![e] = "PLAY"]
      /\ UNCHANGED <<ents, geTurn, stat>>
      /\ AddMinion([id |-> e, stat |-> stat[e]])
  BY DEF Replay, ReturnCopy, Aside
<1>2. Entities' = Entities
  BY <1>1 DEF Entities
<1>3. zone'[e] = "PLAY" /\ \A f \in Entities : f # e => zone'[f] = zone[f]
  BY <1>1 DEF ClientOK
<1>4. InPlay' = InPlay \cup {e} /\ e \notin InPlay
  BY <1>1, <1>2, <1>3 DEF InPlay
<1>5. stat'[e] = stat[e]
  BY <1>1
<1> QED
  BY <1>1, <1>2, <1>4, <1>5 DEF Joins

\* A minion that comes into play leaves boards behind.
LEMMA JoinKeepsBoards ==
  ASSUME ClientOK', BoardsOK, NEW e, Joins(e)
  PROVE  BoardsOK'
<1> DEFINE m == [id |-> e, stat |-> stat'[e]]
<1>1. e \in Entities' /\ e \in Nat \ {0} /\ stat'[e] \in Stats /\ Entities \subseteq Entities'
  <2>1. e \in Entities' /\ Entities \subseteq Entities'
    BY DEF Joins
  <2> QED
    BY <2>1 DEF ClientOK, Entities
<1>2. m \in Minion /\ m.id = e
  BY <1>1 DEF Minion
<1>3. board' = (IF phase = "GAME_OVER" THEN board ELSE Upsert(board, m)) /\ UNCHANGED phase
      /\ snapshot' = IF phase = "RECRUIT" THEN board' ELSE snapshot
  BY DEF Joins, AddMinion, Mirrored
<1> HIDE DEF m
<1>4. IsBoard(board') /\ IDs(board') \subseteq IDs(board) \cup {e}
  BY <1>2, <1>3, UpsertAdds DEF BoardsOK
<1>5. IDs(board') \subseteq Entities' /\ IDs(snapshot') \subseteq Entities'
  BY <1>1, <1>3, <1>4 DEF BoardsOK, Known
<1>6. IsBoard(snapshot') /\ (phase' = "GAME_OVER" => snapshot' = <<>>)
  BY <1>3, <1>4 DEF BoardsOK
<1> QED
  BY <1>4, <1>5, <1>6 DEF BoardsOK, Known, IsBoard, IDs, Distinct

\* What a minion that leaves play takes along.
LEMMA LeaveEffect ==
  ASSUME ClientOK, NEW e \in InPlay, NEW to \in Zones \ {"PLAY"}, Leave(e, to)
  PROVE  /\ InPlay' = InPlay \ {e} /\ Entities' = Entities
         /\ UNCHANGED <<ents, geTurn, stat, copies, pending, phase, slotOf, mods>>
         /\ \A f \in Entities : f # e => zone'[f] = zone[f]
         /\ zone'[e] = to
         /\ board' = IF phase = "GAME_OVER" THEN board ELSE RemoveMinion(board, e)
         /\ snapshot' = IF phase = "RECRUIT" THEN board' ELSE snapshot
<1>1. /\ zone' = [zone EXCEPT ![e] = to] /\ OnMinionSold(e, to)
      /\ UNCHANGED <<ents, geTurn, stat, copies, pending, phase, slotOf, mods>>
  BY DEF Leave
<1>2. Entities' = Entities /\ e \in Entities
  BY <1>1 DEF Entities, InPlay
<1>3. zone'[e] = to /\ \A f \in Entities : f # e => zone'[f] = zone[f]
  BY <1>1, <1>2 DEF ClientOK
<1>4. InPlay' = InPlay \ {e}
  BY <1>2, <1>3 DEF InPlay
<1> QED
  BY <1>1, <1>2, <1>3, <1>4 DEF OnMinionSold, Mirrored

\* The five actions that take a minion out of play.
LEMMA Leavers ==
  ASSUME NEW e \in Entities, Sell(e) \/ Bounce(e) \/ Merge(e) \/ Die(e) \/ Clear(e)
  PROVE  e \in InPlay /\ \E to \in Zones \ {"PLAY"} : Leave(e, to)
BY DEF Sell, Bounce, Merge, Die, Clear, Zones

\* They leave boards behind, too.
LEMMA LeaveKeepsBoards ==
  ASSUME ClientOK, BoardsOK, NEW e \in InPlay, NEW to \in Zones \ {"PLAY"}, Leave(e, to)
  PROVE  BoardsOK'
<1>1. /\ Entities' = Entities /\ phase' = phase
      /\ board' = IF phase = "GAME_OVER" THEN board ELSE RemoveMinion(board, e)
      /\ snapshot' = IF phase = "RECRUIT" THEN board' ELSE snapshot
  BY LeaveEffect
<1>2. IsBoard(board') /\ IDs(board') \subseteq IDs(board)
  BY <1>1, RemoveTakes DEF BoardsOK
<1>3. IDs(board') \subseteq Entities' /\ IDs(snapshot') \subseteq Entities'
  BY <1>1, <1>2 DEF BoardsOK, Known
<1>4. IsBoard(snapshot') /\ (phase' = "GAME_OVER" => snapshot' = <<>>)
  BY <1>1, <1>2 DEF BoardsOK
<1> QED
  BY <1>2, <1>3, <1>4 DEF BoardsOK, Known, IsBoard, IDs, Distinct

\* A combat copy restates the snapshot, and takes nothing from it.
LEMMA RegisterKeepsBoards ==
  ASSUME BoardsOK, NEW e, NEW card, NEW v \in Stats, RegisterCopy(e, card, v),
         Entities \subseteq Entities'
  PROVE  BoardsOK' /\ board' = board /\ phase' = phase /\ SameMinions(snapshot, snapshot')
<1>1. UNCHANGED <<phase, board>>
  BY DEF RegisterCopy
<1>2. snapshot' = snapshot \/ \E slots : snapshot' = Raise(snapshot, slots, v)
  BY DEF RegisterCopy
<1>3. IsBoard(snapshot') /\ SameMinions(snapshot, snapshot') /\ IDs(snapshot') = IDs(snapshot)
  BY <1>2, RaiseRestates, SameMinionsIDs DEF BoardsOK, SameMinions
<1>4. phase = "GAME_OVER" => snapshot' = <<>>
  BY DEF RegisterCopy, BoardsOK
<1> QED
  BY <1>1, <1>3, <1>4 DEF BoardsOK, Known, IsBoard, IDs, Distinct

\* So does a stat, on the board and in its mirror.
LEMMA StatKeepsBoards ==
  ASSUME ClientOK, BoardsOK, NEW e, NEW v \in Stats, SetStat(e, v), UNCHANGED ents
  PROVE  BoardsOK' /\ phase' = phase /\ SameMinions(board, board')
         /\ (phase # "RECRUIT" => SameMinions(snapshot, snapshot'))
<1> DEFINE mirrored == IF e \in IDs(board) THEN Mirrored(board') ELSE snapshot
<1>1. phase' = phase /\ Entities' = Entities /\ board' = UpdateMinionStat(board, e, v)
  BY DEF SetStat, Entities
<1>2. IsBoard(board') /\ SameMinions(board, board') /\ IDs(board') = IDs(board)
  BY <1>1, UpdateRestates, SameMinionsIDs DEF BoardsOK
<1>3. mirrored = IF e \in IDs(board) /\ phase = "RECRUIT" THEN board' ELSE snapshot
  BY DEF Mirrored
<1>4. \E slots : snapshot' = Raise(mirrored, slots, v)
  BY DEF SetStat
<1> HIDE DEF mirrored
<1>5. IsBoard(mirrored) /\ IDs(mirrored) \subseteq Entities
  BY <1>2, <1>3 DEF BoardsOK, Known
<1>6. IsBoard(snapshot') /\ SameMinions(mirrored, snapshot') /\ IDs(snapshot') = IDs(mirrored)
  BY <1>4, <1>5, RaiseRestates, SameMinionsIDs
<1>7. phase = "GAME_OVER" => snapshot' = <<>>
  <2>1. phase = "GAME_OVER" => IDs(snapshot') = IDs(snapshot) /\ snapshot = <<>>
    BY <1>3, <1>6 DEF BoardsOK
  <2> QED
    BY <1>6, <2>1, SeqDomain DEF BoardsOK
<1>8. IDs(board') \subseteq Entities' /\ IDs(snapshot') \subseteq Entities'
  BY <1>1, <1>2, <1>5, <1>6 DEF BoardsOK, Known
<1> QED
  BY <1>1, <1>2, <1>3, <1>6, <1>7, <1>8 DEF BoardsOK, Known, IsBoard, IDs, Distinct, SameMinions

\* The end brings the snapshot back, as it is.
LEMMA EndBrings ==
  ASSUME BoardsOK, GameEnd
  PROVE  /\ phase' = "GAME_OVER" /\ snapshot' = <<>>
         /\ board' = (IF snapshot = <<>> THEN board ELSE snapshot)
<1>1. Trim(snapshot) = snapshot
  BY SeqDomain, BoundsAssumption DEF Trim, BoardsOK, IsBoard
<1> QED
  BY <1>1 DEF GameEnd

\* A board without minions.
LEMMA EmptyBoard == IsBoard(<<>>) /\ IDs(<<>>) = {}
<1>1. <<>> \in Seq(Minion) /\ Len(<<>>) = 0 /\ DOMAIN <<>> = {}
  BY EmptySeq
<1> QED
  BY <1>1, BoundsAssumption DEF IsBoard, Distinct, IDs

\* Every step leaves boards behind, and no snapshot after the end.
LEMMA BoardsKept ==
  ASSUME BoardInv, Next
  PROVE  BoardsOK'
<1> DEFINE Goal == BoardsOK'
<1>1. ClientOK /\ BoardsOK
  BY DEF BoardInv, TypeOK, ClientOK, BoardsOK, IsBoard, PhaseOfStage
<1>2. ClientOK'
  BY ClientKept
<1> HIDE DEF Goal
<1>3. ASSUME NEW c \in Cards, Buy(c) \/ Summon(c) PROVE Goal
  BY <1>1, <1>2, <1>3, NewJoins, JoinKeepsBoards DEF Goal
<1>4. ASSUME NEW e \in Entities, Replay(e) \/ ReturnCopy(e) PROVE Goal
  BY <1>1, <1>2, <1>4, OldJoins, JoinKeepsBoards DEF Goal
<1>5. ASSUME NEW e \in Entities, Sell(e) \/ Bounce(e) \/ Merge(e) \/ Die(e) \/ Clear(e)
      PROVE  Goal
  BY <1>1, <1>5, Leavers, LeaveKeepsBoards DEF Goal
<1>6. ASSUME NEW f \in Entities, OwnCopy(f) PROVE Goal
  <2>1. Create(CardOf(f), "own", f, "SETASIDE") /\ RegisterCopy(Len(ents'), CardOf(f), 1)
    BY <1>6 DEF OwnCopy
  <2>2. Entities \subseteq Entities'
    BY <1>1, <2>1, EntityFields, CreateEffect DEF Zones
  <2> QED
    BY <1>1, <2>1, <2>2, RegisterKeepsBoards, BoundsAssumption DEF Goal, Stats
<1>7. ASSUME NEW c \in Cards, FoeCopy(c) PROVE Goal
  <2>1. Create(c, "foe", 0, "SETASIDE") /\ RegisterCopy(Len(ents'), c, 1)
    BY <1>7 DEF FoeCopy
  <2>2. Entities \subseteq Entities'
    BY <1>1, <2>1, CreateEffect DEF Zones
  <2> QED
    BY <1>1, <2>1, <2>2, RegisterKeepsBoards, BoundsAssumption DEF Goal, Stats
<1>8. ASSUME NEW e \in Entities, NEW v \in Stats, StatChange(e, v) PROVE Goal
  <2>1. SetStat(e, v) /\ UNCHANGED ents
    BY <1>8 DEF StatChange, clientVars
  <2> QED
    BY <1>1, <2>1, StatKeepsBoards DEF Goal
<1>9. ASSUME EndOfTurn PROVE Goal
  <2>1. UNCHANGED <<ents, board, snapshot, phase>>
    BY <1>9 DEF EndOfTurn, machineVars
  <2> QED
    BY <1>1, <2>1 DEF Goal, BoardsOK, Known, Entities, IsBoard, IDs, Distinct
<1>10. ASSUME StartCombat \/ StartRecruit PROVE Goal
  <2>1. /\ UNCHANGED <<ents, board>> /\ snapshot' \in {board, snapshot}
        /\ phase' \in {"RECRUIT", "COMBAT"}
    BY <1>10 DEF StartCombat, StartRecruit, OnTurnTransition
  <2> QED
    BY <1>1, <2>1 DEF Goal, BoardsOK, Known, Entities, IsBoard, IDs, Distinct
<1>11. ASSUME Complete \/ Timeout PROVE Goal
  <2>1. GameEnd /\ UNCHANGED ents
    BY <1>11 DEF Complete, Timeout, clientVars
  <2>2. IsBoard(board') /\ IsBoard(snapshot') /\ IDs(board') \subseteq Entities /\ IDs(snapshot') = {}
    BY <1>1, <2>1, EndBrings, EmptyBoard DEF BoardsOK, Known
  <2>3. snapshot' = <<>> /\ Entities' = Entities
    BY <1>1, <2>1, EndBrings DEF Entities
  <2> QED
    BY <2>2, <2>3 DEF Goal, BoardsOK, Known, IsBoard, IDs, Distinct
<1>12. Goal
  BY <1>3, <1>4, <1>5, <1>6, <1>7, <1>8, <1>9, <1>10, <1>11 DEF Next, Recruit, Combat
<1> QED
  BY <1>12 DEF Goal

-----------------------------------------------------------------------------
(* The phases and the counters *)

CountsOK ==
  /\ gate \in BOOLEAN /\ pending \in Seq(Deltas) /\ phase \in {"RECRUIT", "COMBAT", "GAME_OVER"}
  /\ sold \in Nat /\ mods \subseteq Nat \X Deltas
  /\ sales \in Nat /\ merged \in Nat /\ forced \in BOOLEAN

PhaseOK ==
  /\ phase = "RECRUIT" => stage \in {"recruit", "ending"}
  /\ phase = "COMBAT" => stage \in {"combat", "after"}
  /\ phase = "GAME_OVER" => forced \/ stage = "over"
  /\ stage \in {"recruit", "ending"} => geTurn % 2 = 1
  /\ stage \in {"combat", "after"} => geTurn % 2 = 0
  /\ stage = "over" => phase = "GAME_OVER"

\* The buffered changes become modifications.
LEMMA FlushKeeps ==
  ASSUME CountsOK, ClientOK, Flush
  PROVE  pending' \in Seq(Deltas) /\ mods' \subseteq Nat \X Deltas
<1>1. pending' \in Seq(Deltas)
  BY EmptySeq DEF Flush
<1>2. PICK D \in SUBSET Deltas : mods' = mods \cup {<<geTurn, d>> : d \in D}
  BY DEF Flush
<1>3. mods' \subseteq Nat \X Deltas
  BY <1>2 DEF CountsOK, ClientOK
<1> QED
  BY <1>1, <1>3

\* The history of a recruit event.
LEMMA RememberKeeps ==
  ASSUME CountsOK, NEW s \in Nat, NEW m \in Nat, Remember(s, m)
  PROVE  sales' \in Nat /\ merged' \in Nat /\ (~forced => truth' = Lineup')
BY DEF CountsOK, Remember

\* Every step keeps the phase in step with the turn, and the gate shut.
LEMMA CountsKept ==
  ASSUME BoardInv, Next
  PROVE  CountsOK' /\ PhaseOK' /\ GateShut'
<1> DEFINE Goal == CountsOK' /\ PhaseOK' /\ GateShut'
<1>1. CountsOK /\ PhaseOK /\ GateShut /\ ClientOK
  BY DEF BoardInv, TypeOK, CountsOK, PhaseOK, PhaseOfStage, ClientOK
<1> HIDE DEF Goal
<1>2. ASSUME NEW c \in Cards, Buy(c) \/ Summon(c) PROVE Goal
  <2>1. UNCHANGED <<phase, sold, mods, gate, pending, geTurn, stage, forced>>
    BY <1>2 DEF Buy, Summon, AddMinion, ghostVars
  <2>2. sales' \in Nat /\ merged' \in Nat
    BY <1>1, <1>2, RememberKeeps DEF Buy, Summon, ghostVars, CountsOK
  <2> QED
    BY <1>1, <2>1, <2>2 DEF Goal, CountsOK, PhaseOK, GateShut
<1>3. ASSUME NEW e \in Entities, Replay(e) \/ ReturnCopy(e) PROVE Goal
  <2>1. UNCHANGED <<phase, sold, mods, gate, pending, geTurn, forced>>
    BY <1>3 DEF Replay, ReturnCopy, AddMinion, ghostVars
  <2>2. sales' \in Nat /\ merged' \in Nat
    BY <1>1, <1>3, RememberKeeps DEF Replay, ReturnCopy, ghostVars, CountsOK
  <2>3. stage' = stage \/ (stage \in {"combat", "after"} /\ stage' = "after")
    BY <1>3 DEF Replay, ReturnCopy
  <2> QED
    BY <1>1, <2>1, <2>2, <2>3 DEF Goal, CountsOK, PhaseOK, GateShut
<1>4. ASSUME NEW e \in Entities, Sell(e) \/ Bounce(e) \/ Merge(e) \/ Die(e) \/ Clear(e)
      PROVE  Goal
  <2>1. UNCHANGED <<phase, mods, pending, geTurn, forced>> /\ gate' \in {gate, FALSE}
    BY <1>4 DEF Sell, Bounce, Merge, Die, Clear, Leave, ghostVars
  <2>2. sales' \in Nat /\ merged' \in Nat
    BY <1>1, <1>4, RememberKeeps DEF Sell, Bounce, Merge, Die, Clear, ghostVars, CountsOK
  <2>3. stage' = stage \/ (stage \in {"combat", "after"} /\ stage' = "after")
    BY <1>4 DEF Sell, Bounce, Merge, Die, Clear
  <2>4. sold' = sold \/ sold' = sold + 1
    BY <1>4 DEF Sell, Bounce, Merge, Die, Clear, Leave, OnMinionSold
  <2>5. sold' \in Nat
    BY <1>1, <2>4 DEF CountsOK
  <2>6. CountsOK'
    BY <1>1, <2>1, <2>2, <2>5 DEF CountsOK
  <2> QED
    BY <1>1, <2>1, <2>3, <2>6 DEF Goal, CountsOK, PhaseOK, GateShut
<1>5. ASSUME NEW f \in Entities, OwnCopy(f) PROVE Goal
  <2>1. UNCHANGED <<phase, sold, mods, gate, pending, geTurn, stage, sales, merged, forced>>
    BY <1>5 DEF OwnCopy, RegisterCopy, ghostVars
  <2> QED
    BY <1>1, <2>1 DEF Goal, CountsOK, PhaseOK, GateShut
<1>6. ASSUME NEW c \in Cards, FoeCopy(c) PROVE Goal
  <2>1. UNCHANGED <<phase, sold, mods, gate, pending, geTurn, stage, sales, merged, forced>>
    BY <1>6 DEF FoeCopy, RegisterCopy, ghostVars
  <2> QED
    BY <1>1, <2>1 DEF Goal, CountsOK, PhaseOK, GateShut
<1>7. ASSUME NEW e \in Entities, NEW v \in Stats, StatChange(e, v) PROVE Goal
  <2>1. UNCHANGED <<phase, sold, mods, gate, geTurn, stage, forced>>
    BY <1>7 DEF StatChange, SetStat, clientVars
  <2>2. pending' = pending
    BY <1>7 DEF StatChange, SetStat, PendingAfter, OldValue
  <2>3. sales' \in Nat /\ merged' \in Nat
    BY <1>1, <1>7, RememberKeeps DEF StatChange, CountsOK
  <2> QED
    BY <1>1, <2>1, <2>2, <2>3 DEF Goal, CountsOK, PhaseOK, GateShut
<1>8. ASSUME EndOfTurn PROVE Goal
  <2>1. /\ UNCHANGED <<phase, sold, mods, pending, geTurn, sales, merged, forced>>
        /\ gate' \in BOOLEAN /\ stage = "recruit" /\ stage' = "ending"
    BY <1>8 DEF EndOfTurn, machineVars, ghostVars, Acts
  <2> QED
    BY <1>1, <2>1 DEF Goal, CountsOK, PhaseOK, GateShut
<1>9. ASSUME StartCombat PROVE Goal
  <2>1. /\ UNCHANGED <<sold, forced>> /\ gate' = FALSE /\ geTurn' = geTurn + 1
        /\ stage = "ending" /\ stage' = "combat" /\ Flush
        /\ phase' = IF geTurn' % 2 = 1 THEN "RECRUIT" ELSE "COMBAT"
    BY <1>9 DEF StartCombat, OnTurnTransition
  <2>2. geTurn' % 2 = 0
    BY <1>1, <2>1 DEF PhaseOK, ClientOK
  <2>3. sales' \in Nat /\ merged' \in Nat
    BY <1>1, <1>9, RememberKeeps DEF StartCombat
  <2>4. CountsOK'
    BY <1>1, <2>1, <2>2, <2>3, FlushKeeps DEF CountsOK
  <2> QED
    BY <2>1, <2>2, <2>4 DEF Goal, CountsOK, PhaseOK, GateShut
<1>10. ASSUME StartRecruit PROVE Goal
  <2>1. /\ UNCHANGED <<sold, sales, merged, forced>> /\ gate' = FALSE /\ geTurn' = geTurn + 1
        /\ stage \in {"combat", "after"} /\ stage' = "recruit" /\ Flush
        /\ phase' = IF geTurn' % 2 = 1 THEN "RECRUIT" ELSE "COMBAT"
    BY <1>10 DEF StartRecruit, OnTurnTransition
  <2>2. geTurn' % 2 = 1
    BY <1>1, <2>1 DEF PhaseOK, ClientOK
  <2> QED
    BY <1>1, <2>1, <2>2, FlushKeeps DEF Goal, CountsOK, PhaseOK, GateShut
<1>11. ASSUME Complete PROVE Goal
  <2>1. /\ UNCHANGED <<sold, sales, merged, forced, gate, geTurn>> /\ Flush
        /\ stage' = "over" /\ phase' = "GAME_OVER"
    BY <1>11 DEF Complete, GameEnd
  <2> QED
    BY <1>1, <2>1, FlushKeeps DEF Goal, CountsOK, PhaseOK, GateShut
<1>12. ASSUME Timeout PROVE Goal
  <2>1. /\ UNCHANGED <<sold, mods, pending, gate, geTurn, stage>>
        /\ stage # "over" /\ phase' = "GAME_OVER" /\ forced' = TRUE /\ sales' = 0 /\ merged' = 0
    BY <1>12 DEF Timeout, GameEnd, procVars, clientVars
  <2> QED
    BY <1>1, <2>1 DEF Goal, CountsOK, PhaseOK, GateShut
<1>13. Goal
  BY <1>2, <1>3, <1>4, <1>5, <1>6, <1>7, <1>8, <1>9, <1>10, <1>11, <1>12 DEF Next, Recruit, Combat
<1> QED
  BY <1>13 DEF Goal

-----------------------------------------------------------------------------
(* The combat copies and their slots *)

MarksOK ==
  /\ DOMAIN copies \subseteq Entities /\ \A e \in DOMAIN copies : copies[e] \in Stats
  /\ DOMAIN slotOf \subseteq Entities /\ \A e \in DOMAIN slotOf : slotOf[e] \in 1..MaxBoard
  /\ DOMAIN truth \subseteq Entities

\* A copy follows the slot it has, or claims one of its card that nothing follows.
LEMMA ClaimKeeps ==
  ASSUME NEW snap, IsBoard(snap), NEW e, NEW card,
         \A f \in DOMAIN slotOf : slotOf[f] \in DOMAIN snap,
         \A f, g \in DOMAIN slotOf : slotOf[f] = slotOf[g] => f = g,
         e \in DOMAIN slotOf => CardOf(snap[slotOf[e]].id) = card
  PROVE  LET slots == SlotFor(snap, e, card)
             claimed == Claim(e, slots) IN
         /\ DOMAIN claimed \subseteq DOMAIN slotOf \cup {e}
         /\ DOMAIN slotOf \subseteq DOMAIN claimed
         /\ \A f \in DOMAIN slotOf : claimed[f] = slotOf[f]
         /\ \A f \in DOMAIN claimed : claimed[f] \in DOMAIN snap
         /\ \A f, g \in DOMAIN claimed : claimed[f] = claimed[g] => f = g
         /\ e \notin DOMAIN claimed => slots = {}
         /\ e \in DOMAIN claimed => slots = {claimed[e]} /\ CardOf(snap[claimed[e]].id) = card
<1> DEFINE slots == SlotFor(snap, e, card)
           claimed == Claim(e, slots)
           free == {i \in DOMAIN snap : CardOf(snap[i].id) = card /\ i \notin Range(slotOf)}
<1>1. \A i \in DOMAIN snap : i \in Nat
  BY SeqDomain
<1>2. DOMAIN claimed = DOMAIN slotOf \cup {x \in {e} : slots # {}}
  BY DEF Claim
<1>3. \A f \in DOMAIN slotOf : claimed[f] = slotOf[f]
  BY DEF Claim
<1>4. CASE e \in DOMAIN slotOf
  <2>1. snap # <<>>
    BY <1>4, SeqDomain
  <2>2. slots = {slotOf[e]}
    BY <1>4, <2>1 DEF SlotFor
  <2>3. DOMAIN claimed = DOMAIN slotOf
    BY <1>2, <1>4
  <2> HIDE DEF slots, claimed
  <2> QED
    BY <1>3, <1>4, <2>2, <2>3 DEF slots, claimed
<1>5. CASE e \notin DOMAIN slotOf
  <2>1. slots = {} \/ slots = {i \in free : \A j \in free : i <= j}
    BY <1>5 DEF SlotFor
  <2>2. \A i, j \in slots : i = j
    BY <1>1, <2>1
  <2>3. \A i \in slots : i \in DOMAIN snap /\ CardOf(snap[i].id) = card /\ i \notin Range(slotOf)
    BY <2>1
  <2>4. \A f \in DOMAIN slotOf : slotOf[f] \in Range(slotOf)
    BY DEF Range
  <2>5. CASE slots = {}
    <3>1. DOMAIN claimed = DOMAIN slotOf
      BY <1>2, <2>5
    <3> HIDE DEF slots, claimed
    <3> QED
      BY <1>3, <1>5, <2>5, <3>1 DEF slots, claimed
  <2>6. CASE slots # {}
    <3>1. DOMAIN claimed = DOMAIN slotOf \cup {e}
      BY <1>2, <2>6
    <3>2. claimed[e] = CHOOSE i \in slots : TRUE
      BY <1>5, <3>1 DEF Claim
    <3> HIDE DEF slots, claimed, free
    <3>3. claimed[e] \in slots
      BY <2>6, <3>2
    <3>4. slots = {claimed[e]}
      BY <2>2, <3>3
    <3>5. \A f \in DOMAIN slotOf : claimed[f] # claimed[e]
      BY <1>3, <2>3, <2>4, <3>3
    <3> QED
      BY <1>3, <2>3, <3>1, <3>3, <3>4, <3>5 DEF slots, claimed
  <2> QED
    BY <2>5, <2>6
<1> QED
  BY <1>4, <1>5

\* Where one minion has the card and nothing follows it, its slot is the one claimed.
LEMMA SoleSlot ==
  ASSUME NEW snap, IsBoard(snap), NEW e, NEW card, e \notin DOMAIN slotOf,
         NEW i \in DOMAIN snap, CardOf(snap[i].id) = card, i \notin Range(slotOf),
         \A j \in DOMAIN snap : CardOf(snap[j].id) = card => j = i
  PROVE  SlotFor(snap, e, card) = {i}
<1> DEFINE free == {j \in DOMAIN snap : CardOf(snap[j].id) = card /\ j \notin Range(slotOf)}
<1>1. free = {i}
  OBVIOUS
<1>2. snap # <<>> /\ i \in Nat
  BY SeqDomain
<1>3. SlotFor(snap, e, card) = {k \in free : \A j \in free : k <= j}
  BY <1>2 DEF SlotFor
<1> HIDE DEF free
<1> QED
  BY <1>1, <1>2, <1>3

\* What neither moves a slot nor a copy keeps the claims.
LEMMA ClaimsStay ==
  ASSUME MarksOK, BoardsOK, SlotsClaimed, Entities \subseteq Entities',
         \A e \in Entities : ents'[e] = ents[e],
         UNCHANGED <<geTurn, phase, copies, slotOf>>,
         stage' \in {"recruit", "ending"} => stage \in {"recruit", "ending"},
         phase = "COMBAT" => SameMinions(snapshot, snapshot'),
         DOMAIN truth' \subseteq Entities'
  PROVE  MarksOK' /\ SlotsClaimed'
<1>1. MarksOK'
  BY DEF MarksOK
<1>2. ASSUME phase = "COMBAT"
      PROVE  /\ \A e \in DOMAIN copies \cup DOMAIN slotOf : Copy(e)'
             /\ \A e \in DOMAIN slotOf : /\ slotOf[e] \in DOMAIN snapshot'
                                         /\ CardOf(snapshot[slotOf[e]].id)' = CardOf(e)'
  <2>1. \A e \in DOMAIN copies \cup DOMAIN slotOf : Copy(e) /\ e \in Entities
    BY <1>2 DEF SlotsClaimed, MarksOK
  <2>2. \A e \in DOMAIN slotOf : /\ slotOf[e] \in DOMAIN snapshot
                                 /\ CardOf(snapshot[slotOf[e]].id) = CardOf(e)
    BY <1>2 DEF SlotsClaimed
  <2>3. \A e \in DOMAIN slotOf : /\ snapshot'[slotOf[e]].id = snapshot[slotOf[e]].id
                                 /\ snapshot[slotOf[e]].id \in Entities
    BY <1>2, <2>2 DEF SameMinions, BoardsOK, Known, IDs
  <2>4. DOMAIN snapshot' = DOMAIN snapshot
    BY <1>2 DEF SameMinions
  <2> QED
    BY <2>1, <2>2, <2>3, <2>4 DEF Copy, CardOf
<1>3. SlotsClaimed'
  BY <1>2 DEF SlotsClaimed
<1> QED
  BY <1>1, <1>3

\* A copy that shows a new best stat keeps or makes its claim.
LEMMA ClaimMade ==
  ASSUME MarksOK, BoardsOK, SlotsClaimed, NEW e, Entities' = Entities \cup {e},
         \A f \in Entities : ents'[f] = ents[f], Copy(e)',
         UNCHANGED <<geTurn, phase>>, phase = "COMBAT",
         stage' \notin {"recruit", "ending"}, SameMinions(snapshot, snapshot'),
         slotOf' = Claim(e, SlotFor(snapshot, e, ents'[e].card)),
         DOMAIN copies' \subseteq DOMAIN copies \cup {e},
         \A f \in DOMAIN copies' : copies'[f] \in Stats,
         DOMAIN truth' \subseteq Entities'
  PROVE  MarksOK' /\ SlotsClaimed'
<1> DEFINE slots == SlotFor(snapshot, e, ents'[e].card)
<1>1. /\ \A f \in DOMAIN copies \cup DOMAIN slotOf : Copy(f)
      /\ \A f \in DOMAIN slotOf : /\ slotOf[f] \in DOMAIN snapshot
                                  /\ CardOf(snapshot[slotOf[f]].id) = CardOf(f)
      /\ \A f, g \in DOMAIN slotOf : slotOf[f] = slotOf[g] => f = g
  BY DEF SlotsClaimed
<1>2. e \in DOMAIN slotOf => CardOf(snapshot[slotOf[e]].id) = ents'[e].card
  BY <1>1 DEF MarksOK, CardOf
<1>3. IsBoard(snapshot) /\ DOMAIN snapshot \subseteq 1..MaxBoard
  BY SeqDomain, BoundsAssumption DEF BoardsOK, IsBoard
<1>4. /\ DOMAIN slotOf' \subseteq DOMAIN slotOf \cup {e}
      /\ \A f \in DOMAIN slotOf : slotOf'[f] = slotOf[f]
      /\ \A f \in DOMAIN slotOf' : slotOf'[f] \in DOMAIN snapshot
      /\ \A f, g \in DOMAIN slotOf' : slotOf'[f] = slotOf'[g] => f = g
      /\ e \in DOMAIN slotOf' => CardOf(snapshot[slotOf'[e]].id) = ents'[e].card
  BY <1>1, <1>2, <1>3, ClaimKeeps
<1>5. \A f \in DOMAIN copies' \cup DOMAIN slotOf' : f \in Entities \/ f = e
  BY <1>4 DEF MarksOK
<1>6. MarksOK'
  BY <1>3, <1>4, <1>5 DEF MarksOK
<1>7. \A f \in DOMAIN copies' \cup DOMAIN slotOf' : Copy(f)'
  BY <1>1, <1>4, <1>5 DEF Copy, MarksOK
<1>8. DOMAIN snapshot' = DOMAIN snapshot
  BY DEF SameMinions
<1>9. \A i \in DOMAIN snapshot : /\ snapshot'[i].id = snapshot[i].id
                                 /\ snapshot[i].id \in Entities
  BY DEF SameMinions, BoardsOK, Known, IDs
<1>10. ASSUME NEW f \in DOMAIN slotOf'
       PROVE  CardOf(snapshot[slotOf[f]].id)' = CardOf(f)'
  <2>1. CardOf(snapshot[slotOf'[f]].id) = ents'[f].card
    BY <1>1, <1>4 DEF CardOf, MarksOK
  <2> QED
    BY <1>4, <1>9, <2>1 DEF CardOf
<1>11. SlotsClaimed'
  BY <1>4, <1>7, <1>8, <1>10 DEF SlotsClaimed
<1> QED
  BY <1>6, <1>11

\* No step changes an entity.
LEMMA EntitiesStay ==
  ASSUME ClientOK, Next
  PROVE  Entities \subseteq Entities' /\ \A e \in Entities : ents'[e] = ents[e]
<1> DEFINE Goal == Entities \subseteq Entities' /\ \A e \in Entities : ents'[e] = ents[e]
<1>1. UNCHANGED ents => Goal
  BY DEF Entities
<1>2. ASSUME NEW card \in Cards, NEW side \in {"own", "foe"}, NEW of \in Nat,
             NEW to \in Zones, Create(card, side, of, to)
      PROVE  Goal
  BY <1>2, CreateEffect
<1> HIDE DEF Goal
<1>3. ASSUME NEW c \in Cards, Buy(c) \/ Summon(c) \/ FoeCopy(c) PROVE Goal
  BY <1>2, <1>3 DEF Buy, Summon, FoeCopy, Zones
<1>4. ASSUME NEW f \in Entities, OwnCopy(f) PROVE Goal
  BY <1>2, <1>4, EntityFields DEF OwnCopy, Zones
<1>5. ASSUME NEW e \in Entities,
             Replay(e) \/ Sell(e) \/ Bounce(e) \/ Merge(e) \/ Die(e) \/ Clear(e) \/ ReturnCopy(e)
      PROVE  UNCHANGED ents
  BY <1>5 DEF Replay, Sell, Bounce, Merge, Die, Clear, ReturnCopy, Leave
<1>6. ASSUME NEW e \in Entities, NEW v \in Stats, StatChange(e, v) PROVE UNCHANGED ents
  BY <1>6 DEF StatChange, clientVars
<1>7. ASSUME EndOfTurn \/ StartCombat \/ StartRecruit \/ Complete \/ Timeout
      PROVE  UNCHANGED ents
  BY <1>7 DEF EndOfTurn, StartCombat, StartRecruit, Complete, Timeout, clientVars
<1>8. Goal
  BY <1>1, <1>3, <1>4, <1>5, <1>6, <1>7 DEF Next, Recruit, Combat
<1> QED
  BY <1>8 DEF Goal

\* What is known is known of entities.
LEMMA TruthKept ==
  ASSUME BoardInv, Next
  PROVE  DOMAIN truth' \subseteq Entities'
<1> DEFINE Goal == DOMAIN truth' \subseteq Entities'
<1>1. DOMAIN truth \subseteq Entities'
  BY EntitiesStay DEF BoardInv, TypeOK, ClientOK
<1>2. DOMAIN Lineup' \subseteq Entities'
  BY DEF Lineup, InPlay
<1>3. ASSUME NEW s, NEW m, Remember(s, m) PROVE Goal
  BY <1>1, <1>2, <1>3 DEF Remember
<1>4. DOMAIN truth' \subseteq DOMAIN truth => Goal
  BY <1>1
<1> HIDE DEF Goal
<1>5. ASSUME NEW c \in Cards, Buy(c) PROVE Goal
  BY <1>3, <1>5 DEF Buy
<1>6. ASSUME NEW e \in Entities, Replay(e) \/ Sell(e) \/ Bounce(e) \/ Merge(e) PROVE Goal
  BY <1>3, <1>6 DEF Replay, Sell, Bounce, Merge
<1>7. StartCombat => Goal
  BY <1>3 DEF StartCombat
<1>8. ASSUME NEW c \in Cards, Summon(c) \/ FoeCopy(c) PROVE Goal
  BY <1>4, <1>8 DEF Summon, FoeCopy, ghostVars
<1>9. ASSUME NEW e \in Entities, OwnCopy(e) \/ Die(e) \/ Clear(e) \/ ReturnCopy(e) PROVE Goal
  BY <1>4, <1>9 DEF OwnCopy, Die, Clear, ReturnCopy, ghostVars
<1>10. EndOfTurn \/ StartRecruit \/ Complete => Goal
  BY <1>4 DEF EndOfTurn, StartRecruit, Complete, ghostVars
<1>11. Timeout => Goal
  BY <1>4 DEF Timeout, Empty
<1>12. ASSUME NEW e \in Entities, NEW v \in Stats, StatChange(e, v) PROVE Goal
  <2>1. Remember(0, 0) \/ DOMAIN truth' = DOMAIN truth
    BY <1>12 DEF StatChange
  <2> QED
    BY <1>3, <1>4, <2>1
<1>13. Goal
  BY <1>5, <1>6, <1>7, <1>8, <1>9, <1>10, <1>11, <1>12 DEF Next, Recruit, Combat
<1> QED
  BY <1>13 DEF Goal

\* Every step keeps the claims.
LEMMA MarksKept ==
  ASSUME BoardInv, Next
  PROVE  MarksOK' /\ SlotsClaimed'
<1> DEFINE Goal == MarksOK' /\ SlotsClaimed'
<1>1. ClientOK /\ BoardsOK /\ MarksOK /\ SlotsClaimed /\ PhaseOK /\ CountsOK /\ Made
  BY DEF BoardInv, TypeOK, ClientOK, BoardsOK, IsBoard, PhaseOfStage, MarksOK, PhaseOK, CountsOK
<1>2. /\ Entities \subseteq Entities' /\ \A e \in Entities : ents'[e] = ents[e]
      /\ DOMAIN truth' \subseteq Entities'
  BY <1>1, EntitiesStay, TruthKept
<1>3. UNCHANGED snapshot => SameMinions(snapshot, snapshot')
  BY DEF SameMinions
<1>4. ASSUME UNCHANGED <<geTurn, phase, copies, slotOf>>,
             stage' \in {"recruit", "ending"} => stage \in {"recruit", "ending"},
             phase = "COMBAT" => SameMinions(snapshot, snapshot')
      PROVE  Goal
  BY <1>1, <1>2, <1>4, ClaimsStay
<1> HIDE DEF Goal
<1>5. ASSUME NEW e, Joins(e), stage' = stage \/ stage' = "after" PROVE Goal
  <2>1. /\ UNCHANGED <<geTurn, phase, copies, slotOf>>
        /\ phase = "COMBAT" => snapshot' = snapshot
    BY <1>5 DEF Joins, AddMinion, Mirrored
  <2> QED
    BY <1>3, <1>4, <1>5, <2>1
<1>6. ASSUME NEW c \in Cards, Buy(c) \/ Summon(c) PROVE Goal
  <2>1. stage' = stage
    BY <1>6 DEF Buy, Summon
  <2> QED
    BY <1>1, <1>5, <1>6, <2>1, NewJoins
<1>7. ASSUME NEW e \in Entities, Replay(e) \/ ReturnCopy(e) PROVE Goal
  <2>1. stage' = stage \/ stage' = "after"
    BY <1>7 DEF Replay, ReturnCopy
  <2> QED
    BY <1>1, <1>5, <1>7, <2>1, OldJoins
<1>8. ASSUME NEW e \in Entities, Sell(e) \/ Bounce(e) \/ Merge(e) \/ Die(e) \/ Clear(e)
      PROVE  Goal
  <2>1. stage' = stage \/ stage' = "after"
    BY <1>8 DEF Sell, Bounce, Merge, Die, Clear
  <2>2. PICK to \in Zones \ {"PLAY"} : Leave(e, to)
    BY <1>8, Leavers
  <2>3. e \in InPlay
    BY <1>8, Leavers
  <2>4. /\ UNCHANGED <<geTurn, phase, copies, slotOf>>
        /\ phase = "COMBAT" => snapshot' = snapshot
    BY <1>1, <2>2, <2>3, LeaveEffect
  <2> QED
    BY <1>3, <1>4, <2>1, <2>4
<1>9. ASSUME NEW n, NEW card, Entities' = Entities \cup {n}, n \notin Entities,
             RegisterCopy(n, card, 1), Copy(n)', ents'[n].card = card,
             stage = "combat", UNCHANGED <<geTurn, stage>>
      PROVE  Goal
  <2>1. 1 \in Stats
    BY BoundsAssumption DEF Stats
  <2>2. phase' = phase /\ SameMinions(snapshot, snapshot')
    BY <1>1, <1>2, <1>9, <2>1, RegisterKeepsBoards
  <2>3. CASE phase = "COMBAT"
    <3>1. /\ copies' = [f \in DOMAIN copies \cup {n} |-> IF f = n THEN 1 ELSE copies[f]]
          /\ slotOf' = Claim(n, SlotFor(snapshot, n, ents'[n].card))
      BY <1>9, <2>3 DEF RegisterCopy
    <3>2. DOMAIN copies' \subseteq DOMAIN copies \cup {n} /\ \A f \in DOMAIN copies' : copies'[f] \in Stats
      BY <1>1, <2>1, <3>1 DEF MarksOK
    <3> QED
      BY <1>1, <1>2, <1>9, <2>2, <2>3, <3>1, <3>2, ClaimMade DEF Goal
  <2>4. CASE phase # "COMBAT"
    <3>1. UNCHANGED <<copies, slotOf>>
      BY <1>9, <2>4 DEF RegisterCopy
    <3> QED
      BY <1>4, <1>9, <2>2, <2>4, <3>1
  <2> QED
    BY <2>3, <2>4
<1>10. ASSUME NEW f \in Entities, OwnCopy(f) PROVE Goal
  <2>1. /\ Create(CardOf(f), "own", f, "SETASIDE") /\ RegisterCopy(Len(ents'), CardOf(f), 1)
        /\ stage = "combat" /\ UNCHANGED <<geTurn, stage>>
    BY <1>10 DEF OwnCopy
  <2>2. CardOf(f) \in Cards /\ f \in Nat \ {0}
    BY <1>1, EntityFields
  <2>3. PICK n : n = Len(ents')
    OBVIOUS
  <2>4. /\ Entities' = Entities \cup {n} /\ n \notin Entities /\ ents'[n].card = CardOf(f)
        /\ ents'[n].of = f /\ ents'[n].turn = geTurn
    BY <1>1, <2>1, <2>2, <2>3, CreateEffect DEF Zones
  <2>5. Copy(n)'
    BY <2>1, <2>2, <2>4 DEF Copy
  <2> QED
    BY <1>9, <2>1, <2>3, <2>4, <2>5
<1>11. ASSUME NEW c \in Cards, FoeCopy(c) PROVE Goal
  <2>1. /\ Create(c, "foe", 0, "SETASIDE") /\ RegisterCopy(Len(ents'), c, 1)
        /\ stage = "combat" /\ UNCHANGED <<geTurn, stage>>
    BY <1>11 DEF FoeCopy
  <2>2. PICK n : n = Len(ents')
    OBVIOUS
  <2>3. /\ Entities' = Entities \cup {n} /\ n \notin Entities /\ ents'[n].card = c
        /\ ents'[n].side = "foe" /\ ents'[n].turn = geTurn
    BY <1>1, <2>1, <2>2, CreateEffect DEF Zones
  <2>4. Copy(n)'
    BY <2>1, <2>3 DEF Copy
  <2> QED
    BY <1>9, <2>1, <2>2, <2>3, <2>4
<1>12. ASSUME NEW e \in Entities, NEW v \in Stats, StatChange(e, v) PROVE Goal
  <2>1. SetStat(e, v) /\ UNCHANGED <<ents, geTurn, stage>>
    BY <1>12 DEF StatChange, clientVars
  <2>2. phase' = phase /\ (phase # "RECRUIT" => SameMinions(snapshot, snapshot'))
    BY <1>1, <2>1, StatKeepsBoards
  <2>3. CASE ~(e \in DOMAIN copies /\ v > copies[e])
    <3>1. UNCHANGED <<copies, slotOf>>
      BY <2>1, <2>3 DEF SetStat
    <3> QED
      BY <1>4, <2>1, <2>2, <3>1
  <2>4. CASE e \in DOMAIN copies /\ v > copies[e]
    <3>1. phase # "RECRUIT" /\ stage \notin {"recruit", "ending"}
      BY <1>1, <2>4 DEF SlotsClaimed, PhaseOK
    <3>2. /\ copies' = [copies EXCEPT ![e] = v]
          /\ slotOf' = Claim(e, SlotFor(snapshot, e, CardOf(e)))
      BY <2>1, <2>4, <3>1 DEF SetStat, Mirrored
    <3>3. DOMAIN copies' = DOMAIN copies /\ \A f \in DOMAIN copies' : copies'[f] \in Stats
      BY <1>1, <3>2 DEF MarksOK
    <3>4. CASE phase = "COMBAT"
      <4>1. Copy(e)' /\ ents'[e].card = CardOf(e)
        BY <1>1, <2>1, <2>4, <3>4 DEF SlotsClaimed, Copy, CardOf
      <4>2. Entities' = Entities \cup {e}
        BY <2>1 DEF Entities
      <4> QED
        BY <1>1, <1>2, <2>1, <2>2, <3>1, <3>2, <3>3, <3>4, <4>1, <4>2, ClaimMade DEF Goal
    <3>5. CASE phase = "GAME_OVER"
      <4>1. SlotFor(snapshot, e, CardOf(e)) = {}
        BY <1>1, <3>5 DEF SlotFor, BoardsOK
      <4>2. DOMAIN slotOf' = DOMAIN slotOf /\ \A f \in DOMAIN slotOf : slotOf'[f] = slotOf[f]
        BY <3>2, <4>1 DEF Claim
      <4>3. MarksOK'
        BY <1>1, <1>2, <3>3, <4>2 DEF MarksOK
      <4>4. SlotsClaimed'
        BY <2>1, <2>2, <3>1, <3>5 DEF SlotsClaimed
      <4> QED
        BY <4>3, <4>4 DEF Goal
    <3> QED
      BY <1>1, <3>1, <3>4, <3>5 DEF CountsOK
  <2> QED
    BY <2>3, <2>4
<1>13. ASSUME EndOfTurn PROVE Goal
  <2>1. UNCHANGED <<geTurn, phase, copies, slotOf, snapshot>> /\ stage = "recruit"
    BY <1>13 DEF EndOfTurn, machineVars, Acts
  <2> QED
    BY <1>3, <1>4, <2>1
<1>14. ASSUME StartCombat \/ StartRecruit PROVE Goal
  <2>1. /\ geTurn' = geTurn + 1 /\ UNCHANGED ents /\ OnTurnTransition(geTurn')
        /\ stage' \in {"recruit", "combat"} /\ geTurn' \in Nat
    BY <1>1, <1>14 DEF StartCombat, StartRecruit, ClientOK
  <2>2. CASE StartRecruit
    <3>1. geTurn' % 2 = 1 /\ stage' = "recruit"
      BY <2>2, CountsKept DEF StartRecruit, PhaseOK
    <3>2. copies' = Empty /\ slotOf' = slotOf /\ phase' = "RECRUIT"
      BY <2>1, <3>1 DEF OnTurnTransition, CopiesAfter
    <3>3. DOMAIN copies' = {}
      BY <3>2 DEF Empty
    <3> QED
      BY <1>1, <1>2, <3>2, <3>3 DEF Goal, MarksOK, SlotsClaimed
  <2>3. CASE StartCombat
    <3>1. geTurn' % 2 = 0 /\ stage' = "combat"
      BY <2>3, CountsKept DEF StartCombat, PhaseOK
    <3>2. copies' = copies /\ slotOf' = Empty
      BY <2>1, <3>1 DEF OnTurnTransition, CopiesAfter
    <3>3. DOMAIN copies = {}
      BY <1>1, <2>3 DEF SlotsClaimed, StartCombat
    <3>4. DOMAIN copies' = {} /\ DOMAIN slotOf' = {}
      BY <3>2, <3>3 DEF Empty
    <3> QED
      BY <1>1, <1>2, <3>1, <3>4 DEF Goal, MarksOK, SlotsClaimed
  <2> QED
    BY <1>14, <2>2, <2>3
<1>15. ASSUME Complete \/ Timeout PROVE Goal
  <2>1. /\ UNCHANGED <<copies, slotOf>> /\ phase' = "GAME_OVER"
        /\ stage' = "over" \/ stage' = stage
    BY <1>15 DEF Complete, Timeout, GameEnd, clientVars, procVars
  <2> QED
    BY <1>1, <1>2, <2>1 DEF Goal, MarksOK, SlotsClaimed
<1>16. Goal
  BY <1>6, <1>7, <1>8, <1>10, <1>11, <1>12, <1>13, <1>14, <1>15 DEF Next, Recruit, Combat
<1> QED
  BY <1>16 DEF Goal

-----------------------------------------------------------------------------
(* The board is the minions in play *)

Shown == IDs(board) = InPlay /\ \A i \in DOMAIN board : board[i].stat = stat[board[i].id]

\* A record that is not over was not over before.
LEMMA InGameBefore ==
  ASSUME BoardInv, Next, InGame'
  PROVE  /\ InGame /\ phase \in {"RECRUIT", "COMBAT"}
         /\ Shown /\ SnapshotKept /\ StatsKept
<1>1. stage # "over"
  BY DEF Next, Recruit, Combat, Buy, Replay, Sell, Bounce, Merge, EndOfTurn, Acts, StartCombat,
         OwnCopy, FoeCopy, Summon, Die, Clear, ReturnCopy, StartRecruit, StatChange, Complete, Timeout
<1>2. forced' = forced \/ forced' = TRUE
  BY DEF Next, Recruit, Combat, Buy, Replay, Sell, Bounce, Merge, EndOfTurn, StartCombat,
         OwnCopy, FoeCopy, Summon, Die, Clear, ReturnCopy, StartRecruit, StatChange, Complete, Timeout,
         ghostVars
<1>3. InGame
  BY <1>1, <1>2 DEF InGame
<1>4. phase \in {"RECRUIT", "COMBAT"}
  BY <1>3 DEF BoardInv, TypeOK, PhaseOfStage, InGame
<1> QED
  BY <1>3, <1>4 DEF BoardInv, InGame, BoardInPlay, Shown

\* A minion that comes into play is on the board, where there is room.
LEMMA JoinKeepsShown ==
  ASSUME ClientOK', BoardsOK, NEW e, Joins(e), phase # "GAME_OVER", Shown,
         Len(board) < MaxBoard
  PROVE  Shown'
<1> DEFINE m == [id |-> e, stat |-> stat'[e]]
<1>1. e \in Entities' /\ e \in Nat \ {0} /\ stat'[e] \in Stats
  <2>1. e \in Entities'
    BY DEF Joins
  <2> QED
    BY <2>1 DEF ClientOK, Entities
<1>2. m \in Minion /\ m.id = e /\ m.stat = stat'[e]
  BY <1>1 DEF Minion
<1>3. board' = Upsert(board, m) /\ InPlay' = InPlay \cup {e}
  BY DEF Joins, AddMinion
<1> HIDE DEF m
<1>4. /\ IDs(board') = IDs(board) \cup {e}
      /\ \A i \in DOMAIN board' : board'[i] = m \/ \E j \in DOMAIN board : board'[i] = board[j]
  BY <1>2, <1>3, UpsertAdds DEF BoardsOK
<1>5. ASSUME NEW j \in DOMAIN board PROVE board[j].stat = stat'[board[j].id]
  <2>1. board[j].id \in Entities
    BY DEF Shown, IDs, InPlay
  <2> QED
    BY <2>1 DEF Shown, Joins
<1>6. \A i \in DOMAIN board' : board'[i].stat = stat'[board'[i].id]
  BY <1>2, <1>4, <1>5
<1>7. IDs(board') = InPlay'
  BY <1>3, <1>4 DEF Shown
<1> QED
  BY <1>6, <1>7 DEF Shown, IDs

\* The place of a minion that the log says fits.
LEMMA RoomFor ==
  ASSUME BoardsOK, Shown, Cardinality(InPlay) < MaxBoard
  PROVE  Len(board) < MaxBoard
BY BoardSize DEF BoardsOK, Shown

\* The copies that return are of different minions of the snapshot, which fit.
LEMMA RoomForCopy ==
  ASSUME BoardsOK, Shown, SnapshotKept, OneCopyEach, ClientOK, NEW e \in Entities, ReturnCopy(e)
  PROVE  Len(board) < MaxBoard
<1>1. /\ stage \in {"combat", "after"} /\ zone[e] = "SETASIDE" /\ Returned(e)
      /\ \A f \in InPlay : Returned(f)
  BY DEF ReturnCopy, Aside
<1>2. e \notin InPlay /\ InPlay \cup {e} \subseteq Returning
  BY <1>1 DEF InPlay, Returning
<1>3. IsFiniteSet(IDs(snapshot)) /\ Cardinality(IDs(snapshot)) = Len(snapshot)
  BY BoardSize DEF BoardsOK
<1> DEFINE f == [x \in Returning |-> ents[x].of]
<1>4. f \in Injection(Returning, IDs(snapshot))
  <2>1. \A x \in Returning : ents[x].of \in IDs(snapshot)
    BY <1>1 DEF SnapshotKept
  <2>2. f \in [Returning -> IDs(snapshot)]
    BY <2>1
  <2>3. \A x, y \in Returning : f[x] = f[y] => x = y
    BY DEF OneCopyEach
  <2> QED
    BY <2>2, <2>3 DEF Injection, IsInjective
<1>5. IsFiniteSet(Returning) /\ Cardinality(Returning) <= Cardinality(IDs(snapshot))
  BY <1>3, <1>4, FS_Injection
<1>6. /\ IsFiniteSet(InPlay \cup {e}) /\ IsFiniteSet(InPlay)
      /\ Cardinality(InPlay \cup {e}) <= Cardinality(Returning)
  BY <1>2, <1>5, FS_Subset
<1>7. Cardinality(InPlay \cup {e}) = Cardinality(InPlay) + 1 /\ Cardinality(InPlay) \in Nat
  BY <1>2, <1>6, FS_AddElement, FS_CardinalityType
<1>8. Cardinality(Returning) \in Nat /\ Len(snapshot) \in Nat /\ Len(snapshot) <= MaxBoard
  BY <1>5, FS_CardinalityType, SeqDomain DEF BoardsOK, IsBoard
<1>9. Cardinality(InPlay) < MaxBoard
  BY <1>3, <1>5, <1>6, <1>7, <1>8, BoundsAssumption
<1> QED
  BY <1>9, RoomFor

\* One that leaves play leaves the board.
LEMMA LeaveKeepsShown ==
  ASSUME ClientOK, BoardsOK, NEW e \in InPlay, NEW to \in Zones \ {"PLAY"}, Leave(e, to),
         phase # "GAME_OVER", Shown
  PROVE  Shown'
<1>1. InPlay' = InPlay \ {e} /\ stat' = stat /\ board' = RemoveMinion(board, e)
  BY LeaveEffect
<1>2. /\ IDs(board') = IDs(board) \ {e}
      /\ \A i \in DOMAIN board' : \E j \in DOMAIN board : board'[i] = board[j]
  BY <1>1, RemoveTakes DEF BoardsOK
<1>3. IDs(board') = InPlay'
  BY <1>1, <1>2 DEF Shown
<1>4. \A i \in DOMAIN board' : board'[i].stat = stat'[board'[i].id]
  BY <1>1, <1>2 DEF Shown
<1> QED
  BY <1>3, <1>4 DEF Shown, IDs

\* Until the end every step keeps the board the minions in play.
LEMMA ShownKept ==
  ASSUME BoardInv, Next, InGame'
  PROVE  Shown'
<1>1. ClientOK /\ BoardsOK /\ OneCopyEach
  BY DEF BoardInv, TypeOK, ClientOK, BoardsOK, IsBoard, PhaseOfStage
<1>2. InGame /\ phase # "GAME_OVER" /\ Shown /\ SnapshotKept
  BY InGameBefore
<1>3. ClientOK'
  BY ClientKept
<1> DEFINE Goal == Shown'
<1>4. UNCHANGED <<ents, zone, stat, board>> => Goal
  BY <1>2 DEF Shown, InPlay, Entities, IDs
<1> HIDE DEF Goal
<1>5. ASSUME NEW c \in Cards, Buy(c) \/ Summon(c) PROVE Goal
  <2>1. Joins(Len(ents')) /\ Cardinality(InPlay) < MaxBoard
    BY <1>1, <1>5, NewJoins DEF Buy, Summon
  <2> QED
    BY <1>1, <1>2, <1>3, <2>1, RoomFor, JoinKeepsShown DEF Goal
<1>6. ASSUME NEW e \in Entities, Replay(e) PROVE Goal
  <2>1. Joins(e) /\ Cardinality(InPlay) < MaxBoard
    BY <1>1, <1>6, OldJoins DEF Replay
  <2> QED
    BY <1>1, <1>2, <1>3, <2>1, RoomFor, JoinKeepsShown DEF Goal
<1>7. ASSUME NEW e \in Entities, ReturnCopy(e) PROVE Goal
  <2>1. Joins(e)
    BY <1>1, <1>7, OldJoins
  <2> QED
    BY <1>1, <1>2, <1>3, <1>7, <2>1, RoomForCopy, JoinKeepsShown DEF Goal
<1>8. ASSUME NEW e \in Entities, Sell(e) \/ Bounce(e) \/ Merge(e) \/ Die(e) \/ Clear(e)
      PROVE  Goal
  BY <1>1, <1>2, <1>8, Leavers, LeaveKeepsShown DEF Goal
<1>9. ASSUME NEW card, NEW to \in Zones \ {"PLAY"}, NEW side \in {"own", "foe"}, NEW of \in Nat,
             card \in Cards, Create(card, side, of, to), board' = board
      PROVE  Goal
  <2>1. PICK n : /\ Entities' = Entities \cup {n} /\ n \notin Entities
                 /\ \A e \in Entities : zone'[e] = zone[e] /\ stat'[e] = stat[e]
                 /\ zone'[n] = to
    BY <1>1, <1>9, CreateEffect
  <2>2. InPlay' = InPlay
    BY <2>1 DEF InPlay
  <2>3. \A i \in DOMAIN board : board[i].id \in Entities
    BY <1>2 DEF Shown, IDs, InPlay
  <2> QED
    BY <1>2, <1>9, <2>1, <2>2, <2>3 DEF Goal, Shown, IDs
<1>10. ASSUME NEW f \in Entities, OwnCopy(f) PROVE Goal
  <2>1. Create(CardOf(f), "own", f, "SETASIDE") /\ board' = board
    BY <1>10 DEF OwnCopy, RegisterCopy
  <2>2. CardOf(f) \in Cards /\ f \in Nat
    BY <1>1, EntityFields
  <2> QED
    BY <1>9, <2>1, <2>2 DEF Zones
<1>11. ASSUME NEW c \in Cards, FoeCopy(c) PROVE Goal
  <2>1. Create(c, "foe", 0, "SETASIDE") /\ board' = board
    BY <1>11 DEF FoeCopy, RegisterCopy
  <2> QED
    BY <1>9, <2>1 DEF Zones
<1>12. ASSUME NEW e \in Entities, NEW v \in Stats, StatChange(e, v) PROVE Goal
  <2>1. /\ stat' = [stat EXCEPT ![e] = v] /\ board' = UpdateMinionStat(board, e, v)
        /\ UNCHANGED <<ents, zone>>
    BY <1>12 DEF StatChange, SetStat, clientVars
  <2>2. /\ SameMinions(board, board') /\ IDs(board') = IDs(board)
        /\ \A i \in DOMAIN board : board'[i].stat = IF board[i].id = e THEN v ELSE board[i].stat
    BY <1>1, <2>1, UpdateRestates, SameMinionsIDs DEF BoardsOK
  <2>3. InPlay' = InPlay
    BY <2>1 DEF InPlay, Entities
  <2>4. \A f \in Entities : stat'[f] = IF f = e THEN v ELSE stat[f]
    BY <1>1, <2>1 DEF ClientOK
  <2>5. \A i \in DOMAIN board : board[i].id \in Entities
    BY <1>2 DEF Shown, IDs, InPlay
  <2>6. \A i \in DOMAIN board' : board'[i].stat = stat'[board'[i].id]
    BY <1>2, <2>2, <2>4, <2>5 DEF Shown, SameMinions
  <2>7. IDs(board') = InPlay'
    BY <1>2, <2>2, <2>3 DEF Shown
  <2> QED
    BY <2>6, <2>7 DEF Goal, Shown, IDs
<1>13. ASSUME EndOfTurn PROVE Goal
  BY <1>4, <1>13 DEF EndOfTurn, machineVars
<1>14. ASSUME StartCombat \/ StartRecruit PROVE Goal
  <2>1. UNCHANGED <<ents, zone, board>> /\ stat' \in {stat, Pruned}
    BY <1>14 DEF StartCombat, StartRecruit, OnTurnTransition
  <2>2. InPlay' = InPlay
    BY <2>1 DEF InPlay, Entities
  <2>3. \A f \in InPlay : stat'[f] = stat[f]
    BY <2>1 DEF Pruned, InPlay
  <2>4. \A i \in DOMAIN board : board[i].id \in InPlay
    BY <1>2 DEF Shown, IDs
  <2> QED
    BY <1>2, <2>1, <2>2, <2>3, <2>4 DEF Goal, Shown, IDs
<1>15. ~Complete /\ ~Timeout
  BY DEF Complete, Timeout, InGame
<1>16. Goal
  BY <1>5, <1>6, <1>7, <1>8, <1>10, <1>11, <1>12, <1>13, <1>14, <1>15 DEF Next, Recruit, Combat
<1> QED
  BY <1>16 DEF Goal

-----------------------------------------------------------------------------
(* The snapshot and what is known of its minions *)

\* An event of the recruit phase, or the start of its combat, records the board.
LEMMA RecruitRecorded ==
  ASSUME BoardsOK', Shown', truth' = Lineup', snapshot' = board',
         phase' = "COMBAT" => \A e \in Entities' : CopyOf(e)' = {},
         stage' \in {"combat", "after"} => Returning' = {}
  PROVE  SnapshotKept' /\ StatsKept'
<1>1. DOMAIN truth' = InPlay' /\ \A e \in InPlay' : truth'[e] = stat'[e]
  BY DEF Lineup
<1>2. IDs(snapshot') = DOMAIN truth'
  BY <1>1 DEF Shown, IDs
<1>3. SnapshotKept'
  BY <1>1, <1>2 DEF SnapshotKept, Fighters, IDs
<1>4. \A i \in DOMAIN snapshot' : snapshot'[i].id \in InPlay' /\ snapshot'[i].id \in Entities'
  BY DEF Shown, IDs, InPlay
<1>5. \A i \in DOMAIN snapshot' : snapshot'[i].stat = truth'[snapshot'[i].id]
  BY <1>1, <1>4 DEF Shown
<1>6. StatsKept'
  BY <1>4, <1>5 DEF StatsKept
<1> QED
  BY <1>3, <1>6

\* A combat keeps the snapshot, and a minion it copies comes from it.
LEMMA CombatKeepsSnapshot ==
  ASSUME BoardsOK, BoardsOK', SnapshotKept, SameMinions(snapshot, snapshot'),
         DOMAIN truth' = DOMAIN truth, snapshot = <<>> => board' = <<>>,
         stage' \in {"combat", "after"} =>
           Fighters' \subseteq DOMAIN truth /\ \A e \in Returning' : ents'[e].of \in DOMAIN truth
  PROVE  SnapshotKept'
<1>1. IDs(snapshot') = DOMAIN truth'
  BY SameMinionsIDs DEF SnapshotKept
<1>2. snapshot' = <<>> => snapshot = <<>>
  <2>1. IsBoard(snapshot) /\ IsBoard(snapshot')
    BY DEF BoardsOK, IsBoard, Distinct
  <2> QED
    BY <2>1, SeqDomain DEF SameMinions
<1> QED
  BY <1>1, <1>2 DEF SnapshotKept, IDs

\* Without a snapshot nothing comes back, and nothing is in play.
LEMMA NothingFights ==
  ASSUME Shown, SnapshotKept, BoardsOK, stage \in {"combat", "after"}, snapshot = <<>>
  PROVE  board = <<>> /\ InPlay = {} /\ Returning = {}
<1>1. board = <<>> /\ InPlay = {}
  BY EmptyBoard DEF SnapshotKept, Shown
<1>2. DOMAIN truth = {}
  BY EmptyBoard DEF SnapshotKept
<1>3. Returning = {}
  BY <1>2 DEF SnapshotKept
<1> QED
  BY <1>1, <1>3

\* While a turn lasts a minion does not become alone.
LEMMA AloneBefore ==
  ASSUME MarksOK, Entities \subseteq Entities', \A e \in Entities : ents'[e] = ents[e],
         DOMAIN truth' = DOMAIN truth, CombatTurn' = CombatTurn,
         NEW e \in Entities, Alone(e)'
  PROVE  Alone(e)
<1>1. OwnCards(e)' = {} /\ OtherCopies(e)' = {}
  BY DEF Alone
<1>2. OwnCards(e) \subseteq OwnCards(e)'
  BY DEF OwnCards, CardOf, MarksOK
<1>3. OtherCopies(e) \subseteq OtherCopies(e)'
  BY DEF OtherCopies, CardOf
<1> QED
  BY <1>1, <1>2, <1>3 DEF Alone

\* What the record knows of a minion stays while neither it nor its slot is touched.
LEMMA StatsStay ==
  ASSUME MarksOK, BoardsOK, StatsKept, Entities \subseteq Entities',
         \A e \in Entities : ents'[e] = ents[e],
         \A e \in Entities' \ Entities : ents'[e].of = 0 \/ ents'[e].turn # geTurn',
         UNCHANGED <<snapshot, truth, copies, slotOf>>, CombatTurn' = CombatTurn,
         phase' = "COMBAT" => phase = "COMBAT" /\ geTurn' = geTurn,
         ClientOK
  PROVE  StatsKept'
<1> SUFFICES ASSUME NEW i \in DOMAIN snapshot, NEW e, e = snapshot[i].id, Alone(e)'
             PROVE  /\ snapshot[i].stat = truth[e]
                    /\ phase' = "COMBAT" => \A c \in CopyOf(e)' :
                         /\ c \in DOMAIN copies /\ copies[c] <= truth[e]
                         /\ c \in DOMAIN slotOf /\ slotOf[c] = i
  BY DEF StatsKept
<1>1. e \in Entities /\ e # 0
  BY DEF BoardsOK, Known, IDs, Entities
<1>2. Alone(e)
  BY <1>1, AloneBefore
<1>3. snapshot[i].stat = truth[e]
  BY <1>2 DEF StatsKept
<1>4. ASSUME phase' = "COMBAT", NEW c \in CopyOf(e)' PROVE c \in CopyOf(e)
  BY <1>1, <1>4 DEF CopyOf
<1> QED
  BY <1>2, <1>3, <1>4 DEF StatsKept

\* The steps of a recruit phase, and the start of its combat, record the board.
LEMMA RecruitKept ==
  ASSUME BoardInv, Next, InGame',
         \/ \E c \in Cards : Buy(c)
         \/ \E e \in Entities : Replay(e) \/ Sell(e) \/ Bounce(e) \/ Merge(e)
         \/ StartCombat
         \/ /\ stage \in {"recruit", "ending"}
            /\ \E e \in Entities, v \in Stats : StatChange(e, v)
  PROVE  SnapshotKept' /\ StatsKept'
<1>1. /\ ClientOK /\ BoardsOK /\ MarksOK /\ PhaseOK /\ SlotsClaimed /\ Made
      /\ BoardsOK' /\ ClientOK' /\ Shown' /\ CountsOK' /\ PhaseOK'
  BY ClientKept, BoardsKept, ShownKept, CountsKept
     DEF BoardInv, TypeOK, ClientOK, BoardsOK, IsBoard, PhaseOfStage, MarksOK, PhaseOK
<1>2. InGame /\ phase \in {"RECRUIT", "COMBAT"} /\ Shown
  BY InGameBefore
<1>3. ~forced
  BY <1>2 DEF InGame
<1>4. stage \in {"recruit", "ending"} /\ phase = "RECRUIT"
  BY <1>1, <1>2 DEF Buy, Replay, Sell, Bounce, Merge, StartCombat, Acts, PhaseOK
<1> DEFINE Goal == SnapshotKept' /\ StatsKept'
<1>5. ASSUME truth' = Lineup', snapshot' = board', UNCHANGED <<phase, stage>> PROVE Goal
  BY <1>1, <1>4, <1>5, RecruitRecorded
<1> HIDE DEF Goal
<1>6. ASSUME NEW s, NEW m, Remember(s, m) PROVE truth' = Lineup'
  BY <1>3, <1>6 DEF Remember
<1>7. ASSUME NEW c \in Cards, Buy(c) PROVE Goal
  <2>1. Remember(0, 0) /\ stage' = stage /\ phase' = phase /\ snapshot' = Mirrored(board')
    BY <1>7 DEF Buy, AddMinion
  <2> QED
    BY <1>4, <1>5, <1>6, <2>1 DEF Mirrored
<1>8. ASSUME NEW e \in Entities, Replay(e) PROVE Goal
  <2>1. Remember(0, 0) /\ stage' = stage /\ phase' = phase /\ snapshot' = Mirrored(board')
    BY <1>8 DEF Replay, AddMinion
  <2> QED
    BY <1>4, <1>5, <1>6, <2>1 DEF Mirrored
<1>9. ASSUME NEW e \in Entities, Sell(e) \/ Bounce(e) \/ Merge(e) PROVE Goal
  <2>1. stage' = stage /\ \E s, m : Remember(s, m)
    BY <1>9 DEF Sell, Bounce, Merge
  <2>2. phase' = phase /\ snapshot' = board'
    BY <1>1, <1>4, <1>9, Leavers, LeaveEffect
  <2> QED
    BY <1>5, <1>6, <2>1, <2>2
<1>10. ASSUME StartCombat PROVE Goal
  <2>1. /\ geTurn' = geTurn + 1 /\ UNCHANGED <<ents, zone>> /\ stage' = "combat"
        /\ OnTurnTransition(geTurn') /\ Remember(0, 0)
    BY <1>10 DEF StartCombat
  <2>2. geTurn' % 2 = 0
    BY <1>1, <2>1 DEF PhaseOK
  <2>3. snapshot' = board' /\ stat' = stat
    BY <2>1, <2>2 DEF OnTurnTransition
  <2>4. /\ Entities' = Entities /\ Returning' = {}
        /\ \A e \in Entities : CopyOf(e)' = {}
    BY <1>1, <2>1, <2>3, TurnKeeps DEF ClientOK
  <2>5. truth' = Lineup'
    BY <1>6, <2>1
  <2> QED
    BY <1>1, <2>3, <2>4, <2>5, RecruitRecorded DEF Goal
<1>11. ASSUME NEW e \in Entities, NEW v \in Stats, StatChange(e, v) PROVE Goal
  <2>1. /\ SetStat(e, v) /\ Remember(0, 0) /\ stage' = stage /\ (e \in InPlay \/ Aside(e))
        /\ UNCHANGED <<ents, zone>>
    BY <1>4, <1>11 DEF StatChange, clientVars
  <2>2. e \in InPlay
    BY <1>1, <1>4, <2>1 DEF PhaseOK, Aside
  <2>3. e \in IDs(board) /\ e \notin DOMAIN copies
    BY <1>1, <1>2, <1>4, <2>2 DEF Shown, SlotsClaimed
  <2>4. snapshot' = Raise(board', {}, v) /\ phase' = phase
    BY <1>4, <2>1, <2>3 DEF SetStat, Mirrored
  <2>5. IsBoard(board')
    BY <1>1 DEF BoardsOK, IsBoard, Distinct
  <2>6. snapshot' = board'
    BY <2>4, <2>5, RaiseRestates
  <2> QED
    BY <1>5, <1>6, <2>1, <2>4, <2>6
<1>12. Goal
  BY <1>4, <1>7, <1>8, <1>9, <1>10, <1>11
<1> QED
  BY <1>12 DEF Goal

\* What follows a slot of a minion that is alone, or has its card, is its own copy.
LEMMA CopiesOfAlone ==
  ASSUME ClientOK, MarksOK, PhaseOK, SlotsClaimed, phase = "COMBAT",
         NEW e \in Entities, Alone(e),
         NEW c \in DOMAIN copies \cup DOMAIN slotOf, CardOf(c) = CardOf(e)
  PROVE  c \in CopyOf(e)
<1>1. c \in Entities /\ Copy(c)
  BY DEF SlotsClaimed, MarksOK
<1>2. CombatTurn = geTurn
  <2>1. geTurn \in Nat /\ geTurn % 2 = 0
    BY DEF ClientOK, PhaseOK
  <2> QED
    BY <2>1 DEF CombatTurn
<1>3. c \notin OtherCopies(e)
  BY DEF Alone
<1> QED
  BY <1>1, <1>2, <1>3 DEF OtherCopies, Copy, CopyOf

\* The copy of a minion that is alone follows its slot; of another, another slot.
LEMMA OwnCopyStats ==
  ASSUME ClientOK, BoardsOK, MarksOK, PhaseOK, SlotsClaimed, phase = "COMBAT",
         SnapshotKept, StatsKept, NEW f \in Entities, OwnCopy(f)
  PROVE  StatsKept'
<1> DEFINE card == CardOf(f)
           slots == SlotFor(snapshot, Len(ents'), card)
<1>1. /\ Create(card, "own", f, "SETASIDE") /\ RegisterCopy(Len(ents'), card, 1)
      /\ stage = "combat" /\ f \in Fighters /\ CopyOf(f) = {}
      /\ UNCHANGED <<geTurn, truth>>
  BY DEF OwnCopy, ghostVars
<1>2. card \in Cards /\ f \in Nat \ {0}
  BY EntityFields
<1>3. PICK n : /\ n = Len(ents') /\ n \notin Entities /\ Entities' = Entities \cup {n}
               /\ \A e \in Entities : ents'[e] = ents[e]
               /\ ents'[n].of = f /\ ents'[n].turn = geTurn
  BY <1>1, <1>2, CreateEffect DEF Zones
<1>4. /\ copies' = [x \in DOMAIN copies \cup {n} |-> IF x = n THEN 1 ELSE copies[x]]
      /\ snapshot' = Raise(snapshot, slots, 1) /\ slotOf' = Claim(n, slots) /\ phase' = phase
  BY <1>1, <1>3 DEF RegisterCopy
<1>5. IsBoard(snapshot) /\ n \notin DOMAIN slotOf
  BY <1>3 DEF BoardsOK, MarksOK
<1>6. /\ \A x \in DOMAIN slotOf : slotOf'[x] = slotOf[x] /\ x \in DOMAIN slotOf'
      /\ n \in DOMAIN slotOf' => slots = {slotOf'[n]} /\ CardOf(snapshot[slotOf'[n]].id) = card
      /\ n \notin DOMAIN slotOf' => slots = {}
  BY <1>3, <1>4, <1>5, ClaimKeeps DEF SlotsClaimed
<1>7. /\ DOMAIN snapshot' = DOMAIN snapshot /\ 1 \in Stats
      /\ \A i \in DOMAIN snapshot :
           /\ snapshot'[i].id = snapshot[i].id /\ snapshot[i].stat \in Stats
           /\ snapshot'[i].stat = IF i \in slots THEN Larger(snapshot[i].stat, 1) ELSE snapshot[i].stat
  BY <1>4, <1>5, RaiseRestates, SeqDomain, BoundsAssumption DEF SameMinions, Stats
<1>8. f \in DOMAIN truth
  BY <1>1 DEF SnapshotKept
<1>9. CombatTurn' = CombatTurn
  BY <1>1 DEF CombatTurn
<1> HIDE DEF slots
<1> SUFFICES ASSUME NEW i \in DOMAIN snapshot, NEW e, e = snapshot[i].id, Alone(e)'
             PROVE  /\ snapshot'[i].stat = truth[e]
                    /\ \A c \in CopyOf(e)' :
                         /\ c \in DOMAIN copies' /\ copies'[c] <= truth[e]
                         /\ c \in DOMAIN slotOf' /\ slotOf'[c] = i
  BY <1>1, <1>7 DEF StatsKept
<1>10. e \in Entities /\ e \in DOMAIN truth
  BY DEF BoardsOK, Known, IDs, SnapshotKept
<1>11. Alone(e)
  BY <1>1, <1>3, <1>9, <1>10, AloneBefore
<1>12. /\ snapshot[i].stat = truth[e] /\ truth[e] \in Stats
       /\ \A c \in CopyOf(e) : /\ c \in DOMAIN copies /\ copies[c] <= truth[e]
                               /\ c \in DOMAIN slotOf /\ slotOf[c] = i
  BY <1>7, <1>11 DEF StatsKept
<1>13. \A c \in CopyOf(e)' : c \in CopyOf(e) \/ (c = n /\ e = f)
  BY <1>1, <1>3 DEF CopyOf
<1>14. CASE e # f
  <2>1. CardOf(e) # card
    BY <1>8, <1>11, <1>14 DEF Alone, OwnCards
  <2>2. i \notin slots
    BY <1>6, <2>1
  <2>3. \A c \in CopyOf(e) : c # n
    BY <1>3 DEF CopyOf
  <2> QED
    BY <1>4, <1>6, <1>7, <1>12, <1>13, <1>14, <2>2, <2>3
<1>15. CASE e = f
  <2>1. \A j \in DOMAIN snapshot : CardOf(snapshot[j].id) = card => j = i
    <3> SUFFICES ASSUME NEW j \in DOMAIN snapshot, CardOf(snapshot[j].id) = card
                 PROVE  j = i
      OBVIOUS
    <3>1. snapshot[j].id \in DOMAIN truth
      BY DEF SnapshotKept, IDs
    <3>2. snapshot[j].id = e
      BY <1>11, <1>15, <3>1 DEF Alone, OwnCards
    <3> QED
      BY <1>5, <3>2 DEF IsBoard, Distinct
  <2>2. i \notin Range(slotOf)
    <3> SUFFICES ASSUME NEW c \in DOMAIN slotOf, slotOf[c] = i
                 PROVE  FALSE
      BY DEF Range
    <3>1. CardOf(c) = CardOf(e)
      BY DEF SlotsClaimed
    <3>2. c \in CopyOf(e)
      BY <1>10, <1>11, <3>1, CopiesOfAlone
    <3> QED
      BY <1>1, <1>15, <3>2
  <2>3. SlotFor(snapshot, n, card) = {i}
    BY <1>5, <1>15, <2>1, <2>2, SoleSlot
  <2>4. slots = {i}
    BY <1>3, <2>3 DEF slots
  <2>5. n \in DOMAIN slotOf' /\ slotOf'[n] = i
    BY <1>6, <2>4
  <2>6. snapshot'[i].stat = truth[e] /\ 1 <= truth[e]
    BY <1>7, <1>12, <2>4, BoundsAssumption DEF Larger, Stats
  <2>7. \A c \in CopyOf(e)' : c = n
    BY <1>1, <1>13, <1>15
  <2> QED
    BY <1>4, <2>5, <2>6, <2>7
<1> QED
  BY <1>14, <1>15

\* A copy of a foe touches no slot of a minion that is alone.
LEMMA FoeCopyStats ==
  ASSUME ClientOK, BoardsOK, MarksOK, PhaseOK, SlotsClaimed, phase = "COMBAT",
         SnapshotKept, StatsKept, NEW card \in Cards, FoeCopy(card)
  PROVE  StatsKept'
<1> DEFINE slots == SlotFor(snapshot, Len(ents'), card)
<1>1. /\ Create(card, "foe", 0, "SETASIDE") /\ RegisterCopy(Len(ents'), card, 1)
      /\ stage = "combat" /\ UNCHANGED <<geTurn, truth>>
  BY DEF FoeCopy, ghostVars
<1>2. PICK n : /\ n = Len(ents') /\ n \notin Entities /\ Entities' = Entities \cup {n}
               /\ \A e \in Entities : ents'[e] = ents[e]
               /\ ents'[n].of = 0 /\ ents'[n].turn = geTurn /\ ents'[n].side = "foe"
               /\ ents'[n].card = card
  BY <1>1, CreateEffect DEF Zones
<1>3. /\ copies' = [x \in DOMAIN copies \cup {n} |-> IF x = n THEN 1 ELSE copies[x]]
      /\ snapshot' = Raise(snapshot, slots, 1) /\ slotOf' = Claim(n, slots) /\ phase' = phase
  BY <1>1, <1>2 DEF RegisterCopy
<1>4. IsBoard(snapshot) /\ n \notin DOMAIN slotOf
  BY <1>2 DEF BoardsOK, MarksOK
<1>5. /\ \A x \in DOMAIN slotOf : slotOf'[x] = slotOf[x] /\ x \in DOMAIN slotOf'
      /\ n \in DOMAIN slotOf' => slots = {slotOf'[n]} /\ CardOf(snapshot[slotOf'[n]].id) = card
      /\ n \notin DOMAIN slotOf' => slots = {}
  BY <1>2, <1>3, <1>4, ClaimKeeps DEF SlotsClaimed
<1>6. /\ DOMAIN snapshot' = DOMAIN snapshot /\ 1 \in Stats
      /\ \A i \in DOMAIN snapshot :
           /\ snapshot'[i].id = snapshot[i].id /\ snapshot[i].stat \in Stats
           /\ snapshot'[i].stat = IF i \in slots THEN Larger(snapshot[i].stat, 1) ELSE snapshot[i].stat
  BY <1>3, <1>4, RaiseRestates, SeqDomain, BoundsAssumption DEF SameMinions, Stats
<1>7. CombatTurn' = CombatTurn /\ CombatTurn = geTurn
  <2>1. geTurn \in Nat /\ geTurn % 2 = 0
    BY <1>1 DEF ClientOK, PhaseOK
  <2> QED
    BY <1>1, <2>1 DEF CombatTurn
<1> HIDE DEF slots
<1> SUFFICES ASSUME NEW i \in DOMAIN snapshot, NEW e, e = snapshot[i].id, Alone(e)'
             PROVE  /\ snapshot'[i].stat = truth[e]
                    /\ \A c \in CopyOf(e)' :
                         /\ c \in DOMAIN copies' /\ copies'[c] <= truth[e]
                         /\ c \in DOMAIN slotOf' /\ slotOf'[c] = i
  BY <1>1, <1>6 DEF StatsKept
<1>8. e \in Entities /\ e # 0
  BY DEF BoardsOK, Known, IDs, Entities
<1>9. Alone(e)
  BY <1>1, <1>2, <1>7, <1>8, AloneBefore
<1>10. /\ snapshot[i].stat = truth[e]
       /\ \A c \in CopyOf(e) : /\ c \in DOMAIN copies /\ copies[c] <= truth[e]
                               /\ c \in DOMAIN slotOf /\ slotOf[c] = i
  BY <1>9 DEF StatsKept
<1>11. CardOf(e) # card
  <2>1. n \notin OtherCopies(e)'
    BY DEF Alone
  <2> QED
    BY <1>1, <1>2, <1>7, <1>8, <2>1 DEF OtherCopies, CardOf
<1>12. i \notin slots
  BY <1>5, <1>11
<1>13. \A c \in CopyOf(e)' : c \in CopyOf(e) /\ c # n
  BY <1>1, <1>2, <1>8 DEF CopyOf
<1> QED
  BY <1>3, <1>5, <1>6, <1>10, <1>12, <1>13

\* A stat shown in combat raises what is known of a minion with its slot.
LEMMA CombatStats ==
  ASSUME ClientOK, BoardsOK, MarksOK, PhaseOK, SlotsClaimed, phase = "COMBAT",
         SnapshotKept, StatsKept, NEW d \in Entities, NEW v \in Stats, StatChange(d, v),
         stage \in {"combat", "after"}
  PROVE  StatsKept'
<1> DEFINE higher == d \in DOMAIN copies /\ v > copies[d]
           slots == IF higher THEN SlotFor(snapshot, d, CardOf(d)) ELSE {}
<1>1. /\ UNCHANGED <<ents, geTurn, phase>>
      /\ truth' = [f \in DOMAIN truth |-> IF d \in CopyOf(f) THEN Larger(truth[f], v) ELSE truth[f]]
      /\ copies' = IF higher THEN [copies EXCEPT ![d] = v] ELSE copies
      /\ snapshot' = Raise(snapshot, slots, v)
      /\ slotOf' = IF higher THEN Claim(d, slots) ELSE slotOf
  BY DEF StatChange, SetStat, Mirrored, clientVars
<1>2. IsBoard(snapshot)
  BY DEF BoardsOK
<1>3. d \in DOMAIN slotOf => CardOf(snapshot[slotOf[d]].id) = CardOf(d)
  BY DEF SlotsClaimed
<1>4. higher => /\ \A x \in DOMAIN slotOf : slotOf'[x] = slotOf[x] /\ x \in DOMAIN slotOf'
                /\ d \in DOMAIN slotOf' => /\ slots = {slotOf'[d]}
                                           /\ CardOf(snapshot[slotOf'[d]].id) = CardOf(d)
                /\ d \notin DOMAIN slotOf' => slots = {}
  BY <1>1, <1>2, <1>3, ClaimKeeps DEF SlotsClaimed
<1>5. /\ DOMAIN snapshot' = DOMAIN snapshot
      /\ \A i \in DOMAIN snapshot :
           /\ snapshot'[i].id = snapshot[i].id /\ snapshot[i].stat \in Stats
           /\ snapshot'[i].stat = IF i \in slots THEN Larger(snapshot[i].stat, v) ELSE snapshot[i].stat
  BY <1>1, <1>2, RaiseRestates, SeqDomain DEF SameMinions
<1>6. Entities' = Entities /\ CombatTurn' = CombatTurn /\ DOMAIN truth' = DOMAIN truth
  BY <1>1 DEF Entities, CombatTurn
<1>7. ~higher => slots = {} /\ copies' = copies /\ slotOf' = slotOf
  BY <1>1
<1>8. /\ higher => d \in DOMAIN copies /\ v > copies[d]
      /\ d \in DOMAIN copies => higher \/ ~(v > copies[d])
  OBVIOUS
<1>9. higher => DOMAIN copies' = DOMAIN copies /\ \A c \in DOMAIN copies : copies'[c] = IF c = d THEN v ELSE copies[c]
  BY <1>1
<1> HIDE DEF slots, higher
<1> SUFFICES ASSUME NEW i \in DOMAIN snapshot, NEW e, e = snapshot[i].id, Alone(e)'
             PROVE  /\ snapshot'[i].stat = truth'[e]
                    /\ \A c \in CopyOf(e)' :
                         /\ c \in DOMAIN copies' /\ copies'[c] <= truth'[e]
                         /\ c \in DOMAIN slotOf' /\ slotOf'[c] = i
  BY <1>1, <1>5 DEF StatsKept
<1>10. e \in Entities /\ e \in DOMAIN truth
  BY DEF BoardsOK, Known, IDs, SnapshotKept
<1>11. Alone(e)
  BY <1>1, <1>6, <1>10, AloneBefore
<1>12. /\ snapshot[i].stat = truth[e] /\ truth[e] \in Stats
       /\ \A c \in CopyOf(e) : /\ c \in DOMAIN copies /\ copies[c] <= truth[e] /\ copies[c] \in Stats
                               /\ c \in DOMAIN slotOf /\ slotOf[c] = i
  BY <1>5, <1>11 DEF StatsKept, MarksOK
<1>13. CopyOf(e)' = CopyOf(e)
  BY <1>1, <1>6 DEF CopyOf
<1>14. CASE d \in CopyOf(e)
  <2>1. truth'[e] = Larger(truth[e], v)
    BY <1>1, <1>10, <1>14
  <2>2. CASE higher
    <3>1. slots = {i}
      BY <1>4, <1>12, <1>14, <2>2
    <3>2. snapshot'[i].stat = truth'[e]
      BY <1>5, <1>12, <2>1, <3>1
    <3>3. \A c \in CopyOf(e) : copies'[c] <= truth'[e] /\ c \in DOMAIN copies'
      BY <1>9, <1>12, <2>1, <2>2 DEF Larger, Stats
    <3> QED
      BY <1>4, <1>12, <1>13, <2>2, <3>2, <3>3
  <2>3. CASE ~higher
    <3>1. ~(v > copies[d])
      BY <1>8, <1>12, <1>14, <2>3
    <3>2. truth'[e] = truth[e]
      BY <1>12, <1>14, <2>1, <3>1 DEF Larger, Stats
    <3> QED
      BY <1>5, <1>7, <1>12, <1>13, <2>3, <3>2
  <2> QED
    BY <2>2, <2>3
<1>15. CASE d \notin CopyOf(e)
  <2>1. truth'[e] = truth[e]
    BY <1>1, <1>10, <1>15
  <2>2. i \notin slots
    <3>1. CASE higher
      <4>1. i \in slots => CardOf(d) = CardOf(e)
        BY <1>4, <3>1
      <4>2. CardOf(d) = CardOf(e) => d \in CopyOf(e)
        BY <1>8, <1>10, <1>11, <3>1, CopiesOfAlone
      <4> QED
        BY <1>15, <4>1, <4>2
    <3>2. CASE ~higher
      BY <1>7, <3>2
    <3> QED
      BY <3>1, <3>2
  <2>3. ASSUME NEW c \in CopyOf(e)
        PROVE  /\ c \in DOMAIN copies' /\ copies'[c] = copies[c]
               /\ c \in DOMAIN slotOf' /\ slotOf'[c] = slotOf[c]
    <3>1. c # d
      BY <1>15
    <3>2. CASE higher
      BY <1>4, <1>9, <1>12, <3>1, <3>2
    <3>3. CASE ~higher
      BY <1>7, <1>12, <3>3
    <3> QED
      BY <3>2, <3>3
  <2> QED
    BY <1>5, <1>12, <1>13, <2>1, <2>2, <2>3
<1> QED
  BY <1>14, <1>15

\* The steps of a combat keep the snapshot and what is known.
LEMMA CombatKept ==
  ASSUME BoardInv, Next, InGame',
         \/ \E e \in Entities : OwnCopy(e) \/ Die(e) \/ Clear(e) \/ ReturnCopy(e)
         \/ \E c \in Cards : FoeCopy(c) \/ Summon(c)
         \/ /\ stage \in {"combat", "after"}
            /\ \E e \in Entities, v \in Stats : StatChange(e, v)
  PROVE  SnapshotKept' /\ StatsKept'
<1>1. /\ ClientOK /\ BoardsOK /\ MarksOK /\ PhaseOK /\ SlotsClaimed /\ OneCopyEach
      /\ BoardsOK' /\ ClientOK'
  BY ClientKept, BoardsKept
     DEF BoardInv, TypeOK, ClientOK, BoardsOK, IsBoard, PhaseOfStage, MarksOK, PhaseOK
<1>2. /\ InGame /\ phase \in {"RECRUIT", "COMBAT"} /\ Shown /\ SnapshotKept /\ StatsKept
  BY InGameBefore
<1>3. stage \in {"combat", "after"} /\ phase = "COMBAT"
  BY <1>1, <1>2 DEF OwnCopy, Die, Clear, ReturnCopy, FoeCopy, Summon, PhaseOK
<1>4. Entities \subseteq Entities' /\ \A e \in Entities : ents'[e] = ents[e]
  BY <1>1, EntitiesStay
<1>5. snapshot = <<>> => board = <<>> /\ InPlay = {} /\ Returning = {}
  BY <1>1, <1>2, <1>3, NothingFights
<1>6. Fighters \subseteq DOMAIN truth /\ \A e \in Returning : ents[e].of \in DOMAIN truth
  BY <1>2, <1>3 DEF SnapshotKept
<1> DEFINE Goal == SnapshotKept' /\ StatsKept'
<1>7. ASSUME SameMinions(snapshot, snapshot'), DOMAIN truth' = DOMAIN truth,
             snapshot = <<>> => board' = <<>>, Fighters' \subseteq DOMAIN truth,
             \A e \in Returning' : ents'[e].of \in DOMAIN truth
      PROVE  SnapshotKept'
  BY <1>1, <1>2, <1>7, CombatKeepsSnapshot
<1>8. UNCHANGED snapshot => SameMinions(snapshot, snapshot')
  BY DEF SameMinions
<1> HIDE DEF Goal
<1>9. ASSUME NEW card, NEW side \in {"own", "foe"}, NEW of \in Nat, NEW to \in Zones,
             card \in Cards, Create(card, side, of, to), UNCHANGED geTurn
      PROVE  /\ Fighters' \subseteq Fighters
             /\ \A e \in Returning' : \/ e \in Returning /\ ents'[e].of = ents[e].of
                                      \/ of # 0 /\ ents'[e].of = of
             /\ \A e \in Entities' \ Entities : ents'[e].of = of
  <2>1. PICK n : /\ Entities' = Entities \cup {n} /\ n \notin Entities
                 /\ \A e \in Entities : zone'[e] = zone[e] /\ ents'[e] = ents[e]
                 /\ ents'[n].of = of /\ ents'[n].turn = geTurn
    BY <1>1, <1>9, CreateEffect
  <2>2. Fighters' \subseteq Fighters
    BY <1>1, <1>9, <2>1 DEF Fighters, InPlay, ClientOK
  <2>3. \A e \in Returning' : e \in Returning \/ (e = n /\ of # 0)
    BY <1>9, <2>1 DEF Returning, Returned
  <2> QED
    BY <2>1, <2>2, <2>3 DEF Returning
<1>10. ASSUME UNCHANGED <<ents, geTurn>>, InPlay' \subseteq InPlay
       PROVE  Fighters' \subseteq Fighters
  BY <1>10 DEF Fighters
<1>11. ASSUME UNCHANGED <<ents, geTurn>>
       PROVE  Entities' = Entities /\ Returning' = Returning
  BY <1>11 DEF Returning, Returned, Entities
<1>12. ASSUME NEW f \in Entities, OwnCopy(f) PROVE Goal
  <2>1. /\ Create(CardOf(f), "own", f, "SETASIDE") /\ RegisterCopy(Len(ents'), CardOf(f), 1)
        /\ f \in Fighters /\ UNCHANGED <<geTurn, truth>>
    BY <1>12 DEF OwnCopy, ghostVars
  <2>2. CardOf(f) \in Cards /\ f \in Nat \ {0} /\ 1 \in Stats
    BY <1>1, EntityFields, BoundsAssumption DEF Stats
  <2>3. /\ Fighters' \subseteq Fighters
        /\ \A e \in Returning' : ents'[e].of \in DOMAIN truth
    BY <1>6, <1>9, <2>1, <2>2 DEF Zones
  <2>4. SameMinions(snapshot, snapshot') /\ board' = board
    BY <1>1, <1>4, <2>1, <2>2, RegisterKeepsBoards
  <2>5. SnapshotKept'
    BY <1>5, <1>6, <1>7, <2>1, <2>3, <2>4
  <2> QED
    BY <1>1, <1>2, <1>3, <1>12, <2>5, OwnCopyStats DEF Goal
<1>13. ASSUME NEW c \in Cards, FoeCopy(c) PROVE Goal
  <2>1. /\ Create(c, "foe", 0, "SETASIDE") /\ RegisterCopy(Len(ents'), c, 1)
        /\ UNCHANGED <<geTurn, truth>>
    BY <1>13 DEF FoeCopy, ghostVars
  <2>2. 1 \in Stats
    BY BoundsAssumption DEF Stats
  <2>3. /\ Fighters' \subseteq Fighters
        /\ \A e \in Returning' : ents'[e].of \in DOMAIN truth
    BY <1>6, <1>9, <2>1 DEF Zones
  <2>4. SameMinions(snapshot, snapshot') /\ board' = board
    BY <1>1, <1>4, <2>1, <2>2, RegisterKeepsBoards
  <2>5. SnapshotKept'
    BY <1>5, <1>6, <1>7, <2>1, <2>3, <2>4
  <2> QED
    BY <1>1, <1>2, <1>3, <1>13, <2>5, FoeCopyStats DEF Goal
<1>14. ASSUME UNCHANGED <<snapshot, truth, copies, slotOf, geTurn, phase>>,
              \A e \in Entities' \ Entities : ents'[e].of = 0
       PROVE  StatsKept'
  <2>1. CombatTurn' = CombatTurn
    BY <1>14 DEF CombatTurn
  <2> QED
    BY <1>1, <1>2, <1>3, <1>4, <1>14, <2>1, StatsStay
<1>15. ASSUME NEW c \in Cards, Summon(c) PROVE Goal
  <2>1. /\ Create(c, "own", 0, "PLAY") /\ UNCHANGED <<geTurn, truth, copies, slotOf, phase>>
        /\ snapshot' = Mirrored(board') /\ \E e \in Entities : CopyOf(e) # {}
    BY <1>15 DEF Summon, AddMinion, ghostVars
  <2>2. snapshot' = snapshot
    BY <1>3, <2>1 DEF Mirrored
  <2>3. Returning # {}
    BY <2>1 DEF Returning, Returned, CopyOf, Entities
  <2>4. /\ Fighters' \subseteq Fighters
        /\ \A e \in Returning' : ents'[e].of \in DOMAIN truth
        /\ \A e \in Entities' \ Entities : ents'[e].of = 0
    BY <1>6, <1>9, <2>1 DEF Zones
  <2>5. SnapshotKept'
    BY <1>5, <1>6, <1>7, <1>8, <2>1, <2>2, <2>3, <2>4
  <2>6. StatsKept'
    BY <1>14, <2>1, <2>2, <2>4
  <2> QED
    BY <2>5, <2>6 DEF Goal
<1>16. ASSUME NEW e \in Entities, ReturnCopy(e) PROVE Goal
  <2>1. /\ Joins(e) /\ UNCHANGED <<ents, geTurn, truth, copies, slotOf, phase>>
        /\ snapshot' = Mirrored(board') /\ Returned(e)
    BY <1>1, <1>16, OldJoins DEF ReturnCopy, AddMinion, ghostVars
  <2>2. snapshot' = snapshot /\ Entities' = Entities /\ Returning' = Returning
    BY <1>3, <1>11, <2>1 DEF Mirrored
  <2>3. Returning # {}
    BY <2>1 DEF Returning
  <2>4. InPlay' = InPlay \cup {e} /\ ents[e].turn = geTurn /\ geTurn \in Nat
    BY <1>1, <2>1 DEF Joins, Returned, ClientOK
  <2>5. Fighters' \subseteq Fighters
    BY <2>1, <2>4 DEF Fighters
  <2>6. SnapshotKept'
    BY <1>5, <1>6, <1>7, <1>8, <2>1, <2>2, <2>3, <2>5
  <2>7. StatsKept'
    BY <1>14, <2>1, <2>2
  <2> QED
    BY <2>6, <2>7 DEF Goal
<1>17. ASSUME NEW e \in Entities, Die(e) \/ Clear(e) PROVE Goal
  <2>1. truth' = truth /\ e \in InPlay
    BY <1>17 DEF Die, Clear, ghostVars
  <2>2. PICK to \in Zones \ {"PLAY"} : Leave(e, to)
    BY <1>17, Leavers
  <2>3. /\ UNCHANGED <<ents, geTurn, copies, slotOf, phase, snapshot>>
        /\ InPlay' = InPlay \ {e} /\ Entities' = Entities
    BY <1>1, <1>3, <2>1, <2>2, LeaveEffect
  <2>4. Fighters' \subseteq Fighters /\ Returning' = Returning
    BY <1>10, <1>11, <2>3
  <2>5. SnapshotKept'
    BY <1>5, <1>6, <1>7, <1>8, <2>1, <2>3, <2>4
  <2>6. StatsKept'
    BY <1>14, <2>1, <2>3
  <2> QED
    BY <2>5, <2>6 DEF Goal
<1>18. ASSUME NEW e \in Entities, NEW v \in Stats, StatChange(e, v) PROVE Goal
  <2>1. /\ SetStat(e, v) /\ UNCHANGED <<ents, zone, geTurn>> /\ DOMAIN truth' = DOMAIN truth
    BY <1>3, <1>18 DEF StatChange, clientVars
  <2>2. SameMinions(board, board') /\ SameMinions(snapshot, snapshot')
    BY <1>1, <1>3, <2>1, StatKeepsBoards
  <2>3. snapshot = <<>> => board' = <<>>
    <3>1. IsBoard(board) /\ IsBoard(board')
      BY <1>1 DEF BoardsOK, IsBoard, Distinct
    <3> QED
      BY <1>5, <2>2, <3>1, SeqDomain DEF SameMinions
  <2>4. InPlay' = InPlay
    BY <2>1 DEF InPlay, Entities
  <2>5. Fighters' \subseteq Fighters /\ Returning' = Returning
    BY <1>10, <1>11, <2>1, <2>4
  <2>6. SnapshotKept'
    BY <1>6, <1>7, <2>1, <2>2, <2>3, <2>5
  <2> QED
    BY <1>1, <1>2, <1>3, <1>18, <2>6, CombatStats DEF Goal
<1>19. Goal
  BY <1>3, <1>12, <1>13, <1>15, <1>16, <1>17, <1>18
<1> QED
  BY <1>19 DEF Goal

\* Until the end every step does.
LEMMA SnapshotAndStatsKept ==
  ASSUME BoardInv, Next, InGame'
  PROVE  SnapshotKept' /\ StatsKept'
<1> DEFINE Goal == SnapshotKept' /\ StatsKept'
<1>1. /\ ClientOK /\ BoardsOK /\ BoardsOK' /\ MarksOK /\ PhaseOK /\ Made
  BY BoardsKept DEF BoardInv, TypeOK, ClientOK, BoardsOK, IsBoard, PhaseOfStage, MarksOK, PhaseOK
<1>2. InGame /\ phase \in {"RECRUIT", "COMBAT"} /\ SnapshotKept /\ StatsKept
  BY InGameBefore
<1>3. stage \in {"recruit", "ending", "combat", "after"}
  BY <1>1, <1>2 DEF InGame, ClientOK
<1>4. UNCHANGED snapshot => SameMinions(snapshot, snapshot')
  BY DEF SameMinions
<1> HIDE DEF Goal
<1>5. ASSUME Recruit, ~EndOfTurn PROVE Goal
  BY <1>5, RecruitKept DEF Goal, Recruit
<1>6. ASSUME StartCombat PROVE Goal
  BY <1>6, RecruitKept DEF Goal
<1>7. ASSUME Combat, ~StartCombat, ~StartRecruit PROVE Goal
  BY <1>7, CombatKept DEF Goal, Combat
<1>8. ASSUME NEW e \in Entities, NEW v \in Stats, StatChange(e, v) PROVE Goal
  BY <1>3, <1>8, RecruitKept, CombatKept DEF Goal
<1>9. ASSUME EndOfTurn PROVE Goal
  <2>1. /\ UNCHANGED <<ents, zone, geTurn, copies, phase, board, snapshot, slotOf, truth>>
        /\ stage' = "ending"
    BY <1>9 DEF EndOfTurn, machineVars, ghostVars
  <2>2. CombatTurn' = CombatTurn /\ Entities' = Entities
    BY <2>1 DEF CombatTurn, Entities
  <2>3. StatsKept'
    BY <1>1, <1>2, <2>1, <2>2, StatsStay
  <2>4. SnapshotKept'
    BY <1>2, <2>1 DEF SnapshotKept, IDs
  <2> QED
    BY <2>3, <2>4 DEF Goal
<1>10. ASSUME StartRecruit PROVE Goal
  <2>1. /\ UNCHANGED <<ents, truth>> /\ geTurn' = geTurn + 1 /\ stage' = "recruit"
        /\ stage \in {"combat", "after"} /\ OnTurnTransition(geTurn')
    BY <1>10 DEF StartRecruit
  <2>2. geTurn \in Nat /\ geTurn % 2 = 0
    BY <1>1, <2>1 DEF ClientOK, PhaseOK
  <2>3. geTurn' % 2 = 1 /\ CombatTurn' = CombatTurn
    BY <2>1, <2>2 DEF CombatTurn
  <2>4. UNCHANGED <<board, snapshot>> /\ phase' = "RECRUIT"
    BY <2>1, <2>3 DEF OnTurnTransition
  <2>5. SnapshotKept'
    BY <1>2, <2>1, <2>4 DEF SnapshotKept, IDs
  <2>6. \A i \in DOMAIN snapshot : snapshot[i].id \in Entities
    BY <1>1 DEF BoardsOK, Known, IDs
  <2>7. Entities' = Entities
    BY <2>1 DEF Entities
  <2>8. StatsKept'
    <3> SUFFICES ASSUME NEW i \in DOMAIN snapshot, NEW e, e = snapshot[i].id, Alone(e)'
                 PROVE  snapshot[i].stat = truth[e]
      BY <2>1, <2>4 DEF StatsKept
    <3>1. Alone(e)
      BY <1>1, <2>1, <2>3, <2>6, <2>7, AloneBefore
    <3> QED
      BY <1>2, <3>1 DEF StatsKept
  <2> QED
    BY <2>5, <2>8 DEF Goal
<1>11. ~Complete /\ ~Timeout
  BY DEF Complete, Timeout, InGame
<1>12. Goal
  BY <1>5, <1>6, <1>7, <1>8, <1>9, <1>10, <1>11 DEF Next
<1> QED
  BY <1>12 DEF Goal

-----------------------------------------------------------------------------
(* The end of the record *)

\* What the snapshot holds at the end is the final board.
LEMMA EndKept ==
  ASSUME BoardInv, Next
  PROVE  RecruitBoardRestored' /\ StatsRecovered'
<1>1. stage' = "over" => Complete
  BY DEF Next, Recruit, Combat, Buy, Replay, Sell, Bounce, Merge, EndOfTurn, Acts, StartCombat,
         OwnCopy, FoeCopy, Summon, Die, Clear, ReturnCopy, StartRecruit, StatChange, Timeout,
         clientVars
<1>2. SUFFICES ASSUME Complete, ~forced
               PROVE  /\ IDs(board') = DOMAIN truth
                      /\ \A i \in DOMAIN board' : \A e :
                           e = board'[i].id /\ Alone(e)' => board'[i].stat = truth[e]
  <2>1. Complete => forced' = forced /\ truth' = truth
    BY DEF Complete
  <2> QED
    BY <1>1, <2>1 DEF RecruitBoardRestored, StatsRecovered, Alone, IDs
<1>3. /\ BoardsOK /\ MarksOK /\ SnapshotKept /\ StatsKept
  BY <1>2 DEF BoardInv, TypeOK, BoardsOK, IsBoard, PhaseOfStage, MarksOK, InGame, Complete
<1>4. UNCHANGED <<ents, geTurn, truth>> /\ GameEnd
  BY <1>2 DEF Complete
<1>5. board' = snapshot
  BY <1>3, <1>4, EndBrings DEF SnapshotKept
<1>6. Entities' = Entities /\ CombatTurn' = CombatTurn
  BY <1>4 DEF Entities, CombatTurn
<1>7. ASSUME NEW i \in DOMAIN snapshot, NEW e, e = snapshot[i].id, Alone(e)'
      PROVE  snapshot[i].stat = truth[e]
  <2>1. e \in Entities
    BY <1>3, <1>7 DEF BoardsOK, Known, IDs
  <2>2. Alone(e)
    BY <1>3, <1>4, <1>6, <1>7, <2>1, AloneBefore
  <2> QED
    BY <1>3, <1>7, <2>2 DEF StatsKept
<1> QED
  BY <1>3, <1>5, <1>7 DEF SnapshotKept

\* What is sold is on the board, while no gate is open; what falls in combat is not counted.
LEMMA SoldKept ==
  ASSUME BoardInv, Next
  PROVE  SoldExact'
<1> DEFINE Goal == SoldExact'
<1>1. SoldExact /\ CountsOK /\ GateShut /\ PhaseOK
  BY DEF BoardInv, TypeOK, CountsOK, PhaseOfStage, PhaseOK
<1>2. UNCHANGED <<sold, sales, merged, forced>> => Goal
  BY <1>1 DEF SoldExact
<1>3. forced' = TRUE => Goal
  BY DEF SoldExact
<1> HIDE DEF Goal
<1>4. ASSUME forced' = forced, sold' = sold, Remember(0, 0) PROVE Goal
  <2>1. forced => Goal
    BY <1>3, <1>4
  <2>2. ~forced => sales' = sales /\ merged' = merged
    BY <1>1, <1>4 DEF Remember, CountsOK
  <2> QED
    BY <1>2, <1>4, <2>1, <2>2
<1>5. ASSUME NEW c \in Cards, Buy(c) \/ Summon(c) \/ FoeCopy(c) PROVE Goal
  BY <1>2, <1>4, <1>5 DEF Buy, Summon, FoeCopy, AddMinion, RegisterCopy, ghostVars
<1>6. ASSUME NEW e \in Entities, Replay(e) \/ ReturnCopy(e) \/ OwnCopy(e) PROVE Goal
  BY <1>2, <1>4, <1>6 DEF Replay, ReturnCopy, OwnCopy, AddMinion, RegisterCopy, ghostVars
<1>7. ASSUME NEW e \in Entities, Die(e) \/ Clear(e) PROVE Goal
  <2>1. UNCHANGED <<sales, merged, forced>> /\ OnMinionSold(e, "GONE")
    BY <1>7 DEF Die, Clear, Leave, ghostVars
  <2>2. phase # "RECRUIT"
    BY <1>1, <1>7 DEF Die, Clear, PhaseOK
  <2>3. sold' = sold
    BY <2>1, <2>2 DEF OnMinionSold, CountsAsSold
  <2> QED
    BY <1>2, <2>1, <2>3
<1>8. ASSUME NEW e \in Entities, Bounce(e) PROVE Goal
  <2>1. forced' = forced /\ Remember(0, 0) /\ OnMinionSold(e, "HAND")
    BY <1>8 DEF Bounce, Leave
  <2>2. sold' = sold
    BY <2>1 DEF OnMinionSold, CountsAsSold
  <2> QED
    BY <1>4, <2>1, <2>2
<1>9. ASSUME NEW e \in Entities, Sell(e) \/ Merge(e) PROVE Goal
  <2>1. /\ forced' = forced /\ OnMinionSold(e, "GONE") /\ e \in InPlay /\ stage = "recruit"
        /\ Remember(1, 0) \/ Remember(0, 1)
    BY <1>9 DEF Sell, Merge, Leave, Acts
  <2>2. CASE forced
    BY <1>3, <2>1, <2>2 DEF CountsOK
  <2>3. CASE ~forced
    <3>1. ~gate /\ phase = "RECRUIT"
      BY <1>1, <2>1, <2>3 DEF GateShut, PhaseOK, CountsOK
    <3>2. e \in IDs(board)
      BY <2>1, <2>3 DEF BoardInv, InGame, BoardInPlay
    <3>3. sold' = sold + 1
      BY <2>1, <3>1, <3>2 DEF OnMinionSold, CountsAsSold
    <3>4. \/ sales' = sales + 1 /\ merged' = merged + 0
          \/ sales' = sales + 0 /\ merged' = merged + 1
      BY <2>1, <2>3 DEF Remember
    <3>5. sold = sales + merged
      BY <1>1, <2>3 DEF SoldExact
    <3>6. sold' = sales' + merged'
      BY <1>1, <3>3, <3>4, <3>5 DEF CountsOK
    <3> QED
      BY <3>6 DEF Goal, SoldExact
  <2> QED
    BY <2>2, <2>3
<1>10. ASSUME NEW e \in Entities, NEW v \in Stats, StatChange(e, v) PROVE Goal
  BY <1>2, <1>4, <1>10 DEF StatChange, SetStat
<1>11. EndOfTurn \/ StartRecruit \/ Complete => Goal
  BY <1>2 DEF EndOfTurn, StartRecruit, Complete, OnTurnTransition, GameEnd, machineVars, ghostVars
<1>12. StartCombat => Goal
  BY <1>4 DEF StartCombat, OnTurnTransition
<1>13. Timeout => Goal
  BY <1>3 DEF Timeout
<1>14. Goal
  BY <1>5, <1>6, <1>7, <1>8, <1>9, <1>10, <1>11, <1>12, <1>13 DEF Next, Recruit, Combat
<1> QED
  BY <1>14 DEF Goal

-----------------------------------------------------------------------------
(* The theorems *)

\* The invariant holds at the start,
LEMMA InitInv == Init => BoardInv
<1> SUFFICES ASSUME Init PROVE BoardInv
  OBVIOUS
<1>1. Len(<<>>) = 0 /\ Entities = {}
  BY EmptySeq DEF Init, Entities
<1>2. DOMAIN Empty = {}
  BY DEF Empty
<1>3. ents \in Seq(Entity) /\ pending \in Seq(Deltas)
  BY EmptySeq DEF Init
<1>4. zone \in Seq(Zones) /\ stat \in Seq(Stats) /\ Len(zone) = 0 /\ Len(stat) = 0
  BY EmptySeq DEF Init
<1>5. zone \in [1..0 -> Zones] /\ stat \in [1..0 -> Stats] /\ Entities = 1..0
  BY <1>1, <1>4, LenProperties
<1>6. zone \in [Entities -> Zones] /\ stat \in [Entities -> Stats]
  BY <1>5
<1>7. IsBoard(board) /\ IsBoard(snapshot) /\ IDs(board) = {} /\ IDs(snapshot) = {}
  BY EmptyBoard DEF Init
<1>8. DOMAIN board = {} /\ DOMAIN snapshot = {}
  BY <1>7, SeqDomain
<1>9. TypeOK
  BY <1>2, <1>3, <1>6, <1>7 DEF Init, TypeOK, IsBoard
<1>10. PhaseOfStage /\ GateShut /\ RecruitBoardRestored /\ StatsRecovered /\ SoldExact
  BY DEF Init, PhaseOfStage, GateShut, RecruitBoardRestored, StatsRecovered, SoldExact
<1>11. Made /\ Known /\ OneCopyEach
  BY <1>1, <1>7 DEF Made, Known, OneCopyEach, Returning
<1>12. SlotsClaimed
  BY <1>2 DEF Init, SlotsClaimed
<1>13. BoardInPlay /\ SnapshotKept /\ StatsKept
  <2>1. InPlay = {} /\ DOMAIN truth = {}
    BY <1>1, <1>2 DEF InPlay, Init
  <2> QED
    BY <1>7, <1>8, <2>1 DEF Init, BoardInPlay, SnapshotKept, StatsKept
<1> QED
  BY <1>9, <1>10, <1>11, <1>12, <1>13 DEF BoardInv

\* is kept by every step,
LEMMA NextInv == BoardInv /\ [Next]_vars => BoardInv'
<1> SUFFICES ASSUME BoardInv, [Next]_vars PROVE BoardInv'
  OBVIOUS
<1>1. CASE Next
  <2>1. ClientOK' /\ Made' /\ OneCopyEach' /\ BoardsOK' /\ CountsOK' /\ PhaseOK' /\ GateShut'
        /\ MarksOK' /\ SlotsClaimed'
    BY <1>1, ClientKept, BoardsKept, CountsKept, MarksKept
  <2>2. TypeOK'
    BY <2>1 DEF TypeOK, ClientOK, BoardsOK, IsBoard, CountsOK, MarksOK
  <2>3. PhaseOfStage'
    BY <2>1 DEF PhaseOfStage, PhaseOK, BoardsOK
  <2>4. Known'
    BY <2>1 DEF BoardsOK
  <2>5. InGame' => BoardInPlay' /\ SnapshotKept' /\ StatsKept'
    <3>1. InGame' => Shown' /\ SnapshotKept' /\ StatsKept'
      BY <1>1, ShownKept, SnapshotAndStatsKept
    <3> QED
      BY <3>1 DEF BoardInPlay, Shown
  <2>6. RecruitBoardRestored' /\ StatsRecovered' /\ SoldExact'
    BY <1>1, EndKept, SoldKept
  <2> QED
    BY <2>1, <2>2, <2>3, <2>4, <2>5, <2>6 DEF BoardInv
<1>2. CASE UNCHANGED vars
  <2>1. /\ UNCHANGED <<ents, zone, geTurn, stage, stat, copies, gate, pending, phase, board>>
        /\ UNCHANGED <<snapshot, slotOf, sold, mods, truth, sales, merged, forced>>
    BY <1>2 DEF vars, clientVars, procVars, machineVars, ghostVars
  <2>2. Entities' = Entities /\ InPlay' = InPlay /\ Returning' = Returning /\ Fighters' = Fighters
    BY <2>1 DEF Entities, InPlay, Returning, Returned, Fighters
  <2>3. \A e : /\ (Alone(e)' <=> Alone(e)) /\ CopyOf(e)' = CopyOf(e)
               /\ (Copy(e)' <=> Copy(e)) /\ CardOf(e)' = CardOf(e)
    BY <2>1, <2>2 DEF Alone, OwnCards, OtherCopies, CombatTurn, CardOf, CopyOf, Copy
  <2>4. TypeOK'
    BY <2>1, <2>2 DEF BoardInv, TypeOK, Distinct
  <2>5. PhaseOfStage' /\ Made' /\ Known' /\ OneCopyEach' /\ GateShut' /\ SoldExact'
    BY <2>1, <2>2 DEF BoardInv, PhaseOfStage, Made, Known, OneCopyEach, GateShut, SoldExact, IDs
  <2>6. SlotsClaimed'
    BY <2>1, <2>3 DEF BoardInv, SlotsClaimed, CardOf
  <2>7. InGame' => BoardInPlay' /\ SnapshotKept'
    BY <2>1, <2>2 DEF BoardInv, InGame, BoardInPlay, SnapshotKept, IDs
  <2>8. InGame' => StatsKept'
    BY <2>1, <2>3 DEF BoardInv, InGame, StatsKept
  <2>9. RecruitBoardRestored' /\ StatsRecovered'
    BY <2>1, <2>3 DEF BoardInv, RecruitBoardRestored, StatsRecovered, IDs, Alone
  <2> QED
    BY <2>4, <2>5, <2>6, <2>7, <2>8, <2>9 DEF BoardInv
<1> QED
  BY <1>1, <1>2

\* and so holds of every behaviour.
LEMMA InvHolds == Spec => []BoardInv
BY InitInv, NextInv, PTL DEF Spec

\* Every part of the record keeps its type; in particular no minion is twice on the
\* board or in the snapshot (UpsertMinion), neither ever holds more minions than fit,
\* and the slots of combatCopySlotMap are ones a board has.
THEOREM TypeCorrect == Spec => []TypeOK
<1>1. BoardInv => TypeOK
  BY DEF BoardInv
<1> QED
  BY <1>1, InvHolds, PTL

\* While the game lasts the board is the minions in play with the stats last logged:
\* AddMinion, RemoveMinion and UpdateMinionStat miss nothing, and the minions that
\* return from a combat always find room.
THEOREM BoardInPlayHolds == Spec => []BoardInPlay
<1>1. BoardInv => BoardInPlay
  BY DEF BoardInv, InGame, BoardInPlay
<1> QED
  BY <1>1, InvHolds, PTL

\* GameEnd brings back the minions of the last recruit board, whenever the game ends:
\* no death, token or copy of a combat reaches the snapshot's list.
THEOREM RecruitBoardRestoredHolds == Spec => []RecruitBoardRestored
<1>1. BoardInv => RecruitBoardRestored
  BY DEF BoardInv
<1> QED
  BY <1>1, InvHolds, PTL

\* A minion whose card is its own in the fight ends with the best stat known of it:
\* UpdateSnapshotFromCombatCopy raises the entry of the minion the copy is of.
THEOREM StatsRecoveredHolds == Spec => []StatsRecovered
<1>1. BoardInv => StatsRecovered
  BY DEF BoardInv
<1> QED
  BY <1>1, InvHolds, PTL

\* MINIONS_SOLD counts the minions sold or merged on the board, each once, and none
\* that dies in a combat or is cleared after it.
THEOREM SoldExactHolds == Spec => []SoldExact
<1>1. BoardInv => SoldExact
  BY DEF BoardInv
<1> QED
  BY <1>1, InvHolds, PTL

\* The index combatCopySlotMap keeps for a copy is inside the snapshot whenever it is
\* used, of a minion of its card, and of no other copy.
THEOREM SlotsFitHolds == Spec => []SlotsFit
<1>1. BoardInv => SlotsFit
  <2> SUFFICES ASSUME BoardInv, snapshot # <<>>
               PROVE  LET claiming == DOMAIN copies \cap DOMAIN slotOf IN
                      /\ \A e \in claiming : /\ slotOf[e] \in DOMAIN snapshot
                                             /\ CardOf(snapshot[slotOf[e]].id) = CardOf(e)
                      /\ \A e, f \in claiming : slotOf[e] = slotOf[f] => e = f
    BY DEF SlotsFit
  <2>1. phase = "RECRUIT" \/ phase = "COMBAT"
    BY DEF BoardInv, TypeOK, PhaseOfStage
  <2>2. CASE phase = "RECRUIT"
    <3>1. DOMAIN copies = {}
      BY <2>2 DEF BoardInv, PhaseOfStage, SlotsClaimed
    <3> QED
      BY <3>1
  <2>3. CASE phase = "COMBAT"
    BY <2>3 DEF BoardInv, SlotsClaimed
  <2> QED
    BY <2>1, <2>2, <2>3
<1> QED
  BY <1>1, InvHolds, PTL

=============================================================================
