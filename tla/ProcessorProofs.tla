--------------------------- MODULE ProcessorProofs ---------------------------
(* Theorems of Buffs, for any sources, cards and growth, and of Duos, for any *)
(* boards, combats and turns; no theorem is about both.                       *)
EXTENDS Buffs, Duos, FiniteSetTheorems, SequenceTheorems, TLAPS

-----------------------------------------------------------------------------
(* The inductive invariant of Buffs *)

Lines         == [dnt : Dnts, component : {1, 2}]
Pending(d, c) == \E i \in DOMAIN owed : owed[i] = Line(d, c)
Prev(d)       == IF d \in Dnts THEN shopBuffPrev[d] ELSE Zero

\* The one-number sources have lines of one kind.
OneNumber ==
  \A i \in DOMAIN owed : owed[i].dnt \in {"sticker", "beast"} => owed[i].component = 1

\* What the trackers hold of a number whose line is read is that number, and each
\* counter of differences is the sum of what it has read.
Read ==
  /\ \A c \in {1, 2} :
       /\ ~Pending("absolute", c) =>
            buffSourceState["absolute"][c] = Carried("absolute")[c]
       /\ buffSourceState["shop"][c] = shopBuffGlobal[c]
       /\ ~Pending("shop", c) => shopBuffGlobal[c] = Carried("shop")[c]
       /\ nomiCounter[c] = Prev("elemental")[c] + Prev("sticker")[1]
       /\ ~Pending("elemental", c) => Prev("elemental")[c] = Carried("elemental")[c]
  /\ ~Pending("sticker", 1) => Prev("sticker")[1] = Carried("sticker")[1]

\* With no line of a category left, it is shown as carried; a reconnect, which
\* empties the trackers, has a line again for each number that is not zero.
Shown ==
  /\ ~Pending("absolute", 1) /\ ~Pending("absolute", 2) =>
       buffSources["absolute"] = Carried("absolute")
  /\ ~Pending("shop", 1) /\ ~Pending("shop", 2) => buffSources["shop"] = Carried("shop")
  /\ ~Pending("elemental", 1) /\ ~Pending("elemental", 2) /\ ~Pending("sticker", 1) =>
       \A c \in {1, 2} :
         buffSources["nomi"][c] = Carried("elemental")[c] + Carried("sticker")[1]

\* The highest value seen of the beasts is theirs, or older after a reconnect.
Beasts ==
  /\ buffSourceState["beast"][1] <= Carried("beast")[1]
  /\ buffSourceState["beast"][2] = 0 /\ Carried("beast")[2] = 0
  /\ Pending("beast", 1) => Carried("beast")[1] > 0
  /\ ~older /\ ~Pending("beast", 1) => buffSourceState["beast"][1] = Carried("beast")[1]
  /\ \/ buffSources["beast"] = buffSourceState["beast"]
     \/ buffSourceState["beast"][1] = 0 /\ (older \/ Pending("beast", 1))

\* The tags of the player are read as they grow: never in a combat.
Spells ==
  /\ stage = "combat" => bPhase = "COMBAT"
  /\ missed \/ rejoins > 0 \/ (buffSources["spell"] = tags /\ buffSourceState["spell"] = tags)

Deltas == turnGrowth = atCapture /\ prevBuffSources = atCapture

\* The processor's count is that of the cards in play which no reconnect forgot, but
\* while those of the turn before leave; its gold is the tag, unless a reconnect took
\* it.  What is shown lies between what is counted and what is there.
Promised ==
  /\ IsFiniteSet(inPlay) /\ forgotten \subseteq inPlay
  /\ goldNextTurnSure = IF untold THEN 0 ELSE extraGold
  /\ goldNextTurn.sure \in {extraGold, goldNextTurnSure}
  /\ overconfidenceCount = IF stage = "leaving" THEN 0 ELSE Cardinality(inPlay \ forgotten)
  /\ stage # "leaving" => /\ goldNextTurn.bonus >= 3 * Cardinality(inPlay \ forgotten)
                          /\ goldNextTurn.bonus <= 3 * Cardinality(inPlay)

BuffsInv ==
  /\ TypeOK
  /\ stage = "turning" => turn < MaxTurn
  /\ stage = "recruit" \/ stage = "combat" \/ owed = <<>>
  /\ OneNumber /\ Read /\ Shown /\ Beasts /\ Spells /\ Deltas /\ Promised

-----------------------------------------------------------------------------
(* Pairs, lines and what is pending *)

LEMMA Pairs ==
  /\ Zero \in Pair /\ Zero[1] = 0 /\ Zero[2] = 0
  /\ \A p \in Pair : p[1] \in Nat /\ p[2] \in Nat
  /\ \A p, q \in Pair : p[1] = q[1] /\ p[2] = q[2] => p = q
  /\ \A p \in Pair, c \in {1, 2}, v \in Nat :
       /\ [p EXCEPT ![c] = v] \in Pair /\ [p EXCEPT ![c] = v][c] = v
       /\ \A k \in {1, 2} : k # c => [p EXCEPT ![c] = v][k] = p[k]
  /\ \A a, b \in Nat : <<a, b>> \in Pair /\ <<a, b>>[1] = a /\ <<a, b>>[2] = b
BY DEF Pair, Components, Attack, Health, Zero

LEMMA Sums ==
  /\ Components = {1, 2}
  /\ \A p, q \in Pair : Plus(p, q) \in Pair
  /\ \A p, q : \A c \in {1, 2} : Plus(p, q)[c] = p[c] + q[c] /\ Minus(p, q)[c] = p[c] - q[c]
BY DEF Pair, Components, Attack, Health, Plus, Minus

\* The types in parts.
GameTypes ==
  /\ turn \in 1..MaxTurn /\ stage \in {"recruit", "combat", "turning", "leaving"}
  /\ bPhase \in {"RECRUIT", "COMBAT"}
  /\ sd \in [Dnts -> Pair] /\ tags \in Pair /\ owed \in Seq(Lines)
GoldTypes ==
  /\ extraGold \in 0..MaxGold /\ inPlay \subseteq Cards /\ rejoins \in 0..MaxRejoins
  /\ goldNextTurnSure \in 0..MaxGold /\ overconfidenceCount \in 0..Cardinality(Cards)
  /\ goldNextTurn \in Gold /\ forgotten \subseteq Cards /\ untold \in BOOLEAN
TrackTypes ==
  /\ buffSourceState \in [Categories -> Pair] /\ shopBuffPrev \in [Dnts -> Pair]
  /\ shopBuffGlobal \in Pair /\ nomiCounter \in Pair /\ buffSources \in [Categories -> Pair]
TurnTypes ==
  /\ prevBuffSources \in [Categories -> Pair] /\ turnGrowth \in [Categories -> Pair]
  /\ atCapture \in [Categories -> Pair]
Flags == older \in BOOLEAN /\ missed \in BOOLEAN

LEMMA Types == TypeOK <=> GameTypes /\ GoldTypes /\ TrackTypes /\ TurnTypes /\ Flags
<1>1. Lines = [dnt : Dnts, component : Components]
  BY Sums DEF Lines
<1> QED
  BY <1>1 DEF TypeOK, GameTypes, GoldTypes, TrackTypes, TurnTypes, Flags, Pair

LEMMA TypesNext ==
  TypeOK' <=> GameTypes' /\ GoldTypes' /\ TrackTypes' /\ TurnTypes' /\ Flags'
<1>1. Lines = [dnt : Dnts, component : Components]
  BY Sums DEF Lines
<1> QED
  BY <1>1 DEF TypeOK, GameTypes, GoldTypes, TrackTypes, TurnTypes, Flags, Pair

LEMMA CarriedType ==
  ASSUME GameTypes, NEW d
  PROVE  Carried(d) \in Pair
BY Pairs DEF GameTypes, Carried

LEMMA PrevType ==
  ASSUME TrackTypes, NEW d
  PROVE  Prev(d) \in Pair
BY Pairs DEF TrackTypes, Prev

\* A line of the log, and the lines left when it is read.
LEMMA LineRead ==
  ASSUME owed \in Seq(Lines), owed # <<>>, owed' = Tail(owed)
  PROVE  /\ owed' \in Seq(Lines)
         /\ \E d \in Dnts, c \in {1, 2} :
              /\ Head(owed) = Line(d, c) /\ Pending(d, c)
              /\ \E i \in DOMAIN owed : owed[i].dnt = d /\ owed[i].component = c
              /\ \A x, k : /\ Pending(x, k)' => Pending(x, k)
                           /\ Pending(x, k) => Pending(x, k)' \/ (x = d /\ k = c)
         /\ \A i \in DOMAIN owed' : \E j \in DOMAIN owed : owed'[i] = owed[j]
<1>1. PICK m : m = owed'
  OBVIOUS
<1>2. /\ m \in Seq(Lines) /\ Len(m) = Len(owed) - 1 /\ Head(owed) = owed[1]
      /\ \A i \in 1..Len(m) : m[i] = owed[i + 1]
  BY <1>1, HeadTailProperties
<1>3. /\ Len(owed) \in Nat \ {0} /\ DOMAIN owed = 1..Len(owed) /\ DOMAIN m = 1..(Len(owed) - 1)
  BY <1>2, EmptySeq, LenProperties
<1>4. owed[1] \in Lines
  BY <1>3, ElementOfSeq
<1>5. PICK d \in Dnts, c \in {1, 2} : owed[1] = Line(d, c)
  BY <1>4 DEF Lines, Line
<1>6. 1 \in DOMAIN owed /\ Pending(d, c) /\ owed[1].dnt = d /\ owed[1].component = c
  BY <1>3, <1>5 DEF Pending, Line
<1>7. \A i \in DOMAIN m : \E j \in DOMAIN owed : m[i] = owed[j]
  BY <1>2, <1>3
<1>8. ASSUME NEW x, NEW k, Pending(x, k)' PROVE Pending(x, k)
  BY <1>1, <1>7, <1>8 DEF Pending
<1>9. ASSUME NEW x, NEW k, Pending(x, k), ~(x = d /\ k = c) PROVE Pending(x, k)'
  <2>1. PICK i \in DOMAIN owed : owed[i] = Line(x, k)
    BY <1>9 DEF Pending
  <2>2. i # 1
    BY <1>5, <1>9, <2>1 DEF Line
  <2>3. i - 1 \in DOMAIN m /\ m[i - 1] = owed[i]
    BY <1>2, <1>3, <2>2
  <2> QED
    BY <1>1, <2>1, <2>3 DEF Pending
<1> QED
  BY <1>1, <1>2, <1>5, <1>6, <1>7, <1>8, <1>9

\* The line d, c is read: the others stay.
LineGone(d, c) ==
  \A x, k : /\ Pending(x, k)' => Pending(x, k)
            /\ Pending(x, k) => Pending(x, k)' \/ (x = d /\ k = c)

LinesInv == OneNumber /\ Read /\ Shown /\ Beasts

\* The trackers but for the spells are as they were.
TrackKept ==
  /\ \A k \in Categories \ {"spell"} :
       buffSourceState'[k] = buffSourceState[k] /\ buffSources'[k] = buffSources[k]
  /\ UNCHANGED <<shopBuffPrev, shopBuffGlobal, nomiCounter>>

LEMMA KeptLines ==
  ASSUME LinesInv, TrackKept, UNCHANGED <<sd, owed, older>>
  PROVE  LinesInv'
<1>1. \A x, k : Pending(x, k)' <=> Pending(x, k)
  BY DEF Pending, Line
<1>2. \A x : Prev(x)' = Prev(x) /\ Carried(x)' = Carried(x)
  BY DEF TrackKept, Prev, Carried, Zero
<1>3. /\ buffSourceState'["absolute"] = buffSourceState["absolute"]
      /\ buffSourceState'["shop"] = buffSourceState["shop"]
      /\ buffSourceState'["beast"] = buffSourceState["beast"]
      /\ buffSources'["absolute"] = buffSources["absolute"]
      /\ buffSources'["shop"] = buffSources["shop"]
      /\ buffSources'["nomi"] = buffSources["nomi"]
      /\ buffSources'["beast"] = buffSources["beast"]
  BY DEF TrackKept, Categories
<1>4. OneNumber'
  BY DEF LinesInv, OneNumber
<1>5. Read'
  BY <1>1, <1>2, <1>3 DEF LinesInv, Read, TrackKept
<1>6. Shown'
  BY <1>1, <1>2, <1>3 DEF LinesInv, Shown
<1>7. Beasts'
  BY <1>1, <1>2, <1>3 DEF LinesInv, Beasts
<1> QED
  BY <1>4, <1>5, <1>6, <1>7 DEF LinesInv

LEMMA KeptSpells ==
  ASSUME Spells, UNCHANGED <<stage, bPhase, missed, rejoins, tags>>,
         buffSourceState'["spell"] = buffSourceState["spell"],
         buffSources'["spell"] = buffSources["spell"]
  PROVE  Spells'
BY DEF Spells

LEMMA KeptPromised ==
  ASSUME Promised, UNCHANGED <<stage, extraGold, inPlay, rejoins, goldVars>>
  PROVE  Promised'
BY DEF Promised, goldVars

LEMMA Sizes ==
  ASSUME NEW S, NEW F, IsFiniteSet(S)
  PROVE  /\ IsFiniteSet(S \ F) /\ Cardinality(S) \in Nat /\ Cardinality(S \ F) \in Nat
         /\ Cardinality(S \ F) <= Cardinality(S)
<1>1. S \ F \subseteq S
  OBVIOUS
<1>2. IsFiniteSet(S \ F) /\ Cardinality(S \ F) <= Cardinality(S)
  BY <1>1, FS_Subset
<1> QED
  BY <1>2, FS_CardinalityType

-----------------------------------------------------------------------------
(* The lines about a Dnt, source by source *)

Reading(d, c) ==
  /\ d \in Dnts /\ c \in {1, 2} /\ Pending(d, c) /\ LineGone(d, c)
  /\ UNCHANGED <<sd, older>>

\* A handler leaves the Dnts and their lines as they are.
LEMMA SameCarried ==
  ASSUME NEW d, NEW c, Reading(d, c), NEW x
  PROVE  Carried(x)' = Carried(x)
BY DEF Reading, Carried, Zero

HandlerInv == GameTypes /\ TrackTypes /\ Read /\ Shown /\ Beasts

LEMMA AbsoluteRead ==
  ASSUME HandlerInv, NEW c, Reading("absolute", c),
         HandleAbsoluteDnt(c, sd["absolute"][c])
  PROVE  TrackTypes' /\ Read' /\ Shown' /\ Beasts'
<1>1. PICK v : v = sd["absolute"][c]
  OBVIOUS
<1>2. c \in {1, 2} /\ v = Carried("absolute")[c] /\ v \in Nat
  BY <1>1, Pairs DEF HandlerInv, GameTypes, Reading, Carried
<1>3. PICK p : p = [buffSourceState["absolute"] EXCEPT ![c] = v]
  OBVIOUS
<1>4. p \in Pair /\ p[c] = v /\ \A k \in {1, 2} : k # c => p[k] = buffSourceState["absolute"][k]
  BY <1>2, <1>3, Pairs DEF HandlerInv, TrackTypes, Categories
<1>5. /\ buffSourceState' = [buffSourceState EXCEPT !["absolute"] = p]
      /\ buffSources' = [buffSources EXCEPT !["absolute"] = p]
      /\ UNCHANGED <<shopBuffPrev, shopBuffGlobal, nomiCounter>>
  BY <1>1, <1>3 DEF HandleAbsoluteDnt, SetBuffSource, HandlerInv, TrackTypes, Categories
<1>6. TrackTypes'
  BY <1>4, <1>5 DEF HandlerInv, TrackTypes
<1>7. /\ buffSourceState'["absolute"] = p /\ buffSources'["absolute"] = p
      /\ \A k \in Categories : k # "absolute" =>
           buffSourceState'[k] = buffSourceState[k] /\ buffSources'[k] = buffSources[k]
  BY <1>5 DEF HandlerInv, TrackTypes, Categories
<1>8. \A x : Prev(x)' = Prev(x) /\ Carried(x)' = Carried(x)
  BY <1>5, SameCarried DEF Prev, Zero
<1>9. \A k \in {1, 2} : ~Pending("absolute", k)' => p[k] = Carried("absolute")[k]
  BY <1>2, <1>4 DEF Reading, LineGone, HandlerInv, Read
<1>10. \A x, k : x # "absolute" => (Pending(x, k)' <=> Pending(x, k))
  BY DEF Reading, LineGone
<1>11. Carried("absolute") \in Pair
  BY CarriedType DEF HandlerInv
<1>12. Read'
  BY <1>5, <1>7, <1>8, <1>9, <1>10 DEF HandlerInv, Read, Categories
<1>13. Shown'
  BY <1>4, <1>7, <1>8, <1>9, <1>10, <1>11, Pairs DEF HandlerInv, Shown, Categories
<1>14. Beasts'
  BY <1>7, <1>8, <1>10 DEF HandlerInv, Beasts, Categories, Reading
<1> QED
  BY <1>6, <1>12, <1>13, <1>14

LEMMA ShopRead ==
  ASSUME HandlerInv, NEW c, Reading("shop", c),
         HandleGenericShopBuffDnt(c, sd["shop"][c])
  PROVE  TrackTypes' /\ Read' /\ Shown' /\ Beasts'
<1>1. PICK v : v = sd["shop"][c]
  OBVIOUS
<1>2. c \in {1, 2} /\ v = Carried("shop")[c] /\ v \in Nat
  BY <1>1, Pairs DEF HandlerInv, GameTypes, Reading, Carried
<1>3. PICK p : p = [buffSourceState["shop"] EXCEPT ![c] = v]
  OBVIOUS
<1>4. p \in Pair /\ p[c] = v /\ \A k \in {1, 2} : k # c => p[k] = buffSourceState["shop"][k]
  BY <1>2, <1>3, Pairs DEF HandlerInv, TrackTypes, Categories
<1>5. /\ buffSourceState["shop"] \in Pair /\ shopBuffGlobal \in Pair
      /\ buffSourceState["shop"][c] = shopBuffGlobal[c]
  BY <1>2 DEF HandlerInv, TrackTypes, Categories, Read
<1>6. buffSourceState["shop"][c] + v - shopBuffGlobal[c] = v
  BY <1>2, <1>5, Pairs
<1>7. [buffSourceState["shop"] EXCEPT ![c] = @ + v - shopBuffGlobal[c]] = p
  BY <1>3, <1>6
<1>8. /\ buffSourceState' = [buffSourceState EXCEPT !["shop"] = p]
      /\ buffSources' = [buffSources EXCEPT !["shop"] = p]
      /\ shopBuffGlobal' = [shopBuffGlobal EXCEPT ![c] = v]
      /\ UNCHANGED <<shopBuffPrev, nomiCounter>>
  BY <1>1, <1>7 DEF HandleGenericShopBuffDnt, SetBuffSource, HandlerInv, TrackTypes, Categories
<1>9. /\ shopBuffGlobal' \in Pair /\ shopBuffGlobal'[c] = v
      /\ \A k \in {1, 2} : k # c => shopBuffGlobal'[k] = shopBuffGlobal[k]
  <2>1. PICK g \in Pair : g = shopBuffGlobal
    BY <1>5
  <2>2. c \in {1, 2} /\ v \in Nat
    BY <1>2
  <2>3. PICK h : h = [g EXCEPT ![c] = v]
    OBVIOUS
  <2>4. h \in Pair /\ h[c] = v /\ \A k \in {1, 2} : k # c => h[k] = g[k]
    BY <2>1, <2>2, <2>3, Sums DEF Pair
  <2> QED
    BY <1>8, <2>1, <2>3, <2>4
<1>10. TrackTypes'
  BY <1>4, <1>8, <1>9 DEF HandlerInv, TrackTypes
<1>11. /\ buffSourceState'["shop"] = p /\ buffSources'["shop"] = p
       /\ \A k \in Categories : k # "shop" =>
            buffSourceState'[k] = buffSourceState[k] /\ buffSources'[k] = buffSources[k]
  BY <1>8 DEF HandlerInv, TrackTypes, Categories
<1>12. \A x : Prev(x)' = Prev(x) /\ Carried(x)' = Carried(x)
  BY <1>8, SameCarried DEF Prev, Zero
<1>13. \A k \in {1, 2} : /\ p[k] = shopBuffGlobal'[k]
                         /\ ~Pending("shop", k)' => p[k] = Carried("shop")[k]
  BY <1>2, <1>4, <1>9 DEF Reading, LineGone, HandlerInv, Read
<1>14. \A x, k : x # "shop" => (Pending(x, k)' <=> Pending(x, k))
  BY DEF Reading, LineGone
<1>15. Carried("shop") \in Pair
  BY CarriedType DEF HandlerInv
<1>16. Read'
  BY <1>8, <1>11, <1>12, <1>13, <1>14 DEF HandlerInv, Read, Categories
<1>17. Shown'
  BY <1>4, <1>11, <1>12, <1>13, <1>14, <1>15, Pairs DEF HandlerInv, Shown, Categories
<1>18. Beasts'
  BY <1>11, <1>12, <1>14 DEF HandlerInv, Beasts, Categories, Reading
<1> QED
  BY <1>10, <1>16, <1>17, <1>18

\* The Nomi counter and the totals it is the sum of, after a line of one of them.
LEMMA NomiRead ==
  ASSUME HandlerInv, NEW d, NEW c, Reading(d, c), d = "elemental" \/ d = "sticker",
         shopBuffPrev' \in [Dnts -> Pair], nomiCounter' \in Pair,
         buffSources' = [buffSources EXCEPT !["nomi"] = nomiCounter'],
         UNCHANGED <<buffSourceState, shopBuffGlobal>>,
         \A k \in {1, 2} :
           /\ nomiCounter'[k] = Prev("elemental")'[k] + Prev("sticker")'[1]
           /\ ~Pending("elemental", k)' => Prev("elemental")'[k] = Carried("elemental")[k],
         ~Pending("sticker", 1)' => Prev("sticker")'[1] = Carried("sticker")[1]
  PROVE  TrackTypes' /\ Read' /\ Shown' /\ Beasts'
<1>1. TrackTypes'
  BY DEF HandlerInv, TrackTypes
<1>2. /\ buffSources'["nomi"] = nomiCounter'
      /\ \A k \in Categories : k # "nomi" => buffSources'[k] = buffSources[k]
  BY DEF HandlerInv, TrackTypes, Categories
<1>3. \A x : Carried(x)' = Carried(x)
  BY SameCarried
<1>4. \A x, k : x # d => (Pending(x, k)' <=> Pending(x, k))
  BY DEF Reading, LineGone
<1>5. Read'
  BY <1>2, <1>3, <1>4 DEF HandlerInv, Read, Categories
<1>6. Shown'
  BY <1>2, <1>3, <1>4 DEF HandlerInv, Shown, Categories
<1>7. Beasts'
  BY <1>2, <1>3, <1>4 DEF HandlerInv, Beasts, Categories, Reading
<1> QED
  BY <1>1, <1>5, <1>6, <1>7

LEMMA ElementalRead ==
  ASSUME HandlerInv, NEW c, Reading("elemental", c),
         HandleShopBuffDnt(c, sd["elemental"][c])
  PROVE  TrackTypes' /\ Read' /\ Shown' /\ Beasts'
<1>1. PICK v : v = sd["elemental"][c]
  OBVIOUS
<1>2. c \in {1, 2} /\ v = Carried("elemental")[c] /\ v \in Nat /\ "elemental" \in Dnts
  BY <1>1, Pairs DEF HandlerInv, GameTypes, Reading, Carried
<1>3. PICK old : old = shopBuffPrev["elemental"]
  OBVIOUS
<1>4. PICK s : s = Prev("sticker")[1]
  OBVIOUS
<1>5. /\ old \in Pair /\ old = Prev("elemental") /\ s \in Nat /\ nomiCounter \in Pair
      /\ \A k \in {1, 2} : nomiCounter[k] = old[k] + s
  BY <1>2, <1>3, <1>4, PrevType, Pairs DEF HandlerInv, TrackTypes, Prev, Read
<1>6. PICK new : new = [old EXCEPT ![c] = v]
  OBVIOUS
<1>7. new \in Pair /\ new[c] = v /\ \A k \in {1, 2} : k # c => new[k] = old[k]
  BY <1>2, <1>5, <1>6, Pairs
<1>8. nomiCounter[c] + v - old[c] = v + s
  BY <1>2, <1>5, Pairs
<1>9. /\ shopBuffPrev' = [shopBuffPrev EXCEPT !["elemental"] = new]
      /\ nomiCounter' = [nomiCounter EXCEPT ![c] = v + s]
      /\ buffSources' = [buffSources EXCEPT !["nomi"] = nomiCounter']
      /\ UNCHANGED <<buffSourceState, shopBuffGlobal>>
  BY <1>1, <1>2, <1>3, <1>6, <1>8 DEF HandleShopBuffDnt, SetBuffSource, HandlerInv, TrackTypes
<1>10. /\ shopBuffPrev' \in [Dnts -> Pair] /\ Prev("elemental")' = new
       /\ Prev("sticker")' = Prev("sticker")
  BY <1>2, <1>7, <1>9 DEF HandlerInv, TrackTypes, Prev, Zero
<1>11. /\ nomiCounter' \in Pair /\ nomiCounter'[c] = v + s
       /\ \A k \in {1, 2} : k # c => nomiCounter'[k] = nomiCounter[k]
  <2>1. PICK g \in Pair : g = nomiCounter
    BY <1>5
  <2>2. c \in {1, 2} /\ v + s \in Nat
    BY <1>2, <1>5
  <2>3. PICK w \in Nat : w = v + s
    BY <2>2
  <2>4. PICK h : h = [g EXCEPT ![c] = w]
    OBVIOUS
  <2>5. h \in Pair /\ h[c] = w /\ \A k \in {1, 2} : k # c => h[k] = g[k]
    BY <2>1, <2>2, <2>3, <2>4, Sums DEF Pair
  <2> QED
    BY <1>9, <2>1, <2>3, <2>4, <2>5
<1>12. \A k \in {1, 2} : nomiCounter'[k] = new[k] + s
  BY <1>5, <1>7, <1>11
<1>13. \A k \in {1, 2} : ~Pending("elemental", k)' => new[k] = Carried("elemental")[k]
  BY <1>2, <1>5, <1>7 DEF Reading, LineGone, HandlerInv, Read
<1>14. ~Pending("sticker", 1)' => s = Carried("sticker")[1]
  BY <1>4 DEF Reading, LineGone, HandlerInv, Read
<1> QED
  BY <1>4, <1>9, <1>10, <1>11, <1>12, <1>13, <1>14, NomiRead

LEMMA StickerRead ==
  ASSUME HandlerInv, Reading("sticker", 1),
         HandleNomiStickerDnt(sd["sticker"][1])
  PROVE  TrackTypes' /\ Read' /\ Shown' /\ Beasts'
<1>1. PICK v : v = sd["sticker"][1]
  OBVIOUS
<1>2. v = Carried("sticker")[1] /\ v \in Nat /\ "sticker" \in Dnts
  BY <1>1, Pairs DEF HandlerInv, GameTypes, Reading, Carried
<1>3. PICK old : old = shopBuffPrev["sticker"]
  OBVIOUS
<1>4. PICK e : e = Prev("elemental")
  OBVIOUS
<1>5. /\ old \in Pair /\ old = Prev("sticker") /\ e \in Pair /\ nomiCounter \in Pair
      /\ \A k \in {1, 2} : nomiCounter[k] = e[k] + old[1]
  BY <1>2, <1>3, <1>4, PrevType DEF HandlerInv, TrackTypes, Prev, Read
<1>6. PICK new : new = [old EXCEPT ![1] = v]
  OBVIOUS
<1>7. new \in Pair /\ new[1] = v
  BY <1>2, <1>5, <1>6, Pairs
<1>8. PICK delta : delta = v - old[1]
  OBVIOUS
<1>9. PICK n : n = Plus(nomiCounter, <<delta, delta>>)
  OBVIOUS
<1>10. n = [k \in {1, 2} |-> nomiCounter[k] + <<delta, delta>>[k]]
  BY <1>9, Sums DEF Plus
<1>11. \A k \in {1, 2} : n[k] = e[k] + v /\ n[k] \in Nat
  BY <1>2, <1>5, <1>8, <1>10, Pairs
<1>12. n \in Pair
  BY <1>10, <1>11, Sums DEF Pair
<1>13. /\ shopBuffPrev' = [shopBuffPrev EXCEPT !["sticker"] = new]
       /\ nomiCounter' = n /\ buffSources' = [buffSources EXCEPT !["nomi"] = nomiCounter']
       /\ UNCHANGED <<buffSourceState, shopBuffGlobal>>
  BY <1>1, <1>2, <1>3, <1>6, <1>8, <1>9
  DEF HandleNomiStickerDnt, SetBuffSource, HandlerInv, TrackTypes, Attack
<1>14. /\ shopBuffPrev' \in [Dnts -> Pair] /\ Prev("sticker")' = new
       /\ Prev("elemental")' = e
  BY <1>2, <1>4, <1>7, <1>13 DEF HandlerInv, TrackTypes, Prev, Zero
<1>15. \A k \in {1, 2} : ~Pending("elemental", k)' => e[k] = Carried("elemental")[k]
  BY <1>4 DEF Reading, LineGone, HandlerInv, Read
<1> QED
  BY <1>2, <1>7, <1>11, <1>12, <1>13, <1>14, <1>15, NomiRead

\* The beasts' number, which is the Dnt's or, replayed, an older one.
LEMMA BeastRead ==
  ASSUME HandlerInv, NEW v \in Nat, "beast" \in Dnts, v <= sd["beast"][1],
         UNCHANGED <<sd, older>>, HandleMaxDnt(v),
         v = sd["beast"][1] \/ UNCHANGED owed,
         v = 0 => Pending("beast", 1) /\ v = sd["beast"][1],
         \A x, k : x # "beast" => (Pending(x, k)' <=> Pending(x, k)),
         \A k : Pending("beast", k)' => Pending("beast", k)
  PROVE  TrackTypes' /\ Read' /\ Shown' /\ Beasts'
<1>1. PICK s : s = buffSourceState["beast"]
  OBVIOUS
<1>2. \A x : Carried(x)' = Carried(x) /\ Prev(x)' = Prev(x)
  BY DEF Carried, Zero, HandleMaxDnt, Prev
<1>3. PICK b : b = Carried("beast")
  OBVIOUS
<1>4. b = sd["beast"] /\ b \in Pair /\ s \in Pair /\ s[1] <= b[1] /\ s[2] = 0 /\ b[2] = 0
  BY <1>1, <1>3 DEF HandlerInv, GameTypes, TrackTypes, Carried, Categories, Beasts
<1>5. /\ UNCHANGED <<shopBuffPrev, shopBuffGlobal, nomiCounter>>
      /\ \/ v <= s[1] /\ UNCHANGED <<buffSourceState, buffSources>>
         \/ /\ v > s[1]
            /\ buffSourceState' = [buffSourceState EXCEPT !["beast"] = [s EXCEPT ![1] = v]]
            /\ buffSources' = [buffSources EXCEPT !["beast"] = [s EXCEPT ![1] = v]]
  BY <1>1, <1>4, Pairs DEF HandleMaxDnt, SetBuffSource, HandlerInv, TrackTypes, Categories, Attack
<1>6. [s EXCEPT ![1] = v] \in Pair /\ [s EXCEPT ![1] = v][1] = v /\ [s EXCEPT ![1] = v][2] = 0
  BY <1>4, Pairs
<1>7. TrackTypes'
  BY <1>5, <1>6 DEF HandlerInv, TrackTypes
<1>8. \A k \in Categories : k # "beast" =>
        buffSourceState'[k] = buffSourceState[k] /\ buffSources'[k] = buffSources[k]
  BY <1>5 DEF HandlerInv, TrackTypes, Categories
<1>9. Read'
  BY <1>2, <1>5, <1>8 DEF HandlerInv, Read, Categories
<1>10. Shown'
  BY <1>2, <1>8 DEF HandlerInv, Shown, Categories
<1>11. b[1] \in Nat /\ s[1] \in Nat
  BY <1>4, Pairs
<1>12. Beasts'
  <2>1. CASE v > s[1]
    <3>1. /\ buffSourceState'["beast"] = [s EXCEPT ![1] = v]
          /\ buffSources'["beast"] = [s EXCEPT ![1] = v]
      BY <1>5, <1>11, <2>1 DEF HandlerInv, TrackTypes, Categories
    <3>2. ~older /\ ~Pending("beast", 1)' => v = b[1]
      <4>1. CASE v = sd["beast"][1]
        BY <1>4, <4>1
      <4>2. CASE UNCHANGED owed
        <5>1. Pending("beast", 1)' <=> Pending("beast", 1)
          BY <4>2 DEF Pending, Line
        <5> QED
          BY <1>1, <1>3, <1>4, <1>11, <2>1, <5>1 DEF HandlerInv, Beasts
      <4> QED
        BY <4>1, <4>2
    <3>3. Pending("beast", 1)' => b[1] > 0
      BY <1>3 DEF HandlerInv, Beasts
    <3> QED
      BY <1>2, <1>3, <1>4, <1>6, <3>1, <3>2, <3>3 DEF Beasts
  <2>2. CASE v <= s[1]
    <3>1. UNCHANGED <<buffSourceState, buffSources>>
      BY <1>5, <1>11, <2>2
    <3>2. ~older /\ ~Pending("beast", 1)' => s[1] = b[1]
      <4>1. CASE v = sd["beast"][1]
        BY <1>4, <1>11, <2>2, <4>1
      <4>2. CASE UNCHANGED owed
        <5>1. Pending("beast", 1)' <=> Pending("beast", 1)
          BY <4>2 DEF Pending, Line
        <5> QED
          BY <1>1, <1>3, <5>1 DEF HandlerInv, Beasts
      <4> QED
        BY <4>1, <4>2
    <3>3. Pending("beast", 1)' => b[1] > 0
      BY <1>3 DEF HandlerInv, Beasts
    <3>4. v # 0
      BY <1>3, <1>4 DEF HandlerInv, Beasts
    <3>5. s[1] > 0
      BY <1>11, <2>2, <3>4
    <3>6. buffSources["beast"] = s
      BY <1>1, <3>5 DEF HandlerInv, Beasts
    <3> QED
      BY <1>1, <1>2, <1>3, <1>4, <3>1, <3>2, <3>3, <3>6 DEF Beasts
  <2> QED
    BY <1>11, <2>1, <2>2
<1> QED
  BY <1>7, <1>9, <1>10, <1>12

\* No handler of a Dnt's line touches the spells' buff.
LEMMA SpellUntouched ==
  ASSUME TrackTypes, NEW d, NEW c, NEW v, HandleDntTagChange(d, c, v)
  PROVE  /\ buffSourceState'["spell"] = buffSourceState["spell"]
         /\ buffSources'["spell"] = buffSources["spell"]
BY DEF TrackTypes, Categories, HandleDntTagChange, HandleAbsoluteDnt,
       HandleGenericShopBuffDnt, HandleShopBuffDnt, HandleNomiStickerDnt,
       HandleMaxDnt, SetBuffSource

-----------------------------------------------------------------------------
(* Every action keeps the invariant *)

LEMMA DntLineKeeps ==
  ASSUME BuffsInv, DntLine
  PROVE  BuffsInv'
<1>1. GameTypes /\ GoldTypes /\ TrackTypes /\ TurnTypes /\ Flags
  BY Types DEF BuffsInv
<1>2. /\ owed # <<>> /\ owed' = Tail(owed)
      /\ UNCHANGED <<turn, stage, sd, tags, extraGold, inPlay, rejoins, bPhase, goldVars,
                     turnVars, older, missed>>
      /\ HandleDntTagChange(Head(owed).dnt, Head(owed).component,
                              sd[Head(owed).dnt][Head(owed).component])
  BY DEF DntLine
<1>3. owed \in Seq(Lines)
  BY <1>1 DEF GameTypes
<1>4. PICK d \in Dnts, c \in {1, 2} :
        /\ Head(owed) = Line(d, c) /\ Pending(d, c)
        /\ \E i \in DOMAIN owed : owed[i].dnt = d /\ owed[i].component = c
        /\ \A x, k : /\ Pending(x, k)' => Pending(x, k)
                     /\ Pending(x, k) => Pending(x, k)' \/ (x = d /\ k = c)
  BY <1>2, <1>3, LineRead
<1>5. owed' \in Seq(Lines) /\ \A i \in DOMAIN owed' : \E j \in DOMAIN owed : owed'[i] = owed[j]
  BY <1>2, <1>3, LineRead
<1>6. Reading(d, c) /\ (d \in {"sticker", "beast"} => c = 1)
  BY <1>2, <1>4 DEF Reading, LineGone, BuffsInv, OneNumber
<1>7. HandleDntTagChange(d, c, sd[d][c])
  BY <1>2, <1>4 DEF Line
<1>8. HandlerInv
  BY <1>1 DEF BuffsInv, HandlerInv
<1>9. TrackTypes' /\ Read' /\ Shown' /\ Beasts'
  <2>1. CASE d = "absolute" /\ HandleAbsoluteDnt(c, sd[d][c])
    BY <1>6, <1>8, <2>1, AbsoluteRead
  <2>2. CASE d = "shop" /\ HandleGenericShopBuffDnt(c, sd[d][c])
    BY <1>6, <1>8, <2>2, ShopRead
  <2>3. CASE d = "elemental" /\ HandleShopBuffDnt(c, sd[d][c])
    BY <1>6, <1>8, <2>3, ElementalRead
  <2>4. CASE d = "sticker" /\ HandleNomiStickerDnt(sd[d][c])
    BY <1>6, <1>8, <2>4, StickerRead
  <2>5. CASE d = "beast" /\ HandleMaxDnt(sd[d][c])
    <3>1. c = 1 /\ d \in Dnts
      BY <1>6, <2>5
    <3>2. sd["beast"][1] \in Nat
      BY <1>1, <2>5, <3>1, Pairs DEF GameTypes
    <3>3. PICK v \in Nat : v = sd["beast"][1]
      BY <3>2
    <3>4. \A x, k : x # "beast" => (Pending(x, k)' <=> Pending(x, k))
      BY <1>4, <2>5
    <3>5. \A k : Pending("beast", k)' => Pending("beast", k)
      BY <1>4
    <3>6. Pending("beast", 1) /\ HandleMaxDnt(v) /\ v <= sd["beast"][1] /\ "beast" \in Dnts
      BY <1>4, <2>5, <3>1, <3>3
    <3> QED
      BY <1>2, <1>8, <3>3, <3>4, <3>5, <3>6, BeastRead
  <2> QED
    BY <1>7, <2>1, <2>2, <2>3, <2>4, <2>5 DEF HandleDntTagChange
<1>10. OneNumber'
  BY <1>5 DEF BuffsInv, OneNumber
<1>11. Spells'
  <2>1. /\ buffSourceState'["spell"] = buffSourceState["spell"]
        /\ buffSources'["spell"] = buffSources["spell"]
    BY <1>1, <1>7, SpellUntouched
  <2> QED
    BY <1>2, <2>1, KeptSpells DEF BuffsInv
<1>12. Deltas' /\ TurnTypes' /\ Flags'
  BY <1>1, <1>2 DEF BuffsInv, Deltas, turnVars, TurnTypes, Flags, Categories
<1>13. Promised'
  BY <1>2, KeptPromised DEF BuffsInv
<1>14. GameTypes' /\ GoldTypes'
  BY <1>1, <1>2, <1>5 DEF GameTypes, GoldTypes, goldVars, Gold, Pair, Components, Lines
<1>15. (stage' = "turning" => turn' < MaxTurn) /\ (stage' = "recruit" \/ stage' = "combat")
  BY <1>2 DEF BuffsInv
<1> QED
  BY <1>9, <1>10, <1>11, <1>12, <1>13, <1>14, <1>15, TypesNext DEF BuffsInv

LEMMA KeptTracks ==
  ASSUME BuffsInv, UNCHANGED <<sd, owed, older, buffVars, buffSources>>
  PROVE  LinesInv' /\ TrackTypes'
<1>1. TrackTypes'
  BY Types DEF BuffsInv, TrackTypes, buffVars, Pair, Components, Categories
<1>2. TrackKept
  BY DEF TrackKept, buffVars
<1> QED
  BY <1>1, <1>2, KeptLines DEF BuffsInv, LinesInv

LEMMA GoldLineKeeps ==
  ASSUME BuffsInv, NEW n \in 0..MaxGold, GoldLine(n)
  PROVE  BuffsInv'
<1>1. GameTypes /\ GoldTypes /\ TrackTypes /\ TurnTypes /\ Flags
  BY Types DEF BuffsInv
<1>2. LinesInv' /\ TrackTypes'
  BY KeptTracks DEF GoldLine
<1>3. Spells'
  BY KeptSpells DEF GoldLine, buffVars, BuffsInv
<1>4. Deltas' /\ TurnTypes' /\ Flags'
  BY <1>1 DEF GoldLine, BuffsInv, Deltas, turnVars, TurnTypes, Flags, Categories
<1>5. n \in Nat /\ overconfidenceCount \in Nat
  <2>1. PICK m : m = Cardinality(Cards)
    OBVIOUS
  <2> QED
    BY <1>1, <2>1, BoundsAssumption DEF GoldTypes
<1>6. GameTypes' /\ GoldTypes'
  <2>1. /\ goldNextTurn' = [sure |-> n, bonus |-> 3 * overconfidenceCount]
        /\ extraGold' = n /\ goldNextTurnSure' = n /\ untold' = FALSE
        /\ UNCHANGED <<turn, stage, sd, tags, owed, inPlay, rejoins, bPhase,
                       overconfidenceCount, forgotten>>
    BY DEF GoldLine, Counter
  <2>2. goldNextTurn' \in Gold
    BY <1>5, <2>1 DEF Gold
  <2>3. GameTypes'
    BY <1>1, <2>1 DEF GameTypes
  <2>4. GoldTypes'
    <3>1. /\ untold' \in BOOLEAN /\ forgotten' \subseteq Cards /\ inPlay' \subseteq Cards
          /\ overconfidenceCount' \in 0..Cardinality(Cards)
          /\ rejoins' \in 0..MaxRejoins
      BY <1>1, <2>1, Zenon DEF GoldTypes
    <3>2. extraGold' \in 0..MaxGold /\ goldNextTurnSure' \in 0..MaxGold
      BY <2>1
    <3> QED
      BY <2>2, <3>1, <3>2, Zenon DEF GoldTypes
  <2> QED
    BY <2>3, <2>4
<1>7. Promised'
  <2>1. /\ IsFiniteSet(inPlay) /\ forgotten \subseteq inPlay /\ stage # "leaving"
        /\ overconfidenceCount = Cardinality(inPlay \ forgotten)
    BY DEF GoldLine, Playing, BuffsInv, Promised
  <2>2. PICK i, j : /\ i \in Nat /\ j \in Nat /\ j <= i /\ i = Cardinality(inPlay)
                    /\ j = Cardinality(inPlay \ forgotten)
    BY <2>1, Sizes
  <2>3. /\ extraGold' = n /\ goldNextTurnSure' = n /\ ~untold'
        /\ goldNextTurn' = [sure |-> n, bonus |-> 3 * j]
        /\ UNCHANGED <<stage, inPlay, forgotten, overconfidenceCount>>
    BY <2>1, <2>2 DEF GoldLine, Counter
  <2>4. 3 * j >= 3 * j /\ 3 * j <= 3 * i
    BY <2>2
  <2> QED
    BY <2>1, <2>2, <2>3, <2>4 DEF Promised
<1> QED
  BY <1>2, <1>3, <1>4, <1>6, <1>7, TypesNext DEF BuffsInv, LinesInv, GoldLine

LEMMA PlayOverconfidenceKeeps ==
  ASSUME BuffsInv, NEW card \in Cards, PlayOverconfidence(card)
  PROVE  BuffsInv'
<1>1. GameTypes /\ GoldTypes /\ TrackTypes /\ TurnTypes /\ Flags
  BY Types DEF BuffsInv
<1>2. LinesInv' /\ TrackTypes'
  BY KeptTracks DEF PlayOverconfidence
<1>3. Spells'
  BY KeptSpells DEF PlayOverconfidence, buffVars, BuffsInv
<1>4. Deltas' /\ TurnTypes' /\ Flags'
  BY <1>1 DEF PlayOverconfidence, BuffsInv, Deltas, turnVars, TurnTypes, Flags, Categories
<1>5. /\ IsFiniteSet(inPlay) /\ forgotten \subseteq inPlay /\ card \notin inPlay
      /\ stage = "recruit" /\ overconfidenceCount = Cardinality(inPlay \ forgotten)
      /\ goldNextTurnSure = IF untold THEN 0 ELSE extraGold
  BY DEF PlayOverconfidence, BuffsInv, Promised
<1>6. PICK i, j, k : /\ i \in Nat /\ j \in Nat /\ j <= i /\ k = Cardinality(Cards)
                     /\ i = Cardinality(inPlay) /\ j = Cardinality(inPlay \ forgotten)
  BY <1>5, Sizes
<1>7. /\ IsFiniteSet(inPlay \cup {card}) /\ Cardinality(inPlay \cup {card}) = i + 1
      /\ Cardinality((inPlay \cup {card}) \ forgotten) = j + 1
  <2>1. IsFiniteSet(inPlay \cup {card}) /\ Cardinality(inPlay \cup {card}) = i + 1
    BY <1>5, <1>6, FS_AddElement
  <2>2. IsFiniteSet(inPlay \ forgotten) /\ card \notin inPlay \ forgotten
    BY <1>5, Sizes
  <2>3. Cardinality((inPlay \ forgotten) \cup {card}) = j + 1
    BY <1>6, <2>2, FS_AddElement
  <2>4. (inPlay \cup {card}) \ forgotten = (inPlay \ forgotten) \cup {card}
    BY <1>5
  <2> QED
    BY <2>1, <2>3, <2>4
<1>8. k \in Nat /\ j + 1 <= k
  <2>1. IsFiniteSet(Cards) /\ inPlay \cup {card} \subseteq Cards
    BY <1>1, CardsAssumption DEF GoldTypes
  <2>2. Cardinality(inPlay \cup {card}) <= Cardinality(Cards) /\ Cardinality(Cards) \in Nat
    BY <2>1, FS_Subset, FS_CardinalityType
  <2> QED
    BY <1>6, <1>7, <2>2
<1>9. /\ inPlay' = inPlay \cup {card} /\ overconfidenceCount' = j + 1
      /\ goldNextTurn' = [sure |-> goldNextTurnSure, bonus |-> 3 * (j + 1)]
      /\ UNCHANGED <<turn, stage, sd, tags, owed, extraGold, rejoins, bPhase,
                     goldNextTurnSure, forgotten, untold>>
  BY <1>5, <1>6 DEF PlayOverconfidence, HandleOverconfidenceZone, Counter
<1>10. GameTypes'
  BY <1>1, <1>9 DEF GameTypes
<1>11. goldNextTurn' \in Gold
  BY <1>1, <1>6, <1>9, BoundsAssumption DEF GoldTypes, Gold
<1>12. overconfidenceCount' \in 0..k
  BY <1>6, <1>8, <1>9
<1>13. GoldTypes'
  BY <1>1, <1>6, <1>9, <1>11, <1>12 DEF GoldTypes
<1>14. Promised'
  <2>1. 3 * (j + 1) >= 3 * (j + 1) /\ 3 * (j + 1) <= 3 * (i + 1)
    BY <1>6
  <2> QED
    BY <1>5, <1>7, <1>9, <2>1 DEF Promised
<1> QED
  BY <1>2, <1>3, <1>4, <1>5, <1>9, <1>10, <1>13, <1>14, TypesNext DEF BuffsInv, LinesInv

LEMMA LeaveKeeps ==
  ASSUME BuffsInv, NEW card \in Cards, Leave(card)
  PROVE  BuffsInv'
<1>1. GameTypes /\ GoldTypes /\ TrackTypes /\ TurnTypes /\ Flags
  BY Types DEF BuffsInv
<1>2. LinesInv' /\ TrackTypes'
  BY KeptTracks DEF Leave
<1>3. /\ stage = "leaving" /\ card \in inPlay /\ inPlay' = inPlay \ {card}
      /\ forgotten' = forgotten \ {card}
      /\ overconfidenceCount = 0 /\ overconfidenceCount' = 0
      /\ goldNextTurn' = [sure |-> goldNextTurnSure, bonus |-> 0]
      /\ stage' = IF inPlay' = {} THEN "recruit" ELSE "leaving"
      /\ UNCHANGED <<turn, sd, tags, owed, extraGold, rejoins, bPhase, goldNextTurnSure,
                     missed, untold>>
      /\ UNCHANGED <<buffVars, buffSources, turnVars, older>>
  BY DEF Leave, HandleOverconfidenceZone, Decremented, Counter, BuffsInv, Promised
<1>4. Spells'
  <2>1. stage' # "combat"
    BY <1>3
  <2> QED
    BY <1>3, <2>1 DEF BuffsInv, Spells, buffVars
<1>5. Deltas' /\ TurnTypes' /\ Flags'
  BY <1>1, <1>3 DEF BuffsInv, Deltas, turnVars, TurnTypes, Flags, Categories
<1>6. Cardinality(Cards) \in Nat
  BY CardsAssumption, FS_CardinalityType
<1>11. GameTypes'
  BY <1>1, <1>3 DEF GameTypes
<1>12. goldNextTurn' \in Gold
  BY <1>1, <1>3, BoundsAssumption DEF GoldTypes, Gold
<1>13. GoldTypes'
  BY <1>1, <1>3, <1>6, <1>12 DEF GoldTypes
<1>14. Promised'
  <2>1. /\ IsFiniteSet(inPlay) /\ forgotten \subseteq inPlay
        /\ goldNextTurnSure = IF untold THEN 0 ELSE extraGold
    BY DEF BuffsInv, Promised
  <2>2. IsFiniteSet(inPlay') /\ forgotten' \subseteq inPlay'
    BY <1>3, <2>1, Sizes
  <2>3. stage' # "leaving" => Cardinality(inPlay') = 0 /\ Cardinality(inPlay' \ forgotten') = 0
    <3>1. stage' # "leaving" => inPlay' = {} /\ inPlay' \ forgotten' = {}
      BY <1>3
    <3> QED
      BY <3>1, FS_EmptySet
  <2> QED
    BY <1>3, <2>1, <2>2, <2>3 DEF Promised
<1>15. (stage' = "turning" => turn' < MaxTurn) /\ owed' = <<>>
  BY <1>3 DEF BuffsInv
<1> QED
  BY <1>2, <1>4, <1>5, <1>11, <1>13, <1>14, <1>15, TypesNext DEF BuffsInv, LinesInv

LEMMA StartCombatKeeps ==
  ASSUME BuffsInv, StartCombat
  PROVE  BuffsInv'
<1>1. GameTypes /\ GoldTypes /\ TrackTypes /\ TurnTypes /\ Flags
  BY Types DEF BuffsInv
<1>2. LinesInv' /\ TrackTypes'
  BY KeptTracks DEF StartCombat
<1>3. Spells'
  BY DEF StartCombat, buffVars, BuffsInv, Spells
<1>4. Deltas' /\ TurnTypes' /\ Flags'
  BY <1>1 DEF StartCombat, BuffsInv, Deltas, turnVars, TurnTypes, Flags, Categories
<1>5. GameTypes' /\ GoldTypes'
  BY <1>1 DEF StartCombat, GameTypes, GoldTypes, goldVars, Gold
<1>6. Promised'
  BY DEF StartCombat, Playing, BuffsInv, Promised, goldVars
<1> QED
  BY <1>2, <1>3, <1>4, <1>5, <1>6, TypesNext DEF BuffsInv, LinesInv, StartCombat

LEMMA EndCombatKeeps ==
  ASSUME BuffsInv, EndCombat
  PROVE  BuffsInv'
<1>1. GameTypes /\ GoldTypes /\ TrackTypes /\ TurnTypes /\ Flags
  BY Types DEF BuffsInv
<1>2. LinesInv' /\ TrackTypes'
  BY KeptTracks DEF EndCombat
<1>3. Spells'
  BY DEF EndCombat, buffVars, BuffsInv, Spells
<1>4. Deltas' /\ TurnTypes' /\ Flags'
  BY <1>1 DEF EndCombat, BuffsInv, Deltas, turnVars, TurnTypes, Flags, Categories
<1>5. GameTypes' /\ GoldTypes'
  BY <1>1 DEF EndCombat, GameTypes, GoldTypes, goldVars, Gold
<1>6. Promised'
  BY DEF EndCombat, Playing, BuffsInv, Promised, goldVars
<1>7. /\ stage' = "turning" => turn' < MaxTurn
      /\ owed' = <<>>
  BY DEF EndCombat, Playing
<1> QED
  BY <1>2, <1>3, <1>4, <1>5, <1>6, <1>7, TypesNext DEF BuffsInv, LinesInv

LEMMA PlayerTurnKeeps ==
  ASSUME BuffsInv, PlayerTurn
  PROVE  BuffsInv'
<1>1. GameTypes /\ GoldTypes /\ TrackTypes /\ TurnTypes /\ Flags
  BY Types DEF BuffsInv
<1>2. LinesInv' /\ TrackTypes'
  BY KeptTracks DEF PlayerTurn
<1>3. /\ stage = "turning" /\ turn' = turn + 1 /\ turn < MaxTurn /\ owed' = <<>>
      /\ stage' = IF inPlay = {} THEN "recruit" ELSE "leaving"
      /\ overconfidenceCount' = 0
      /\ goldNextTurn' = IF overconfidenceCount > 0 THEN Counter(goldNextTurnSure, 0)
                         ELSE goldNextTurn
      /\ UNCHANGED <<sd, tags, owed, extraGold, inPlay, rejoins, bPhase, buffVars,
                     goldNextTurnSure, buffSources, older, missed, forgotten, untold>>
  BY DEF PlayerTurn, BuffsInv
<1>4. stage' # "combat" /\ stage' # "turning" /\ stage' \in {"recruit", "leaving"}
  BY <1>3
<1>5. Spells'
  BY <1>3, <1>4 DEF BuffsInv, Spells, buffVars
<1>6. Deltas' /\ TurnTypes' /\ Flags'
  <2>1. /\ turnGrowth' = [k \in Categories |->
             Plus(turnGrowth[k], Minus(buffSources[k], prevBuffSources[k]))]
        /\ prevBuffSources' = buffSources /\ atCapture' = buffSources
    BY DEF PlayerTurn, CaptureTurnSnapshot
  <2>2. turnGrowth = prevBuffSources /\ buffSources \in [Categories -> Pair]
    BY <1>1 DEF BuffsInv, Deltas, TrackTypes
  <2>3. ASSUME NEW k \in Categories
        PROVE  Plus(turnGrowth[k], Minus(buffSources[k], prevBuffSources[k]))
                 = buffSources[k]
    <3>1. PICK p, q : p = prevBuffSources[k] /\ q = buffSources[k]
      OBVIOUS
    <3>2. p \in Pair /\ q \in Pair /\ turnGrowth[k] = p
      BY <1>1, <2>2, <3>1 DEF TurnTypes
    <3>3. Plus(p, Minus(q, p)) = [c \in {1, 2} |-> p[c] + (q[c] - p[c])]
      BY Sums DEF Plus, Minus
    <3>4. \A c \in {1, 2} : p[c] + (q[c] - p[c]) = q[c]
      BY <3>2, Pairs
    <3>5. q = [c \in {1, 2} |-> q[c]]
      BY <3>2, Sums DEF Pair
    <3>6. Plus(p, Minus(q, p)) = q
      BY <3>3, <3>4, <3>5
    <3> QED
      BY <3>1, <3>2, <3>6
  <2>4. turnGrowth' = buffSources
    BY <2>1, <2>2, <2>3
  <2> QED
    BY <1>1, <1>3, <2>1, <2>2, <2>4 DEF Deltas, TurnTypes, Flags
<1>7. /\ MaxGold \in Nat /\ MaxTurn \in Nat /\ IsFiniteSet(Cards)
      /\ Cardinality(Cards) \in Nat
  BY CardsAssumption, BoundsAssumption, FS_CardinalityType
<1>8. GameTypes'
  BY <1>1, <1>3, <1>4, <1>7 DEF GameTypes
<1>9. goldNextTurn' \in Gold
  BY <1>1, <1>3, <1>7 DEF GoldTypes, Counter, Gold
<1>10. GoldTypes'
  BY <1>1, <1>3, <1>7, <1>9 DEF GoldTypes
<1>11. Promised'
  <2>1. /\ IsFiniteSet(inPlay) /\ forgotten \subseteq inPlay
        /\ goldNextTurnSure = IF untold THEN 0 ELSE extraGold
        /\ goldNextTurn.sure \in {extraGold, goldNextTurnSure}
        /\ overconfidenceCount = Cardinality(inPlay \ forgotten)
        /\ goldNextTurn.bonus <= 3 * Cardinality(inPlay)
        /\ goldNextTurn.bonus >= 3 * Cardinality(inPlay \ forgotten)
    BY <1>3 DEF BuffsInv, Promised
  <2>2. goldNextTurn'.sure \in {extraGold, goldNextTurnSure}
    BY <1>3, <2>1 DEF Counter
  <2>3. inPlay = {} => /\ Cardinality(inPlay) = 0 /\ Cardinality(inPlay \ forgotten) = 0
                       /\ goldNextTurn' = goldNextTurn
    <3>1. inPlay = {} => inPlay \ forgotten = {}
      OBVIOUS
    <3> QED
      BY <1>3, <2>1, <3>1, FS_EmptySet
  <2>4. UNCHANGED <<inPlay, forgotten, untold, extraGold, goldNextTurnSure>>
    BY <1>3
  <2>5. stage' # "leaving" => inPlay = {}
    BY <1>3
  <2>6. overconfidenceCount' = 0
    BY <1>3
  <2> QED
    BY <2>1, <2>2, <2>3, <2>4, <2>5, <2>6 DEF Promised
<1> QED
  BY <1>2, <1>3, <1>4, <1>5, <1>6, <1>8, <1>10, <1>11, TypesNext DEF BuffsInv, LinesInv

\* A line about the player's tags: the trackers of the Dnts stay.
LEMMA SpellSet ==
  ASSUME BuffsInv, NEW p \in Pair, UNCHANGED <<sd, owed, older>>,
         UNCHANGED <<shopBuffPrev, shopBuffGlobal, nomiCounter>>,
         buffSourceState' = [buffSourceState EXCEPT !["spell"] = p],
         buffSources' = [buffSources EXCEPT !["spell"] = p]
  PROVE  /\ LinesInv' /\ TrackTypes'
         /\ buffSourceState'["spell"] = p /\ buffSources'["spell"] = p
<1>1. TrackTypes
  BY Types DEF BuffsInv
<1>2. TrackKept
  BY <1>1 DEF TrackKept, TrackTypes
<1>3. TrackTypes' /\ buffSourceState'["spell"] = p /\ buffSources'["spell"] = p
  BY <1>1 DEF TrackTypes, Categories
<1> QED
  BY <1>2, <1>3, KeptLines DEF BuffsInv, LinesInv

LEMMA TagLineKeeps ==
  ASSUME BuffsInv, NEW c \in {1, 2}, TagLine(c)
  PROVE  BuffsInv'
<1>1. GameTypes /\ GoldTypes /\ TrackTypes /\ TurnTypes /\ Flags
  BY Types DEF BuffsInv
<1>2. PICK t : t = tags[c] + 1
  OBVIOUS
<1>3. tags \in Pair /\ tags[c] \in Nat /\ t \in Nat
  BY <1>1, <1>2, Pairs DEF GameTypes
<1>4. PICK new : new = [tags EXCEPT ![c] = t]
  OBVIOUS
<1>5. new \in Pair /\ new[c] = t
  BY <1>3, <1>4, Sums DEF Pair
<1>6. /\ Playing /\ tags' = new /\ missed' = (missed \/ ~Taken)
      /\ UpdateBuffSourceFromPlayerTag(c, t)
      /\ UNCHANGED <<turn, stage, sd, owed, extraGold, inPlay, rejoins, bPhase,
                     shopBuffPrev, shopBuffGlobal, nomiCounter, goldVars, turnVars, older>>
  BY <1>2, <1>4, <1>5 DEF TagLine
<1>7. TrackTypes' /\ LinesInv' /\ Spells'
  <2>1. CASE Taken
    <3>1. PICK p : p = [buffSourceState["spell"] EXCEPT ![c] = t]
      OBVIOUS
    <3>2. p \in Pair
      BY <1>1, <1>3, <3>1, Sums DEF TrackTypes, Pair, Categories
    <3>3. /\ buffSourceState' = [buffSourceState EXCEPT !["spell"] = p]
          /\ buffSources' = [buffSources EXCEPT !["spell"] = p]
      BY <1>1, <1>6, <2>1, <3>1
      DEF UpdateBuffSourceFromPlayerTag, SetBuffSource, TrackTypes, Categories
    <3>4. /\ LinesInv' /\ TrackTypes'
          /\ buffSourceState'["spell"] = p /\ buffSources'["spell"] = p
      BY <1>6, <3>2, <3>3, SpellSet
    <3>5. buffSourceState["spell"] = tags => p = new
      BY <1>4, <3>1
    <3>6. stage' = "combat" => bPhase' = "COMBAT"
      BY <1>6 DEF BuffsInv, Spells
    <3>7. missed' \/ rejoins' > 0 \/ p = new
      BY <1>6, <3>5 DEF BuffsInv, Spells
    <3> QED
      BY <1>6, <3>4, <3>6, <3>7 DEF Spells
  <2>2. CASE ~Taken
    <3>1. UNCHANGED <<buffSourceState, buffSources>>
      BY <1>6, <2>2 DEF UpdateBuffSourceFromPlayerTag
    <3>2. LinesInv' /\ TrackTypes'
      BY <1>6, <3>1, KeptTracks DEF buffVars
    <3>3. missed' /\ (stage' = "combat" => bPhase' = "COMBAT")
      BY <1>6, <2>2 DEF BuffsInv, Spells
    <3> QED
      BY <3>2, <3>3 DEF Spells
  <2> QED
    BY <2>1, <2>2
<1>8. Deltas' /\ TurnTypes'
  BY <1>1, <1>6 DEF BuffsInv, Deltas, turnVars, TurnTypes, Categories
<1>9. Flags'
  <2>1. missed' \in BOOLEAN
    BY <1>6
  <2> QED
    BY <1>1, <1>6, <2>1 DEF Flags
<1>10. GameTypes' /\ GoldTypes'
  BY <1>1, <1>5, <1>6 DEF GameTypes, GoldTypes, goldVars, Gold
<1>11. Promised'
  BY <1>6, KeptPromised DEF BuffsInv
<1>12. (stage' = "turning" => turn' < MaxTurn) /\ owed' = <<>>
  BY <1>6 DEF BuffsInv, Playing
<1> QED
  BY <1>7, <1>8, <1>9, <1>10, <1>11, <1>12, TypesNext DEF BuffsInv, LinesInv

\* In a combat the builder has the combat's phase: a zero is not taken.
LEMMA TagZeroedKeeps ==
  ASSUME BuffsInv, NEW c \in {1, 2}, TagZeroed(c)
  PROVE  BuffsInv'
<1>1. ~Taken
  BY DEF TagZeroed, BuffsInv, Spells, Taken
<1>2. UNCHANGED vars
  BY <1>1 DEF TagZeroed, UpdateBuffSourceFromPlayerTag, vars, buffVars
<1>3. LinesInv' /\ TrackTypes'
  BY <1>2, KeptTracks DEF vars, clientVars
<1>4. GameTypes' /\ GoldTypes' /\ TurnTypes' /\ Flags'
  BY <1>2, Types
  DEF BuffsInv, vars, clientVars, turnVars, goldVars, GameTypes, GoldTypes, TurnTypes,
      Flags, Gold
<1>5. Spells' /\ Deltas'
  BY <1>2 DEF BuffsInv, Spells, Deltas, vars, clientVars, turnVars, buffVars
<1>6. Promised'
  BY <1>2, KeptPromised DEF BuffsInv, vars, clientVars
<1>7. /\ stage' = "turning" => turn' < MaxTurn
      /\ stage' = "recruit" \/ stage' = "combat" \/ owed' = <<>>
  BY <1>2 DEF BuffsInv, vars, clientVars
<1> QED
  BY <1>3, <1>4, <1>5, <1>6, <1>7, TypesNext DEF BuffsInv, LinesInv

\* A copy's value is the beasts' or an older one, and none of their lines is left.
LEMMA ReplayLineKeeps ==
  ASSUME BuffsInv, NEW v \in 1..MaxGrowth, ReplayLine(v)
  PROVE  BuffsInv'
<1>1. GameTypes /\ GoldTypes /\ TrackTypes /\ TurnTypes /\ Flags
  BY Types DEF BuffsInv
<1>2. MaxGrowth \in Nat
  BY BoundsAssumption
<1>3. v \in Nat /\ v # 0
  BY <1>2
<1>4. /\ Playing /\ "beast" \in Dnts /\ v \in 1..sd["beast"][1]
      /\ HandleDntTagChange("beast", 1, v)
      /\ UNCHANGED <<clientVars, bPhase, goldVars, turnVars, older, missed>>
  BY DEF ReplayLine, Attack
<1>5. v <= sd["beast"][1]
  <2>1. sd["beast"][1] \in Nat
    BY <1>1, <1>4, Pairs DEF GameTypes
  <2> QED
    BY <1>4, <2>1
<1>6. HandleMaxDnt(v)
  BY <1>4 DEF HandleDntTagChange
<1>7. \A x, k : Pending(x, k)' <=> Pending(x, k)
  BY <1>4 DEF clientVars, Pending, Line
<1>8. HandlerInv
  BY <1>1 DEF HandlerInv, BuffsInv
<1>9. UNCHANGED <<sd, owed, older>>
  BY <1>4 DEF clientVars
<1>10. TrackTypes' /\ Read' /\ Shown' /\ Beasts'
  BY <1>3, <1>4, <1>5, <1>6, <1>7, <1>8, <1>9, BeastRead
<1>11. OneNumber'
  BY <1>9 DEF BuffsInv, OneNumber
<1>12. Spells'
  <2>1. /\ buffSourceState'["spell"] = buffSourceState["spell"]
        /\ buffSources'["spell"] = buffSources["spell"]
    BY <1>1, <1>4, SpellUntouched
  <2> QED
    BY <1>4, <2>1, KeptSpells DEF BuffsInv, clientVars
<1>13. GameTypes' /\ GoldTypes' /\ TurnTypes' /\ Flags'
  BY <1>1, <1>4 DEF clientVars, turnVars, goldVars, GameTypes, GoldTypes, TurnTypes,
                    Flags, Gold
<1>14. Promised' /\ Deltas'
  BY <1>4, KeptPromised DEF BuffsInv, Deltas, clientVars, turnVars
<1>15. (stage' = "turning" => turn' < MaxTurn) /\ owed' = <<>>
  BY <1>4 DEF BuffsInv, clientVars, Playing
<1> QED
  BY <1>10, <1>11, <1>12, <1>13, <1>14, <1>15, TypesNext DEF BuffsInv

\* The lines of a Dnt.
LEMMA LinesOfDnt ==
  ASSUME NEW d \in Dnts
  PROVE  /\ LinesOf(d) \in Seq(Lines)
         /\ \A i \in DOMAIN LinesOf(d) :
              d \in {"sticker", "beast"} => LinesOf(d)[i].component = 1
         /\ \A x, k : (\E i \in DOMAIN LinesOf(d) : LinesOf(d)[i] = Line(x, k))
                        <=> x = d /\ (k = 1 \/ (k = 2 /\ d \notin {"sticker", "beast"}))
<1>1. Line(d, 1) \in Lines /\ Line(d, 2) \in Lines
  BY DEF Lines, Line
<1>2. CASE d \in {"sticker", "beast"}
  <2>1. LinesOf(d) = <<Line(d, 1)>>
    BY <1>2 DEF LinesOf, Attack
  <2>2. DOMAIN <<Line(d, 1)>> = {1} /\ <<Line(d, 1)>>[1] = Line(d, 1)
    OBVIOUS
  <2> QED
    BY <1>1, <1>2, <2>1, <2>2 DEF Line
<1>3. CASE d \notin {"sticker", "beast"}
  <2>1. LinesOf(d) = <<Line(d, 1), Line(d, 2)>>
    BY <1>3 DEF LinesOf, Attack, Health
  <2>2. /\ DOMAIN <<Line(d, 1), Line(d, 2)>> = {1, 2}
        /\ <<Line(d, 1), Line(d, 2)>>[1] = Line(d, 1)
        /\ <<Line(d, 1), Line(d, 2)>>[2] = Line(d, 2)
    OBVIOUS
  <2>3. <<Line(d, 1), Line(d, 2)>> \in Seq(Lines)
    BY <1>1
  <2> QED
    BY <1>3, <2>1, <2>2, <2>3 DEF Line
<1> QED
  BY <1>2, <1>3

LEMMA GrowKeeps ==
  ASSUME BuffsInv, NEW d \in Dnts, NEW step \in Steps(d), Grow(d, step)
  PROVE  BuffsInv'
<1>1. GameTypes /\ GoldTypes /\ TrackTypes /\ TurnTypes /\ Flags
  BY Types DEF BuffsInv
<1>2. /\ Playing /\ owed' = LinesOf(d) /\ older' = (older /\ d # "beast")
      /\ sd' = [sd EXCEPT ![d] = Plus(sd[d], step)]
      /\ UNCHANGED <<turn, stage, tags, extraGold, inPlay, rejoins, bPhase, buffVars,
                     goldVars, buffSources, turnVars, missed>>
  BY DEF Grow
<1>3. step \in Pair /\ (d \in {"sticker", "beast"} => step[1] = 1 /\ step[2] = 0)
  <2>1. step \in {<<1, 0>>, <<0, 1>>, <<1, 1>>} /\ (d \in {"sticker", "beast"} => step = <<1, 0>>)
    BY DEF Steps
  <2>2. \A a, b \in Nat : <<a, b>> \in Pair /\ <<a, b>>[1] = a /\ <<a, b>>[2] = b
    BY Pairs
  <2> QED
    BY <2>1, <2>2
<1>4. PICK new : new = Plus(sd[d], step)
  OBVIOUS
<1>5. sd[d] \in Pair
  BY <1>1 DEF GameTypes
<1>6. new \in Pair /\ new[1] = sd[d][1] + step[1] /\ new[2] = sd[d][2] + step[2]
  BY <1>3, <1>4, <1>5, Sums
<1>7. /\ Carried(d) = sd[d] /\ Carried(d)' = new
      /\ \A x : x # d => Carried(x)' = Carried(x)
  BY <1>1, <1>2, <1>4 DEF GameTypes, Carried, Zero
<1>8. /\ \A x, k : ~Pending(x, k)
      /\ \A x, k : Pending(x, k)'
                     <=> x = d /\ (k = 1 \/ (k = 2 /\ d \notin {"sticker", "beast"}))
  <2>1. \A x, k : ~Pending(x, k)
    BY <1>2 DEF Playing, Pending
  <2>2. PICK m : m = owed'
    OBVIOUS
  <2>3. \A x, k : (\E i \in DOMAIN m : m[i] = Line(x, k))
                    <=> x = d /\ (k = 1 \/ (k = 2 /\ d \notin {"sticker", "beast"}))
    BY <1>2, <2>2, LinesOfDnt
  <2> QED
    BY <2>1, <2>2, <2>3 DEF Pending, Line
<1>9. \A x : Prev(x)' = Prev(x)
  BY <1>2 DEF Prev, buffVars, Zero
<1>10. OneNumber'
  <2>1. PICK m : m = LinesOf(d)
    OBVIOUS
  <2>2. m \in Seq(Lines) /\ \A i \in DOMAIN m : d \in {"sticker", "beast"} => m[i].component = 1
    BY <2>1, LinesOfDnt
  <2>3. ASSUME NEW i \in DOMAIN m PROVE m[i].dnt = d
    BY <2>1, <2>3 DEF LinesOf, Line
  <2> QED
    BY <1>2, <2>1, <2>2, <2>3 DEF OneNumber
<1>11. Read'
  <2>1. ASSUME NEW k \in {1, 2}
        PROVE  /\ ~Pending("absolute", k)' =>
                    buffSourceState["absolute"][k] = Carried("absolute")'[k]
               /\ ~Pending("shop", k)' => shopBuffGlobal[k] = Carried("shop")'[k]
               /\ ~Pending("elemental", k)' => Prev("elemental")[k] = Carried("elemental")'[k]
    BY <1>7, <1>8 DEF BuffsInv, Read
  <2>2. ~Pending("sticker", 1)' => Prev("sticker")[1] = Carried("sticker")'[1]
    BY <1>7, <1>8 DEF BuffsInv, Read
  <2> QED
    BY <1>2, <1>9, <2>1, <2>2 DEF BuffsInv, Read, buffVars
<1>12. Shown'
  BY <1>2, <1>7, <1>8 DEF BuffsInv, Shown
<1>13. Beasts'
  <2>1. PICK s, b, n : /\ s = buffSourceState["beast"] /\ b = Carried("beast")
                       /\ n = Carried("beast")'
    OBVIOUS
  <2>2. /\ s \in Pair /\ b \in Pair /\ s[1] <= b[1] /\ s[2] = 0 /\ b[2] = 0
        /\ ~older => s[1] = b[1]
        /\ buffSources["beast"] = s \/ (s[1] = 0 /\ older)
    BY <1>1, <1>8, <2>1, CarriedType DEF BuffsInv, Beasts, TrackTypes, Categories
  <2>3. buffSourceState'["beast"] = s /\ buffSources'["beast"] = buffSources["beast"]
    BY <1>2, <2>1 DEF buffVars
  <2>4. s[1] \in Nat /\ b[1] \in Nat
    BY <2>2, Pairs
  <2>5. CASE d = "beast"
    <3>1. n[1] = b[1] + 1 /\ n[2] = 0 /\ Pending("beast", 1)'
      BY <1>3, <1>6, <1>7, <1>8, <2>1, <2>2, <2>4, <2>5
    <3>2. buffSources["beast"] = s \/ s[1] = 0
      BY <2>2
    <3>3. s[1] <= n[1] /\ n[1] > 0
      BY <2>2, <2>4, <3>1
    <3> QED
      BY <2>1, <2>2, <2>3, <3>1, <3>2, <3>3 DEF Beasts
  <2>6. CASE d # "beast"
    <3>1. n = b /\ ~Pending("beast", 1)' /\ (older' <=> older)
      BY <1>2, <1>7, <1>8, <2>1, <2>6
    <3> QED
      BY <2>1, <2>2, <2>3, <3>1 DEF Beasts
  <2> QED
    BY <2>5, <2>6
<1>14. TrackTypes' /\ TurnTypes' /\ GoldTypes'
  BY <1>1, <1>2 DEF TrackTypes, TurnTypes, GoldTypes, buffVars, turnVars, goldVars, Gold
<1>15. GameTypes' /\ Flags'
  <2>1. LinesOf(d) \in Seq(Lines)
    BY LinesOfDnt
  <2>2. sd' \in [Dnts -> Pair]
    BY <1>1, <1>2, <1>4, <1>6 DEF GameTypes
  <2>3. older' \in BOOLEAN
    BY <1>2
  <2> QED
    BY <1>1, <1>2, <2>1, <2>2, <2>3 DEF GameTypes, Flags
<1>16. Spells' /\ Deltas'
  BY <1>2 DEF BuffsInv, Spells, Deltas, buffVars, turnVars
<1>17. Promised'
  BY <1>2, KeptPromised DEF BuffsInv
<1>18. (stage' = "turning" => turn' < MaxTurn) /\ (stage' = "recruit" \/ stage' = "combat")
  BY <1>2 DEF BuffsInv, Playing
<1> QED
  BY <1>10, <1>11, <1>12, <1>13, <1>14, <1>15, <1>16, <1>17, <1>18, TypesNext DEF BuffsInv

\* What a sequence of lines holds.
Has(s, x, k) == \E i \in DOMAIN s : s[i] = Line(x, k)
OneLine(s)   == \A i \in DOMAIN s : s[i].dnt \in {"sticker", "beast"} => s[i].component = 1

LEMMA Concatenated ==
  ASSUME NEW s \in Seq(Lines), NEW t \in Seq(Lines)
  PROVE  /\ s \o t \in Seq(Lines)
         /\ \A x, k : Has(s \o t, x, k) <=> Has(s, x, k) \/ Has(t, x, k)
         /\ OneLine(s) /\ OneLine(t) => OneLine(s \o t)
<1>1. PICK u : u = s \o t
  OBVIOUS
<1>2. /\ u \in Seq(Lines) /\ Len(u) = Len(s) + Len(t) /\ Len(s) \in Nat /\ Len(t) \in Nat
      /\ DOMAIN u = 1..Len(u) /\ DOMAIN s = 1..Len(s) /\ DOMAIN t = 1..Len(t)
      /\ \A i \in 1..Len(u) : u[i] = IF i <= Len(s) THEN s[i] ELSE t[i - Len(s)]
  BY <1>1, ConcatProperties, LenProperties
<1>3. \A i \in DOMAIN s : i \in DOMAIN u /\ u[i] = s[i]
  BY <1>2
<1>4. \A i \in DOMAIN t : i + Len(s) \in DOMAIN u /\ u[i + Len(s)] = t[i]
  BY <1>2
<1>5. \A i \in DOMAIN u : (\E j \in DOMAIN s : u[i] = s[j]) \/ (\E j \in DOMAIN t : u[i] = t[j])
  <2> SUFFICES ASSUME NEW i \in DOMAIN u
               PROVE (\E j \in DOMAIN s : u[i] = s[j]) \/ (\E j \in DOMAIN t : u[i] = t[j])
    OBVIOUS
  <2>1. CASE i <= Len(s)
    BY <1>2, <2>1
  <2>2. CASE ~(i <= Len(s))
    <3>1. i - Len(s) \in DOMAIN t /\ u[i] = t[i - Len(s)]
      BY <1>2, <2>2
    <3> QED
      BY <3>1
  <2> QED
    BY <2>1, <2>2
<1>6. ASSUME NEW x, NEW k PROVE Has(u, x, k) <=> Has(s, x, k) \/ Has(t, x, k)
  BY <1>3, <1>4, <1>5 DEF Has
<1>7. OneLine(s) /\ OneLine(t) => OneLine(u)
  BY <1>5 DEF OneLine
<1> QED
  BY <1>1, <1>2, <1>6, <1>7

\* The numbers that a reconnect declares, and their lines.
Declares(d, c) == d \in Dnts /\ (c = 1 \/ d # "sticker") /\ sd[d][c] # 0

LEMMA OneDeclared ==
  ASSUME NEW d \in {"absolute", "shop", "elemental", "sticker"}, NEW c \in {1, 2}
  PROVE  /\ Nonzero(Dnts \ {"beast"}, d, c) \in Seq(Lines)
         /\ OneLine(Nonzero(Dnts \ {"beast"}, d, c))
         /\ \A x, k : Has(Nonzero(Dnts \ {"beast"}, d, c), x, k)
                        <=> x = d /\ k = c /\ Declares(d, c)
<1>1. PICK n : n = Nonzero(Dnts \ {"beast"}, d, c)
  OBVIOUS
<1> SUFFICES /\ n \in Seq(Lines) /\ OneLine(n)
             /\ \A x, k : Has(n, x, k) <=> x = d /\ k = c /\ Declares(d, c)
  BY <1>1
<1>2. d # "beast"
  OBVIOUS
<1>3. d \in Dnts => (Line(d, c) \in {LinesOf(d)[i] : i \in DOMAIN LinesOf(d)}
                       <=> (c = 1 \/ d # "sticker"))
  <2>1. d \in Dnts => ((\E i \in DOMAIN LinesOf(d) : LinesOf(d)[i] = Line(d, c))
                         <=> (c = 1 \/ d # "sticker"))
    BY <1>2, LinesOfDnt
  <2> QED
    BY <2>1
<1>4. CASE Declares(d, c)
  <2>1. n = <<Line(d, c)>> /\ Line(d, c) \in Lines
    BY <1>1, <1>2, <1>3, <1>4 DEF Nonzero, Declares, Lines, Line
  <2>2. DOMAIN n = {1} /\ n[1] = Line(d, c) /\ n \in Seq(Lines)
    BY <2>1
  <2>3. d = "sticker" => c = 1
    BY <1>4 DEF Declares
  <2>4. OneLine(n)
    BY <1>2, <2>2, <2>3 DEF OneLine, Line
  <2>5. \A x, k : Has(n, x, k) <=> x = d /\ k = c
    BY <2>2 DEF Has, Line
  <2>6. \A x, k : Has(n, x, k) <=> x = d /\ k = c /\ Declares(d, c)
    BY <1>4, <2>5
  <2> QED
    BY <2>2, <2>4, <2>6
<1>5. CASE ~Declares(d, c)
  <2>1. n = <<>>
    BY <1>1, <1>2, <1>3, <1>5 DEF Nonzero, Declares
  <2>2. n \in Seq(Lines) /\ DOMAIN n = {}
    BY <2>1
  <2>3. OneLine(n) /\ \A x, k : ~Has(n, x, k)
    BY <2>2 DEF OneLine, Has
  <2> QED
    BY <1>5, <2>2, <2>3
<1> QED
  BY <1>4, <1>5

LEMMA BothDeclared ==
  ASSUME NEW d \in {"absolute", "shop", "elemental", "sticker"}, NEW s,
         s = Numbers(Dnts \ {"beast"}, d)
  PROVE  /\ s \in Seq(Lines) /\ OneLine(s)
         /\ \A x, k : Has(s, x, k) <=> x = d /\ k \in {1, 2} /\ Declares(x, k)
<1>1. PICK m, n : /\ m = Nonzero(Dnts \ {"beast"}, d, 1)
                  /\ n = Nonzero(Dnts \ {"beast"}, d, 2)
                  /\ s = m \o n
  BY DEF Numbers, Attack, Health
<1>2. /\ m \in Seq(Lines) /\ OneLine(m)
      /\ \A x, k : Has(m, x, k) <=> x = d /\ k = 1 /\ Declares(d, 1)
  BY <1>1, OneDeclared
<1>3. /\ n \in Seq(Lines) /\ OneLine(n)
      /\ \A x, k : Has(n, x, k) <=> x = d /\ k = 2 /\ Declares(d, 2)
  BY <1>1, OneDeclared
<1>4. /\ m \o n \in Seq(Lines) /\ OneLine(m \o n)
      /\ \A x, k : Has(m \o n, x, k) <=> Has(m, x, k) \/ Has(n, x, k)
  BY <1>2, <1>3, Concatenated
<1> QED
  BY <1>1, <1>2, <1>3, <1>4

LEMMA AllDeclared ==
  ASSUME NEW s, s = Declared(Dnts \ {"beast"})
  PROVE  /\ s \in Seq(Lines) /\ OneLine(s)
         /\ \A x, k : Has(s, x, k) <=> /\ x \in {"absolute", "shop", "elemental", "sticker"}
                                       /\ k \in {1, 2} /\ Declares(x, k)
<1>1. PICK ds : ds = Dnts \ {"beast"}
  OBVIOUS
<1>2. PICK p, q, r, t :
        /\ p = Numbers(ds, "absolute")
        /\ q = Numbers(ds, "shop")
        /\ r = Numbers(ds, "elemental")
        /\ t = Numbers(ds, "sticker")
  OBVIOUS
<1>3. s = p \o q \o r \o t
  BY <1>1, <1>2 DEF Declared
<1>4. /\ p \in Seq(Lines) /\ OneLine(p)
      /\ \A x, k : Has(p, x, k) <=> x = "absolute" /\ k \in {1, 2} /\ Declares(x, k)
  BY <1>1, <1>2, BothDeclared
<1>5. /\ q \in Seq(Lines) /\ OneLine(q)
      /\ \A x, k : Has(q, x, k) <=> x = "shop" /\ k \in {1, 2} /\ Declares(x, k)
  BY <1>1, <1>2, BothDeclared
<1>6. /\ r \in Seq(Lines) /\ OneLine(r)
      /\ \A x, k : Has(r, x, k) <=> x = "elemental" /\ k \in {1, 2} /\ Declares(x, k)
  BY <1>1, <1>2, BothDeclared
<1>7. /\ t \in Seq(Lines) /\ OneLine(t)
      /\ \A x, k : Has(t, x, k) <=> x = "sticker" /\ k \in {1, 2} /\ Declares(x, k)
  BY <1>1, <1>2, BothDeclared
<1>8. PICK u : u = p \o q
  OBVIOUS
<1>9. /\ u \in Seq(Lines) /\ OneLine(u)
      /\ \A x, k : Has(u, x, k) <=> Has(p, x, k) \/ Has(q, x, k)
  BY <1>4, <1>5, <1>8, Concatenated
<1>10. PICK w : w = u \o r
  OBVIOUS
<1>11. /\ w \in Seq(Lines) /\ OneLine(w)
       /\ \A x, k : Has(w, x, k) <=> Has(u, x, k) \/ Has(r, x, k)
  BY <1>6, <1>9, <1>10, Concatenated
<1>12. s = w \o t
  BY <1>3, <1>8, <1>10
<1>13. /\ s \in Seq(Lines) /\ OneLine(s)
       /\ \A x, k : Has(s, x, k) <=> Has(w, x, k) \/ Has(t, x, k)
  <2>1. /\ w \o t \in Seq(Lines) /\ OneLine(w \o t)
        /\ \A x, k : Has(w \o t, x, k) <=> Has(w, x, k) \/ Has(t, x, k)
    BY <1>7, <1>11, Concatenated
  <2> QED
    BY <1>12, <2>1
<1>14. ASSUME NEW x, NEW k
       PROVE  Has(s, x, k) <=> /\ x \in {"absolute", "shop", "elemental", "sticker"}
                               /\ k \in {1, 2} /\ Declares(x, k)
  <2>1. Has(s, x, k) <=> Has(p, x, k) \/ Has(q, x, k) \/ Has(r, x, k) \/ Has(t, x, k)
    BY <1>9, <1>11, <1>13
  <2>2. /\ Has(p, x, k) <=> x = "absolute" /\ k \in {1, 2} /\ Declares(x, k)
        /\ Has(q, x, k) <=> x = "shop" /\ k \in {1, 2} /\ Declares(x, k)
        /\ Has(r, x, k) <=> x = "elemental" /\ k \in {1, 2} /\ Declares(x, k)
        /\ Has(t, x, k) <=> x = "sticker" /\ k \in {1, 2} /\ Declares(x, k)
    BY <1>4, <1>5, <1>6, <1>7
  <2> QED
    BY <2>1, <2>2
<1> QED
  BY <1>13, <1>14

LEMMA ReconnectKeeps ==
  ASSUME BuffsInv, NEW best \in 0..MaxGrowth, Reconnect(best)
  PROVE  BuffsInv'
<1>1. GameTypes /\ GoldTypes /\ TrackTypes /\ TurnTypes /\ Flags
  BY Types DEF BuffsInv
<1>2. /\ Playing /\ rejoins < MaxRejoins /\ rejoins' = rejoins + 1
      /\ best \in IF "beast" \in Dnts THEN 0..sd["beast"][1] ELSE {0}
      /\ buffSourceState' = [EmptyTracker EXCEPT !["beast"] = <<best, 0>>]
      /\ shopBuffPrev' = [d \in Dnts |-> Zero] /\ shopBuffGlobal' = Zero
      /\ nomiCounter' = Zero
      /\ buffSources' = IF best = 0 THEN buffSources
                        ELSE [buffSources EXCEPT !["beast"] = <<best, 0>>]
      /\ owed' = Declared(Dnts \ {"beast"}) /\ older' = TRUE
      /\ goldNextTurnSure' = 0 /\ overconfidenceCount' = 0 /\ prevBuffSources' = prevBuffSources
      /\ forgotten' = inPlay /\ untold' = (extraGold # 0)
      /\ UNCHANGED <<turn, stage, sd, tags, extraGold, inPlay, bPhase, goldNextTurn,
                     turnGrowth, atCapture, missed>>
  BY DEF Reconnect, Attack, RestoredPrev
<1>3. /\ MaxGrowth \in Nat /\ MaxGold \in Nat /\ MaxRejoins \in Nat
      /\ Cardinality(Cards) \in Nat
  BY CardsAssumption, BoundsAssumption, FS_CardinalityType
<1>4. best \in Nat /\ best <= Carried("beast")[1]
  <2>1. best \in Nat
    BY <1>3
  <2>2. CASE "beast" \in Dnts
    <3>1. sd["beast"][1] \in Nat /\ Carried("beast") = sd["beast"]
      BY <1>1, <2>2, Pairs DEF GameTypes, Carried
    <3> QED
      BY <1>2, <2>1, <2>2, <3>1
  <2>3. CASE "beast" \notin Dnts
    <3>1. best = 0 /\ Carried("beast")[1] = 0
      BY <1>2, <2>3, Pairs DEF Carried
    <3> QED
      BY <3>1
  <2> QED
    BY <2>1, <2>2, <2>3
<1>5. PICK p : p = <<best, 0>>
  OBVIOUS
<1>6. p \in Pair /\ p[1] = best /\ p[2] = 0
  BY <1>4, <1>5, Pairs
<1>7. /\ buffSourceState' \in [Categories -> Pair]
      /\ buffSourceState'["beast"] = p
      /\ \A k \in {"absolute", "shop"} : buffSourceState'[k] = Zero
  BY <1>2, <1>5, <1>6, Pairs DEF EmptyTracker, Categories
<1>8. /\ buffSources' \in [Categories -> Pair]
      /\ \A k \in Categories : k # "beast" => buffSources'[k] = buffSources[k]
      /\ buffSources'["beast"] = p \/ best = 0
  BY <1>1, <1>2, <1>5, <1>6 DEF TrackTypes, Categories
<1>9. /\ owed' \in Seq(Lines) /\ OneLine(owed')
      /\ \A x, k : Pending(x, k)' <=> /\ x \in {"absolute", "shop", "elemental", "sticker"}
                                      /\ k \in {1, 2} /\ Declares(x, k)
  <2>1. PICK m : m = owed'
    OBVIOUS
  <2>2. /\ m \in Seq(Lines) /\ OneLine(m)
        /\ \A x, k : Has(m, x, k) <=> /\ x \in {"absolute", "shop", "elemental", "sticker"}
                                      /\ k \in {1, 2} /\ Declares(x, k)
    BY <1>2, <2>1, AllDeclared
  <2>3. \A x, k : Pending(x, k)' <=> Has(m, x, k)
    BY <2>1 DEF Pending, Has, Line
  <2> QED
    BY <2>1, <2>2, <2>3
<1>10. \A x, k : ~Pending(x, k)
  BY <1>2 DEF Playing, Pending
<1>11. /\ \A x : Carried(x)' = Carried(x)
       /\ \A x : Prev(x)' = Zero
  BY <1>2 DEF Carried, Prev, Zero
<1>12. ASSUME NEW x \in {"absolute", "shop", "elemental", "sticker"}, NEW k \in {1, 2},
              ~Pending(x, k)', k = 1 \/ x # "sticker"
       PROVE  Carried(x)[k] = 0
  <2>1. ~Declares(x, k)
    BY <1>9, <1>12
  <2>2. CASE x \in Dnts
    BY <1>12, <2>1, <2>2 DEF Declares, Carried
  <2>3. CASE x \notin Dnts
    BY <2>3, Pairs DEF Carried
  <2> QED
    BY <2>2, <2>3
<1>13. OneNumber'
  BY <1>9 DEF OneNumber, OneLine
<1>14. Read'
  <2>1. ASSUME NEW k \in {1, 2}
        PROVE  /\ ~Pending("absolute", k)' => Zero[k] = Carried("absolute")[k]
               /\ ~Pending("shop", k)' => Zero[k] = Carried("shop")[k]
               /\ ~Pending("elemental", k)' => Zero[k] = Carried("elemental")[k]
               /\ Zero[k] = Zero[k] + Zero[1]
    BY <1>12, Pairs
  <2>2. ~Pending("sticker", 1)' => Zero[1] = Carried("sticker")[1]
    BY <1>12, Pairs
  <2> QED
    BY <1>2, <1>7, <1>11, <2>1, <2>2 DEF Read
<1>15. Shown'
  <2>1. /\ buffSources["absolute"] = Carried("absolute")
        /\ buffSources["shop"] = Carried("shop")
        /\ \A k \in {1, 2} :
             buffSources["nomi"][k] = Carried("elemental")[k] + Carried("sticker")[1]
    BY <1>10 DEF BuffsInv, Shown
  <2>2. /\ buffSources'["absolute"] = buffSources["absolute"]
        /\ buffSources'["shop"] = buffSources["shop"]
        /\ buffSources'["nomi"] = buffSources["nomi"]
    BY <1>8 DEF Categories
  <2> QED
    BY <1>11, <2>1, <2>2 DEF Shown
<1>16. Beasts'
  <2>1. ~Pending("beast", 1)' /\ older'
    BY <1>2, <1>9
  <2>2. Carried("beast")[2] = 0
    BY DEF BuffsInv, Beasts
  <2>3. p[1] <= Carried("beast")[1] /\ p[2] = 0
    BY <1>4, <1>6
  <2>4. buffSources'["beast"] = p \/ p[1] = 0
    BY <1>6, <1>8
  <2> QED
    BY <1>7, <1>11, <2>1, <2>2, <2>3, <2>4 DEF Beasts
<1>17. GameTypes'
  BY <1>1, <1>2, <1>9 DEF GameTypes
<1>18. rejoins \in 0..MaxRejoins /\ rejoins' \in 0..MaxRejoins /\ rejoins' > 0
  BY <1>1, <1>2, <1>3 DEF GoldTypes
<1>19. GoldTypes'
  BY <1>1, <1>2, <1>3, <1>18 DEF GoldTypes, Gold
<1>20. TrackTypes' /\ TurnTypes' /\ Flags'
  BY <1>1, <1>2, <1>7, <1>8, Pairs DEF TrackTypes, TurnTypes, Flags
<1>21. Spells' /\ Deltas'
  BY <1>2, <1>18 DEF BuffsInv, Spells, Deltas
<1>22. Promised'
  <2>1. /\ IsFiniteSet(inPlay) /\ stage # "leaving"
        /\ goldNextTurnSure = IF untold THEN 0 ELSE extraGold
        /\ goldNextTurn.sure \in {extraGold, goldNextTurnSure}
        /\ goldNextTurn.bonus <= 3 * Cardinality(inPlay)
    BY <1>2 DEF BuffsInv, Promised, Playing
  <2>2. goldNextTurn.bonus \in Nat /\ Cardinality(inPlay \ inPlay) = 0
    <3>1. inPlay \ inPlay = {}
      OBVIOUS
    <3> QED
      BY <1>1, <3>1, FS_EmptySet DEF GoldTypes, Gold
  <2>3. goldNextTurn.sure \in {extraGold, 0}
    BY <2>1
  <2>4. goldNextTurnSure' = IF untold' THEN 0 ELSE extraGold'
    BY <1>2
  <2>5. /\ IsFiniteSet(inPlay') /\ forgotten' \subseteq inPlay'
        /\ goldNextTurn'.sure \in {extraGold', goldNextTurnSure'}
        /\ overconfidenceCount' = Cardinality(inPlay' \ forgotten') /\ stage' # "leaving"
    BY <1>2, <2>1, <2>2, <2>3
  <2>6. /\ goldNextTurn'.bonus >= 3 * Cardinality(inPlay' \ forgotten')
        /\ goldNextTurn'.bonus <= 3 * Cardinality(inPlay')
    BY <1>2, <2>1, <2>2
  <2> QED
    BY <2>4, <2>5, <2>6, Zenon DEF Promised
<1>23. (stage' = "turning" => turn' < MaxTurn) /\ (stage' = "recruit" \/ stage' = "combat")
  BY <1>2 DEF BuffsInv, Playing
<1> QED
  BY <1>13, <1>14, <1>15, <1>16, <1>17, <1>19, <1>20, <1>21, <1>22, <1>23, TypesNext
  DEF BuffsInv

LEMMA BuffsInit ==
  ASSUME Init
  PROVE  BuffsInv
<1>1. /\ MaxGold \in Nat /\ MaxTurn \in Nat \ {0} /\ MaxRejoins \in Nat
      /\ Cardinality(Cards) \in Nat
  BY CardsAssumption, BoundsAssumption, FS_CardinalityType
<1>2. /\ turn = 1 /\ stage = "recruit" /\ sd = [d \in Dnts |-> Zero] /\ tags = Zero
      /\ owed = <<>> /\ extraGold = 0 /\ inPlay = {} /\ rejoins = 0 /\ bPhase = "RECRUIT"
      /\ buffSourceState = EmptyTracker /\ shopBuffPrev = [d \in Dnts |-> Zero]
      /\ shopBuffGlobal = Zero /\ nomiCounter = Zero
      /\ goldNextTurnSure = 0 /\ overconfidenceCount = 0
      /\ buffSources = EmptyTracker /\ goldNextTurn = NoCounter
      /\ prevBuffSources = EmptyTracker /\ turnGrowth = EmptyTracker
      /\ atCapture = EmptyTracker /\ older = FALSE /\ missed = FALSE
      /\ forgotten = {} /\ untold = FALSE
  BY DEF Init
<1>3. Zero \in Pair /\ Zero[1] = 0 /\ Zero[2] = 0
  BY Pairs
<1>4. /\ EmptyTracker \in [Categories -> Pair]
      /\ \A k \in Categories : EmptyTracker[k] = Zero
  BY <1>3 DEF EmptyTracker
<1>5. \A x : Carried(x) = Zero /\ Prev(x) = Zero
  BY <1>2 DEF Carried, Prev
<1>6. \A x, k : ~Pending(x, k)
  BY <1>2 DEF Pending
<1>7. GameTypes
  BY <1>1, <1>2, <1>3 DEF GameTypes
<1>8. GoldTypes
  <2>1. /\ extraGold \in 0..MaxGold /\ rejoins \in 0..MaxRejoins
        /\ goldNextTurnSure \in 0..MaxGold /\ overconfidenceCount \in 0..Cardinality(Cards)
        /\ goldNextTurn \in Gold
    BY <1>1, <1>2 DEF NoCounter, Gold
  <2>2. inPlay \subseteq Cards /\ forgotten \subseteq Cards /\ untold \in BOOLEAN
    BY <1>2
  <2> QED
    BY <2>1, <2>2, Zenon DEF GoldTypes
<1>9. TrackTypes /\ TurnTypes /\ Flags
  BY <1>2, <1>3, <1>4 DEF TrackTypes, TurnTypes, Flags
<1>10. OneNumber
  BY <1>2 DEF OneNumber
<1>11. Read
  BY <1>2, <1>3, <1>4, <1>5 DEF Read, Categories
<1>12. Shown
  BY <1>2, <1>3, <1>4, <1>5 DEF Shown, Categories
<1>13. Beasts
  BY <1>2, <1>3, <1>4, <1>5, <1>6 DEF Beasts, Categories
<1>14. Spells
  BY <1>2, <1>4 DEF Spells, Categories
<1>15. Deltas
  BY <1>2 DEF Deltas
<1>16. Promised
  <2>1. inPlay \ forgotten = {}
    BY <1>2
  <2> QED
    BY <1>2, <2>1, FS_EmptySet DEF Promised, NoCounter
<1> QED
  BY <1>2, <1>7, <1>8, <1>9, <1>10, <1>11, <1>12, <1>13, <1>14, <1>15, <1>16, Types
  DEF BuffsInv

LEMMA BuffsNext ==
  ASSUME BuffsInv, [Next]_vars
  PROVE  BuffsInv'
<1>1. CASE UNCHANGED vars
  <2>1. LinesInv' /\ TrackTypes'
    BY <1>1, KeptTracks DEF vars, clientVars
  <2>2. GameTypes' /\ GoldTypes' /\ TurnTypes' /\ Flags'
    BY <1>1, Types
    DEF BuffsInv, vars, clientVars, turnVars, goldVars, GameTypes, GoldTypes,
        TurnTypes, Flags, Gold
  <2>3. Spells' /\ Deltas'
    BY <1>1 DEF BuffsInv, Spells, Deltas, vars, clientVars, turnVars, buffVars
  <2>4. Promised'
    BY <1>1, KeptPromised DEF BuffsInv, vars, clientVars
  <2>5. /\ stage' = "turning" => turn' < MaxTurn
        /\ stage' = "recruit" \/ stage' = "combat" \/ owed' = <<>>
    BY <1>1 DEF BuffsInv, vars, clientVars
  <2> QED
    BY <2>1, <2>2, <2>3, <2>4, <2>5, TypesNext DEF BuffsInv, LinesInv
<1>2. ASSUME NEW d \in Dnts, NEW step \in Steps(d), Grow(d, step) PROVE BuffsInv'
  BY <1>2, GrowKeeps
<1>3. CASE DntLine
  BY <1>3, DntLineKeeps
<1>4. ASSUME NEW v \in 1..MaxGrowth, ReplayLine(v) PROVE BuffsInv'
  BY <1>4, ReplayLineKeeps
<1>5. ASSUME NEW c \in {1, 2}, TagLine(c) \/ TagZeroed(c) PROVE BuffsInv'
  BY <1>5, TagLineKeeps, TagZeroedKeeps
<1>6. ASSUME NEW n \in 0..MaxGold, GoldLine(n) PROVE BuffsInv'
  BY <1>6, GoldLineKeeps
<1>7. ASSUME NEW card \in Cards, PlayOverconfidence(card) \/ Leave(card) PROVE BuffsInv'
  BY <1>7, PlayOverconfidenceKeeps, LeaveKeeps
<1>8. CASE StartCombat \/ EndCombat \/ PlayerTurn
  BY <1>8, StartCombatKeeps, EndCombatKeeps, PlayerTurnKeeps
<1>9. ASSUME NEW best \in 0..MaxGrowth, Reconnect(best) PROVE BuffsInv'
  BY <1>9, ReconnectKeeps
<1> QED
  BY <1>1, <1>2, <1>3, <1>4, <1>5, <1>6, <1>7, <1>8, <1>9, Sums DEF Next

\* What the invariant says of what is shown.
LEMMA BuffsInvShows ==
  ASSUME BuffsInv
  PROVE  BuffsShown /\ TagsShown /\ DeltasAddUp /\ GoldExact
<1>1. TrackTypes /\ GameTypes
  BY Types DEF BuffsInv
<1>2. BuffsShown
  <2> SUFFICES ASSUME owed = <<>>, NEW k \in {"absolute", "shop", "nomi", "beast"}
               PROVE  buffSources[k] = Total[k] \/ (k = "beast" /\ older)
    BY DEF BuffsShown, Categories
  <2>1. \A x, c : ~Pending(x, c)
    BY DEF Pending
  <2>2. CASE k = "absolute" \/ k = "shop"
    BY <2>1, <2>2 DEF BuffsInv, Shown, Total
  <2>3. CASE k = "nomi"
    <3>1. PICK e, s, n : /\ e = Carried("elemental") /\ s = Carried("sticker")[1]
                         /\ n = buffSources["nomi"]
      OBVIOUS
    <3>2. e \in Pair /\ s \in Nat /\ n \in Pair /\ \A c \in {1, 2} : n[c] = e[c] + s
      BY <1>1, <2>1, <3>1, CarriedType, Pairs DEF BuffsInv, Shown, TrackTypes, Categories
    <3>3. Total["nomi"] = Plus(e, <<s, s>>)
      BY <3>1 DEF Total, Attack
    <3>4. <<s, s>> \in Pair /\ <<s, s>>[1] = s /\ <<s, s>>[2] = s
      BY <3>2, Pairs
    <3>5. /\ Plus(e, <<s, s>>) \in Pair
          /\ \A c \in {1, 2} : Plus(e, <<s, s>>)[c] = n[c]
      BY <3>2, <3>4, Sums
    <3>6. n = Plus(e, <<s, s>>)
      BY <3>2, <3>5, Pairs
    <3> QED
      BY <2>3, <3>1, <3>3, <3>6
  <2>4. CASE k = "beast"
    <3>1. PICK s, b : s = buffSourceState["beast"] /\ b = Carried("beast")
      OBVIOUS
    <3>2. s \in Pair /\ b \in Pair /\ Total["beast"] = b
      BY <1>1, <3>1, CarriedType DEF TrackTypes, Categories, Total
    <3>3. ~older => s[1] = b[1] /\ s[2] = b[2] /\ buffSources["beast"] = s
      BY <2>1, <3>1 DEF BuffsInv, Beasts
    <3>4. ~older => buffSources["beast"] = b
      BY <3>2, <3>3, Pairs
    <3> QED
      BY <2>4, <3>2, <3>4
  <2> QED
    BY <2>2, <2>3, <2>4
<1>3. TagsShown
  BY DEF BuffsInv, Spells, TagsShown
<1>4. DeltasAddUp
  BY DEF BuffsInv, Deltas, DeltasAddUp
<1>5. GoldExact
  BY DEF BuffsInv, Promised, GoldExact
<1> QED
  BY <1>2, <1>3, <1>4, <1>5

-----------------------------------------------------------------------------
(* The theorems *)

\* The inductive invariant of the buffs holds of every state of the processor.
THEOREM BuffsInvariant ==
  Spec => []BuffsInv
<1>1. Init => BuffsInv
  BY BuffsInit
<1>2. BuffsInv /\ [Next]_vars => BuffsInv'
  BY BuffsNext
<1> QED
  BY <1>1, <1>2, PTL DEF Spec

\* The trackers, the buffs shown and the counter of gold keep their types, whatever
\* the lines of the log (buffTracker, updateGoldNextTurnCounter).
THEOREM BuffsTypeCorrect ==
  Spec => []TypeOK
<1>1. BuffsInv => TypeOK
  BY DEF BuffsInv
<1> QED
  BY <1>1, BuffsInvariant, PTL

\* Once the lines of a change are read, every buff shown is what its sources carry,
\* old values replayed in combats and totals told again by reconnects included
\* (handleGenericShopBuffDnt, handleShopBuffDnt, handleMaxDnt).
THEOREM BuffsShownHolds ==
  Spec => []BuffsShown
<1>1. BuffsInv => BuffsShown
  BY BuffsInvShows
<1> QED
  BY <1>1, BuffsInvariant, PTL

\* The buff of the spells is the player's tags, whatever a combat zeroes
\* (OnPlayerTagChanged, buildTagChange).
THEOREM TagsShownHolds ==
  Spec => []TagsShown
<1>1. BuffsInv => TagsShown
  BY BuffsInvShows
<1> QED
  BY <1>1, BuffsInvariant, PTL

\* The growth the turns of a game report adds up to what was shown at the end of
\* the last one (captureTurnSnapshot).
THEOREM DeltasAddUpHolds ==
  Spec => []DeltasAddUp
<1>1. BuffsInv => DeltasAddUp
  BY BuffsInvShows
<1> QED
  BY <1>1, BuffsInvariant, PTL

\* While the player can act, the gold promised for the next turn is the tag and
\* three for each Overconfidence in play, but for what a reconnect makes of it: the
\* cards in play then may be missing in the bonus while they stay, and the tag may
\* be shown as 0 until it changes (handleOverconfidenceZone, resetProcessorState).
THEOREM GoldExactHolds ==
  Spec => []GoldExact
<1>1. BuffsInv => GoldExact
  BY BuffsInvShows
<1> QED
  BY <1>1, BuffsInvariant, PTL

-----------------------------------------------------------------------------
(* The inductive invariant of Duos *)

\* The numbers the split is made of.
SplitTypes ==
  /\ team \in Nat /\ growth \in [Partners -> Nat]
  /\ spells \in [Partners -> Nat] /\ spellsCast \in Nat
  /\ partnerPlayerID \in {"mate", "none"}
  /\ isDuos \in BOOLEAN /\ unsplit \in BOOLEAN

\* The processor takes a part of the combat for the partner's just when it is.
PartsKnown ==
  /\ part \in {"recruit", "own"} => ~partnerCombatActive
  /\ part \in {"mate", "clash"} /\ isDuos => partnerCombatActive

\* The shares are those of the growth, and the total is the one last logged.
Shares ==
  ~unsplit => /\ team = growth["own"] + growth["mate"]
              /\ dntTeamTotal = team
              /\ dntPartnerAccum = growth["mate"]
              /\ partnerBuff = growth["mate"] /\ buff = Base + growth["own"]

\* A teammate that was told is on record as that, which no backup path undoes.
Told ==
  naming = "told" => isDuos /\ duosMode /\ duosFromTeammate /\ partnerPlayerID = "mate"

DuosInv == SplitTypes /\ PartsKnown /\ Shares /\ Told /\ OwnSpellsKept

LEMMA DuosBegins ==
  ASSUME DuosInit
  PROVE  DuosInv
<1>1. SplitTypes
  BY DEF DuosInit, SplitTypes, NoOne
<1>2. PartsKnown /\ Told
  BY DEF DuosInit, PartsKnown, Told
<1>3. Shares
  BY DuosAssumption DEF DuosInit, Shares, Partners
<1>4. OwnSpellsKept
  BY DEF DuosInit, OwnSpellsKept, Partners
<1> QED
  BY <1>1, <1>2, <1>3, <1>4 DEF DuosInv

\* What neither moves a count nor tells a part of the combat from another.
CountsKept == UNCHANGED <<team, growth, spells, spellsCast, unsplit>>
SplitKept  == UNCHANGED <<splitVars, buff, partnerBuff>>

LEMMA CountsFrame ==
  ASSUME DuosInv, CountsKept, SplitKept
  PROVE  Shares' /\ OwnSpellsKept'
BY DEF DuosInv, CountsKept, SplitKept, Shares, OwnSpellsKept, splitVars

LEMMA TeammateKeeps ==
  ASSUME DuosInv, Teammate
  PROVE  DuosInv'
<1>1. CountsKept /\ SplitKept
  BY DEF Teammate, CountsKept, SplitKept, ghostVars
<1>2. SplitTypes' /\ PartsKnown' /\ Told'
  BY DEF Teammate, OnDuosTeammate, combatVars, ghostVars, DuosInv, SplitTypes, PartsKnown, Told
<1> QED
  BY <1>1, <1>2, CountsFrame DEF DuosInv

LEMMA PassableKeeps ==
  ASSUME DuosInv, Passable
  PROVE  DuosInv'
<1>1. CountsKept /\ SplitKept
  BY DEF Passable, CountsKept, SplitKept, ghostVars, duosClientVars
<1>2. isDuos' \in BOOLEAN
  BY DEF Passable, OnDuosPassableChanged
<1>3. SplitTypes'
  BY <1>2 DEF Passable, OnDuosPassableChanged, ghostVars, duosClientVars, DuosInv, SplitTypes
<1>4. PartsKnown'
  BY DEF Passable, duosClientVars, combatVars, DuosInv, PartsKnown
<1>5. Told'
  BY DEF Passable, OnDuosPassableChanged, duosClientVars, DuosInv, Told
<1> QED
  BY <1>1, <1>3, <1>4, <1>5, CountsFrame DEF DuosInv

LEMMA CastSpellKeeps ==
  ASSUME DuosInv, NEW p \in Partners, CastSpell(p)
  PROVE  DuosInv'
<1>1. PICK n : n = spells[p] + 1
  OBVIOUS
<1>2. /\ p \in {"own", "mate"} /\ spells["own"] \in Nat /\ spells["mate"] \in Nat
      /\ n \in Nat /\ spellsCast \in Nat /\ spellsCast >= spells["own"]
  BY <1>1 DEF Partners, DuosInv, SplitTypes, OwnSpellsKept
<1>3. /\ spells' = [spells EXCEPT ![p] = n]
      /\ spellsCast' = IF p = "own" \/ swapped THEN SpellsCounted(n) ELSE spellsCast
      /\ UNCHANGED <<naming, part, order, team, duosVars, combatVars, splitVars,
                     duosMode, buff, partnerBuff, ghostVars>>
  BY <1>1 DEF CastSpell, DuosInv, SplitTypes, Partners
<1>4. SpellsCounted(n) \in Nat /\ SpellsCounted(n) >= n /\ SpellsCounted(n) >= spellsCast
  BY <1>2 DEF SpellsCounted, Larger
<1>5. OwnSpellsKept'
  <2>1. CASE p = "own"
    BY <1>2, <1>3, <1>4, <2>1 DEF OwnSpellsKept, DuosInv, SplitTypes, Partners
  <2>2. CASE p = "mate"
    <3>1. spells'["own"] = spells["own"]
      BY <1>3, <2>2 DEF DuosInv, SplitTypes, Partners
    <3>2. spellsCast' >= spellsCast /\ spellsCast' \in Nat
      BY <1>2, <1>3, <1>4
    <3> QED
      BY <1>2, <3>1, <3>2 DEF OwnSpellsKept
  <2> QED
    BY <1>2, <2>1, <2>2
<1>6. SplitTypes'
  BY <1>2, <1>3, <1>4 DEF DuosInv, SplitTypes, duosVars, ghostVars
<1>7. PartsKnown' /\ Shares' /\ Told'
  BY <1>3 DEF DuosInv, PartsKnown, Shares, Told, combatVars, duosVars, splitVars, ghostVars
<1> QED
  BY <1>5, <1>6, <1>7 DEF DuosInv

\* A growth is the partner's when the processor thinks so, and it thinks so rightly.
LEMMA DuosGrowKeeps ==
  ASSUME DuosInv, NEW p \in Partners, GrowTeam(p)
  PROVE  DuosInv'
<1>1. PICK n : n = team + 1
  OBVIOUS
<1>2. PICK o, m : o = growth["own"] /\ m = growth["mate"]
  OBVIOUS
<1>3. /\ p \in {"own", "mate"} /\ team \in Nat /\ n \in Nat /\ o \in Nat /\ m \in Nat /\ Base \in Nat
  BY <1>1, <1>2, DuosAssumption DEF Partners, DuosInv, SplitTypes
<1>4. /\ team' = n /\ HandleDnt(n)
      /\ growth' = [growth EXCEPT ![p] = growth[p] + 1]
      /\ unsplit' = (unsplit \/ ~isDuos)
      /\ IF p = "own" THEN part \in {"recruit", "own"} ELSE part = "clash"
      /\ UNCHANGED <<naming, part, order, spells, duosVars, combatVars, duosMode, spellsCast>>
  BY <1>1 DEF GrowTeam
<1>5. /\ growth' \in [Partners -> Nat]
      /\ growth'["own"] = IF p = "own" THEN o + 1 ELSE o
      /\ growth'["mate"] = IF p = "mate" THEN m + 1 ELSE m
  BY <1>2, <1>3, <1>4 DEF DuosInv, SplitTypes, Partners
<1>6. unsplit' \in BOOLEAN
  BY <1>4
<1>7. SplitTypes'
  BY <1>3, <1>4, <1>5, <1>6 DEF DuosInv, SplitTypes, duosVars
<1>8. Shares'
  <2> SUFFICES ASSUME ~unsplit' PROVE Shares'
    BY DEF Shares
  <2>1. isDuos /\ ~unsplit
    BY <1>4 DEF DuosInv, SplitTypes
  <2>2. /\ team = o + m /\ dntTeamTotal = team /\ dntPartnerAccum = m
        /\ partnerBuff = m /\ buff = Base + o
    BY <1>2, <2>1 DEF DuosInv, Shares
  <2>3. Larger(n - dntTeamTotal, 0) = 1
    BY <1>1, <1>3, <2>2 DEF Larger
  <2>4. /\ dntTeamTotal' = n
        /\ dntPartnerAccum' = m + (IF partnerCombatActive THEN 1 ELSE 0)
        /\ buff' = Base + n - dntPartnerAccum'
        /\ partnerBuff' = IF dntPartnerAccum' > 0 THEN dntPartnerAccum' ELSE m
    BY <1>4, <2>1, <2>2, <2>3 DEF HandleDnt, HandleDntDuos
  <2>5. CASE p = "own"
    <3>1. ~partnerCombatActive
      BY <1>4, <2>5 DEF DuosInv, PartsKnown
    <3>2. /\ dntPartnerAccum' = m /\ partnerBuff' = m /\ buff' = Base + (o + 1)
          /\ n = (o + 1) + m
      BY <1>1, <1>3, <2>2, <2>4, <3>1
    <3> QED
      BY <1>4, <1>5, <2>4, <2>5, <3>2 DEF Shares
  <2>6. CASE p = "mate"
    <3>1. partnerCombatActive
      BY <1>4, <2>1, <2>6 DEF DuosInv, PartsKnown
    <3>2. /\ dntPartnerAccum' = m + 1 /\ partnerBuff' = m + 1 /\ buff' = Base + o
          /\ n = o + (m + 1)
      BY <1>1, <1>3, <2>2, <2>4, <3>1
    <3> QED
      BY <1>4, <1>5, <2>4, <2>6, <3>2 DEF Shares
  <2> QED
    BY <1>3, <2>5, <2>6
<1>9. PartsKnown' /\ Told' /\ OwnSpellsKept'
  BY <1>4 DEF DuosInv, PartsKnown, Told, OwnSpellsKept, combatVars, duosVars
<1> QED
  BY <1>7, <1>8, <1>9 DEF DuosInv

\* The flag tells the partner's part from the player's.
LEMMA FlagKeeps ==
  ASSUME DuosInv, NEW p \in Partners, Flag(p)
  PROVE  DuosInv'
<1>1. CountsKept /\ SplitKept
  BY DEF Flag, CountsKept, SplitKept, ghostVars
<1>2. /\ part' = p /\ p \in {"own", "mate"}
      /\ partnerPlayerID' = IF p = "mate" /\ isDuos THEN "mate" ELSE partnerPlayerID
      /\ partnerCombatActive' = (p # "none" /\ p = partnerPlayerID')
      /\ UNCHANGED <<naming, isDuos, duosFromTeammate, duosMode>>
  BY DEF Flag, OnCombatPlayerChanged, ResolvePartner, NoOne, Partners
<1>3. partnerPlayerID' \in {"mate", "none"}
  BY <1>2 DEF DuosInv, SplitTypes
<1>4. SplitTypes'
  BY <1>1, <1>2, <1>3 DEF DuosInv, SplitTypes, CountsKept
<1>5. PartsKnown'
  BY <1>2, <1>3 DEF PartsKnown
<1>6. Told'
  BY <1>2 DEF DuosInv, Told
<1> QED
  BY <1>1, <1>4, <1>5, <1>6, CountsFrame DEF DuosInv

LEMMA SwapInKeeps ==
  ASSUME DuosInv, SwapIn
  PROVE  DuosInv'
<1>1. /\ UNCHANGED <<naming, team, spells, isDuos, duosFromTeammate, partnerPlayerID, splitVars,
                     duosMode, buff, partnerBuff, growth, unsplit, partnerCombatActive>>
      /\ (part = "own" /\ part' = "lead") \/ (part = "mate" /\ part' = "mate")
      /\ spellsCast' = SpellsCounted(spells["mate"])
  BY DEF SwapIn, HandleEntityUpdate, duosVars, ghostVars
<1>2. /\ spells["own"] \in Nat /\ spells["mate"] \in Nat
      /\ spellsCast \in Nat /\ spellsCast >= spells["own"]
  BY DEF Partners, DuosInv, SplitTypes, OwnSpellsKept
<1>3. spellsCast' \in Nat /\ spellsCast' >= spellsCast
  BY <1>1, <1>2 DEF SpellsCounted, Larger
<1>4. OwnSpellsKept'
  BY <1>1, <1>2, <1>3 DEF OwnSpellsKept
<1>5. SplitTypes'
  BY <1>1, <1>3 DEF DuosInv, SplitTypes
<1>6. PartsKnown' /\ Told' /\ Shares'
  BY <1>1 DEF DuosInv, PartsKnown, Told, Shares, splitVars
<1> QED
  BY <1>4, <1>5, <1>6 DEF DuosInv

LEMMA SwapOutKeeps ==
  ASSUME DuosInv, SwapOut
  PROVE  DuosInv'
<1>1. /\ UNCHANGED <<naming, team, spells, duosVars, splitVars, combatVars,
                     duosMode, buff, partnerBuff, ghostVars>>
      /\ part' = "idle" /\ spellsCast' = SpellsCounted(spells["own"])
  BY DEF SwapOut
<1>2. spells["own"] \in Nat /\ spellsCast \in Nat /\ spellsCast >= spells["own"]
  BY DEF Partners, DuosInv, SplitTypes, OwnSpellsKept
<1>3. spellsCast' \in Nat /\ spellsCast' >= spells["own"]
  BY <1>1, <1>2 DEF SpellsCounted, Larger
<1>4. OwnSpellsKept'
  BY <1>1, <1>3 DEF OwnSpellsKept
<1>5. SplitTypes'
  BY <1>1, <1>3 DEF DuosInv, SplitTypes, duosVars, ghostVars
<1>6. PartsKnown' /\ Told' /\ Shares'
  BY <1>1 DEF DuosInv, PartsKnown, Told, Shares, splitVars, duosVars, ghostVars
<1> QED
  BY <1>4, <1>5, <1>6 DEF DuosInv

\* Steps that leave alone who the partner is, the counts and the split.
Uninvolved ==
  /\ CountsKept /\ SplitKept
  /\ UNCHANGED <<naming, isDuos, duosFromTeammate, partnerPlayerID, duosMode,
                 partnerCombatActive>>

LEMMA UninvolvedKeeps ==
  ASSUME DuosInv, Uninvolved,
         UNCHANGED part \/ part' \in {"idle", "after", "over"}
           \/ (part = "mate" /\ part' = "clash")
  PROVE  DuosInv'
<1>1. SplitTypes' /\ Told'
  BY DEF DuosInv, SplitTypes, Told, Uninvolved, CountsKept
<1>2. PartsKnown'
  BY DEF DuosInv, PartsKnown, Uninvolved
<1> QED
  BY <1>1, <1>2, CountsFrame DEF DuosInv, Uninvolved

LEMMA LinesKeep ==
  ASSUME DuosInv,
         \/ BeginCombat \/ MateMinion \/ FoeMinion \/ Token \/ MateAttack \/ TurnOdd
         \/ \E e \in Standing({"token", "mate", "foe"}) : Raise(e) \/ Die(e)
  PROVE  DuosInv'
<1>1. CASE BeginCombat
  <2>1. Uninvolved /\ part' = "idle"
    BY <1>1 DEF BeginCombat, Uninvolved, CountsKept, SplitKept, ghostVars, duosVars, combatVars
  <2> QED
    BY <2>1, UninvolvedKeeps
<1>2. ASSUME NEW k, NEW v, Summoned(k, v) PROVE DuosInv'
  <2>1. Uninvolved /\ UNCHANGED part
    BY <1>2 DEF Summoned, HandleEntityUpdate, Uninvolved, CountsKept, SplitKept,
                ghostVars, duosVars, machineVars
  <2> QED
    BY <2>1, UninvolvedKeeps
<1>3. CASE MateMinion \/ FoeMinion \/ Token
  BY <1>2, <1>3 DEF MateMinion, FoeMinion, Token
<1>4. CASE MateAttack
  <2>1. Uninvolved /\ part = "mate" /\ part' = "clash"
    BY <1>4 DEF MateAttack, Uninvolved, CountsKept, SplitKept, duosVars, machineVars
  <2> QED
    BY <2>1, UninvolvedKeeps
<1>5. CASE TurnOdd
  <2>1. Uninvolved /\ part' = "after"
    BY <1>5 DEF TurnOdd, Uninvolved, CountsKept, SplitKept, ghostVars, duosVars,
                combatVars, machineVars
  <2> QED
    BY <2>1, UninvolvedKeeps
<1>6. ASSUME NEW e, Raise(e) \/ Die(e) PROVE DuosInv'
  <2>1. Uninvolved /\ UNCHANGED part
    BY <1>6 DEF Raise, Die, Uninvolved, CountsKept, SplitKept, ghostVars, duosVars,
                combatVars, machineVars
  <2> QED
    BY <2>1, UninvolvedKeeps
<1> QED
  BY <1>1, <1>3, <1>4, <1>5, <1>6

LEMMA FlagZeroKeeps ==
  ASSUME DuosInv, FlagZero
  PROVE  DuosInv'
<1>1. /\ UNCHANGED <<naming, team, spells, isDuos, duosFromTeammate, splitVars, duosMode,
                     buff, partnerBuff, spellsCast, ghostVars, partnerPlayerID>>
      /\ part' = "recruit" /\ ~partnerCombatActive'
  BY DEF FlagZero, OnCombatPlayerChanged, ResolvePartner, NoOne
<1> QED
  BY <1>1 DEF DuosInv, SplitTypes, PartsKnown, Told, Shares, OwnSpellsKept, splitVars, ghostVars

LEMMA EndGameKeeps ==
  ASSUME DuosInv, EndGame
  PROVE  DuosInv'
<1>1. CountsKept /\ SplitKept
  BY DEF EndGame, CountsKept, SplitKept, ghostVars
<1>2. /\ part' = "over" /\ UNCHANGED <<naming, duosFromTeammate, partnerPlayerID>>
      /\ isDuos' = (isDuos /\ ~(isDuos /\ ~duosFromTeammate))
      /\ duosMode' = (duosMode /\ ~(isDuos /\ ~duosFromTeammate))
  BY DEF EndGame, OnDuosPunishLeaversChanged
<1>3. isDuos' \in BOOLEAN
  BY <1>2
<1>4. SplitTypes' /\ PartsKnown'
  BY <1>1, <1>2, <1>3 DEF DuosInv, SplitTypes, PartsKnown, CountsKept
<1>5. Told'
  BY <1>2 DEF DuosInv, Told
<1> QED
  BY <1>1, <1>4, <1>5, CountsFrame DEF DuosInv

\* A reconnect loses the split, and knows a total of zero exactly.
LEMMA DuosReconnectKeeps ==
  ASSUME DuosInv, Rejoin
  PROVE  DuosInv'
<1>1. /\ part = "recruit" /\ ~partnerCombatActive'
      /\ dntTeamTotal' = (IF isDuos THEN team ELSE 0) /\ dntPartnerAccum' = 0
      /\ buff' = IF team > 0 THEN Base + team ELSE buff
      /\ unsplit' = (unsplit \/ team > 0)
      /\ UNCHANGED <<duosClientVars, duosVars, duosMode, partnerBuff, spellsCast, growth>>
  BY DEF Rejoin
<1>2. team \in Nat /\ growth["own"] \in Nat /\ growth["mate"] \in Nat
  BY DEF DuosInv, SplitTypes, Partners
<1>3. Shares'
  <2> SUFFICES ASSUME ~unsplit' PROVE Shares'
    BY DEF Shares
  <2>1. ~unsplit /\ team = 0
    <3>1. ~unsplit /\ ~(team > 0)
      BY <1>1
    <3> QED
      BY <1>2, <3>1
  <2>2. /\ growth["own"] = 0 /\ growth["mate"] = 0 /\ partnerBuff = 0 /\ buff = Base + 0
    BY <1>2, <2>1 DEF DuosInv, Shares
  <2> QED
    BY <1>1, <2>1, <2>2 DEF Shares, duosClientVars
<1>4. unsplit' \in BOOLEAN
  BY <1>1
<1>5. SplitTypes' /\ PartsKnown' /\ Told' /\ OwnSpellsKept'
  BY <1>1, <1>4
  DEF DuosInv, SplitTypes, PartsKnown, Told, OwnSpellsKept, duosClientVars, duosVars
<1> QED
  BY <1>3, <1>5 DEF DuosInv

LEMMA DuosStep ==
  ASSUME DuosInv, [DuosNext]_allVars
  PROVE  DuosInv'
<1>1. CASE UNCHANGED allVars
  <2>1. Uninvolved /\ UNCHANGED part
    BY <1>1 DEF allVars, Uninvolved, CountsKept, SplitKept, duosClientVars, ghostVars, duosVars,
                combatVars, machineVars
  <2> QED
    BY <2>1, UninvolvedKeeps
<1>2. ASSUME NEW p \in Partners, CastSpell(p) \/ GrowTeam(p) \/ Flag(p) PROVE DuosInv'
  BY <1>2, CastSpellKeeps, DuosGrowKeeps, FlagKeeps
<1> QED
  BY <1>1, <1>2, TeammateKeeps, PassableKeeps, SwapInKeeps, SwapOutKeeps, LinesKeep, FlagZeroKeeps,
     EndGameKeeps, DuosReconnectKeeps
  DEF DuosNext

-----------------------------------------------------------------------------
(* The theorems about Duos *)

LEMMA DuosInvariant ==
  DuosSpec => []DuosInv
<1>1. DuosInit => DuosInv
  BY DuosBegins
<1>2. DuosInv /\ [DuosNext]_allVars => DuosInv'
  BY DuosStep
<1> QED
  BY <1>1, <1>2, PTL DEF DuosSpec

\* The total of the team's buff is split by the part of the combat it grew in,
\* whichever partner fights first (handleAbsoluteDntDuos, OnCombatPlayerChanged).
THEOREM SplitExactHolds ==
  DuosSpec => []SplitExact
<1>1. DuosInv => SplitExact
  BY DEF DuosInv, Shares, SplitExact
<1> QED
  BY <1>1, DuosInvariant, PTL

\* The partner's counters, swapped in for a fight, never take away a spell the
\* local player cast (OnSpellcraftChanged).
THEOREM OwnSpellsKeptHolds ==
  DuosSpec => []OwnSpellsKept
<1>1. DuosInv => OwnSpellsKept
  BY DEF DuosInv
<1> QED
  BY <1>1, DuosInvariant, PTL

\* A game whose log told the teammate is a duos game with a known partner to its
\* end (OnDuosTeammate, OnDuosPunishLeaversChanged).
THEOREM TeammateIsFinalHolds ==
  DuosSpec => []TeammateIsFinal
<1>1. DuosInv => TeammateIsFinal
  BY DEF DuosInv, Told, TeammateIsFinal
<1> QED
  BY <1>1, DuosInvariant, PTL

-----------------------------------------------------------------------------
(* Duos: sorting *)

\* How many of a set come before an index.
BeforeOf(S, key, i) == {j \in S : Before(key, j, i)}
Rank(S, key, i) == Cardinality(BeforeOf(S, key, i))

\* The order is total, and an index has fewer before it than the next.
LEMMA RanksDiffer ==
  ASSUME NEW S, IsFiniteSet(S), S \subseteq Nat, NEW key \in [S -> Nat]
  PROVE  /\ Cardinality(S) \in Nat
         /\ \A i, j \in S : i # j => Before(key, i, j) \/ Before(key, j, i)
         /\ \A i \in S : Rank(S, key, i) \in 0..(Cardinality(S) - 1)
         /\ \A i, j \in S : Before(key, i, j) => Rank(S, key, i) < Rank(S, key, j)
<1>1. Cardinality(S) \in Nat
  BY FS_CardinalityType
<1>2. /\ \A i \in S : ~Before(key, i, i)
      /\ \A i, j \in S : i # j => Before(key, i, j) \/ Before(key, j, i)
      /\ \A i, j, k \in S : Before(key, i, j) /\ Before(key, j, k) => Before(key, i, k)
  <2>1. \A i \in S : i \in Nat /\ key[i] \in Nat
    OBVIOUS
  <2> QED
    BY <2>1 DEF Before
<1>3. ASSUME NEW i \in S
      PROVE  IsFiniteSet(BeforeOf(S, key, i)) /\ Rank(S, key, i) \in 0..(Cardinality(S) - 1)
  <2> DEFINE B == BeforeOf(S, key, i)
             T == S \ {i}
  <2>1. B \in SUBSET T
    BY <1>2 DEF BeforeOf
  <2>2. IsFiniteSet(T) /\ Cardinality(T) = Cardinality(S) - 1
    BY <1>3, FS_RemoveElement
  <2> HIDE DEF B, T
  <2>3. IsFiniteSet(B) /\ Cardinality(B) <= Cardinality(T)
    BY <2>1, <2>2, FS_Subset, Zenon
  <2>4. Cardinality(B) \in Nat
    BY <2>3, FS_CardinalityType, Zenon
  <2>5. Cardinality(B) \in 0..(Cardinality(S) - 1)
    BY <1>1, <2>2, <2>3, <2>4
  <2> QED
    BY <2>3, <2>5, Zenon DEF B, Rank
<1>4. ASSUME NEW i \in S, NEW j \in S, Before(key, i, j)
      PROVE  Rank(S, key, i) < Rank(S, key, j)
  <2> DEFINE A == BeforeOf(S, key, i)
             B == BeforeOf(S, key, j)
  <2>1. A \cup {i} \in SUBSET B /\ i \notin A
    BY <1>2, <1>4 DEF BeforeOf
  <2>2. IsFiniteSet(A) /\ IsFiniteSet(B)
    BY <1>3
  <2> HIDE DEF A, B
  <2>3. Cardinality(A \cup {i}) = Cardinality(A) + 1
    BY <2>1, <2>2, FS_AddElement, Zenon
  <2>4. Cardinality(A \cup {i}) <= Cardinality(B)
    BY <2>1, <2>2, FS_Subset, Zenon
  <2>5. Cardinality(A) \in Nat /\ Cardinality(B) \in Nat
    BY <2>2, FS_CardinalityType, Zenon
  <2>6. Cardinality(A) < Cardinality(B)
    BY <2>3, <2>4, <2>5
  <2> QED
    BY <2>6, Zenon DEF A, B, Rank
<1> QED
  BY <1>1, <1>2, <1>3, <1>4, Zenon

\* Every number below the size of the set is the rank of one index.
LEMMA RanksTaken ==
  ASSUME NEW S, IsFiniteSet(S), S \subseteq Nat, NEW key \in [S -> Nat],
         NEW k \in 1..Cardinality(S)
  PROVE  \E i \in S : Rank(S, key, i) = k - 1
<1> DEFINE c == Cardinality(S)
           R == 0..(c - 1)
           f == [i \in S |-> Rank(S, key, i)]
<1>1. /\ c \in Nat
      /\ \A i, j \in S : i # j => Before(key, i, j) \/ Before(key, j, i)
      /\ \A i \in S : Rank(S, key, i) \in R
      /\ \A i, j \in S : Before(key, i, j) => Rank(S, key, i) < Rank(S, key, j)
  BY RanksDiffer
<1>2. IsFiniteSet(R) /\ Cardinality(R) = c
  <2>1. 0 \in Int /\ c - 1 \in Int /\ c \in Nat
    BY <1>1
  <2>2. IsFiniteSet(R) /\ Cardinality(R) = IF 0 > c - 1 THEN 0 ELSE (c - 1) - 0 + 1
    BY <2>1, FS_Interval
  <2> QED
    BY <2>1, <2>2
<1> HIDE DEF c, R
<1>3. f \in Injection(S, R)
  <2>1. f \in [S -> R]
    BY <1>1
  <2>2. ASSUME NEW i \in S, NEW j \in S, i # j PROVE Rank(S, key, i) # Rank(S, key, j)
    <3>1. Rank(S, key, i) \in Int /\ Rank(S, key, j) \in Int
      BY <1>1 DEF R
    <3> QED
      BY <1>1, <2>2, <3>1
  <2> QED
    BY <2>1, <2>2 DEF Injection, IsInjective
<1>4. f \in Surjection(S, R)
  BY <1>2, <1>3, FS_Injection, Zenon DEF c
<1>5. k - 1 \in R
  BY <1>1 DEF c, R
<1> QED
  BY <1>4, <1>5 DEF Surjection

\* Sorting a set lists each index once, in the order.
LEMMA SortedLists ==
  ASSUME NEW S, IsFiniteSet(S), S \subseteq Nat, NEW key \in [S -> Nat]
  PROVE  LET s == Sorted(S, key)
             c == Cardinality(S)
         IN  /\ c \in Nat /\ s \in [1..c -> S]
             /\ \A i \in S : \E k \in 1..c : s[k] = i
             /\ \A k, l \in 1..c : k < l => Before(key, s[k], s[l])
<1> DEFINE c == Cardinality(S)
           s == Sorted(S, key)
           Nth(k) == CHOOSE i \in S : Rank(S, key, i) = k - 1
<1>1. /\ c \in Nat
      /\ \A i, j \in S : i # j => Before(key, i, j) \/ Before(key, j, i)
      /\ \A i \in S : Rank(S, key, i) \in 0..(c - 1)
      /\ \A i, j \in S : Before(key, i, j) => Rank(S, key, i) < Rank(S, key, j)
  BY RanksDiffer
<1>2. s = [k \in 1..c |-> Nth(k)]
  BY DEF Sorted, Rank, BeforeOf
<1>3. \A k \in 1..c : Nth(k) \in S /\ Rank(S, key, Nth(k)) = k - 1
  <2> TAKE k \in 1..c
  <2>1. \E i \in S : Rank(S, key, i) = k - 1
    BY RanksTaken
  <2> QED
    BY <2>1
<1> HIDE DEF Nth, c, s
<1>4. s \in [1..c -> S] /\ \A k \in 1..c : s[k] \in S /\ Rank(S, key, s[k]) = k - 1
  BY <1>2, <1>3
<1>5. ASSUME NEW k \in 1..c, NEW l \in 1..c, k < l PROVE Before(key, s[k], s[l])
  <2>1. /\ s[k] \in S /\ s[l] \in S
        /\ Rank(S, key, s[k]) = k - 1 /\ Rank(S, key, s[l]) = l - 1
    BY <1>4
  <2>2. s[k] # s[l]
    BY <1>1, <1>5, <2>1
  <2>3. ~Before(key, s[l], s[k])
    <3> SUFFICES ASSUME Before(key, s[l], s[k]) PROVE FALSE
      OBVIOUS
    <3>1. Rank(S, key, s[l]) < Rank(S, key, s[k])
      BY <1>1, <2>1, Zenon
    <3> QED
      BY <1>1, <1>5, <2>1, <3>1
  <2> QED
    BY <1>1, <2>1, <2>2, <2>3
<1>6. ASSUME NEW i \in S PROVE \E k \in 1..c : s[k] = i
  <2> DEFINE k == Rank(S, key, i) + 1
  <2>1. k \in 1..c /\ Rank(S, key, i) = k - 1
    BY <1>1
  <2> HIDE DEF k
  <2>2. s[k] \in S /\ Rank(S, key, s[k]) = Rank(S, key, i) /\ Rank(S, key, i) \in Int
    BY <1>1, <1>4, <2>1
  <2>3. s[k] = i
    <3> SUFFICES ASSUME s[k] # i PROVE FALSE
      OBVIOUS
    <3>1. Rank(S, key, s[k]) < Rank(S, key, i) \/ Rank(S, key, i) < Rank(S, key, s[k])
      BY <1>1, <2>2, Zenon
    <3> QED
      BY <2>2, <3>1
  <2> QED
    BY <2>1, <2>3
<1> QED
  BY <1>1, <1>4, <1>5, <1>6, Zenon DEF s, c

\* A sequence of IDs in ascending order.
Ascends(s) == \A i, j \in 1..Len(s) : i < j => s[i] < s[j]

\* An ascending sequence has as many members as its range, and each of them has as
\* many before it in the one as below it in the other.
LEMMA AscendingRank ==
  ASSUME NEW s \in Seq(Nat), Ascends(s), NEW S, S = {s[i] : i \in 1..Len(s)}
  PROVE  /\ IsFiniteSet(S) /\ Cardinality(S) = Len(s)
         /\ \A k \in 1..Len(s) : /\ IsFiniteSet({x \in S : x < s[k]})
                                 /\ Cardinality({x \in S : x < s[k]}) = k - 1
<1>0. Len(s) \in Nat /\ \A i \in 1..Len(s) : s[i] \in Nat
  OBVIOUS
<1>1. ASSUME NEW n \in 0..Len(s), NEW T, T = {s[i] : i \in 1..n}
      PROVE  IsFiniteSet(T) /\ Cardinality(T) = n
  <2> DEFINE f == [i \in 1..n |-> s[i]]
  <2>0. n \in Nat /\ \A i \in 1..n : i \in 1..Len(s)
    BY <1>0
  <2>1. f \in [1..n -> T]
    BY <1>1
  <2>2. \A i, j \in 1..n : i # j => s[i] # s[j]
    BY <1>0, <2>0 DEF Ascends
  <2>3. f \in Injection(1..n, T)
    BY <2>1, <2>2 DEF Injection, IsInjective
  <2>4. f \in Surjection(1..n, T)
    BY <1>1, <2>1 DEF Surjection
  <2>5. f \in Bijection(1..n, T)
    BY <2>3, <2>4, Zenon DEF Bijection
  <2>6. ExistsBijection(1..n, T)
    BY <2>5, Zenon DEF ExistsBijection
  <2> QED
    BY <2>0, <2>6, FS_NatBijection, FS_CountingElements, Zenon
<1>2. IsFiniteSet(S) /\ Cardinality(S) = Len(s)
  <2>1. Len(s) \in 0..Len(s)
    BY <1>0
  <2> QED
    BY <1>1, <2>1, Zenon
<1>3. ASSUME NEW k \in 1..Len(s)
      PROVE  /\ IsFiniteSet({x \in S : x < s[k]})
             /\ Cardinality({x \in S : x < s[k]}) = k - 1
  <2> DEFINE n == k - 1
             T == {x \in S : x < s[k]}
  <2>1. n \in 0..Len(s) /\ \A i \in 1..Len(s) : i \in 1..n <=> i < k
    BY <1>0
  <2>2. ASSUME NEW i \in 1..Len(s) PROVE s[i] < s[k] <=> i < k
    <3>1. i \in Nat /\ k \in Nat /\ s[i] \in Nat /\ s[k] \in Nat
      BY <1>0
    <3>2. (i < k => s[i] < s[k]) /\ (k < i => s[k] < s[i])
      BY DEF Ascends
    <3>3. i = k => s[i] = s[k]
      OBVIOUS
    <3> HIDE DEF n, T
    <3> QED
      BY <3>1, <3>2, <3>3
  <2> HIDE DEF n
  <2>3. T = {s[i] : i \in 1..n}
    <3>1. ASSUME NEW x \in T PROVE x \in {s[i] : i \in 1..n}
      <4>1. PICK i \in 1..Len(s) : x = s[i]
        OBVIOUS
      <4>2. i \in 1..n
        BY <2>1, <2>2, <3>1, <4>1
      <4> QED
        BY <4>1, <4>2
    <3>2. ASSUME NEW i \in 1..n PROVE s[i] \in T
      <4>1. i \in 1..Len(s)
        BY <1>0, <2>1
      <4>2. s[i] < s[k]
        BY <2>1, <2>2, <4>1
      <4> QED
        BY <4>1, <4>2
    <3> HIDE DEF T
    <3> QED
      BY <3>1, <3>2
  <2>4. IsFiniteSet(T) /\ Cardinality(T) = n
    BY <1>1, <2>1, <2>3
  <2> QED
    BY <2>4 DEF n
<1> QED
  BY <1>2, <1>3

\* There is one ascending sequence of a set.
LEMMA AscendingIsOne ==
  ASSUME NEW s \in Seq(Nat), Ascends(s), NEW t \in Seq(Nat), Ascends(t),
         {s[i] : i \in 1..Len(s)} = {t[i] : i \in 1..Len(t)}
  PROVE  s = t
<1> DEFINE S == {s[i] : i \in 1..Len(s)}
           Below(n) == {x \in S : x < n}
<1>1. /\ IsFiniteSet(S) /\ Cardinality(S) = Len(s)
      /\ \A k \in 1..Len(s) : IsFiniteSet(Below(s[k])) /\ Cardinality(Below(s[k])) = k - 1
  BY AscendingRank
<1>2. S = {t[i] : i \in 1..Len(t)}
  OBVIOUS
<1> HIDE DEF S
<1>3. /\ Cardinality(S) = Len(t)
      /\ \A k \in 1..Len(t) : IsFiniteSet(Below(t[k])) /\ Cardinality(Below(t[k])) = k - 1
  BY <1>2, AscendingRank
<1>4. Len(s) \in Nat /\ Len(t) = Len(s)
  BY <1>1, <1>3
<1>5. ASSUME NEW m \in Nat, NEW n \in Nat, m \in S, m < n, IsFiniteSet(Below(m)), IsFiniteSet(Below(n))
      PROVE  Cardinality(Below(m)) # Cardinality(Below(n))
  <2>0. \A x \in S : x \in Nat
    <3>1. \A i \in 1..Len(s) : s[i] \in Nat
      OBVIOUS
    <3> QED
      BY <3>1, Zenon DEF S
  <2>4. m < n /\ ~(m < m) /\ \A x \in S : x < m => x < n
    BY <1>5, <2>0
  <2>1. Below(m) \subseteq Below(n) /\ m \in Below(n) /\ m \notin Below(m)
    BY <1>5, <2>4, Zenon
  <2> HIDE DEF Below
  <2>2. Below(m) \in SUBSET Below(n) /\ Below(m) # Below(n)
    BY <2>1
  <2> QED
    BY <1>5, <2>2, FS_Subset, Zenon
<1>6. ASSUME NEW k \in 1..Len(s) PROVE s[k] = t[k]
  <2>1. k \in 1..Len(t) /\ s[k] \in Nat /\ t[k] \in Nat
    BY <1>4
  <2>4. s[k] \in S /\ t[k] \in S
    BY <1>2, <2>1, Zenon DEF S
  <2>2. /\ IsFiniteSet(Below(s[k])) /\ IsFiniteSet(Below(t[k]))
        /\ Cardinality(Below(s[k])) = Cardinality(Below(t[k]))
    BY <1>1, <1>3, <2>1, Zenon
  <2> HIDE DEF Below
  <2>3. ~(s[k] < t[k]) /\ ~(t[k] < s[k])
    BY <1>5, <2>1, <2>2, <2>4, Zenon
  <2> QED
    BY <2>1, <2>3
<1> QED
  BY <1>4, <1>6, SeqEqual

-----------------------------------------------------------------------------
(* Duos: lists of minions *)

\* The minions of a set, in the order they were created.
Lists(ms, S) ==
  /\ {ms[i].id : i \in 1..Len(ms)} = S
  /\ \A i, j \in 1..Len(ms) : i < j => ms[i].id < ms[j].id

\* What is logged of the entities of a combat.
EntitiesTyped == ents \in Seq(Entity) /\ stat \in [1..Len(ents) -> 1..MaxStat]

LEMMA IDsAre ==
  ASSUME NEW ms \in Seq(Minion)
  PROVE  /\ IDs(ms) = {ms[i].id : i \in 1..Len(ms)} /\ Len(ms) \in Nat
         /\ \A i \in 1..Len(ms) : ms[i] \in Minion /\ ms[i].id \in Nat \ {0} /\ ms[i].stat \in 1..MaxStat
<1>1. Len(ms) \in Nat /\ DOMAIN ms = 1..Len(ms) /\ \A i \in 1..Len(ms) : ms[i] \in Minion
  OBVIOUS
<1>2. \A m \in Minion : m.id \in Nat \ {0} /\ m.stat \in 1..MaxStat
  BY DEF Minion
<1>3. IDs(ms) = {ms[i].id : i \in 1..Len(ms)}
  BY <1>1 DEF IDs
<1> QED
  BY <1>1, <1>2, <1>3, Zenon

\* A scan of all entities of the combat collects those of a kind that stand, as they are.
LEMMA CollectedIs ==
  ASSUME EntitiesTyped, NEW kinds
  PROVE  LET m == Collected([e \in Entities |-> e], kinds)
         IN  /\ m \in Seq(Minion) /\ Lists(m, Standing(kinds))
             /\ \A i \in 1..Len(m) : m[i].stat = stat[m[i].id]
<1> DEFINE S == Standing(kinds)
           ids == [e \in Entities |-> e]
           key == [i \in S |-> i]
           s == Sorted(S, key)
           c == Cardinality(S)
           m == Collected(ids, kinds)
<1>1. Len(ents) \in Nat /\ Entities = 1..Len(ents)
  BY DEF EntitiesTyped, Entities
<1>2. S \subseteq 1..Len(ents) /\ S \subseteq Nat
  BY <1>1 DEF Standing
<1>3. IsFiniteSet(S)
  <2>1. 1 \in Int /\ Len(ents) \in Int
    BY <1>1
  <2>2. IsFiniteSet(1..Len(ents))
    BY <2>1, FS_Interval
  <2> QED
    BY <1>2, <2>2, FS_Subset
<1>4. key \in [S -> Nat]
  BY <1>2
<1>5. m = [k \in DOMAIN s |-> [id |-> ids[s[k]], stat |-> stat[ids[s[k]]]]]
  <2>1. {i \in DOMAIN ids : ents[ids[i]].kind \in kinds /\ ids[i] \notin gone} = S
    BY DEF Standing
  <2> QED
    BY <2>1 DEF Collected, MinionsOf
<1> HIDE DEF m, s, c, S
<1>6. /\ c \in Nat /\ s \in [1..c -> S]
      /\ \A i \in S : \E k \in 1..c : s[k] = i
      /\ \A k, l \in 1..c : k < l => Before(key, s[k], s[l])
  BY <1>2, <1>3, <1>4, SortedLists, Zenon DEF s, c
<1>7. \A k \in 1..c : s[k] \in S /\ s[k] \in 1..Len(ents) /\ s[k] \in Nat \ {0} /\ ids[s[k]] = s[k]
  <2> TAKE k \in 1..c
  <2>1. s[k] \in S
    BY <1>6
  <2>2. s[k] \in 1..Len(ents)
    BY <1>2, <2>1
  <2> QED
    BY <1>1, <2>1, <2>2
<1>8. m = [k \in 1..c |-> [id |-> s[k], stat |-> stat[s[k]]]]
  BY <1>5, <1>6, <1>7
<1>9. \A k \in 1..c : [id |-> s[k], stat |-> stat[s[k]]] \in Minion
  <2> TAKE k \in 1..c
  <2>1. stat[s[k]] \in 1..MaxStat
    BY <1>7 DEF EntitiesTyped
  <2> QED
    BY <1>7, <2>1 DEF Minion
<1>10. m \in [1..c -> Minion]
  BY <1>8, <1>9
<1>11. m \in Seq(Minion) /\ Len(m) = c
  BY <1>6, <1>10
<1>12. \A k \in 1..c : m[k].id = s[k] /\ m[k].stat = stat[s[k]]
  BY <1>8
<1>13. {m[i].id : i \in 1..Len(m)} = S
  <2>1. ASSUME NEW x \in S PROVE x \in {m[i].id : i \in 1..Len(m)}
    <3>1. PICK k \in 1..c : s[k] = x
      BY <1>6
    <3> QED
      BY <1>11, <1>12, <3>1
  <2>2. \A i \in 1..Len(m) : m[i].id \in S
    BY <1>7, <1>11, <1>12
  <2> QED
    BY <2>1, <2>2
<1>14. ASSUME NEW i \in 1..Len(m), NEW j \in 1..Len(m), i < j PROVE m[i].id < m[j].id
  <2>1. i \in 1..c /\ j \in 1..c
    BY <1>11
  <2>2. Before(key, s[i], s[j]) /\ s[i] \in S /\ s[j] \in S /\ s[i] \in Nat /\ s[j] \in Nat
    BY <1>6, <1>7, <1>14, <2>1
  <2>3. key[s[i]] = s[i] /\ key[s[j]] = s[j]
    BY <2>2
  <2> HIDE DEF key
  <2>4. s[i] < s[j]
    BY <2>2, <2>3 DEF Before
  <2> QED
    BY <1>12, <2>1, <2>4
<1> QED
  BY <1>11, <1>12, <1>13, <1>14 DEF Lists, m, S

\* There is one such list.
LEMMA ListIsOne ==
  ASSUME NEW S, NEW m \in Seq(Minion), NEW n \in Seq(Minion), Lists(m, S), Lists(n, S),
         \A i \in 1..Len(m) : m[i].stat = stat[m[i].id],
         \A i \in 1..Len(n) : n[i].stat = stat[n[i].id]
  PROVE  m = n
<1> DEFINE s == [i \in 1..Len(m) |-> m[i].id]
           t == [i \in 1..Len(n) |-> n[i].id]
<1>1. /\ Len(m) \in Nat /\ \A i \in 1..Len(m) : m[i] \in Minion /\ m[i].id \in Nat
      /\ Len(n) \in Nat /\ \A i \in 1..Len(n) : n[i] \in Minion /\ n[i].id \in Nat
  BY IDsAre
<1>2. s \in Seq(Nat) /\ Len(s) = Len(m) /\ \A i \in 1..Len(m) : s[i] = m[i].id
  BY <1>1
<1>3. t \in Seq(Nat) /\ Len(t) = Len(n) /\ \A i \in 1..Len(n) : t[i] = n[i].id
  BY <1>1
<1> HIDE DEF s, t
<1>4. ASSUME NEW w \in Seq(Minion), NEW z \in Seq(Nat), Lists(w, S), Len(z) = Len(w),
             \A i \in 1..Len(w) : z[i] = w[i].id
      PROVE  Ascends(z) /\ {z[i] : i \in 1..Len(z)} = S
  <2>1. \A i, j \in 1..Len(w) : i < j => w[i].id < w[j].id
    BY <1>4 DEF Lists
  <2>2. Ascends(z)
    BY <1>4, <2>1 DEF Ascends
  <2>3. {z[i] : i \in 1..Len(z)} = {w[i].id : i \in 1..Len(w)}
    <3> DEFINE I == 1..Len(w)
    <3>1. 1..Len(z) = I /\ \A i \in I : z[i] = w[i].id
      BY <1>4
    <3> HIDE DEF I
    <3>2. ASSUME NEW x PROVE x \in {z[i] : i \in I} <=> x \in {w[i].id : i \in I}
      <4>1. \A i \in I : x = z[i] <=> x = w[i].id
        BY <3>1
      <4> QED
        BY <4>1
    <3>3. {z[i] : i \in I} = {w[i].id : i \in I}
      BY <3>2
    <3> QED
      BY <3>1, <3>3, Zenon DEF I
  <2> QED
    BY <1>4, <2>2, <2>3 DEF Lists
<1>5. /\ Ascends(s) /\ {s[i] : i \in 1..Len(s)} = S
      /\ Ascends(t) /\ {t[i] : i \in 1..Len(t)} = S
  BY <1>2, <1>3, <1>4, Zenon
<1>6. s = t
  BY <1>2, <1>3, <1>5, AscendingIsOne, Zenon
<1>7. Len(m) = Len(n)
  BY <1>2, <1>3, <1>6
<1>8. ASSUME NEW i \in 1..Len(m) PROVE m[i] = n[i]
  <2>1. i \in 1..Len(n)
    BY <1>7
  <2>2. m[i].id = n[i].id
    BY <1>2, <1>3, <1>6, <2>1
  <2>3. m[i].stat = n[i].stat
    BY <2>1, <2>2
  <2>4. m[i] = [id |-> m[i].id, stat |-> m[i].stat]
    <3>1. m[i] \in Minion
      BY <1>1
    <3> QED
      BY <3>1 DEF Minion
  <2>5. n[i] = [id |-> n[i].id, stat |-> n[i].stat]
    <3>1. n[i] \in Minion
      BY <1>1, <2>1
    <3> QED
      BY <3>1 DEF Minion
  <2> QED
    BY <2>2, <2>3, <2>4, <2>5
<1> QED
  BY <1>7, <1>8, SeqEqual

\* Sorting by position keeps the minions.
LEMMA ByPositionIs ==
  ASSUME EntitiesTyped, NEW ms \in Seq(Minion), IDs(ms) \subseteq Entities
  PROVE  /\ ByPosition(ms) \in Seq(Minion) /\ Len(ByPosition(ms)) = Len(ms)
         /\ IDs(ByPosition(ms)) = IDs(ms)
<1> DEFINE n == Len(ms)
           D == DOMAIN ms
           key == [i \in D |-> ents[ms[i].id].pos]
           s == Sorted(D, key)
           b == ByPosition(ms)
<1>1. n \in Nat /\ D = 1..n /\ \A i \in D : ms[i] \in Minion
  OBVIOUS
<1>2. IsFiniteSet(D) /\ Cardinality(D) = n /\ D \subseteq Nat
  <2>1. 1 \in Int /\ n \in Int
    BY <1>1
  <2>2. IsFiniteSet(1..n) /\ Cardinality(1..n) = IF 1 > n THEN 0 ELSE n - 1 + 1
    BY <2>1, FS_Interval
  <2> QED
    BY <1>1, <2>2
<1>3. key \in [D -> Nat]
  <2>1. \A i \in D : ms[i].id \in 1..Len(ents)
    BY DEF IDs, Entities
  <2>2. \A e \in 1..Len(ents) : ents[e].pos \in Nat
    <3>1. \A k \in Entity : k.pos \in 0..MaxBoard
      BY DEF Entity
    <3>2. \A e \in 1..Len(ents) : ents[e] \in Entity
      BY DEF EntitiesTyped
    <3>3. \A i \in 0..MaxBoard : i \in Nat
      BY DuosAssumption
    <3> QED
      BY <3>1, <3>2, <3>3, Zenon
  <2> QED
    BY <2>1, <2>2
<1>4. b = [k \in D |-> ms[s[k]]]
  BY DEF ByPosition
<1> HIDE DEF key, s, b, D, n
<1>5. /\ s \in [1..n -> D] /\ \A i \in D : \E k \in 1..n : s[k] = i
  <2>1. LET z == Sorted(D, key)
            c == Cardinality(D)
        IN  /\ c \in Nat /\ z \in [1..c -> D]
            /\ \A i \in D : \E k \in 1..c : z[k] = i
            /\ \A k, l \in 1..c : k < l => Before(key, z[k], z[l])
    BY <1>2, <1>3, SortedLists, Zenon
  <2> QED
    BY <1>2, <2>1, Zenon DEF s
<1>6. b \in [1..n -> Minion] /\ \A k \in 1..n : s[k] \in D /\ b[k] = ms[s[k]]
  BY <1>1, <1>4, <1>5
<1>7. b \in Seq(Minion) /\ Len(b) = n /\ DOMAIN b = 1..n
  BY <1>1, <1>6
<1>8. {b[k].id : k \in 1..n} = {ms[i].id : i \in D}
  BY <1>5, <1>6
<1> QED
  BY <1>7, <1>8, Zenon DEF b, n, D, IDs

\* A board that fits is kept whole.
LEMMA KeptIsAll ==
  ASSUME EntitiesTyped, NEW ms \in Seq(Minion), IDs(ms) \subseteq Entities, Len(ms) <= MaxBoard
  PROVE  Kept(ms) = ByPosition(ms)
<1> DEFINE b == ByPosition(ms)
<1>1. b \in Seq(Minion) /\ Len(b) = Len(ms) /\ Len(ms) \in Nat
  BY ByPositionIs
<1>2. ~(Len(ms) > MaxBoard)
  BY <1>1, DuosAssumption
<1>3. Kept(ms) = SubSeq(b, 1, Len(ms))
  BY <1>2 DEF Kept
<1> HIDE DEF b
<1>4. SubSeq(b, 1, Len(b)) = b
  BY <1>1
<1> QED
  BY <1>1, <1>3, <1>4 DEF b

\* Minions with positions of their own fit a board.
LEMMA ListFits ==
  ASSUME NEW ms \in Seq(Minion), NEW S, Lists(ms, S), S \subseteq Entities,
         \A e \in S : ents[e].pos \in Positions,
         \A e, f \in S : ents[e].pos = ents[f].pos => e = f
  PROVE  Len(ms) <= MaxBoard
<1> DEFINE n == Len(ms)
           f == [i \in 1..n |-> ents[ms[i].id].pos]
<1>1. n \in Nat /\ MaxBoard \in Nat /\ \A i \in 1..n : ms[i].id \in S /\ ms[i].id \in Nat
  BY IDsAre, DuosAssumption DEF Lists
<1>2. f \in [1..n -> Positions]
  BY <1>1
<1>3. ASSUME NEW i \in 1..n, NEW j \in 1..n, i # j PROVE f[i] # f[j]
  <2>1. ms[i].id # ms[j].id
    <3>1. i < j \/ j < i
      BY <1>1, <1>3
    <3>2. ms[i].id < ms[j].id \/ ms[j].id < ms[i].id
      BY <3>1 DEF Lists
    <3> QED
      BY <1>1, <3>2
  <2> QED
    BY <1>1, <2>1
<1>4. f \in Injection(1..n, Positions)
  BY <1>2, <1>3, Zenon DEF Injection, IsInjective
<1> HIDE DEF f, n
<1>5. /\ IsFiniteSet(1..n) /\ Cardinality(1..n) = n
      /\ IsFiniteSet(1..MaxBoard) /\ Cardinality(1..MaxBoard) = MaxBoard
  <2>1. \A k \in Nat : IsFiniteSet(1..k) /\ Cardinality(1..k) = k
    <3> TAKE k \in Nat
    <3>1. 1 \in Int /\ k \in Int
      OBVIOUS
    <3>2. IsFiniteSet(1..k) /\ Cardinality(1..k) = IF 1 > k THEN 0 ELSE k - 1 + 1
      BY <3>1, FS_Interval
    <3> QED
      BY <3>2
  <2> QED
    BY <1>1, <2>1
<1>6. Cardinality(1..n) <= Cardinality(Positions)
  BY <1>4, <1>5, FS_Injection, Zenon DEF Positions
<1> QED
  BY <1>5, <1>6 DEF n, Positions

-----------------------------------------------------------------------------
(* Duos: the invariant of the boards *)

\* Who is to fight, at the beginning of a combat or in it.
Orders == {<<>>, <<"own">>, <<"mate">>, <<"own", "mate">>, <<"mate", "own">>}

FightType == [turn : Nat, lineup : Seq(Minion), foes : SUBSET Nat, known : BOOLEAN]
BoardType == [minions : Seq(Minion), turn : Nat, stale : BOOLEAN]

BoardTypes ==
  /\ EntitiesTyped /\ gone \subseteq Entities
  /\ partnerCombatMinions \in Seq(Minion) /\ opponentCombatMinions \in Seq(Minion)
  /\ partnerBoard \in BoardType /\ opponentBoard \in Seq(Minion)
  /\ lastFight \in FightType /\ localTurn \in Nat \ {0}

\* Until the end of the game nothing undoes the detection of duos.
Detected ==
  part # "over" =>
    /\ punishLeaversActive
    /\ partnerPlayerID = "mate" => isDuos
    /\ lastFight.known => isDuos

\* What there is in each part of a turn; the flag that begins the combat's collection
\* comes with its first fight.
InPart ==
  /\ part = "recruit" => order = <<>> /\ ~swapped /\ ~combatPhaseActive
  /\ part = "own" => order \in {<<>>, <<"mate">>} /\ ~swapped
  /\ part = "lead" => order = <<"mate">> /\ swapped
  /\ part = "mate" => order \in {<<>>, <<"own">>}
  /\ part = "clash" => order \in {<<>>, <<"own">>} /\ swapped
  /\ part = "idle" => order \in Orders \ {<<"mate">>} /\ ~swapped
  /\ part = "after" => order = <<>> /\ ~swapped
  /\ part = "idle" /\ order \in {<<"own", "mate">>, <<"mate", "own">>} => ~combatPhaseActive
  /\ part \in {"own", "lead", "mate", "clash"} => combatPhaseActive

\* The partner's combat is active from the flag that begins it to the next flag.
ActiveIn ==
  partnerCombatActive /\ part # "over" =>
    /\ part \in {"mate", "clash", "idle", "after"} /\ order \in {<<>>, <<"own">>}
    /\ partnerPlayerID = "mate" /\ combatPhaseActive

\* The processor has the IDs of all entities of the combat; before the partner's fight
\* nothing that was summoned stands, and the hero's copy is there before its flag.
Logged ==
  /\ ~combatPhaseActive /\ part # "over" => ents = <<>>
  /\ combatPhaseActive /\ isDuos => combatPhaseEntityIDs = [e \in Entities |-> e]
  /\ part \in {"lead", "mate"} => Standing({"token"}) = {}
  /\ part = "lead" => Standing({"hero"}) # {}

\* The minions that stand on a side have positions of their own.
Placed ==
  /\ \A e \in Entities : ents[e].kind \in {"mate", "foe"} => ents[e].pos \in Positions
  /\ \A e, f \in Standing({"mate"}) : ents[e].pos = ents[f].pos => e = f
  /\ \A e, f \in Standing({"foe"}) : ents[e].pos = ents[f].pos => e = f

\* While the partner's board is set up, what is collected is what stands.
Collecting ==
  part = "mate" /\ partnerCombatActive =>
    /\ ~partnerBoardSetupDone
    /\ Lists(partnerCombatMinions, Standing({"mate"}))
    /\ \A i \in 1..Len(partnerCombatMinions) :
         partnerCombatMinions[i].stat = stat[partnerCombatMinions[i].id]
    /\ Lists(opponentCombatMinions, Standing({"foe"}))

\* The turn the last combat was in, whose number goes up before its last flag.
Day == IF part \in {"recruit", "after"} THEN localTurn - 1 ELSE localTurn

\* From the first attack to the flag that ends the partner's combat, what was
\* collected is the line-up of that attack.
Waiting == partnerCombatActive /\ part \in {"clash", "idle", "after"}
LineUpCollected ==
  /\ partnerBoardSetupDone /\ lastFight.turn = Day
  /\ lastFight.lineup = ByPosition(partnerCombatMinions)
  /\ lastFight.foes = IDs(opponentCombatMinions)
  /\ Len(partnerCombatMinions) <= MaxBoard /\ Len(opponentCombatMinions) <= MaxBoard
  /\ IDs(partnerCombatMinions) \subseteq Entities /\ IDs(opponentCombatMinions) \subseteq Entities
Settled == Waiting => LineUpCollected

\* At any other time the boards are those of the last fight.
OnShow ==
  lastFight.known /\ part # "over" /\ ~Waiting =>
    /\ lastFight.turn <= Day
    /\ lastFight.lineup # <<>> =>
         /\ partnerBoard.minions = lastFight.lineup
         /\ partnerBoard.stale = (lastFight.turn # Day)
         /\ partnerBoard.turn \in {lastFight.turn, lastFight.turn + 1}
    /\ lastFight.foes # {} => IDs(opponentBoard) = lastFight.foes

BoardsInv ==
  /\ DuosInv /\ BoardTypes /\ Detected /\ InPart /\ ActiveIn /\ Logged /\ Placed
  /\ Collecting /\ Settled /\ OnShow

LEMMA OrderFacts ==
  /\ Head(<<"own">>) = "own" /\ Tail(<<"own">>) = <<>>
  /\ Head(<<"mate">>) = "mate" /\ Tail(<<"mate">>) = <<>>
  /\ Head(<<"own", "mate">>) = "own" /\ Tail(<<"own", "mate">>) = <<"mate">>
  /\ Head(<<"mate", "own">>) = "mate" /\ Tail(<<"mate", "own">>) = <<"own">>
  /\ <<"own">> # <<"mate">> /\ <<"own">> # <<>> /\ <<"mate">> # <<>>
  /\ <<"own">> \notin {<<"own", "mate">>, <<"mate", "own">>}
  /\ <<>> \notin {<<"own", "mate">>, <<"mate", "own">>}
OBVIOUS

\* What the boards are made of does not change.
BoardsKept == UNCHANGED <<partnerBoard, opponentBoard, lastFight, localTurn>>
CombatKept == UNCHANGED <<ents, stat, gone, combatVars>>

\* A step that leaves all of it be, and may only learn, in a recruit phase, that the
\* game is a duos game.
LEMMA CalmKeeps ==
  ASSUME BoardsInv, DuosInv', BoardsKept, CombatKept, UNCHANGED <<part, order, swapped>>,
         \/ UNCHANGED <<isDuos, partnerPlayerID, punishLeaversActive>>
         \/ /\ part = "recruit" /\ UNCHANGED punishLeaversActive
            /\ isDuos => isDuos'
            /\ partnerPlayerID' = "mate" => isDuos'
  PROVE  BoardsInv'
<1>1. /\ UNCHANGED <<ents, stat, gone, combatPhaseActive, combatPhaseEntityIDs, partnerCombatActive,
                     partnerBoardSetupDone, partnerCombatMinions, opponentCombatMinions>>
      /\ UNCHANGED <<partnerBoard, opponentBoard, lastFight, localTurn>>
  BY DEF BoardsKept, CombatKept, combatVars
<1>2. BoardTypes' /\ Placed'
  BY <1>1 DEF BoardsInv, BoardTypes, EntitiesTyped, Entities, Placed, Standing
<1>3. InPart'
  BY <1>1 DEF BoardsInv, InPart
<1>4. Waiting' = Waiting /\ Day' = Day
  BY <1>1 DEF Waiting, Day
<1>5. OnShow'
  BY <1>1, <1>4 DEF BoardsInv, OnShow
<1>6. ByPosition(partnerCombatMinions)' = ByPosition(partnerCombatMinions)
  BY <1>1 DEF ByPosition
<1>7. Settled'
  <2>1. Entities' = Entities /\ IDs(opponentCombatMinions)' = IDs(opponentCombatMinions)
        /\ IDs(partnerCombatMinions)' = IDs(partnerCombatMinions)
    BY <1>1 DEF Entities, IDs
  <2> QED
    BY <1>1, <1>4, <1>6, <2>1 DEF BoardsInv, Settled, LineUpCollected
<1>8. Collecting'
  BY <1>1 DEF BoardsInv, Collecting, Lists, Standing, Entities
<1>9. Logged' /\ Detected' /\ ActiveIn'
  <2>1. CASE UNCHANGED <<isDuos, partnerPlayerID, punishLeaversActive>>
    BY <1>1, <2>1 DEF BoardsInv, Logged, Detected, ActiveIn, Standing, Entities
  <2>2. CASE /\ part = "recruit" /\ UNCHANGED punishLeaversActive
             /\ isDuos => isDuos'
             /\ partnerPlayerID' = "mate" => isDuos'
    <3>1. ~combatPhaseActive /\ ~partnerCombatActive
      BY <2>2 DEF BoardsInv, InPart, ActiveIn
    <3> QED
      BY <1>1, <2>2, <3>1 DEF BoardsInv, Logged, Detected, ActiveIn
  <2> QED
    BY <2>1, <2>2
<1> QED
  BY <1>2, <1>3, <1>5, <1>7, <1>8, <1>9 DEF BoardsInv

-----------------------------------------------------------------------------
(* Duos: the lines about the entities of a combat *)

\* Positions that do not change sort the same.
LEMMA ByPositionStays ==
  ASSUME UNCHANGED partnerCombatMinions, partnerCombatMinions \in Seq(Minion),
         IDs(partnerCombatMinions) \subseteq Entities, \A e \in Entities : ents'[e] = ents[e]
  PROVE  ByPosition(partnerCombatMinions)' = ByPosition(partnerCombatMinions)
<1> DEFINE ms == partnerCombatMinions
           key == [i \in DOMAIN ms |-> ents[ms[i].id].pos]
           new == [i \in DOMAIN ms |-> ents'[ms[i].id].pos]
<1>1. \A i \in DOMAIN ms : ms[i].id \in Entities
  BY DEF IDs
<1>2. new = key
  BY <1>1
<1>3. ByPosition(partnerCombatMinions)' = [k \in DOMAIN ms |-> ms[Sorted(DOMAIN ms, new)[k]]]
  BY DEF ByPosition, Sorted, Before
<1>4. ByPosition(partnerCombatMinions) = [k \in DOMAIN ms |-> ms[Sorted(DOMAIN ms, key)[k]]]
  BY DEF ByPosition, Sorted, Before
<1> HIDE DEF key, new
<1> QED
  BY <1>2, <1>3, <1>4, Zenon

\* A new entity has the next ID; the others are as they were.
LEMMA EntityAdded ==
  ASSUME EntitiesTyped, NEW k \in Entity, NEW v \in 1..MaxStat,
         ents' = Append(ents, k), stat' = Append(stat, v)
  PROVE  LET n == Len(ents) + 1
         IN  /\ n \in Nat \ {0} /\ n \notin Entities /\ Entities' = Entities \cup {n}
             /\ Entities' = 1..n /\ Entities = 1..(n - 1)
             /\ \A e \in Entities : e \in Nat /\ e < n
             /\ ents'[n] = k /\ stat'[n] = v
             /\ \A e \in Entities : ents'[e] = ents[e] /\ stat'[e] = stat[e]
             /\ EntitiesTyped'
<1> DEFINE n == Len(ents) + 1
<1>1. ents \in Seq(Entity) /\ stat \in [1..Len(ents) -> 1..MaxStat] /\ Len(ents) \in Nat
  BY DEF EntitiesTyped
<1> DEFINE T == 1..MaxStat
<1>2. stat \in Seq(T) /\ Len(stat) = Len(ents)
  <2>1. stat \in [1..Len(ents) -> T]
    BY <1>1
  <2> HIDE DEF T
  <2> QED
    BY <1>1, <2>1
<1>3. n \in Nat \ {0} /\ 1..n = (1..Len(ents)) \cup {n} /\ n \notin 1..Len(ents) /\ Len(ents) = n - 1
      /\ \A e \in 1..Len(ents) : e \in Nat /\ e < n
  BY <1>1
<1>4. /\ ents' \in Seq(Entity) /\ Len(ents') = n /\ ents'[n] = k
      /\ \A e \in 1..Len(ents) : ents'[e] = ents[e]
  BY <1>1
<1>5. /\ stat' \in Seq(T) /\ Len(stat') = n /\ stat'[n] = v
      /\ \A e \in 1..Len(ents) : stat'[e] = stat[e]
  <2>1. v \in T /\ stat' = Append(stat, v)
    OBVIOUS
  <2> HIDE DEF T
  <2> QED
    BY <1>1, <1>2, <2>1
<1>6. stat' \in [1..n -> 1..MaxStat]
  <2> HIDE DEF T, n
  <2>1. stat' \in [1..Len(stat') -> T]
    BY <1>5, LenProperties, SeqDef
  <2>2. stat' \in [1..n -> T]
    BY <1>5, <2>1, Zenon
  <2> QED
    BY <2>2, Zenon DEF T
<1> QED
  BY <1>3, <1>4, <1>5, <1>6, Zenon DEF Entities, EntitiesTyped

\* What stands after a new entity, and after those of another kind went.
LEMMA StandingAdded ==
  ASSUME EntitiesTyped, NEW k \in Entity, NEW v \in 1..MaxStat,
         ents' = Append(ents, k), stat' = Append(stat, v), gone \subseteq Entities,
         gone \subseteq gone', gone' \subseteq gone \cup Standing({"token"}), NEW kind, kind # "token"
  PROVE  Standing({kind})' = IF k.kind = kind THEN Standing({kind}) \cup {Len(ents) + 1}
                             ELSE Standing({kind})
<1> DEFINE n == Len(ents) + 1
<1>1. /\ n \notin Entities /\ Entities' = Entities \cup {n}
      /\ ents'[n] = k /\ \A e \in Entities : ents'[e] = ents[e]
  BY EntityAdded
<1> HIDE DEF n
<1>2. n \notin gone'
  BY <1>1 DEF Standing
<1>3. \A e \in Entities : ents[e].kind = kind => (e \in gone' <=> e \in gone)
  BY DEF Standing
<1>4. Standing({kind})' = {e \in Entities' : ents'[e].kind = kind /\ e \notin gone'}
  BY DEF Standing
<1>5. Standing({kind}) = {e \in Entities : ents[e].kind = kind /\ e \notin gone}
  BY DEF Standing
<1> QED
  BY <1>1, <1>2, <1>3, <1>4, <1>5 DEF n

\* A new minion goes to the end of its list.
LEMMA ListGrows ==
  ASSUME NEW ms \in Seq(Minion), NEW S, Lists(ms, S), NEW m \in Minion,
         \A e \in S : e \in Nat /\ e < m.id
  PROVE  /\ Append(ms, m) \in Seq(Minion) /\ Lists(Append(ms, m), S \cup {m.id})
         /\ Len(Append(ms, m)) = Len(ms) + 1 /\ Append(ms, m)[Len(ms) + 1] = m
         /\ \A i \in 1..Len(ms) : Append(ms, m)[i] = ms[i]
<1> DEFINE new == Append(ms, m)
           l == Len(ms)
<1>1. l \in Nat /\ {ms[i].id : i \in 1..l} = S /\ \A i \in 1..l : ms[i].id \in S
  BY DEF Lists
<1>2. /\ new \in Seq(Minion) /\ Len(new) = l + 1 /\ new[l + 1] = m
      /\ \A i \in 1..l : new[i] = ms[i]
  OBVIOUS
<1> HIDE DEF new, l
<1>3. 1..(l + 1) = (1..l) \cup {l + 1}
  BY <1>1
<1>4. {new[i].id : i \in 1..Len(new)} = S \cup {m.id}
  <2>1. {new[i].id : i \in 1..Len(new)} = {new[i].id : i \in 1..l} \cup {new[l + 1].id}
    BY <1>2, <1>3
  <2>2. ASSUME NEW x PROVE x \in {new[i].id : i \in 1..l} <=> x \in {ms[i].id : i \in 1..l}
    <3>1. \A i \in 1..l : x = new[i].id <=> x = ms[i].id
      BY <1>2
    <3> QED
      BY <3>1
  <2> QED
    BY <1>1, <1>2, <2>1, <2>2
<1>5. ASSUME NEW i \in 1..Len(new), NEW j \in 1..Len(new), i < j PROVE new[i].id < new[j].id
  <2>1. i \in 1..l /\ new[i] = ms[i] /\ ms[i].id \in S
    BY <1>1, <1>2, <1>5
  <2>2. CASE j \in 1..l
    <3>1. ms[i].id < ms[j].id
      BY <1>5, <2>1, <2>2 DEF Lists, l
    <3> QED
      BY <1>2, <2>1, <2>2, <3>1
  <2>3. CASE j = l + 1
    BY <1>2, <2>1, <2>3
  <2> QED
    BY <1>2, <1>3, <2>2, <2>3
<1> QED
  BY <1>2, <1>4, <1>5 DEF Lists, new, l

-----------------------------------------------------------------------------
(* Duos: a new entity of a combat *)

\* What the lines that create an entity have in common.
NewEntity(k, v) ==
  /\ k \in Entity /\ v \in 1..MaxStat /\ HandleEntityUpdate(k, v) /\ BoardsKept
  /\ UNCHANGED <<order, isDuos, partnerPlayerID, punishLeaversActive>>
  /\ gone \subseteq gone' /\ gone' \subseteq gone \cup Standing({"token"})
  /\ part \in {"own", "lead", "mate", "clash"}
  /\ \/ part' = part
     \/ part = "own" /\ part' = "lead" /\ order = <<"mate">> /\ k.kind = "hero"
  /\ swapped' = swapped \/ (swapped' /\ part' \in {"lead", "mate"})
  /\ part' = "lead" => swapped'
  /\ part' \in {"lead", "mate"} => k.kind # "token" /\ Standing({"token"}) \subseteq gone'
  /\ k.kind \in {"mate", "foe"} => k.pos \in Positions \ {ents[e].pos : e \in Standing({k.kind})}

LEMMA EntityLists ==
  ASSUME BoardsInv, NEW k, NEW v, NewEntity(k, v)
  PROVE  LET n == Len(ents) + 1
         IN  /\ n \notin Entities /\ Entities' = Entities \cup {n} /\ Entities = 1..(n - 1)
             /\ n \in Nat \ {0} /\ Entities' = 1..n
             /\ \A e \in Entities : e \in Nat /\ e < n
             /\ ents'[n] = k /\ stat'[n] = v
             /\ \A e \in Entities : ents'[e] = ents[e] /\ stat'[e] = stat[e]
             /\ EntitiesTyped' /\ n \notin gone'
             /\ \A kind \in {"hero", "mate", "foe"} :
                  Standing({kind})' = IF k.kind = kind THEN Standing({kind}) \cup {n} ELSE Standing({kind})
<1> DEFINE n == Len(ents) + 1
<1>1. /\ EntitiesTyped /\ k \in Entity /\ v \in 1..MaxStat /\ gone \subseteq Entities
      /\ ents' = Append(ents, k) /\ stat' = Append(stat, v)
      /\ gone \subseteq gone' /\ gone' \subseteq gone \cup Standing({"token"})
  BY DEF BoardsInv, BoardTypes, NewEntity, HandleEntityUpdate
<1>2. /\ n \in Nat \ {0} /\ n \notin Entities /\ Entities' = Entities \cup {n}
      /\ Entities' = 1..n /\ Entities = 1..(n - 1)
      /\ \A e \in Entities : e \in Nat /\ e < n
      /\ ents'[n] = k /\ stat'[n] = v
      /\ \A e \in Entities : ents'[e] = ents[e] /\ stat'[e] = stat[e]
      /\ EntitiesTyped'
  BY <1>1, EntityAdded, Zenon
<1>3. ASSUME NEW kind \in {"hero", "mate", "foe"}
      PROVE Standing({kind})' = IF k.kind = kind THEN Standing({kind}) \cup {n} ELSE Standing({kind})
  <2>1. kind # "token"
    OBVIOUS
  <2> QED
    BY <1>1, <2>1, StandingAdded
<1>4. n \notin gone'
  BY <1>1, <1>2 DEF Standing
<1> QED
  BY <1>2, <1>3, <1>4, Zenon

LEMMA NewEntityKeeps ==
  ASSUME BoardsInv, DuosInv', NEW k, NEW v, NewEntity(k, v)
  PROVE  BoardsInv'
<1> DEFINE n == Len(ents) + 1
           m == [id |-> n, stat |-> v]
           pm == partnerCombatMinions
           om == opponentCombatMinions
<1>1. /\ n \notin Entities /\ Entities' = Entities \cup {n} /\ Entities = 1..(n - 1)
      /\ n \in Nat \ {0} /\ Entities' = 1..n
      /\ \A e \in Entities : e \in Nat /\ e < n
      /\ ents'[n] = k /\ stat'[n] = v
      /\ \A e \in Entities : ents'[e] = ents[e] /\ stat'[e] = stat[e]
      /\ EntitiesTyped' /\ n \notin gone'
      /\ \A kind \in {"hero", "mate", "foe"} :
           Standing({kind})' = IF k.kind = kind THEN Standing({kind}) \cup {n} ELSE Standing({kind})
  BY EntityLists, Zenon
<1>2. /\ pm' = IF Setup /\ k.kind \in {"mate", "token"} THEN Append(pm, m) ELSE pm
      /\ om' = IF Setup /\ k.kind \in {"foe"} THEN Append(om, m) ELSE om
      /\ combatPhaseEntityIDs' = IF combatPhaseActive /\ isDuos THEN Append(combatPhaseEntityIDs, n)
                                 ELSE combatPhaseEntityIDs
      /\ UNCHANGED <<combatPhaseActive, partnerCombatActive, partnerBoardSetupDone>>
  BY DEF NewEntity, HandleEntityUpdate
<1>3. /\ UNCHANGED <<partnerBoard, opponentBoard, lastFight, localTurn>>
      /\ UNCHANGED <<order, isDuos, partnerPlayerID, punishLeaversActive>>
      /\ gone \subseteq gone' /\ gone' \subseteq gone \cup Standing({"token"})
      /\ part \in {"own", "lead", "mate", "clash"} /\ v \in 1..MaxStat /\ k \in Entity
      /\ \/ part' = part
         \/ part = "own" /\ part' = "lead" /\ order = <<"mate">> /\ k.kind = "hero"
      /\ swapped' = swapped \/ (swapped' /\ part' \in {"lead", "mate"})
      /\ part' = "lead" => swapped'
      /\ part' \in {"lead", "mate"} => k.kind # "token" /\ Standing({"token"}) \subseteq gone'
      /\ k.kind \in {"mate", "foe"} => k.pos \in Positions \ {ents[e].pos : e \in Standing({k.kind})}
  BY DEF NewEntity, BoardsKept
<1>4. /\ EntitiesTyped /\ gone \subseteq Entities /\ pm \in Seq(Minion) /\ om \in Seq(Minion)
      /\ partnerBoard \in BoardType /\ opponentBoard \in Seq(Minion)
      /\ lastFight \in FightType /\ localTurn \in Nat \ {0}
  BY DEF BoardsInv, BoardTypes
<1>5. m \in Minion /\ m.id = n /\ m.stat = v
  BY <1>1, <1>3 DEF Minion
<1> HIDE DEF n, m
<1>6. BoardTypes'
  <2>1. pm' \in Seq(Minion) /\ om' \in Seq(Minion)
    BY <1>2, <1>4, <1>5
  <2>2. gone' \subseteq Entities'
    BY <1>1, <1>3, <1>4 DEF Standing
  <2> QED
    BY <1>1, <1>3, <1>4, <2>1, <2>2 DEF BoardTypes
<1>7. part # "over" /\ part' # "over" /\ combatPhaseActive
  BY <1>3 DEF BoardsInv, InPart
<1>8. Detected'
  BY <1>3, <1>7 DEF BoardsInv, Detected
<1>9. InPart'
  BY <1>2, <1>3, <1>7 DEF BoardsInv, InPart
<1>10. partnerCombatActive => part' = part
  BY <1>3, <1>7 DEF BoardsInv, ActiveIn
<1>11. ActiveIn'
  BY <1>2, <1>3, <1>7, <1>10 DEF BoardsInv, ActiveIn
<1>12. Logged'
  <2>1. isDuos => combatPhaseEntityIDs' = [e \in Entities' |-> e]
    <3> SUFFICES ASSUME isDuos PROVE combatPhaseEntityIDs' = [e \in Entities' |-> e]
      OBVIOUS
    <3>1. /\ combatPhaseEntityIDs = [e \in 1..(n - 1) |-> e]
          /\ combatPhaseEntityIDs' = Append(combatPhaseEntityIDs, n)
      BY <1>1, <1>2, <1>7 DEF BoardsInv, Logged
    <3>2. n - 1 \in Nat /\ (n - 1) + 1 = n
      BY <1>1
    <3>3. combatPhaseEntityIDs \in Seq(Nat) /\ Len(combatPhaseEntityIDs) = n - 1
      BY <3>1, <3>2
    <3>4. /\ combatPhaseEntityIDs' \in Seq(Nat) /\ Len(combatPhaseEntityIDs') = n
          /\ \A e \in 1..n : combatPhaseEntityIDs'[e] = e
      BY <1>1, <3>1, <3>2, <3>3
    <3>5. DOMAIN combatPhaseEntityIDs' = 1..n
      BY <3>4
    <3> QED
      BY <1>1, <3>4, <3>5
  <2>2. part' \in {"lead", "mate"} => Standing({"token"})' = {}
    <3> SUFFICES ASSUME part' \in {"lead", "mate"}, NEW e \in Standing({"token"})' PROVE FALSE
      OBVIOUS
    <3>1. e \in Entities' /\ ents'[e].kind = "token" /\ e \notin gone'
      BY DEF Standing
    <3>2. e # n
      BY <1>1, <1>3, <3>1
    <3>3. e \in Entities /\ ents[e].kind = "token" /\ e \notin gone
      BY <1>1, <1>3, <3>1, <3>2
    <3>4. e \in Standing({"token"})
      BY <3>3 DEF Standing
    <3> QED
      BY <1>3, <3>1, <3>4
  <2>3. part' = "lead" => Standing({"hero"})' # {}
    <3>1. CASE part = "lead"
      BY <1>1, <3>1 DEF BoardsInv, Logged
    <3>2. CASE part = "own" /\ k.kind = "hero"
      BY <1>1, <3>2
    <3> QED
      BY <1>3, <3>1, <3>2
  <2> QED
    BY <1>2, <1>3, <1>7, <2>1, <2>2, <2>3 DEF Logged
<1>13. Placed'
  <2>1. \A e \in Entities' : ents'[e].kind \in {"mate", "foe"} => ents'[e].pos \in Positions
    BY <1>1, <1>3 DEF BoardsInv, Placed
  <2>2. ASSUME NEW kind \in {"mate", "foe"}, NEW e \in Standing({kind})', NEW f \in Standing({kind})',
               ents'[e].pos = ents'[f].pos
        PROVE  e = f
    <3>1. \A g \in Standing({kind}) : g \in Entities /\ ents'[g].pos = ents[g].pos
      BY <1>1 DEF Standing
    <3>2. \A g, h \in Standing({kind}) : ents[g].pos = ents[h].pos => g = h
      BY DEF BoardsInv, Placed
    <3>3. CASE k.kind # kind
      BY <1>1, <2>2, <3>1, <3>2, <3>3
    <3>4. CASE k.kind = kind
      <4>1. \A g \in Standing({kind}) : ents[g].pos # k.pos
        BY <1>3, <3>4
      <4>2. Standing({kind})' = Standing({kind}) \cup {n}
        BY <1>1, <3>4
      <4> QED
        BY <1>1, <2>2, <3>1, <3>2, <4>1, <4>2
    <3> QED
      BY <3>3, <3>4
  <2> QED
    BY <2>1, <2>2 DEF Placed
<1>14. Collecting'
  <2> SUFFICES ASSUME part' = "mate", partnerCombatActive'
               PROVE  /\ ~partnerBoardSetupDone'
                      /\ Lists(pm', Standing({"mate"})')
                      /\ \A i \in 1..Len(pm') : pm'[i].stat = stat'[pm'[i].id]
                      /\ Lists(om', Standing({"foe"})')
    BY DEF Collecting
  <2>1. /\ part = "mate" /\ partnerCombatActive /\ ~partnerBoardSetupDone /\ Setup
        /\ Lists(pm, Standing({"mate"})) /\ Lists(om, Standing({"foe"}))
        /\ \A i \in 1..Len(pm) : pm[i].stat = stat[pm[i].id]
    BY <1>2, <1>3, <1>10 DEF BoardsInv, Collecting, Setup
  <2>2. k.kind # "token"
    BY <1>3
  <2>3. Standing({"mate"}) \subseteq Entities /\ Standing({"foe"}) \subseteq Entities
    BY DEF Standing
  <2>4. Lists(pm', Standing({"mate"})') /\ \A i \in 1..Len(pm') : pm'[i].stat = stat'[pm'[i].id]
    <3>1. \A i \in 1..Len(pm) : pm[i].id \in Entities /\ pm[i].stat = stat'[pm[i].id]
      BY <1>1, <2>1, <2>3 DEF Lists
    <3>2. CASE k.kind = "mate"
      <4>1. pm' = Append(pm, m) /\ Standing({"mate"})' = Standing({"mate"}) \cup {m.id}
        BY <1>1, <1>2, <1>5, <2>1, <3>2
      <4>2. \A e \in Standing({"mate"}) : e \in Nat /\ e < m.id
        BY <1>1, <1>5, <2>3
      <4>3. /\ Lists(Append(pm, m), Standing({"mate"}) \cup {m.id})
            /\ Len(Append(pm, m)) = Len(pm) + 1 /\ Append(pm, m)[Len(pm) + 1] = m
            /\ \A i \in 1..Len(pm) : Append(pm, m)[i] = pm[i]
        BY <1>4, <1>5, <2>1, <4>2, ListGrows, Zenon
      <4>4. 1..(Len(pm) + 1) = (1..Len(pm)) \cup {Len(pm) + 1}
        BY <1>4
      <4>5. m.stat = stat'[m.id]
        BY <1>1, <1>5
      <4> QED
        BY <3>1, <4>1, <4>3, <4>4, <4>5
    <3>3. CASE k.kind # "mate"
      <4>1. pm' = pm /\ Standing({"mate"})' = Standing({"mate"})
        BY <1>1, <1>2, <2>2, <3>3
      <4> QED
        BY <2>1, <3>1, <4>1
    <3> QED
      BY <3>2, <3>3
  <2>5. Lists(om', Standing({"foe"})')
    <3>2. CASE k.kind = "foe"
      <4>1. om' = Append(om, m) /\ Standing({"foe"})' = Standing({"foe"}) \cup {m.id}
        BY <1>1, <1>2, <1>5, <2>1, <3>2
      <4>2. \A e \in Standing({"foe"}) : e \in Nat /\ e < m.id
        BY <1>1, <1>5, <2>3
      <4>3. Lists(Append(om, m), Standing({"foe"}) \cup {m.id})
        BY <1>4, <1>5, <2>1, <4>2, ListGrows, Zenon
      <4> QED
        BY <4>1, <4>3
    <3>3. CASE k.kind # "foe"
      BY <1>1, <1>2, <2>1, <3>3
    <3> QED
      BY <3>2, <3>3
  <2> QED
    BY <1>2, <2>1, <2>4, <2>5
<1>15. Waiting' = Waiting /\ Day' = Day
  BY <1>2, <1>3 DEF Waiting, Day
<1>16. Settled'
  <2> SUFFICES ASSUME Waiting'
               PROVE  LineUpCollected'
    BY DEF Settled
  <2>1. Waiting /\ LineUpCollected /\ partnerBoardSetupDone /\ ~Setup
    BY <1>15 DEF BoardsInv, Settled, LineUpCollected, Setup
  <2>2. pm' = pm /\ om' = om
    BY <1>2, <2>1
  <2>3. ByPosition(partnerCombatMinions)' = ByPosition(partnerCombatMinions)
    BY <1>1, <1>4, <2>1, <2>2, ByPositionStays DEF LineUpCollected
  <2>4. /\ IDs(partnerCombatMinions)' = IDs(partnerCombatMinions)
        /\ IDs(opponentCombatMinions)' = IDs(opponentCombatMinions)
    BY <2>2 DEF IDs
  <2> QED
    BY <1>1, <1>2, <1>3, <1>15, <2>1, <2>2, <2>3, <2>4 DEF LineUpCollected
<1>17. OnShow'
  BY <1>3, <1>7, <1>15 DEF BoardsInv, OnShow
<1> QED
  BY <1>6, <1>8, <1>9, <1>11, <1>12, <1>13, <1>14, <1>16, <1>17 DEF BoardsInv

LEMMA EntitiesKeep ==
  ASSUME BoardsInv, DuosInv', SwapIn \/ MateMinion \/ FoeMinion \/ Token
  PROVE  BoardsInv'
<1>1. CASE SwapIn
  <2> DEFINE k == [kind |-> "hero", pos |-> 0]
  <2>1. k \in Entity /\ 1 \in 1..MaxStat /\ k.kind = "hero"
    BY DuosAssumption DEF Entity
  <2>2. /\ HandleEntityUpdate(k, 1) /\ BoardsKept
        /\ UNCHANGED <<order, isDuos, partnerPlayerID, punishLeaversActive>>
        /\ swapped' = TRUE /\ gone' = gone \cup Standing({"token"})
        /\ \/ part = "own" /\ order = <<"mate">> /\ part' = "lead"
           \/ part = "mate" /\ part' = "mate"
    BY <1>1 DEF SwapIn, BoardsKept, duosVars, ghostVars
  <2>3. swapped \in BOOLEAN => (swapped' = swapped \/ (swapped' /\ part' \in {"lead", "mate"}))
    BY <2>2
  <2> HIDE DEF k
  <2>4. NewEntity(k, 1)
    BY <2>1, <2>2, <2>3 DEF NewEntity
  <2> QED
    BY <2>4, NewEntityKeeps
<1>2. ASSUME NEW kind \in {"mate", "foe", "token"},
             NEW pos \in Positions \ {ents[e].pos : e \in Standing({kind})},
             Summoned([kind |-> kind, pos |-> pos], 1),
             part \in {"own", "lead", "mate", "clash"}, part \in {"lead", "mate"} => kind # "token"
      PROVE  BoardsInv'
  <2> DEFINE k == [kind |-> kind, pos |-> pos]
  <2>1. k \in Entity /\ 1 \in 1..MaxStat
    BY DuosAssumption DEF Entity, Positions
  <2>2. /\ HandleEntityUpdate(k, 1) /\ BoardsKept
        /\ UNCHANGED <<order, isDuos, partnerPlayerID, punishLeaversActive, gone, part, swapped>>
    BY <1>2 DEF Summoned, BoardsKept, duosVars, machineVars, ghostVars
  <2>3. part \in {"lead", "mate"} => Standing({"token"}) = {}
    BY DEF BoardsInv, Logged
  <2>4. part = "lead" => swapped
    BY DEF BoardsInv, InPart
  <2>5. k.kind = kind /\ k.pos = pos
    OBVIOUS
  <2> HIDE DEF k
  <2>6. NewEntity(k, 1)
    BY <1>2, <2>1, <2>2, <2>3, <2>4, <2>5 DEF NewEntity
  <2> QED
    BY <2>6, NewEntityKeeps
<1>3. 1..MaxFoes \subseteq Positions
  BY DuosAssumption DEF Positions
<1>4. CASE MateMinion
  BY <1>2, <1>4 DEF MateMinion
<1>5. CASE FoeMinion
  BY <1>2, <1>3, <1>5 DEF FoeMinion
<1>6. CASE Token
  BY <1>2, <1>3, <1>6 DEF Token
<1> QED
  BY <1>1, <1>4, <1>5, <1>6

-----------------------------------------------------------------------------
(* Duos: the fight and the turn *)

\* A higher stat goes to the entry of the minion, while the board is set up.
LEMMA UpdateIs ==
  ASSUME NEW e, NEW v \in 1..MaxStat, partnerCombatMinions \in Seq(Minion), UpdatePartnerCombatMinion(e, v)
  PROVE  /\ partnerCombatMinions' \in Seq(Minion) /\ Len(partnerCombatMinions') = Len(partnerCombatMinions)
         /\ \A i \in 1..Len(partnerCombatMinions) :
              /\ partnerCombatMinions'[i].id = partnerCombatMinions[i].id
              /\ partnerCombatMinions'[i].stat = IF Setup /\ partnerCombatMinions[i].id = e THEN v
                                                 ELSE partnerCombatMinions[i].stat
         /\ ~Setup => partnerCombatMinions' = partnerCombatMinions
<1> DEFINE pm == partnerCombatMinions
           l == Len(pm)
<1>1. l \in Nat /\ DOMAIN pm = 1..l /\ \A i \in 1..l : pm[i] \in Minion
  OBVIOUS
<1>2. pm' = [i \in 1..l |-> IF Setup /\ pm[i].id = e THEN [pm[i] EXCEPT !.stat = v] ELSE pm[i]]
  BY <1>1 DEF UpdatePartnerCombatMinion
<1>3. \A m \in Minion : /\ [m EXCEPT !.stat = v] \in Minion
                        /\ [m EXCEPT !.stat = v].id = m.id /\ [m EXCEPT !.stat = v].stat = v
  BY DEF Minion
<1>4. ASSUME NEW i \in 1..l
      PROVE  /\ pm'[i] \in Minion /\ pm'[i].id = pm[i].id
             /\ pm'[i].stat = IF Setup /\ pm[i].id = e THEN v ELSE pm[i].stat
             /\ ~Setup => pm'[i] = pm[i]
  <2>1. pm'[i] = IF Setup /\ pm[i].id = e THEN [pm[i] EXCEPT !.stat = v] ELSE pm[i]
    BY <1>2
  <2>2. CASE Setup /\ pm[i].id = e
    BY <1>1, <1>3, <2>1, <2>2
  <2>3. CASE ~(Setup /\ pm[i].id = e)
    BY <1>1, <2>1, <2>3
  <2> QED
    BY <2>2, <2>3
<1>5. pm' \in [1..l -> Minion]
  <2>1. DOMAIN pm' = 1..l /\ pm' = [i \in 1..l |-> pm'[i]]
    BY <1>2
  <2> QED
    BY <1>4, <2>1
<1>6. pm' \in Seq(Minion) /\ Len(pm') = l
  BY <1>1, <1>5
<1>7. ~Setup => pm' = pm
  BY <1>4, <1>6, SeqEqual
<1> QED
  BY <1>4, <1>6, <1>7

LEMMA RaiseKeeps ==
  ASSUME BoardsInv, DuosInv', NEW e \in Standing({"token", "mate", "foe"}), Raise(e)
  PROVE  BoardsInv'
<1> DEFINE pm == partnerCombatMinions
           v == stat[e] + 1
<1>1. /\ EntitiesTyped /\ gone \subseteq Entities /\ pm \in Seq(Minion)
      /\ e \in 1..Len(ents) /\ e \in Entities
  BY DEF BoardsInv, BoardTypes, Standing, Entities
<1>2. /\ stat[e] < MaxStat /\ stat' = [stat EXCEPT ![e] = v]
      /\ \/ ents[e].kind = "mate" /\ part \in {"lead", "mate", "clash"}
         \/ ents[e].kind = "foe" /\ part \in {"own", "mate"}
      /\ IF ents[e].kind = "foe" THEN UNCHANGED partnerCombatMinions
                                 ELSE UpdatePartnerCombatMinion(e, stat'[e])
      /\ UNCHANGED <<localTurn, part, order, swapped, ents, gone, isDuos, partnerPlayerID, punishLeaversActive,
                     combatPhaseActive, combatPhaseEntityIDs, partnerCombatActive,
                     partnerBoardSetupDone, opponentCombatMinions, partnerBoard, opponentBoard, lastFight>>
  BY DEF Raise, duosVars, machineVars, ghostVars
<1>3. v \in 1..MaxStat
  BY <1>1, <1>2, DuosAssumption DEF EntitiesTyped
<1> HIDE DEF v
<1>4. /\ stat' \in [1..Len(ents) -> 1..MaxStat] /\ stat'[e] = v
      /\ \A f \in 1..Len(ents) : f # e => stat'[f] = stat[f]
  BY <1>1, <1>2, <1>3 DEF EntitiesTyped
<1>5. /\ pm' \in Seq(Minion) /\ Len(pm') = Len(pm)
      /\ \A i \in 1..Len(pm) : pm'[i].id = pm[i].id
      /\ ~Setup => pm' = pm
  <2>1. CASE ents[e].kind = "foe"
    BY <1>1, <1>2, <2>1
  <2>2. CASE ents[e].kind # "foe"
    BY <1>1, <1>2, <1>3, <1>4, <2>2, UpdateIs
  <2> QED
    BY <2>1, <2>2
<1>6. Entities' = Entities /\ \A kinds : Standing(kinds)' = Standing(kinds)
  BY <1>2 DEF Entities, Standing
<1>7. BoardTypes'
  BY <1>1, <1>2, <1>4, <1>5 DEF BoardsInv, BoardTypes, EntitiesTyped, Entities
<1>8. Detected' /\ InPart' /\ ActiveIn'
  BY <1>2 DEF BoardsInv, Detected, InPart, ActiveIn
<1>9. Logged' /\ Placed'
  BY <1>2, <1>6 DEF BoardsInv, Logged, Placed
<1>10. Collecting'
  <2> SUFFICES ASSUME part = "mate", partnerCombatActive
               PROVE  /\ ~partnerBoardSetupDone
                      /\ Lists(pm', Standing({"mate"}))
                      /\ \A i \in 1..Len(pm') : pm'[i].stat = stat'[pm'[i].id]
                      /\ Lists(opponentCombatMinions, Standing({"foe"}))
    BY <1>2, <1>6 DEF Collecting, Lists
  <2>1. /\ ~partnerBoardSetupDone /\ Setup
        /\ Lists(pm, Standing({"mate"})) /\ Lists(opponentCombatMinions, Standing({"foe"}))
        /\ \A i \in 1..Len(pm) : pm[i].stat = stat[pm[i].id]
    BY DEF BoardsInv, Collecting, Setup
  <2>2. \A i \in 1..Len(pm) : pm[i].id \in 1..Len(ents) /\ ents[pm[i].id].kind = "mate"
    BY <2>1 DEF Lists, Standing, Entities
  <2>3. Lists(pm', Standing({"mate"}))
    <3>1. ASSUME NEW x PROVE x \in {pm'[i].id : i \in 1..Len(pm)} <=> x \in {pm[i].id : i \in 1..Len(pm)}
      <4>1. \A i \in 1..Len(pm) : x = pm'[i].id <=> x = pm[i].id
        BY <1>5
      <4> QED
        BY <4>1
    <3>2. {pm'[i].id : i \in 1..Len(pm)} = {pm[i].id : i \in 1..Len(pm)}
      BY <3>1
    <3> QED
      BY <1>5, <2>1, <3>2 DEF Lists
  <2>4. ASSUME NEW i \in 1..Len(pm) PROVE pm'[i].stat = stat'[pm'[i].id]
    <3>1. CASE ents[e].kind = "foe"
      BY <1>2, <1>4, <2>1, <2>2, <3>1
    <3>2. CASE ents[e].kind # "foe"
      <4>1. pm'[i].stat = IF Setup /\ pm[i].id = e THEN v ELSE pm[i].stat
        BY <1>1, <1>2, <1>3, <1>4, <3>2, UpdateIs
      <4> QED
        BY <1>4, <1>5, <2>1, <2>2, <4>1
    <3> QED
      BY <3>1, <3>2
  <2> QED
    BY <1>5, <2>1, <2>3, <2>4
<1>11. Waiting' = Waiting /\ Day' = Day
  BY <1>2 DEF Waiting, Day
<1>12. Settled'
  <2> SUFFICES ASSUME Waiting PROVE LineUpCollected'
    BY <1>11 DEF Settled
  <2>1. LineUpCollected /\ ~Setup
    BY DEF BoardsInv, Settled, LineUpCollected, Setup
  <2>2. pm' = pm
    BY <1>5, <2>1
  <2>3. ByPosition(partnerCombatMinions)' = ByPosition(partnerCombatMinions)
    BY <1>2, <2>2 DEF ByPosition
  <2>4. /\ IDs(partnerCombatMinions)' = IDs(partnerCombatMinions)
        /\ IDs(opponentCombatMinions)' = IDs(opponentCombatMinions)
    BY <1>2, <2>2 DEF IDs
  <2> QED
    BY <1>2, <1>6, <1>11, <2>1, <2>2, <2>3, <2>4 DEF LineUpCollected
<1>13. OnShow'
  BY <1>2, <1>11 DEF BoardsInv, OnShow
<1> QED
  BY <1>7, <1>8, <1>9, <1>10, <1>12, <1>13 DEF BoardsInv

\* Fewer that stand, in a part where nothing is collected.
LEMMA GoneKeeps ==
  ASSUME BoardsInv, DuosInv', BoardsKept, UNCHANGED <<ents, stat, combatVars, isDuos, partnerPlayerID,
                                                     punishLeaversActive, order>>,
         gone \subseteq gone', gone' \subseteq Entities,
         \/ part = "own" /\ UNCHANGED <<part, swapped>>
         \/ part = "clash" /\ part' = "idle" /\ swapped' = FALSE
  PROVE  BoardsInv'
<1>1. /\ UNCHANGED <<ents, stat, combatPhaseActive, combatPhaseEntityIDs, partnerCombatActive,
                     partnerBoardSetupDone, partnerCombatMinions, opponentCombatMinions>>
      /\ UNCHANGED <<partnerBoard, opponentBoard, lastFight, localTurn>>
  BY DEF BoardsKept, combatVars
<1>2. Entities' = Entities /\ \A kinds : Standing(kinds)' \subseteq Standing(kinds)
  BY <1>1 DEF Entities, Standing
<1>3. BoardTypes'
  BY <1>1, <1>2 DEF BoardsInv, BoardTypes, EntitiesTyped
<1>4. Placed'
  BY <1>1, <1>2 DEF BoardsInv, Placed
<1>5. Detected' /\ ActiveIn'
  BY <1>1 DEF BoardsInv, Detected, ActiveIn
<1>6. InPart'
  <2>1. part = "clash" => order \in {<<>>, <<"own">>}
    BY DEF BoardsInv, InPart
  <2> QED
    BY <1>1, <2>1, OrderFacts DEF BoardsInv, InPart, Orders
<1>7. Logged'
  BY <1>1, <1>2 DEF BoardsInv, Logged
<1>8. Collecting'
  BY DEF Collecting
<1>9. Waiting' = Waiting /\ Day' = Day
  BY <1>1 DEF Waiting, Day
<1>10. Settled'
  <2>1. /\ ByPosition(partnerCombatMinions)' = ByPosition(partnerCombatMinions)
        /\ IDs(partnerCombatMinions)' = IDs(partnerCombatMinions)
        /\ IDs(opponentCombatMinions)' = IDs(opponentCombatMinions)
    BY <1>1 DEF ByPosition, IDs
  <2> QED
    BY <1>1, <1>2, <1>9, <2>1 DEF BoardsInv, Settled, LineUpCollected
<1>11. OnShow'
  BY <1>1, <1>9 DEF BoardsInv, OnShow
<1> QED
  BY <1>3, <1>4, <1>5, <1>6, <1>7, <1>8, <1>10, <1>11 DEF BoardsInv

LEMMA DieAndSwapOutKeep ==
  ASSUME BoardsInv, DuosInv', SwapOut \/ \E e \in Standing({"token", "mate", "foe"}) : Die(e)
  PROVE  BoardsInv'
<1>1. gone \subseteq Entities /\ \A kinds : Standing(kinds) \subseteq Entities
  BY DEF BoardsInv, BoardTypes, Standing
<1>2. CASE SwapOut
  <2>1. /\ BoardsKept /\ part = "clash" /\ part' = "idle" /\ swapped' = FALSE
        /\ gone' = gone \cup Standing({"mate", "token", "hero"})
        /\ UNCHANGED <<ents, stat, combatVars, isDuos, partnerPlayerID, punishLeaversActive, order>>
    BY <1>2 DEF SwapOut, BoardsKept, duosVars, ghostVars
  <2>2. gone \subseteq gone' /\ gone' \subseteq Entities
    BY <1>1, <2>1
  <2> QED
    BY <2>1, <2>2, GoneKeeps
<1>3. ASSUME NEW e \in Standing({"token", "mate", "foe"}), Die(e) PROVE BoardsInv'
  <2>1. /\ BoardsKept /\ part = "own" /\ UNCHANGED <<part, swapped>> /\ gone' = gone \cup {e}
        /\ UNCHANGED <<ents, stat, combatVars, isDuos, partnerPlayerID, punishLeaversActive, order>>
    BY <1>3 DEF Die, BoardsKept, duosVars, machineVars, ghostVars
  <2>2. gone \subseteq gone' /\ gone' \subseteq Entities
    BY <1>1, <2>1
  <2> QED
    BY <2>1, <2>2, GoneKeeps
<1> QED
  BY <1>2, <1>3

\* At the first attack the line-up is what was collected.
LEMMA MateAttackKeeps ==
  ASSUME BoardsInv, DuosInv', MateAttack
  PROVE  BoardsInv'
<1> DEFINE c == Collected([e \in Entities |-> e], {"mate"})
           pm == partnerCombatMinions
           om == opponentCombatMinions
<1>1. /\ part = "mate" /\ swapped /\ part' = "clash"
      /\ partnerBoardSetupDone' = (partnerBoardSetupDone \/ partnerCombatActive)
      /\ lastFight' = [turn |-> localTurn, known |-> isDuos,
                       lineup |-> ByPosition(c), foes |-> Standing({"foe"})]
      /\ UNCHANGED <<localTurn, order, swapped, ents, stat, gone, isDuos, partnerPlayerID, punishLeaversActive,
                     combatPhaseActive, combatPhaseEntityIDs, partnerCombatActive,
                     partnerCombatMinions, opponentCombatMinions, partnerBoard, opponentBoard>>
  BY DEF MateAttack, duosVars, machineVars
<1>2. /\ EntitiesTyped /\ localTurn \in Nat \ {0} /\ isDuos \in BOOLEAN
      /\ pm \in Seq(Minion) /\ om \in Seq(Minion)
  BY DEF BoardsInv, BoardTypes, DuosInv, SplitTypes
<1>3. c \in Seq(Minion) /\ Lists(c, Standing({"mate"})) /\ \A i \in 1..Len(c) : c[i].stat = stat[c[i].id]
  BY <1>2, CollectedIs
<1> HIDE DEF c
<1>4. Standing({"mate"}) \subseteq Entities /\ Standing({"foe"}) \subseteq Entities /\ Entities \subseteq Nat
  BY <1>2 DEF Standing, EntitiesTyped, Entities
<1>5. IDs(c) \subseteq Entities
  BY <1>3, <1>4, IDsAre DEF Lists
<1>6. ByPosition(c) \in Seq(Minion)
  BY <1>2, <1>3, <1>5, ByPositionIs
<1>7. lastFight' \in FightType /\ lastFight'.known = isDuos /\ lastFight'.turn = localTurn
      /\ lastFight'.lineup = ByPosition(c) /\ lastFight'.foes = Standing({"foe"})
  BY <1>1, <1>2, <1>4, <1>6 DEF FightType
<1>8. Entities' = Entities /\ \A kinds : Standing(kinds)' = Standing(kinds)
  BY <1>1 DEF Entities, Standing
<1>9. BoardTypes'
  BY <1>1, <1>7, <1>8 DEF BoardsInv, BoardTypes, EntitiesTyped
<1>10. Detected' /\ InPart' /\ ActiveIn'
  BY <1>1, <1>7 DEF BoardsInv, Detected, InPart, ActiveIn
<1>11. Logged' /\ Placed' /\ Collecting'
  BY <1>1, <1>8 DEF BoardsInv, Logged, Placed, Collecting
<1>12. Settled'
  <2> SUFFICES ASSUME partnerCombatActive PROVE LineUpCollected'
    BY <1>1 DEF Settled, Waiting
  <2>1. /\ Lists(pm, Standing({"mate"})) /\ Lists(om, Standing({"foe"}))
        /\ \A i \in 1..Len(pm) : pm[i].stat = stat[pm[i].id]
    BY <1>1 DEF BoardsInv, Collecting
  <2>2. c = pm
    BY <1>2, <1>3, <2>1, ListIsOne
  <2>3. IDs(pm) = Standing({"mate"}) /\ IDs(om) = Standing({"foe"})
    BY <1>2, <2>1, IDsAre DEF Lists
  <2>4. /\ \A e \in Standing({"mate"}) : ents[e].pos \in Positions
        /\ \A e \in Standing({"foe"}) : ents[e].pos \in Positions
        /\ \A e, f \in Standing({"mate"}) : ents[e].pos = ents[f].pos => e = f
        /\ \A e, f \in Standing({"foe"}) : ents[e].pos = ents[f].pos => e = f
    BY DEF BoardsInv, Placed, Standing
  <2>5. Len(pm) <= MaxBoard /\ Len(om) <= MaxBoard
    BY <1>2, <1>4, <2>1, <2>4, ListFits
  <2>6. /\ ByPosition(partnerCombatMinions)' = ByPosition(partnerCombatMinions)
        /\ IDs(partnerCombatMinions)' = IDs(partnerCombatMinions)
        /\ IDs(opponentCombatMinions)' = IDs(opponentCombatMinions)
    BY <1>1 DEF ByPosition, IDs
  <2>7. Day' = localTurn /\ partnerBoardSetupDone'
    BY <1>1 DEF Day
  <2> QED
    BY <1>1, <1>4, <1>7, <1>8, <2>2, <2>3, <2>5, <2>6, <2>7 DEF LineUpCollected
<1>13. OnShow'
  <2>1. isDuos => partnerCombatActive
    BY <1>1 DEF BoardsInv, DuosInv, PartsKnown
  <2> QED
    BY <1>1, <1>7, <2>1 DEF OnShow, Waiting
<1> QED
  BY <1>9, <1>10, <1>11, <1>12, <1>13 DEF BoardsInv

\* The next turn begins in the log before the flag is reset.
LEMMA TurnOddKeeps ==
  ASSUME BoardsInv, DuosInv', TurnOdd
  PROVE  BoardsInv'
<1>1. /\ part \in {"own", "idle"} /\ order = <<>> /\ part' = "after" /\ localTurn' = localTurn + 1
      /\ UNCHANGED <<order, swapped, ents, stat, gone, isDuos, partnerPlayerID, punishLeaversActive,
                     combatPhaseActive, combatPhaseEntityIDs, partnerCombatActive, partnerBoardSetupDone,
                     partnerCombatMinions, opponentCombatMinions, partnerBoard, opponentBoard, lastFight>>
  BY DEF TurnOdd, duosVars, combatVars, machineVars, ghostVars
<1>2. localTurn \in Nat \ {0} /\ localTurn' \in Nat \ {0}
  BY <1>1 DEF BoardsInv, BoardTypes
<1>3. Day' = Day
  BY <1>1, <1>2 DEF Day
<1>4. part = "own" => ~partnerCombatActive
  BY DEF BoardsInv, DuosInv, PartsKnown
<1>5. Waiting' = Waiting
  BY <1>1, <1>4 DEF Waiting
<1>6. Entities' = Entities /\ \A kinds : Standing(kinds)' = Standing(kinds)
  BY <1>1 DEF Entities, Standing
<1>7. BoardTypes'
  BY <1>1, <1>2, <1>6 DEF BoardsInv, BoardTypes, EntitiesTyped
<1>8. Detected' /\ InPart' /\ ActiveIn'
  BY <1>1, <1>4 DEF BoardsInv, Detected, InPart, ActiveIn
<1>9. Logged' /\ Placed' /\ Collecting'
  BY <1>1, <1>6 DEF BoardsInv, Logged, Placed, Collecting
<1>10. Settled'
  <2>1. /\ ByPosition(partnerCombatMinions)' = ByPosition(partnerCombatMinions)
        /\ IDs(partnerCombatMinions)' = IDs(partnerCombatMinions)
        /\ IDs(opponentCombatMinions)' = IDs(opponentCombatMinions)
    BY <1>1 DEF ByPosition, IDs
  <2> QED
    BY <1>1, <1>3, <1>5, <1>6, <2>1 DEF BoardsInv, Settled, LineUpCollected
<1>11. OnShow'
  BY <1>1, <1>3, <1>5 DEF BoardsInv, OnShow
<1> QED
  BY <1>7, <1>8, <1>9, <1>10, <1>11 DEF BoardsInv

\* The next combat makes the partner board stale.
LEMMA BeginCombatKeeps ==
  ASSUME BoardsInv, DuosInv', BeginCombat
  PROVE  BoardsInv'
<1>1. /\ part = "recruit" /\ part' = "idle" /\ order' \in {<<"own">>, <<"own", "mate">>, <<"mate", "own">>}
      /\ partnerBoard' = IF isDuos THEN [partnerBoard EXCEPT !.stale = TRUE] ELSE partnerBoard
      /\ UNCHANGED <<localTurn, swapped, ents, stat, gone, isDuos, partnerPlayerID, punishLeaversActive,
                     combatPhaseActive, combatPhaseEntityIDs, partnerCombatActive, partnerBoardSetupDone,
                     partnerCombatMinions, opponentCombatMinions, opponentBoard, lastFight>>
  BY DEF BeginCombat, MarkStale, duosVars, combatVars, ghostVars
<1>2. localTurn \in Nat \ {0} /\ partnerBoard \in BoardType /\ lastFight \in FightType
  BY DEF BoardsInv, BoardTypes
<1>3. ~partnerCombatActive /\ ~combatPhaseActive /\ ~swapped
  BY <1>1 DEF BoardsInv, ActiveIn, InPart
<1>4. /\ partnerBoard' \in BoardType /\ partnerBoard'.minions = partnerBoard.minions
      /\ partnerBoard'.turn = partnerBoard.turn
      /\ isDuos => partnerBoard'.stale = TRUE
  BY <1>1, <1>2 DEF BoardType
<1>5. Entities' = Entities /\ \A kinds : Standing(kinds)' = Standing(kinds)
  BY <1>1 DEF Entities, Standing
<1>6. BoardTypes'
  BY <1>1, <1>4, <1>5 DEF BoardsInv, BoardTypes, EntitiesTyped
<1>7. order' \in Orders \ {<<"mate">>}
  BY <1>1, OrderFacts DEF Orders
<1>8. Detected' /\ InPart' /\ ActiveIn'
  BY <1>1, <1>3, <1>7 DEF BoardsInv, Detected, InPart, ActiveIn
<1>9. Logged' /\ Placed' /\ Collecting'
  BY <1>1, <1>5 DEF BoardsInv, Logged, Placed, Collecting
<1>10. Settled'
  BY <1>1, <1>3 DEF Settled, Waiting
<1>11. OnShow'
  <2> SUFFICES ASSUME lastFight.known PROVE OnShow'
    BY <1>1, Zenon DEF OnShow
  <2>1. isDuos
    BY <1>1 DEF BoardsInv, Detected
  <2>2. /\ lastFight.turn <= Day
        /\ lastFight.lineup # <<>> =>
             /\ partnerBoard.minions = lastFight.lineup
             /\ partnerBoard.turn \in {lastFight.turn, lastFight.turn + 1}
        /\ lastFight.foes # {} => IDs(opponentBoard) = lastFight.foes
    BY <1>1, <1>3 DEF BoardsInv, OnShow, Waiting
  <2>3. Day' = localTurn /\ Day = localTurn - 1 /\ lastFight.turn \in Nat
    BY <1>1, <1>2 DEF Day, FightType
  <2>4. lastFight.turn <= Day' /\ (lastFight.turn # Day') = TRUE
    BY <1>2, <2>2, <2>3
  <2>5. partnerBoard'.stale = (lastFight.turn # Day')
    BY <1>4, <2>1, <2>4, Zenon
  <2>6. IDs(opponentBoard)' = IDs(opponentBoard)
    BY <1>1 DEF IDs
  <2> QED
    BY <1>1, <1>4, <2>2, <2>4, <2>5, <2>6, Zenon DEF OnShow
<1> QED
  BY <1>6, <1>8, <1>9, <1>10, <1>11 DEF BoardsInv

-----------------------------------------------------------------------------
(* Duos: the flag *)

\* The boards a partner's combat leaves are those its fight began with.
LEMMA FinalizeShows ==
  ASSUME BoardsInv, part # "over", FinalizePartnerCombat(partnerCombatActive),
         UNCHANGED <<lastFight, localTurn>>,
         partnerCombatActive => Waiting, ~Waiting', Day' = Day
  PROVE  partnerBoard' \in BoardType /\ opponentBoard' \in Seq(Minion) /\ OnShow'
<1> DEFINE pm == partnerCombatMinions
           om == opponentCombatMinions
<1>1. /\ EntitiesTyped /\ pm \in Seq(Minion) /\ om \in Seq(Minion) /\ partnerBoard \in BoardType
      /\ opponentBoard \in Seq(Minion) /\ localTurn \in Nat \ {0} /\ lastFight \in FightType
  BY DEF BoardsInv, BoardTypes
<1>2. CASE ~partnerCombatActive
  <2>1. UNCHANGED <<partnerBoard, opponentBoard>>
    BY <1>2 DEF FinalizePartnerCombat
  <2>2. ~Waiting
    BY <1>2 DEF Waiting
  <2> QED
    BY <1>1, <2>1, <2>2 DEF BoardsInv, OnShow, IDs
<1>3. CASE partnerCombatActive
  <2>1. LineUpCollected
    BY <1>3 DEF BoardsInv, Settled
  <2>2. /\ lastFight.turn = Day /\ lastFight.lineup = ByPosition(pm) /\ lastFight.foes = IDs(om)
        /\ Len(pm) <= MaxBoard /\ Len(om) <= MaxBoard
        /\ IDs(pm) \subseteq Entities /\ IDs(om) \subseteq Entities
    BY <2>1 DEF LineUpCollected
  <2>3. /\ Kept(pm) = ByPosition(pm) /\ ByPosition(pm) \in Seq(Minion) /\ Len(ByPosition(pm)) = Len(pm)
    BY <1>1, <2>2, KeptIsAll, ByPositionIs
  <2>4. /\ Kept(om) = ByPosition(om) /\ ByPosition(om) \in Seq(Minion) /\ IDs(ByPosition(om)) = IDs(om)
    BY <1>1, <2>2, KeptIsAll, ByPositionIs
  <2>5. partnerBoard' = IF pm # <<>> THEN [minions |-> Kept(pm), turn |-> localTurn, stale |-> FALSE]
                        ELSE partnerBoard
    BY <1>3 DEF FinalizePartnerCombat
  <2>6. opponentBoard' = IF om # <<>> THEN Kept(om) ELSE opponentBoard
    BY <1>3 DEF FinalizePartnerCombat
  <2>7. partnerBoard' \in BoardType /\ opponentBoard' \in Seq(Minion)
    <3>1. [minions |-> Kept(pm), turn |-> localTurn, stale |-> FALSE] \in BoardType
      BY <1>1, <2>3 DEF BoardType
    <3> QED
      BY <1>1, <2>4, <2>5, <2>6, <3>1
  <2>8. lastFight.lineup # <<>> => pm # <<>>
    <3> SUFFICES ASSUME pm = <<>> PROVE ByPosition(pm) = <<>>
      BY <2>2
    <3>1. Len(ByPosition(pm)) = 0 /\ ByPosition(pm) \in Seq(Minion)
      BY <2>3
    <3> QED
      BY <3>1, EmptySeq
  <2>9. lastFight.foes # {} => om # <<>>
    BY <2>2 DEF IDs
  <2>10. lastFight.turn <= Day /\ localTurn \in {lastFight.turn, lastFight.turn + 1}
    BY <1>1, <2>2 DEF Day
  <2>11. lastFight.lineup # <<>> =>
           /\ partnerBoard'.minions = lastFight.lineup /\ partnerBoard'.turn = localTurn
           /\ partnerBoard'.stale = FALSE
    BY <2>2, <2>3, <2>5, <2>8
  <2>12. lastFight.foes # {} => IDs(opponentBoard)' = lastFight.foes
    <3>1. IDs(opponentBoard)' = IDs(opponentBoard')
      BY DEF IDs
    <3> QED
      BY <2>2, <2>4, <2>6, <2>9, <3>1
  <2>13. (lastFight.turn # Day) = FALSE
    BY <2>2
  <2>14. lastFight' = lastFight /\ Day' = Day
    OBVIOUS
  <2>15. lastFight.lineup # <<>> => partnerBoard'.stale = (lastFight.turn # Day)
    BY <2>11, <2>13, Zenon
  <2>16. lastFight.lineup # <<>> => partnerBoard'.turn \in {lastFight.turn, lastFight.turn + 1}
    BY <2>10, <2>11, Zenon
  <2> QED
    BY <2>7, <2>10, <2>11, <2>12, <2>14, <2>15, <2>16, Zenon DEF OnShow
<1> QED
  BY <1>2, <1>3

\* The partner's flag collects what stands, when the hero is there before it.
LEMMA RetroCollects ==
  ASSUME EntitiesTyped, NEW kinds, NEW ids, ids = [e \in Entities |-> e],
         ids = <<>> \/ Standing({"hero"}) # {}
  PROVE  LET r == Retro(ids, kinds)
         IN  /\ r \in Seq(Minion) /\ Lists(r, Standing(kinds))
             /\ \A i \in 1..Len(r) : r[i].stat = stat[r[i].id]
<1>1. CASE ids # <<>> /\ Standing({"hero"}) # {}
  <2>1. PICK e \in Entities : ents[e].kind = "hero" /\ e \notin gone
    BY <1>1 DEF Standing
  <2>2. Retro(ids, kinds) = Collected([f \in Entities |-> f], kinds)
    BY <2>1 DEF Retro
  <2> QED
    BY <2>2, CollectedIs
<1>2. CASE ids = <<>>
  <2>1. Entities = {}
    <3>1. DOMAIN ids = {} /\ DOMAIN ids = Entities
      BY <1>2
    <3> QED
      BY <3>1
  <2>2. Retro(ids, kinds) = <<>>
    BY <1>2 DEF Retro
  <2>3. Standing(kinds) = {}
    BY <2>1 DEF Standing
  <2> QED
    BY <2>2, <2>3 DEF Lists
<1> QED
  BY <1>1, <1>2

LEMMA PartnersFlagKeeps ==
  ASSUME BoardsInv, DuosInv', Flag("mate")
  PROVE  BoardsInv'
<1> DEFINE ids == IF ~combatPhaseActive THEN <<>> ELSE combatPhaseEntityIDs
           pm == partnerCombatMinions
           om == opponentCombatMinions
<1>1. /\ order # <<>> /\ Head(order) = "mate" /\ part' = "mate" /\ order' = Tail(order)
      /\ IF swapped THEN part = "lead" ELSE part = "idle"
      /\ FinalizePartnerCombat(partnerCombatActive /\ "mate" # partnerPlayerID)
      /\ combatPhaseActive' = TRUE /\ combatPhaseEntityIDs' = ids
      /\ partnerPlayerID' = IF isDuos THEN "mate" ELSE partnerPlayerID
      /\ partnerCombatActive' = ("mate" = partnerPlayerID')
      /\ UNCHANGED <<localTurn, swapped, ents, stat, gone, isDuos, punishLeaversActive, lastFight>>
  BY DEF Flag, OnCombatPlayerChanged, ResolvePartner, NoOne, ghostVars
<1>2. ~partnerCombatActive
  <2>1. partnerCombatActive => part \in {"idle", "lead"} /\ order \in {<<>>, <<"own">>}
    BY <1>1 DEF BoardsInv, ActiveIn
  <2> QED
    BY <1>1, <2>1, OrderFacts
<1>3. "mate" = partnerPlayerID' <=> isDuos
  BY <1>1 DEF BoardsInv, Detected, DuosInv, SplitTypes
<1>4. /\ partnerCombatActive' <=> isDuos
      /\ partnerBoardSetupDone' = (partnerBoardSetupDone /\ ~isDuos)
      /\ pm' = IF isDuos THEN Retro(ids, {"mate", "token"}) ELSE pm
      /\ om' = IF isDuos THEN Retro(ids, {"foe"}) ELSE om
  BY <1>1, <1>2, <1>3 DEF Flag, OnCombatPlayerChanged, NoOne
<1>5. /\ EntitiesTyped /\ gone \subseteq Entities /\ pm \in Seq(Minion) /\ om \in Seq(Minion)
      /\ partnerBoard \in BoardType /\ opponentBoard \in Seq(Minion)
      /\ lastFight \in FightType /\ localTurn \in Nat \ {0}
  BY DEF BoardsInv, BoardTypes
<1>6. /\ part \in {"lead", "idle"}
      /\ part = "lead" => /\ swapped /\ order = <<"mate">> /\ combatPhaseActive
                          /\ Standing({"hero"}) # {} /\ Standing({"token"}) = {}
      /\ part = "idle" => ~swapped /\ order = <<"mate", "own">> /\ ents = <<>> /\ ids = <<>>
  <2>1. part \in {"lead", "idle"}
    BY <1>1
  <2>2. part = "lead" => /\ swapped /\ order = <<"mate">> /\ combatPhaseActive
                         /\ Standing({"hero"}) # {} /\ Standing({"token"}) = {}
    BY DEF BoardsInv, InPart, Logged
  <2>3. part = "idle" => ~swapped /\ order = <<"mate", "own">> /\ ents = <<>> /\ ids = <<>>
    <3> SUFFICES ASSUME part = "idle" PROVE ~swapped /\ order = <<"mate", "own">> /\ ents = <<>> /\ ids = <<>>
      OBVIOUS
    <3>1. ~swapped /\ order \in Orders \ {<<"mate">>}
      BY DEF BoardsInv, InPart
    <3>2. order = <<"mate", "own">>
      BY <1>1, <3>1, OrderFacts DEF Orders
    <3>3. ~combatPhaseActive
      BY <3>2 DEF BoardsInv, InPart
    <3>4. ents = <<>>
      BY <3>3 DEF BoardsInv, Logged
    <3> QED
      BY <3>1, <3>2, <3>3, <3>4
  <2> QED
    BY <2>1, <2>2, <2>3
<1>7. order' \in {<<>>, <<"own">>}
  BY <1>1, <1>6, OrderFacts
<1>8. isDuos => ids = [e \in Entities |-> e] /\ (ids = <<>> \/ Standing({"hero"}) # {})
  <2>1. CASE part = "lead"
    BY <1>6, <2>1 DEF BoardsInv, Logged
  <2>2. CASE part = "idle"
    <3>1. Entities = {}
      BY <1>6, <2>2 DEF Entities
    <3>2. <<>> = [e \in Entities |-> e]
      BY <3>1
    <3> QED
      BY <1>6, <2>2, <3>2
  <2> QED
    BY <1>6, <2>1, <2>2
<1> HIDE DEF ids
<1>9. isDuos => /\ pm' \in Seq(Minion) /\ Lists(pm', Standing({"mate", "token"}))
                /\ \A i \in 1..Len(pm') : pm'[i].stat = stat[pm'[i].id]
                /\ om' \in Seq(Minion) /\ Lists(om', Standing({"foe"}))
  BY <1>4, <1>5, <1>8, RetroCollects
<1>10. Standing({"token"}) = {} /\ Standing({"mate", "token"}) = Standing({"mate"})
  <2>1. CASE part = "lead"
    BY <1>6, <2>1 DEF Standing
  <2>2. CASE part = "idle"
    <3>1. Entities = {}
      BY <1>6, <2>2 DEF Entities
    <3> QED
      BY <3>1 DEF Standing
  <2> QED
    BY <1>6, <2>1, <2>2
<1>11. Entities' = Entities /\ \A kinds : Standing(kinds)' = Standing(kinds)
  BY <1>1 DEF Entities, Standing
<1>12. Waiting' = FALSE /\ Day' = Day /\ ~Waiting
  BY <1>1, <1>2, <1>6 DEF Waiting, Day
<1>13. partnerBoard' \in BoardType /\ opponentBoard' \in Seq(Minion) /\ OnShow'
  <2>1. FinalizePartnerCombat(partnerCombatActive)
    BY <1>1, <1>2 DEF FinalizePartnerCombat
  <2>2. part # "over"
    BY <1>6
  <2> QED
    BY <1>1, <1>2, <1>12, <2>1, <2>2, FinalizeShows
<1>14. BoardTypes'
  <2>1. pm' \in Seq(Minion) /\ om' \in Seq(Minion)
    BY <1>4, <1>5, <1>9
  <2> QED
    BY <1>1, <1>5, <1>11, <1>13, <2>1 DEF BoardTypes, EntitiesTyped
<1>15. Detected'
  BY <1>1, <1>3, <1>6 DEF BoardsInv, Detected
<1>16. InPart'
  BY <1>1, <1>7 DEF InPart
<1>17. ActiveIn'
  BY <1>1, <1>4, <1>7 DEF ActiveIn
<1>18. Logged'
  BY <1>1, <1>8, <1>10, <1>11 DEF Logged
<1>19. Placed'
  BY <1>1, <1>11 DEF BoardsInv, Placed
<1>20. Collecting'
  <2> SUFFICES ASSUME isDuos
               PROVE  /\ ~partnerBoardSetupDone'
                      /\ Lists(pm', Standing({"mate"})')
                      /\ \A i \in 1..Len(pm') : pm'[i].stat = stat'[pm'[i].id]
                      /\ Lists(om', Standing({"foe"})')
    BY <1>4 DEF Collecting
  <2> QED
    BY <1>1, <1>4, <1>9, <1>10, <1>11
<1>21. Settled'
  BY <1>12 DEF Settled
<1> QED
  BY <1>13, <1>14, <1>15, <1>16, <1>17, <1>18, <1>19, <1>20, <1>21 DEF BoardsInv

\* The local player's flag ends a partner's combat.
LEMMA OwnFlagKeeps ==
  ASSUME BoardsInv, DuosInv', Flag("own")
  PROVE  BoardsInv'
<1> DEFINE ids == IF ~combatPhaseActive THEN <<>> ELSE combatPhaseEntityIDs
           pm == partnerCombatMinions
           om == opponentCombatMinions
<1>1. partnerPlayerID \in {"mate", "none"}
  BY DEF BoardsInv, DuosInv, SplitTypes
<1>2. /\ order # <<>> /\ Head(order) = "own" /\ part' = "own" /\ order' = Tail(order)
      /\ IF swapped THEN part = "lead" ELSE part = "idle"
      /\ FinalizePartnerCombat(partnerCombatActive /\ "own" # partnerPlayerID)
      /\ combatPhaseActive' = TRUE /\ combatPhaseEntityIDs' = ids
      /\ partnerPlayerID' = partnerPlayerID /\ ~partnerCombatActive'
      /\ UNCHANGED <<localTurn, swapped, ents, stat, gone, isDuos, punishLeaversActive, lastFight>>
  BY <1>1 DEF Flag, OnCombatPlayerChanged, ResolvePartner, NoOne, ghostVars
<1>3. /\ pm' = IF partnerCombatActive THEN <<>> ELSE pm
      /\ om' = IF partnerCombatActive THEN <<>> ELSE om
  BY <1>1, <1>2 DEF Flag, OnCombatPlayerChanged, NoOne
<1>4. part = "idle" /\ ~swapped
  <2>1. part = "lead" => order = <<"mate">>
    BY DEF BoardsInv, InPart
  <2> QED
    BY <1>2, <2>1, OrderFacts
<1>5. order \in {<<"own">>, <<"own", "mate">>}
  <2>1. order \in Orders \ {<<"mate">>}
    BY <1>4 DEF BoardsInv, InPart
  <2> QED
    BY <1>2, <2>1, OrderFacts DEF Orders
<1>6. order' \in {<<>>, <<"mate">>}
  BY <1>2, <1>5, OrderFacts
<1>7. /\ EntitiesTyped /\ gone \subseteq Entities /\ pm \in Seq(Minion) /\ om \in Seq(Minion)
      /\ lastFight \in FightType /\ localTurn \in Nat \ {0}
  BY DEF BoardsInv, BoardTypes
<1>8. isDuos => ids = [e \in Entities |-> e]
  <2>1. CASE combatPhaseActive
    BY <2>1 DEF BoardsInv, Logged
  <2>2. CASE ~combatPhaseActive
    <3>1. ents = <<>>
      BY <1>4, <2>2 DEF BoardsInv, Logged
    <3>2. Entities = {}
      BY <3>1 DEF Entities
    <3> QED
      BY <2>2, <3>2
  <2> QED
    BY <2>1, <2>2
<1> HIDE DEF ids
<1>9. Entities' = Entities /\ \A kinds : Standing(kinds)' = Standing(kinds)
  BY <1>2 DEF Entities, Standing
<1>10. Waiting' = FALSE /\ Day' = Day /\ (partnerCombatActive => Waiting)
  BY <1>2, <1>4 DEF Waiting, Day
<1>11. partnerBoard' \in BoardType /\ opponentBoard' \in Seq(Minion) /\ OnShow'
  <2>1. FinalizePartnerCombat(partnerCombatActive)
    BY <1>1, <1>2 DEF FinalizePartnerCombat
  <2>2. part # "over"
    BY <1>4
  <2> QED
    BY <1>2, <1>10, <2>1, <2>2, FinalizeShows
<1>12. BoardTypes'
  <2>1. pm' \in Seq(Minion) /\ om' \in Seq(Minion)
    BY <1>3, <1>7
  <2> QED
    BY <1>2, <1>7, <1>9, <1>11, <2>1 DEF BoardTypes, EntitiesTyped
<1>13. Detected' /\ InPart' /\ ActiveIn'
  BY <1>2, <1>4, <1>6 DEF BoardsInv, Detected, InPart, ActiveIn
<1>14. Logged'
  BY <1>2, <1>8, <1>9 DEF Logged
<1>15. Placed'
  BY <1>2, <1>9 DEF BoardsInv, Placed
<1>16. Collecting' /\ Settled'
  BY <1>2, <1>10 DEF Collecting, Settled
<1> QED
  BY <1>11, <1>12, <1>13, <1>14, <1>15, <1>16 DEF BoardsInv

\* Flag 0 ends the combat, and a partner's with it; the combat's entities go.
LEMMA CombatEndKeeps ==
  ASSUME BoardsInv, DuosInv', FlagZero
  PROVE  BoardsInv'
<1> DEFINE pm == partnerCombatMinions
           om == opponentCombatMinions
<1>1. /\ part = "after" /\ part' = "recruit" /\ ents' = <<>> /\ stat' = <<>> /\ gone' = {}
      /\ FinalizePartnerCombat(partnerCombatActive /\ "none" # partnerPlayerID)
      /\ ~combatPhaseActive' /\ ~partnerCombatActive' /\ partnerPlayerID' = partnerPlayerID
      /\ pm' = IF partnerCombatActive /\ "none" # partnerPlayerID THEN <<>> ELSE pm
      /\ om' = IF partnerCombatActive /\ "none" # partnerPlayerID THEN <<>> ELSE om
      /\ UNCHANGED <<localTurn, order, swapped, isDuos, punishLeaversActive, lastFight>>
  BY DEF FlagZero, OnCombatPlayerChanged, ResolvePartner, NoOne, ghostVars
<1>2. order = <<>> /\ ~swapped /\ (partnerCombatActive => partnerPlayerID = "mate")
  BY <1>1 DEF BoardsInv, InPart, ActiveIn
<1>3. pm \in Seq(Minion) /\ om \in Seq(Minion) /\ lastFight \in FightType /\ localTurn \in Nat \ {0}
  BY DEF BoardsInv, BoardTypes
<1>4. Entities' = {} /\ \A kinds : Standing(kinds)' = {}
  BY <1>1 DEF Entities, Standing
<1>5. Waiting' = FALSE /\ Day' = Day /\ (partnerCombatActive => Waiting)
  BY <1>1 DEF Waiting, Day
<1>6. partnerBoard' \in BoardType /\ opponentBoard' \in Seq(Minion) /\ OnShow'
  <2>1. FinalizePartnerCombat(partnerCombatActive)
    BY <1>1, <1>2 DEF FinalizePartnerCombat
  <2> QED
    BY <1>1, <1>5, <2>1, FinalizeShows
<1>7. BoardTypes'
  <2>1. pm' \in Seq(Minion) /\ om' \in Seq(Minion)
    BY <1>1, <1>3
  <2>2. EntitiesTyped'
    BY <1>1 DEF EntitiesTyped
  <2> QED
    BY <1>1, <1>3, <1>6, <2>1, <2>2 DEF BoardTypes
<1>8. Detected' /\ InPart' /\ ActiveIn'
  BY <1>1, <1>2 DEF BoardsInv, Detected, InPart, ActiveIn
<1>9. Logged' /\ Placed'
  BY <1>1, <1>4 DEF Logged, Placed
<1>10. Collecting' /\ Settled'
  BY <1>1, <1>5 DEF Collecting, Settled
<1> QED
  BY <1>6, <1>7, <1>8, <1>9, <1>10 DEF BoardsInv

LEMMA GameOverKeeps ==
  ASSUME BoardsInv, DuosInv', EndGame
  PROVE  BoardsInv'
<1>1. /\ part' = "over" /\ (isDuos' => isDuos)
      /\ partnerBoard' = NoBoard \/ partnerBoard' = partnerBoard
      /\ UNCHANGED <<localTurn, order, swapped, ents, stat, gone, lastFight, opponentBoard,
                     combatPhaseActive, combatPhaseEntityIDs, partnerCombatActive, partnerBoardSetupDone,
                     partnerCombatMinions, opponentCombatMinions>>
  BY DEF EndGame, OnDuosPunishLeaversChanged, combatVars, ghostVars
<1>2. NoBoard \in BoardType
  BY DEF NoBoard, BoardType
<1>3. Entities' = Entities /\ \A kinds : Standing(kinds)' = Standing(kinds)
  BY <1>1 DEF Entities, Standing
<1>4. BoardTypes'
  BY <1>1, <1>2, <1>3 DEF BoardsInv, BoardTypes, EntitiesTyped
<1>5. Detected' /\ InPart' /\ ActiveIn' /\ Collecting' /\ Settled' /\ OnShow'
  BY <1>1 DEF Detected, InPart, ActiveIn, Collecting, Settled, Waiting, OnShow
<1>6. Logged' /\ Placed'
  BY <1>1, <1>3 DEF BoardsInv, Logged, Placed
<1> QED
  BY <1>4, <1>5, <1>6 DEF BoardsInv

LEMMA RejoinKeeps ==
  ASSUME BoardsInv, DuosInv', Rejoin
  PROVE  BoardsInv'
<1>1. /\ part = "recruit" /\ ~combatPhaseActive' /\ ~partnerCombatActive'
      /\ partnerCombatMinions' = <<>> /\ opponentCombatMinions' = <<>>
      /\ partnerBoard' = NoBoard /\ opponentBoard' = <<>> /\ lastFight' = NoFight
      /\ UNCHANGED <<localTurn, part, order, swapped, ents, stat, gone, isDuos, punishLeaversActive,
                     partnerPlayerID>>
  BY DEF Rejoin, duosClientVars, duosVars
<1>2. NoBoard \in BoardType /\ NoFight \in FightType /\ ~NoFight.known
  BY DEF NoBoard, BoardType, NoFight, FightType
<1>3. ents = <<>>
  BY <1>1 DEF BoardsInv, InPart, Logged
<1>4. Entities' = Entities /\ \A kinds : Standing(kinds)' = Standing(kinds)
  BY <1>1 DEF Entities, Standing
<1>5. BoardTypes'
  BY <1>1, <1>2, <1>4 DEF BoardsInv, BoardTypes, EntitiesTyped
<1>6. Detected' /\ InPart' /\ ActiveIn'
  BY <1>1, <1>2 DEF BoardsInv, Detected, InPart, ActiveIn
<1>7. Logged' /\ Placed'
  BY <1>1, <1>3, <1>4 DEF BoardsInv, Logged, Placed
<1>8. Collecting' /\ Settled' /\ OnShow'
  BY <1>1, <1>2 DEF Collecting, Settled, Waiting, OnShow
<1> QED
  BY <1>5, <1>6, <1>7, <1>8 DEF BoardsInv

LEMMA CalmSteps ==
  ASSUME BoardsInv, DuosInv',
         \/ UNCHANGED allVars \/ Teammate \/ Passable
         \/ \E p \in Partners : CastSpell(p) \/ GrowTeam(p)
  PROVE  BoardsInv'
<1>1. CASE UNCHANGED allVars
  <2>1. /\ BoardsKept /\ CombatKept
        /\ UNCHANGED <<part, order, swapped, isDuos, partnerPlayerID, punishLeaversActive>>
    BY <1>1 DEF allVars, duosClientVars, duosVars, machineVars, ghostVars, BoardsKept, CombatKept
  <2> QED
    BY <2>1, CalmKeeps
<1>2. CASE Teammate
  <2>1. /\ BoardsKept /\ CombatKept /\ UNCHANGED <<part, order, swapped, punishLeaversActive>>
        /\ part = "recruit" /\ isDuos'
    BY <1>2 DEF Teammate, OnDuosTeammate, ghostVars, BoardsKept, CombatKept
  <2> QED
    BY <2>1, CalmKeeps
<1>3. CASE Passable
  <2>1. /\ BoardsKept /\ CombatKept /\ UNCHANGED <<part, order, swapped, punishLeaversActive, partnerPlayerID>>
        /\ part = "recruit" /\ (isDuos => isDuos')
    BY <1>3 DEF Passable, OnDuosPassableChanged, duosClientVars, ghostVars, BoardsKept, CombatKept
  <2>2. partnerPlayerID' = "mate" => isDuos'
    BY <2>1 DEF BoardsInv, Detected
  <2> QED
    BY <2>1, <2>2, CalmKeeps
<1>4. ASSUME NEW p \in Partners, CastSpell(p) \/ GrowTeam(p) PROVE BoardsInv'
  <2>1. /\ BoardsKept /\ CombatKept
        /\ UNCHANGED <<part, order, swapped, isDuos, partnerPlayerID, punishLeaversActive>>
    BY <1>4 DEF CastSpell, GrowTeam, duosVars, ghostVars, BoardsKept, CombatKept
  <2> QED
    BY <2>1, CalmKeeps
<1> QED
  BY <1>1, <1>2, <1>3, <1>4

LEMMA BoardsBegin ==
  ASSUME DuosInit
  PROVE  BoardsInv
<1>1. DuosInv
  BY DuosBegins
<1>2. Entities = {} /\ \A kinds : Standing(kinds) = {}
  BY DEF DuosInit, Entities, Standing
<1>3. NoBoard \in BoardType /\ NoFight \in FightType /\ ~NoFight.known
  BY DEF NoBoard, BoardType, NoFight, FightType
<1>4. BoardTypes
  BY <1>2, <1>3 DEF DuosInit, BoardTypes, EntitiesTyped
<1>5. Detected /\ InPart /\ ActiveIn
  BY <1>3 DEF DuosInit, Detected, InPart, ActiveIn, NoOne
<1>6. Logged /\ Placed
  BY <1>2 DEF DuosInit, Logged, Placed
<1>7. Collecting /\ Settled /\ OnShow
  BY <1>3 DEF DuosInit, Collecting, Settled, Waiting, OnShow
<1> QED
  BY <1>1, <1>4, <1>5, <1>6, <1>7 DEF BoardsInv

LEMMA BoardsStep ==
  ASSUME BoardsInv, [DuosNext]_allVars
  PROVE  BoardsInv'
<1>1. DuosInv'
  BY DuosStep DEF BoardsInv
<1>2. ASSUME NEW p \in Partners, Flag(p) PROVE BoardsInv'
  <2>1. p = "own" \/ p = "mate"
    BY DEF Partners
  <2> QED
    BY <1>1, <1>2, <2>1, OwnFlagKeeps, PartnersFlagKeeps
<1>3. ASSUME NEW e \in Standing({"token", "mate", "foe"}), Raise(e) \/ Die(e) PROVE BoardsInv'
  BY <1>1, <1>3, RaiseKeeps, DieAndSwapOutKeep
<1>4. CASE SwapIn \/ MateMinion \/ FoeMinion \/ Token
  BY <1>1, <1>4, EntitiesKeep
<1>5. CASE \/ UNCHANGED allVars \/ Teammate \/ Passable
           \/ \E p \in Partners : CastSpell(p) \/ GrowTeam(p)
  BY <1>1, <1>5, CalmSteps
<1>6. CASE MateAttack \/ SwapOut \/ TurnOdd \/ BeginCombat
  BY <1>1, <1>6, MateAttackKeeps, DieAndSwapOutKeep, TurnOddKeeps, BeginCombatKeeps
<1>7. CASE FlagZero \/ EndGame \/ Rejoin
  BY <1>1, <1>7, CombatEndKeeps, GameOverKeeps, RejoinKeeps
<1> QED
  BY <1>2, <1>3, <1>4, <1>5, <1>6, <1>7 DEF DuosNext

LEMMA BoardsInvariant ==
  DuosSpec => []BoardsInv
<1>1. DuosInit => BoardsInv
  BY BoardsBegin
<1>2. BoardsInv /\ [DuosNext]_allVars => BoardsInv'
  BY BoardsStep
<1> QED
  BY <1>1, <1>2, PTL DEF DuosSpec

\* In a recruit phase the partner board is the line-up of the partner's last fight, and
\* the opponent board its opponents, whichever partner fought first, whatever was
\* created before the flag and whoever died in between (handleEntityUpdate,
\* collectPartnerCombatRetro, OnCombatPlayerChanged, finalizePartnerCombat).
THEOREM BoardsOfTheFightHolds ==
  DuosSpec => []BoardsOfTheFight
<1>1. BoardsInv => BoardsOfTheFight
  <2> SUFFICES ASSUME BoardsInv PROVE BoardsOfTheFight
    OBVIOUS
  <2>1. part = "recruit" => ~Waiting /\ Day = localTurn - 1
    BY DEF Waiting, Day
  <2> QED
    BY <2>1 DEF BoardsInv, OnShow, BoardsOfTheFight, PartnerBoardFresh, OpponentBoardIsFoes
<1> QED
  BY <1>1, BoardsInvariant, PTL

==============================================================================
