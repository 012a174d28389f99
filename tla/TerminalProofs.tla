--------------------------- MODULE TerminalProofs ---------------------------
(* Theorems of Setup, for any disks, files, log.configs and layouts, and of   *)
(* Client, for any number of clients and generations; no theorem is about     *)
(* both.                                                                      *)
EXTENDS Setup, Client, FiniteSetTheorems, SequenceTheorems, WellFoundedInduction, TLAPS

-----------------------------------------------------------------------------
(* Least elements, induction up to a number, and folds *)

\* A set of naturals has a least element.
LEMMA Least ==
  ASSUME NEW T \in SUBSET Nat, T # {}
  PROVE  \E x \in T : \A y \in T : x <= y
<1> DEFINE R == OpToRel(<, Nat)
<1>0. IsWellFoundedOn(R, Nat)
  BY NatLessThanWellFounded, Zenon
<1>1. \A y, z \in Nat : y < z => <<y, z>> \in R
  BY DEF OpToRel
<1> HIDE DEF R
<1>2. PICK x \in T : \A y \in T : ~(<<y, x>> \in R)
  BY <1>0, WFMin
<1>3. ASSUME NEW y \in T PROVE x <= y
  <2>1. x \in Nat /\ y \in Nat /\ ~(y < x)
    BY <1>1, <1>2
  <2> QED
    BY <2>1
<1> QED
  BY <1>3

\* What holds at 0 and goes on from one number to the next holds up to n.
LEMMA UpTo ==
  ASSUME NEW n \in Nat, NEW T, 0 \in T, \A k \in 1..n : k - 1 \in T => k \in T
  PROVE  \A k \in 0..n : k \in T
<1> SUFFICES ASSUME NEW j \in 0..n, j \notin T PROVE FALSE
  OBVIOUS
<1> DEFINE Out == {k \in 0..n : k \notin T}
<1>1. Out \in SUBSET Nat /\ j \in Out
  OBVIOUS
<1> HIDE DEF Out
<1>2. PICK x \in Out : \A y \in Out : x <= y
  BY <1>1, Least
<1>3. x \in 1..n /\ x \notin T
  BY <1>2 DEF Out
<1>4. x - 1 \in 0..n /\ ~(x <= x - 1)
  BY <1>3
<1>5. x - 1 \in T
  BY <1>2, <1>4 DEF Out
<1> QED
  BY <1>3, <1>5

\* The set of the first k numbers.
LEMMA Firsts ==
  ASSUME NEW k \in Nat \ {0}
  PROVE  Max(1..k) = k /\ (1..k) \ {k} = 1..(k - 1) /\ 1..k # {}
<1>1. k \in 1..k /\ \A y \in 1..k : k >= y
  OBVIOUS
<1>2. \A x \in 1..k : (\A y \in 1..k : x >= y) => x = k
  OBVIOUS
<1>3. Max(1..k) = k
  BY <1>1, <1>2 DEF Max
<1> QED
  BY <1>1, <1>3

\* The step functions of a fold over a sequence, as a function of sets of its places:
\* what FoldLeft chooses.
Folded(it, n, base, step) ==
  it = [s \in SUBSET (1..n) |->
          IF s = {} THEN base ELSE step[Max(s)][it[s \ {Max(s)}]]]

\* There is such a function, and its values are those of the steps.
LEMMA FoldExists ==
  ASSUME NEW n \in Nat, NEW V, NEW base \in V, NEW step \in [1..n -> [V -> V]]
  PROVE  \E it \in [SUBSET (1..n) -> V] : Folded(it, n, base, step)
<1> DEFINE T == {k \in 0..n : \E it \in [SUBSET (1..k) -> V] : Folded(it, k, base, step)}
<1>1. 0 \in T
  <2> DEFINE it == [s \in SUBSET (1..0) |-> base]
  <2>1. SUBSET (1..0) = {{}}
    OBVIOUS
  <2>2. it \in [SUBSET (1..0) -> V] /\ Folded(it, 0, base, step)
    BY <2>1 DEF Folded
  <2> QED
    BY <2>2
<1>2. ASSUME NEW k \in 1..n, k - 1 \in T PROVE k \in T
  <2>1. PICK it \in [SUBSET (1..(k - 1)) -> V] : Folded(it, k - 1, base, step)
    BY <1>2
  <2> DEFINE rise == [s \in SUBSET (1..k) |->
                      IF k \in s THEN step[k][it[s \ {k}]] ELSE it[s]]
  <2>2. ASSUME NEW s \in SUBSET (1..k), k \in s
        PROVE  Max(s) = k /\ s \ {k} \in SUBSET (1..(k - 1))
    <3>1. \A y \in s : k >= y
      BY <2>2
    <3>2. \A x \in s : (\A y \in s : x >= y) => x = k
      BY <2>2, <3>1
    <3>3. Max(s) = k
      BY <2>2, <3>1, <3>2 DEF Max
    <3>4. ASSUME NEW y \in s \ {k} PROVE y \in 1..(k - 1)
      <4>1. y \in 1..k /\ y # k
        OBVIOUS
      <4> QED
        BY <4>1
    <3> QED
      BY <3>3, <3>4
  <2>3. ASSUME NEW s \in SUBSET (1..k), k \notin s PROVE s \in SUBSET (1..(k - 1))
    <3>1. ASSUME NEW y \in s PROVE y \in 1..(k - 1)
      <4>1. y \in 1..k /\ y # k
        BY <2>3
      <4> QED
        BY <4>1
    <3> QED
      BY <3>1
  <2>4. rise \in [SUBSET (1..k) -> V]
    <3>1. step[k] \in [V -> V]
      OBVIOUS
    <3> QED
      BY <2>2, <2>3, <3>1
  <2>5. ASSUME NEW s \in SUBSET (1..k)
        PROVE  rise[s] = IF s = {} THEN base ELSE step[Max(s)][rise[s \ {Max(s)}]]
    <3>1. CASE k \in s
      <4>1. Max(s) = k /\ s \ {k} \in SUBSET (1..(k - 1)) /\ k \notin s \ {k}
        BY <2>2, <3>1
      <4>2. rise[s] = step[k][it[s \ {k}]] /\ rise[s \ {k}] = it[s \ {k}]
        BY <3>1, <4>1
      <4> QED
        BY <3>1, <4>1, <4>2
    <3>2. CASE k \notin s
      <4>1. s \in SUBSET (1..(k - 1))
        BY <2>3, <3>2
      <4>2. rise[s] = it[s] /\ rise[s \ {Max(s)}] = it[s \ {Max(s)}]
        BY <3>2, <4>1
      <4>3. it[s] = IF s = {} THEN base ELSE step[Max(s)][it[s \ {Max(s)}]]
        BY <2>1, <4>1 DEF Folded
      <4> QED
        BY <4>2, <4>3
    <3> QED
      BY <3>1, <3>2
  <2> HIDE DEF rise
  <2>6. Folded(rise, k, base, step)
    BY <2>4, <2>5 DEF Folded
  <2> QED
    BY <2>4, <2>6
<1>3. n \in T
  <2> HIDE DEF T
  <2>1. \A k \in 1..n : k - 1 \in T => k \in T
    BY <1>2
  <2>2. \A k \in 0..n : k \in T
    BY <1>1, <2>1, UpTo, Zenon
  <2>3. n \in 0..n
    OBVIOUS
  <2> QED
    BY <2>2, <2>3
<1> QED
  BY <1>3, Zenon

\* A set of places has a greatest, which Max finds.
LEMMA MaxIn ==
  ASSUME NEW n \in Nat, NEW s \in SUBSET (1..n), s # {}
  PROVE  Max(s) \in s /\ \A y \in s : Max(s) >= y
<1> DEFINE U == {m \in Nat : \A y \in s : y <= m}
<1>1. n \in U
  OBVIOUS
<1>2. PICK m \in U : \A y \in U : m <= y
  <2> HIDE DEF U
  <2>1. U \in SUBSET Nat
    BY DEF U
  <2> QED
    BY <1>1, <2>1, Least
<1>3. m \in s
  <2> SUFFICES ASSUME m \notin s PROVE FALSE
    OBVIOUS
  <2>1. PICK y \in s : TRUE
    OBVIOUS
  <2>2. m \in Nat /\ y \in 1..n /\ y <= m
    BY <1>2
  <2>3. m - 1 \in Nat
    BY <2>2
  <2>4. \A z \in s : z <= m - 1
    BY <1>2
  <2> QED
    BY <1>2, <2>2, <2>3, <2>4
<1>4. m \in s /\ \A y \in s : m >= y
  BY <1>2, <1>3
<1> QED
  BY <1>4 DEF Max

\* The function a fold is made of, as FoldLeft asks for it: the steps are applied to
\* values that they are for.
Makes(it, n, V, base, step) ==
  /\ it = [s \in SUBSET (1..n) |-> it[s]]
  /\ it[{}] = base
  /\ \A s \in SUBSET (1..n) : s # {} =>
       /\ Max(s) \in 1..n /\ it[s \ {Max(s)}] \in V
       /\ it[s] = step[Max(s)][it[s \ {Max(s)}]]

\* There is one.
LEMMA FoldMakes ==
  ASSUME NEW n \in Nat, NEW V, NEW base \in V, NEW step \in [1..n -> [V -> V]]
  PROVE  \E it : Makes(it, n, V, base, step)
<1>1. PICK it \in [SUBSET (1..n) -> V] : Folded(it, n, base, step)
  BY FoldExists
<1>2. it[{}] = base
  BY <1>1 DEF Folded
<1>3. ASSUME NEW s \in SUBSET (1..n), s # {}
      PROVE  /\ Max(s) \in 1..n /\ it[s \ {Max(s)}] \in V
             /\ it[s] = step[Max(s)][it[s \ {Max(s)}]]
  <2>1. Max(s) \in 1..n
    BY <1>3, MaxIn
  <2>2. it[s] = step[Max(s)][it[s \ {Max(s)}]]
    BY <1>1, <1>3 DEF Folded
  <2> QED
    BY <2>1, <2>2
<1> QED
  BY <1>2, <1>3 DEF Makes

\* The values of a fold, from place to place.
Goes(g, n, V, base, step, last) ==
  /\ g \in [0..n -> V] /\ g[0] = base /\ g[n] = last
  /\ \A k \in 1..n : g[k] = step[k][g[k - 1]]

\* A function that goes as the steps do where their values are of a set.
Follows(D, n, V, base, step) ==
  /\ D[{}] = base
  /\ \A s \in SUBSET (1..n) : s # {} /\ D[s \ {Max(s)}] \in V =>
                                D[s] = step[Max(s)][D[s \ {Max(s)}]]

\* The values of a fold, place by place, are of a set that the steps do not leave.
LEMMA FoldSteps ==
  ASSUME NEW n \in Nat, NEW V, NEW base \in V, NEW step \in [1..n -> [V -> V]],
         NEW D, Follows(D, n, V, base, step)
  PROVE  \E g : Goes(g, n, V, base, step, D[1..n])
<1> DEFINE g == [k \in 0..n |-> D[1..k]]
           T == {k \in 0..n : D[1..k] \in V}
<1>1. 1..0 = {}
  OBVIOUS
<1>2. 0 \in T
  BY <1>1 DEF Follows
<1>3. ASSUME NEW k \in 1..n, D[1..(k - 1)] \in V PROVE D[1..k] = step[k][D[1..(k - 1)]]
  <2>1. k \in Nat \ {0} /\ 1..k \in SUBSET (1..n)
    OBVIOUS
  <2>2. Max(1..k) = k /\ (1..k) \ {k} = 1..(k - 1) /\ 1..k # {}
    BY <2>1, Firsts, Zenon
  <2> QED
    BY <1>3, <2>1, <2>2 DEF Follows
<1>4. \A k \in 1..n : k - 1 \in T => k \in T
  BY <1>3
<1>5. \A k \in 0..n : k \in T
  <2> HIDE DEF T
  <2> QED
    BY <1>2, <1>4, UpTo, Zenon
<1>6. g \in [0..n -> V]
  BY <1>5
<1>7. \A k \in 1..n : g[k] = step[k][g[k - 1]]
  <2>1. \A k \in 1..n : k - 1 \in 0..n /\ k \in 0..n
    OBVIOUS
  <2> QED
    BY <1>3, <1>5, <2>1
<1>8. g[0] = base /\ g[n] = D[1..n]
  BY <1>1 DEF Follows
<1> HIDE DEF g
<1> QED
  BY <1>6, <1>7, <1>8 DEF Goes

-----------------------------------------------------------------------------
(* log.config *)

\* A log.config is merged section by section.
LEMMA MergeIs ==
  ASSUME NEW c
  PROVE  Merge(c) = MergeSection(MergeSection(c, "Power"), "Zone")
<1> DEFINE p == MergeSection(c, "Power")
           z == MergeSection(c, "Zone")
           pz == MergeSection(p, "Zone")
           Eq(d) == d = [s \in SUBSET DOMAIN RequiredSections |->
                           IF s = {} THEN c
                           ELSE MergeSection(d[s \ {Max(s)}], RequiredSections[Max(s)])]
           D == CHOOSE d : Eq(d)
           it == [s \in SUBSET (1..2) |-> IF s = {} THEN c ELSE IF s = {1} THEN p
                                          ELSE IF s = {2} THEN z ELSE pz]
<1>1. DOMAIN RequiredSections = 1..2 /\ RequiredSections[1] = "Power" /\ RequiredSections[2] = "Zone"
  BY DEF RequiredSections
<1>2. Merge(c) = D[DOMAIN RequiredSections]
  BY DEF Merge, FoldLeft, MapThenFoldSet
<1>3. SUBSET (1..2) = {{}, {1}, {2}, 1..2} /\ 1..2 # {1} /\ 1..2 # {2} /\ 1..2 # {}
  BY SMT
<1>4. Max({1}) = 1 /\ Max({2}) = 2 /\ Max(1..2) = 2 /\ (1..2) \ {2} = {1}
  <2>1. {1} \in SUBSET (1..2) /\ {2} \in SUBSET (1..2) /\ 1..2 \in SUBSET (1..2)
    OBVIOUS
  <2>2. Max({1}) \in {1} /\ Max({2}) \in {2}
    BY <2>1, MaxIn
  <2>3. 2 \in Nat \ {0} /\ 1..(2 - 1) = {1}
    OBVIOUS
  <2>4. Max(1..2) = 2 /\ (1..2) \ {2} = 1..(2 - 1)
    BY <2>3, Firsts, Zenon
  <2> QED
    BY <2>2, <2>3, <2>4, Zenon
<1>5. it[{}] = c /\ it[{1}] = p /\ it[{2}] = z /\ it[1..2] = pz
  BY <1>3
<1>6. Eq(it)
  <2>1. ASSUME NEW s \in SUBSET (1..2)
        PROVE  it[s] = IF s = {} THEN c
                       ELSE MergeSection(it[s \ {Max(s)}], RequiredSections[Max(s)])
    <3> HIDE DEF it
    <3>0. s \in {{}, {1}, {2}, 1..2}
      BY <1>3
    <3>1. CASE s = {}
      BY <1>5, <3>1
    <3>2. CASE s = {1}
      <4>1. {1} \ {1} = {}
        OBVIOUS
      <4> QED
        BY <1>1, <1>4, <1>5, <3>2, <4>1
    <3>3. CASE s = {2}
      <4>1. {2} \ {2} = {}
        OBVIOUS
      <4> QED
        BY <1>1, <1>4, <1>5, <3>3, <4>1
    <3>4. CASE s = 1..2
      <4>1. s # {} /\ Max(s) = 2 /\ s \ {Max(s)} = {1} /\ it[s] = MergeSection(p, "Zone") /\ it[{1}] = p
        BY <1>3, <1>4, <1>5, <3>4, Zenon
      <4> QED
        BY <1>1, <4>1
    <3> QED
      BY <3>0, <3>1, <3>2, <3>3, <3>4, Zenon
  <2> QED
    BY <1>1, <2>1
<1>7. Eq(D)
  <2> HIDE DEF Eq
  <2> QED
    BY <1>6
<1>8. \A s \in SUBSET (1..2) :
        D[s] = IF s = {} THEN c ELSE MergeSection(D[s \ {Max(s)}], RequiredSections[Max(s)])
  BY <1>1, <1>7
<1> HIDE DEF D
<1>9. D[{}] = c /\ D[{1}] = MergeSection(D[{}], "Power") /\ D[1..2] = MergeSection(D[{1}], "Zone")
  <2>1. {1} \ {1} = {}
    OBVIOUS
  <2>2. {} \in SUBSET (1..2) /\ {1} \in SUBSET (1..2) /\ 1..2 \in SUBSET (1..2) /\ {1} # {}
    OBVIOUS
  <2>3. D[{}] = c
    BY <1>8, <2>2
  <2>4. D[{1}] = MergeSection(D[{}], "Power")
    BY <1>1, <1>4, <1>8, <2>1, <2>2
  <2>5. D[1..2] = MergeSection(D[{1}], "Zone")
    <3>1. 1..2 # {} /\ Max(1..2) = 2 /\ (1..2) \ {2} = {1}
      BY <1>3, <1>4
    <3>2. D[1..2] = MergeSection(D[(1..2) \ {Max(1..2)}], RequiredSections[Max(1..2)])
      BY <1>8, <2>2, <3>1, Zenon
    <3>3. RequiredSections[2] = "Zone"
      BY <1>1
    <3> QED
      BY <3>1, <3>2, <3>3, Zenon
  <2> QED
    BY <2>3, <2>4, <2>5
<1> QED
  BY <1>1, <1>2, <1>9

\* Every section is still there, with the fields that are not the program's.
Keeps(c0, c) ==
  /\ Len(c0) <= Len(c)
  /\ \A i \in DOMAIN c0 :
       /\ c[i].name = c0[i].name
       /\ \A k \in DOMAIN c0[i].fields :
            ~Owned(c0[i], k) => k \in DOMAIN c[i].fields /\ c[i].fields[k] = c0[i].fields[k]

\* A section of that name with its required fields.
Has(c, name) ==
  /\ Matches(c, name) # {}
  /\ \A k \in RequiredFields(name) :
       /\ k \in DOMAIN c[FindSection(c, name)].fields
       /\ c[FindSection(c, name)].fields[k] = "on"

\* The section found is the first of its name.
LEMMA FindsFirst ==
  ASSUME NEW c, IsLog(c), NEW name, Matches(c, name) # {}
  PROVE  /\ FindSection(c, name) \in DOMAIN c /\ c[FindSection(c, name)].name.name = name
         /\ \A i \in Matches(c, name) : FindSection(c, name) <= i
<1>1. Matches(c, name) \in SUBSET Nat
  BY DEF Matches, IsLog
<1>2. \E i \in Matches(c, name) : \A j \in Matches(c, name) : i <= j
  BY <1>1, Least
<1>3. FindSection(c, name) \in Matches(c, name)
      /\ \A j \in Matches(c, name) : FindSection(c, name) <= j
  BY <1>2 DEF FindSection
<1> QED
  BY <1>3 DEF Matches

\* What the program requires is of its own spelling.
LEMMA Required ==
  \A name : \A k \in RequiredFields(name) : k.exact /\ Name(k.name) = k
<1>1. \A n \in {"Level", "Verbose"} :
        Name(n).exact /\ Name(Name(n).name) = Name(n)
  BY DEF Name
<1>2. \A name : RequiredFields(name) \subseteq {Name("Level"), Name("Verbose")}
  BY DEF RequiredFields
<1> QED
  BY <1>1, <1>2

\* To be complete is to have both sections.
LEMMA CompleteIs ==
  ASSUME NEW c, Has(c, "Power"), Has(c, "Zone")
  PROVE  IsComplete(c)
  BY DEF IsComplete, RequiredSections, Has, Value

\* A log.config is kept by what keeps its parts.
LEMMA KeepsOn ==
  ASSUME NEW a, NEW b, NEW c, IsLog(a), IsLog(b), IsLog(c), Keeps(a, b), Keeps(b, c)
  PROVE  Keeps(a, c)
<1>1. Len(a) <= Len(c) /\ DOMAIN a \subseteq DOMAIN b
  BY DEF Keeps, IsLog
<1>2. ASSUME NEW i \in DOMAIN a
      PROVE  /\ c[i].name = a[i].name
             /\ \A k \in DOMAIN a[i].fields :
                  ~Owned(a[i], k) => k \in DOMAIN c[i].fields /\ c[i].fields[k] = a[i].fields[k]
  <2>1. b[i].name = a[i].name /\ c[i].name = b[i].name /\ i \in DOMAIN b
    BY <1>1 DEF Keeps
  <2>2. \A k : Owned(a[i], k) <=> Owned(b[i], k)
    BY <2>1 DEF Owned
  <2> QED
    BY <2>1, <2>2 DEF Keeps
<1> QED
  BY <1>1, <1>2 DEF Keeps

\* What merging a section that is missing, or is there, does.
LEMMA MergeSectionIs ==
  ASSUME NEW c, IsLog(c), NEW name
  PROVE  LET m == MergeSection(c, name)
         IN  /\ IsLog(m) /\ Keeps(c, m) /\ Has(m, name)
             /\ \A other : other # name /\ Has(c, other) => Has(m, other)
<1> DEFINE m == MergeSection(c, name)
           R == RequiredFields(name)
           f == FindSection(c, name)
           on == [k \in R |-> "on"]
           added == Section(Name(name), on)
<1>1. CASE Matches(c, name) = {}
  <2>1. m = Append(c, added)
    BY <1>1 DEF MergeSection
  <2>2. /\ added.name.name = name /\ added.fields = on
        /\ DOMAIN on = R /\ \A k \in R : on[k] = "on"
    BY DEF Section, Name
  <2>3. IsSection(added)
    BY <2>2 DEF IsSection, Section
  <2> HIDE DEF added, on, R
  <2>4. /\ Len(m) = Len(c) + 1 /\ m \in Seq(ToSet(c) \cup {added}) /\ DOMAIN m = 1..(Len(c) + 1)
        /\ DOMAIN c = 1..Len(c) /\ Len(c) \in Nat
        /\ m[Len(c) + 1] = added /\ \A i \in DOMAIN c : m[i] = c[i]
    BY <2>1 DEF IsLog
  <2>5. IsLog(m)
    <3>1. \A i \in DOMAIN m : m[i] \in ToSet(m) /\ IsSection(m[i])
      BY <2>3, <2>4 DEF IsLog, ToSet
    <3>2. m \in Seq(ToSet(m))
      BY <2>4, <3>1
    <3> QED
      BY <3>1, <3>2 DEF IsLog
  <2>6. Keeps(c, m)
    BY <2>4 DEF Keeps
  <2>7. Matches(m, name) = {Len(c) + 1}
    BY <1>1, <2>2, <2>4 DEF Matches
  <2>8. FindSection(m, name) = Len(c) + 1
    BY <2>4, <2>5, <2>7, FindsFirst DEF Matches
  <2>9. Has(m, name)
    BY <2>2, <2>4, <2>7, <2>8 DEF Has, R
  <2>10. ASSUME NEW other, other # name, Has(c, other) PROVE Has(m, other)
    <3>1. Matches(m, other) = Matches(c, other)
      BY <2>2, <2>4, <2>10 DEF Matches
    <3>2. FindSection(m, other) = FindSection(c, other)
      BY <3>1 DEF FindSection
    <3>3. FindSection(c, other) \in DOMAIN c
      BY <2>10, FindsFirst DEF Has
    <3> QED
      BY <2>4, <2>10, <3>1, <3>2, <3>3 DEF Has
  <2> QED
    BY <2>5, <2>6, <2>9, <2>10
<1>2. CASE Matches(c, name) # {}
  <2>1. m = [c EXCEPT ![f] = [c[f] EXCEPT !.fields = Patched(c[f].fields, name)]]
    BY <1>2 DEF MergeSection
  <2>2. f \in DOMAIN c /\ c[f].name.name = name
    BY <1>2, FindsFirst
  <2> DEFINE new == [c[f] EXCEPT !.fields = Patched(c[f].fields, name)]
             old == c[f].fields
  <2>3. /\ new.name = c[f].name /\ new.fields = Patched(old, name)
        /\ new = [name |-> c[f].name, fields |-> Patched(old, name)]
    BY <2>2 DEF IsLog, IsSection
  <2>4. /\ DOMAIN new.fields = R \cup DOMAIN old
        /\ new.fields = [k \in DOMAIN new.fields |-> new.fields[k]]
        /\ \A k \in R : new.fields[k] = "on"
        /\ \A k \in DOMAIN old : k \notin R => new.fields[k] = old[k]
    BY <2>3 DEF Patched
  <2>5. IsSection(new)
    BY <2>3, <2>4 DEF IsSection
  <2> HIDE DEF new, f, R
  <2>6. /\ DOMAIN m = DOMAIN c /\ m[f] = new /\ \A i \in DOMAIN c : i # f => m[i] = c[i]
        /\ DOMAIN c = 1..Len(c) /\ Len(c) \in Nat
    BY <2>1, <2>2 DEF IsLog, new
  <2>7. IsLog(m) /\ Len(m) = Len(c)
    <3>1. \A i \in DOMAIN m : m[i] \in ToSet(m) /\ IsSection(m[i])
      BY <2>2, <2>5, <2>6 DEF IsLog, ToSet
    <3>2. m = [i \in 1..Len(c) |-> m[i]]
      BY <2>1, <2>6
    <3>3. m \in Seq(ToSet(m)) /\ Len(m) = Len(c)
      BY <2>6, <3>1, <3>2
    <3> QED
      BY <3>1, <3>3 DEF IsLog
  <2>8. \A i \in DOMAIN c : m[i].name = c[i].name
    BY <2>3, <2>6 DEF new
  <2>9. \A other : Matches(m, other) = Matches(c, other)
    BY <2>6, <2>8 DEF Matches
  <2>10. \A other : FindSection(m, other) = FindSection(c, other)
    BY <2>9 DEF FindSection
  <2>11. Has(m, name)
    BY <1>2, <2>4, <2>6, <2>9, <2>10 DEF Has, f, R
  <2>12. ASSUME NEW other, other # name, Has(c, other) PROVE Has(m, other)
    <3>1. FindSection(c, other) \in DOMAIN c /\ c[FindSection(c, other)].name.name = other
      BY <2>12, FindsFirst DEF Has
    <3>2. FindSection(c, other) # f
      BY <2>2, <2>12, <3>1
    <3> QED
      BY <2>6, <2>9, <2>10, <2>12, <3>1, <3>2 DEF Has
  <2>13. Keeps(c, m)
    <3>1. ASSUME NEW k \in DOMAIN old, ~Owned(c[f], k)
          PROVE  k \in DOMAIN m[f].fields /\ m[f].fields[k] = old[k]
      <4>1. k \notin R
        BY <2>2, <3>1, Required DEF Owned, R
      <4> QED
        BY <2>4, <2>6, <4>1
    <3>2. \A i \in DOMAIN c : i # f => \A k \in DOMAIN c[i].fields :
            k \in DOMAIN m[i].fields /\ m[i].fields[k] = c[i].fields[k]
      BY <2>6
    <3>3. Len(c) <= Len(m)
      BY <2>6, <2>7
    <3> QED
      BY <2>8, <3>1, <3>2, <3>3 DEF Keeps
  <2> QED
    BY <2>7, <2>11, <2>12, <2>13
<1> QED
  BY <1>1, <1>2

\* Writing drops other spellings of the program's fields only.
LEMMA WrittenIs ==
  ASSUME NEW c, IsLog(c)
  PROVE  LET w == [i \in DOMAIN c |-> Written(c[i])]
         IN  IsLog(w) /\ Keeps(c, w) /\ \A name : Has(c, name) => Has(w, name)
<1> DEFINE w == [i \in DOMAIN c |-> Written(c[i])]
           D(i) == {k \in DOMAIN c[i].fields :
                      k.exact \/ Name(k.name) \notin RequiredFields(c[i].name.name)}
<1>1. ASSUME NEW i \in DOMAIN c
      PROVE  /\ w[i] = [name |-> c[i].name, fields |-> [k \in D(i) |-> c[i].fields[k]]]
             /\ w[i].name = c[i].name /\ DOMAIN w[i].fields = D(i)
             /\ \A k \in D(i) : w[i].fields[k] = c[i].fields[k]
             /\ IsSection(w[i])
  <2>1. w[i] = [name |-> c[i].name, fields |-> [k \in D(i) |-> c[i].fields[k]]]
    BY DEF Written, Section
  <2> HIDE DEF w, D
  <2>2. w[i].name = c[i].name /\ w[i].fields = [k \in D(i) |-> c[i].fields[k]]
    BY <2>1
  <2>3. w[i] = [name |-> w[i].name, fields |-> w[i].fields]
    BY <2>1, <2>2
  <2>4. DOMAIN w[i].fields = D(i) /\ w[i].fields = [k \in DOMAIN w[i].fields |-> w[i].fields[k]]
    BY <2>2
  <2> QED
    BY <2>1, <2>2, <2>3, <2>4 DEF IsSection
<1>2. DOMAIN w = DOMAIN c /\ DOMAIN c = 1..Len(c) /\ Len(c) \in Nat
  BY DEF IsLog
<1>3. w = [i \in 1..Len(c) |-> w[i]]
  BY <1>2
<1> HIDE DEF w
<1>4. IsLog(w) /\ Len(w) = Len(c)
  <2>1. \A i \in DOMAIN w : w[i] \in ToSet(w) /\ IsSection(w[i])
    BY <1>1, <1>2 DEF ToSet
  <2>2. w \in Seq(ToSet(w)) /\ Len(w) = Len(c)
    BY <1>2, <1>3, <2>1
  <2> QED
    BY <2>1, <2>2 DEF IsLog
<1>5. Keeps(c, w)
  <2>1. Len(c) <= Len(w)
    BY <1>2, <1>4
  <2>2. ASSUME NEW i \in DOMAIN c, NEW k \in DOMAIN c[i].fields, ~Owned(c[i], k) PROVE k \in D(i)
    BY <2>2 DEF Owned
  <2> QED
    BY <1>1, <2>1, <2>2 DEF Keeps
<1>6. \A name : Matches(w, name) = Matches(c, name)
  BY <1>1, <1>2 DEF Matches
<1>7. \A name : FindSection(w, name) = FindSection(c, name)
  BY <1>6 DEF FindSection
<1>8. ASSUME NEW name, Has(c, name) PROVE Has(w, name)
  <2> DEFINE f == FindSection(c, name)
  <2>1. f \in DOMAIN c
    BY <1>8, FindsFirst DEF Has
  <2>2. \A k \in RequiredFields(name) : k \in D(f)
    BY <1>8, <2>1, Required DEF Has
  <2>3. f = FindSection(w, name) /\ Matches(w, name) # {} /\ DOMAIN w[f].fields = D(f)
        /\ \A k \in D(f) : w[f].fields[k] = c[f].fields[k]
    BY <1>1, <1>6, <1>7, <1>8, <2>1 DEF Has
  <2>4. \A k \in RequiredFields(name) : c[f].fields[k] = "on"
    BY <1>8 DEF Has
  <2> HIDE DEF f, D
  <2> QED
    BY <2>2, <2>3, <2>4 DEF Has
<1> QED
  BY <1>4, <1>5, <1>8 DEF w

\* After CheckAndPatch a log.config asks for all that the parser needs, and has what
\* the user set besides.
LEMMA PatchIs ==
  ASSUME NEW c, IsLog(c)
  PROVE  IsLog(CheckAndPatch(c)) /\ Keeps(c, CheckAndPatch(c)) /\ IsComplete(CheckAndPatch(c))
<1>1. CASE IsComplete(c)
  BY <1>1 DEF CheckAndPatch, Keeps, IsLog
<1>2. CASE ~IsComplete(c)
  <2> DEFINE p == MergeSection(c, "Power")
             m == MergeSection(p, "Zone")
             w == [i \in DOMAIN m |-> Written(m[i])]
  <2>1. CheckAndPatch(c) = w
    BY <1>2, MergeIs DEF CheckAndPatch
  <2>2. IsLog(p) /\ Keeps(c, p) /\ Has(p, "Power")
    BY MergeSectionIs
  <2> HIDE DEF p
  <2>3. IsLog(m) /\ Keeps(p, m) /\ Has(m, "Zone") /\ Has(m, "Power")
    BY <2>2, MergeSectionIs
  <2> HIDE DEF m
  <2>4. IsLog(w) /\ Keeps(m, w) /\ Has(w, "Zone") /\ Has(w, "Power")
    BY <2>3, WrittenIs
  <2> HIDE DEF w
  <2>5. Keeps(c, w)
    BY <2>2, <2>3, <2>4, KeepsOn
  <2> QED
    BY <2>1, <2>4, <2>5, CompleteIs
<1> QED
  BY <1>1, <1>2

-----------------------------------------------------------------------------
(* Folds of the model *)

\* The items of a sequence over a set are of the set.
LEMMA ItemOf ==
  ASSUME NEW T, NEW s \in Seq(T), NEW i \in 1..Len(s)
  PROVE  s[i] \in T
  OBVIOUS

\* The marked installs are some of those in the list.
LEMMA SelectedIs ==
  ASSUME NEW w, NEW S, w.installs \in Seq([info : S, selected : BOOLEAN])
  PROVE  Selected(w) \in Seq(S)
<1> DEFINE seq == w.installs
           n == Len(seq)
           V == Seq(S)
           base == <<>>
           op(infos, i) == IF i.selected THEN Append(infos, i.info) ELSE infos
           step == [i \in 1..n |-> [v \in V |-> op(v, seq[i])]]
           Eq(f) == f = [s \in SUBSET DOMAIN seq |->
                           IF s = {} THEN base ELSE op(f[s \ {Max(s)}], seq[Max(s)])]
           D == CHOOSE f : Eq(f)
<1>1. Selected(w) = D[DOMAIN seq]
  BY DEF Selected, FoldLeft, MapThenFoldSet
<1>2. n \in Nat /\ DOMAIN seq = 1..n /\ base \in V
  OBVIOUS
<1>3. ASSUME NEW i \in 1..n, NEW v \in V PROVE op(v, seq[i]) \in V
  <2>1. seq[i] \in [info : S, selected : BOOLEAN]
    BY ItemOf, Zenon
  <2>2. seq[i].info \in S
    BY <2>1
  <2>3. op(v, seq[i]) \in {v, Append(v, seq[i].info)}
    BY Zenon
  <2>4. v \in V /\ Append(v, seq[i].info) \in V
    BY <2>2
  <2> HIDE DEF op, seq, V
  <2> QED
    BY <2>3, <2>4
<1> HIDE DEF seq, n, V, base, op
<1>4. step \in [1..n -> [V -> V]] /\ \A i \in 1..n : \A v \in V : step[i][v] = op(v, seq[i])
  BY <1>3
<1> HIDE DEF step
<1>5. Eq(D)
  <2>1. PICK it : Makes(it, n, V, base, step)
    BY <1>2, <1>4, FoldMakes
  <2>2. \A s \in SUBSET (1..n) :
          it[s] = IF s = {} THEN base ELSE op(it[s \ {Max(s)}], seq[Max(s)])
    BY <1>4, <2>1 DEF Makes
  <2>3. Eq(it)
    BY <1>2, <2>1, <2>2 DEF Makes
  <2> HIDE DEF Eq
  <2> QED
    BY <2>3
<1>6. Follows(D, n, V, base, step)
  <2>1. D = [s \in SUBSET (1..n) |-> IF s = {} THEN base ELSE op(D[s \ {Max(s)}], seq[Max(s)])]
    BY <1>2, <1>5
  <2> HIDE DEF D
  <2>2. \A s \in SUBSET (1..n) : s # {} => Max(s) \in 1..n
    BY <1>2, MaxIn
  <2>3. {} \in SUBSET (1..n)
    OBVIOUS
  <2> QED
    BY <1>4, <2>1, <2>2, <2>3 DEF Follows
<1> HIDE DEF D
<1>7. PICK g : Goes(g, n, V, base, step, D[1..n])
  BY <1>2, <1>4, <1>6, FoldSteps
<1> QED
  BY <1>1, <1>2, <1>7 DEF Goes, V

-----------------------------------------------------------------------------
(* Discovery *)

\* What there is to find on a disk.
There(d) == {ProbeRoot(d, x) : x \in {x \in Dirs : d[x] # {}}}

Places == [root : Dirs, log : Dirs]

\* The installs on a disk are in directories, each the one that was probed or its
\* parent, of the same prefix.
LEMMA ThereIs ==
  ASSUME NEW d, IsDisk(d)
  PROVE  /\ There(d) \subseteq Places
         /\ \A x \in Dirs : d[x] # {} => /\ ProbeRoot(d, x) \in There(d)
                                         /\ Prefix[ProbeRoot(d, x).root] = Prefix[x]
<1>1. ASSUME NEW x \in Dirs, d[x] # {}
      PROVE  ProbeRoot(d, x) \in Places /\ Prefix[ProbeRoot(d, x).root] = Prefix[x]
  <2>1. CASE "game" \in d[x]
    BY <2>1 DEF ProbeRoot, Install, Places
  <2>2. CASE "game" \notin d[x]
    <3>1. Parent[x] # NoDir /\ Prefix[Parent[x]] = Prefix[x]
      BY <1>1, <2>2 DEF IsDisk
    <3>2. Parent[x] \in Dirs
      BY <3>1, TreeAssumption
    <3> QED
      BY <2>2, <3>1, <3>2 DEF ProbeRoot, Install, Places
  <2> QED
    BY <2>1, <2>2
<1> QED
  BY <1>1 DEF There

\* A walk finds what there is.
LEMMA WalkIs ==
  ASSUME NEW d, NEW start
  PROVE  WalkForAllInstalls(d, start) \in Seq(There(d))
<1> DEFINE seq == WalkOrder
           n == Len(seq)
           V == Seq(There(d))
           base == <<>>
           op(all, x) == IF /\ (x = start \/ start \in Above[x])
                             /\ LooksRight(d, x) /\ Outermost(d, start, x)
                          THEN Append(all, ProbeRoot(d, x)) ELSE all
           step == [i \in 1..n |-> [v \in V |-> op(v, seq[i])]]
           Eq(f) == f = [s \in SUBSET DOMAIN seq |->
                           IF s = {} THEN base ELSE op(f[s \ {Max(s)}], seq[Max(s)])]
           D == CHOOSE f : Eq(f)
<1>1. WalkForAllInstalls(d, start) = D[DOMAIN seq]
  BY DEF WalkForAllInstalls, FoldLeft, MapThenFoldSet
<1>2. n \in Nat /\ DOMAIN seq = 1..n /\ base \in V
  BY TreeAssumption
<1>3. ASSUME NEW i \in 1..n, NEW v \in V PROVE op(v, seq[i]) \in V
  <2>1. seq[i] \in Dirs
    BY ItemOf, TreeAssumption, Zenon
  <2>2. CASE LooksRight(d, seq[i])
    <3>1. ProbeRoot(d, seq[i]) \in There(d)
      BY <2>1, <2>2 DEF LooksRight, There
    <3>2. op(v, seq[i]) \in {v, Append(v, ProbeRoot(d, seq[i]))}
      BY Zenon
    <3>3. v \in V /\ Append(v, ProbeRoot(d, seq[i])) \in V
      BY <3>1
    <3> HIDE DEF op, seq, V
    <3> QED
      BY <3>2, <3>3
  <2>3. CASE ~LooksRight(d, seq[i])
    <3>1. op(v, seq[i]) = v
      BY <2>3, Zenon
    <3> QED
      BY <3>1, Zenon
  <2> QED
    BY <2>2, <2>3
<1> HIDE DEF seq, n, V, base, op
<1>4. step \in [1..n -> [V -> V]] /\ \A i \in 1..n : \A v \in V : step[i][v] = op(v, seq[i])
  BY <1>3
<1> HIDE DEF step
<1>5. Eq(D)
  <2>1. PICK it : Makes(it, n, V, base, step)
    BY <1>2, <1>4, FoldMakes
  <2>2. \A s \in SUBSET (1..n) :
          it[s] = IF s = {} THEN base ELSE op(it[s \ {Max(s)}], seq[Max(s)])
    BY <1>4, <2>1 DEF Makes
  <2>3. Eq(it)
    BY <1>2, <2>1, <2>2 DEF Makes
  <2> HIDE DEF Eq
  <2> QED
    BY <2>3
<1>6. Follows(D, n, V, base, step)
  <2>1. D = [s \in SUBSET (1..n) |-> IF s = {} THEN base ELSE op(D[s \ {Max(s)}], seq[Max(s)])]
    BY <1>2, <1>5
  <2> HIDE DEF D
  <2>2. \A s \in SUBSET (1..n) : s # {} => Max(s) \in 1..n
    BY <1>2, MaxIn
  <2>3. {} \in SUBSET (1..n)
    OBVIOUS
  <2> QED
    BY <1>4, <2>1, <2>2, <2>3 DEF Follows
<1> HIDE DEF D
<1>7. PICK g : Goes(g, n, V, base, step, D[1..n])
  BY <1>2, <1>4, <1>6, FoldSteps
<1> QED
  BY <1>1, <1>2, <1>7 DEF Goes, V

\* So does the probe of a directory with what is below its drive, the directory itself
\* first.
LEMMA FromRootIs ==
  ASSUME NEW d, NEW root \in Dirs
  PROVE  /\ DiscoverAllFromRoot(d, root) \in Seq(There(d))
         /\ DiscoverFromRoot(d, root) \in {<<>>} \cup {<<i>> : i \in There(d)}
         /\ d[root] # {} => DiscoverFromRoot(d, root) = <<ProbeRoot(d, root)>>
<1>1. CASE LooksRight(d, root)
  <2>1. ProbeRoot(d, root) \in There(d)
    BY <1>1 DEF LooksRight, There
  <2> QED
    BY <1>1, <2>1 DEF DiscoverAllFromRoot, DiscoverFromRoot
<1>2. CASE ~LooksRight(d, root) /\ DriveC[root] # NoDir
  <2> DEFINE walk == WalkForAllInstalls(d, DriveC[root])
  <2>1. DiscoverAllFromRoot(d, root) = walk /\ DiscoverFromRoot(d, root) = FirstOf(walk)
    BY <1>2 DEF DiscoverAllFromRoot, DiscoverFromRoot
  <2>2. walk \in Seq(There(d))
    BY WalkIs
  <2>3. d[root] = {}
    BY <1>2 DEF LooksRight
  <2> HIDE DEF walk
  <2>4. FirstOf(walk) \in {<<>>} \cup {<<i>> : i \in There(d)}
    BY <2>2 DEF FirstOf
  <2> QED
    BY <2>1, <2>2, <2>3, <2>4
<1>3. CASE ~LooksRight(d, root) /\ DriveC[root] = NoDir
  BY <1>3 DEF DiscoverAllFromRoot, DiscoverFromRoot, LooksRight
<1> QED
  BY <1>1, <1>2, <1>3

\* The search of the daemon finds one of the installs that there are, or none.
LEMMA DiscoverIs ==
  ASSUME NEW d
  PROVE  Discover(d) \in {<<>>} \cup {<<i>> : i \in There(d)}
<1> DEFINE seq == SearchRoots
           n == Len(seq)
           V == {<<>>} \cup {<<i>> : i \in There(d)}
           base == <<>>
           op(found, root) == IF found = <<>> THEN DiscoverFromRoot(d, root) ELSE found
           step == [i \in 1..n |-> [v \in V |-> op(v, seq[i])]]
           Eq(f) == f = [s \in SUBSET DOMAIN seq |->
                           IF s = {} THEN base ELSE op(f[s \ {Max(s)}], seq[Max(s)])]
           D == CHOOSE f : Eq(f)
<1>1. Discover(d) = D[DOMAIN seq]
  BY DEF Discover, FoldLeft, MapThenFoldSet
<1>2. n \in Nat /\ DOMAIN seq = 1..n /\ base \in V
  BY TreeAssumption
<1>3. ASSUME NEW i \in 1..n, NEW v \in V PROVE op(v, seq[i]) \in V
  <2>1. seq[i] \in Dirs
    BY ItemOf, TreeAssumption, Zenon
  <2>2. DiscoverFromRoot(d, seq[i]) \in V
    BY <2>1, FromRootIs
  <2>3. op(v, seq[i]) \in {v, DiscoverFromRoot(d, seq[i])}
    BY Zenon
  <2> HIDE DEF op, seq, V
  <2> QED
    BY <2>2, <2>3
<1> HIDE DEF seq, n, V, base, op
<1>4. step \in [1..n -> [V -> V]] /\ \A i \in 1..n : \A v \in V : step[i][v] = op(v, seq[i])
  BY <1>3
<1> HIDE DEF step
<1>5. Eq(D)
  <2>1. PICK it : Makes(it, n, V, base, step)
    BY <1>2, <1>4, FoldMakes
  <2>2. \A s \in SUBSET (1..n) :
          it[s] = IF s = {} THEN base ELSE op(it[s \ {Max(s)}], seq[Max(s)])
    BY <1>4, <2>1 DEF Makes
  <2>3. Eq(it)
    BY <1>2, <2>1, <2>2 DEF Makes
  <2> HIDE DEF Eq
  <2> QED
    BY <2>3
<1>6. Follows(D, n, V, base, step)
  <2>1. D = [s \in SUBSET (1..n) |-> IF s = {} THEN base ELSE op(D[s \ {Max(s)}], seq[Max(s)])]
    BY <1>2, <1>5
  <2> HIDE DEF D
  <2>2. \A s \in SUBSET (1..n) : s # {} => Max(s) \in 1..n
    BY <1>2, MaxIn
  <2>3. {} \in SUBSET (1..n)
    OBVIOUS
  <2> QED
    BY <1>4, <2>1, <2>2, <2>3 DEF Follows
<1> HIDE DEF D
<1>7. PICK g : Goes(g, n, V, base, step, D[1..n])
  BY <1>2, <1>4, <1>6, FoldSteps
<1> QED
  BY <1>1, <1>2, <1>7 DEF Goes, V

\* What is added to a list of installs, unless it is in the list, is of those that are added.
LEMMA AddsUnseen ==
  ASSUME NEW S, NEW all \in Seq(S), NEW infos \in Seq(S)
  PROVE  FoldLeft(AddUnseen, all, infos) \in Seq(S)
<1> DEFINE seq == infos
           n == Len(seq)
           V == Seq(S)
           base == all
           op(list, info) == AddUnseen(list, info)
           step == [i \in 1..n |-> [v \in V |-> op(v, seq[i])]]
           Eq(f) == f = [s \in SUBSET DOMAIN seq |->
                           IF s = {} THEN base ELSE op(f[s \ {Max(s)}], seq[Max(s)])]
           D == CHOOSE f : Eq(f)
<1>1. FoldLeft(AddUnseen, all, infos) = D[DOMAIN seq]
  BY DEF FoldLeft, MapThenFoldSet
<1>2. n \in Nat /\ DOMAIN seq = 1..n /\ base \in V
  OBVIOUS
<1>3. ASSUME NEW i \in 1..n, NEW v \in V PROVE op(v, seq[i]) \in V
  <2>1. seq[i] \in S
    BY ItemOf, Zenon
  <2>2. op(v, seq[i]) \in {v, Append(v, seq[i])}
    BY DEF AddUnseen
  <2>3. v \in V /\ Append(v, seq[i]) \in V
    BY <2>1
  <2> HIDE DEF op, seq, V
  <2> QED
    BY <2>2, <2>3
<1> HIDE DEF seq, n, V, base, op
<1>4. step \in [1..n -> [V -> V]] /\ \A i \in 1..n : \A v \in V : step[i][v] = op(v, seq[i])
  BY <1>3
<1> HIDE DEF step
<1>5. Eq(D)
  <2>1. PICK it : Makes(it, n, V, base, step)
    BY <1>2, <1>4, FoldMakes
  <2>2. \A s \in SUBSET (1..n) :
          it[s] = IF s = {} THEN base ELSE op(it[s \ {Max(s)}], seq[Max(s)])
    BY <1>4, <2>1 DEF Makes
  <2>3. Eq(it)
    BY <1>2, <2>1, <2>2 DEF Makes
  <2> HIDE DEF Eq
  <2> QED
    BY <2>3
<1>6. Follows(D, n, V, base, step)
  <2>1. D = [s \in SUBSET (1..n) |-> IF s = {} THEN base ELSE op(D[s \ {Max(s)}], seq[Max(s)])]
    BY <1>2, <1>5
  <2> HIDE DEF D
  <2>2. \A s \in SUBSET (1..n) : s # {} => Max(s) \in 1..n
    BY <1>2, MaxIn
  <2>3. {} \in SUBSET (1..n)
    OBVIOUS
  <2> QED
    BY <1>4, <2>1, <2>2, <2>3 DEF Follows
<1> HIDE DEF D
<1>7. PICK g : Goes(g, n, V, base, step, D[1..n])
  BY <1>2, <1>4, <1>6, FoldSteps
<1> QED
  BY <1>1, <1>2, <1>7 DEF Goes, V

\* The default scan of the wizard finds what there is.
LEMMA DiscoverAllIs ==
  ASSUME NEW d
  PROVE  DiscoverAll(d) \in Seq(There(d))
<1> DEFINE seq == SearchRoots
           n == Len(seq)
           V == Seq(There(d))
           base == <<>>
           op(all, root) == FoldLeft(AddUnseen, all, DiscoverAllFromRoot(d, root))
           step == [i \in 1..n |-> [v \in V |-> op(v, seq[i])]]
           Eq(f) == f = [s \in SUBSET DOMAIN seq |->
                           IF s = {} THEN base ELSE op(f[s \ {Max(s)}], seq[Max(s)])]
           D == CHOOSE f : Eq(f)
<1>1. DiscoverAll(d) = D[DOMAIN seq]
  BY DEF DiscoverAll, FoldLeft, MapThenFoldSet
<1>2. n \in Nat /\ DOMAIN seq = 1..n /\ base \in V
  BY TreeAssumption
<1>3. ASSUME NEW i \in 1..n, NEW v \in V PROVE op(v, seq[i]) \in V
  <2>1. seq[i] \in Dirs
    BY ItemOf, TreeAssumption, Zenon
  <2>2. DiscoverAllFromRoot(d, seq[i]) \in Seq(There(d))
    BY <2>1, FromRootIs
  <2> QED
    BY <2>2, AddsUnseen
<1> HIDE DEF seq, n, V, base, op
<1>4. step \in [1..n -> [V -> V]] /\ \A i \in 1..n : \A v \in V : step[i][v] = op(v, seq[i])
  BY <1>3
<1> HIDE DEF step
<1>5. Eq(D)
  <2>1. PICK it : Makes(it, n, V, base, step)
    BY <1>2, <1>4, FoldMakes
  <2>2. \A s \in SUBSET (1..n) :
          it[s] = IF s = {} THEN base ELSE op(it[s \ {Max(s)}], seq[Max(s)])
    BY <1>4, <2>1 DEF Makes
  <2>3. Eq(it)
    BY <1>2, <2>1, <2>2 DEF Makes
  <2> HIDE DEF Eq
  <2> QED
    BY <2>3
<1>6. Follows(D, n, V, base, step)
  <2>1. D = [s \in SUBSET (1..n) |-> IF s = {} THEN base ELSE op(D[s \ {Max(s)}], seq[Max(s)])]
    BY <1>2, <1>5
  <2> HIDE DEF D
  <2>2. \A s \in SUBSET (1..n) : s # {} => Max(s) \in 1..n
    BY <1>2, MaxIn
  <2>3. {} \in SUBSET (1..n)
    OBVIOUS
  <2> QED
    BY <1>4, <2>1, <2>2, <2>3 DEF Follows
<1> HIDE DEF D
<1>7. PICK g : Goes(g, n, V, base, step, D[1..n])
  BY <1>2, <1>4, <1>6, FoldSteps
<1> QED
  BY <1>1, <1>2, <1>7 DEF Goes, V

\* And so does the scan of a directory that was typed.
LEMMA DoScanIs ==
  ASSUME NEW d, NEW path \in {NoDir} \cup Dirs
  PROVE  DoScan(d, path) \in Seq(There(d))
<1>1. CASE path = NoDir
  BY <1>1, DiscoverAllIs DEF DoScan
<1>2. CASE path \in Dirs
  <2> DEFINE direct == DiscoverFromRoot(d, path)
  <2>1. direct \in {<<>>} \cup {<<i>> : i \in There(d)}
    BY <1>2, FromRootIs
  <2>2. direct # <<>> => direct \in Seq(There(d))
    <3> SUFFICES ASSUME direct # <<>> PROVE direct \in Seq(There(d))
      OBVIOUS
    <3> HIDE DEF direct
    <3>1. PICK i \in There(d) : direct = <<i>>
      BY <2>1
    <3> QED
      BY <3>1
  <2>3. WalkForAllInstalls(d, path) \in Seq(There(d))
    BY WalkIs
  <2>4. DoScan(d, path) = IF direct # <<>> THEN direct ELSE WalkForAllInstalls(d, path)
    BY <1>2, TreeAssumption DEF DoScan
  <2> HIDE DEF direct
  <2> QED
    BY <2>2, <2>3, <2>4
<1> QED
  BY <1>1, <1>2

-----------------------------------------------------------------------------
(* The configuration and its file *)

\* A name in lower case stays as it is when it is read again.
LEMMA LowerIs ==
  /\ \A b \in Bases, i \in Nat : Profile(b, i) \in Names /\ Lower(Profile(b, i)) = Profile(b, i)
  /\ \A n \in Names : /\ Lower(n) \in Names /\ Lower(Lower(n)) = Lower(n)
                      /\ ~n.upper => Lower(n) = n
  /\ NoName \in Names /\ Profile("default", 1) \in Names
  /\ Lower(Profile("default", 1)) = Profile("default", 1)
<1>1. \A b \in Bases, i \in Nat : Profile(b, i) \in Names /\ ~Profile(b, i).upper
  BY DEF Profile, Names
<1>2. \A n \in Names : Lower(n) \in Names /\ Lower(Lower(n)) = Lower(n)
  BY DEF Names, Lower
<1>3. \A n \in Names : ~n.upper => Lower(n) = n
  BY DEF Names, Lower
<1>4. "" \in Bases /\ "default" \in Bases
  BY SetupAssumption
<1> QED
  BY <1>1, <1>2, <1>3, <1>4 DEF NoName

\* A map of profiles.
Maps == UNION {[D -> Installs] : D \in {D \in SUBSET Names : IsFiniteSet(D)}}

\* Configurations as a set: what IsConfig says of one.
LEMMA MapsAre ==
  /\ \A c, t, a : c \in [profiles : Maps, active : Names, tui : {t}, addr : {a}] <=>
                    IsConfig(c) /\ c.tui = t /\ c.addr = a
  /\ \A q : q \in Maps <=> /\ q = [n \in DOMAIN q |-> q[n]] /\ DOMAIN q \subseteq Names
                           /\ IsFiniteSet(DOMAIN q) /\ \A n \in DOMAIN q : q[n] \in Installs
  /\ None \in Maps /\ DOMAIN None = {} /\ \A q \in Maps : q = None <=> DOMAIN q = {}
<1>1. \A q : q \in Maps <=> /\ q = [n \in DOMAIN q |-> q[n]] /\ DOMAIN q \subseteq Names
                            /\ IsFiniteSet(DOMAIN q) /\ \A n \in DOMAIN q : q[n] \in Installs
  <2>1. ASSUME NEW q, q \in Maps
        PROVE  /\ q = [n \in DOMAIN q |-> q[n]] /\ DOMAIN q \subseteq Names
               /\ IsFiniteSet(DOMAIN q) /\ \A n \in DOMAIN q : q[n] \in Installs
    <3>1. PICK D \in SUBSET Names : IsFiniteSet(D) /\ q \in [D -> Installs]
      BY <2>1 DEF Maps
    <3> QED
      BY <3>1
  <2>2. ASSUME NEW q, q = [n \in DOMAIN q |-> q[n]], DOMAIN q \subseteq Names,
               IsFiniteSet(DOMAIN q), \A n \in DOMAIN q : q[n] \in Installs
        PROVE  q \in Maps
    <3>1. q \in [DOMAIN q -> Installs]
      BY <2>2
    <3> QED
      BY <2>2, <3>1 DEF Maps
  <2> QED
    BY <2>1, <2>2
<1>2. \A c, t, a : c \in [profiles : Maps, active : Names, tui : {t}, addr : {a}] <=>
                     IsConfig(c) /\ c.tui = t /\ c.addr = a
  <2>1. ASSUME NEW c, NEW t, NEW a, c \in [profiles : Maps, active : Names, tui : {t}, addr : {a}]
        PROVE  IsConfig(c) /\ c.tui = t /\ c.addr = a
    <3>1. c.profiles \in Maps /\ c.active \in Names /\ c.tui = t /\ c.addr = a
      BY <2>1
    <3>2. c.profiles \in [DOMAIN c.profiles -> Installs]
      BY <1>1, <3>1
    <3>3. c \in [profiles : {c.profiles}, active : Names, tui : {c.tui}, addr : {c.addr}]
      BY <2>1
    <3> QED
      BY <1>1, <3>1, <3>2, <3>3 DEF IsConfig
  <2>2. ASSUME NEW c, IsConfig(c)
        PROVE  c \in [profiles : Maps, active : Names, tui : {c.tui}, addr : {c.addr}]
    <3>1. c.profiles \in Maps
      BY <1>1, <2>2 DEF IsConfig
    <3> QED
      BY <2>2, <3>1 DEF IsConfig
  <2> QED
    BY <2>1, <2>2
<1>3. None \in Maps /\ DOMAIN None = {}
  <2>1. None = [n \in {} |-> Unset] /\ DOMAIN None = {}
    BY DEF None
  <2>2. IsFiniteSet({})
    BY FS_EmptySet
  <2> QED
    BY <1>1, <2>1, <2>2
<1>4. \A q \in Maps : q = None <=> DOMAIN q = {}
  <2>1. ASSUME NEW q \in Maps, DOMAIN q = {} PROVE q = None
    <3>1. q = [n \in {} |-> q[n]]
      BY <1>1, <2>1
    <3> QED
      BY <3>1 DEF None
  <2> QED
    BY <1>3, <2>1
<1> QED
  BY <1>1, <1>2, <1>3, <1>4

\* A configuration has a map of profiles.
LEMMA ConfigHas ==
  ASSUME NEW c, IsConfig(c)
  PROVE  c.profiles \in Maps /\ c.active \in Names
<1>1. c \in [profiles : Maps, active : Names, tui : {c.tui}, addr : {c.addr}]
  BY MapsAre, Zenon
<1> QED
  BY <1>1

\* A configuration and what is put in its place.
LEMMA ConfigWith ==
  ASSUME NEW c, IsConfig(c), NEW q \in Maps, NEW n \in Names, NEW t
  PROVE  /\ IsConfig([c EXCEPT !.profiles = q, !.active = n])
         /\ IsConfig([c EXCEPT !.profiles = q]) /\ IsConfig([c EXCEPT !.tui = t])
<1>1. c \in [profiles : Maps, active : Names, tui : {c.tui}, addr : {c.addr}]
  BY MapsAre, Zenon
<1>2. [c EXCEPT !.profiles = q, !.active = n]
        \in [profiles : Maps, active : Names, tui : {c.tui}, addr : {c.addr}]
  BY <1>1
<1>3. [c EXCEPT !.profiles = q] \in [profiles : Maps, active : Names, tui : {c.tui}, addr : {c.addr}]
  BY <1>1
<1>4. [c EXCEPT !.tui = t] \in [profiles : Maps, active : Names, tui : {t}, addr : {c.addr}]
  BY <1>1
<1> QED
  BY <1>2, <1>3, <1>4, MapsAre, Zenon

\* The configuration there is without a file.
LEMMA DefaultsAre ==
  /\ IsConfig(Defaults) /\ IsConfig(Blank) /\ Defaults.profiles = None /\ Blank.profiles = None
  /\ Defaults = [profiles |-> None, active |-> NoName, tui |-> NoLayout, addr |-> "default"]
<1>1. Defaults = [profiles |-> None, active |-> NoName, tui |-> NoLayout, addr |-> "default"]
      /\ Blank = [profiles |-> None, active |-> NoName, tui |-> NoLayout, addr |-> "blank"]
  BY DEF Defaults, Blank, Config
<1>2. None \in Maps /\ NoName \in Names
  BY MapsAre, LowerIs
<1>3. Defaults \in [profiles : Maps, active : Names, tui : {NoLayout}, addr : {"default"}]
      /\ Blank \in [profiles : Maps, active : Names, tui : {NoLayout}, addr : {"blank"}]
  BY <1>1, <1>2
<1>4. Defaults.profiles = None /\ Blank.profiles = None
  BY <1>1
<1> QED
  BY <1>1, <1>3, <1>4, MapsAre, Zenon

\* A document is neither no file nor one that cannot be read.
LEMMA DocumentIs ==
  ASSUME NEW c, NEW legacy
  PROVE  /\ Document(c, legacy) \notin {NoFile, Broken} /\ NoFile # Broken
         /\ Document(c, legacy).config = c /\ Document(c, legacy).legacy = legacy
<1>1. "config" \in DOMAIN Document(c, legacy) /\ "config" \notin DOMAIN NoFile
      /\ "config" \notin DOMAIN Broken
  BY DEF Document, NoFile, Broken
<1>2. NoFile.state = "missing" /\ Broken.state = "unreadable"
  BY DEF NoFile, Broken
<1>3. Document(c, legacy).config = c /\ Document(c, legacy).legacy = legacy
  BY DEF Document
<1> QED
  BY <1>1, <1>2, <1>3

\* The file is one of three things.
LEMMA FileIs ==
  ASSUME NEW f, IsFile(f)
  PROVE  \/ f = NoFile /\ Load(f) = {Defaults}
         \/ f = Broken /\ Load(f) = {}
         \/ /\ f \notin {NoFile, Broken} /\ f = Document(f.config, f.legacy)
            /\ IsConfig(f.config) /\ f.legacy \in Seq(Installs)
<1>1. CASE f = NoFile
  BY <1>1 DEF Load
<1>2. CASE f = Broken
  <2>1. f # NoFile
    BY <1>2, DocumentIs
  <2> QED
    BY <1>2, <2>1 DEF Load
<1>3. CASE f \notin {NoFile, Broken}
  <2>1. f \in [config : {f.config}, legacy : {f.legacy}]
        /\ IsConfig(f.config) /\ f.legacy \in Seq(Installs)
    BY <1>3 DEF IsFile
  <2>2. f = Document(f.config, f.legacy)
    BY <2>1 DEF Document
  <2> QED
    BY <1>3, <2>1, <2>2
<1> QED
  BY <1>1, <1>2, <1>3

\* What a document of an older release, or another one, is read as.
OfLegacy(c, legacy) ==
  [c EXCEPT !.profiles = [n \in {Profile("default", 1)} |-> legacy[1]],
            !.active = Profile("default", 1)]
Readings(c) == {[c EXCEPT !.profiles = q] : q \in Lowered(c.profiles)}
IsOlder(f) == f.config.profiles = None /\ f.legacy # None

\* What a file is read as.
LEMMA LoadIs ==
  ASSUME NEW f, f \notin {NoFile, Broken}
  PROVE  /\ IsOlder(f) => Load(f) = {OfLegacy(f.config, f.legacy)}
         /\ ~IsOlder(f) => Load(f) = Readings(f.config)
<1>1. f # NoFile /\ f # Broken
  OBVIOUS
<1>2. CASE f.config.profiles = None /\ f.legacy # None
  BY <1>1, <1>2 DEF Load, IsOlder, OfLegacy
<1>3. CASE ~(f.config.profiles = None /\ f.legacy # None)
  BY <1>1, <1>3 DEF Load, IsOlder, Readings
<1> QED
  BY <1>2, <1>3

\* Reading lowers the names and keeps the rest.
LEMMA LoweredAre ==
  ASSUME NEW p \in Maps, NEW q \in Lowered(p)
  PROVE  q \in Maps /\ \A n \in DOMAIN q : Lower(n) = n
<1> DEFINE L == {Lower(n) : n \in DOMAIN p}
<1>1. q \in [L -> {p[n] : n \in DOMAIN p}]
  BY DEF Lowered
<1>2. DOMAIN p \subseteq Names /\ IsFiniteSet(DOMAIN p) /\ \A n \in DOMAIN p : p[n] \in Installs
  BY MapsAre, Zenon
<1>3. L \subseteq Names /\ \A l \in L : Lower(l) = l
  BY <1>2, LowerIs
<1>4. IsFiniteSet(L)
  <2> DEFINE h == [n \in DOMAIN p |-> Lower(n)]
  <2>1. h \in Surjection(DOMAIN p, L)
    BY DEF Surjection
  <2> QED
    BY <1>2, <2>1, FS_Surjection
<1>5. /\ DOMAIN q = L /\ q = [n \in DOMAIN q |-> q[n]] /\ \A n \in DOMAIN q : q[n] \in Installs
  BY <1>1, <1>2
<1> HIDE DEF L
<1> QED
  BY <1>3, <1>4, <1>5, MapsAre

\* A configuration that is read is one, with names in lower case.
LEMMA LoadedIs ==
  ASSUME NEW f, IsFile(f), NEW c \in Load(f)
  PROVE  IsConfig(c) /\ \A n \in DOMAIN c.profiles : Lower(n) = n
<1>1. CASE c = Defaults
  BY <1>1, DefaultsAre, MapsAre
<1>2. CASE f \notin {NoFile, Broken}
  <2>1. IsConfig(f.config) /\ f.legacy \in Seq(Installs)
    BY <1>2, FileIs
  <2>2. f.config.profiles \in Maps /\ f.config.active \in Names
    BY <2>1, ConfigHas, Zenon
  <2>3. CASE IsOlder(f)
    <3> DEFINE n == Profile("default", 1)
               q == [x \in {n} |-> f.legacy[1]]
    <3>1. c = [f.config EXCEPT !.profiles = q, !.active = n]
      <4>1. c = OfLegacy(f.config, f.legacy)
        BY <1>2, <2>3, LoadIs
      <4> QED
        BY <4>1 DEF OfLegacy
    <3>2. f.legacy[1] \in Installs
      BY <2>1, <2>3 DEF IsOlder, None
    <3>3. n \in Names /\ Lower(n) = n
      BY LowerIs
    <3> HIDE DEF n
    <3>4. q \in Maps /\ DOMAIN q = {n}
      <4>1. IsFiniteSet({n})
        BY FS_Singleton
      <4> QED
        BY <3>2, <3>3, <4>1, MapsAre
    <3> HIDE DEF q
    <3>5. IsConfig(c)
      BY <2>1, <3>1, <3>3, <3>4, ConfigWith
    <3>6. c.profiles = q
      BY <2>1, <3>1 DEF IsConfig
    <3> QED
      BY <3>3, <3>4, <3>5, <3>6
  <2>4. CASE ~IsOlder(f)
    <3>0. Load(f) = Readings(f.config)
      BY <1>2, <2>4, LoadIs
    <3>1. PICK q \in Lowered(f.config.profiles) : c = [f.config EXCEPT !.profiles = q]
      BY <3>0 DEF Readings
    <3>2. q \in Maps /\ \A n \in DOMAIN q : Lower(n) = n
      BY <2>2, LoweredAre
    <3>3. IsConfig(c)
      BY <2>1, <2>2, <3>1, <3>2, ConfigWith
    <3>4. c.profiles = q
      BY <2>1, <3>1 DEF IsConfig
    <3> QED
      BY <3>2, <3>3, <3>4
  <2> QED
    BY <2>3, <2>4
<1> QED
  BY <1>1, <1>2, FileIs

\* A document of a configuration with names in lower case is read as it was written.
LEMMA PlainLoad ==
  ASSUME NEW c, IsConfig(c), \A n \in DOMAIN c.profiles : Lower(n) = n
  PROVE  Load(Document(c, None)) = {c}
<1> DEFINE f == Document(c, None)
           p == c.profiles
<1>1. f \notin {NoFile, Broken} /\ f.config = c /\ f.legacy = None
  BY DocumentIs
<1>2. p \in Maps /\ p = [n \in DOMAIN p |-> p[n]]
  BY ConfigHas, MapsAre DEF IsConfig
<1>3. Lowered(p) = {p}
  <2>1. {Lower(n) : n \in DOMAIN p} = DOMAIN p
    OBVIOUS
  <2>2. ASSUME NEW q \in Lowered(p) PROVE q = p
    <3>1. q \in [DOMAIN p -> {p[n] : n \in DOMAIN p}]
          /\ \A l \in DOMAIN q : \E n \in DOMAIN p : Lower(n) = l /\ q[l] = p[n]
      BY <2>1 DEF Lowered
    <3>2. DOMAIN q = DOMAIN p /\ q = [n \in DOMAIN p |-> q[n]]
      BY <3>1
    <3>3. \A l \in DOMAIN p : q[l] = p[l]
      BY <3>1, <3>2
    <3> QED
      BY <1>2, <3>2, <3>3
  <2>3. p \in Lowered(p)
    <3>1. p \in [DOMAIN p -> {p[n] : n \in DOMAIN p}]
      BY <1>2
    <3> QED
      BY <2>1, <3>1 DEF Lowered
  <2> QED
    BY <2>2, <2>3
<1>4. [c EXCEPT !.profiles = p] = c
  BY DEF IsConfig
<1> HIDE DEF f, p
<1>5. Load(f) = {[c EXCEPT !.profiles = q] : q \in Lowered(p)}
  <2>1. f.config = c /\ f.config.profiles = p /\ ~IsOlder(f)
    BY <1>1 DEF p, IsOlder
  <2>2. Load(f) = Readings(f.config)
    BY <1>1, <2>1, LoadIs
  <2> QED
    BY <2>1, <2>2 DEF Readings
<1>6. Load(f) = {c}
  BY <1>3, <1>4, <1>5
<1> QED
  BY <1>6 DEF f

\* A layout that is written is read, and nothing else changes.
LEMMA LayoutLoad ==
  ASSUME NEW f, IsFile(f), f \notin {NoFile, Broken}, NEW t
  PROVE  LET g == [f EXCEPT !.config.tui = t]
         IN  /\ IsFile(g) /\ g \notin {NoFile, Broken}
             /\ Load(g) = {[c EXCEPT !.tui = t] : c \in Load(f)}
<1> DEFINE g == [f EXCEPT !.config.tui = t]
<1>1. f \in [config : {f.config}, legacy : {f.legacy}]
      /\ IsConfig(f.config) /\ f.legacy \in Seq(Installs)
  BY DEF IsFile
<1>2. g.config = [f.config EXCEPT !.tui = t] /\ g.legacy = f.legacy
      /\ g \in [config : {g.config}, legacy : {g.legacy}]
  BY <1>1
<1>3. f.config \in [profiles : {f.config.profiles}, active : Names, tui : {f.config.tui},
                    addr : {f.config.addr}]
  BY <1>1 DEF IsConfig
<1>4. IsConfig(g.config) /\ g.config.profiles = f.config.profiles
  <2>1. f.config.profiles \in Maps /\ f.config.active \in Names
    BY <1>1, ConfigHas, Zenon
  <2> QED
    BY <1>1, <1>2, <1>3, <2>1, ConfigWith
<1>5. g \notin {NoFile, Broken}
  <2>1. g = Document(g.config, g.legacy)
    BY <1>2 DEF Document
  <2> QED
    BY <2>1, DocumentIs
<1> HIDE DEF g
<1>6. IsFile(g)
  BY <1>1, <1>2, <1>4 DEF IsFile
<1>7. Load(g) = {[c EXCEPT !.tui = t] : c \in Load(f)}
  <2>1. /\ f.legacy = g.legacy /\ (IsOlder(f) <=> IsOlder(g))
        /\ Lowered(f.config.profiles) = Lowered(g.config.profiles)
    BY <1>2, <1>4 DEF IsOlder
  <2>2. CASE IsOlder(f)
    <3>1. Load(f) = {OfLegacy(f.config, f.legacy)} /\ Load(g) = {OfLegacy(g.config, f.legacy)}
      BY <1>5, <2>1, <2>2, LoadIs
    <3>2. OfLegacy(g.config, f.legacy) = [OfLegacy(f.config, f.legacy) EXCEPT !.tui = t]
      BY <1>2, <1>3 DEF OfLegacy
    <3> QED
      BY <3>1, <3>2
  <2>3. CASE ~IsOlder(f)
    <3> DEFINE L == Lowered(f.config.profiles)
               With(q) == [f.config EXCEPT !.profiles = q]
               AndWith(q) == [g.config EXCEPT !.profiles = q]
    <3>1. Load(f) = Readings(f.config) /\ Load(g) = Readings(g.config)
      BY <1>5, <2>1, <2>3, LoadIs
    <3>2. Load(f) = {With(q) : q \in L} /\ Load(g) = {AndWith(q) : q \in L}
      BY <2>1, <3>1 DEF Readings
    <3>3. \A q : AndWith(q) = [With(q) EXCEPT !.tui = t]
      BY <1>2, <1>3
    <3> HIDE DEF L, With, AndWith
    <3> QED
      BY <3>2, <3>3
  <2> QED
    BY <2>2, <2>3
<1> QED
  BY <1>5, <1>6, <1>7 DEF g

\* The profile to run with is of the configuration, and is the active one if there is
\* one of that name.
LEMMA GetProfileIs ==
  ASSUME NEW c, IsConfig(c)
  PROVE  /\ GetProfile(c) \in {<<>>} \cup {<<i>> : i \in Installs}
         /\ c.active \in DOMAIN c.profiles => GetProfile(c) = <<c.profiles[c.active]>>
<1> DEFINE p == c.profiles
<1>1. p \in Maps /\ IsFiniteSet(DOMAIN p) /\ (p = None <=> DOMAIN p = {})
      /\ \A n \in DOMAIN p : p[n] \in Installs
  BY ConfigHas, MapsAre DEF IsConfig
<1>2. Unset \in Installs
  BY DEF Unset, Install, Installs
<1>3. Cardinality(DOMAIN p) \in Nat /\ (Cardinality(DOMAIN p) = 0 <=> DOMAIN p = {})
      /\ (Cardinality(DOMAIN p) = 1 <=> \E x : DOMAIN p = {x})
  BY <1>1, FS_CardinalityType, FS_EmptySet, FS_Singleton
<1>4. CASE p = None
  <2>1. GetProfile(c) = <<Unset>>
    BY <1>1, <1>3, <1>4 DEF GetProfile
  <2> QED
    BY <1>1, <1>2, <1>4, <2>1
<1>5. CASE p # None /\ Cardinality(DOMAIN p) = 1
  <2>1. PICK x : DOMAIN p = {x}
    BY <1>3, <1>5
  <2>2. (CHOOSE n \in DOMAIN p : TRUE) = x
    BY <2>1
  <2>3. GetProfile(c) = <<p[x]>>
    <3>1. GetProfile(c) = <<p[CHOOSE n \in DOMAIN p : TRUE]>>
      BY <1>5 DEF GetProfile
    <3> HIDE DEF p
    <3> QED
      BY <2>2, <3>1
  <2> QED
    BY <1>1, <2>1, <2>3
<1>6. CASE p # None /\ Cardinality(DOMAIN p) # 1
  <2>1. Cardinality(DOMAIN p) > 1
    BY <1>1, <1>3, <1>6
  <2>2. CASE c.active \in DOMAIN p
    BY <1>1, <1>6, <2>1, <2>2 DEF GetProfile
  <2>3. CASE c.active \notin DOMAIN p
    BY <1>1, <1>6, <2>1, <2>3 DEF GetProfile
  <2> QED
    BY <2>2, <2>3
<1> QED
  BY <1>4, <1>5, <1>6

-----------------------------------------------------------------------------
(* Names *)

\* The items of a sequence are finitely many.
LEMMA ItemsFinite ==
  ASSUME NEW T, NEW s \in Seq(T)
  PROVE  IsFiniteSet(ToSet(s))
<1>1. IsFiniteSet(1..Len(s))
  BY FS_Interval
<1>2. [i \in 1..Len(s) |-> s[i]] \in Surjection(1..Len(s), ToSet(s))
  BY DEF Surjection, ToSet
<1> QED
  BY <1>1, <1>2, FS_Surjection

\* A name that is suggested is a name: one of the numbers up to one more than the names
\* in use is free.
LEMMA SuggestIs ==
  ASSUME NEW root \in Dirs, NEW used, IsFiniteSet(used)
  PROVE  SuggestProfileName(root, used) \in Names \ {NoName}
<1> DEFINE b == Base[root]
           n == Cardinality(used) + 1
           free == {i \in 1..n : Profile(b, i) \notin used}
           first == CHOOSE i \in free : \A j \in free : i <= j
           h == [i \in 1..n |-> Profile(b, i)]
<1>1. SuggestProfileName(root, used) = Profile(b, first)
  BY DEF SuggestProfileName
<1>2. n \in Nat /\ Cardinality(used) < n
  BY FS_CardinalityType
<1>3. b \in Bases
  BY SetupAssumption
<1>4. \A i, j \in 1..n : h[i] = h[j] => i = j
  <2>1. \A i : Profile(b, i).nth = i
    BY DEF Profile
  <2> HIDE DEF b, n
  <2> QED
    BY <2>1
<1> HIDE DEF b, n
<1>5. free # {}
  <2> SUFFICES ASSUME free = {} PROVE FALSE
    OBVIOUS
  <2>1. h \in [1..n -> used]
    OBVIOUS
  <2>2. IsFiniteSet(1..n) /\ Cardinality(1..n) = n
    BY <1>2, FS_Interval
  <2> HIDE DEF h, free
  <2>3. \E i, j \in 1..n : i # j /\ h[i] = h[j]
    BY <1>2, <2>1, <2>2, FS_PigeonHole
  <2> QED
    BY <1>4, <2>3
<1>6. free \in SUBSET Nat
  BY <1>2
<1>7. first \in free
  <2> HIDE DEF free
  <2>1. \E i \in free : \A j \in free : i <= j
    BY <1>5, <1>6, Least
  <2> QED
    BY <2>1
<1>8. first \in Nat /\ first >= 1
  <2> HIDE DEF first
  <2> QED
    BY <1>2, <1>7
<1> HIDE DEF first
<1>9. Profile(b, first) \in Names
  BY <1>3, <1>8, LowerIs
<1>10. Profile(b, first) # NoName
  <2>1. Profile(b, first).nth = first /\ NoName.nth = 0
    BY DEF Profile, NoName
  <2> QED
    BY <1>8, <2>1
<1> QED
  BY <1>1, <1>9, <1>10

\* The naming step suggests a name for each install.
LEMMA SuggestionsAre ==
  ASSUME NEW infos \in Seq(Places)
  PROVE  Suggestions(infos) \in Seq(Names \ {NoName}) /\ Len(Suggestions(infos)) = Len(infos)
<1> DEFINE seq == infos
           n == Len(seq)
           V == Seq(Names \ {NoName})
           base == <<>>
           op(names, info) == Append(names, SuggestProfileName(info.root, ToSet(names)))
           step == [i \in 1..n |-> [v \in V |-> op(v, seq[i])]]
           Eq(f) == f = [s \in SUBSET DOMAIN seq |->
                           IF s = {} THEN base ELSE op(f[s \ {Max(s)}], seq[Max(s)])]
           D == CHOOSE f : Eq(f)
<1>1. Suggestions(infos) = D[DOMAIN seq]
  BY DEF Suggestions, FoldLeft, MapThenFoldSet
<1>2. n \in Nat /\ DOMAIN seq = 1..n /\ base \in V
  OBVIOUS
<1>3. ASSUME NEW i \in 1..n, NEW v \in V PROVE op(v, seq[i]) \in V
  <2>1. seq[i].root \in Dirs
    <3>1. seq[i] \in Places
      BY ItemOf, Zenon
    <3> QED
      BY <3>1 DEF Places
  <2>2. IsFiniteSet(ToSet(v))
    BY ItemsFinite
  <2>3. SuggestProfileName(seq[i].root, ToSet(v)) \in Names \ {NoName}
    BY <2>1, <2>2, SuggestIs, Zenon
  <2> QED
    BY <2>3
<1> HIDE DEF seq, n, V, base, op
<1>4. step \in [1..n -> [V -> V]] /\ \A i \in 1..n : \A v \in V : step[i][v] = op(v, seq[i])
  BY <1>3
<1> HIDE DEF step
<1>5. Eq(D)
  <2>1. PICK it : Makes(it, n, V, base, step)
    BY <1>2, <1>4, FoldMakes
  <2>2. \A s \in SUBSET (1..n) :
          it[s] = IF s = {} THEN base ELSE op(it[s \ {Max(s)}], seq[Max(s)])
    BY <1>4, <2>1 DEF Makes
  <2>3. Eq(it)
    BY <1>2, <2>1, <2>2 DEF Makes
  <2> HIDE DEF Eq
  <2> QED
    BY <2>3
<1>6. Follows(D, n, V, base, step)
  <2>1. D = [s \in SUBSET (1..n) |-> IF s = {} THEN base ELSE op(D[s \ {Max(s)}], seq[Max(s)])]
    BY <1>2, <1>5
  <2> HIDE DEF D
  <2>2. \A s \in SUBSET (1..n) : s # {} => Max(s) \in 1..n
    BY <1>2, MaxIn
  <2>3. {} \in SUBSET (1..n)
    OBVIOUS
  <2> QED
    BY <1>4, <2>1, <2>2, <2>3 DEF Follows
<1> HIDE DEF D
<1>7. PICK g : Goes(g, n, V, base, step, D[1..n])
  BY <1>2, <1>4, <1>6, FoldSteps
<1>8. ASSUME NEW k \in 1..n, Len(g[k - 1]) = k - 1 PROVE Len(g[k]) = k
  <2> DEFINE name == SuggestProfileName(seq[k].root, ToSet(g[k - 1]))
  <2>1. g[k - 1] \in V /\ g[k] = op(g[k - 1], seq[k])
    <3>1. k - 1 \in 0..n
      BY <1>2
    <3> QED
      BY <1>4, <1>7, <3>1 DEF Goes
  <2>2. g[k] = Append(g[k - 1], name)
    BY <2>1 DEF op
  <2> HIDE DEF name
  <2> QED
    BY <1>8, <2>1, <2>2 DEF V
<1>9. \A k \in 0..n : Len(g[k]) = k
  <2> DEFINE T == {k \in 0..n : Len(g[k]) = k}
  <2>1. 0 \in T
    BY <1>2, <1>7 DEF Goes, base
  <2>2. \A k \in 1..n : k - 1 \in T => k \in T
    BY <1>2, <1>8
  <2>3. \A k \in 0..n : k \in T
    <3> HIDE DEF T
    <3> QED
      BY <1>2, <2>1, <2>2, UpTo, Zenon
  <2> QED
    BY <2>3
<1>10. g[n] \in V /\ Len(g[n]) = n
  BY <1>2, <1>7, <1>9 DEF Goes
<1> QED
  BY <1>1, <1>2, <1>7, <1>10 DEF Goes, V, n, seq

-----------------------------------------------------------------------------
(* The wizard *)

Listed  == [info : Places, selected : BOOLEAN]
Entries == [install : Places, name : Names]
Wizards ==
  [step : {"scan", "naming", "active", "summary"}, installs : Seq(Listed), cursor : Nat,
   focused : BOOLEAN, clear : BOOLEAN, profiles : Seq(Entries), inputs : Seq(Names),
   nameIdx : Nat, active : Nat, thenRun : BOOLEAN]

\* The cursor is on an install, if there is one; if there are inputs, every profile has
\* one; the profiles before the one being named have names, in the steps after that all
\* of them have, and one of them is the active one.
IsWizard(w) ==
  /\ w \in Wizards
  /\ w.installs = <<>> \/ w.cursor \in 1..Len(w.installs)
  /\ w.inputs = <<>> \/ Len(w.profiles) <= Len(w.inputs)
  /\ w.step = "naming" =>
       \A j \in 1..Len(w.profiles) : j < w.nameIdx => w.profiles[j].name # NoName
  /\ w.step \in {"active", "summary"} =>
       /\ w.active \in 1..Len(w.profiles)
       /\ \A j \in 1..Len(w.profiles) : w.profiles[j].name # NoName

\* What the fields of a wizard are.
LEMMA WizardHas ==
  ASSUME NEW w, IsWizard(w)
  PROVE  /\ w.installs \in Seq(Listed) /\ w.profiles \in Seq(Entries) /\ w.inputs \in Seq(Names)
         /\ w.cursor \in Nat /\ w.nameIdx \in Nat /\ w.active \in Nat
         /\ DOMAIN w.installs = 1..Len(w.installs) /\ DOMAIN w.profiles = 1..Len(w.profiles)
         /\ DOMAIN w.inputs = 1..Len(w.inputs) /\ Selected(w) \in Seq(Places)
<1>1. w.installs \in Seq(Listed) /\ w.profiles \in Seq(Entries) /\ w.inputs \in Seq(Names)
      /\ w.cursor \in Nat /\ w.nameIdx \in Nat /\ w.active \in Nat
  BY DEF IsWizard, Wizards
<1>2. Selected(w) \in Seq(Places)
  BY <1>1, SelectedIs DEF Listed
<1> QED
  BY <1>1, <1>2

\* The list of installs may change as it will.
LEMMA WizardInstalls ==
  ASSUME NEW w, IsWizard(w), NEW s \in Seq(Listed), NEW c \in Nat, s = <<>> \/ c \in 1..Len(s)
  PROVE  /\ IsWizard([w EXCEPT !.installs = s, !.cursor = c])
         /\ IsWizard([w EXCEPT !.installs = s, !.cursor = c, !.clear = TRUE])
  BY DEF IsWizard, Wizards

\* A new wizard has found nothing yet.
LEMMA NewWizard ==
  ASSUME NEW b \in BOOLEAN
  PROVE  IsWizard(NewDiscoverModel(b))
<1> DEFINE w == NewDiscoverModel(b)
<1>1. w = [step |-> "scan", installs |-> <<>>, cursor |-> 1, focused |-> FALSE, clear |-> FALSE,
           profiles |-> <<>>, inputs |-> <<>>, nameIdx |-> 1, active |-> 1, thenRun |-> b]
  BY DEF NewDiscoverModel
<1>2. w \in Wizards
  BY <1>1 DEF Wizards
<1>3. w.installs = <<>> /\ w.inputs = <<>> /\ w.step = "scan"
  BY <1>1
<1>4. IsWizard(w)
  <2> HIDE DEF w
  <2> QED
    BY <1>2, <1>3 DEF IsWizard
<1> QED
  BY <1>4

\* The result of a scan is added to the list.
LEMMA AddsInstalls ==
  ASSUME NEW w, IsWizard(w), NEW infos \in Seq(Places)
  PROVE  IsWizard(FoldLeft(AddInstall, w, infos))
<1> DEFINE seq == infos
           n == Len(seq)
           V == {x \in Wizards : IsWizard(x)}
           base == w
           op(x, info) == AddInstall(x, info)
           step == [i \in 1..n |-> [v \in V |-> op(v, seq[i])]]
           Eq(f) == f = [s \in SUBSET DOMAIN seq |->
                           IF s = {} THEN base ELSE op(f[s \ {Max(s)}], seq[Max(s)])]
           D == CHOOSE f : Eq(f)
<1>1. FoldLeft(AddInstall, w, infos) = D[DOMAIN seq]
  BY DEF FoldLeft, MapThenFoldSet
<1>2. n \in Nat /\ DOMAIN seq = 1..n /\ base \in V
  BY DEF IsWizard
<1>3. ASSUME NEW i \in 1..n, NEW v \in V PROVE op(v, seq[i]) \in V
  <2>1. seq[i] \in Places /\ IsWizard(v)
    BY ItemOf, Zenon
  <2> DEFINE item == [info |-> seq[i], selected |-> TRUE]
             s == Append(v.installs, item)
  <2>2. v.installs \in Seq(Listed) /\ item \in Listed
    BY <2>1, WizardHas DEF Listed
  <2> HIDE DEF item
  <2>3. s \in Seq(Listed) /\ Len(s) = Len(v.installs) + 1 /\ Len(v.installs) \in Nat
    BY <2>2
  <2>4. op(v, seq[i]) \in {v, [v EXCEPT !.installs = s, !.cursor = Len(v.installs) + 1]}
    BY DEF AddInstall, item
  <2> DEFINE c == Len(v.installs) + 1
  <2>7. c \in Nat /\ c \in 1..Len(s)
    BY <2>3
  <2> HIDE DEF s, c
  <2>5. IsWizard([v EXCEPT !.installs = s, !.cursor = c])
    BY <2>1, <2>3, <2>7, WizardInstalls
  <2>6. IsWizard(op(v, seq[i]))
    <3> HIDE DEF op
    <3> QED
      BY <2>1, <2>4, <2>5 DEF c
  <2> HIDE DEF op
  <2> QED
    BY <2>6 DEF IsWizard
<1> HIDE DEF seq, n, V, base, op
<1>4. step \in [1..n -> [V -> V]] /\ \A i \in 1..n : \A v \in V : step[i][v] = op(v, seq[i])
  BY <1>3
<1> HIDE DEF step
<1>5. Eq(D)
  <2>1. PICK it : Makes(it, n, V, base, step)
    BY <1>2, <1>4, FoldMakes
  <2>2. \A s \in SUBSET (1..n) :
          it[s] = IF s = {} THEN base ELSE op(it[s \ {Max(s)}], seq[Max(s)])
    BY <1>4, <2>1 DEF Makes
  <2>3. Eq(it)
    BY <1>2, <2>1, <2>2 DEF Makes
  <2> HIDE DEF Eq
  <2> QED
    BY <2>3
<1>6. Follows(D, n, V, base, step)
  <2>1. D = [s \in SUBSET (1..n) |-> IF s = {} THEN base ELSE op(D[s \ {Max(s)}], seq[Max(s)])]
    BY <1>2, <1>5
  <2> HIDE DEF D
  <2>2. \A s \in SUBSET (1..n) : s # {} => Max(s) \in 1..n
    BY <1>2, MaxIn
  <2>3. {} \in SUBSET (1..n)
    OBVIOUS
  <2> QED
    BY <1>4, <2>1, <2>2, <2>3 DEF Follows
<1> HIDE DEF D
<1>7. PICK g : Goes(g, n, V, base, step, D[1..n])
  BY <1>2, <1>4, <1>6, FoldSteps
<1> QED
  BY <1>1, <1>2, <1>7 DEF Goes, V

\* The keys of the list of installs.
LEMMA ListKeeps ==
  ASSUME IsWizard(wiz),
         MoveCursor \/ ToggleInstall \/ DeleteInstall \/ ClearAll \/ FocusInput \/ BlurInput
  PROVE  IsWizard(wiz')
<1> USE DEF Key
<1> DEFINE s == wiz.installs
<1>0. /\ s \in Seq(Listed) /\ wiz.cursor \in Nat /\ DOMAIN s = 1..Len(s) /\ Len(s) \in Nat
      /\ s = <<>> \/ wiz.cursor \in 1..Len(s)
  BY WizardHas DEF IsWizard
<1>1. CASE MoveCursor
  <2>1. PICK c \in {wiz.cursor - 1, wiz.cursor + 1} :
          c \in 1..Len(s) /\ wiz' = [wiz EXCEPT !.cursor = c]
    BY <1>0, <1>1 DEF MoveCursor
  <2>2. [wiz EXCEPT !.cursor = c] = [wiz EXCEPT !.installs = s, !.cursor = c]
    BY DEF IsWizard, Wizards
  <2>3. c \in Nat
    BY <1>0, <2>1
  <2> HIDE DEF s
  <2> QED
    BY <1>0, <2>1, <2>2, <2>3, WizardInstalls
<1>2. CASE ToggleInstall
  <2> DEFINE t == [s EXCEPT ![wiz.cursor].selected = ~@]
  <2>1. wiz' = [wiz EXCEPT !.installs = t]
    BY <1>2 DEF ToggleInstall
  <2>2. t \in Seq(Listed) /\ Len(t) = Len(s)
    <3> DEFINE item == [s[wiz.cursor] EXCEPT !.selected = ~@]
    <3>1. wiz.cursor \in 1..Len(s)
      BY <1>0, <1>2 DEF ToggleInstall
    <3>2. item \in Listed
      <4>1. s[wiz.cursor] \in Listed
        BY <1>0, <3>1
      <4> HIDE DEF s
      <4> QED
        BY <4>1 DEF Listed
    <3>3. t = [s EXCEPT ![wiz.cursor] = item]
      OBVIOUS
    <3> HIDE DEF item, t, s
    <3> QED
      BY <1>0, <3>1, <3>2, <3>3
  <2> HIDE DEF t
  <2>3. [wiz EXCEPT !.installs = t] = [wiz EXCEPT !.installs = t, !.cursor = wiz.cursor]
    BY DEF IsWizard, Wizards
  <2>4. t = <<>> \/ wiz.cursor \in 1..Len(t)
    BY <1>0, <2>2
  <2> HIDE DEF s
  <2> QED
    BY <1>0, <2>1, <2>2, <2>3, <2>4, WizardInstalls
<1>3. CASE DeleteInstall
  <2> DEFINE left == RemoveAt(s, wiz.cursor)
             c == IF wiz.cursor > Len(left) /\ wiz.cursor > 1 THEN wiz.cursor - 1 ELSE wiz.cursor
  <2>1. wiz' = [wiz EXCEPT !.installs = left, !.cursor = c]
    BY <1>3 DEF DeleteInstall, IsWizard, Wizards
  <2>2. s # <<>> /\ wiz.cursor \in 1..Len(s) /\ Len(s) \in Nat
    BY <1>0, <1>3 DEF DeleteInstall
  <2>3. left \in Seq(Listed) /\ Len(left) = Len(s) - 1
    <3> HIDE DEF s
    <3>1. /\ SubSeq(s, 1, wiz.cursor - 1) \in Seq(Listed)
          /\ Len(SubSeq(s, 1, wiz.cursor - 1)) = wiz.cursor - 1
          /\ SubSeq(s, wiz.cursor + 1, Len(s)) \in Seq(Listed)
          /\ Len(SubSeq(s, wiz.cursor + 1, Len(s))) = Len(s) - wiz.cursor
      BY <1>0, <2>2
    <3> DEFINE a == SubSeq(s, 1, wiz.cursor - 1)
               b == SubSeq(s, wiz.cursor + 1, Len(s))
    <3>2. left = a \o b
      BY DEF RemoveAt
    <3> HIDE DEF a, b, left
    <3>3. a \o b \in Seq(Listed) /\ Len(a \o b) = Len(a) + Len(b)
      BY <3>1 DEF a, b
    <3> QED
      BY <1>0, <2>2, <3>1, <3>2, <3>3 DEF a, b
  <2> HIDE DEF left, s
  <2>4. c \in Nat /\ (left = <<>> \/ c \in 1..Len(left))
    BY <1>0, <2>2, <2>3
  <2> HIDE DEF c
  <2> QED
    BY <2>1, <2>3, <2>4, WizardInstalls
<1>4. CASE ClearAll
  <2>1. wiz' = [wiz EXCEPT !.installs = <<>>, !.cursor = 1, !.clear = TRUE]
    BY <1>4 DEF ClearAll
  <2>2. <<>> \in Seq(Listed) /\ 1 \in Nat
    OBVIOUS
  <2> QED
    BY <2>1, <2>2, WizardInstalls
<1>5. CASE FocusInput \/ BlurInput
  BY <1>5 DEF FocusInput, BlurInput, IsWizard, Wizards
<1> QED
  BY <1>1, <1>2, <1>3, <1>4, <1>5

\* What goes from the list to the names.
LEMMA AdvanceKeeps ==
  ASSUME IsWizard(wiz), Advance
  PROVE  IsWizard(wiz')
<1> DEFINE infos == Selected(wiz)
<1>1. infos \in Seq(Places) /\ infos # <<>> /\ wiz' = AdvanceFromScan(wiz)
  BY WizardHas DEF Advance, Key
<1>2. CASE NeedsNaming(wiz)
  <2> DEFINE p == [i \in DOMAIN infos |-> [install |-> infos[i], name |-> NoName]]
             names == Suggestions(infos)
  <2>1. wiz' = [wiz EXCEPT !.profiles = p, !.inputs = names, !.nameIdx = 1, !.step = "naming"]
    BY <1>1, <1>2 DEF AdvanceFromScan, BuildNamingInputs, IsWizard, Wizards
  <2>2. names \in Seq(Names) /\ Len(names) = Len(infos)
    <3>1. names \in Seq(Names \ {NoName}) /\ Len(names) = Len(infos)
      BY <1>1, SuggestionsAre
    <3> HIDE DEF names
    <3> QED
      BY <3>1
  <2>3. p \in Seq(Entries) /\ Len(p) = Len(infos)
    <3> HIDE DEF infos
    <3>1. DOMAIN infos = 1..Len(infos) /\ Len(infos) \in Nat
          /\ \A i \in 1..Len(infos) : infos[i] \in Places
      BY <1>1
    <3>2. NoName \in Names
      BY LowerIs
    <3> QED
      BY <3>1, <3>2 DEF Entries
  <2> HIDE DEF p, names, infos
  <2>4. wiz'.installs = wiz.installs /\ wiz'.cursor = wiz.cursor /\ wiz'.profiles = p
        /\ wiz'.inputs = names /\ wiz'.nameIdx = 1 /\ wiz'.step = "naming"
    BY <2>1 DEF IsWizard, Wizards
  <2>5. wiz' \in Wizards
    BY <2>1, <2>2, <2>3 DEF IsWizard, Wizards
  <2>6. \A j \in 1..Len(p) : ~(j < 1)
    OBVIOUS
  <2> QED
    BY <2>2, <2>3, <2>4, <2>5, <2>6 DEF IsWizard
<1>3. CASE ~NeedsNaming(wiz)
  <2> DEFINE name == Profile(Base[infos[1].root], 1)
             p == <<[install |-> infos[1], name |-> name]>>
  <2>1. wiz' = [wiz EXCEPT !.profiles = p, !.active = 1, !.step = "summary"]
    BY <1>1, <1>3 DEF AdvanceFromScan
  <2>2. infos[1] \in Places /\ infos[1].root \in Dirs
    <3> HIDE DEF infos
    <3>1. infos[1] \in Places
      BY <1>1
    <3> QED
      BY <3>1 DEF Places
  <2>3. name \in Names
    BY <2>2, LowerIs, SetupAssumption
  <2>4. name # NoName
    <3>1. name.nth = 1 /\ NoName.nth = 0
      BY DEF Profile, NoName
    <3> QED
      BY <3>1
  <2> HIDE DEF name, infos
  <2>5. p \in Seq(Entries) /\ Len(p) = 1 /\ p[1].name = name
    BY <2>2, <2>3 DEF Entries
  <2> HIDE DEF p
  <2>6. wiz'.installs = wiz.installs /\ wiz'.cursor = wiz.cursor /\ wiz'.profiles = p
        /\ wiz'.inputs = wiz.inputs /\ wiz'.active = 1 /\ wiz'.step = "summary"
    BY <2>1 DEF IsWizard, Wizards
  <2>7. wiz' \in Wizards
    BY <2>1, <2>5 DEF IsWizard, Wizards
  <2>8. wiz.inputs = <<>> \/ 1 <= Len(wiz.inputs)
    <3>1. wiz.inputs \in Seq(Names)
      BY WizardHas
    <3> QED
      BY <3>1
  <2>9. 1 \in 1..Len(p) /\ \A j \in 1..Len(p) : p[j].name # NoName
    BY <2>4, <2>5
  <2> QED
    BY <2>5, <2>6, <2>7, <2>8, <2>9 DEF IsWizard
<1> QED
  BY <1>2, <1>3

\* Back to the list or to the first name, and on when there are names.
LEMMA WizardMoves ==
  ASSUME NEW w, IsWizard(w)
  PROVE  /\ IsWizard([w EXCEPT !.step = "scan"])
         /\ IsWizard([w EXCEPT !.nameIdx = 1, !.step = "naming"])
         /\ w.step \in {"active", "summary"} => /\ IsWizard([w EXCEPT !.step = "active"])
                                                /\ IsWizard([w EXCEPT !.step = "summary"])
<1>1. IsWizard([w EXCEPT !.step = "scan"])
  BY DEF IsWizard, Wizards
<1>2. IsWizard([w EXCEPT !.nameIdx = 1, !.step = "naming"])
  <2> DEFINE v == [w EXCEPT !.nameIdx = 1, !.step = "naming"]
  <2>1. v \in Wizards
    BY DEF IsWizard, Wizards
  <2>2. /\ v.installs = w.installs /\ v.cursor = w.cursor /\ v.inputs = w.inputs
        /\ v.profiles = w.profiles /\ v.nameIdx = 1 /\ v.step = "naming"
    BY DEF IsWizard, Wizards
  <2>3. \A j \in 1..Len(w.profiles) : ~(j < 1)
    OBVIOUS
  <2> HIDE DEF v
  <2>4. IsWizard(v)
    BY <2>1, <2>2, <2>3 DEF IsWizard
  <2> QED
    BY <2>4 DEF v
<1>3. ASSUME w.step \in {"active", "summary"}, NEW s \in {"active", "summary"}
      PROVE  IsWizard([w EXCEPT !.step = s])
  <2> DEFINE v == [w EXCEPT !.step = s]
  <2>1. v \in Wizards
    BY DEF IsWizard, Wizards
  <2>2. /\ v.installs = w.installs /\ v.cursor = w.cursor /\ v.inputs = w.inputs
        /\ v.profiles = w.profiles /\ v.active = w.active /\ v.step \in {"active", "summary"}
    BY DEF IsWizard, Wizards
  <2> HIDE DEF v
  <2>3. IsWizard(v)
    BY <1>3, <2>1, <2>2 DEF IsWizard
  <2> QED
    BY <2>3 DEF v
<1> QED
  BY <1>1, <1>2, <1>3

\* The keys that move between the steps.
LEMMA MoveKeeps ==
  ASSUME IsWizard(wiz),
         LeaveNaming \/ MoveRadio \/ LeaveActive \/ ConfirmActive \/ LeaveSummary
  PROVE  IsWizard(wiz')
<1>1. CASE LeaveNaming \/ LeaveActive \/ ConfirmActive
  BY <1>1, WizardMoves DEF LeaveNaming, LeaveActive, ConfirmActive, Key
<1>2. CASE MoveRadio
  <2>1. PICK c \in {wiz.active - 1, wiz.active + 1} :
          c \in DOMAIN wiz.profiles /\ wiz.step = "active" /\ wiz' = [wiz EXCEPT !.active = c]
    BY <1>2 DEF MoveRadio, Key
  <2>2. c \in 1..Len(wiz.profiles) /\ c \in Nat
    BY <2>1, WizardHas
  <2> QED
    BY <2>1, <2>2 DEF IsWizard, Wizards
<1>3. CASE LeaveSummary
  <2>1. wiz.step = "summary" /\ \/ wiz' = [wiz EXCEPT !.step = "active"]
                                \/ wiz' = [wiz EXCEPT !.nameIdx = 1, !.step = "naming"]
                                \/ wiz' = [wiz EXCEPT !.step = "scan"]
    BY <1>3 DEF LeaveSummary, Key
  <2> QED
    BY <2>1, WizardMoves
<1> QED
  BY <1>1, <1>2, <1>3

\* A name is entered.
LEMMA EnterKeeps ==
  ASSUME IsWizard(wiz), NEW typed, EnterName(typed)
  PROVE  IsWizard(wiz')
<1> DEFINE i == wiz.nameIdx
           used == {wiz.profiles[j].name : j \in 1..(i - 1)}
           name == IF typed # NoName THEN typed
                   ELSE SuggestProfileName(wiz.profiles[i].install.root, used)
           named == [wiz EXCEPT !.inputs[i] = typed, !.profiles[i].name = name, !.nameIdx = i + 1]
           p == [wiz.profiles EXCEPT ![i].name = name]
           t == [wiz.inputs EXCEPT ![i] = typed]
<1>1. /\ wiz.profiles \in Seq(Entries) /\ wiz.inputs \in Seq(Names)
      /\ i \in 1..Len(wiz.inputs) /\ i \in 1..Len(wiz.profiles) /\ wiz.step = "naming"
  BY WizardHas DEF EnterName, NamesReady, Key
<1>2. wiz' = IF i < Len(wiz.inputs) THEN named
             ELSE [named EXCEPT !.active = 1,
                     !.step = IF Len(wiz.profiles) > 1 THEN "active" ELSE "summary"]
  BY DEF EnterName, Key
<1>3. typed \in Names
  <2>1. NoName \in Names /\ Typed \subseteq Names
    BY LowerIs, SetupAssumption
  <2>3. wiz.inputs[i] \in Names
    BY <1>1
  <2>2. typed \in {wiz.inputs[i], NoName} \cup Typed
    BY DEF EnterName
  <2> HIDE DEF i
  <2> QED
    BY <2>1, <2>2, <2>3
<1>4. name \in Names /\ name # NoName
  <2>1. IsFiniteSet(used)
    <3>1. IsFiniteSet(1..(i - 1))
      BY <1>1, FS_Interval
    <3>2. [j \in 1..(i - 1) |-> wiz.profiles[j].name] \in Surjection(1..(i - 1), used)
      BY DEF Surjection
    <3> HIDE DEF used, i
    <3> QED
      BY <3>1, <3>2, FS_Surjection
  <2>2. wiz.profiles[i].install.root \in Dirs
    <3>1. wiz.profiles[i] \in Entries
      BY <1>1
    <3> HIDE DEF i
    <3> QED
      BY <3>1 DEF Entries, Places
  <2> HIDE DEF used, i
  <2>3. SuggestProfileName(wiz.profiles[i].install.root, used) \in Names \ {NoName}
    BY <2>1, <2>2, SuggestIs
  <2> QED
    BY <1>3, <2>3
<1> HIDE DEF name
<1>5. /\ p \in Seq(Entries) /\ Len(p) = Len(wiz.profiles) /\ p[i].name = name
      /\ \A j \in 1..Len(p) : j # i => p[j] = wiz.profiles[j]
  <2> DEFINE entry == [wiz.profiles[i] EXCEPT !.name = name]
  <2>1. entry \in Entries /\ entry.name = name
    <3>1. wiz.profiles[i] \in Entries
      BY <1>1
    <3> HIDE DEF i
    <3> QED
      BY <1>4, <3>1 DEF Entries
  <2>2. p = [wiz.profiles EXCEPT ![i] = entry]
    OBVIOUS
  <2> HIDE DEF p, entry, i
  <2> QED
    BY <1>1, <2>1, <2>2
<1>6. t \in Seq(Names) /\ Len(t) = Len(wiz.inputs)
  <2> HIDE DEF i
  <2> QED
    BY <1>1, <1>3
<1>7. named = [wiz EXCEPT !.inputs = t, !.profiles = p, !.nameIdx = i + 1]
  BY DEF IsWizard, Wizards
<1>8. i \in Nat /\ i + 1 \in Nat
  BY <1>1
<1> HIDE DEF p, t, i
<1>9. named \in Wizards
  BY <1>5, <1>6, <1>7, <1>8 DEF IsWizard, Wizards
<1>10. /\ named.installs = wiz.installs /\ named.cursor = wiz.cursor /\ named.profiles = p
       /\ named.inputs = t /\ named.nameIdx = i + 1 /\ named.step = "naming"
  BY <1>1, <1>7 DEF IsWizard, Wizards
<1> HIDE DEF named
<1>11. \A j \in 1..Len(p) : j < i + 1 => p[j].name # NoName
  <2>1. \A j \in 1..Len(wiz.profiles) : j < i => wiz.profiles[j].name # NoName
    BY <1>1 DEF IsWizard, i
  <2>2. \A j \in 1..Len(p) : j < i + 1 => j = i \/ (j # i /\ j < i)
    BY <1>8
  <2> QED
    BY <1>4, <1>5, <2>1, <2>2
<1>12. IsWizard(named)
  BY <1>1, <1>5, <1>6, <1>9, <1>10, <1>11 DEF IsWizard
<1>13. CASE i < Len(wiz.inputs)
  BY <1>2, <1>12, <1>13
<1>14. CASE ~(i < Len(wiz.inputs))
  <2>1. PICK s \in {"active", "summary"} : wiz' = [named EXCEPT !.active = 1, !.step = s]
    BY <1>2, <1>14
  <2>2. Len(p) <= i /\ 1 \in 1..Len(p)
    <3>1. Len(wiz.profiles) <= Len(wiz.inputs) /\ Len(wiz.inputs) \in Nat /\ Len(p) \in Nat
      BY <1>1, <1>5 DEF IsWizard
    <3> QED
      BY <1>1, <1>5, <1>8, <1>14, <3>1
  <2>3. \A j \in 1..Len(p) : p[j].name # NoName
    <3>1. \A j \in 1..Len(p) : j < i + 1
      BY <1>8, <2>2
    <3> QED
      BY <1>11, <3>1
  <2> QED
    BY <1>9, <1>10, <1>12, <2>1, <2>2, <2>3 DEF IsWizard, Wizards
<1> QED
  BY <1>13, <1>14

\* A scan starts, and its result arrives.
LEMMA ScanKeeps ==
  ASSUME IsWizard(wiz), IsDisk(disk), NEW path \in {NoDir} \cup Typable,
         StartScan(path) \/ ScanArrives(path)
  PROVE  IsWizard(wiz')
<1>1. CASE StartScan(path)
  BY <1>1 DEF StartScan, IsWizard, Wizards
<1>2. CASE ScanArrives(path)
  <2> DEFINE infos == DoScan(disk, path)
  <2>1. infos \in Seq(There(disk))
    BY DoScanIs, SetupAssumption
  <2>2. There(disk) \subseteq Places
    BY ThereIs
  <2>3. wiz' = FoldLeft(AddInstall, wiz, infos)
    BY <1>2 DEF ScanArrives
  <2> HIDE DEF infos
  <2>4. infos \in Seq(Places)
    BY <2>1, <2>2
  <2> QED
    BY <2>3, <2>4, AddsInstalls
<1> QED
  BY <1>1, <1>2

-----------------------------------------------------------------------------
(* What the wizard saves *)

\* A profile is added, and is the active one if it is to be or there was none.
LEMMA AddProfileIs ==
  ASSUME NEW c, IsConfig(c), NEW name \in Names, NEW install \in Installs, NEW b \in BOOLEAN
  PROVE  LET a == AddProfile(c, name, install, b)
         IN  /\ IsConfig(a) /\ a.tui = c.tui /\ a.addr = c.addr
             /\ DOMAIN a.profiles = {name} \cup DOMAIN c.profiles /\ a.profiles[name] = install
             /\ \A n \in DOMAIN c.profiles : n # name => a.profiles[n] = c.profiles[n]
             /\ a.active = IF b \/ c.active = NoName THEN name ELSE c.active
<1> DEFINE a == AddProfile(c, name, install, b)
           q == [n \in {name} \cup DOMAIN c.profiles |-> IF n = name THEN install ELSE c.profiles[n]]
           on == IF b \/ c.active = NoName THEN name ELSE c.active
<1>1. a = [c EXCEPT !.profiles = q, !.active = on]
  BY DEF AddProfile, IsConfig
<1>2. DOMAIN c.profiles \subseteq Names /\ IsFiniteSet(DOMAIN c.profiles)
      /\ \A n \in DOMAIN c.profiles : c.profiles[n] \in Installs
  BY DEF IsConfig
<1>3. q \in Maps
  <2>1. DOMAIN q = {name} \cup DOMAIN c.profiles
    OBVIOUS
  <2>2. IsFiniteSet({name} \cup DOMAIN c.profiles)
    <3>1. IsFiniteSet(DOMAIN c.profiles \cup {name})
      BY <1>2, FS_AddElement
    <3>2. DOMAIN c.profiles \cup {name} = {name} \cup DOMAIN c.profiles
      OBVIOUS
    <3> QED
      BY <3>1, <3>2
  <2>3. \A n \in DOMAIN q : q[n] \in Installs
    BY <1>2
  <2>4. q = [n \in DOMAIN q |-> q[n]] /\ DOMAIN q \subseteq Names
    BY <1>2
  <2> HIDE DEF q
  <2> QED
    BY <2>1, <2>2, <2>3, <2>4, MapsAre
<1>4. on \in Names
  BY ConfigHas
<1>5. DOMAIN q = {name} \cup DOMAIN c.profiles /\ q[name] = install
      /\ \A n \in DOMAIN c.profiles : n # name => q[n] = c.profiles[n]
  OBVIOUS
<1> HIDE DEF q, on, a
<1>6. a.profiles = q /\ a.active = on /\ a.tui = c.tui /\ a.addr = c.addr
  BY <1>1 DEF IsConfig
<1>7. IsConfig(a)
  BY <1>1, <1>3, <1>4, ConfigWith
<1>8. /\ IsConfig(a) /\ a.tui = c.tui /\ a.addr = c.addr
      /\ DOMAIN a.profiles = {name} \cup DOMAIN c.profiles /\ a.profiles[name] = install
      /\ \A n \in DOMAIN c.profiles : n # name => a.profiles[n] = c.profiles[n]
      /\ a.active = IF b \/ c.active = NoName THEN name ELSE c.active
  BY <1>5, <1>6, <1>7 DEF on
<1> QED
  BY <1>8 DEF a

\* What is found is an install a profile may have.
LEMMA PlacesAre == Places \subseteq Installs
  BY DEF Places, Installs

\* What is saved is a configuration; with names that the file tells apart it holds the
\* profile that was made active, by the name of the active one.
LEMMA MergedIs ==
  ASSUME NEW c, IsConfig(c), NEW w, IsWizard(w), w.step = "summary",
         \A m \in DOMAIN c.profiles : Lower(m) = m
  PROVE  LET m == Merged(c, w)
             e == w.profiles[w.active]
         IN  /\ IsConfig(m)
             /\ PlainNames(w.profiles) =>
                  /\ \A x \in DOMAIN m.profiles : Lower(x) = x
                  /\ m.active = e.name /\ m.active \in DOMAIN m.profiles
                  /\ m.profiles[m.active] = e.install
<1> DEFINE seq == [i \in DOMAIN w.profiles |-> i]
           n == Len(seq)
           V == [profiles : Maps, active : Names, tui : {c.tui}, addr : {c.addr}]
           base == IF w.clear THEN [c EXCEPT !.profiles = None, !.active = NoName] ELSE c
           op(acc, i) == AddProfile(acc, w.profiles[i].name, w.profiles[i].install, i = w.active)
           step == [i \in 1..n |-> [v \in V |-> op(v, seq[i])]]
           Eq(f) == f = [s \in SUBSET DOMAIN seq |->
                           IF s = {} THEN base ELSE op(f[s \ {Max(s)}], seq[Max(s)])]
           D == CHOOSE f : Eq(f)
<1>1. Merged(c, w) = D[DOMAIN seq]
  BY DEF Merged, FoldLeft, MapThenFoldSet
<1>2. n \in Nat /\ DOMAIN seq = 1..n /\ base \in V
  <2>1. /\ w.profiles \in Seq(Entries) /\ DOMAIN w.profiles = 1..Len(w.profiles)
        /\ Len(w.profiles) \in Nat
    BY WizardHas
  <2>2. DOMAIN seq = 1..Len(w.profiles) /\ seq = [i \in 1..Len(w.profiles) |-> i]
    BY <2>1
  <2>3. n = Len(w.profiles)
    BY <2>1, <2>2
  <2>4. base \in V
    <3>1. IsConfig(base) /\ base.tui = c.tui /\ base.addr = c.addr
      <4>1. CASE w.clear
        <5>1. None \in Maps /\ NoName \in Names
          BY MapsAre, LowerIs
        <5>2. base = [c EXCEPT !.profiles = None, !.active = NoName]
          BY <4>1
        <5>3. base.tui = c.tui /\ base.addr = c.addr
          BY <5>2 DEF IsConfig
        <5> QED
          BY <5>1, <5>2, <5>3, ConfigWith
      <4>2. CASE ~w.clear
        BY <4>2
      <4> QED
        BY <4>1, <4>2
    <3> HIDE DEF base
    <3> QED
      BY <3>1, MapsAre, Zenon
  <2> QED
    BY <2>1, <2>2, <2>3, <2>4
<1>3. ASSUME NEW i \in 1..n, NEW v \in V PROVE op(v, seq[i]) \in V
  <2>1. i \in 1..Len(w.profiles) /\ seq[i] = i
    BY <1>2, WizardHas
  <2>2. w.profiles[i].name \in Names /\ w.profiles[i].install \in Installs
    <3>1. w.profiles[i] \in Entries
      BY <2>1, WizardHas
    <3> QED
      BY <3>1, PlacesAre DEF Entries
  <2>3. IsConfig(v) /\ v.tui = c.tui /\ v.addr = c.addr
    BY MapsAre, Zenon
  <2> DEFINE b == (i = w.active)
             a == AddProfile(v, w.profiles[i].name, w.profiles[i].install, b)
  <2>7. b \in BOOLEAN
    OBVIOUS
  <2> HIDE DEF b
  <2>4. IsConfig(a) /\ a.tui = c.tui /\ a.addr = c.addr
    BY <2>2, <2>3, <2>7, AddProfileIs
  <2> HIDE DEF a
  <2>5. a \in V
    BY <2>4, MapsAre, Zenon
  <2>6. op(v, seq[i]) = a
    BY <2>1 DEF a, b
  <2> QED
    BY <2>5, <2>6
<1> HIDE DEF seq, n, V, base, op
<1>4. step \in [1..n -> [V -> V]] /\ \A i \in 1..n : \A v \in V : step[i][v] = op(v, seq[i])
  BY <1>3
<1> HIDE DEF step
<1>5. Eq(D)
  <2>1. PICK it : Makes(it, n, V, base, step)
    BY <1>2, <1>4, FoldMakes
  <2>2. \A s \in SUBSET (1..n) :
          it[s] = IF s = {} THEN base ELSE op(it[s \ {Max(s)}], seq[Max(s)])
    BY <1>4, <2>1 DEF Makes
  <2>3. Eq(it)
    BY <1>2, <2>1, <2>2 DEF Makes
  <2> HIDE DEF Eq
  <2> QED
    BY <2>3
<1>6. Follows(D, n, V, base, step)
  <2>1. D = [s \in SUBSET (1..n) |-> IF s = {} THEN base ELSE op(D[s \ {Max(s)}], seq[Max(s)])]
    BY <1>2, <1>5
  <2> HIDE DEF D
  <2>2. \A s \in SUBSET (1..n) : s # {} => Max(s) \in 1..n
    BY <1>2, MaxIn
  <2>3. {} \in SUBSET (1..n)
    OBVIOUS
  <2> QED
    BY <1>4, <2>1, <2>2, <2>3 DEF Follows
<1> HIDE DEF D
<1>7. PICK g : Goes(g, n, V, base, step, D[1..n])
  BY <1>2, <1>4, <1>6, FoldSteps
<1> DEFINE P(k) == /\ \A x \in DOMAIN g[k].profiles : Lower(x) = x
                   /\ \A j \in 1..k : /\ w.profiles[j].name \in DOMAIN g[k].profiles
                                      /\ g[k].profiles[w.profiles[j].name] = w.profiles[j].install
                   /\ k >= w.active => g[k].active = w.profiles[w.active].name
<1>8. g[n] \in V /\ Merged(c, w) = g[n] /\ n = Len(w.profiles)
  <2>1. n = Len(w.profiles)
    <3>1. DOMAIN w.profiles = 1..Len(w.profiles) /\ Len(w.profiles) \in Nat
      BY WizardHas
    <3>2. DOMAIN seq = 1..Len(w.profiles)
      BY <3>1 DEF seq
    <3>3. n \in 1..Len(w.profiles) \/ n = 0
      BY <1>2, <3>2
    <3>4. Len(w.profiles) \in 1..n \/ Len(w.profiles) = 0
      BY <1>2, <3>1, <3>2
    <3> QED
      BY <1>2, <3>1, <3>3, <3>4
  <2> QED
    BY <1>1, <1>2, <1>7, <2>1 DEF Goes
<1>9. IsConfig(g[n])
  BY <1>8, MapsAre, Zenon DEF V
<1>10. ASSUME PlainNames(w.profiles) PROVE P(n)
  <2>1. /\ w.active \in 1..n /\ \A j \in 1..n : w.profiles[j].name \in Names \ {NoName}
        /\ \A j \in 1..n : w.profiles[j].install \in Installs
    <3>1. w.active \in 1..n /\ \A j \in 1..n : w.profiles[j].name # NoName
      BY <1>8 DEF IsWizard
    <3>2. \A j \in 1..n : w.profiles[j] \in Entries
      BY <1>8, WizardHas
    <3> QED
      BY <3>1, <3>2, PlacesAre DEF Entries
  <2>2. /\ \A j \in 1..n : Lower(w.profiles[j].name) = w.profiles[j].name
        /\ \A i, j \in 1..n : w.profiles[i].name = w.profiles[j].name => i = j
    <3>1. DOMAIN w.profiles = 1..n
      BY <1>8, WizardHas
    <3> QED
      BY <1>10, <2>1, <3>1, LowerIs DEF PlainNames
  <2>3. P(0)
    <3>1. g[0] = base /\ ~(0 >= w.active) /\ 1..0 = {}
      BY <1>7, <2>1 DEF Goes
    <3>2. base.profiles = None \/ base = c
      BY DEF base, IsConfig
    <3> QED
      BY <3>1, <3>2, MapsAre
  <2>4. ASSUME NEW k \in 1..n, P(k - 1) PROVE P(k)
    <3> DEFINE name == w.profiles[k].name
               install == w.profiles[k].install
               b == (k = w.active)
    <3>1. g[k - 1] \in V /\ g[k] = AddProfile(g[k - 1], name, install, b)
      <4>1. k - 1 \in 0..n
        BY <1>2
      <4>2. seq[k] = k
        BY <1>2 DEF seq
      <4>3. g[k - 1] \in V /\ g[k] = step[k][g[k - 1]]
        BY <1>7, <4>1 DEF Goes
      <4>4. step[k][g[k - 1]] = op(g[k - 1], seq[k])
        BY <1>4, <4>3
      <4>5. op(g[k - 1], seq[k]) = op(g[k - 1], k)
        BY <4>2
      <4>6. op(g[k - 1], k) = AddProfile(g[k - 1], name, install, b)
        BY Zenon DEF op
      <4> QED
        BY <4>3, <4>4, <4>5, <4>6
    <3>2. IsConfig(g[k - 1])
      <4>1. g[k - 1] \in [profiles : Maps, active : Names, tui : {c.tui}, addr : {c.addr}]
        BY <3>1, Zenon DEF V
      <4> QED
        BY <4>1, MapsAre
    <3>3. name \in Names /\ name # NoName /\ Lower(name) = name /\ install \in Installs /\ b \in BOOLEAN
      BY <2>1, <2>2
    <3>4. \A j \in 1..(k - 1) : j \in 1..n /\ w.profiles[j].name # name
      BY <1>2, <2>2
    <3>5. \A j \in 1..k : j = k \/ j \in 1..(k - 1)
      OBVIOUS
    <3> HIDE DEF name, install, b
    <3>6. /\ DOMAIN g[k].profiles = {name} \cup DOMAIN g[k - 1].profiles
          /\ g[k].profiles[name] = install
          /\ \A x \in DOMAIN g[k - 1].profiles : x # name => g[k].profiles[x] = g[k - 1].profiles[x]
          /\ g[k].active = IF b \/ g[k - 1].active = NoName THEN name ELSE g[k - 1].active
      BY <3>1, <3>2, <3>3, AddProfileIs
    <3>7. \A x \in DOMAIN g[k].profiles : Lower(x) = x
      BY <2>4, <3>3, <3>6
    <3>8. ASSUME NEW j \in 1..k
          PROVE  /\ w.profiles[j].name \in DOMAIN g[k].profiles
                 /\ g[k].profiles[w.profiles[j].name] = w.profiles[j].install
      <4>1. CASE j = k
        BY <3>6, <4>1 DEF name, install
      <4>2. CASE j \in 1..(k - 1)
        BY <2>4, <3>4, <3>6, <4>2
      <4> QED
        BY <3>5, <4>1, <4>2
    <3>9. ASSUME k >= w.active PROVE g[k].active = w.profiles[w.active].name
      <4>1. CASE k = w.active
        BY <3>6, <4>1 DEF b, name
      <4>2. CASE k # w.active
        <5>1. k - 1 >= w.active
          BY <2>1, <3>9, <4>2
        <5>2. g[k - 1].active = w.profiles[w.active].name /\ g[k - 1].active # NoName
          BY <2>1, <2>4, <5>1
        <5> QED
          BY <3>6, <4>2, <5>2 DEF b
      <4> QED
        BY <4>1, <4>2
    <3> QED
      BY <3>7, <3>8, <3>9
  <2>5. \A k \in 0..n : P(k)
    <3> DEFINE T == {k \in 0..n : P(k)}
    <3> HIDE DEF P
    <3>1. 0 \in T
      BY <1>2, <2>3
    <3>2. \A k \in 1..n : k - 1 \in T => k \in T
      BY <1>2, <2>4
    <3>3. \A k \in 0..n : k \in T
      <4> HIDE DEF T
      <4> QED
        BY <1>2, <3>1, <3>2, UpTo, Zenon
    <3> QED
      BY <3>3
  <2>6. n \in 0..n
    BY <1>2
  <2> HIDE DEF P
  <2> QED
    BY <2>5, <2>6
<1>11. PlainNames(w.profiles) =>
         /\ \A x \in DOMAIN g[n].profiles : Lower(x) = x
         /\ g[n].active = w.profiles[w.active].name /\ g[n].active \in DOMAIN g[n].profiles
         /\ g[n].profiles[g[n].active] = w.profiles[w.active].install
  <2>1. w.active \in 1..n /\ n >= w.active
    BY <1>2, <1>8 DEF IsWizard
  <2> QED
    BY <1>10, <2>1
<1> QED
  BY <1>8, <1>9, <1>11, Zenon

-----------------------------------------------------------------------------
(* The invariant *)

\* What the variables are.
SetupTypes ==
  /\ IsDisk(disk) /\ IsFile(file) /\ IsConfig(cfg) /\ IsWizard(wiz)
  /\ DOMAIN scans = {NoDir} \cup Typable /\ savers \in [Layouts -> Nat]
  /\ run.install \in Installs

\* No start has lost a setting of the user's own ...
SettingsKept ==
  /\ AreLogs(logs0) /\ AreLogs(logs) /\ DOMAIN logs = DOMAIN logs0
  /\ \A p \in DOMAIN logs0 : Keeps(logs0[p], logs[p])

\* ... and the log.config of the install that runs asks for the logs.
LogsAsked ==
  at = "running" /\ run.checked /\ run.install.root # NoDir /\ disk[run.install.root] # {}
    => IsComplete(logs[Prefix[run.install.root]])

\* The wizard adds to a configuration that was read.
NamesRead == at = "setup" => \A n \in DOMAIN cfg.profiles : Lower(n) = n

\* The dashboard has a configuration that can be read from the file, but for the layout
\* while it is being saved.
LayoutSaved ==
  at = "running" =>
    \E c \in Load(file) : /\ cfg = [c EXCEPT !.tui = cfg.tui]
                          /\ (\A l \in Layouts : savers[l] = 0) => c = cfg

\* The install that was chosen is the one that any reading of the file makes active.
ChoiceSaved ==
  chosen # <<>> =>
    /\ chosen = <<chosen[1]>> /\ chosen[1] \in Places
    /\ \A c \in Load(file) : GetProfile(c) = chosen

SetupInv ==
  SetupTypes /\ SettingsKept /\ LogsAsked /\ NamesRead /\ LayoutSaved /\ ChoiceSaved /\ RunsChosen

\* It holds at first.
LEMMA SetupInit ==
  Init => SetupInv
<1> SUFFICES ASSUME Init PROVE SetupInv
  OBVIOUS
<1>1. IsDisk(disk) /\ IsFile(file) /\ AreLogs(logs0) /\ logs = logs0
  BY SetupAssumption DEF Init
<1>2. IsConfig(cfg) /\ IsWizard(wiz)
  BY DefaultsAre, NewWizard DEF Init, NoWizard
<1>3. run.install \in Installs
  BY DEF Init, Unset, Install, Installs
<1>4. savers \in [Layouts -> Nat] /\ DOMAIN scans = {NoDir} \cup Typable
  BY DEF Init
<1>5. SetupTypes
  BY <1>1, <1>2, <1>3, <1>4 DEF SetupTypes
<1>6. \A p \in DOMAIN logs0 : Keeps(logs0[p], logs[p])
  BY <1>1 DEF AreLogs, IsLog, Keeps
<1>7. SettingsKept
  BY <1>1, <1>6 DEF SettingsKept
<1>8. at = "idle" /\ chosen = <<>>
  BY DEF Init
<1> QED
  BY <1>5, <1>7, <1>8 DEF SetupInv, LogsAsked, NamesRead, LayoutSaved, ChoiceSaved, RunsChosen

\* The keys of the wizard and its scans change the wizard alone.
LEMMA KeysKeep ==
  ASSUME SetupInv, at = "setup", IsWizard(wiz'), DOMAIN scans' = DOMAIN scans,
         UNCHANGED <<disk, logs, file, at, cfg, run, savers, sessions, logs0, chosen>>
  PROVE  SetupInv'
<1>1. SetupTypes'
  BY DEF SetupInv, SetupTypes
<1>2. SettingsKept' /\ LogsAsked' /\ NamesRead' /\ LayoutSaved' /\ ChoiceSaved' /\ RunsChosen'
  BY DEF SetupInv, SettingsKept, LogsAsked, NamesRead, LayoutSaved, ChoiceSaved, RunsChosen
<1> QED
  BY <1>1, <1>2 DEF SetupInv

\* The end of the wizard, when the file says what it showed if it says anything new.
LEMMA EndKeeps ==
  ASSUME SetupInv, NEW next \in {"idle", "saved"}, EndSetup(next), IsFile(file'), ChoiceSaved'
  PROVE  SetupInv'
<1>1. IsConfig(cfg') /\ IsWizard(wiz')
  BY DefaultsAre, NewWizard DEF EndSetup, NoWizard
<1>2. SetupTypes'
  BY <1>1 DEF SetupInv, SetupTypes, EndSetup
<1>3. at' # "running" /\ at' # "setup"
  BY DEF EndSetup
<1>4. SettingsKept'
  BY DEF SetupInv, SettingsKept, EndSetup
<1>5. LogsAsked' /\ NamesRead' /\ LayoutSaved' /\ RunsChosen'
  BY <1>3 DEF LogsAsked, NamesRead, LayoutSaved, RunsChosen
<1> QED
  BY <1>2, <1>4, <1>5 DEF SetupInv

\* What is confirmed is what is written.
LEMMA ConfirmKeeps ==
  ASSUME SetupInv, ConfirmSummary
  PROVE  SetupInv'
<1> DEFINE m == Merged(cfg, wiz)
           e == wiz.profiles[wiz.active]
           plain == PlainNames(wiz.profiles)
<1>1. /\ at = "setup" /\ wiz.step = "summary" /\ file' = Document(m, None)
      /\ \E next \in {"idle", "saved"} : EndSetup(next)
  BY DEF ConfirmSummary, AtomicWriteYAML
<1>2. IsConfig(cfg) /\ IsWizard(wiz) /\ \A x \in DOMAIN cfg.profiles : Lower(x) = x
  BY <1>1 DEF SetupInv, SetupTypes, NamesRead
<1>3. /\ IsConfig(m)
      /\ plain => /\ \A x \in DOMAIN m.profiles : Lower(x) = x
                  /\ m.active = e.name /\ m.active \in DOMAIN m.profiles
                  /\ m.profiles[m.active] = e.install
  BY <1>1, <1>2, MergedIs
<1>4. wiz.active \in 1..Len(wiz.profiles) /\ e \in Entries /\ wiz.profiles \in Seq(Entries)
  <2>1. wiz.active \in 1..Len(wiz.profiles) /\ wiz.profiles \in Seq(Entries)
    BY <1>1, <1>2, WizardHas DEF IsWizard
  <2> QED
    BY <2>1
<1>5. chosen' = IF plain THEN <<e.install>> ELSE <<>>
  <2>1. Len(wiz.profiles) = 1 => wiz.active = 1
    BY <1>4
  <2> QED
    BY <2>1 DEF ConfirmSummary
<1>6. e.install \in Places
  BY <1>4 DEF Entries
<1> HIDE DEF m, e, plain
<1>7. IsFile(file')
  <2>1. /\ Document(m, None).config = m /\ Document(m, None).legacy = None
        /\ Document(m, None) = [config |-> m, legacy |-> None]
    BY DocumentIs DEF Document
  <2>2. None \in Seq(Installs)
    BY DEF None
  <2>3. Document(m, None) \in [config : {m}, legacy : {None}]
    BY <2>1
  <2> QED
    BY <1>1, <1>3, <2>1, <2>2, <2>3 DEF IsFile
<1>8. ChoiceSaved'
  <2>1. CASE plain
    <3>1. Load(file') = {m}
      BY <1>1, <1>3, <2>1, PlainLoad
    <3>2. GetProfile(m) = <<e.install>>
      BY <1>3, <2>1, GetProfileIs
    <3>3. chosen' = <<e.install>>
      BY <1>5, <2>1
    <3> QED
      BY <1>6, <3>1, <3>2, <3>3 DEF ChoiceSaved
  <2>2. CASE ~plain
    BY <1>5, <2>2 DEF ChoiceSaved
  <2> QED
    BY <2>1, <2>2
<1> QED
  BY <1>1, <1>7, <1>8, EndKeeps

\* The wizard in all.
LEMMA WizardKeeps ==
  ASSUME SetupInv, Wizard
  PROVE  SetupInv'
<1>0. IsWizard(wiz) /\ IsDisk(disk) /\ DOMAIN scans = {NoDir} \cup Typable /\ IsFile(file)
  BY DEF SetupInv, SetupTypes
<1>1. CASE MoveCursor \/ ToggleInstall \/ DeleteInstall \/ ClearAll \/ FocusInput \/ BlurInput
  <2>1. IsWizard(wiz')
    BY <1>0, <1>1, ListKeeps
  <2>2. at = "setup" /\ UNCHANGED <<disk, logs, file, at, cfg, scans, run, savers, sessions, logs0, chosen>>
    BY <1>1 DEF MoveCursor, ToggleInstall, DeleteInstall, ClearAll, FocusInput, BlurInput, Key
  <2> QED
    BY <2>1, <2>2, KeysKeep
<1>2. CASE Advance
  <2>1. IsWizard(wiz')
    BY <1>0, <1>2, AdvanceKeeps
  <2>2. at = "setup" /\ UNCHANGED <<disk, logs, file, at, cfg, scans, run, savers, sessions, logs0, chosen>>
    BY <1>2 DEF Advance, Key
  <2> QED
    BY <2>1, <2>2, KeysKeep
<1>3. CASE LeaveNaming \/ MoveRadio \/ LeaveActive \/ ConfirmActive \/ LeaveSummary
  <2>1. IsWizard(wiz')
    BY <1>0, <1>3, MoveKeeps
  <2>2. at = "setup" /\ UNCHANGED <<disk, logs, file, at, cfg, scans, run, savers, sessions, logs0, chosen>>
    BY <1>3 DEF LeaveNaming, MoveRadio, LeaveActive, ConfirmActive, LeaveSummary, Key
  <2> QED
    BY <2>1, <2>2, KeysKeep
<1>4. ASSUME NEW path \in DOMAIN scans, StartScan(path) \/ ScanArrives(path) PROVE SetupInv'
  <2>1. IsWizard(wiz')
    BY <1>0, <1>4, ScanKeeps
  <2>2. at = "setup" /\ UNCHANGED <<disk, logs, file, at, cfg, run, savers, sessions, logs0, chosen>>
        /\ DOMAIN scans' = DOMAIN scans
    BY <1>4 DEF StartScan, ScanArrives
  <2> QED
    BY <2>1, <2>2, KeysKeep
<1>5. ASSUME NEW typed, EnterName(typed) PROVE SetupInv'
  <2>1. IsWizard(wiz')
    BY <1>0, <1>5, EnterKeeps
  <2>2. at = "setup" /\ UNCHANGED <<disk, logs, file, at, cfg, scans, run, savers, sessions, logs0, chosen>>
    BY <1>5 DEF EnterName, Key
  <2> QED
    BY <2>1, <2>2, KeysKeep
<1>6. CASE ConfirmSummary
  BY <1>6, ConfirmKeeps
<1>7. CASE Cancel \/ Panic
  <2>1. EndSetup("idle") /\ UNCHANGED <<file, chosen>>
    BY <1>7 DEF Cancel, Panic
  <2>2. ChoiceSaved'
    BY <2>1 DEF SetupInv, ChoiceSaved
  <2>3. IsFile(file')
    BY <1>0, <2>1
  <2> QED
    BY <2>1, <2>2, <2>3, EndKeeps
<1> QED
  BY <1>1, <1>2, <1>3, <1>4, <1>5, <1>6, <1>7 DEF Wizard

\* A start of the wizard reads the file.
LEMMA StartWizardKeeps ==
  ASSUME SetupInv, NEW c \in Loadable, NEW thenRun \in BOOLEAN, StartWizard(c, thenRun)
  PROVE  SetupInv'
<1>1. IsConfig(c) /\ \A n \in DOMAIN c.profiles : Lower(n) = n
  <2>1. CASE Load(file) = {}
    BY <2>1, DefaultsAre, MapsAre DEF Loadable
  <2>2. CASE Load(file) # {}
    BY <2>2, LoadedIs DEF Loadable, SetupInv, SetupTypes
  <2> QED
    BY <2>1, <2>2
<1>2. IsWizard(wiz')
  BY NewWizard DEF StartWizard
<1>3. SetupTypes'
  BY <1>1, <1>2 DEF SetupInv, SetupTypes, StartWizard
<1>4. NamesRead'
  BY <1>1 DEF NamesRead, StartWizard
<1>5. SettingsKept' /\ ChoiceSaved'
  BY DEF SetupInv, SettingsKept, ChoiceSaved, StartWizard
<1>6. at' = "setup"
  BY DEF StartWizard
<1>7. LogsAsked' /\ LayoutSaved' /\ RunsChosen'
  BY <1>6 DEF LogsAsked, LayoutSaved, RunsChosen
<1> QED
  BY <1>3, <1>4, <1>5, <1>7 DEF SetupInv

\* A start patches the log.config of the install it runs with, or of the one it finds
\* when that one is not there.
LEMMA PatchKeeps ==
  ASSUME IsDisk(disk), SettingsKept, NEW p \in Installs, NEW fails \in BOOLEAN,
         LogsOf(p) # <<>>, logs' = Patch(p, fails), logs0' = logs0
  PROVE  /\ SettingsKept' /\ LogsOf(p)[1] \in Installs /\ (p # Unset => LogsOf(p)[1] = p)
         /\ ~fails /\ LogsOf(p)[1].root # NoDir /\ disk[LogsOf(p)[1].root] # {}
              => IsComplete(logs'[Prefix[LogsOf(p)[1].root]])
<1> DEFINE i == LogsOf(p)[1]
           found == ConfigFound(p)
           q == Prefix[found[1].root]
<1>1. Discover(disk) \in {<<>>} \cup {<<x>> : x \in There(disk)} /\ There(disk) \subseteq Places
  BY DiscoverIs, ThereIs
<1>2. /\ p # Unset => i = p
      /\ p = Unset => Discover(disk) = <<i>> /\ i \in There(disk)
  BY <1>1 DEF LogsOf
<1>3. i \in Installs
  BY <1>1, <1>2, PlacesAre
<1>4. found \in {<<>>} \cup {<<x>> : x \in There(disk)}
  <2>1. p.root # NoDir =>
          DiscoverFromRoot(disk, p.root) \in {<<>>} \cup {<<x>> : x \in There(disk)}
    BY FromRootIs DEF Installs
  <2> QED
    BY <1>1, <2>1 DEF ConfigFound
<1>5. i.root # NoDir /\ disk[i.root] # {} => found # <<>> /\ q = Prefix[i.root]
  <2> SUFFICES ASSUME i.root # NoDir, disk[i.root] # {} PROVE found # <<>> /\ q = Prefix[i.root]
    OBVIOUS
  <2> HIDE DEF i
  <2>1. CASE p = Unset
    <3>1. p.root = NoDir
      BY <2>1 DEF Unset, Install
    <3>2. found = <<i>>
      BY <1>2, <2>1, <3>1 DEF ConfigFound
    <3> QED
      BY <3>2
  <2>2. CASE p # Unset
    <3>1. i = p /\ p.root \in Dirs
      BY <1>2, <2>2 DEF Installs
    <3>2. DiscoverFromRoot(disk, p.root) = <<ProbeRoot(disk, p.root)>>
          /\ Prefix[ProbeRoot(disk, p.root).root] = Prefix[p.root]
      BY <3>1, FromRootIs, ThereIs
    <3>3. found = <<ProbeRoot(disk, p.root)>>
      BY <3>1, <3>2 DEF ConfigFound
    <3> QED
      BY <3>1, <3>2, <3>3
  <2> QED
    BY <2>1, <2>2
<1>6. CASE found = <<>> \/ fails
  <2>1. logs' = logs
    BY <1>6 DEF Patch
  <2>2. SettingsKept'
    BY <2>1 DEF SettingsKept
  <2> QED
    BY <1>2, <1>3, <1>5, <1>6, <2>2
<1>7. CASE found # <<>> /\ ~fails
  <2>1. logs' = [logs EXCEPT ![q] = CheckAndPatch(logs[q])]
    BY <1>7 DEF Patch
  <2>2. q \in DOMAIN logs
    <3>1. found[1].root \in Dirs
      BY <1>1, <1>4, <1>7 DEF Places
    <3> QED
      BY <3>1 DEF SettingsKept, AreLogs
  <2> HIDE DEF q, i, found
  <2>3. /\ IsLog(CheckAndPatch(logs[q])) /\ Keeps(logs[q], CheckAndPatch(logs[q]))
        /\ IsComplete(CheckAndPatch(logs[q])) /\ IsLog(logs[q]) /\ IsLog(logs0[q])
    BY <2>2, PatchIs DEF SettingsKept, AreLogs
  <2>4. /\ DOMAIN logs' = DOMAIN logs /\ logs'[q] = CheckAndPatch(logs[q])
        /\ \A x \in DOMAIN logs : x # q => logs'[x] = logs[x]
        /\ logs' = [x \in DOMAIN logs' |-> logs'[x]]
    <3> DEFINE new == CheckAndPatch(logs[q])
    <3>1. logs' = [logs EXCEPT ![q] = new]
      BY <2>1
    <3>2. logs = [x \in DOMAIN logs |-> logs[x]]
      BY DEF SettingsKept, AreLogs
    <3> HIDE DEF new
    <3>3. /\ DOMAIN logs' = DOMAIN logs /\ logs'[q] = new
          /\ \A x \in DOMAIN logs : x # q => logs'[x] = logs[x]
          /\ logs' = [x \in DOMAIN logs' |-> logs'[x]]
      BY <2>2, <3>1, <3>2
    <3> QED
      BY <3>3 DEF new
  <2>5. Keeps(logs0[q], logs'[q])
    BY <2>2, <2>3, <2>4, KeepsOn DEF SettingsKept
  <2>6. AreLogs(logs')
    BY <2>3, <2>4 DEF SettingsKept, AreLogs
  <2>7. SettingsKept'
    BY <2>4, <2>5, <2>6 DEF SettingsKept
  <2> QED
    BY <1>2, <1>3, <1>5, <2>3, <2>4, <2>7 DEF i
<1> QED
  BY <1>6, <1>7

\* A start of the daemon reads the file and runs with the profile it says.
LEMMA StartRunKeeps ==
  ASSUME SetupInv, at # "running", NEW c \in Load(file), StartRun(c)
  PROVE  SetupInv'
<1> DEFINE profile == GetProfile(c)
           p == profile[1]
<1>1. /\ UNCHANGED <<disk, file, wiz, scans, savers, logs0, chosen>>
      /\ IsDisk(disk) /\ IsFile(file) /\ SettingsKept
  BY DEF SetupInv, SetupTypes, StartRun
<1>2. IsConfig(c) /\ profile \in {<<>>} \cup {<<x>> : x \in Installs}
  BY <1>1, LoadedIs, GetProfileIs
<1>3. ChoiceSaved'
  BY <1>1 DEF SetupInv, ChoiceSaved
<1>4. CASE profile # <<>> /\ LogsOf(p) # <<>>
  <2>1. PICK fails \in BOOLEAN :
          /\ logs' = Patch(p, fails)
          /\ run' = [install |-> LogsOf(p)[1], checked |-> ~fails]
          /\ at' = "running" /\ cfg' = c
    BY <1>4 DEF StartRun
  <2>2. p \in Installs
    BY <1>2, <1>4
  <2>3. profile = <<p>>
    BY <1>2, <1>4
  <2> HIDE DEF p, profile
  <2>4. /\ SettingsKept' /\ LogsOf(p)[1] \in Installs /\ (p # Unset => LogsOf(p)[1] = p)
        /\ ~fails /\ LogsOf(p)[1].root # NoDir /\ disk[LogsOf(p)[1].root] # {}
             => IsComplete(logs'[Prefix[LogsOf(p)[1].root]])
    BY <1>1, <1>4, <2>1, <2>2, PatchKeeps
  <2>5. SetupTypes'
    BY <1>1, <1>2, <2>1, <2>4 DEF SetupInv, SetupTypes
  <2>6. LogsAsked'
    BY <1>1, <2>1, <2>4 DEF LogsAsked
  <2>7. NamesRead'
    BY <2>1 DEF NamesRead
  <2>8. LayoutSaved'
    <3>1. cfg' = [c EXCEPT !.tui = cfg'.tui]
      BY <1>2, <2>1 DEF IsConfig
    <3> QED
      BY <1>1, <2>1, <3>1 DEF LayoutSaved
  <2>9. RunsChosen'
    <3> SUFFICES ASSUME chosen # <<>> PROVE run'.install = chosen[1]
      BY <1>1 DEF RunsChosen
    <3>1. chosen = <<chosen[1]>> /\ chosen[1] \in Places /\ chosen = profile
      BY DEF SetupInv, ChoiceSaved, profile
    <3>2. p = chosen[1]
      BY <2>3, <3>1
    <3>3. p # Unset
      <4>1. p.root \in Dirs /\ Unset.root = NoDir
        BY <3>1, <3>2 DEF Places, Unset, Install
      <4> QED
        BY <4>1, TreeAssumption
    <3> QED
      BY <2>1, <2>4, <3>2, <3>3
  <2> QED
    BY <1>3, <2>4, <2>5, <2>6, <2>7, <2>8, <2>9 DEF SetupInv
<1>5. CASE ~(profile # <<>> /\ LogsOf(p) # <<>>)
  <2>1. at' = "idle" /\ UNCHANGED <<logs, run, cfg>>
    BY <1>5 DEF StartRun
  <2>2. SetupTypes' /\ SettingsKept'
    BY <1>1, <2>1 DEF SetupInv, SetupTypes, SettingsKept
  <2> QED
    BY <1>3, <2>1, <2>2 DEF SetupInv, LogsAsked, NamesRead, LayoutSaved, RunsChosen
<1> QED
  BY <1>4, <1>5

\* The starts of the program.
LEMMA StartsKeep ==
  ASSUME SetupInv, RunDiscover \/ RunRoot \/ RunSaved \/ RunCommand
  PROVE  SetupInv'
<1>1. CASE RunDiscover
  BY <1>1, StartWizardKeeps DEF RunDiscover
<1>2. CASE RunRoot
  <2>1. at # "running"
    BY <1>2 DEF RunRoot
  <2>2. \/ \E c \in Load(file) : StartRun(c)
        \/ \E c \in Loadable : StartWizard(c, TRUE)
    BY <1>2 DEF RunRoot
  <2> QED
    BY <2>1, <2>2, StartRunKeeps, StartWizardKeeps
<1>3. CASE RunSaved \/ RunCommand
  <2>1. at # "running" /\ \E c \in Load(file) : StartRun(c)
    BY <1>3 DEF RunSaved, RunCommand
  <2> QED
    BY <2>1, StartRunKeeps
<1> QED
  BY <1>1, <1>2, <1>3

\* The layout: shown at once, and in the file when its saver is done.
LEMMA DashboardKeeps ==
  ASSUME SetupInv, NEW l \in Layouts, ReleaseDivider(l) \/ SaveTUI(l)
  PROVE  SetupInv'
<1>1. at = "running" /\ IsConfig(cfg) /\ IsFile(file) /\ savers \in [Layouts -> Nat]
  BY DEF SetupInv, SetupTypes, ReleaseDivider, SaveTUI
<1>2. PICK c \in Load(file) : cfg = [c EXCEPT !.tui = cfg.tui]
  BY <1>1 DEF SetupInv, LayoutSaved
<1>3. IsConfig(c)
  BY <1>1, LoadedIs
<1>4. CASE ReleaseDivider(l)
  <2>1. /\ cfg' = [cfg EXCEPT !.tui = l] /\ savers' = [savers EXCEPT ![l] = savers[l] + 1]
        /\ UNCHANGED <<disk, logs, file, at, wiz, scans, run, sessions, logs0, chosen>>
    BY <1>4 DEF ReleaseDivider
  <2>2. IsConfig(cfg')
    BY <1>1, <2>1, ConfigHas, ConfigWith
  <2>3. savers' \in [Layouts -> Nat] /\ savers'[l] # 0
    BY <1>1, <2>1
  <2>4. SetupTypes'
    BY <2>1, <2>2, <2>3 DEF SetupInv, SetupTypes
  <2>5. LayoutSaved'
    <3>1. cfg' = [c EXCEPT !.tui = cfg'.tui]
      BY <1>2, <1>3, <2>1 DEF IsConfig
    <3> QED
      BY <2>1, <2>3, <3>1 DEF LayoutSaved
  <2>6. SettingsKept' /\ LogsAsked' /\ NamesRead' /\ ChoiceSaved' /\ RunsChosen'
    BY <1>1, <2>1 DEF SetupInv, SettingsKept, LogsAsked, NamesRead, ChoiceSaved, RunsChosen
  <2> QED
    BY <2>4, <2>5, <2>6 DEF SetupInv
<1>5. CASE SaveTUI(l)
  <2> DEFINE doc == IF file = NoFile THEN Document(Defaults, None) ELSE file
             t == cfg.tui
  <2>1. /\ savers' = [savers EXCEPT ![l] = savers[l] - 1] /\ savers[l] > 0
        /\ file' = [doc EXCEPT !.config.tui = t]
        /\ UNCHANGED <<disk, logs, at, cfg, wiz, scans, run, sessions, logs0, chosen>>
    BY <1>5 DEF SaveTUI, AtomicWriteYAML, LayoutToSave
  <2>2. IsFile(doc) /\ doc \notin {NoFile, Broken} /\ Load(doc) = Load(file)
    <3>1. CASE file = NoFile
      <4>1. Load(file) = {Defaults}
        BY <1>1, <3>1, FileIs, DocumentIs
      <4>2. Load(Document(Defaults, None)) = {Defaults}
        BY DefaultsAre, MapsAre, PlainLoad
      <4>3. /\ Document(Defaults, None) \notin {NoFile, Broken}
            /\ Document(Defaults, None).config = Defaults /\ Document(Defaults, None).legacy = None
        BY DocumentIs
      <4>4. IsFile(Document(Defaults, None))
        <5>1. None \in Seq(Installs)
          BY DEF None
        <5>2. Document(Defaults, None) \in [config : {Defaults}, legacy : {None}]
          BY DEF Document
        <5> QED
          BY <4>3, <5>1, <5>2, DefaultsAre DEF IsFile
      <4> QED
        BY <3>1, <4>1, <4>2, <4>3, <4>4
    <3>2. CASE file # NoFile
      <4>1. file # Broken
        BY <1>1, <1>2, FileIs, DocumentIs
      <4> QED
        BY <1>1, <3>2, <4>1
    <3> QED
      BY <3>1, <3>2
  <2> HIDE DEF doc, t
  <2>3. IsFile(file') /\ Load(file') = {[x EXCEPT !.tui = t] : x \in Load(file)}
    BY <2>1, <2>2, LayoutLoad
  <2>4. savers' \in [Layouts -> Nat]
    BY <1>1, <2>1
  <2>5. SetupTypes'
    BY <2>1, <2>3, <2>4 DEF SetupInv, SetupTypes
  <2>6. LayoutSaved'
    <3>1. cfg = [c EXCEPT !.tui = t] /\ cfg = [cfg EXCEPT !.tui = cfg.tui]
      BY <1>1, <1>2 DEF IsConfig, t
    <3>2. cfg \in Load(file')
      BY <2>3, <3>1
    <3> QED
      BY <2>1, <3>1, <3>2 DEF LayoutSaved
  <2>7. ChoiceSaved'
    <3> SUFFICES ASSUME chosen # <<>>, NEW y \in Load(file') PROVE GetProfile(y) = chosen
      BY <2>1 DEF SetupInv, ChoiceSaved
    <3>1. PICK x \in Load(file) : y = [x EXCEPT !.tui = t]
      BY <2>3
    <3>2. GetProfile(x) = chosen
      BY DEF SetupInv, ChoiceSaved
    <3>3. IsConfig(x)
      BY <1>1, LoadedIs
    <3>4. y.profiles = x.profiles /\ y.active = x.active
      BY <3>1, <3>3 DEF IsConfig
    <3>5. GetProfile(y) = GetProfile(x)
      BY <3>4 DEF GetProfile
    <3> QED
      BY <3>2, <3>5
  <2>8. SettingsKept' /\ LogsAsked' /\ NamesRead' /\ RunsChosen'
    BY <1>1, <2>1 DEF SetupInv, SettingsKept, LogsAsked, NamesRead, RunsChosen
  <2> QED
    BY <2>5, <2>6, <2>7, <2>8 DEF SetupInv
<1> QED
  BY <1>4, <1>5

\* The dashboard ends, and the game is removed, while nothing runs.
LEMMA EndsKeep ==
  ASSUME SetupInv, EndSession \/ Uninstall
  PROVE  SetupInv'
<1>1. CASE EndSession
  <2>1. /\ at' = "idle" /\ cfg' = Defaults /\ savers' = [l \in Layouts |-> 0]
        /\ UNCHANGED <<disk, logs, file, wiz, scans, run, sessions, logs0, chosen>>
    BY <1>1 DEF EndSession
  <2>2. SetupTypes'
    BY <2>1, DefaultsAre DEF SetupInv, SetupTypes
  <2>3. SettingsKept' /\ ChoiceSaved'
    BY <2>1 DEF SetupInv, SettingsKept, ChoiceSaved
  <2> QED
    BY <2>1, <2>2, <2>3 DEF SetupInv, LogsAsked, NamesRead, LayoutSaved, RunsChosen
<1>2. CASE Uninstall
  <2>1. PICK d \in Dirs : disk' = [disk EXCEPT ![d] = {}]
    BY <1>2 DEF Uninstall
  <2>2. /\ at = "idle"
        /\ UNCHANGED <<logs, file, at, cfg, wiz, scans, run, savers, sessions, logs0, chosen>>
    BY <1>2 DEF Uninstall
  <2>3. IsDisk(disk')
    BY <2>1 DEF SetupInv, SetupTypes, IsDisk
  <2>4. SetupTypes'
    BY <2>2, <2>3 DEF SetupInv, SetupTypes
  <2>5. SettingsKept' /\ ChoiceSaved'
    BY <2>2 DEF SetupInv, SettingsKept, ChoiceSaved
  <2> QED
    BY <2>2, <2>4, <2>5 DEF SetupInv, LogsAsked, NamesRead, LayoutSaved, RunsChosen
<1> QED
  BY <1>1, <1>2

\* Every step keeps it.
LEMMA SetupStep ==
  SetupInv /\ [Next]_vars => SetupInv'
<1> SUFFICES ASSUME SetupInv, [Next]_vars PROVE SetupInv'
  OBVIOUS
<1>1. CASE Wizard
  BY <1>1, WizardKeeps
<1>2. CASE RunDiscover \/ RunRoot \/ RunSaved \/ RunCommand
  BY <1>2, StartsKeep
<1>3. CASE \E l \in Layouts : ReleaseDivider(l) \/ SaveTUI(l)
  BY <1>3, DashboardKeeps
<1>4. CASE EndSession \/ Uninstall
  BY <1>4, EndsKeep
<1>5. CASE UNCHANGED vars
  BY <1>5 DEF vars, SetupInv, SetupTypes, SettingsKept, LogsAsked, NamesRead, LayoutSaved,
              ChoiceSaved, RunsChosen
<1> QED
  BY <1>1, <1>2, <1>3, <1>4, <1>5 DEF Next

\* The inductive invariant of the setup.
THEOREM SetupInvariant == Spec => []SetupInv
<1> QED
  BY SetupInit, SetupStep, PTL DEF Spec

\* The program runs with the install that the last completed setup made active.
THEOREM RunsChosenHolds == Spec => []RunsChosen
<1>1. SetupInv => RunsChosen
  BY DEF SetupInv
<1> QED
  BY <1>1, SetupInvariant, PTL

\* The game is asked for its logs, and no setting of the user's own is lost.
THEOREM LoggingOnHolds == Spec => []LoggingOn
<1>1. ASSUME SetupInv PROVE LoggingOn
  <2>1. LogsAsked /\ SettingsKept
    BY <1>1 DEF SetupInv
  <2>2. ASSUME NEW p \in DOMAIN logs0, NEW i \in DOMAIN logs0[p],
               NEW k \in DOMAIN logs0[p][i].fields, ~Owned(logs0[p][i], k)
        PROVE  Value(logs[p][i], k) = Value(logs0[p][i], k)
    BY <2>1, <2>2 DEF SettingsKept, Keeps, Value
  <2> QED
    BY <2>1, <2>2 DEF LoggingOn, LogsAsked
<1> QED
  BY <1>1, SetupInvariant, PTL

\* The file the savers leave is read as the configuration the dashboard holds.
THEOREM LayoutKeptHolds == Spec => []LayoutKept
<1>1. SetupInv => LayoutKept
  BY DEF SetupInv, LayoutSaved, LayoutKept
<1> QED
  BY <1>1, SetupInvariant, PTL

-----------------------------------------------------------------------------
(* Client: bags of commands and messages *)

Bag(B) == B \in [DOMAIN B -> Nat \ {0}]

\* B2 is B with one copy of each element of I less and one of each element of S more.
Turned(B, B2, I, S) ==
  /\ DOMAIN B2 = S \cup {j \in DOMAIN B : j \notin I \/ B[j] > 1}
  /\ B2 = [j \in DOMAIN B2 |-> B2[j]]
  /\ \A j \in DOMAIN B2 :
       B2[j] = (IF j \in S THEN 1 ELSE 0)
               + (IF j \in DOMAIN B THEN (IF j \in I THEN B[j] - 1 ELSE B[j]) ELSE 0)

\* Of the elements of K the bag holds none; of them it holds one, once.
NoneOf(B, K) == DOMAIN B \cap K = {}
Lone(B, K)   == \E j \in K : DOMAIN B \cap K = {j} /\ B[j] = 1

\* What an item becomes, element by element.
LEMMA Becoming ==
  ASSUME Bag(pending), NEW i \in DOMAIN pending, NEW S, Becomes(i, S)
  PROVE  Turned(pending, pending', {i}, S)
<1> DEFINE R == [j \in DOMAIN pending |-> IF j \in DOMAIN [e \in {i} |-> 1]
                                          THEN pending[j] - [e \in {i} |-> 1][j]
                                          ELSE pending[j]]
           M == [j \in {d \in DOMAIN R : R[d] > 0} |-> R[j]]
<1>1. /\ DOMAIN M = {j \in DOMAIN pending : j \notin {i} \/ pending[j] > 1}
      /\ \A j \in DOMAIN M : M[j] = IF j \in {i} THEN pending[j] - 1 ELSE pending[j]
  BY DEF Bag
<1>0. pending' = [e \in DOMAIN M \cup DOMAIN [e \in S |-> 1] |->
                    (IF e \in DOMAIN M THEN M[e] ELSE 0)
                    + (IF e \in DOMAIN [d \in S |-> 1] THEN [d \in S |-> 1][e] ELSE 0)]
  BY DEF Becomes, (+), (-), SetToBag
<1> HIDE DEF M
<1>2. pending' = [j \in DOMAIN M \cup S |-> (IF j \in DOMAIN M THEN M[j] ELSE 0)
                                           + (IF j \in S THEN 1 ELSE 0)]
  BY <1>0
<1>3. DOMAIN pending' = S \cup {j \in DOMAIN pending : j \notin {i} \/ pending[j] > 1}
  BY <1>1, <1>2
<1>4. ASSUME NEW j \in DOMAIN pending'
      PROVE  pending'[j] = (IF j \in S THEN 1 ELSE 0)
               + (IF j \in DOMAIN pending
                    THEN (IF j \in {i} THEN pending[j] - 1 ELSE pending[j]) ELSE 0)
  <2>1. pending'[j] = (IF j \in DOMAIN M THEN M[j] ELSE 0) + (IF j \in S THEN 1 ELSE 0)
    BY <1>2, <1>4
  <2>2. CASE j \in DOMAIN M
    BY <1>1, <2>1, <2>2 DEF Bag
  <2>3. CASE j \notin DOMAIN M
    <3>1. j \in S /\ (j \in DOMAIN pending => j \in {i} /\ pending[j] = 1)
      BY <1>1, <1>3, <1>4, <2>3 DEF Bag
    <3> QED
      BY <2>1, <2>3, <3>1
  <2> QED
    BY <2>2, <2>3
<1>5. pending' = [j \in DOMAIN pending' |-> pending'[j]]
  BY <1>2
<1> QED
  BY <1>3, <1>4, <1>5 DEF Turned

\* What a key starts is added.
LEMMA Starting ==
  ASSUME Bag(pending), NEW S, Starts(S)
  PROVE  Turned(pending, pending', {}, S)
<1>1. pending' = [j \in DOMAIN pending \cup S |-> (IF j \in DOMAIN pending THEN pending[j] ELSE 0)
                                                 + (IF j \in S THEN 1 ELSE 0)]
  BY DEF Starts, (+), SetToBag
<1>2. DOMAIN pending' = S \cup {j \in DOMAIN pending : j \notin {} \/ pending[j] > 1}
  BY <1>1
<1>3. ASSUME NEW j \in DOMAIN pending'
      PROVE  pending'[j] = (IF j \in S THEN 1 ELSE 0)
               + (IF j \in DOMAIN pending
                    THEN (IF j \in {} THEN pending[j] - 1 ELSE pending[j]) ELSE 0)
  BY <1>1, <1>3 DEF Bag
<1>4. pending' = [j \in DOMAIN pending' |-> pending'[j]]
  BY <1>1
<1> QED
  BY <1>2, <1>3, <1>4 DEF Turned

\* A bag stays one.
LEMMA BagTurned ==
  ASSUME NEW B, NEW B2, NEW I, NEW S, Bag(B), Turned(B, B2, I, S)
  PROVE  Bag(B2)
<1>1. ASSUME NEW j \in DOMAIN B2 PROVE B2[j] \in Nat \ {0}
  <2>1. j \in DOMAIN B => B[j] \in Nat /\ B[j] > 0
    BY DEF Bag
  <2>2. CASE j \in S
    BY <1>1, <2>1, <2>2 DEF Turned
  <2>3. CASE j \notin S
    BY <1>1, <2>1, <2>3 DEF Turned
  <2> QED
    BY <2>2, <2>3
<1>2. B2 = [j \in DOMAIN B2 |-> B2[j]]
  BY DEF Turned
<1> QED
  BY <1>1, <1>2 DEF Bag

\* A kind that a step neither takes from nor adds to keeps its items.
LEMMA KindKept ==
  ASSUME NEW B, NEW B2, NEW I, NEW S, NEW K, Bag(B), Turned(B, B2, I, S),
         I \cap K = {}, S \cap K = {}
  PROVE  /\ DOMAIN B2 \cap K = DOMAIN B \cap K
         /\ NoneOf(B, K) => NoneOf(B2, K)
         /\ Lone(B, K) => Lone(B2, K)
<1>1. DOMAIN B2 \cap K = DOMAIN B \cap K
  BY DEF Turned
<1>2. \A j \in DOMAIN B \cap K : B2[j] = B[j]
  BY <1>1 DEF Turned, Bag
<1> QED
  BY <1>1, <1>2 DEF NoneOf, Lone

\* The only item of a kind becomes another of the kind ...
LEMMA KindMoved ==
  ASSUME NEW B, NEW B2, NEW i, NEW S, NEW K, NEW k, Bag(B), Turned(B, B2, {i}, S),
         Lone(B, K), i \in DOMAIN B, i \in K, S \cap K = {k}
  PROVE  Lone(B2, K)
<1>1. DOMAIN B \cap K = {i} /\ B[i] = 1
  BY DEF Lone
<1>2. DOMAIN B2 \cap K = {k}
  BY <1>1 DEF Turned
<1>3. k \in K /\ k \in S /\ k \in DOMAIN B2 /\ (k \in DOMAIN B => k = i)
  BY <1>1, <1>2
<1>4. B2[k] = 1
  BY <1>1, <1>3 DEF Turned
<1> QED
  BY <1>2, <1>3, <1>4 DEF Lone

\* ... or the last of it.
LEMMA KindLeft ==
  ASSUME NEW B, NEW B2, NEW i, NEW S, NEW K, Bag(B), Turned(B, B2, {i}, S),
         Lone(B, K), i \in DOMAIN B, i \in K, S \cap K = {}
  PROVE  NoneOf(B2, K)
<1>1. DOMAIN B \cap K = {i} /\ B[i] = 1
  BY DEF Lone
<1> QED
  BY <1>1 DEF NoneOf, Turned

\* Where there is none a step may bring one.
LEMMA KindEntered ==
  ASSUME NEW B, NEW B2, NEW I, NEW S, NEW K, NEW k, Bag(B), Turned(B, B2, I, S),
         NoneOf(B, K), S \cap K = {k}
  PROVE  Lone(B2, K)
<1>1. DOMAIN B2 \cap K = {k}
  BY DEF Turned, NoneOf
<1>2. k \in K /\ k \in S /\ k \in DOMAIN B2 /\ k \notin DOMAIN B
  BY <1>1 DEF NoneOf
<1>3. B2[k] = 1
  BY <1>2 DEF Turned
<1> QED
  BY <1>1, <1>2, <1>3 DEF Lone

\* The number of the items of a kind, where it is none or one.
LEMMA Counting ==
  ASSUME NEW K, Bag(pending)
  PROVE  /\ NoneOf(pending, K) => Count(K) = 0
         /\ Lone(pending, K) => Count(K) = 1
<1> DEFINE f == [i \in DOMAIN pending \cap K |-> pending[i]]
           Eq(d) == d = [S \in SUBSET DOMAIN f |->
                           LET elt == CHOOSE e \in S : TRUE
                           IN  IF S = {} THEN 0 ELSE f[elt] + d[S \ {elt}]]
           D == CHOOSE d : Eq(d)
<1>1. Count(K) = D[DOMAIN f]
  BY DEF Count, BagCardinality, BagToSet
<1>2. ASSUME NoneOf(pending, K) PROVE D[DOMAIN f] = 0
  <2>1. DOMAIN f = {}
    BY <1>2 DEF NoneOf
  <2>2. Eq([S \in SUBSET DOMAIN f |-> 0])
    BY <2>1
  <2>3. Eq(D)
    BY <2>2
  <2> QED
    BY <2>1, <2>3
<1>3. ASSUME Lone(pending, K) PROVE D[DOMAIN f] = 1
  <2>1. PICK x : DOMAIN f = {x} /\ f[x] = 1
    BY <1>3 DEF Lone
  <2>2. SUBSET DOMAIN f = {{}, {x}} /\ {x} # {} /\ {x} \ {x} = {} /\ (CHOOSE e \in {x} : TRUE) = x
    BY <2>1
  <2> HIDE DEF f
  <2>3. Eq([S \in SUBSET DOMAIN f |-> IF S = {} THEN 0 ELSE 1])
    BY <2>1, <2>2
  <2>4. Eq(D)
    BY <2>3
  <2>5. D[{}] = 0
    BY <2>2, <2>4
  <2>6. D[{x}] = f[x] + D[{}]
    BY <2>2, <2>4
  <2> QED
    BY <2>1, <2>5, <2>6
<1> QED
  BY <1>1, <1>2, <1>3

-----------------------------------------------------------------------------
(* The inductive invariant of Client *)

Kinds       == Commands \cup LiveMsgs \cup ReplayMsgs
ItemSet     == [kind : Kinds, gen : Nat, cl : Clients \cup {0}, ver : Nat]
Kind(ks)    == {i \in ItemSet : i.kind \in ks}
KindNow(ks) == {i \in ItemSet : i.kind \in ks /\ i.gen = generation}

\* An item belongs to a connection there has been, and what is subscribed or
\* connected is a client.
ClientTypes ==
  /\ Bag(pending) /\ DOMAIN pending \subseteq ItemSet
  /\ \A i \in DOMAIN pending :
       i.gen <= generation /\ (i.kind \in {"subscribe", "connected"} => i.cl \in Clients)
  /\ generation \in Nat /\ version \in Nat
  /\ client \in Clients \cup {0} /\ open \subseteq Clients
  /\ connState \in {"connecting", "connected", "disconnected"}
  /\ connState = "connected" => client \in Clients

\* Before the notice is dismissed nothing has begun, and after the end nothing goes on.
Idling == notice \/ quit => pending = EmptyBag
Unbegun == notice => connState = "connecting" /\ open = {} /\ client = 0

Connector ==
  Running =>
    IF connState = "connected" THEN NoneOf(pending, Kind(ConnectPath))
                               ELSE Lone(pending, Kind(ConnectPath))

Chains ==
  Running /\ connState = "connected" =>
    /\ Lone(pending, KindNow({"gameTick"})) /\ Lone(pending, KindNow({"aggTick"}))
    /\ \/ Lone(pending, KindNow({"reader", "event"}))
       \/ NoneOf(pending, KindNow({"reader", "event"})) /\ ~NoneOf(pending, KindNow({"lost"}))

\* An open client is in use or on its way to be.
InUseOpen ==
  Running => open \subseteq {client} \cup
                 {i.cl : i \in DOMAIN pending \cap Kind({"subscribe", "connected"})}

ClientInv == ClientTypes /\ Idling /\ Unbegun /\ Connector /\ Chains /\ InUseOpen

\* Every kind of item is one.
LEMMA ItemIs ==
  ASSUME NEW kind \in Kinds, NEW g \in Nat, NEW c \in Clients \cup {0}, NEW v \in Nat
  PROVE  /\ Item(kind, g, c, v) \in ItemSet
         /\ Item(kind, g, c, v).kind = kind /\ Item(kind, g, c, v).gen = g
         /\ Item(kind, g, c, v).cl = c
  BY DEF Item, ItemSet

\* Neither a connection's nor a client's.
LEMMA PlainIs ==
  ASSUME NEW kind \in Kinds
  PROVE  Plain(kind) \in ItemSet /\ Plain(kind).kind = kind /\ Plain(kind).gen = 0
  BY ItemIs DEF Plain, NoClient

\* Of a client, before its connection is there.
LEMMA OfClientIs ==
  ASSUME NEW kind \in Kinds, NEW c \in Clients \cup {0}, NEW v \in Nat
  PROVE  /\ OfClient(kind, c, v) \in ItemSet
         /\ OfClient(kind, c, v).kind = kind /\ OfClient(kind, c, v).gen = 0
         /\ OfClient(kind, c, v).cl = c
  BY ItemIs DEF OfClient

\* Of a connection.
LEMMA OfGenIs ==
  ASSUME NEW kind \in Kinds, NEW g \in Nat
  PROVE  /\ OfGen(kind, g) \in ItemSet
         /\ OfGen(kind, g).kind = kind /\ OfGen(kind, g).gen = g
  BY ItemIs DEF OfGen, NoClient

\* Of a connection and its client.
LEMMA ForConnIs ==
  ASSUME NEW kind \in Kinds, NEW g \in Nat, NEW c \in Clients \cup {0}
  PROVE  /\ ForConn(kind, g, c) \in ItemSet
         /\ ForConn(kind, g, c).kind = kind /\ ForConn(kind, g, c).gen = g
  BY ItemIs DEF ForConn

\* The kinds one by one.
LEMMA KindsAre ==
  {"connect", "subscribe", "fetch", "reader", "connected", "connectFailed", "reconnect", "lost",
   "game", "event", "aggTick", "gameTick", "replayInit", "replayLoaded"} = Kinds
  BY DEF Kinds, Commands, LiveMsgs, ReplayMsgs

\* The program begins with one connect, on its way or waiting for the notice.
LEMMA ClientBegins ==
  ASSUME ClientInit
  PROVE  ClientInv
<1> USE DEF ClientInit
<1>1. Clients \subseteq Nat \ {0}
  BY ClientAssumption
<1>2. CASE notice
  <2>1. pending = [e \in {} |-> 1] /\ DOMAIN pending = {}
    BY <1>2 DEF EmptyBag, SetToBag
  <2>2. Bag(pending)
    BY <2>1 DEF Bag
  <2>3. ClientTypes /\ Idling /\ Unbegun
    BY <1>1, <1>2, <2>1, <2>2 DEF ClientTypes, Idling, Unbegun, NoClient
  <2>4. Connector /\ Chains /\ InUseOpen
    BY <1>2 DEF Connector, Chains, InUseOpen, Running
  <2> QED
    BY <2>3, <2>4 DEF ClientInv
<1>3. CASE ~notice
  <2> DEFINE it == Plain("connect")
  <2>1. it \in ItemSet /\ it.kind = "connect" /\ it.gen = 0
    BY ItemIs DEF Plain, Kinds, Commands, NoClient
  <2> HIDE DEF it
  <2>2. pending = [e \in {it} |-> 1] /\ DOMAIN pending = {it} /\ pending[it] = 1
    BY <1>3 DEF SetToBag, it
  <2>3. Bag(pending)
    BY <2>2 DEF Bag
  <2>4. ClientTypes /\ Idling /\ Unbegun
    BY <1>1, <1>3, <2>1, <2>2, <2>3 DEF ClientTypes, Idling, Unbegun, NoClient
  <2>5. Lone(pending, Kind(ConnectPath))
    BY <2>1, <2>2 DEF Lone, Kind, ConnectPath
  <2>6. Connector /\ Chains /\ InUseOpen
    BY <2>5 DEF Connector, Chains, InUseOpen, Running
  <2> QED
    BY <2>4, <2>6 DEF ClientInv
<1> QED
  BY <1>2, <1>3

\* A step that leaves the items, the connection and the clients as they are.
LEMMA Unmoved ==
  ASSUME ClientInv, UNCHANGED <<pending, generation, connState, client, notice, quit>>,
         version' \in Nat, open' = open
  PROVE  ClientInv'
  BY DEF ClientInv, ClientTypes, Idling, Unbegun, Connector, Chains, InUseOpen, Running, KindNow

\* What the items of a step are, for the types.
LEMMA TypesTurned ==
  ASSUME ClientTypes, NEW I, NEW S, Turned(pending, pending', I, S),
         generation' \in Nat, generation <= generation', version' \in Nat,
         client' \in Clients \cup {0}, open' \subseteq Clients,
         connState' \in {"connecting", "connected", "disconnected"},
         connState' = "connected" => client' \in Clients,
         \A i \in S : /\ i \in ItemSet /\ i.gen <= generation'
                      /\ i.kind \in {"subscribe", "connected"} => i.cl \in Clients
  PROVE  ClientTypes'
<1>1. Bag(pending')
  BY BagTurned DEF ClientTypes
<1>2. DOMAIN pending' \subseteq DOMAIN pending \cup S
  BY DEF Turned
<1>3. \A i \in DOMAIN pending : i \in ItemSet /\ i.gen \in Nat
  BY DEF ClientTypes, ItemSet
<1>4. \A i \in DOMAIN pending' : i.gen <= generation'
  BY <1>2, <1>3 DEF ClientTypes, ItemSet
<1> QED
  BY <1>1, <1>2, <1>3, <1>4 DEF ClientTypes

\* An item is there only while the loop runs.
LEMMA ItemsRun ==
  ASSUME Idling, NEW i \in BagToSet(pending)
  PROVE  Running /\ i \in DOMAIN pending
  BY DEF Idling, Running, BagToSet, EmptyBag, SetToBag

\* A step beside the attempts to connect.
LEMMA ConnectorKept ==
  ASSUME ClientTypes, Connector, Running, NEW I, NEW S, Turned(pending, pending', I, S),
         connState' = connState, \A i \in I \cup S : i.kind \notin ConnectPath
  PROVE  Connector'
<1>1. I \cap Kind(ConnectPath) = {} /\ S \cap Kind(ConnectPath) = {}
  BY DEF Kind
<1>2. /\ NoneOf(pending, Kind(ConnectPath)) => NoneOf(pending', Kind(ConnectPath))
      /\ Lone(pending, Kind(ConnectPath)) => Lone(pending', Kind(ConnectPath))
  BY <1>1, KindKept DEF ClientTypes
<1> QED
  BY <1>2 DEF Connector, Kind, Running

\* An attempt goes on as another item: the dashboard is not connected.
LEMMA ConnectorMoved ==
  ASSUME ClientTypes, Connector, Running, NEW i \in DOMAIN pending, NEW k \in ItemSet,
         i.kind \in ConnectPath, k.kind \in ConnectPath,
         Turned(pending, pending', {i}, {k})
  PROVE  /\ connState # "connected"
         /\ connState' # "connected" => Connector'
<1>1. i \in Kind(ConnectPath) /\ k \in Kind(ConnectPath)
  BY DEF ClientTypes, Kind
<1>2. ~NoneOf(pending, Kind(ConnectPath))
  BY <1>1 DEF NoneOf
<1>3. connState # "connected" /\ Lone(pending, Kind(ConnectPath))
  BY <1>2 DEF Connector
<1>4. {k} \cap Kind(ConnectPath) = {k}
  BY <1>1
<1>5. Lone(pending', Kind(ConnectPath))
  BY <1>1, <1>3, <1>4, KindMoved DEF ClientTypes
<1> QED
  BY <1>3, <1>5 DEF Connector, Kind

\* A step beside the chains of this connection.
LEMMA ChainsKept ==
  ASSUME ClientTypes, Chains, Running, NEW I, NEW S, Turned(pending, pending', I, S),
         connState' = "connected" => connState = "connected" /\ generation' = generation,
         \A i \in I \cup S :
           i.kind \in {"gameTick", "aggTick", "reader", "event"} => i.gen # generation,
         \A i \in I : i.kind = "lost" => i.gen # generation
  PROVE  Chains'
<1> SUFFICES ASSUME connState' = "connected"
             PROVE  /\ Lone(pending', KindNow({"gameTick"})) /\ Lone(pending', KindNow({"aggTick"}))
                    /\ \/ Lone(pending', KindNow({"reader", "event"}))
                       \/ NoneOf(pending', KindNow({"reader", "event"}))
                          /\ ~NoneOf(pending', KindNow({"lost"}))
  BY DEF Chains, KindNow
<1>1. \A ks \in {{"gameTick"}, {"aggTick"}, {"reader", "event"}} :
        I \cap KindNow(ks) = {} /\ S \cap KindNow(ks) = {}
  BY DEF KindNow
<1>2. \A ks \in {{"gameTick"}, {"aggTick"}, {"reader", "event"}} :
        /\ Lone(pending, KindNow(ks)) => Lone(pending', KindNow(ks))
        /\ NoneOf(pending, KindNow(ks)) => NoneOf(pending', KindNow(ks))
  BY <1>1, KindKept DEF ClientTypes
<1>3. ~NoneOf(pending, KindNow({"lost"})) => ~NoneOf(pending', KindNow({"lost"}))
  <2>1. I \cap KindNow({"lost"}) = {}
    BY DEF KindNow
  <2> QED
    BY <2>1 DEF NoneOf, Turned
<1> QED
  BY <1>2, <1>3 DEF Chains

\* A step that opens nothing and takes no client under way.
LEMMA OpenKept ==
  ASSUME ClientTypes, InUseOpen, Running, NEW I, NEW S, Turned(pending, pending', I, S),
         open' \subseteq open, client \in open' => client' = client,
         \A i \in I : i.kind \notin {"subscribe", "connected"}
  PROVE  InUseOpen'
<1>1. \A i \in DOMAIN pending \cap Kind({"subscribe", "connected"}) : i \in DOMAIN pending'
  BY DEF Turned, Kind
<1> QED
  BY <1>1 DEF InUseOpen, Kind

\* While the loop runs, the invariant is its parts.
LEMMA Parts ==
  ASSUME Running, UNCHANGED <<notice, quit>>, ClientTypes', Connector', Chains', InUseOpen'
  PROVE  ClientInv'
  BY DEF ClientInv, Idling, Unbegun, Running

\* A step beside the attempts, the chains and the clients.
LEMMA Aside ==
  ASSUME ClientInv, Running, NEW I, NEW S, Turned(pending, pending', I, S),
         UNCHANGED <<open, version, generation, connState, client, notice, quit>>,
         \A i \in I \cup S :
           /\ i.kind \notin ConnectPath
           /\ i.kind \in {"gameTick", "aggTick", "reader", "event"} => i.gen # generation,
         \A i \in I : i.kind = "lost" => i.gen # generation \/ connState # "connected",
         \A i \in S : i \in ItemSet /\ i.gen <= generation
  PROVE  ClientInv'
<1>1. \A i \in I \cup S : i.kind \notin {"subscribe", "connected"}
  BY DEF ConnectPath
<1>2. ClientTypes'
  <2>1. generation' = generation /\ generation <= generation' /\ client' = client
        /\ open' = open /\ connState' = connState /\ version' = version
    BY DEF ClientInv, ClientTypes
  <2> QED
    BY <1>1, <2>1, TypesTurned DEF ClientInv, ClientTypes
<1>3. Connector'
  BY ConnectorKept DEF ClientInv
<1>4. Chains'
  <2>1. CASE connState = "connected"
    BY <2>1, ChainsKept DEF ClientInv
  <2>2. CASE connState # "connected"
    BY <2>2 DEF Chains
  <2> QED
    BY <2>1, <2>2
<1>5. InUseOpen'
  BY <1>1, OpenKept DEF ClientInv
<1> QED
  BY <1>2, <1>3, <1>4, <1>5, Parts

-----------------------------------------------------------------------------
(* The steps of Client *)

\* A dial turns the connect into a subscribe or a failure.
LEMMA DialKeeps ==
  ASSUME ClientInv, NEW i \in BagToSet(pending), Dial(i)
  PROVE  ClientInv'
<1> USE DEF screenVars, liveVars, daemonVars, wireVars
<1>1. Running /\ i \in DOMAIN pending /\ Bag(pending) /\ i.kind \in ConnectPath
  BY ItemsRun DEF ClientInv, ClientTypes, Dial, ConnectPath
<1>2. CASE up
  <2>1. PICK c \in Idle : /\ open' = open \cup {c}
                            /\ Becomes(i, {OfClient("subscribe", c, version)})
    BY <1>2 DEF Dial
  <2> DEFINE k == OfClient("subscribe", c, version)
  <2>2. c \in Clients
    BY DEF Idle
  <2>3. k \in ItemSet /\ k.kind = "subscribe" /\ k.gen = 0 /\ k.cl = c
    BY <2>2, OfClientIs, KindsAre DEF ClientInv, ClientTypes
  <2> HIDE DEF k
  <2>4. Turned(pending, pending', {i}, {k})
    BY <1>1, <2>1, Becoming DEF k
  <2>5. UNCHANGED <<version, connState, generation, client, notice, quit>>
    BY DEF Dial
  <2>6. connState # "connected" /\ Connector'
    BY <1>1, <2>3, <2>4, <2>5, ConnectorMoved DEF ClientInv, ConnectPath
  <2>7. ClientTypes'
    <3>1. open' \subseteq Clients /\ generation <= generation' /\ k.gen <= generation'
      BY <2>1, <2>2, <2>3, <2>5 DEF ClientInv, ClientTypes
    <3> QED
      BY <2>2, <2>3, <2>4, <2>5, <3>1, TypesTurned DEF ClientInv, ClientTypes
  <2>8. Chains'
    BY <2>5, <2>6 DEF Chains
  <2>9. InUseOpen'
    <3>1. i \notin Kind({"subscribe", "connected"})
      BY DEF Dial, Kind
    <3>2. \A j \in DOMAIN pending \cap Kind({"subscribe", "connected"}) : j \in DOMAIN pending'
      BY <2>4, <3>1 DEF Turned
    <3>3. k \in DOMAIN pending' \cap Kind({"subscribe", "connected"}) /\ k.cl = c
      BY <2>3, <2>4 DEF Turned, Kind
    <3>4. Running' => Running
      BY <1>1
    <3> QED
      BY <2>1, <2>5, <3>2, <3>3, <3>4 DEF InUseOpen, ClientInv, Kind
  <2> QED
    BY <1>1, <2>5, <2>6, <2>7, <2>8, <2>9, Parts
<1>3. CASE ~up
  <2> DEFINE k == Plain("connectFailed")
  <2>1. Becomes(i, {k}) /\ UNCHANGED <<open, version, connState, generation, client, notice, quit>>
    BY <1>3 DEF Dial
  <2>2. k \in ItemSet /\ k.kind = "connectFailed" /\ k.gen = 0
    BY PlainIs, KindsAre
  <2> HIDE DEF k
  <2>3. Turned(pending, pending', {i}, {k})
    BY <1>1, <2>1, Becoming
  <2>4. connState # "connected" /\ Connector'
    BY <1>1, <2>1, <2>2, <2>3, ConnectorMoved DEF ClientInv, ConnectPath
  <2>5. ClientTypes'
    <3>1. generation <= generation' /\ k.gen <= generation'
      BY <2>1, <2>2 DEF ClientInv, ClientTypes
    <3> QED
      BY <2>1, <2>2, <2>3, <3>1, TypesTurned DEF ClientInv, ClientTypes
  <2>6. Chains'
    BY <2>1, <2>4 DEF Chains
  <2>7. InUseOpen'
    BY <1>1, <2>1, <2>3, OpenKept DEF ClientInv, Dial
  <2> QED
    BY <1>1, <2>1, <2>4, <2>5, <2>6, <2>7, Parts
<1> QED
  BY <1>2, <1>3

\* A subscribe gives up the client or makes the connection of a new generation.
LEMMA SubscribeKeeps ==
  ASSUME ClientInv, NEW i \in BagToSet(pending), Subscribe(i)
  PROVE  ClientInv'
<1> USE DEF screenVars, liveVars, daemonVars
<1>1. Running /\ i \in DOMAIN pending /\ Bag(pending) /\ i.kind \in ConnectPath
      /\ i.cl \in Clients /\ i \in ItemSet
  BY ItemsRun DEF ClientInv, ClientTypes, Subscribe, ConnectPath
<1>2. UNCHANGED <<version, connState, generation, client, notice, quit>>
  BY DEF Subscribe
<1>3. CASE up
  <2> DEFINE k == OfClient("connected", i.cl, i.ver)
  <2>1. Becomes(i, {k}) /\ open' = open
    BY <1>3 DEF Subscribe
  <2>2. k \in ItemSet /\ k.kind = "connected" /\ k.gen = 0 /\ k.cl = i.cl
    <3>1. i.cl \in Clients \cup {0} /\ i.ver \in Nat /\ "connected" \in Kinds
      BY <1>1, KindsAre DEF ItemSet
    <3>2. \A c \in Clients \cup {0}, v \in Nat :
            LET x == OfClient("connected", c, v)
            IN  x \in ItemSet /\ x.kind = "connected" /\ x.gen = 0 /\ x.cl = c
      BY <3>1, OfClientIs
    <3> QED
      BY <3>1, <3>2
  <2> HIDE DEF k
  <2>3. Turned(pending, pending', {i}, {k})
    BY <1>1, <2>1, Becoming
  <2>4. connState # "connected" /\ Connector'
    BY <1>1, <1>2, <2>2, <2>3, ConnectorMoved DEF ClientInv, ConnectPath
  <2>5. ClientTypes'
    <3>1. generation <= generation' /\ k.gen <= generation'
      BY <1>2, <2>2 DEF ClientInv, ClientTypes
    <3> QED
      BY <1>1, <1>2, <2>1, <2>2, <2>3, <3>1, TypesTurned DEF ClientInv, ClientTypes
  <2>6. Chains'
    BY <1>2, <2>4 DEF Chains
  <2>7. InUseOpen'
    <3>1. \A j \in DOMAIN pending \cap Kind({"subscribe", "connected"}) :
            j \in DOMAIN pending' \/ j = i
      BY <2>3 DEF Turned
    <3>2. k \in DOMAIN pending' \cap Kind({"subscribe", "connected"}) /\ k.cl = i.cl
      BY <2>2, <2>3 DEF Turned, Kind
    <3> QED
      BY <1>1, <1>2, <2>1, <3>1, <3>2 DEF InUseOpen, ClientInv, Kind
  <2> QED
    BY <1>1, <1>2, <2>4, <2>5, <2>6, <2>7, Parts
<1>4. CASE ~up
  <2> DEFINE k == Plain("connectFailed")
  <2>1. Becomes(i, {k}) /\ open' = open \ {i.cl}
    BY <1>4 DEF Subscribe, Closed
  <2>2. k \in ItemSet /\ k.kind = "connectFailed" /\ k.gen = 0
    BY PlainIs, KindsAre
  <2> HIDE DEF k
  <2>3. Turned(pending, pending', {i}, {k})
    BY <1>1, <2>1, Becoming
  <2>4. connState # "connected" /\ Connector'
    BY <1>1, <1>2, <2>2, <2>3, ConnectorMoved DEF ClientInv, ConnectPath
  <2>5. ClientTypes'
    <3>1. generation <= generation' /\ k.gen <= generation' /\ open' \subseteq Clients
      BY <1>2, <2>1, <2>2 DEF ClientInv, ClientTypes
    <3> QED
      BY <1>2, <2>2, <2>3, <3>1, TypesTurned DEF ClientInv, ClientTypes
  <2>6. Chains'
    BY <1>2, <2>4 DEF Chains
  <2>7. InUseOpen'
    <3>1. \A j \in DOMAIN pending \cap Kind({"subscribe", "connected"}) :
            j \in DOMAIN pending' \/ j = i
      BY <2>3 DEF Turned
    <3> QED
      BY <1>1, <1>2, <2>1, <3>1 DEF InUseOpen, ClientInv, Kind
  <2> QED
    BY <1>1, <1>2, <2>4, <2>5, <2>6, <2>7, Parts
<1> QED
  BY <1>3, <1>4

\* A fetch is answered.
LEMMA FetchKeeps ==
  ASSUME ClientInv, NEW i \in BagToSet(pending), Fetch(i)
  PROVE  ClientInv'
<1>1. Running /\ i \in DOMAIN pending /\ Bag(pending) /\ i.kind = "fetch"
      /\ i.gen \in Nat /\ i.gen <= generation
  BY ItemsRun DEF ClientInv, ClientTypes, Fetch, ItemSet
<1>2. UNCHANGED <<open, version, generation, connState, client, notice, quit>>
  BY DEF Fetch, daemonVars, wireVars, liveVars, screenVars
<1>3. PICK k \in {OfClient("game", NoClient, version), OfGen("lost", i.gen)} :
        Becomes(i, {k})
  BY DEF Fetch
<1>4. k \in ItemSet /\ k.kind \in {"game", "lost"} /\ k.gen <= generation
  <2>1. 0 <= generation /\ version \in Nat /\ {"game", "lost"} \subseteq Kinds
    BY KindsAre DEF ClientInv, ClientTypes
  <2>2. CASE k = OfClient("game", NoClient, version)
    BY <2>1, <2>2, OfClientIs DEF NoClient
  <2>3. CASE k = OfGen("lost", i.gen)
    BY <1>1, <2>1, <2>3, OfGenIs
  <2> QED
    BY <1>3, <2>2, <2>3
<1>5. Turned(pending, pending', {i}, {k})
  BY <1>1, <1>3, Becoming
<1> QED
  BY <1>1, <1>2, <1>4, <1>5, Aside DEF ConnectPath

\* The reader has an event, or the loss of its stream.
LEMMA ReadEventKeeps ==
  ASSUME ClientInv, NEW i \in BagToSet(pending), ReadEvent(i)
  PROVE  ClientInv'
<1>1. Running /\ i \in DOMAIN pending /\ Bag(pending) /\ i.kind = "reader"
      /\ i \in ItemSet /\ i.gen \in Nat /\ i.gen <= generation
  BY ItemsRun DEF ClientInv, ClientTypes, ReadEvent, ItemSet
<1>2. UNCHANGED <<open, version, generation, connState, client, notice, quit>>
  BY DEF ReadEvent, daemonVars, liveVars, screenVars
<1>3. PICK k \in {OfGen("event", i.gen), OfGen("lost", i.gen)} : Becomes(i, {k})
  BY DEF ReadEvent
<1>4. k \in ItemSet /\ k.kind \in {"event", "lost"} /\ k.gen = i.gen
  BY <1>1, OfGenIs, KindsAre
<1>5. Turned(pending, pending', {i}, {k})
  BY <1>1, <1>3, Becoming
<1>6. CASE i.gen # generation
  BY <1>1, <1>2, <1>4, <1>5, <1>6, Aside DEF ConnectPath
<1>7. CASE i.gen = generation
  <2>1. ClientTypes'
    BY <1>1, <1>2, <1>4, <1>5, <1>7, TypesTurned DEF ClientInv, ClientTypes
  <2>2. Connector'
    BY <1>1, <1>2, <1>4, <1>5, ConnectorKept DEF ClientInv, ConnectPath
  <2>3. InUseOpen'
    BY <1>1, <1>2, <1>5, OpenKept DEF ClientInv
  <2>4. Chains'
    <3> SUFFICES ASSUME connState = "connected"
                 PROVE  /\ Lone(pending', KindNow({"gameTick"})) /\ Lone(pending', KindNow({"aggTick"}))
                        /\ \/ Lone(pending', KindNow({"reader", "event"}))
                           \/ NoneOf(pending', KindNow({"reader", "event"}))
                              /\ ~NoneOf(pending', KindNow({"lost"}))
      BY <1>2 DEF Chains, KindNow
    <3>1. \A ks \in {{"gameTick"}, {"aggTick"}} :
            {i} \cap KindNow(ks) = {} /\ {k} \cap KindNow(ks) = {}
      BY <1>1, <1>4 DEF KindNow
    <3>2. \A ks \in {{"gameTick"}, {"aggTick"}} : Lone(pending, KindNow(ks))
      BY <1>1 DEF ClientInv, Chains
    <3>3. \A ks \in {{"gameTick"}, {"aggTick"}} : Lone(pending', KindNow(ks))
      BY <1>1, <1>5, <3>1, <3>2, KindKept
    <3>4. i \in KindNow({"reader", "event"})
      BY <1>1, <1>7 DEF KindNow
    <3>5. Lone(pending, KindNow({"reader", "event"}))
      BY <1>1, <3>4 DEF ClientInv, Chains, NoneOf
    <3>6. CASE k.kind = "event"
      <4>1. {k} \cap KindNow({"reader", "event"}) = {k}
        BY <1>4, <1>7, <3>6 DEF KindNow
      <4> QED
        BY <1>1, <1>5, <3>3, <3>4, <3>5, <4>1, KindMoved
    <3>7. CASE k.kind = "lost"
      <4>1. {k} \cap KindNow({"reader", "event"}) = {}
        BY <3>7 DEF KindNow
      <4>2. NoneOf(pending', KindNow({"reader", "event"}))
        BY <1>1, <1>5, <3>4, <3>5, <4>1, KindLeft
      <4>3. k \in DOMAIN pending' /\ k \in KindNow({"lost"})
        BY <1>4, <1>5, <1>7, <3>7 DEF Turned, KindNow
      <4> QED
        BY <3>3, <4>2, <4>3 DEF NoneOf
    <3> QED
      BY <1>4, <3>6, <3>7
  <2> QED
    BY <1>1, <1>2, <2>1, <2>2, <2>3, <2>4, Parts
<1> QED
  BY <1>6, <1>7

\* What the loop gives to a model leaves the rest of the world as it is.
LEMMA Delivered ==
  ASSUME NEW i, Deliver(i)
  PROVE  Running /\ Taken(i) /\ UNCHANGED <<version, notice, quit>>
  BY DEF Deliver, daemonVars, screenVars

\* A connection that is delivered brings its polls and its reader.
LEMMA OnConnectedKeeps ==
  ASSUME ClientInv, NEW i \in BagToSet(pending), Deliver(i), OnConnected(i)
  PROVE  ClientInv'
<1>1. /\ Running /\ i \in DOMAIN pending /\ Bag(pending) /\ i.kind = "connected"
      /\ i \in ItemSet /\ i.cl \in Clients /\ UNCHANGED <<version, notice, quit>>
      /\ generation \in Nat
  BY ItemsRun, Delivered DEF ClientInv, ClientTypes, OnConnected
<1>2. /\ generation' = generation + 1 /\ generation' \in Nat /\ connState' = "connected"
      /\ client' = i.cl /\ open' = open \ ({client} \ {i.cl})
  BY <1>1 DEF OnConnected, Closed
<1> DEFINE r == ForConn("reader", generation + 1, i.cl)
           a == OfGen("aggTick", generation + 1)
           t == OfGen("gameTick", generation + 1)
<1>3. Becomes(i, {r, a, t})
  BY DEF OnConnected
<1>4. /\ r \in ItemSet /\ r.kind = "reader" /\ r.gen = generation'
      /\ a \in ItemSet /\ a.kind = "aggTick" /\ a.gen = generation'
      /\ t \in ItemSet /\ t.kind = "gameTick" /\ t.gen = generation'
  <2>1. /\ generation + 1 \in Nat /\ i.cl \in Clients \cup {0}
        /\ {"reader", "aggTick", "gameTick"} \subseteq Kinds
    BY <1>1, KindsAre
  <2>2. r \in ItemSet /\ r.kind = "reader" /\ r.gen = generation + 1
    BY <2>1, ForConnIs
  <2>3. a \in ItemSet /\ a.kind = "aggTick" /\ a.gen = generation + 1
    BY <2>1, OfGenIs
  <2>4. t \in ItemSet /\ t.kind = "gameTick" /\ t.gen = generation + 1
    BY <2>1, OfGenIs
  <2> QED
    BY <1>2, <2>2, <2>3, <2>4
<1> HIDE DEF r, a, t
<1>5. Turned(pending, pending', {i}, {r, a, t})
  BY <1>1, <1>3, Becoming
<1>6. ClientTypes'
  <2>1. generation <= generation' /\ open' \subseteq Clients
    BY <1>1, <1>2 DEF ClientInv, ClientTypes
  <2> QED
    BY <1>1, <1>2, <1>4, <1>5, <2>1, TypesTurned DEF ClientInv, ClientTypes
<1>7. Connector'
  <2>1. i \in Kind(ConnectPath) /\ {r, a, t} \cap Kind(ConnectPath) = {}
    BY <1>1, <1>4 DEF Kind, ConnectPath
  <2>2. Lone(pending, Kind(ConnectPath))
    BY <1>1, <2>1 DEF ClientInv, Connector, NoneOf
  <2>3. NoneOf(pending', Kind(ConnectPath))
    BY <1>1, <1>5, <2>1, <2>2, KindLeft
  <2> QED
    BY <1>2, <2>3 DEF Connector, Kind
<1>8. Chains'
  <2> DEFINE K(ks) == {j \in ItemSet : j.kind \in ks /\ j.gen = generation'}
  <2>1. \A ks : NoneOf(pending, K(ks))
    BY <1>1, <1>2 DEF NoneOf, ClientInv, ClientTypes, ItemSet
  <2>2. /\ {r, a, t} \cap K({"gameTick"}) = {t}
        /\ {r, a, t} \cap K({"aggTick"}) = {a}
        /\ {r, a, t} \cap K({"reader", "event"}) = {r}
    BY <1>4
  <2> HIDE DEF K
  <2>3. /\ Lone(pending', K({"gameTick"})) /\ Lone(pending', K({"aggTick"}))
        /\ Lone(pending', K({"reader", "event"}))
    BY <1>1, <1>5, <2>1, <2>2, KindEntered
  <2> QED
    BY <2>3 DEF Chains, KindNow, K
<1>9. InUseOpen'
  <2>1. \A j \in DOMAIN pending \cap Kind({"subscribe", "connected"}) : j \in DOMAIN pending' \/ j = i
    BY <1>5 DEF Turned
  <2> QED
    BY <1>1, <1>2, <2>1 DEF InUseOpen, ClientInv, Kind
<1> QED
  BY <1>1, <1>6, <1>7, <1>8, <1>9, Parts

\* A loss or a failure leaves one attempt to reconnect, if it is not stale.
LEMMA OnDisconnectedKeeps ==
  ASSUME ClientInv, NEW i \in BagToSet(pending), Deliver(i), OnDisconnected(i)
  PROVE  ClientInv'
<1>1. /\ Running /\ i \in DOMAIN pending /\ Bag(pending) /\ i.kind \in {"lost", "connectFailed"}
      /\ i \in ItemSet /\ UNCHANGED <<version, notice, quit>> /\ generation \in Nat
  BY ItemsRun, Delivered DEF ClientInv, ClientTypes, OnDisconnected
<1>2. /\ generation' = generation /\ connState' = "disconnected"
      /\ client' = 0 /\ open' = open \ {client}
  BY DEF OnDisconnected, Closed, NoClient
<1> DEFINE k == Plain("reconnect")
<1>3. Becomes(i, {k})
  BY DEF OnDisconnected
<1>4. k \in ItemSet /\ k.kind = "reconnect" /\ k.gen = 0
  BY PlainIs, KindsAre
<1> HIDE DEF k
<1>5. Turned(pending, pending', {i}, {k})
  BY <1>1, <1>3, Becoming
<1>6. ClientTypes'
  <2>1. generation <= generation' /\ open' \subseteq Clients /\ k.gen <= generation'
    BY <1>1, <1>2, <1>4 DEF ClientInv, ClientTypes
  <2> QED
    BY <1>1, <1>2, <1>4, <1>5, <2>1, TypesTurned DEF ClientInv, ClientTypes
<1>7. Connector'
  <2>1. CASE i.kind = "connectFailed"
    BY <1>1, <1>2, <1>4, <1>5, <2>1, ConnectorMoved DEF ClientInv, ConnectPath
  <2>2. CASE i.kind = "lost"
    <3>1. connState = "connected"
      BY <2>2, Delivered DEF Taken, Current, ToReplay
    <3>2. NoneOf(pending, Kind(ConnectPath))
      BY <1>1, <3>1 DEF ClientInv, Connector
    <3>3. {k} \cap Kind(ConnectPath) = {k}
      BY <1>4 DEF Kind, ConnectPath
    <3>4. Lone(pending', Kind(ConnectPath))
      BY <1>1, <1>5, <3>2, <3>3, KindEntered
    <3> QED
      BY <1>2, <3>4 DEF Connector, Kind
  <2> QED
    BY <1>1, <2>1, <2>2
<1>8. Chains'
  BY <1>2 DEF Chains
<1>9. InUseOpen'
  BY <1>1, <1>2, <1>5, OpenKept DEF ClientInv
<1> QED
  BY <1>1, <1>6, <1>7, <1>8, <1>9, Parts

\* A reconnect becomes an attempt.
LEMMA OnReconnectKeeps ==
  ASSUME ClientInv, NEW i \in BagToSet(pending), Deliver(i), OnReconnect(i)
  PROVE  ClientInv'
<1>1. /\ Running /\ i \in DOMAIN pending /\ Bag(pending) /\ i.kind \in ConnectPath
      /\ UNCHANGED <<version, notice, quit, open, generation, client>> /\ generation \in Nat
      /\ connState' = "connecting"
  BY ItemsRun, Delivered DEF ClientInv, ClientTypes, OnReconnect, ConnectPath
<1> DEFINE k == Plain("connect")
<1>2. Becomes(i, {k})
  BY DEF OnReconnect
<1>3. k \in ItemSet /\ k.kind = "connect" /\ k.gen = 0
  BY PlainIs, KindsAre
<1> HIDE DEF k
<1>4. Turned(pending, pending', {i}, {k})
  BY <1>1, <1>2, Becoming
<1>5. Connector'
  BY <1>1, <1>3, <1>4, ConnectorMoved DEF ClientInv, ConnectPath
<1>6. ClientTypes'
  <2>1. generation <= generation' /\ k.gen <= generation'
    BY <1>1, <1>3
  <2> QED
    BY <1>1, <1>3, <1>4, <2>1, TypesTurned DEF ClientInv, ClientTypes
<1>7. Chains'
  BY <1>1 DEF Chains
<1>8. i.kind \notin {"subscribe", "connected"}
  BY DEF OnReconnect
<1>9. InUseOpen'
  BY <1>1, <1>4, <1>8, OpenKept DEF ClientInv
<1> QED
  BY <1>1, <1>5, <1>6, <1>7, <1>9, Parts

\* The commands that the handlers of this connection arm.
LEMMA Armed ==
  ASSUME ClientInv
  PROVE  /\ FetchGame \in ItemSet /\ FetchGame.kind = "fetch" /\ FetchGame.gen = generation
         /\ \A kind \in {"aggTick", "gameTick"} :
              LET k == OfGen(kind, generation)
              IN  k \in ItemSet /\ k.kind = kind /\ k.gen = generation
         /\ LET r == ForConn("reader", generation, client)
            IN  r \in ItemSet /\ r.kind = "reader" /\ r.gen = generation
         /\ generation \in Nat /\ generation <= generation
<1>1. /\ generation \in Nat /\ client \in Clients \cup {0}
      /\ {"fetch", "aggTick", "gameTick", "reader"} \subseteq Kinds
  BY KindsAre DEF ClientInv, ClientTypes
<1>2. FetchGame \in ItemSet /\ FetchGame.kind = "fetch" /\ FetchGame.gen = generation
  BY <1>1, ForConnIs DEF FetchGame
<1>3. \A kind \in {"aggTick", "gameTick"} :
        LET k == OfGen(kind, generation)
        IN  k \in ItemSet /\ k.kind = kind /\ k.gen = generation
  BY <1>1, OfGenIs
<1>4. LET r == ForConn("reader", generation, client)
      IN  r \in ItemSet /\ r.kind = "reader" /\ r.gen = generation
  BY <1>1, ForConnIs
<1> QED
  BY <1>1, <1>2, <1>3, <1>4

\* A message of a chain of this connection becomes the next of its chain, with
\* or without a fetch.
LEMMA ChainGoesOn ==
  ASSUME ClientInv, Running, NEW i \in DOMAIN pending,
         NEW S, NEW k \in S, Turned(pending, pending', {i}, S),
         UNCHANGED <<open, version, generation, connState, client, notice, quit>>,
         i.gen = generation, S \subseteq ItemSet,
         \A j \in S : j.gen = generation /\ (j # k => j.kind = "fetch"),
         \/ i.kind = "gameTick" /\ k.kind = "gameTick"
         \/ i.kind = "aggTick" /\ k.kind = "aggTick"
         \/ i.kind = "event" /\ k.kind = "reader"
  PROVE  ClientInv'
<1>1. i \in ItemSet /\ Bag(pending) /\ generation \in Nat
  BY DEF ClientInv, ClientTypes
<1>2. \A j \in {i} \cup S : j.kind \in {"gameTick", "aggTick", "reader", "event", "fetch"}
  OBVIOUS
<1>3. ClientTypes'
  <2>1. \A j \in S : j.gen <= generation' /\ j.kind \notin {"subscribe", "connected"}
    BY <1>1, <1>2
  <2> QED
    BY <1>1, <2>1, TypesTurned DEF ClientInv, ClientTypes
<1>4. Connector'
  BY <1>2, ConnectorKept DEF ClientInv, ConnectPath
<1>5. InUseOpen'
  BY <1>2, OpenKept DEF ClientInv
<1>6. Chains'
  <2> SUFFICES ASSUME connState = "connected"
               PROVE  /\ Lone(pending', KindNow({"gameTick"})) /\ Lone(pending', KindNow({"aggTick"}))
                      /\ \/ Lone(pending', KindNow({"reader", "event"}))
                         \/ NoneOf(pending', KindNow({"reader", "event"}))
                            /\ ~NoneOf(pending', KindNow({"lost"}))
    BY DEF Chains, KindNow
  <2> DEFINE Sets == {{"gameTick"}, {"aggTick"}, {"reader", "event"}}
  <2>1. \A ks \in Sets : i.kind \in ks <=> k.kind \in ks
    <3>1. CASE i.kind = "gameTick" /\ k.kind = "gameTick"
      BY <3>1
    <3>2. CASE i.kind = "aggTick" /\ k.kind = "aggTick"
      BY <3>2
    <3>3. CASE i.kind = "event" /\ k.kind = "reader"
      BY <3>3
    <3> QED
      BY <3>1, <3>2, <3>3
  <2>2. \A ks \in Sets : i.kind \notin ks =>
          {i} \cap KindNow(ks) = {} /\ S \cap KindNow(ks) = {}
    <3>1. \A ks \in Sets : "fetch" \notin ks
      OBVIOUS
    <3> QED
      BY <2>1, <3>1 DEF KindNow
  <2>3. \A ks \in Sets : i.kind \in ks => i \in KindNow(ks) /\ S \cap KindNow(ks) = {k}
    <3>1. \A ks \in Sets : "fetch" \notin ks
      OBVIOUS
    <3>2. k \in ItemSet /\ k.gen = generation
      OBVIOUS
    <3>3. ASSUME NEW ks \in Sets, k.kind \in ks PROVE S \cap KindNow(ks) = {k}
      <4>1. k \in S \cap KindNow(ks)
        BY <3>2, <3>3 DEF KindNow
      <4>2. \A j \in S \cap KindNow(ks) : j = k
        BY <3>1 DEF KindNow
      <4> QED
        BY <4>1, <4>2
    <3> QED
      BY <1>1, <2>1, <3>3 DEF KindNow
  <2>4. ASSUME NEW ks \in Sets, Lone(pending, KindNow(ks)) PROVE Lone(pending', KindNow(ks))
    <3>1. CASE i.kind \notin ks
      <4>1. {i} \cap KindNow(ks) = {} /\ S \cap KindNow(ks) = {}
        BY <2>2, <3>1
      <4> QED
        BY <1>1, <2>4, <4>1, KindKept
    <3>2. CASE i.kind \in ks
      <4>1. i \in KindNow(ks) /\ S \cap KindNow(ks) = {k}
        BY <2>3, <3>2
      <4> QED
        BY <1>1, <2>4, <4>1, KindMoved
    <3> QED
      BY <3>1, <3>2
  <2>5. \A ks \in Sets : NoneOf(pending, KindNow(ks)) => NoneOf(pending', KindNow(ks))
    <3>1. \A ks \in Sets : NoneOf(pending, KindNow(ks)) => i.kind \notin ks
      BY <2>3 DEF NoneOf
    <3> QED
      BY <1>1, <2>2, <3>1, KindKept
  <2>6. ~NoneOf(pending, KindNow({"lost"})) => ~NoneOf(pending', KindNow({"lost"}))
    <3>1. i \notin KindNow({"lost"})
      BY DEF KindNow
    <3> QED
      BY <3>1 DEF NoneOf, Turned
  <2> QED
    BY <2>4, <2>5, <2>6 DEF ClientInv, Chains
<1> QED
  BY <1>3, <1>4, <1>5, <1>6, Parts

\* The handlers that re-arm a chain.
LEMMA RearmKeeps ==
  ASSUME ClientInv, NEW i \in BagToSet(pending), Deliver(i),
         OnEvent(i) \/ OnAggTick(i) \/ OnGameTick(i)
  PROVE  ClientInv'
<1>1. /\ Running /\ i \in DOMAIN pending /\ Bag(pending) /\ Taken(i)
      /\ UNCHANGED <<version, notice, quit>> /\ generation \in Nat
  BY ItemsRun, Delivered DEF ClientInv, ClientTypes
<1>2. i.kind \in {"event", "aggTick", "gameTick"}
  BY DEF OnEvent, OnAggTick, OnGameTick
<1>3. i.gen = generation
  BY <1>1, <1>2 DEF Taken, Current, ToReplay
<1>4. UNCHANGED <<open, generation, connState, client>>
  BY DEF OnEvent, OnAggTick, OnGameTick, liveVars
<1>5. CASE OnEvent(i)
  <2> DEFINE k == ForConn("reader", generation, client)
             f == FetchGame
  <2>1. Becomes(i, {k, f}) /\ i.kind = "event"
    BY <1>5 DEF OnEvent
  <2>2. /\ k \in ItemSet /\ k.kind = "reader" /\ k.gen = generation
        /\ f \in ItemSet /\ f.kind = "fetch" /\ f.gen = generation
    BY Armed
  <2> HIDE DEF k, f
  <2>3. Turned(pending, pending', {i}, {k, f})
    BY <1>1, <2>1, Becoming
  <2> QED
    BY <1>1, <1>3, <1>4, <2>1, <2>2, <2>3, ChainGoesOn
<1>6. CASE OnAggTick(i)
  <2> DEFINE k == OfGen("aggTick", generation)
  <2>1. Becomes(i, {k}) /\ i.kind = "aggTick"
    BY <1>6 DEF OnAggTick
  <2>2. k \in ItemSet /\ k.kind = "aggTick" /\ k.gen = generation
    BY Armed
  <2> HIDE DEF k
  <2>3. Turned(pending, pending', {i}, {k})
    BY <1>1, <2>1, Becoming
  <2> QED
    BY <1>1, <1>3, <1>4, <2>1, <2>2, <2>3, ChainGoesOn
<1>7. CASE OnGameTick(i)
  <2> DEFINE k == OfGen("gameTick", generation)
             f == FetchGame
  <2>1. Becomes(i, {f, k}) /\ i.kind = "gameTick"
    BY <1>7 DEF OnGameTick
  <2>2. /\ k \in ItemSet /\ k.kind = "gameTick" /\ k.gen = generation
        /\ f \in ItemSet /\ f.kind = "fetch" /\ f.gen = generation
    BY Armed
  <2> HIDE DEF k, f
  <2>3. Turned(pending, pending', {i}, {f, k})
    BY <1>1, <2>1, Becoming
  <2> QED
    BY <1>1, <1>3, <1>4, <2>1, <2>2, <2>3, ChainGoesOn
<1> QED
  BY <1>5, <1>6, <1>7

\* A message that only the game shown or the replay depends on.
LEMMA AnswerKeeps ==
  ASSUME ClientInv, NEW i \in BagToSet(pending), Deliver(i),
         \/ OnGame(i)
         \/ (OnReplayInit(i) \/ OnReplayLoaded(i)) /\ UNCHANGED <<open, liveVars>>
  PROVE  ClientInv'
<1>1. /\ Running /\ i \in DOMAIN pending /\ Bag(pending)
      /\ UNCHANGED <<version, notice, quit>>
  BY ItemsRun, Delivered DEF ClientInv, ClientTypes
<1>2. UNCHANGED <<open, generation, connState, client>>
  BY DEF OnGame, liveVars
<1>3. i.kind \in {"game", "replayInit", "replayLoaded"}
  BY DEF OnGame, OnReplayInit, OnReplayLoaded
<1>4. CASE Becomes(i, {})
  <2>1. Turned(pending, pending', {i}, {})
    BY <1>1, <1>4, Becoming
  <2> QED
    BY <1>1, <1>2, <1>3, <2>1, Aside DEF ConnectPath
<1>5. CASE Becomes(i, {Plain("replayLoaded")})
  <2> DEFINE k == Plain("replayLoaded")
  <2>1. k \in ItemSet /\ k.kind = "replayLoaded" /\ k.gen <= generation
    BY PlainIs, KindsAre DEF ClientInv, ClientTypes
  <2>2. Becomes(i, {k})
    BY <1>5
  <2> HIDE DEF k
  <2>3. Turned(pending, pending', {i}, {k})
    BY <1>1, <2>2, Becoming
  <2> QED
    BY <1>1, <1>2, <1>3, <2>1, <2>3, Aside DEF ConnectPath
<1> QED
  BY <1>4, <1>5 DEF OnGame, OnReplayInit, OnReplayLoaded

\* Whatever is delivered.
LEMMA DeliverKeeps ==
  ASSUME ClientInv, NEW i \in BagToSet(pending), Deliver(i)
  PROVE  ClientInv'
<1>1. CASE LiveUpdate(i)
  BY <1>1, OnConnectedKeeps, OnDisconnectedKeeps, OnReconnectKeeps, RearmKeeps, AnswerKeeps
     DEF LiveUpdate
<1>2. CASE (OnReplayInit(i) \/ OnReplayLoaded(i)) /\ UNCHANGED <<open, liveVars>>
  BY <1>2, AnswerKeeps
<1> QED
  BY <1>1, <1>2 DEF Deliver

\* What is dropped is of another connection, or reports a loss that is known.
LEMMA DropKeeps ==
  ASSUME ClientInv, NEW i \in BagToSet(pending), Drop(i)
  PROVE  ClientInv'
<1>1. /\ Running /\ i \in DOMAIN pending /\ Bag(pending) /\ i \in ItemSet /\ ~Taken(i)
      /\ i.kind \in LiveMsgs \cup ReplayMsgs
  BY ItemsRun DEF ClientInv, ClientTypes, Drop
<1>2. UNCHANGED <<open, version, generation, connState, client, notice, quit>>
  BY DEF Drop, daemonVars, wireVars, liveVars, screenVars
<1>3. Turned(pending, pending', {i}, {})
  BY <1>1, Becoming DEF Drop
<1>4. i.kind \in LiveMsgs => ~Current(i)
  BY <1>1 DEF Taken, ToLive, isLiveBackgroundMsg
<1>5. i.kind \notin ConnectPath
  BY <1>1, <1>4 DEF Current, LiveMsgs, ReplayMsgs, ConnectPath
<1>6. i.kind = "lost" => i.gen # generation \/ connState # "connected"
  BY <1>4 DEF Current, LiveMsgs
<1>7. i.kind \in {"gameTick", "aggTick", "event"} => i.gen # generation \/ client = 0
  BY <1>4 DEF Current, LiveMsgs, NoClient
<1>8. i.kind # "reader"
  BY <1>1 DEF LiveMsgs, ReplayMsgs
<1>9. CASE connState = "connected"
  <2>1. client # 0
    BY <1>9, ClientAssumption DEF ClientInv, ClientTypes
  <2> QED
    BY <1>1, <1>2, <1>3, <1>5, <1>6, <1>7, <1>8, <2>1, Aside
<1>10. CASE connState # "connected"
  <2>1. ClientTypes'
    BY <1>2, <1>3, TypesTurned DEF ClientInv, ClientTypes
  <2>2. Connector'
    BY <1>1, <1>2, <1>3, <1>5, ConnectorKept DEF ClientInv
  <2>3. Chains'
    BY <1>2, <1>10 DEF Chains
  <2>4. InUseOpen'
    BY <1>1, <1>2, <1>3, <1>5, OpenKept DEF ClientInv, ConnectPath
  <2> QED
    BY <1>1, <1>2, <2>1, <2>2, <2>3, <2>4, Parts
<1> QED
  BY <1>9, <1>10

\* The keys that start a fetch or a command of the replay.
LEMMA StartKeeps ==
  ASSUME ClientInv, Refresh \/ switchMode \/ switchSource
  PROVE  ClientInv'
<1>1. /\ Running /\ Bag(pending)
      /\ UNCHANGED <<open, version, generation, connState, client, notice, quit>>
  BY DEF ClientInv, ClientTypes, Refresh, switchMode, switchSource, daemonVars,
         wireVars, liveVars, screenVars
<1>2. PICK S \in {{}, {FetchGame}, {Plain("replayInit")}, {Plain("replayLoaded")}} :
        Starts(S)
  BY DEF Refresh, switchMode, switchSource
<1>3. \A k \in {FetchGame, Plain("replayInit"), Plain("replayLoaded")} :
        k \in ItemSet /\ k.kind \in {"fetch", "replayInit", "replayLoaded"} /\ k.gen <= generation
  <2>1. 0 <= generation /\ {"replayInit", "replayLoaded"} \subseteq Kinds
    BY KindsAre DEF ClientInv, ClientTypes
  <2> QED
    BY <2>1, Armed, PlainIs
<1>4. \A k \in S : k \in ItemSet /\ k.kind \in {"fetch", "replayInit", "replayLoaded"}
                   /\ k.gen <= generation
  BY <1>2, <1>3
<1>5. Turned(pending, pending', {}, S)
  BY <1>1, <1>2, Starting
<1> QED
  BY <1>1, <1>4, <1>5, Aside DEF ConnectPath

\* The first attempt to connect.
LEMMA DismissKeeps ==
  ASSUME ClientInv, Dismiss
  PROVE  ClientInv'
<1>1. /\ UNCHANGED <<open, version, generation, connState, client, quit>>
      /\ notice /\ ~quit /\ ~notice' /\ Bag(pending)
  BY DEF Dismiss, daemonVars, wireVars, liveVars, ClientInv, ClientTypes
<1>2. /\ connState = "connecting" /\ open = {} /\ client = 0
      /\ pending = EmptyBag /\ DOMAIN pending = {}
  BY <1>1 DEF ClientInv, Unbegun, Idling, EmptyBag, SetToBag
<1> DEFINE k == Plain("connect")
<1>3. k \in ItemSet /\ k.kind = "connect" /\ k.gen = 0
  BY PlainIs, KindsAre
<1>4. Turned(pending, pending', {}, {k})
  BY <1>1, Starting DEF Dismiss
<1> HIDE DEF k
<1>5. ClientTypes'
  <2>1. generation <= generation' /\ k.gen <= generation'
    BY <1>1, <1>3 DEF ClientInv, ClientTypes
  <2> QED
    BY <1>1, <1>3, <1>4, <2>1, TypesTurned DEF ClientInv, ClientTypes
<1>6. Connector'
  <2>1. NoneOf(pending, Kind(ConnectPath))
    BY <1>2 DEF NoneOf
  <2>2. {k} \cap Kind(ConnectPath) = {k}
    BY <1>3 DEF Kind, ConnectPath
  <2>3. Lone(pending', Kind(ConnectPath))
    BY <1>1, <1>4, <2>1, <2>2, KindEntered
  <2> QED
    BY <1>1, <1>2, <2>3 DEF Connector, Kind
<1>7. Chains' /\ InUseOpen' /\ Unbegun' /\ Idling'
  BY <1>1, <1>2 DEF Chains, InUseOpen, Unbegun, Idling
<1> QED
  BY <1>5, <1>6, <1>7 DEF ClientInv

\* After the end nothing is pending.
LEMMA QuitKeeps ==
  ASSUME ClientInv, Quit
  PROVE  ClientInv'
<1>1. /\ UNCHANGED <<version, generation, connState, client, notice>> /\ quit'
      /\ pending' = EmptyBag /\ open' \subseteq open /\ (notice => open' = open)
  BY DEF Quit, Closed, daemonVars, liveVars, Running
<1>2. pending' = [e \in {} |-> 1] /\ DOMAIN pending' = {}
  BY <1>1 DEF EmptyBag, SetToBag
<1>3. Bag(pending')
  BY <1>2 DEF Bag
<1>4. ClientTypes'
  BY <1>1, <1>2, <1>3 DEF ClientInv, ClientTypes
<1>5. Idling' /\ Unbegun'
  BY <1>1 DEF ClientInv, Idling, Unbegun
<1>6. Connector' /\ Chains' /\ InUseOpen'
  BY <1>1 DEF Connector, Chains, InUseOpen, Running
<1> QED
  BY <1>4, <1>5, <1>6 DEF ClientInv

\* Every step keeps the invariant.
LEMMA ClientStep ==
  ASSUME ClientInv, [ClientNext]_clientVars
  PROVE  ClientInv'
<1>1. CASE Environment
  <2>1. /\ UNCHANGED <<pending, generation, connState, client, notice, quit>> /\ open' = open
        /\ version' \in Nat
    BY <1>1 DEF Environment, Change, Crash, Restart, liveVars, screenVars,
                wireVars, ClientInv, ClientTypes
  <2> QED
    BY <2>1, Unmoved
<1>2. ASSUME NEW i \in BagToSet(pending), Command(i) PROVE ClientInv'
  BY <1>2, DialKeeps, SubscribeKeeps, FetchKeeps, ReadEventKeeps DEF Command
<1>3. ASSUME NEW i \in BagToSet(pending), Deliver(i) \/ Drop(i) PROVE ClientInv'
  BY <1>3, DeliverKeeps, DropKeeps
<1>4. CASE Keys
  BY <1>4, DismissKeeps, StartKeeps, QuitKeeps DEF Keys
<1>5. CASE UNCHANGED clientVars
  <2>1. UNCHANGED <<pending, generation, connState, client, notice, quit, open, version>>
    BY <1>5 DEF clientVars, liveVars, screenVars, wireVars, daemonVars
  <2> QED
    BY <2>1, Unmoved DEF ClientInv, ClientTypes
<1> QED
  BY <1>1, <1>2, <1>3, <1>4, <1>5 DEF ClientNext, Terminated

\* The items counted are those of the kinds of the invariant.
LEMMA ItemsAre ==
  ASSUME ClientTypes, NEW ks
  PROVE  /\ Items(ks) = DOMAIN pending \cap Kind(ks)
         /\ OfNow(ks) = DOMAIN pending \cap KindNow(ks)
         /\ Count(Items(ks)) = Count(Kind(ks))
         /\ Count(OfNow(ks)) = Count(KindNow(ks))
<1>1. Items(ks) = DOMAIN pending \cap Kind(ks)
  BY DEF Items, BagToSet, Kind, ClientTypes
<1>2. OfNow(ks) = DOMAIN pending \cap KindNow(ks)
  BY <1>1 DEF OfNow, Kind, KindNow
<1>3. ASSUME NEW S PROVE Count(DOMAIN pending \cap S) = Count(S)
  <2>1. DOMAIN pending \cap (DOMAIN pending \cap S) = DOMAIN pending \cap S
    OBVIOUS
  <2> QED
    BY <2>1 DEF Count, BagToSet
<1> QED
  BY <1>1, <1>2, <1>3

\* So it always holds.
LEMMA ClientInvariant ==
  ClientSpec => []ClientInv
BY ClientBegins, ClientStep, PTL DEF ClientSpec

\* One attempt to connect is under way when the dashboard is not connected,
\* and none when it is.
THEOREM ClientOneConnector ==
  ClientSpec => []OneConnector
<1>1. ClientInv => OneConnector
  BY ItemsAre, Counting DEF ClientInv, ClientTypes, Connector, OneConnector
<1> QED
  BY <1>1, ClientInvariant, PTL

\* A connection has one poll of the game, one of the aggregate, and one
\* reader, which is missing only once a report of the loss is on its way.
THEOREM ClientOneChain ==
  ClientSpec => []OneChain
<1>1. ASSUME ClientInv, Running, connState = "connected"
      PROVE  /\ Count(OfNow({"gameTick"})) = 1 /\ Count(OfNow({"aggTick"})) = 1
             /\ Count(OfNow({"reader", "event"})) <= 1
             /\ Count(OfNow({"reader", "event"})) = 1 \/ OfNow({"lost"}) # {}
  <2>1. Bag(pending) /\ ClientTypes
    BY <1>1 DEF ClientInv, ClientTypes
  <2>2. Count(OfNow({"gameTick"})) = 1 /\ Count(OfNow({"aggTick"})) = 1
    BY <1>1, <2>1, ItemsAre, Counting DEF ClientInv, Chains
  <2>3. CASE Lone(pending, KindNow({"reader", "event"}))
    BY <2>1, <2>2, <2>3, ItemsAre, Counting
  <2>4. CASE NoneOf(pending, KindNow({"reader", "event"})) /\ ~NoneOf(pending, KindNow({"lost"}))
    <3>1. OfNow({"lost"}) # {}
      BY <2>1, <2>4, ItemsAre DEF NoneOf
    <3>2. Count(OfNow({"reader", "event"})) = 0
      BY <2>1, <2>4, ItemsAre, Counting
    <3> QED
      BY <2>2, <3>1, <3>2
  <2> QED
    BY <1>1, <2>3, <2>4 DEF ClientInv, Chains
<1>2. ClientInv => OneChain
  BY <1>1 DEF OneChain
<1> QED
  BY <1>2, ClientInvariant, PTL

\* The open gRPC clients are the one in use and the one being made.
THEOREM ClientNoLeak ==
  ClientSpec => []NoLeak
<1>1. ClientInv => NoLeak
  BY ItemsAre DEF ClientInv, InUseOpen, NoLeak
<1> QED
  BY <1>1, ClientInvariant, PTL
=============================================================================
