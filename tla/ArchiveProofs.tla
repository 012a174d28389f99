---------------------------- MODULE ArchiveProofs ----------------------------
(* Theorems of Archive and Dashboard, for any number of games, sessions,     *)
(* restarts, failures and refreshes, and any size of a page: what is stored  *)
(* under an ID, and how often; and what is read of it.                       *)
EXTENDS Archive, Dashboard, FiniteSetTheorems, SequenceTheorems, TLAPS

-----------------------------------------------------------------------------
(* The inductive invariant: the logs *)

Entry    == CreateEntry \cup CompleteEntry
Final(s) == log[s][Len(log[s])]

\* t is the last session before s with anything in its log.
LastBefore(t, s) ==
  /\ t \in 1..(s - 1) /\ log[t] # <<>>
  /\ \A u \in (t + 1)..(s - 1) : log[u] = <<>>

\* An entry is in a session its game was logged in, and a CREATE_GAME is on record
\* as one of its game, the first naming it.
Recorded ==
  \A s \in Sessions : \A i \in DOMAIN log[s] :
    /\ s \in places[log[s][i].game]
    /\ log[s][i].kind = "create" =>
         /\ log[s][i].n \in 1..creates
         /\ owner[log[s][i].n] = log[s][i].game
         /\ ~log[s][i].resume => log[s][i].n = log[s][i].game

NotBegun == \A s \in Sessions : s > sessions => log[s] = <<>>

\* Within a session the end of a game, and its return, come after a CREATE_GAME of it.
GoesOn ==
  \A s \in Sessions : \A i \in DOMAIN log[s] :
    i > 1 /\ (log[s][i].kind = "complete" \/ log[s][i].resume) =>
      log[s][i - 1].kind = "create" /\ log[s][i - 1].game = log[s][i].game

\* The game a session was left in is the only one the next can return to.
LeftIn(g, s) ==
  /\ \E t \in 1..(s - 1) : t \in places[g]
  /\ \A t \in Sessions : LastBefore(t, s) => Final(t).game = g

GoesOnAfter ==
  \A s \in Sessions : log[s] # <<>> =>
    log[s][1].kind = "create" /\ (log[s][1].resume => LeftIn(log[s][1].game, s))

\* Where the client is: a game being played is the last of the logs.
ClientAt ==
  playing # NoGame =>
    IF log[sessions] # <<>>
    THEN Final(sessions).kind = "create" /\ Final(sessions).game = playing
    ELSE away /\ LeftIn(playing, sessions)

\* Times only grow, from the opening of a session through its entries.
InOrder ==
  /\ \A s \in Sessions : s <= sessions => opened[s] <= time
  /\ \A s \in Sessions : \A i \in DOMAIN log[s] :
       /\ log[s][i].time <= time
       /\ \A t \in 1..s : opened[t] <= log[s][i].time
       /\ \A j \in 1..(i - 1) : log[s][j].time <= log[s][i].time
       /\ \A t \in 1..(s - 1) : \A j \in DOMAIN log[t] : log[t][j].time <= log[s][i].time

\* No two CREATE_GAMEs have one number.
Numbered ==
  \A s, t \in Sessions : \A i \in DOMAIN log[s] : \A j \in DOMAIN log[t] :
    log[s][i].kind = "create" /\ log[t][j].kind = "create" /\ log[s][i].n = log[t][j].n
      => log[s][i].time = log[t][j].time

LogInv == Numbered /\ Recorded /\ NotBegun /\ GoesOn /\ GoesOnAfter /\ ClientAt /\ InOrder

-----------------------------------------------------------------------------
(* The inductive invariant: the process and the store *)

Down == mode = "down" => gameID = NoID /\ ~running /\ step = "idle"

Saving == step # "idle" => gameID # NoID /\ current \in Games

\* The parser's clock is never ahead of an entry it may still read.
Clock == 2 * refDay + lastHalf
Behind ==
  /\ Clock <= time
  /\ \A s \in Sessions : \A i \in DOMAIN log[s] :
       s > session \/ (s = session /\ i > pos) => Clock <= log[s][i].time

\* The entry read last, if it is in the session being read.
AtEntry ==
  Up /\ pos > 0 =>
    /\ current = log[session][pos].game
    /\ running => log[session][pos].kind = "create"

\* The record goes on from the session before.
FromBefore ==
  Up /\ pos = 0 /\ running /\ ~skipped =>
    \E t \in Sessions : LastBefore(t, session) /\ Final(t).game = current

\* The ID of the record is a CREATE_GAME of the game it is of.
OwnID == ~skipped /\ gameID # NoID => gameID.n \in 1..creates /\ owner[gameID.n] = current

StoredOwn ==
  ~skipped => \A e \in entries : e[2].n \in 1..creates /\ owner[e[2].n] = e[1]

\* id is the day and number of the first CREATE_GAME of g.
FirstID(id, g) ==
  /\ id.n = g
  /\ \E s \in Sessions : \E i \in DOMAIN log[s] :
       log[s][i].kind = "create" /\ log[s][i].n = g /\ id.day = Day(log[s][i].time)

\* The record of a whole game has that ID, and is open from its start to its end.
WholeRead ==
  Up /\ pos > 0 /\ Whole(log[session][pos].game) =>
    /\ FirstID(gameID, log[session][pos].game)
    /\ log[session][pos].kind = "create" => running
WholeSaving == step \in {"check", "save"} /\ Whole(current) => FirstID(gameID, current)
WholeStored == \A e \in entries : Whole(e[1]) => FirstID(e[2], e[1])

ReaderInv ==
  /\ Down /\ Saving /\ Behind /\ AtEntry /\ FromBefore /\ OwnID /\ StoredOwn
  /\ WholeRead /\ WholeSaving /\ WholeStored

ArchiveInv == TypeOK /\ LogInv /\ ReaderInv /\ ListMatchesStates

-----------------------------------------------------------------------------
(* Lemmas about days, entries and sets *)

LEMMA Halves ==
  ASSUME NEW t \in Nat
  PROVE  /\ Day(t) \in Nat /\ Half(t) \in {0, 1} /\ t = 2 * Day(t) + Half(t)
         /\ \A u \in Nat : t <= u => Day(t) <= Day(u)
BY DEF Day, Half

LEMMA EntryFields ==
  ASSUME NEW e \in Entry
  PROVE  /\ e.kind \in {"create", "complete"} /\ e.game \in Games /\ e.time \in Times
         /\ e.kind = "create" => e.n \in Creates
BY DEF Entry, CreateEntry, CompleteEntry

LEMMA Bounds ==
  /\ MaxCreates \in Nat /\ MaxSessions \in Nat \ {0} /\ MaxTime \in Nat
  /\ MaxRestarts \in Nat /\ MaxFailures \in Nat
BY BoundsAssumption

\* A set of at most one element, and a smaller set, has two only if they are equal.
LEMMA AtMostOne ==
  ASSUME NEW S, IsFiniteSet(S), Cardinality(S) <= 1, NEW x \in S, NEW y \in S
  PROVE  x = y
<1> SUFFICES ASSUME x # y PROVE FALSE
  OBVIOUS
<1>1. IsFiniteSet({x}) /\ Cardinality({x}) = 1
  BY FS_Singleton
<1>2. Cardinality({x} \cup {y}) = 2 /\ IsFiniteSet({x} \cup {y})
  BY <1>1, FS_AddElement
<1>3. {x} \cup {y} \in SUBSET S
  OBVIOUS
<1>4. Cardinality({x} \cup {y}) <= Cardinality(S)
  BY <1>3, FS_Subset
<1>5. Cardinality(S) \in Nat
  BY FS_CardinalityType
<1> QED
  BY <1>2, <1>4, <1>5

LEMMA OneOrNone ==
  ASSUME NEW S, \A x, y \in S : x = y
  PROVE  Cardinality(S) <= 1
<1>1. CASE S = {}
  BY <1>1, FS_EmptySet
<1>2. CASE S # {}
  <2>1. PICK x : x \in S
    BY <1>2
  <2>2. S = {x}
    BY <2>1
  <2> QED
    BY <2>2, FS_Singleton
<1> QED
  BY <1>1, <1>2

LEMMA FinitePlaces ==
  ASSUME TypeOK, NEW g \in Games
  PROVE  IsFiniteSet(places[g])
<1>1. IsFiniteSet(Sessions)
  BY Bounds, FS_Interval DEF Sessions
<1>2. places[g] \in SUBSET Sessions
  BY DEF TypeOK
<1> QED
  BY <1>1, <1>2, FS_Subset

\* A game logged in two sessions is not whole.
LEMMA WholeOnce ==
  ASSUME TypeOK, NEW g \in Games, Whole(g), NEW s \in places[g], NEW t \in places[g]
  PROVE  s = t
BY FinitePlaces, AtMostOne DEF Whole

\* A game once not whole stays so.
LEMMA WholeBefore ==
  ASSUME TypeOK, TypeOK', NEW g \in Games, places[g] \subseteq places'[g],
         silent \cup misdated \subseteq silent' \cup misdated', Whole(g)'
  PROVE  Whole(g)
<1>1. IsFiniteSet(places'[g])
  <2>1. IsFiniteSet(Sessions)
    BY Bounds, FS_Interval DEF Sessions
  <2>2. places'[g] \in SUBSET Sessions
    BY DEF TypeOK
  <2> QED
    BY <2>1, <2>2, FS_Subset
<1>2. Cardinality(places[g]) <= Cardinality(places'[g])
  BY <1>1, FS_Subset
<1>3. Cardinality(places[g]) \in Nat /\ Cardinality(places'[g]) \in Nat
  BY <1>1, FinitePlaces, FS_CardinalityType
<1>4. Cardinality(places'[g]) <= 1 /\ g \notin silent' \cup misdated'
  BY DEF Whole
<1> QED
  BY <1>2, <1>3, <1>4 DEF Whole

-----------------------------------------------------------------------------
(* The client keeps the logs in order *)

\* What Write does.
LEMMA Writes ==
  ASSUME TypeOK, NEW e \in Entry, Write(e)
  PROVE  /\ log' \in [Sessions -> Seq(Entry)]
         /\ \A s \in Sessions : s # sessions => log'[s] = log[s]
         /\ DOMAIN log[sessions] = 1..Len(log[sessions])
         /\ Len(log[sessions]) \in Nat
         /\ Len(log'[sessions]) = Len(log[sessions]) + 1
         /\ DOMAIN log'[sessions] = 1..(Len(log[sessions]) + 1)
         /\ \A i \in DOMAIN log[sessions] : log'[sessions][i] = log[sessions][i]
         /\ log'[sessions][Len(log[sessions]) + 1] = e
         /\ log'[sessions] # <<>>
         /\ Final(sessions)' = e \/ sessions' # sessions
<1>1. sessions \in Sessions /\ log[sessions] \in Seq(Entry)
  BY DEF TypeOK, Entry
<1>2. log' = [log EXCEPT ![sessions] = Append(log[sessions], e)]
  BY DEF Write
<1>3. log'[sessions] = Append(log[sessions], e)
  BY <1>1, <1>2 DEF TypeOK
<1>4. /\ Append(log[sessions], e) \in Seq(Entry)
      /\ Len(Append(log[sessions], e)) = Len(log[sessions]) + 1
      /\ Append(log[sessions], e)[Len(log[sessions]) + 1] = e
      /\ \A i \in 1..Len(log[sessions]) : Append(log[sessions], e)[i] = log[sessions][i]
      /\ Append(log[sessions], e) # <<>>
  BY <1>1, AppendProperties
<1>5. DOMAIN log[sessions] = 1..Len(log[sessions]) /\ Len(log[sessions]) \in Nat
  BY <1>1, LenProperties
<1>6. DOMAIN log'[sessions] = 1..(Len(log[sessions]) + 1)
  BY <1>3, <1>4, LenProperties
<1>7. log' \in [Sessions -> Seq(Entry)] /\ \A s \in Sessions : s # sessions => log'[s] = log[s]
  BY <1>1, <1>2, <1>3, <1>4 DEF TypeOK, Entry
<1> QED
  BY <1>3, <1>4, <1>5, <1>6, <1>7 DEF Final

\* An entry that is the next of the game being played, or the first of a new one.
Follows(e) ==
  /\ e.time = time
  /\ e.kind = "complete" \/ e.resume => playing = e.game /\ playing # NoGame
  /\ e.kind = "complete" => ~away /\ sessions \in places[e.game]
  /\ e.kind = "create" => /\ e.n \in (creates + 1)..creates' /\ owner'[e.n] = e.game
                          /\ ~e.resume => e.n = e.game

\* Other than by its new entry, the record of the client's games only grows.
Keeps ==
  /\ UNCHANGED <<sessions, opened, time>>
  /\ creates' \in creates..MaxCreates
  /\ \A n \in 1..creates : owner'[n] = owner[n]
  /\ \A g \in Games : places[g] \subseteq places'[g]

LEMMA LeftInKept ==
  ASSUME TypeOK, NEW e \in Entry, Write(e), Keeps,
         NEW g \in Games, NEW s \in Sessions, s <= sessions, LeftIn(g, s)
  PROVE  LeftIn(g, s)'
<1> USE Bounds DEF Sessions
<1>1. \A t \in 1..(s - 1) : t \in Sessions /\ t # sessions /\ log'[t] = log[t]
  BY Writes DEF TypeOK
<1>2. \A t \in Sessions : LastBefore(t, s)' => LastBefore(t, s) /\ Final(t)' = Final(t)
  BY <1>1 DEF LastBefore, Final
<1>3. \E t \in 1..(s - 1) : t \in places'[g]
  BY DEF LeftIn, Keeps
<1> QED
  BY <1>2, <1>3 DEF LeftIn

LEMMA WriteStep ==
  ASSUME TypeOK, LogInv, NEW e \in Entry, Write(e), Follows(e), Keeps,
         sessions \in places'[e.game],
         playing' = NoGame \/ (e.kind = "create" /\ playing' = e.game)
  PROVE  LogInv'
<1> DEFINE n == Len(log[sessions])
<1> USE Bounds DEF Sessions
<1>1. /\ sessions \in Sessions /\ sessions' = sessions /\ creates \in Nat
      /\ creates' \in Nat /\ creates <= creates' /\ time' = time /\ time \in Nat
      /\ opened' = opened
  BY DEF TypeOK, Keeps, Times
<1>2. \A s \in Sessions : log[s] \in Seq(Entry) /\ Len(log[s]) \in Nat
                          /\ DOMAIN log[s] = 1..Len(log[s])
  BY LenProperties DEF TypeOK, Entry
<1>3. \A s \in Sessions, i \in Nat : i \in DOMAIN log[s] => log[s][i] \in Entry
  BY <1>2, ElementOfSeq
<1>4. /\ \A s \in Sessions : s # sessions => log'[s] = log[s]
      /\ DOMAIN log'[sessions] = 1..(n + 1) /\ Len(log'[sessions]) = n + 1
      /\ \A i \in 1..n : log'[sessions][i] = log[sessions][i]
      /\ log'[sessions][n + 1] = e
  BY Writes
\* An entry is an old one or the new one.
<1>5. \A s \in Sessions, i \in Nat : i \in DOMAIN log'[s] =>
        \/ i \in DOMAIN log[s] /\ log'[s][i] = log[s][i]
        \/ s = sessions /\ i = n + 1 /\ log'[s][i] = e
  BY <1>1, <1>2, <1>4
<1>6. \A s \in Sessions : \A i \in DOMAIN log'[s] : i \in Nat
  BY <1>2, <1>4
<1>7. e.kind \in {"create", "complete"} /\ e.game \in Games
  BY EntryFields
<1>a. Numbered'
  <2>1. \A s \in Sessions : \A i \in DOMAIN log[s] : log[s][i].kind = "create" =>
           log[s][i].n \in 1..creates
    BY DEF LogInv, Recorded
  <2>2. e.kind = "create" => e.n \in Nat /\ e.n > creates
    BY <1>1 DEF Follows
  <2> SUFFICES ASSUME NEW s \in Sessions, NEW t \in Sessions,
                      NEW i \in DOMAIN log'[s], NEW j \in DOMAIN log'[t],
                      log'[s][i].kind = "create", log'[t][j].kind = "create",
                      log'[s][i].n = log'[t][j].n
               PROVE  log'[s][i].time = log'[t][j].time
    BY DEF Numbered
  <2>3. \/ i \in DOMAIN log[s] /\ log'[s][i] = log[s][i]
        \/ log'[s][i] = e
    BY <1>5, <1>6
  <2>4. \/ j \in DOMAIN log[t] /\ log'[t][j] = log[t][j]
        \/ log'[t][j] = e
    BY <1>5, <1>6
  <2>5. CASE i \in DOMAIN log[s] /\ log'[s][i] = log[s][i]
             /\ j \in DOMAIN log[t] /\ log'[t][j] = log[t][j]
    BY <2>5 DEF LogInv, Numbered
  <2>6. CASE log'[s][i] = e /\ log'[t][j] = e
    BY <2>6
  <2> QED
    BY <1>1, <2>1, <2>2, <2>3, <2>4, <2>5, <2>6
<1>b. Recorded'
  <2> SUFFICES ASSUME NEW s \in Sessions, NEW i \in DOMAIN log'[s]
               PROVE  /\ s \in places'[log'[s][i].game]
                      /\ log'[s][i].kind = "create" =>
                           /\ log'[s][i].n \in 1..creates'
                           /\ owner'[log'[s][i].n] = log'[s][i].game
                           /\ ~log'[s][i].resume => log'[s][i].n = log'[s][i].game
    BY DEF Recorded
  <2>1. CASE i \in DOMAIN log[s] /\ log'[s][i] = log[s][i]
    <3>1. log[s][i].game \in Games
      BY <2>1, <1>3, <1>6, EntryFields
    <3>2. /\ s \in places[log[s][i].game]
          /\ log[s][i].kind = "create" =>
               /\ log[s][i].n \in 1..creates
               /\ owner[log[s][i].n] = log[s][i].game
               /\ ~log[s][i].resume => log[s][i].n = log[s][i].game
      BY <2>1 DEF LogInv, Recorded
    <3>3. s \in places'[log[s][i].game]
      BY <3>1, <3>2 DEF Keeps
    <3>4. ASSUME log[s][i].kind = "create"
          PROVE  log[s][i].n \in 1..creates' /\ owner'[log[s][i].n] = log[s][i].game
      BY <3>2, <3>4, <1>1 DEF Keeps
    <3> QED
      BY <2>1, <3>2, <3>3, <3>4
  <2>2. CASE s = sessions /\ log'[s][i] = e
    BY <2>2, <1>1 DEF Follows
  <2> QED
    BY <2>1, <2>2, <1>5, <1>6
<1>c. NotBegun'
  BY <1>1, <1>4 DEF LogInv, NotBegun
<1>d. ClientAt => (e.kind = "complete" \/ e.resume =>
        (n > 0 => Final(sessions).kind = "create" /\ Final(sessions).game = e.game)
        /\ (n = 0 => e.kind = "create" /\ LeftIn(e.game, sessions)))
  <2> SUFFICES ASSUME ClientAt, e.kind = "complete" \/ e.resume
               PROVE  (n > 0 => Final(sessions).kind = "create" /\ Final(sessions).game = e.game)
                      /\ (n = 0 => e.kind = "create" /\ LeftIn(e.game, sessions))
    OBVIOUS
  <2>1. n > 0 <=> log[sessions] # <<>>
    BY <1>1, <1>2, EmptySeq
  <2>2. playing = e.game /\ playing # NoGame /\ (e.kind = "complete" => ~away)
    BY DEF Follows
  <2>3. CASE log[sessions] # <<>>
    BY <2>1, <2>2, <2>3, <1>1, <1>2 DEF ClientAt
  <2>4. CASE log[sessions] = <<>>
    BY <2>1, <2>2, <2>4, <1>1, <1>2, <1>7 DEF ClientAt
  <2> QED
    BY <2>3, <2>4
<1>e. GoesOn'
  <2> SUFFICES ASSUME NEW s \in Sessions, NEW i \in DOMAIN log'[s], i > 1,
                      log'[s][i].kind = "complete" \/ log'[s][i].resume
               PROVE  log'[s][i - 1].kind = "create" /\ log'[s][i - 1].game = log'[s][i].game
    BY DEF GoesOn
  <2>1. CASE i \in DOMAIN log[s] /\ log'[s][i] = log[s][i]
    <3>1. i - 1 \in DOMAIN log[s] /\ log'[s][i - 1] = log[s][i - 1]
      <4>1. i \in 1..Len(log[s]) /\ i - 1 \in 1..Len(log[s])
        BY <2>1, <1>2
      <4> QED
        BY <4>1, <1>1, <1>2, <1>4
    <3> QED
      BY <2>1, <3>1 DEF LogInv, GoesOn
  <2>2. CASE s = sessions /\ i = n + 1 /\ log'[s][i] = e
    <3>1. n > 0 /\ log'[s][i - 1] = Final(sessions)
      BY <2>2, <1>1, <1>2, <1>4 DEF Final
    <3> QED
      BY <2>2, <3>1, <1>d DEF LogInv
  <2> QED
    BY <2>1, <2>2, <1>5, <1>6
<1>f. GoesOnAfter'
  <2> SUFFICES ASSUME NEW s \in Sessions, log'[s] # <<>>
               PROVE  (/\ log[s][1].kind = "create"
                       /\ log[s][1].resume => LeftIn(log[s][1].game, s))'
    BY DEF GoesOnAfter
  <2>1. CASE log[s] # <<>>
    <3>1. s <= sessions
      BY <2>1, <1>1 DEF LogInv, NotBegun
    <3>2. 1 \in DOMAIN log[s]
      BY <2>1, <1>2, EmptySeq
    <3>3. log'[s][1] = log[s][1] /\ log[s][1].game \in Games
      BY <3>2, <1>2, <1>3, <1>4, EntryFields
    <3>4. log[s][1].kind = "create" /\ (log[s][1].resume => LeftIn(log[s][1].game, s))
      BY <2>1 DEF LogInv, GoesOnAfter
    <3>5. PICK g \in Games : g = log[s][1].game
      BY <3>3
    <3>6. log[s][1].resume => LeftIn(g, s)'
      BY <3>1, <3>4, <3>5, LeftInKept
    <3> QED
      BY <3>3, <3>4, <3>5, <3>6 DEF LeftIn
  <2>2. CASE log[s] = <<>>
    <3>1. s = sessions /\ n = 0
      BY <2>2, <1>4, EmptySeq
    <3>2. log'[s][1] = e
      BY <3>1, <1>4
    <3>3. PICK g \in Games : g = e.game
      BY <1>7
    <3>4. e.resume => e.kind = "create" /\ LeftIn(g, sessions)
      BY <3>1, <3>3, <1>d DEF LogInv
    <3>5. e.kind = "create"
      BY <3>1, <1>7, <1>d DEF LogInv
    <3>6. e.resume => LeftIn(g, s)'
      BY <3>1, <3>4, <1>1, LeftInKept
    <3> QED
      BY <3>2, <3>3, <3>5, <3>6 DEF LeftIn
  <2> QED
    BY <2>1, <2>2
<1>g. ClientAt'
  <2>1. log'[sessions] # <<>> /\ Final(sessions)' = e
    BY <1>1, <1>4, Writes
  <2> QED
    BY <1>1, <2>1 DEF ClientAt
<1>h. InOrder'
  <2>1. \A s \in Sessions : s <= sessions => opened[s] <= time
    BY DEF LogInv, InOrder
  <2>2. \A s \in Sessions : \A i \in DOMAIN log[s] : log[s][i].time <= time
    BY DEF LogInv, InOrder
  <2>3. e.time = time
    BY DEF Follows
  <2> SUFFICES ASSUME NEW s \in Sessions, NEW i \in DOMAIN log'[s]
               PROVE  /\ log'[s][i].time <= time
                      /\ \A t \in 1..s : opened[t] <= log'[s][i].time
                      /\ \A j \in 1..(i - 1) : log'[s][j].time <= log'[s][i].time
                      /\ \A t \in 1..(s - 1) : \A j \in DOMAIN log'[t] :
                           log'[t][j].time <= log'[s][i].time
    BY <1>1, <2>1 DEF InOrder
  <2>4. CASE i \in DOMAIN log[s] /\ log'[s][i] = log[s][i]
    <3>1. \A t \in 1..(s - 1) : log'[t] = log[t]
      <4>1. s <= sessions
        BY <1>1, <1>2, <2>4, EmptySeq DEF LogInv, NotBegun
      <4> QED
        BY <4>1, <1>1, <1>4
    <3>2. \A j \in 1..(i - 1) : log'[s][j] = log[s][j]
      BY <1>2, <1>4, <2>4
    <3> QED
      BY <2>4, <3>1, <3>2 DEF LogInv, InOrder
  <2>5. CASE s = sessions /\ i = n + 1 /\ log'[s][i] = e
    <3>1. \A j \in 1..(i - 1) : log'[s][j].time <= time
      BY <1>2, <1>4, <2>2, <2>5
    <3>2. \A t \in 1..(s - 1) : \A j \in DOMAIN log'[t] : log'[t][j].time <= time
      BY <1>1, <1>4, <2>2, <2>5
    <3>3. \A t \in 1..s : opened[t] <= time
      BY <1>1, <2>1, <2>5
    <3> QED
      BY <2>3, <2>5, <3>1, <3>2, <3>3, <1>1
  <2> QED
    BY <2>4, <2>5, <1>5, <1>6
<1> QED
  BY <1>a, <1>b, <1>c, <1>e, <1>f, <1>g, <1>h DEF LogInv

\* The flags among the types, which are proved apart from the others.
Flags == away \in BOOLEAN /\ running \in BOOLEAN /\ skipped \in BOOLEAN

\* What an entry adds leaves every variable of its type.
LEMMA WriteTypes ==
  ASSUME TypeOK, Flags', NEW e \in Entry, Write(e), Keeps,
         owner' \in [Creates -> Games \cup {NoGame}], places' \in [Games -> SUBSET Sessions],
         playing' \in Games \cup {NoGame}, UNCHANGED daemonVars
  PROVE  TypeOK'
<1> USE Bounds DEF Sessions
<1>1. log' \in [Sessions -> Seq(CreateEntry \cup CompleteEntry)]
  BY Writes DEF Entry
<1>2. pos' \in 0..Len(log'[session'])
  <2>1. session \in Sessions /\ log[session] \in Seq(Entry) /\ pos \in 0..Len(log[session])
    BY DEF TypeOK, Entry
  <2>2. Len(log[session]) \in Nat
    BY <2>1, LenProperties
  <2>3. Len(log'[session]) \in Nat /\ Len(log[session]) <= Len(log'[session])
    <3>1. /\ session # sessions => log'[session] = log[session]
          /\ Len(log[sessions]) \in Nat /\ Len(log'[sessions]) = Len(log[sessions]) + 1
      BY <2>1, Writes, Zenon
    <3>2. CASE session = sessions
      BY <3>1, <3>2
    <3>3. CASE session # sessions
      BY <2>2, <3>1, <3>3
    <3> QED
      BY <3>2, <3>3
  <2> QED
    BY <2>1, <2>2, <2>3 DEF daemonVars, tailVars
<1>3. /\ UNCHANGED <<sessions, opened, time>>
      /\ creates' \in 0..MaxCreates
  BY DEF TypeOK, Keeps
<1>4. UNCHANGED <<mode, session, pos, refDay, lastHalf, restarts, gameID, step, failures>>
      /\ UNCHANGED <<list, states, turns, current, entries, unsaved, silent, misdated>>
  BY DEF daemonVars, tailVars, storeVars, pastVars
<1>5. /\ sessions' \in Sessions /\ opened' \in [Sessions -> Times] /\ time' \in Times
      /\ mode' \in {"daemon", "reparse", "down"} /\ session' \in 1..sessions'
      /\ refDay' \in Days /\ lastHalf' \in {0, 1} /\ gameID' \in IDs \cup {NoID}
      /\ step' \in {"idle", "check", "save", "turns"}
      /\ restarts' \in 0..MaxRestarts /\ failures' \in 0..MaxFailures
  BY <1>3, <1>4 DEF TypeOK
<1>6. /\ list' \in Seq(IDs) /\ states' \subseteq IDs /\ turns' \subseteq IDs
      /\ current' \in Games \cup {NoGame} /\ entries' \subseteq Games \X IDs
      /\ unsaved' \subseteq Games /\ silent' \subseteq Games \cup {NoGame}
      /\ misdated' \subseteq Games
  BY <1>4 DEF TypeOK
<1> QED
  BY <1>1, <1>2, <1>3, <1>5, <1>6 DEF TypeOK, Flags

LEMMA CreateStep ==
  ASSUME TypeOK, LogInv, NewGame \/ Rejoin PROVE TypeOK' /\ LogInv'
<1> USE Bounds DEF Sessions
<1>1. PICK g \in Games, resume \in BOOLEAN :
        /\ Create(g, resume)
        /\ ~resume => g = creates + 1
        /\ resume => playing = g /\ playing # NoGame
  <2>1. CASE NewGame
    <3>1. Create(creates + 1, FALSE)
      BY <2>1 DEF NewGame
    <3>2. creates + 1 \in Games
      BY <3>1 DEF Create, Games, Creates, TypeOK
    <3> QED
      BY <3>1, <3>2
  <2>2. CASE Rejoin
    <3>1. Create(playing, TRUE) /\ playing # NoGame /\ playing \in Games
      BY <2>2 DEF Rejoin, TypeOK
    <3> QED
      BY <3>1
  <2> QED
    BY <2>1, <2>2
<1> DEFINE e == [kind |-> "create", n |-> creates + 1, game |-> g, resume |-> resume,
                 time |-> time]
<1>2. creates' = creates + 1 /\ creates' \in Creates /\ creates \in Nat
  BY <1>1 DEF Create, TypeOK, Creates
<1>3. e \in Entry
  BY <1>2 DEF Entry, CreateEntry, TypeOK
<1>4. Write(e)
  BY <1>1, <1>2 DEF Create
<1>5. /\ owner' = [owner EXCEPT ![creates + 1] = g]
      /\ places' = [places EXCEPT ![g] = @ \cup {sessions}]
      /\ playing' = g /\ away' = FALSE
      /\ UNCHANGED <<sessions, opened, time, daemonVars>>
  BY <1>1, <1>2 DEF Create
<1>6. sessions \in Sessions /\ owner \in [Creates -> Games \cup {NoGame}]
      /\ places \in [Games -> SUBSET Sessions] /\ creates \in 0..MaxCreates
  BY DEF TypeOK
<1>7. owner' \in [Creates -> Games \cup {NoGame}] /\ owner'[creates + 1] = g
      /\ \A n \in 1..creates : owner'[n] = owner[n]
  BY <1>2, <1>5, <1>6 DEF Creates
<1>8. places' \in [Games -> SUBSET Sessions] /\ sessions \in places'[g]
      /\ \A h \in Games : places[h] \subseteq places'[h]
  BY <1>5, <1>6
<1>9. Keeps
  BY <1>2, <1>5, <1>7, <1>8 DEF Keeps, Creates
<1>a. e.kind = "create" /\ e.game = g /\ e.n = creates + 1 /\ e.time = time
      /\ e.resume = resume
  OBVIOUS
<1>b. Follows(e)
  BY <1>1, <1>2, <1>7, <1>a DEF Follows
<1>c. Flags'
  BY <1>5 DEF Flags, TypeOK, daemonVars, pastVars
<1>d. TypeOK'
  BY <1>3, <1>4, <1>5, <1>7, <1>8, <1>9, <1>c, WriteTypes
<1>e. LogInv'
  BY <1>3, <1>4, <1>5, <1>8, <1>9, <1>a, <1>b, WriteStep
<1> QED
  BY <1>d, <1>e

LEMMA FinishStep ==
  ASSUME TypeOK, LogInv, Finish PROVE TypeOK' /\ LogInv'
<1> USE Bounds DEF Sessions
<1> DEFINE e == [kind |-> "complete", game |-> playing, time |-> time]
<1>1. playing # NoGame /\ ~away /\ Write(e) /\ playing' = NoGame /\ playing \in Games
      /\ UNCHANGED <<sessions, opened, time, creates, away, owner, places, daemonVars>>
  BY DEF Finish, TypeOK
<1>2. e \in Entry
  BY <1>1 DEF Entry, CompleteEntry, TypeOK
<1>3. e.kind = "complete" /\ e.game = playing /\ e.time = time
  OBVIOUS
<1>4. sessions \in places[playing]
  <2>1. log[sessions] # <<>> /\ Final(sessions).game = playing
    BY <1>1 DEF LogInv, ClientAt
  <2>2. sessions \in Sessions /\ log[sessions] \in Seq(Entry)
    BY DEF TypeOK, Entry
  <2>3. Len(log[sessions]) \in DOMAIN log[sessions]
    BY <2>1, <2>2, EmptySeq, LenProperties
  <2> QED
    BY <2>1, <2>2, <2>3 DEF LogInv, Recorded, Final
<1>5. Keeps
  BY <1>1 DEF Keeps, TypeOK
<1>6. Follows(e)
  BY <1>1, <1>3, <1>4 DEF Follows
<1>7. Flags'
  BY <1>1 DEF Flags, TypeOK, daemonVars, pastVars
<1>8. owner' \in [Creates -> Games \cup {NoGame}] /\ places' \in [Games -> SUBSET Sessions]
  BY <1>1 DEF TypeOK
<1>9. TypeOK'
  BY <1>1, <1>2, <1>5, <1>7, <1>8, WriteTypes
<1>a. LogInv'
  BY <1>1, <1>2, <1>3, <1>4, <1>5, <1>6, WriteStep
<1> QED
  BY <1>9, <1>a

\* What a step that leaves the logs and the record of games alone keeps of them.
LEMMA LogsAlone ==
  ASSUME LogInv, UNCHANGED <<log, creates, owner, places>>
  PROVE  Numbered' /\ Recorded' /\ GoesOn' /\ GoesOnAfter'
BY DEF LogInv, Numbered, Recorded, GoesOn, GoesOnAfter, LeftIn, LastBefore, Final

LEMMA OtherClientStep ==
  ASSUME TypeOK, LogInv, Leave \/ NewSession \/ Tick PROVE TypeOK' /\ LogInv'
<1> USE Bounds DEF Sessions
<1>1. UNCHANGED <<log, creates, owner, places, daemonVars>>
  BY DEF Leave, NewSession, Tick
<1>2. Numbered' /\ Recorded' /\ GoesOn' /\ GoesOnAfter'
  BY <1>1, LogsAlone
<1>3. Flags'
  BY <1>1 DEF Flags, TypeOK, daemonVars, pastVars, Leave, NewSession, Tick
<1>4. /\ sessions' \in Sessions /\ opened' \in [Sessions -> Times] /\ time' \in Times
      /\ playing' \in Games \cup {NoGame} /\ sessions <= sessions'
  <2>1. CASE Leave
    BY <2>1 DEF Leave, TypeOK
  <2>2. CASE NewSession
    BY <2>2 DEF NewSession, TypeOK, Times
  <2>3. CASE Tick
    BY <2>3 DEF Tick, TypeOK, Times
  <2> QED
    BY <2>1, <2>2, <2>3
<1>5. TypeOK'
  <2>1. session' \in 1..sessions' /\ pos' \in 0..Len(log'[session'])
    BY <1>1, <1>4 DEF TypeOK, daemonVars, tailVars
  <2>2. UNCHANGED <<mode, refDay, lastHalf, restarts, gameID, step, failures, list, states>>
        /\ UNCHANGED <<turns, current, entries, unsaved, silent, misdated>>
    BY <1>1 DEF daemonVars, tailVars, storeVars, pastVars
  <2>3. /\ log' \in [Sessions -> Seq(CreateEntry \cup CompleteEntry)]
        /\ creates' \in 0..MaxCreates
        /\ mode' \in {"daemon", "reparse", "down"}
        /\ refDay' \in Days /\ lastHalf' \in {0, 1} /\ gameID' \in IDs \cup {NoID}
        /\ step' \in {"idle", "check", "save", "turns"}
        /\ restarts' \in 0..MaxRestarts /\ failures' \in 0..MaxFailures
    BY <1>1, <2>2 DEF TypeOK
  <2>4. /\ list' \in Seq(IDs) /\ states' \subseteq IDs /\ turns' \subseteq IDs
        /\ owner' \in [Creates -> Games \cup {NoGame}]
        /\ places' \in [Games -> SUBSET Sessions]
        /\ current' \in Games \cup {NoGame} /\ entries' \subseteq Games \X IDs
        /\ unsaved' \subseteq Games /\ silent' \subseteq Games \cup {NoGame}
        /\ misdated' \subseteq Games
    BY <1>1, <2>2 DEF TypeOK
  <2> QED
    BY <1>3, <1>4, <2>1, <2>3, <2>4 DEF TypeOK, Flags
<1>6. NotBegun'
  BY <1>1, <1>4 DEF LogInv, NotBegun, TypeOK
<1>7. ClientAt'
  <2>1. CASE NewSession
    <3> SUFFICES ASSUME playing' # NoGame
                 PROVE  (log[sessions] = <<>> /\ away /\ LeftIn(playing, sessions))'
      BY DEF ClientAt
    <3>a. away' = (playing # NoGame) /\ playing' = playing
      BY <2>1 DEF NewSession
    <3>b. away'
      BY <3>a
    <3>1. sessions' = sessions + 1 /\ playing' = playing /\ playing \in Games
          /\ sessions \in Nat /\ sessions' \in Sessions
      BY <2>1, <3>a, <1>4 DEF NewSession, TypeOK
    <3>2. log'[sessions'] = <<>>
      BY <3>1, <1>1, <1>4 DEF LogInv, NotBegun
    <3>3. CASE log[sessions] # <<>>
      <4>1. Final(sessions).game = playing
        BY <3>1, <3>3 DEF LogInv, ClientAt
      <4>2. \A t \in Sessions : LastBefore(t, sessions + 1) => t = sessions
        BY <3>1, <3>3 DEF LastBefore
      <4>3. sessions \in Sessions /\ log[sessions] \in Seq(Entry)
        BY DEF TypeOK, Entry
      <4>4. Len(log[sessions]) \in DOMAIN log[sessions]
        BY <3>3, <4>3, EmptySeq, LenProperties
      <4>5. sessions \in places[playing]
        BY <4>1, <4>3, <4>4 DEF LogInv, Recorded, Final
      <4>6. LeftIn(playing, sessions + 1)
        <5>1. sessions \in 1..(sessions + 1 - 1)
          BY <3>1, <4>3
        <5> QED
          BY <4>1, <4>2, <4>5, <5>1 DEF LeftIn
      <4> QED
        BY <3>b, <3>1, <3>2, <4>6, <1>1 DEF LeftIn, LastBefore, Final
    <3>4. CASE log[sessions] = <<>>
      <4>1. LeftIn(playing, sessions)
        BY <3>1, <3>4 DEF LogInv, ClientAt
      <4>2. \A t \in Sessions : LastBefore(t, sessions + 1) => LastBefore(t, sessions)
        BY <3>1, <3>4 DEF LastBefore
      <4>3. LeftIn(playing, sessions + 1)
        BY <3>1, <4>1, <4>2 DEF LeftIn
      <4> QED
        BY <3>b, <3>1, <3>2, <4>3, <1>1 DEF LeftIn, LastBefore, Final
    <3> QED
      BY <3>3, <3>4
  <2>2. CASE Leave \/ Tick
    <3>1. sessions' = sessions /\ (playing' = NoGame \/ (playing' = playing /\ (away => away')))
      BY <2>2 DEF Leave, Tick
    <3>2. playing' # NoGame =>
            IF log'[sessions'] # <<>>
            THEN Final(sessions)'.kind = "create" /\ Final(sessions)'.game = playing'
            ELSE away' /\ LeftIn(playing, sessions)'
      BY <3>1, <1>1 DEF LogInv, ClientAt, Final, LeftIn, LastBefore
    <3> QED
      BY <3>2 DEF ClientAt
  <2> QED
    BY <2>1, <2>2
<1>8. InOrder'
  <2>1. time <= time' /\ time \in Nat /\ time' \in Nat
    BY <1>4 DEF Leave, NewSession, Tick, TypeOK, Times
  <2>2. \A s \in Sessions : s <= sessions => opened'[s] = opened[s]
    BY DEF Leave, NewSession, Tick, TypeOK
  <2>3. \A s \in Sessions : s <= sessions' => s <= sessions \/ opened'[s] = time
    BY <1>4 DEF Leave, NewSession, Tick, TypeOK
  <2>4. \A s \in Sessions : opened[s] \in Nat
    BY DEF TypeOK, Times
  <2>5. \A s \in Sessions : s <= sessions' => opened'[s] <= time'
    BY <2>1, <2>2, <2>3, <2>4 DEF LogInv, InOrder
  <2>6. \A s \in Sessions : \A i \in DOMAIN log[s] : log[s][i].time \in Nat /\ s <= sessions
    <3> SUFFICES ASSUME NEW s \in Sessions, NEW i \in DOMAIN log[s]
                 PROVE  log[s][i].time \in Nat /\ s <= sessions
      OBVIOUS
    <3>1. log[s] \in Seq(Entry)
      BY DEF TypeOK, Entry
    <3>2. log[s][i] \in Entry /\ log[s] # <<>>
      BY <3>1, EmptySeq, LenProperties, ElementOfSeq
    <3> QED
      BY <3>2, EntryFields DEF LogInv, NotBegun, Times, TypeOK
  <2>7. \A s \in Sessions : \A i \in DOMAIN log[s] :
          /\ log[s][i].time <= time'
          /\ \A t \in 1..s : opened'[t] <= log[s][i].time
    <3> SUFFICES ASSUME NEW s \in Sessions, NEW i \in DOMAIN log[s]
                 PROVE  /\ log[s][i].time <= time'
                        /\ \A t \in 1..s : opened'[t] <= log[s][i].time
      OBVIOUS
    <3>1. log[s][i].time <= time /\ \A t \in 1..s : opened[t] <= log[s][i].time
      BY DEF LogInv, InOrder
    <3>2. log[s][i].time \in Nat /\ s <= sessions /\ sessions \in Sessions
      BY <2>6 DEF TypeOK
    <3>3. \A t \in 1..s : opened'[t] = opened[t]
      BY <3>2, <2>2
    <3> QED
      BY <3>1, <3>2, <3>3, <2>1
  <2> QED
    BY <1>1, <2>5, <2>7 DEF LogInv, InOrder
<1> QED
  BY <1>2, <1>5, <1>6, <1>7, <1>8 DEF LogInv

\* To the process the client's steps only make the logs longer at their end.
Grows ==
  /\ UNCHANGED daemonVars
  /\ sessions <= sessions' /\ time <= time' /\ creates <= creates'
  /\ \A n \in 1..creates : owner'[n] = owner[n]
  /\ \A g \in Games : places[g] \subseteq places'[g]
  /\ \A s \in Sessions : s < sessions => log'[s] = log[s]
  /\ \A s \in Sessions : \A i \in DOMAIN log[s] :
       i \in DOMAIN log'[s] /\ log'[s][i] = log[s][i]
  /\ \A s \in Sessions : \A i \in DOMAIN log'[s] :
       i \in DOMAIN log[s] \/ log'[s][i].time = time

LEMMA ClientGrows ==
  ASSUME TypeOK, Client PROVE Grows
<1> USE Bounds DEF Sessions
<1>0. creates \in Nat /\ sessions \in Nat /\ time \in Nat
  BY DEF TypeOK, Times
<1>1. ASSUME NEW e \in Entry, Write(e), e.time = time, UNCHANGED <<sessions, opened, time>>
      PROVE  /\ \A s \in Sessions : s < sessions => log'[s] = log[s]
             /\ \A s \in Sessions : \A i \in DOMAIN log[s] :
                  i \in DOMAIN log'[s] /\ log'[s][i] = log[s][i]
             /\ \A s \in Sessions : \A i \in DOMAIN log'[s] :
                  i \in DOMAIN log[s] \/ log'[s][i].time = time
  <2>1. \A i \in DOMAIN log[sessions] : i \in DOMAIN log'[sessions]
    BY <1>0, <1>1, Writes
  <2>2. \A i \in DOMAIN log'[sessions] :
          i \in DOMAIN log[sessions] \/ i = Len(log[sessions]) + 1
    BY <1>0, <1>1, Writes
  <2>3. /\ \A s \in Sessions : s # sessions => log'[s] = log[s]
        /\ \A i \in DOMAIN log[sessions] : log'[sessions][i] = log[sessions][i]
        /\ log'[sessions][Len(log[sessions]) + 1] = e
    BY <1>1, Writes
  <2>4. \A s \in Sessions : \A i \in DOMAIN log[s] :
          i \in DOMAIN log'[s] /\ log'[s][i] = log[s][i]
    <3> SUFFICES ASSUME NEW s \in Sessions, NEW i \in DOMAIN log[s]
                 PROVE  i \in DOMAIN log'[s] /\ log'[s][i] = log[s][i]
      OBVIOUS
    <3> QED
      BY <2>1, <2>3
  <2>5. \A s \in Sessions : \A i \in DOMAIN log'[s] :
          i \in DOMAIN log[s] \/ log'[s][i].time = time
    <3> SUFFICES ASSUME NEW s \in Sessions, NEW i \in DOMAIN log'[s]
                 PROVE  i \in DOMAIN log[s] \/ log'[s][i].time = time
      OBVIOUS
    <3> QED
      BY <1>1, <2>2, <2>3
  <2>6. \A s \in Sessions : s < sessions => log'[s] = log[s]
    BY <1>0, <2>3
  <2> QED
    BY <2>4, <2>5, <2>6
<1>2. ASSUME NEW g \in Games, NEW resume \in BOOLEAN, Create(g, resume) PROVE Grows
  <2> DEFINE e == [kind |-> "create", n |-> creates + 1, game |-> g, resume |-> resume,
                   time |-> time]
  <2>1. creates' = creates + 1 /\ creates + 1 \in Creates
    BY <1>0, <1>2 DEF Create, Creates
  <2>2. e \in Entry
    BY <2>1 DEF Entry, CreateEntry, TypeOK
  <2>3. Write(e) /\ e.time = time
    BY <1>2, <2>1 DEF Create
  <2>4. /\ owner' = [owner EXCEPT ![creates + 1] = g]
        /\ places' = [places EXCEPT ![g] = @ \cup {sessions}]
        /\ UNCHANGED <<sessions, opened, time, daemonVars>>
    BY <1>2, <2>1 DEF Create
  <2>5. \A n \in 1..creates : owner'[n] = owner[n]
    BY <2>1, <2>4, <1>0 DEF TypeOK, Creates
  <2>6. \A h \in Games : places[h] \subseteq places'[h]
    BY <2>4 DEF TypeOK
  <2>7. sessions <= sessions' /\ time <= time' /\ creates <= creates'
    BY <2>1, <2>4, <1>0
  <2> QED
    BY <2>2, <2>3, <2>4, <2>5, <2>6, <2>7, <1>1 DEF Grows
<1>3. CASE NewGame
  <2>1. creates + 1 \in Games /\ Create(creates + 1, FALSE)
    BY <1>0, <1>3 DEF NewGame, Create, Games, Creates
  <2> QED
    BY <2>1, <1>2
<1>4. CASE Rejoin
  <2>1. playing \in Games /\ Create(playing, TRUE)
    BY <1>4 DEF Rejoin, TypeOK
  <2> QED
    BY <2>1, <1>2
<1>5. CASE Finish
  <2> DEFINE e == [kind |-> "complete", game |-> playing, time |-> time]
  <2>1. playing \in Games /\ Write(e)
        /\ UNCHANGED <<sessions, opened, time, creates, owner, places, daemonVars>>
    BY <1>5 DEF Finish, TypeOK
  <2>2. e \in Entry /\ e.time = time
    BY <2>1 DEF Entry, CompleteEntry, TypeOK
  <2> QED
    BY <2>1, <2>2, <1>0, <1>1 DEF Grows
<1>6. CASE Leave \/ NewSession \/ Tick
  <2>1. UNCHANGED <<log, creates, owner, places, daemonVars>>
    BY <1>6 DEF Leave, NewSession, Tick
  <2>2. sessions <= sessions' /\ time <= time'
    BY <1>6, <1>0 DEF Leave, NewSession, Tick
  <2> QED
    BY <2>1, <2>2, <1>0 DEF Grows
<1> QED
  BY <1>3, <1>4, <1>5, <1>6 DEF Client

LEMMA FirstIDGrows ==
  ASSUME Grows, NEW id, NEW g, FirstID(id, g)
  PROVE  FirstID(id, g)'
BY DEF FirstID, Grows

LEMMA ClientKeepsReader ==
  ASSUME TypeOK, TypeOK', LogInv, ReaderInv, Grows PROVE ReaderInv'
<1> USE Bounds DEF Sessions, Up
<1>1. /\ UNCHANGED <<mode, session, pos, refDay, lastHalf, gameID, running, step>>
      /\ UNCHANGED <<current, entries, silent, misdated, skipped>>
  BY DEF Grows, daemonVars, tailVars, pastVars
<1>2. session \in Sessions /\ session <= sessions /\ log[session] \in Seq(Entry)
      /\ pos \in Nat /\ (pos > 0 => pos \in DOMAIN log[session])
  <2>1. session \in Sessions /\ session <= sessions
    BY DEF TypeOK
  <2>2. log[session] \in Seq(Entry) /\ pos \in 0..Len(log[session])
    BY <2>1 DEF TypeOK, Entry
  <2> QED
    BY <2>1, <2>2, LenProperties
<1>3. pos > 0 => log'[session][pos] = log[session][pos] /\ log[session][pos].game \in Games
  BY <1>2, ElementOfSeq, LenProperties, EntryFields DEF Grows
<1>4. \A g \in Games : Whole(g)' => Whole(g)
  BY <1>1, WholeBefore DEF Grows
<1>5. creates \in Nat /\ creates' \in Nat /\ creates <= creates'
  BY DEF TypeOK, Grows
<1>a. Down' /\ Saving'
  BY <1>1 DEF ReaderInv, Down, Saving
<1>b. Behind'
  <2>1. Clock' = Clock /\ Clock \in Nat /\ time \in Nat /\ time' \in Nat /\ time <= time'
    BY <1>1, Halves DEF Clock, TypeOK, Times, Days, Grows
  <2>2. Clock <= time
    BY DEF ReaderInv, Behind
  <2> SUFFICES ASSUME NEW s \in Sessions, NEW i \in DOMAIN log'[s],
                      s > session \/ (s = session /\ i > pos)
               PROVE  Clock <= log'[s][i].time
    BY <1>1, <2>1, <2>2 DEF Behind
  <2>3. CASE i \in DOMAIN log[s]
    BY <2>3 DEF ReaderInv, Behind, Grows
  <2>4. CASE log'[s][i].time = time
    BY <2>2, <2>4
  <2> QED
    BY <2>3, <2>4 DEF Grows
<1>c. AtEntry'
  BY <1>1, <1>2, <1>3 DEF ReaderInv, AtEntry
<1>d. FromBefore'
  <2> SUFFICES ASSUME Up, pos = 0, running, ~skipped
               PROVE  \E t \in Sessions : (LastBefore(t, session) /\ Final(t).game = current)'
    BY <1>1 DEF FromBefore
  <2>1. PICK t \in Sessions : LastBefore(t, session) /\ Final(t).game = current
    BY DEF ReaderInv, FromBefore
  <2>2. \A u \in 1..(session - 1) : log'[u] = log[u]
    BY <1>2 DEF Grows, TypeOK
  <2> QED
    BY <2>1, <2>2, <1>1, <1>2 DEF LastBefore, Final
<1>e. OwnID'
  BY <1>1, <1>5 DEF ReaderInv, OwnID, Grows
<1>f. StoredOwn'
  BY <1>1, <1>5 DEF ReaderInv, StoredOwn, Grows
<1>g. WholeRead'
  <2> SUFFICES ASSUME Up, pos > 0, Whole(log[session][pos].game)'
               PROVE  (/\ FirstID(gameID, log[session][pos].game)
                       /\ log[session][pos].kind = "create" => running)'
    BY <1>1 DEF WholeRead
  <2>1. PICK g \in Games : g = log[session][pos].game
    BY <1>3
  <2>2. log'[session'][pos'] = log[session][pos]
    BY <1>1, <1>3
  <2>3. Whole(g)'
    BY <2>1, <2>2 DEF Whole
  <2>4. Whole(g)
    BY <2>3, <1>4
  <2>5. PICK id : id = gameID
    OBVIOUS
  <2>6. FirstID(id, g) /\ (log[session][pos].kind = "create" => running)
    BY <2>1, <2>4, <2>5 DEF ReaderInv, WholeRead
  <2>7. FirstID(id, g)'
    BY <2>6, FirstIDGrows
  <2> QED
    BY <2>1, <2>2, <2>5, <2>6, <2>7, <1>1 DEF FirstID
<1>h. WholeSaving'
  <2> SUFFICES ASSUME step \in {"check", "save"}, Whole(current)'
               PROVE  FirstID(gameID, current)'
    BY <1>1 DEF WholeSaving
  <2>1. PICK g, id : g = current /\ id = gameID
    OBVIOUS
  <2>2. current \in Games
    BY DEF ReaderInv, Saving
  <2>3. Whole(g)'
    BY <2>1, <1>1 DEF Whole
  <2>4. FirstID(id, g)
    BY <2>1, <2>2, <2>3, <1>4 DEF ReaderInv, WholeSaving
  <2>5. FirstID(id, g)'
    BY <2>4, FirstIDGrows
  <2> QED
    BY <2>1, <2>5, <1>1 DEF FirstID
<1>i. WholeStored'
  <2> SUFFICES ASSUME NEW e \in entries, Whole(e[1])'
               PROVE  FirstID(e[2], e[1])'
    BY <1>1 DEF WholeStored
  <2>1. e[1] \in Games
    BY DEF TypeOK
  <2>2. FirstID(e[2], e[1])
    BY <2>1, <1>4 DEF ReaderInv, WholeStored
  <2> QED
    BY <2>2, FirstIDGrows
<1> QED
  BY <1>a, <1>b, <1>c, <1>d, <1>e, <1>f, <1>g, <1>h, <1>i DEF ReaderInv

-----------------------------------------------------------------------------
(* The process reads the logs *)

LEMMA ProcessKeepsLogs ==
  ASSUME LogInv, UNCHANGED clientVars PROVE LogInv'
BY DEF clientVars, LogInv, Numbered, Recorded, NotBegun, GoesOn, GoesOnAfter, ClientAt,
       InOrder, LeftIn, LastBefore, Final

\* The parser's clock goes on to the time of the line, or stays behind it by days.
LEMMA ClockStep ==
  ASSUME TypeOK, NEW t \in Times, Clock <= t
  PROVE  /\ DayOf(t) \in Days /\ Half(t) \in {0, 1}
         /\ 2 * DayOf(t) + Half(t) <= t
<1> USE Bounds DEF Times
<1>1. Day(t) \in Nat /\ Half(t) \in {0, 1} /\ t = 2 * Day(t) + Half(t)
      /\ Day(t) <= Day(MaxTime) /\ Day(MaxTime) \in Nat
  BY Halves
<1>2. refDay \in Nat /\ lastHalf \in {0, 1}
  BY <1>1 DEF TypeOK, Days
<1>3. 2 * refDay + lastHalf <= 2 * Day(t) + Half(t)
  BY <1>1 DEF Clock
<1>4. DayOf(t) \in Nat /\ 2 * DayOf(t) + Half(t) <= 2 * Day(t) + Half(t)
  <2>1. CASE Half(t) < lastHalf
    BY <2>1, <1>1, <1>2, <1>3 DEF DayOf
  <2>2. CASE ~(Half(t) < lastHalf)
    BY <2>2, <1>1, <1>2, <1>3 DEF DayOf
  <2> QED
    BY <2>1, <2>2
<1>5. DayOf(t) <= Day(t)
  BY <1>1, <1>4
<1> QED
  BY <1>1, <1>4, <1>5 DEF Days

\* Where the process is.
LEMMA Reading ==
  ASSUME TypeOK
  PROVE  /\ session \in Sessions /\ session <= sessions /\ sessions \in Sessions
         /\ log[session] \in Seq(Entry) /\ Len(log[session]) \in Nat
         /\ DOMAIN log[session] = 1..Len(log[session])
         /\ pos \in 0..Len(log[session])
<1>1. session \in Sessions /\ session <= sessions /\ sessions \in Sessions
  BY Bounds DEF TypeOK, Sessions
<1>2. log[session] \in Seq(Entry) /\ pos \in 0..Len(log[session])
  BY <1>1 DEF TypeOK, Entry
<1> QED
  BY <1>1, <1>2, LenProperties

\* The next entry, and what the last one has to do with it.
LEMMA NextEntry ==
  ASSUME TypeOK, LogInv, ReaderInv, Up, Unread, NEW e, e = log[session][pos + 1]
  PROVE  /\ e \in Entry /\ pos + 1 \in DOMAIN log[session]
         /\ e.kind = "complete" => pos > 0
         /\ pos > 0 /\ (e.kind = "complete" \/ e.resume) =>
              log[session][pos].kind = "create" /\ log[session][pos].game = e.game
         /\ pos > 0 /\ (e.kind = "complete" \/ e.resume) => current = e.game
         /\ pos = 0 /\ e.resume => LeftIn(e.game, session)
<1>1. pos \in Nat /\ pos + 1 \in DOMAIN log[session] /\ log[session] \in Seq(Entry)
      /\ session \in Sessions
  BY Reading DEF Unread
<1>2. e \in Entry /\ log[session] # <<>>
  BY <1>1, ElementOfSeq, LenProperties, EmptySeq
<1>3. e.kind \in {"create", "complete"}
  BY <1>2, EntryFields
<1>4. pos = 0 => e.kind = "create" /\ (e.resume => LeftIn(e.game, session))
  BY <1>1, <1>2 DEF LogInv, GoesOnAfter
<1>5. pos > 0 /\ (e.kind = "complete" \/ e.resume) =>
        log[session][pos].kind = "create" /\ log[session][pos].game = e.game
  <2> SUFFICES ASSUME pos > 0, e.kind = "complete" \/ e.resume
               PROVE  log[session][pos].kind = "create" /\ log[session][pos].game = e.game
    OBVIOUS
  <2>1. pos + 1 > 1 /\ pos + 1 - 1 = pos
    BY <1>1
  <2>2. log[session][pos + 1].kind = "complete" \/ log[session][pos + 1].resume
    OBVIOUS
  <2>3. log[session][pos + 1 - 1].kind = "create"
        /\ log[session][pos + 1 - 1].game = log[session][pos + 1].game
    BY <1>1, <2>1, <2>2 DEF LogInv, GoesOn
  <2> QED
    BY <2>1, <2>3
<1>6. pos > 0 => current = log[session][pos].game
  BY DEF ReaderInv, AtEntry
<1> QED
  BY <1>1, <1>2, <1>3, <1>4, <1>5, <1>6

LEMMA ReadStep ==
  ASSUME ArchiveInv, Read PROVE ArchiveInv'
<1> USE DEF ArchiveInv
<1> DEFINE e == log[session][pos + 1]
<1>1. /\ Up /\ step = "idle" /\ Unread /\ pos' = pos + 1
      /\ IF e.kind = "create" THEN OnCreate(e) ELSE OnComplete
      /\ current' = e.game
      /\ refDay' = DayOf(e.time) /\ lastHalf' = Half(e.time)
      /\ UNCHANGED <<clientVars, mode, session, restarts, failures, storeVars, entries,
                     unsaved, silent, skipped>>
  BY DEF Read
<1>2. /\ UNCHANGED <<log, sessions, opened, time, creates, playing, away, owner, places>>
      /\ UNCHANGED <<mode, session, restarts, failures, list, states, turns, entries>>
      /\ UNCHANGED <<unsaved, silent, skipped>>
  BY <1>1 DEF clientVars, storeVars
<1>3. /\ e \in Entry /\ pos + 1 \in DOMAIN log[session]
      /\ e.kind = "complete" => pos > 0
      /\ pos > 0 /\ (e.kind = "complete" \/ e.resume) =>
           log[session][pos].kind = "create" /\ log[session][pos].game = e.game
      /\ pos > 0 /\ (e.kind = "complete" \/ e.resume) => current = e.game
      /\ pos = 0 /\ e.resume => LeftIn(e.game, session)
  BY <1>1, NextEntry
<1>4. /\ e.kind \in {"create", "complete"} /\ e.game \in Games /\ e.time \in Times
      /\ e.kind = "create" => e.n \in Creates
  BY <1>3, EntryFields
<1>5. session \in Sessions /\ pos \in Nat /\ DOMAIN log[session] = 1..Len(log[session])
      /\ Len(log[session]) \in Nat
  BY Reading
<1>6. /\ session \in places[e.game]
      /\ e.kind = "create" => /\ e.n \in 1..creates /\ owner[e.n] = e.game
                              /\ ~e.resume => e.n = e.game
  BY <1>3, <1>5 DEF LogInv, Recorded
<1>7. Clock <= e.time
  BY <1>3, <1>5 DEF ReaderInv, Behind
<1>8. DayOf(e.time) \in Days /\ Half(e.time) \in {0, 1} /\ 2 * DayOf(e.time) + Half(e.time) <= e.time
  BY <1>4, <1>7, ClockStep
<1>9. \/ /\ e.kind = "create" /\ running' = TRUE /\ step' = step
         /\ gameID' = IDAfterCreate(e)
         /\ misdated' = IF DayOf(e.time) = Day(e.time) THEN misdated
                        ELSE misdated \cup {e.game}
      \/ /\ e.kind = "complete" /\ running' = FALSE /\ gameID' = gameID
         /\ step' = IF gameID = NoID THEN "idle" ELSE "check"
         /\ misdated' = misdated
  BY <1>1, <1>4 DEF OnCreate, OnComplete
<1>a. \/ gameID' = gameID /\ (e.kind = "complete" \/ (running /\ e.resume))
      \/ /\ gameID' = [day |-> DayOf(e.time), n |-> e.n] /\ e.kind = "create"
         /\ ~(running /\ e.resume)
  BY <1>9 DEF IDAfterCreate
<1>b. TypeOK'
  <2>1. Flags'
    BY <1>2, <1>9 DEF Flags, TypeOK
  <2>2. gameID' \in IDs \cup {NoID}
    BY <1>a, <1>4, <1>8 DEF TypeOK, IDs
  <2>3. misdated' \subseteq Games /\ step' \in {"idle", "check", "save", "turns"}
    BY <1>1, <1>4, <1>9 DEF TypeOK
  <2>4. pos' \in 0..Len(log'[session'])
    BY <1>1, <1>2, <1>3, <1>5
  <2>5. /\ log' \in [Sessions -> Seq(CreateEntry \cup CompleteEntry)]
        /\ sessions' \in Sessions /\ opened' \in [Sessions -> Times] /\ time' \in Times
        /\ creates' \in 0..MaxCreates
        /\ playing' \in Games \cup {NoGame}
        /\ mode' \in {"daemon", "reparse", "down"} /\ session' \in 1..sessions'
        /\ restarts' \in 0..MaxRestarts /\ failures' \in 0..MaxFailures
    BY <1>2 DEF TypeOK
  <2>6. /\ list' \in Seq(IDs) /\ states' \subseteq IDs /\ turns' \subseteq IDs
        /\ owner' \in [Creates -> Games \cup {NoGame}]
        /\ places' \in [Games -> SUBSET Sessions]
        /\ entries' \subseteq Games \X IDs
        /\ unsaved' \subseteq Games /\ silent' \subseteq Games \cup {NoGame}
    BY <1>2 DEF TypeOK
  <2> QED
    BY <1>1, <1>4, <1>8, <2>1, <2>2, <2>3, <2>4, <2>5, <2>6 DEF TypeOK, Flags
<1>c. LogInv' /\ ListMatchesStates'
  BY <1>1, <1>2, ProcessKeepsLogs DEF ListMatchesStates
<1>d. Down' /\ Saving'
  BY <1>1, <1>2, <1>4, <1>9 DEF Down, Saving, Up
<1>e. Behind'
  <2>1. Clock' <= e.time /\ Clock' \in Nat
    BY <1>1, <1>4, <1>8 DEF Clock, Days, Times
  <2>2. e.time <= time /\ e.time \in Nat /\ time \in Nat
    BY <1>3, <1>4, <1>5 DEF LogInv, InOrder, TypeOK, Times
  <2> SUFFICES ASSUME NEW s \in Sessions, NEW i \in DOMAIN log[s],
                      s > session \/ (s = session /\ i > pos + 1)
               PROVE  Clock' <= log[s][i].time
    BY <1>1, <1>2, <2>1, <2>2, Bounds DEF Behind, Times
  <2>3. log[s] \in Seq(Entry)
    BY DEF TypeOK, Entry
  <2>4. log[s][i].time \in Nat /\ i \in Nat
    BY <2>3, ElementOfSeq, LenProperties, EntryFields DEF Times
  <2>5. e.time <= log[s][i].time
    <3>1. CASE s > session
      <4>1. session \in 1..(s - 1)
        BY <3>1, <1>5, Bounds DEF Sessions
      <4> QED
        BY <4>1, <1>3 DEF LogInv, InOrder
    <3>2. CASE s = session /\ i > pos + 1
      <4>1. pos + 1 \in 1..(i - 1)
        BY <3>2, <2>4, <1>5
      <4> QED
        BY <3>2, <4>1 DEF LogInv, InOrder
    <3> QED
      BY <3>1, <3>2
  <2> QED
    BY <2>1, <2>2, <2>4, <2>5
<1>f. AtEntry' /\ FromBefore'
  <2>1. log'[session'][pos'] = e /\ pos' > 0
    BY <1>1, <1>2, <1>5
  <2> QED
    BY <1>1, <1>9, <2>1 DEF AtEntry, FromBefore
<1>g. OwnID'
  <2> SUFFICES ASSUME ~skipped, gameID' # NoID
               PROVE  gameID'.n \in 1..creates /\ owner[gameID'.n] = e.game
    BY <1>1, <1>2 DEF OwnID
  <2>1. CASE gameID' = gameID /\ (e.kind = "complete" \/ (running /\ e.resume))
    <3>1. current = e.game
      <4>1. CASE pos > 0
        BY <1>3, <2>1, <4>1
      <4>2. CASE pos = 0
        <5>1. e.resume /\ running /\ LeftIn(e.game, session)
          BY <1>3, <2>1, <4>2
        <5>2. PICK t \in Sessions : LastBefore(t, session) /\ Final(t).game = current
          BY <1>1, <4>2, <5>1 DEF ReaderInv, FromBefore
        <5> QED
          BY <5>1, <5>2 DEF LeftIn
      <4> QED
        BY <1>5, <4>1, <4>2
    <3> QED
      BY <2>1, <3>1 DEF ReaderInv, OwnID
  <2>2. CASE gameID' = [day |-> DayOf(e.time), n |-> e.n] /\ e.kind = "create"
    BY <1>6, <2>2
  <2> QED
    BY <1>a, <2>1, <2>2
<1>h. StoredOwn'
  BY <1>2 DEF ReaderInv, StoredOwn
<1>i. \A g \in Games : Whole(g)' => Whole(g)
  <2>1. silent \cup misdated \subseteq silent' \cup misdated'
    BY <1>2, <1>9
  <2> QED
    BY <1>2, <1>b, <2>1, WholeBefore
<1>j. PICK g \in Games : g = e.game
  BY <1>4
<1>k. PICK id : id = gameID'
  OBVIOUS
\* The record of a whole game takes the ID of its first CREATE_GAME and keeps it.
<1>l. ASSUME Whole(g)'
      PROVE  FirstID(id, g)
  <2>1. Whole(g) /\ g \notin misdated'
    BY <1>i, <1>l DEF Whole
  <2>2. CASE e.kind = "complete" \/ e.resume
    <3>1. pos > 0
      <4> SUFFICES ASSUME pos = 0 PROVE FALSE
        BY <1>5
      <4>1. LeftIn(g, session)
        BY <2>2, <1>3, <1>j
      <4>2. PICK t \in 1..(session - 1) : t \in places[g]
        BY <4>1 DEF LeftIn
      <4>3. session \in places[g] /\ session \in Nat
        BY <1>5, <1>6, <1>j DEF Sessions
      <4> QED
        BY <2>1, <4>2, <4>3, WholeOnce
    <3>2. log[session][pos].kind = "create" /\ log[session][pos].game = g
      BY <2>2, <3>1, <1>3, <1>j
    <3>3. FirstID(gameID, g) /\ running
      BY <1>1, <2>1, <3>1, <3>2 DEF ReaderInv, WholeRead
    <3>4. gameID' = gameID
      BY <2>2, <3>3, <1>9 DEF IDAfterCreate
    <3> QED
      BY <3>3, <3>4, <1>k
  <2>3. CASE e.kind = "create" /\ ~e.resume
    <3>1. gameID' = [day |-> DayOf(e.time), n |-> e.n] /\ e.n = g
      BY <2>3, <1>6, <1>a, <1>j
    <3>2. DayOf(e.time) = Day(e.time)
      BY <2>1, <2>3, <1>9, <1>j
    <3>3. id.n = g /\ id.day = Day(log[session][pos + 1].time)
      BY <3>1, <3>2, <1>k
    <3> QED
      BY <2>3, <3>1, <3>3, <1>3, <1>5 DEF FirstID
  <2> QED
    BY <2>2, <2>3, <1>4
<1>m. WholeRead'
  <2> SUFFICES ASSUME Whole(log[session][pos].game)'
               PROVE  (/\ FirstID(gameID, log[session][pos].game)
                       /\ log[session][pos].kind = "create" => running)'
    BY DEF WholeRead
  <2>1. log'[session'][pos'] = e
    BY <1>1, <1>2
  <2>2. Whole(g)'
    BY <2>1, <1>j DEF Whole
  <2>3. FirstID(id, g)
    BY <2>2, <1>l
  <2>4. e.kind = "create" => running'
    BY <1>9
  <2> QED
    BY <2>1, <2>3, <2>4, <1>2, <1>j, <1>k DEF FirstID
<1>n. WholeSaving'
  <2> SUFFICES ASSUME Whole(current)' PROVE FirstID(gameID, current)'
    BY DEF WholeSaving
  <2>1. Whole(g)'
    BY <1>1, <1>j DEF Whole
  <2>2. FirstID(id, g)
    BY <2>1, <1>l
  <2> QED
    BY <2>2, <1>1, <1>2, <1>j, <1>k DEF FirstID
<1>o. WholeStored'
  <2> SUFFICES ASSUME NEW x \in entries, Whole(x[1])' PROVE FirstID(x[2], x[1])'
    BY <1>2 DEF WholeStored
  <2>1. x[1] \in Games
    BY DEF TypeOK
  <2>2. FirstID(x[2], x[1])
    BY <2>1, <1>i DEF ReaderInv, WholeStored
  <2> QED
    BY <2>2, <1>2 DEF FirstID
<1> QED
  BY <1>b, <1>c, <1>d, <1>e, <1>f, <1>g, <1>h, <1>m, <1>n, <1>o DEF ReaderInv
\* What a step of the process that reads no entry leaves true.
LEMMA Unmoved ==
  ASSUME ArchiveInv, TypeOK', UNCHANGED clientVars, ListMatchesStates',
         silent \subseteq silent', misdated' = misdated, skipped => skipped'
  PROVE  /\ LogInv'
         /\ \A g \in Games : Whole(g)' => Whole(g)
         /\ \A id, g : FirstID(id, g)' <=> FirstID(id, g)
         /\ entries' \subseteq entries => StoredOwn' /\ WholeStored'
         /\ mode' = "down" \/ pos' = 0 => AtEntry' /\ WholeRead'
<1> USE DEF ArchiveInv
<1>1. UNCHANGED <<log, creates, owner, places>>
  BY DEF clientVars
<1>2. LogInv'
  BY ProcessKeepsLogs
<1>3. \A g \in Games : Whole(g)' => Whole(g)
  BY <1>1, WholeBefore
<1>4. \A id, g : FirstID(id, g)' <=> FirstID(id, g)
  BY <1>1 DEF FirstID
<1>5. ASSUME entries' \subseteq entries PROVE StoredOwn' /\ WholeStored'
  <2>1. StoredOwn'
    BY <1>1, <1>5 DEF ReaderInv, StoredOwn
  <2>2. ASSUME NEW x \in entries, Whole(x[1])' PROVE FirstID(x[2], x[1])'
    <3>1. x[1] \in Games
      BY DEF TypeOK
    <3> QED
      BY <2>2, <3>1, <1>3, <1>4 DEF ReaderInv, WholeStored
  <2> QED
    BY <2>1, <2>2, <1>5 DEF WholeStored
<1>6. mode' = "down" \/ pos' = 0 => AtEntry' /\ WholeRead'
  BY DEF AtEntry, WholeRead, Up
<1> QED
  BY <1>2, <1>3, <1>4, <1>5, <1>6

\* A parser set to the day a session was opened is behind its entries and all later.
LEMMA SetBehind ==
  ASSUME TypeOK, LogInv, NEW s \in Sessions, s <= sessions, SetReferenceDate(s),
         UNCHANGED clientVars, session' = s
  PROVE  Behind' /\ refDay' \in Days /\ lastHalf' \in {0, 1}
<1> USE Bounds DEF Sessions, clientVars
<1>1. opened[s] \in Nat /\ opened[s] <= MaxTime /\ opened[s] <= time /\ time \in Nat
  BY DEF TypeOK, LogInv, InOrder, Times
<1>2. Day(opened[s]) \in Nat /\ 2 * Day(opened[s]) <= opened[s]
      /\ Day(opened[s]) <= Day(MaxTime) /\ Day(MaxTime) \in Nat
  <2> HIDE DEF clientVars
  <2>1. /\ Day(opened[s]) \in Nat /\ Half(opened[s]) \in {0, 1}
        /\ opened[s] = 2 * Day(opened[s]) + Half(opened[s])
        /\ Day(opened[s]) <= Day(MaxTime)
    BY <1>1, Halves
  <2>2. Day(MaxTime) \in Nat
    BY Halves
  <2> QED
    BY <2>1, <2>2
<1>3. Clock' = 2 * Day(opened[s]) /\ refDay' \in Days /\ lastHalf' = 0
  BY <1>2 DEF SetReferenceDate, SessionDirDate, Clock, Days
<1>4. ASSUME NEW t \in Sessions, NEW i \in DOMAIN log[t], t >= s
      PROVE  Clock' <= log[t][i].time
  <2>1. s \in 1..t
    BY <1>4
  <2>2. opened[s] <= log[t][i].time
    BY <2>1 DEF LogInv, InOrder
  <2>3. log[t] \in Seq(Entry)
    BY DEF TypeOK, Entry
  <2>4. log[t][i].time \in Nat
    BY <2>3, ElementOfSeq, LenProperties, EntryFields DEF Times
  <2> QED
    BY <2>2, <2>4, <1>1, <1>2, <1>3
<1>5. Clock' <= time
  BY <1>1, <1>2, <1>3
<1> QED
  BY <1>3, <1>4, <1>5 DEF Behind

LEMMA NextSessionStep ==
  ASSUME ArchiveInv, NextSession PROVE ArchiveInv'
<1> USE DEF ArchiveInv
<1>1. /\ session < sessions /\ session' = session + 1 /\ pos' = 0
      /\ \/ /\ mode = "daemon" /\ skipped' = (skipped \/ Unread)
            /\ UNCHANGED <<refDay, lastHalf>>
         \/ /\ mode = "reparse" /\ ~Unread /\ step = "idle"
            /\ SetReferenceDate(session') /\ UNCHANGED skipped
      /\ UNCHANGED <<clientVars, mode, gameID, running, step, restarts, failures,
                     storeVars, current, entries, unsaved, silent, misdated>>
  BY DEF NextSession, TailFrom
<1>2. /\ UNCHANGED <<log, sessions, opened, time, creates, playing, away, owner, places>>
      /\ UNCHANGED <<mode, gameID, running, step, restarts, failures, list, states, turns>>
      /\ UNCHANGED <<current, entries, unsaved, silent, misdated>>
  BY <1>1 DEF clientVars, storeVars
<1>3. /\ session \in Sessions /\ session <= sessions /\ sessions \in Sessions
      /\ log[session] \in Seq(Entry) /\ Len(log[session]) \in Nat
      /\ DOMAIN log[session] = 1..Len(log[session])
      /\ pos \in 0..Len(log[session])
  BY Reading
<1>4. session' \in Sessions /\ session' \in 1..sessions'
  BY <1>1, <1>2, <1>3, Bounds DEF Sessions
<1>5. skipped' \in BOOLEAN /\ (~skipped' => ~skipped /\ ~Unread)
      /\ (skipped => skipped')
  <2>1. skipped \in BOOLEAN
    BY DEF TypeOK
  <2>2. CASE mode = "daemon"
    <3>1. skipped' = (skipped \/ Unread)
      BY <1>1, <2>2
    <3>2. skipped' \in BOOLEAN
      BY <3>1
    <3>3. (~skipped' => ~skipped /\ ~Unread) /\ (skipped => skipped')
      BY <3>1
    <3> QED
      BY <3>2, <3>3
  <2>3. CASE mode = "reparse"
    <3>1. skipped' = skipped /\ ~Unread
      BY <1>1, <2>3
    <3>2. skipped' \in BOOLEAN
      BY <2>1, <3>1
    <3>3. (~skipped' => ~skipped /\ ~Unread) /\ (skipped => skipped')
      BY <3>1
    <3> QED
      BY <3>2, <3>3
  <2> QED
    BY <1>1, <2>2, <2>3
<1>6. Behind' /\ refDay' \in Days /\ lastHalf' \in {0, 1}
  <2>1. CASE mode = "reparse"
    <3>1. session' <= sessions
      BY <1>1, <1>3 DEF Sessions
    <3> QED
      BY <1>1, <1>4, <2>1, <3>1, SetBehind
  <2>2. CASE mode = "daemon"
    <3>1. UNCHANGED <<refDay, lastHalf>>
      BY <1>1, <2>2
    <3>2. \A s \in Sessions : s >= session' => s > session
      BY <1>1, <1>3 DEF Sessions
    <3>3. Clock' = Clock
      BY <3>1 DEF Clock
    <3>4. \A s \in Sessions : s > session' \/ s = session' => s >= session'
      BY <1>4 DEF Sessions
    <3>5. Behind'
      BY <1>2, <3>2, <3>3, <3>4 DEF ReaderInv, Behind
    <3> QED
      BY <3>1, <3>5 DEF TypeOK
  <2> QED
    BY <1>1, <2>1, <2>2
<1>7. TypeOK'
  <2>1. Flags'
    BY <1>2, <1>5 DEF Flags, TypeOK
  <2>2. pos' \in 0..Len(log'[session'])
    <3>1. log[session'] \in Seq(Entry)
      BY <1>4 DEF TypeOK, Entry
    <3> QED
      BY <1>1, <1>2, <3>1, LenProperties
  <2>3. /\ log' \in [Sessions -> Seq(CreateEntry \cup CompleteEntry)]
        /\ sessions' \in Sessions /\ opened' \in [Sessions -> Times] /\ time' \in Times
        /\ creates' \in 0..MaxCreates /\ playing' \in Games \cup {NoGame}
        /\ mode' \in {"daemon", "reparse", "down"}
        /\ gameID' \in IDs \cup {NoID} /\ step' \in {"idle", "check", "save", "turns"}
        /\ restarts' \in 0..MaxRestarts /\ failures' \in 0..MaxFailures
    BY <1>2 DEF TypeOK
  <2>4. /\ list' \in Seq(IDs) /\ states' \subseteq IDs /\ turns' \subseteq IDs
        /\ owner' \in [Creates -> Games \cup {NoGame}]
        /\ places' \in [Games -> SUBSET Sessions]
        /\ current' \in Games \cup {NoGame} /\ entries' \subseteq Games \X IDs
        /\ unsaved' \subseteq Games /\ silent' \subseteq Games \cup {NoGame}
        /\ misdated' \subseteq Games
    BY <1>2 DEF TypeOK
  <2> QED
    BY <1>4, <1>6, <2>1, <2>2, <2>3, <2>4 DEF TypeOK, Flags
<1>8. ListMatchesStates'
  BY <1>2 DEF ListMatchesStates
<1>9. /\ LogInv' /\ StoredOwn' /\ WholeStored' /\ AtEntry' /\ WholeRead'
      /\ \A g \in Games : Whole(g)' => Whole(g)
      /\ \A id, g : FirstID(id, g)' <=> FirstID(id, g)
  <2>1. UNCHANGED clientVars /\ entries' \subseteq entries /\ misdated' = misdated
        /\ silent \subseteq silent' /\ pos' = 0
    BY <1>1
  <2> QED
    BY <2>1, <1>5, <1>7, <1>8, Unmoved
<1>a. Down' /\ Saving' /\ OwnID'
  BY <1>2, <1>5 DEF ReaderInv, Down, Saving, OwnID
<1>b. FromBefore'
  <2> SUFFICES ASSUME Up, running, ~skipped'
               PROVE  \E t \in Sessions : LastBefore(t, session + 1) /\ Final(t).game = current
    BY <1>1, <1>2 DEF FromBefore, Up, LastBefore, Final
  <2>1. ~skipped /\ pos = Len(log[session])
    BY <1>3, <1>5 DEF Unread
  <2>2. CASE log[session] = <<>>
    <3>1. pos = 0
      BY <2>1, <2>2, EmptySeq
    <3>2. PICK t \in Sessions : LastBefore(t, session) /\ Final(t).game = current
      BY <2>1, <3>1 DEF ReaderInv, FromBefore
    <3>3. LastBefore(t, session + 1)
      BY <2>2, <3>2, <1>3 DEF LastBefore, Sessions
    <3> QED
      BY <3>2, <3>3
  <2>3. CASE log[session] # <<>>
    <3>1. pos > 0
      BY <2>1, <2>3, <1>3, EmptySeq
    <3>2. Final(session).game = current
      BY <2>1, <3>1 DEF ReaderInv, AtEntry, Final
    <3>3. LastBefore(session, session + 1)
      BY <2>3, <1>3 DEF LastBefore, Sessions
    <3> QED
      BY <1>3, <3>2, <3>3
  <2> QED
    BY <2>2, <2>3
<1>c. WholeSaving'
  <2> SUFFICES ASSUME step \in {"check", "save"}, Whole(current)'
               PROVE  FirstID(gameID, current)'
    BY <1>2 DEF WholeSaving
  <2>1. PICK g, id : g = current /\ id = gameID
    OBVIOUS
  <2>2. Whole(g)' /\ g \in Games
    BY <2>1, <1>2 DEF Whole, ReaderInv, Saving
  <2>3. FirstID(id, g)
    BY <2>1, <2>2, <1>9 DEF ReaderInv, WholeSaving
  <2> QED
    BY <2>1, <2>3, <1>2 DEF FirstID
<1> QED
  BY <1>6, <1>7, <1>8, <1>9, <1>a, <1>b, <1>c DEF ReaderInv

\* What a step leaves true that neither reads nor changes what is being read.
LEMMA InPlace ==
  ASSUME ArchiveInv, TypeOK', ListMatchesStates',
         UNCHANGED <<clientVars, tailVars, gameID, current, misdated, skipped>>,
         silent \subseteq silent', running' => running, running => running' \/ current \in silent'
  PROVE  /\ LogInv' /\ Behind' /\ AtEntry' /\ FromBefore' /\ OwnID' /\ WholeRead'
         /\ \A g \in Games : Whole(g)' => Whole(g)
         /\ \A id, g : FirstID(id, g)' <=> FirstID(id, g)
         /\ entries' \subseteq entries => StoredOwn' /\ WholeStored'
         /\ (step' \in {"check", "save"} => step \in {"check", "save"}) => WholeSaving'
<1> USE DEF ArchiveInv
<1>1. /\ UNCHANGED <<log, sessions, opened, time, creates, playing, away, owner, places>>
      /\ UNCHANGED <<mode, session, pos, refDay, lastHalf, gameID, current, misdated, skipped>>
  BY DEF clientVars, tailVars
<1>2. /\ LogInv'
      /\ \A g \in Games : Whole(g)' => Whole(g)
      /\ \A id, g : FirstID(id, g)' <=> FirstID(id, g)
      /\ entries' \subseteq entries => StoredOwn' /\ WholeStored'
  <2>1. UNCHANGED clientVars /\ misdated' = misdated /\ (skipped => skipped')
    BY <1>1
  <2> QED
    BY <2>1, Unmoved
<1>3. Behind' /\ AtEntry' /\ OwnID'
  BY <1>1 DEF ReaderInv, Behind, Clock, AtEntry, OwnID, Up
<1>4. FromBefore'
  BY <1>1 DEF ReaderInv, FromBefore, LastBefore, Final, Up
<1>5. WholeRead'
  <2> SUFFICES ASSUME Up, pos > 0, Whole(log[session][pos].game)'
               PROVE  (/\ FirstID(gameID, log[session][pos].game)
                       /\ log[session][pos].kind = "create" => running)'
    BY <1>1 DEF WholeRead, Up
  <2>1. PICK g, id : g = log[session][pos].game /\ id = gameID
    OBVIOUS
  <2>2. g \in Games
    BY <2>1, Reading, ElementOfSeq, EntryFields
  <2>3. Whole(g)' /\ g \notin silent'
    BY <2>1, <1>1 DEF Whole
  <2>4. current = g
    BY <2>1 DEF ReaderInv, AtEntry
  <2>5. FirstID(id, g) /\ (log[session][pos].kind = "create" => running)
    BY <2>1, <2>2, <2>3, <1>2 DEF ReaderInv, WholeRead
  <2> QED
    BY <2>1, <2>3, <2>4, <2>5, <1>1 DEF FirstID
<1>6. ASSUME step' \in {"check", "save"} => step \in {"check", "save"} PROVE WholeSaving'
  <2> SUFFICES ASSUME step \in {"check", "save"}, Whole(current)'
               PROVE  FirstID(gameID, current)'
    BY <1>6 DEF WholeSaving
  <2>1. PICK g, id : g = current /\ id = gameID
    OBVIOUS
  <2>2. Whole(g)' /\ g \in Games
    BY <2>1, <1>1 DEF Whole, ReaderInv, Saving
  <2>3. FirstID(id, g)
    BY <2>1, <2>2, <1>2 DEF ReaderInv, WholeSaving
  <2> QED
    BY <2>1, <2>3, <1>1 DEF FirstID
<1> QED
  BY <1>2, <1>3, <1>4, <1>5, <1>6

\* The types that such a step leaves as they are.
LEMMA InPlaceTypes ==
  ASSUME TypeOK, UNCHANGED <<clientVars, tailVars, gameID, current, misdated, skipped>>,
         running' \in BOOLEAN, step' \in {"idle", "check", "save", "turns"},
         failures' \in 0..MaxFailures, list' \in Seq(IDs), states' \subseteq IDs,
         turns' \subseteq IDs, entries' \subseteq Games \X IDs, unsaved' \subseteq Games,
         silent' \subseteq Games \cup {NoGame}
  PROVE  TypeOK'
<1>1. /\ UNCHANGED <<log, sessions, opened, time, creates, playing, away, owner, places>>
      /\ UNCHANGED <<mode, session, pos, refDay, lastHalf, restarts, gameID, current>>
      /\ UNCHANGED <<misdated, skipped>>
  BY DEF clientVars, tailVars
<1>2. Flags'
  BY <1>1 DEF Flags, TypeOK
<1>3. /\ log' \in [Sessions -> Seq(CreateEntry \cup CompleteEntry)]
      /\ sessions' \in Sessions /\ opened' \in [Sessions -> Times] /\ time' \in Times
      /\ creates' \in 0..MaxCreates /\ playing' \in Games \cup {NoGame}
      /\ owner' \in [Creates -> Games \cup {NoGame}]
      /\ places' \in [Games -> SUBSET Sessions]
  BY <1>1 DEF TypeOK
<1>4. /\ mode' \in {"daemon", "reparse", "down"} /\ session' \in 1..sessions'
      /\ pos' \in 0..Len(log'[session']) /\ refDay' \in Days /\ lastHalf' \in {0, 1}
      /\ gameID' \in IDs \cup {NoID} /\ restarts' \in 0..MaxRestarts
      /\ current' \in Games \cup {NoGame} /\ misdated' \subseteq Games
  BY <1>1 DEF TypeOK
<1> QED
  BY <1>2, <1>3, <1>4 DEF TypeOK, Flags

LEMMA SilenceStep ==
  ASSUME ArchiveInv, Silence PROVE ArchiveInv'
<1> USE DEF ArchiveInv
<1>1. /\ mode = "daemon" /\ step = "idle" /\ running /\ running' = FALSE
      /\ silent' = silent \cup {current}
      /\ UNCHANGED <<clientVars, tailVars, gameID, current, misdated, skipped>>
      /\ UNCHANGED <<step, failures, storeVars, entries, unsaved>>
  BY DEF Silence
<1>2. TypeOK'
  <2>1. UNCHANGED <<step, failures, list, states, turns, entries, unsaved>>
    BY <1>1 DEF storeVars
  <2>2. running' \in BOOLEAN /\ silent' \subseteq Games \cup {NoGame}
    BY <1>1 DEF TypeOK
  <2>3. /\ step' \in {"idle", "check", "save", "turns"} /\ failures' \in 0..MaxFailures
        /\ list' \in Seq(IDs) /\ states' \subseteq IDs /\ turns' \subseteq IDs
        /\ entries' \subseteq Games \X IDs /\ unsaved' \subseteq Games
    BY <2>1 DEF TypeOK
  <2> QED
    BY <1>1, <2>2, <2>3, InPlaceTypes
<1>3. ListMatchesStates'
  BY <1>1 DEF ListMatchesStates, storeVars
<1>4. LogInv' /\ Behind' /\ AtEntry' /\ FromBefore' /\ OwnID' /\ WholeRead' /\ StoredOwn'
      /\ WholeStored' /\ WholeSaving'
  <2>1. silent \subseteq silent' /\ ~running' /\ current \in silent' /\ entries' \subseteq entries
        /\ step' = step
    BY <1>1
  <2> QED
    BY <1>1, <1>2, <1>3, <2>1, InPlace
<1>5. Down' /\ Saving'
  BY <1>1 DEF ReaderInv, Down, Saving, tailVars
<1> QED
  BY <1>2, <1>3, <1>4, <1>5 DEF ReaderInv

LEMMA CheckStep ==
  ASSUME ArchiveInv, CheckStored PROVE ArchiveInv'
<1> USE DEF ArchiveInv
<1>1. /\ step = "check" /\ step' \in {"idle", "save"} /\ failures' \in {failures, failures + 1}
      /\ failures' = failures \/ failures < MaxFailures
      /\ UNCHANGED <<clientVars, tailVars, gameID, current, misdated, skipped>>
      /\ UNCHANGED <<running, storeVars, entries, unsaved, silent>>
  BY DEF CheckStored, Works, Fails, AfterCheck, pastVars
<1>2. TypeOK'
  <2>1. UNCHANGED <<running, list, states, turns, entries, unsaved, silent>>
    BY <1>1 DEF storeVars
  <2>2. running' \in BOOLEAN
    BY <1>1 DEF TypeOK
  <2>3. failures' \in 0..MaxFailures
    BY <1>1, Bounds DEF TypeOK
  <2>4. /\ step' \in {"idle", "check", "save", "turns"}
        /\ list' \in Seq(IDs) /\ states' \subseteq IDs /\ turns' \subseteq IDs
        /\ entries' \subseteq Games \X IDs /\ unsaved' \subseteq Games
        /\ silent' \subseteq Games \cup {NoGame}
    BY <1>1, <2>1 DEF TypeOK
  <2> QED
    BY <1>1, <2>2, <2>3, <2>4, InPlaceTypes
<1>3. ListMatchesStates'
  BY <1>1 DEF ListMatchesStates, storeVars
<1>4. LogInv' /\ Behind' /\ AtEntry' /\ FromBefore' /\ OwnID' /\ WholeRead' /\ StoredOwn'
      /\ WholeStored' /\ WholeSaving'
  <2>1. silent \subseteq silent' /\ running' = running /\ entries' \subseteq entries
    BY <1>1
  <2> QED
    BY <1>1, <1>2, <1>3, <2>1, InPlace
<1>5. Down' /\ Saving'
  BY <1>1 DEF ReaderInv, Down, Saving, tailVars
<1> QED
  BY <1>2, <1>3, <1>4, <1>5 DEF ReaderInv

-----------------------------------------------------------------------------
(* The process saves the end of a game *)

\* An ID put on a list that has it once or not at all is on it once.
LEMMA ListedOnce ==
  ASSUME NEW S, NEW l \in Seq(S), IsInjective(l), NEW id \in S, id \notin ToSet(l)
  PROVE  /\ Append(l, id) \in Seq(S) /\ IsInjective(Append(l, id))
         /\ ToSet(Append(l, id)) = ToSet(l) \cup {id}
<1> DEFINE m == Append(l, id)
<1>1. /\ m \in Seq(S) /\ Len(m) = Len(l) + 1 /\ m[Len(l) + 1] = id
      /\ \A i \in 1..Len(l) : m[i] = l[i]
  BY AppendProperties
<1>2. /\ DOMAIN l = 1..Len(l) /\ DOMAIN m = 1..Len(m) /\ Len(l) \in Nat
  BY <1>1, LenProperties
<1>3. \A i \in DOMAIN l : l[i] # id
  BY DEF ToSet
<1> HIDE DEF m
<1>4. IsInjective(m)
  <2> SUFFICES ASSUME NEW a \in DOMAIN m, NEW b \in DOMAIN m, m[a] = m[b] PROVE a = b
    BY DEF IsInjective
  <2>1. a \in 1..Len(l) \/ a = Len(l) + 1
    BY <1>1, <1>2
  <2>2. b \in 1..Len(l) \/ b = Len(l) + 1
    BY <1>1, <1>2
  <2>3. CASE a \in 1..Len(l) /\ b \in 1..Len(l)
    BY <2>3, <1>1, <1>2 DEF IsInjective
  <2> QED
    BY <2>1, <2>2, <2>3, <1>1, <1>2, <1>3
<1>5. ToSet(m) = ToSet(l) \cup {id}
  BY <1>1, <1>2 DEF ToSet
<1> QED
  BY <1>1, <1>4, <1>5 DEF m

LEMMA SaveStep ==
  ASSUME ArchiveInv, SaveFullGame PROVE ArchiveInv'
<1> USE DEF ArchiveInv
<1>1. /\ step = "save" /\ step' \in {"turns", "idle"} /\ failures' \in {failures, failures + 1}
      /\ failures' = failures \/ failures < MaxFailures
      /\ \/ /\ list' = Listed(gameID) /\ states' = states \cup {gameID}
            /\ entries' = entries \cup {<<current, gameID>>}
            /\ unsaved' = unsaved
         \/ /\ unsaved' = unsaved \cup {current}
            /\ UNCHANGED <<list, states, entries>>
      /\ UNCHANGED <<clientVars, tailVars, gameID, current, misdated, skipped>>
      /\ UNCHANGED <<running, turns, silent>>
  BY DEF SaveFullGame, Works, Fails
<1>2. gameID \in IDs /\ current \in Games
  BY <1>1 DEF ReaderInv, Saving, TypeOK
<1>3. ListMatchesStates' /\ list' \in Seq(IDs)
  <2>1. CASE list' = Listed(gameID) /\ states' = states \cup {gameID}
    <3>1. CASE gameID \in ToSet(list)
      BY <2>1, <3>1 DEF ListMatchesStates, Listed, TypeOK
    <3>2. CASE gameID \notin ToSet(list)
      <4>1. list' = Append(list, gameID) /\ list \in Seq(IDs)
        BY <2>1, <3>2 DEF Listed, TypeOK
      <4> QED
        BY <2>1, <3>2, <4>1, <1>2, ListedOnce DEF ListMatchesStates
    <3> QED
      BY <3>1, <3>2
  <2>2. CASE UNCHANGED <<list, states>>
    BY <2>2 DEF ListMatchesStates, TypeOK
  <2> QED
    BY <1>1, <2>1, <2>2
<1>4. entries' \subseteq entries \cup {<<current, gameID>>}
  BY <1>1
<1>5. TypeOK'
  <2>1. running' \in BOOLEAN
    BY <1>1 DEF TypeOK
  <2>2. failures' \in 0..MaxFailures
    BY <1>1, Bounds DEF TypeOK
  <2>3. /\ states' \subseteq IDs /\ unsaved' \subseteq Games /\ turns' \subseteq IDs
        /\ silent' \subseteq Games \cup {NoGame}
    BY <1>1, <1>2 DEF TypeOK
  <2>4. entries' \subseteq Games \X IDs
    BY <1>2, <1>4 DEF TypeOK
  <2>5. step' \in {"idle", "check", "save", "turns"}
    BY <1>1
  <2> QED
    BY <1>1, <1>3, <2>1, <2>2, <2>3, <2>4, <2>5, InPlaceTypes
<1>6. /\ LogInv' /\ Behind' /\ AtEntry' /\ FromBefore' /\ OwnID' /\ WholeRead' /\ WholeSaving'
      /\ \A g \in Games : Whole(g)' => Whole(g)
      /\ \A id, g : FirstID(id, g)' <=> FirstID(id, g)
  <2>1. silent \subseteq silent' /\ running' = running /\ step' \notin {"check", "save"}
    BY <1>1
  <2> QED
    BY <1>1, <1>3, <1>5, <2>1, InPlace
<1>7. UNCHANGED <<creates, owner, skipped>>
  BY <1>1 DEF clientVars
<1>8. StoredOwn'
  <2> SUFFICES ASSUME ~skipped, NEW x \in entries'
               PROVE  x[2].n \in 1..creates /\ owner[x[2].n] = x[1]
    BY <1>7 DEF StoredOwn
  <2>1. CASE x \in entries
    BY <2>1 DEF ReaderInv, StoredOwn
  <2>2. CASE x = <<current, gameID>>
    BY <1>1, <2>2 DEF ReaderInv, OwnID, Saving
  <2> QED
    BY <1>4, <2>1, <2>2
<1>9. WholeStored'
  <2> SUFFICES ASSUME NEW x \in entries', Whole(x[1])' PROVE FirstID(x[2], x[1])'
    BY DEF WholeStored
  <2>1. PICK g, id : g \in Games /\ x = <<g, id>> /\ g = x[1] /\ id = x[2]
    BY <1>5 DEF TypeOK
  <2>2. Whole(g)' /\ Whole(g)
    BY <2>1, <1>6 DEF Whole
  <2>3. FirstID(id, g)
    <3>1. CASE x \in entries
      BY <2>1, <2>2, <3>1 DEF ReaderInv, WholeStored
    <3>2. CASE g = current /\ id = gameID
      BY <2>2, <3>2, <1>1 DEF ReaderInv, WholeSaving
    <3> QED
      BY <1>4, <2>1, <3>1, <3>2
  <2> QED
    BY <2>1, <2>3, <1>6
<1>a. Down' /\ Saving'
  BY <1>1 DEF ReaderInv, Down, Saving, tailVars
<1> QED
  BY <1>3, <1>5, <1>6, <1>8, <1>9, <1>a DEF ReaderInv

LEMMA TurnsStep ==
  ASSUME ArchiveInv, SaveTurnSnapshots PROVE ArchiveInv'
<1> USE DEF ArchiveInv
<1>1. /\ step = "turns" /\ step' = "idle" /\ failures' \in {failures, failures + 1}
      /\ failures' = failures \/ failures < MaxFailures
      /\ turns' \subseteq turns \cup {gameID}
      /\ UNCHANGED <<clientVars, tailVars, gameID, current, misdated, skipped>>
      /\ UNCHANGED <<running, list, states, entries, unsaved, silent>>
  BY DEF SaveTurnSnapshots, Works, Fails, pastVars
<1>2. gameID \in IDs
  BY <1>1 DEF ReaderInv, Saving, TypeOK
<1>3. TypeOK'
  <2>1. running' \in BOOLEAN
    BY <1>1 DEF TypeOK
  <2>2. failures' \in 0..MaxFailures
    BY <1>1, Bounds DEF TypeOK
  <2>3. /\ step' \in {"idle", "check", "save", "turns"} /\ turns' \subseteq IDs
        /\ list' \in Seq(IDs) /\ states' \subseteq IDs
        /\ entries' \subseteq Games \X IDs /\ unsaved' \subseteq Games
        /\ silent' \subseteq Games \cup {NoGame}
    BY <1>1, <1>2 DEF TypeOK
  <2> QED
    BY <1>1, <2>1, <2>2, <2>3, InPlaceTypes
<1>4. ListMatchesStates'
  BY <1>1 DEF ListMatchesStates
<1>5. LogInv' /\ Behind' /\ AtEntry' /\ FromBefore' /\ OwnID' /\ WholeRead' /\ StoredOwn'
      /\ WholeStored' /\ WholeSaving'
  <2>1. silent \subseteq silent' /\ running' = running /\ entries' \subseteq entries
        /\ step' \notin {"check", "save"}
    BY <1>1
  <2> QED
    BY <1>1, <1>3, <1>4, <2>1, InPlace
<1>6. Down' /\ Saving'
  BY <1>1 DEF ReaderInv, Down, Saving, tailVars
<1> QED
  BY <1>3, <1>4, <1>5, <1>6 DEF ReaderInv

-----------------------------------------------------------------------------
(* The process stops and starts, and the store is reset *)

LEMMA StopStep ==
  ASSUME ArchiveInv, Stop PROVE ArchiveInv'
<1> USE DEF ArchiveInv
<1>1. /\ mode' = "down" /\ gameID' = NoID /\ running' = FALSE /\ step' = "idle"
      /\ current' = NoGame
      /\ UNCHANGED <<clientVars, session, pos, refDay, lastHalf, restarts, failures,
                     storeVars, entries, unsaved, silent, misdated, skipped>>
  BY DEF Stop
<1>2. /\ UNCHANGED <<log, sessions, opened, time, creates, playing, away, owner, places>>
      /\ UNCHANGED <<session, pos, refDay, lastHalf, restarts, failures, list, states, turns>>
      /\ UNCHANGED <<entries, unsaved, silent, misdated, skipped>>
  BY <1>1 DEF clientVars, storeVars
<1>3. TypeOK'
  <2>1. Flags'
    BY <1>1, <1>2 DEF Flags, TypeOK
  <2>2. /\ log' \in [Sessions -> Seq(CreateEntry \cup CompleteEntry)]
        /\ sessions' \in Sessions /\ opened' \in [Sessions -> Times] /\ time' \in Times
        /\ creates' \in 0..MaxCreates /\ playing' \in Games \cup {NoGame}
        /\ owner' \in [Creates -> Games \cup {NoGame}]
        /\ places' \in [Games -> SUBSET Sessions]
    BY <1>2 DEF TypeOK
  <2>3. /\ mode' \in {"daemon", "reparse", "down"} /\ gameID' \in IDs \cup {NoID}
        /\ step' \in {"idle", "check", "save", "turns"} /\ current' \in Games \cup {NoGame}
    BY <1>1
  <2>4. /\ session' \in 1..sessions' /\ pos' \in 0..Len(log'[session'])
        /\ refDay' \in Days /\ lastHalf' \in {0, 1}
        /\ restarts' \in 0..MaxRestarts /\ failures' \in 0..MaxFailures
        /\ list' \in Seq(IDs) /\ states' \subseteq IDs /\ turns' \subseteq IDs
    BY <1>2 DEF TypeOK
  <2>5. /\ entries' \subseteq Games \X IDs /\ unsaved' \subseteq Games
        /\ silent' \subseteq Games \cup {NoGame} /\ misdated' \subseteq Games
    BY <1>2 DEF TypeOK
  <2> QED
    BY <2>1, <2>2, <2>3, <2>4, <2>5 DEF TypeOK, Flags
<1>4. ListMatchesStates'
  BY <1>2 DEF ListMatchesStates
<1>5. LogInv' /\ StoredOwn' /\ WholeStored' /\ AtEntry' /\ WholeRead'
  <2>1. UNCHANGED clientVars /\ entries' \subseteq entries /\ misdated' = misdated
        /\ silent \subseteq silent' /\ (skipped => skipped')
    BY <1>1
  <2> QED
    BY <1>1, <1>3, <1>4, <2>1, Unmoved
<1>6. Behind'
  BY <1>2 DEF ReaderInv, Behind, Clock
<1>7. Down' /\ Saving' /\ FromBefore' /\ OwnID' /\ WholeSaving'
  BY <1>1 DEF Down, Saving, FromBefore, OwnID, WholeSaving, Up
<1> QED
  BY <1>3, <1>4, <1>5, <1>6, <1>7 DEF ReaderInv

LEMMA StartStep ==
  ASSUME ArchiveInv, Start \/ Reparse PROVE ArchiveInv'
<1> USE DEF ArchiveInv
<1>1. PICK m \in {"daemon", "reparse"}, s \in {1, sessions} : StartIn(m, s)
  BY DEF Start, Reparse, FirstLog
<1>2. /\ mode = "down" /\ restarts < MaxRestarts /\ mode' = m /\ restarts' = restarts + 1
      /\ session' = s /\ pos' = 0 /\ SetReferenceDate(s)
      /\ UNCHANGED <<clientVars, gameID, running, step, failures, storeVars, pastVars>>
  BY <1>1 DEF StartIn, TailFrom
<1>3. /\ UNCHANGED <<log, sessions, opened, time, creates, playing, away, owner, places>>
      /\ UNCHANGED <<gameID, running, step, failures, list, states, turns, current>>
      /\ UNCHANGED <<entries, unsaved, silent, misdated, skipped>>
  BY <1>2 DEF clientVars, storeVars, pastVars
<1>4. gameID = NoID /\ ~running /\ step = "idle"
  BY <1>2 DEF ReaderInv, Down
<1>5. s \in Sessions /\ s <= sessions /\ s \in 1..sessions
  BY Bounds DEF TypeOK, Sessions
<1>6. Behind' /\ refDay' \in Days /\ lastHalf' \in {0, 1}
  BY <1>2, <1>5, SetBehind
<1>7. TypeOK'
  <2>1. Flags'
    BY <1>3 DEF Flags, TypeOK
  <2>2. pos' \in 0..Len(log'[session'])
    <3>1. log[s] \in Seq(Entry)
      BY <1>5 DEF TypeOK, Entry
    <3> QED
      BY <1>2, <1>3, <3>1, LenProperties
  <2>3. /\ log' \in [Sessions -> Seq(CreateEntry \cup CompleteEntry)]
        /\ sessions' \in Sessions /\ opened' \in [Sessions -> Times] /\ time' \in Times
        /\ creates' \in 0..MaxCreates /\ playing' \in Games \cup {NoGame}
        /\ owner' \in [Creates -> Games \cup {NoGame}]
        /\ places' \in [Games -> SUBSET Sessions]
    BY <1>3 DEF TypeOK
  <2>4. /\ mode' \in {"daemon", "reparse", "down"} /\ session' \in 1..sessions'
        /\ restarts' \in 0..MaxRestarts
    BY <1>2, <1>3, <1>5, Bounds DEF TypeOK
  <2>5. /\ gameID' \in IDs \cup {NoID} /\ step' \in {"idle", "check", "save", "turns"}
        /\ failures' \in 0..MaxFailures
        /\ list' \in Seq(IDs) /\ states' \subseteq IDs /\ turns' \subseteq IDs
        /\ current' \in Games \cup {NoGame} /\ entries' \subseteq Games \X IDs
        /\ unsaved' \subseteq Games /\ silent' \subseteq Games \cup {NoGame}
        /\ misdated' \subseteq Games
    BY <1>3 DEF TypeOK
  <2> QED
    BY <1>6, <2>1, <2>2, <2>3, <2>4, <2>5 DEF TypeOK, Flags
<1>8. ListMatchesStates'
  BY <1>3 DEF ListMatchesStates
<1>9. LogInv' /\ StoredOwn' /\ WholeStored' /\ AtEntry' /\ WholeRead'
  <2>1. UNCHANGED clientVars /\ entries' \subseteq entries /\ misdated' = misdated
        /\ silent \subseteq silent' /\ (skipped => skipped')
    BY <1>2, <1>3
  <2> QED
    BY <1>2, <1>7, <1>8, <2>1, Unmoved
<1>a. Down' /\ Saving' /\ FromBefore' /\ OwnID' /\ WholeSaving'
  BY <1>3, <1>4 DEF Down, Saving, FromBefore, OwnID, WholeSaving
<1> QED
  BY <1>6, <1>7, <1>8, <1>9, <1>a DEF ReaderInv

LEMMA ResetStep ==
  ASSUME ArchiveInv, Reset PROVE ArchiveInv'
<1> USE DEF ArchiveInv
<1>1. /\ list' = <<>> /\ states' = {} /\ turns' = {} /\ entries' = {}
      /\ UNCHANGED <<clientVars, tailVars, gameID, current, misdated, skipped>>
      /\ UNCHANGED <<running, step, failures, unsaved, silent>>
  BY DEF Reset
<1>2. ListMatchesStates'
  BY <1>1 DEF ListMatchesStates, IsInjective, ToSet
<1>3. TypeOK'
  <2>1. running' \in BOOLEAN
    BY <1>1 DEF TypeOK
  <2>2. /\ step' \in {"idle", "check", "save", "turns"} /\ failures' \in 0..MaxFailures
        /\ list' \in Seq(IDs) /\ states' \subseteq IDs /\ turns' \subseteq IDs
        /\ entries' \subseteq Games \X IDs /\ unsaved' \subseteq Games
        /\ silent' \subseteq Games \cup {NoGame}
    BY <1>1 DEF TypeOK
  <2> QED
    BY <1>1, <2>1, <2>2, InPlaceTypes
<1>4. LogInv' /\ Behind' /\ AtEntry' /\ FromBefore' /\ OwnID' /\ WholeRead' /\ StoredOwn'
      /\ WholeStored' /\ WholeSaving'
  <2>1. silent \subseteq silent' /\ running' = running /\ entries' \subseteq entries
        /\ step' = step
    BY <1>1
  <2> QED
    BY <1>1, <1>2, <1>3, <2>1, InPlace
<1>5. Down' /\ Saving'
  BY <1>1 DEF ReaderInv, Down, Saving, tailVars
<1> QED
  BY <1>2, <1>3, <1>4, <1>5 DEF ReaderInv

-----------------------------------------------------------------------------
(* The theorems *)

LEMMA ArchiveInit == Init => ArchiveInv
<1> SUFFICES ASSUME Init PROVE ArchiveInv
  OBVIOUS
<1> USE Bounds DEF Sessions
<1>1. \A s \in Sessions : log[s] = <<>> /\ DOMAIN log[s] = {}
  BY EmptySeq, LenProperties DEF Init
<1>2. TypeOK
  <2>1. Flags
    BY DEF Init, Flags
  <2>2. 0 \in Times /\ 0 \in Days
    BY Halves DEF Times, Days, Day
  <2>3. /\ log \in [Sessions -> Seq(CreateEntry \cup CompleteEntry)]
        /\ sessions \in Sessions /\ opened \in [Sessions -> Times] /\ time \in Times
        /\ creates \in 0..MaxCreates /\ playing \in Games \cup {NoGame}
    BY <2>2 DEF Init
  <2>4. /\ mode \in {"daemon", "reparse", "down"} /\ session \in 1..sessions
        /\ pos \in 0..Len(log[session]) /\ refDay \in Days /\ lastHalf \in {0, 1}
        /\ gameID \in IDs \cup {NoID} /\ step \in {"idle", "check", "save", "turns"}
    BY <2>2 DEF Init
  <2>5. /\ restarts \in 0..MaxRestarts /\ failures \in 0..MaxFailures
        /\ list \in Seq(IDs) /\ states \subseteq IDs /\ turns \subseteq IDs
        /\ owner \in [Creates -> Games \cup {NoGame}]
        /\ places \in [Games -> SUBSET Sessions]
        /\ current \in Games \cup {NoGame} /\ entries \subseteq Games \X IDs
        /\ unsaved \subseteq Games /\ silent \subseteq Games \cup {NoGame}
        /\ misdated \subseteq Games
    BY DEF Init
  <2> QED
    BY <2>1, <2>3, <2>4, <2>5 DEF TypeOK, Flags
<1>3. LogInv
  <2>1. Numbered /\ Recorded /\ NotBegun /\ GoesOn /\ GoesOnAfter
    BY <1>1 DEF Numbered, Recorded, NotBegun, GoesOn, GoesOnAfter
  <2>2. ClientAt /\ InOrder
    BY <1>1 DEF Init, ClientAt, InOrder
  <2> QED
    BY <2>1, <2>2 DEF LogInv
<1>4. ReaderInv
  <2>1. Behind
    BY <1>1 DEF Init, Behind, Clock
  <2>2. Down /\ Saving /\ AtEntry /\ FromBefore /\ OwnID /\ StoredOwn /\ WholeRead
        /\ WholeSaving /\ WholeStored
    BY DEF Init, Down, Saving, AtEntry, FromBefore, OwnID, StoredOwn, WholeRead, WholeSaving,
           WholeStored
  <2> QED
    BY <2>1, <2>2 DEF ReaderInv
<1>5. ListMatchesStates
  BY DEF Init, ListMatchesStates, IsInjective, ToSet
<1> QED
  BY <1>2, <1>3, <1>4, <1>5 DEF ArchiveInv

LEMMA ArchiveStep == ArchiveInv /\ [Next]_vars => ArchiveInv'
<1> SUFFICES ASSUME ArchiveInv, [Next]_vars PROVE ArchiveInv'
  OBVIOUS
<1>1. CASE Client
  <2>1. TypeOK' /\ LogInv'
    BY <1>1, CreateStep, FinishStep, OtherClientStep DEF ArchiveInv, Client
  <2>2. Grows
    BY <1>1, ClientGrows DEF ArchiveInv
  <2>3. ReaderInv'
    BY <2>1, <2>2, ClientKeepsReader DEF ArchiveInv
  <2>4. ListMatchesStates'
    BY <2>2 DEF ArchiveInv, ListMatchesStates, Grows, daemonVars, storeVars
  <2> QED
    BY <2>1, <2>3, <2>4 DEF ArchiveInv
<1>2. CASE Process
  BY <1>2, ReadStep, NextSessionStep, CheckStep, SaveStep, TurnsStep DEF Process
<1>3. CASE Silence
  BY <1>3, SilenceStep
<1>4. CASE Stop
  BY <1>4, StopStep
<1>5. CASE Start \/ Reparse
  BY <1>5, StartStep
<1>6. CASE Reset
  BY <1>6, ResetStep
<1>7. CASE UNCHANGED vars
  <2>1. UNCHANGED <<clientVars, daemonVars>>
    BY <1>7 DEF vars
  <2>2. /\ UNCHANGED <<clientVars, tailVars, gameID, current, misdated, skipped>>
        /\ UNCHANGED <<running, step, failures, storeVars, entries, unsaved, silent>>
    BY <2>1 DEF daemonVars, pastVars
  <2>3. UNCHANGED <<list, states, turns>>
    BY <2>2 DEF storeVars
  <2>4. TypeOK'
    <3>1. running' \in BOOLEAN
      BY <2>2 DEF ArchiveInv, TypeOK
    <3>2. /\ step' \in {"idle", "check", "save", "turns"} /\ failures' \in 0..MaxFailures
          /\ list' \in Seq(IDs) /\ states' \subseteq IDs /\ turns' \subseteq IDs
          /\ entries' \subseteq Games \X IDs /\ unsaved' \subseteq Games
          /\ silent' \subseteq Games \cup {NoGame}
      BY <2>2, <2>3 DEF ArchiveInv, TypeOK
    <3> QED
      BY <2>2, <3>1, <3>2, InPlaceTypes DEF ArchiveInv
  <2>5. ListMatchesStates'
    BY <2>3 DEF ArchiveInv, ListMatchesStates
  <2>6. LogInv' /\ Behind' /\ AtEntry' /\ FromBefore' /\ OwnID' /\ WholeRead' /\ StoredOwn'
        /\ WholeStored' /\ WholeSaving'
    <3>1. silent \subseteq silent' /\ running' = running /\ entries' \subseteq entries
          /\ step' = step
      BY <2>2
    <3> QED
      BY <2>2, <2>4, <2>5, <3>1, InPlace
  <2>7. Down' /\ Saving'
    BY <2>2 DEF ArchiveInv, ReaderInv, Down, Saving, tailVars
  <2> QED
    BY <2>4, <2>5, <2>6, <2>7 DEF ArchiveInv, ReaderInv
<1> QED
  BY <1>1, <1>2, <1>3, <1>4, <1>5, <1>6, <1>7 DEF Next

LEMMA ArchiveInductive == Spec => []ArchiveInv
BY ArchiveInit, ArchiveStep, PTL DEF Spec, Safe

\* Every variable keeps its type, days and IDs included: the date that the parser
\* counts up from a directory's name stays among the days that have been.
THEOREM TypeCorrect == Spec => []TypeOK
BY ArchiveInductive, PTL DEF ArchiveInv

\* The parser's clock (extractTimestamp) is never ahead of the lines it is still to
\* read, through switches of session and restarts: a date may lag, and never leads.
THEOREM ClockNeverAhead == Spec => []Behind
BY ArchiveInductive, PTL DEF ArchiveInv, ReaderInv

\* The list has each ID once and just the games that have a state, wherever the
\* process is stopped and whatever save fails (saveGameTxn).
THEOREM ListMatchesStatesHolds == Spec => []ListMatchesStates
BY ArchiveInductive, PTL DEF ArchiveInv

\* While no session is left unread, what is stored under an ID is the game whose
\* CREATE_GAME gave the ID, for any number of games, sessions and restarts.
THEOREM StoredUnderOwnIDHolds == Spec => []StoredUnderOwnID
<1>1. ArchiveInv => StoredUnderOwnID
  BY DEF ArchiveInv, ReaderInv, StoredOwn, StoredUnderOwnID
<1> QED
  BY <1>1, ArchiveInductive, PTL

\* A game logged in one session, never silent for three minutes and read under the
\* right date is never stored twice, however often its session is read again: each
\* reading ends with the ID of its first CREATE_GAME.
THEOREM OneEntryPerWholeGameHolds == Spec => []OneEntryPerWholeGame
<1>1. ASSUME ArchiveInv, NEW g \in Games, Whole(g)
      PROVE  Cardinality(IDsOf(g)) <= 1
  <2>1. \A id \in IDsOf(g) : id \in IDs /\ FirstID(id, g)
    <3> SUFFICES ASSUME NEW e \in entries, e[1] = g PROVE e[2] \in IDs /\ FirstID(e[2], g)
      BY DEF IDsOf
    <3> QED
      BY <1>1 DEF ArchiveInv, TypeOK, ReaderInv, WholeStored
  <2>2. ASSUME NEW x \in IDsOf(g), NEW y \in IDsOf(g) PROVE x = y
    <3>1. PICK s \in Sessions : \E i \in DOMAIN log[s] :
            log[s][i].kind = "create" /\ log[s][i].n = g /\ x.day = Day(log[s][i].time)
      BY <2>1 DEF FirstID
    <3>2. PICK t \in Sessions : \E j \in DOMAIN log[t] :
            log[t][j].kind = "create" /\ log[t][j].n = g /\ y.day = Day(log[t][j].time)
      BY <2>1 DEF FirstID
    <3>i. PICK i \in DOMAIN log[s] :
            log[s][i].kind = "create" /\ log[s][i].n = g /\ x.day = Day(log[s][i].time)
      BY <3>1
    <3>j. PICK j \in DOMAIN log[t] :
            log[t][j].kind = "create" /\ log[t][j].n = g /\ y.day = Day(log[t][j].time)
      BY <3>2
    <3>3. log[s][i].time = log[t][j].time
      BY <1>1, <3>i, <3>j DEF ArchiveInv, LogInv, Numbered
    <3>4. x.day = y.day /\ x.n = y.n
      BY <2>1, <3>i, <3>j, <3>3 DEF FirstID
    <3> QED
      BY <2>1, <3>4 DEF IDs
  <2> QED
    BY <2>2, OneOrNone
<1>2. ArchiveInv => OneEntryPerWholeGame
  BY <1>1 DEF OneEntryPerWholeGame
<1> QED
  BY <1>2, ArchiveInductive, PTL

-----------------------------------------------------------------------------
(* The history as it is read: counting *)

\* What a one-to-one map takes one set to has as many members as it.
LEMMA SameCount ==
  ASSUME NEW A, IsFiniteSet(A), NEW B, NEW f \in [A -> B],
         \A a, b \in A : f[a] = f[b] => a = b,
         \A b \in B : \E a \in A : f[a] = b
  PROVE  IsFiniteSet(B) /\ Cardinality(B) = Cardinality(A)
<1>1. f \in Injection(A, B)
  BY DEF Injection, IsInjective
<1>2. f \in Surjection(A, B)
  BY DEF Surjection
<1>3. ExistsBijection(A, B)
  BY <1>1, <1>2, Zenon DEF Bijection, ExistsBijection
<1> QED
  BY <1>3, FS_Bijection, Zenon

\* The members of a set and of another apart from it are those of both.
LEMMA CountParts ==
  ASSUME NEW A, NEW B, NEW C, IsFiniteSet(C), C = A \cup B, A \cap B = {}
  PROVE  /\ IsFiniteSet(A) /\ IsFiniteSet(B)
         /\ Cardinality(A) \in Nat /\ Cardinality(B) \in Nat
         /\ Cardinality(C) = Cardinality(A) + Cardinality(B)
<1>1. IsFiniteSet(A) /\ IsFiniteSet(B)
  <2>1. A \in SUBSET C /\ B \in SUBSET C
    OBVIOUS
  <2> QED
    BY <2>1, FS_Subset, Zenon
<1>2. Cardinality(A \cup B) = Cardinality(A) + Cardinality(B) - Cardinality(A \cap B)
  BY <1>1, FS_Union, Zenon
<1>3. Cardinality(A \cap B) = 0
  BY FS_EmptySet, Zenon
<1>4. Cardinality(A) \in Nat /\ Cardinality(B) \in Nat
  BY <1>1, FS_CardinalityType, Zenon
<1>5. Cardinality(C) = Cardinality(A \cup B)
  BY Zenon
<1> QED
  BY <1>1, <1>2, <1>3, <1>4, <1>5

-----------------------------------------------------------------------------
(* Lists of chosen entries *)

Below(S, i)  == {j \in S : j < i}
RankIn(S, i) == Cardinality(Below(S, i))

\* A member of a finite set of numbers has fewer below it than a higher one.
LEMMA RanksGrow ==
  ASSUME NEW S, IsFiniteSet(S), S \subseteq Nat
  PROVE  /\ Cardinality(S) \in Nat
         /\ \A i \in S : RankIn(S, i) \in 0..(Cardinality(S) - 1)
         /\ \A i, j \in S : i < j => RankIn(S, i) < RankIn(S, j)
<1>1. Cardinality(S) \in Nat
  BY FS_CardinalityType
<1>2. ASSUME NEW i \in S
      PROVE  IsFiniteSet(Below(S, i)) /\ RankIn(S, i) \in 0..(Cardinality(S) - 1)
  <2> DEFINE B == Below(S, i)
             T == S \ {i}
  <2>1. B \in SUBSET T
    BY DEF Below
  <2>2. IsFiniteSet(T) /\ Cardinality(T) = Cardinality(S) - 1
    BY <1>2, FS_RemoveElement
  <2> HIDE DEF B, T
  <2>3. IsFiniteSet(B) /\ Cardinality(B) <= Cardinality(T)
    BY <2>1, <2>2, FS_Subset, Zenon
  <2>4. Cardinality(B) \in Nat
    BY <2>3, FS_CardinalityType, Zenon
  <2>5. Cardinality(B) \in 0..(Cardinality(S) - 1)
    BY <1>1, <2>2, <2>3, <2>4
  <2> QED
    BY <2>3, <2>5, Zenon DEF B, RankIn
<1>3. ASSUME NEW i \in S, NEW j \in S, i < j
      PROVE  RankIn(S, i) < RankIn(S, j)
  <2> DEFINE A == Below(S, i)
             B == Below(S, j)
  <2>1. A \cup {i} \in SUBSET B /\ i \notin A
    <3>1. i \in Nat /\ j \in Nat /\ \A x \in S : x \in Nat
      OBVIOUS
    <3>2. \A x \in A : x \in S /\ x < i
      BY DEF Below
    <3>3. \A x \in A : x \in S /\ x < j
      <4> TAKE x \in A
      <4>1. x \in S /\ x < i /\ x \in Nat
        BY <3>1, <3>2
      <4> QED
        BY <1>3, <3>1, <4>1
    <3>4. A \subseteq B /\ i \in B
      BY <1>3, <3>3 DEF Below
    <3>5. i \notin A
      BY <3>1, <3>2
    <3> QED
      BY <3>4, <3>5
  <2>2. IsFiniteSet(A) /\ IsFiniteSet(B)
    BY <1>2
  <2> HIDE DEF A, B
  <2>3. Cardinality(A \cup {i}) = Cardinality(A) + 1
    BY <2>1, <2>2, FS_AddElement, Zenon
  <2>4. Cardinality(A \cup {i}) <= Cardinality(B)
    BY <2>1, <2>2, FS_Subset, Zenon
  <2>5. Cardinality(A) \in Nat /\ Cardinality(B) \in Nat
    BY <2>2, FS_CardinalityType, Zenon
  <2>6. Cardinality(A) < Cardinality(B)
    BY <2>3, <2>4, <2>5
  <2> QED
    BY <2>6, Zenon DEF A, B, RankIn
<1> QED
  BY <1>1, <1>2, <1>3, Zenon

\* Every number below the size of the set is the rank of one member.
LEMMA RankOfOne ==
  ASSUME NEW S, IsFiniteSet(S), S \subseteq Nat, NEW k \in 1..Cardinality(S)
  PROVE  \E i \in S : RankIn(S, i) = k - 1
<1> DEFINE c == Cardinality(S)
           R == 0..(c - 1)
           f == [i \in S |-> RankIn(S, i)]
<1>1. /\ c \in Nat
      /\ \A i \in S : RankIn(S, i) \in R
      /\ \A i, j \in S : i < j => RankIn(S, i) < RankIn(S, j)
  BY RanksGrow
<1>2. IsFiniteSet(R) /\ Cardinality(R) = c
  <2>1. 0 \in Int /\ c - 1 \in Int /\ c \in Nat
    BY <1>1
  <2>2. IsFiniteSet(R) /\ Cardinality(R) = IF 0 > c - 1 THEN 0 ELSE (c - 1) - 0 + 1
    BY <2>1, FS_Interval
  <2> QED
    BY <2>1, <2>2
<1> HIDE DEF c, R
<1>3. f \in Injection(S, R)
  <2>1. f \in [S -> R]
    BY <1>1
  <2>2. ASSUME NEW i \in S, NEW j \in S, i # j PROVE RankIn(S, i) # RankIn(S, j)
    <3>1. RankIn(S, i) \in Int /\ RankIn(S, j) \in Int
      BY <1>1 DEF R
    <3>2. i < j \/ j < i
      BY <2>2
    <3> QED
      BY <1>1, <3>1, <3>2
  <2> QED
    BY <2>1, <2>2 DEF Injection, IsInjective
<1>4. f \in Surjection(S, R)
  BY <1>2, <1>3, FS_Injection, Zenon DEF c
<1>5. k - 1 \in R
  BY <1>1 DEF c, R
<1> QED
  BY <1>4, <1>5 DEF Surjection

\* Nth lists a set of numbers in ascending order, each once.
LEMMA NthLists ==
  ASSUME NEW S, IsFiniteSet(S), S \subseteq Nat
  PROVE  LET c == Cardinality(S)
         IN  /\ c \in Nat
             /\ \A k \in 1..c : Nth(S, k) \in S
             /\ \A k, l \in 1..c : k < l => Nth(S, k) < Nth(S, l)
             /\ \A i \in S : \E k \in 1..c : Nth(S, k) = i
<1> DEFINE c == Cardinality(S)
<1>1. /\ c \in Nat
      /\ \A i \in S : RankIn(S, i) \in 0..(c - 1)
      /\ \A i, j \in S : i < j => RankIn(S, i) < RankIn(S, j)
  BY RanksGrow
<1>2. \A k \in 1..c : Nth(S, k) \in S /\ RankIn(S, Nth(S, k)) = k - 1
  <2> TAKE k \in 1..c
  <2>1. \E i \in S : RankIn(S, i) = k - 1
    BY RankOfOne
  <2> QED
    BY <2>1 DEF Nth, RankIn, Below
<1> HIDE DEF c
<1>3. ASSUME NEW k \in 1..c, NEW l \in 1..c, k < l PROVE Nth(S, k) < Nth(S, l)
  <2>1. /\ Nth(S, k) \in S /\ Nth(S, l) \in S
        /\ RankIn(S, Nth(S, k)) = k - 1 /\ RankIn(S, Nth(S, l)) = l - 1
    BY <1>2
  <2> DEFINE x == Nth(S, k)
             y == Nth(S, l)
  <2> HIDE DEF x, y
  <2>2. x \in S /\ y \in S /\ RankIn(S, x) = k - 1 /\ RankIn(S, y) = l - 1
    BY <2>1 DEF x, y
  <2>3. x \in Nat /\ y \in Nat
    BY <2>2
  <2>4. ~(y < x) /\ x # y
    BY <1>1, <1>3, <2>2
  <2>5. x < y
    BY <2>3, <2>4
  <2> QED
    BY <2>5 DEF x, y
<1>4. ASSUME NEW i \in S PROVE \E k \in 1..c : Nth(S, k) = i
  <2> DEFINE k == RankIn(S, i) + 1
             x == Nth(S, k)
  <2>1. k \in 1..c /\ RankIn(S, i) = k - 1
    BY <1>1
  <2> HIDE DEF k
  <2>2. x \in S /\ RankIn(S, x) = RankIn(S, i) /\ RankIn(S, i) \in Int
    BY <1>1, <1>2, <2>1
  <2> HIDE DEF x
  <2>3. ~(x < i) /\ ~(i < x)
    BY <1>1, <2>2
  <2>4. x = i
    BY <2>2, <2>3
  <2> QED
    BY <2>1, <2>4 DEF x
<1> QED
  BY <1>1, <1>2, <1>3, <1>4, Zenon DEF c

\* The entries chosen from a sequence, in their order.
LEMMA ChosenLists ==
  ASSUME NEW T, NEW ms \in Seq(T), NEW S \in SUBSET (1..Len(ms))
  PROVE  LET c == Cardinality(S)
         IN  /\ c \in Nat /\ Chosen(ms, S) \in Seq(T) /\ Len(Chosen(ms, S)) = c
             /\ \A k \in 1..c : Nth(S, k) \in S /\ Chosen(ms, S)[k] = ms[Nth(S, k)]
             /\ \A k, l \in 1..c : k < l => Nth(S, k) < Nth(S, l)
             /\ \A i \in S : \E k \in 1..c : Nth(S, k) = i
<1> DEFINE c == Cardinality(S)
           ls == Chosen(ms, S)
<1>1. Len(ms) \in Nat /\ \A i \in 1..Len(ms) : ms[i] \in T
  OBVIOUS
<1>2. IsFiniteSet(S) /\ S \subseteq Nat
  <2>1. IsFiniteSet(1..Len(ms))
    BY <1>1, FS_Interval
  <2>2. IsFiniteSet(S)
    BY <2>1, FS_Subset, Zenon
  <2> QED
    BY <1>1, <2>2
<1>3. /\ c \in Nat
      /\ \A k \in 1..c : Nth(S, k) \in S
      /\ \A k, l \in 1..c : k < l => Nth(S, k) < Nth(S, l)
      /\ \A i \in S : \E k \in 1..c : Nth(S, k) = i
  BY <1>2, NthLists, Zenon
<1>4. ls = [k \in 1..c |-> ms[Nth(S, k)]]
  BY DEF Chosen
<1> HIDE DEF c, ls
<1>5. \A k \in 1..c : ms[Nth(S, k)] \in T
  BY <1>1, <1>3
<1>6. ls \in Seq(T) /\ Len(ls) = c
  BY <1>3, <1>4, <1>5
<1>7. \A k \in 1..c : ls[k] = ms[Nth(S, k)]
  BY <1>4
<1> QED
  BY <1>3, <1>6, <1>7, Zenon DEF c, ls

\* ls has the entries of ms with an index in S, the last of them first.
ListsBack(ls, ms, S, f) ==
  /\ f \in [1..Len(ls) -> S]
  /\ \A k, l \in 1..Len(ls) : k < l => f[k] > f[l]
  /\ \A i \in S : \E k \in 1..Len(ls) : f[k] = i
  /\ \A k \in 1..Len(ls) : ls[k] = ms[f[k]]

\* A filter over such a list has those of its entries that pass.
LEMMA ChosenBack ==
  ASSUME NEW ls \in Seq(Meta), NEW ms, NEW S \in SUBSET Nat, NEW f, ListsBack(ls, ms, S, f),
         NEW Q \in SUBSET (1..Len(ls)), NEW R \in SUBSET S,
         \A k \in 1..Len(ls) : k \in Q <=> f[k] \in R
  PROVE  /\ Chosen(ls, Q) \in Seq(Meta)
         /\ \E g : ListsBack(Chosen(ls, Q), ms, R, g)
<1> DEFINE c  == Cardinality(Q)
           cs == Chosen(ls, Q)
           g  == [k \in 1..c |-> f[Nth(Q, k)]]
<1>1. /\ c \in Nat /\ cs \in Seq(Meta) /\ Len(cs) = c
      /\ \A k \in 1..c : Nth(Q, k) \in Q /\ cs[k] = ls[Nth(Q, k)]
      /\ \A k, l \in 1..c : k < l => Nth(Q, k) < Nth(Q, l)
      /\ \A i \in Q : \E k \in 1..c : Nth(Q, k) = i
  BY ChosenLists
<1>2. /\ f \in [1..Len(ls) -> S]
      /\ \A k, l \in 1..Len(ls) : k < l => f[k] > f[l]
      /\ \A i \in S : \E k \in 1..Len(ls) : f[k] = i
      /\ \A k \in 1..Len(ls) : ls[k] = ms[f[k]]
  BY DEF ListsBack
<1> HIDE DEF c, cs
<1>3. \A k \in 1..c : /\ Nth(Q, k) \in 1..Len(ls) /\ f[Nth(Q, k)] \in R
                      /\ g[k] = f[Nth(Q, k)] /\ cs[k] = ms[g[k]]
  BY <1>1, <1>2
<1>4. g \in [1..c -> R]
  BY <1>3
<1>5. \A k, l \in 1..c : k < l => g[k] > g[l]
  BY <1>1, <1>2, <1>3
<1>6. \A i \in R : \E k \in 1..c : g[k] = i
  <2> TAKE i \in R
  <2>1. PICK j \in 1..Len(ls) : f[j] = i
    BY <1>2
  <2>2. PICK k \in 1..c : Nth(Q, k) = j
    BY <1>1, <2>1
  <2>3. g[k] = i
    BY <2>1, <2>2
  <2> QED
    BY <2>3
<1> HIDE DEF g
<1>7. ListsBack(cs, ms, R, g)
  BY <1>1, <1>3, <1>4, <1>5, <1>6 DEF ListsBack
<1> QED
  BY <1>1, <1>7 DEF cs

-----------------------------------------------------------------------------
(* The list of a mode *)

OfMode(m, md) == md = "all" \/ m.duos = (md = "duos")
ListedIn(ms, md)  == {i \in DOMAIN ms : ms[i].place > 0 /\ OfMode(ms[i], md)}
HistoryOf(ms, md) == FilterByMode(FilterCompleteGames(Reverse(ms)), md)

\* Reversed, complete, and of the mode: the list has each such game once, the last first.
LEMMA HistoryLists ==
  ASSUME NEW ms \in Seq(Meta), NEW md \in Modes
  PROVE  /\ HistoryOf(ms, md) \in Seq(Meta)
         /\ \E f : ListsBack(HistoryOf(ms, md), ms, ListedIn(ms, md), f)
<1> DEFINE n  == Len(ms)
           rs == Reverse(ms)
           cs == FilterCompleteGames(rs)
           hs == FilterByMode(cs, md)
           f0 == [k \in 1..n |-> n + 1 - k]
           C  == {i \in 1..n : ms[i].place > 0}
<1>0. n \in Nat /\ DOMAIN ms = 1..n /\ \A i \in 1..n : ms[i] \in Meta
  OBVIOUS
<1>1. rs \in Seq(Meta) /\ Len(rs) = n /\ \A k \in 1..n : rs[k] = ms[n + 1 - k]
  <2>1. rs = [k \in 1..n |-> ms[(n - k) + 1]]
    BY DEF Reverse
  <2>2. \A k \in 1..n : (n - k) + 1 \in 1..n /\ (n - k) + 1 = n + 1 - k
    BY <1>0
  <2> HIDE DEF rs, n
  <2> QED
    BY <1>0, <2>1, <2>2
<1> HIDE DEF n, rs
<1>2. ListsBack(rs, ms, 1..n, f0)
  <2>1. f0 \in [1..n -> 1..n]
    BY <1>0
  <2>2. \A k, l \in 1..n : k < l => f0[k] > f0[l]
    BY <1>0
  <2>3. ASSUME NEW i \in 1..n PROVE \E k \in 1..n : f0[k] = i
    <3>1. n + 1 - i \in 1..n /\ n + 1 - (n + 1 - i) = i
      BY <1>0
    <3> QED
      BY <3>1
  <2>4. \A k \in 1..n : rs[k] = ms[f0[k]]
    BY <1>1
  <2> HIDE DEF f0
  <2> QED
    BY <1>1, <2>1, <2>2, <2>3, <2>4 DEF ListsBack
<1> HIDE DEF f0
<1>3. cs \in Seq(Meta) /\ \E g : ListsBack(cs, ms, C, g)
  <2> DEFINE Q == {k \in DOMAIN rs : rs[k].place > 0}
  <2>1. DOMAIN rs = 1..n /\ cs = Chosen(rs, Q)
    BY <1>0, <1>1 DEF FilterCompleteGames
  <2>2. Q \in SUBSET (1..Len(rs)) /\ C \in SUBSET (1..n) /\ (1..n) \in SUBSET Nat
    BY <1>0, <1>1, <2>1
  <2>3. \A k \in 1..Len(rs) : k \in Q <=> f0[k] \in C
    BY <1>1, <1>2, <2>1 DEF ListsBack
  <2> HIDE DEF Q, C, cs
  <2>4. /\ Chosen(rs, Q) \in Seq(Meta)
        /\ \E g : ListsBack(Chosen(rs, Q), ms, C, g)
    BY <1>1, <1>2, <2>2, <2>3, ChosenBack, Zenon
  <2> QED
    BY <2>1, <2>4, Zenon
<1>4. PICK g : ListsBack(cs, ms, C, g)
  BY <1>3, Zenon
<1> HIDE DEF cs
<1>5. CASE md \in {"solo", "duos"}
  <2> DEFINE Q == {k \in DOMAIN cs : cs[k].duos = (md = "duos")}
             R == {i \in C : ms[i].duos = (md = "duos")}
  <2>1. hs = Chosen(cs, Q) /\ DOMAIN cs = 1..Len(cs)
    BY <1>3, <1>5 DEF FilterByMode
  <2>2. Q \in SUBSET (1..Len(cs)) /\ R \in SUBSET C /\ C \in SUBSET Nat
    BY <1>0, <2>1
  <2>3. \A k \in 1..Len(cs) : k \in Q <=> g[k] \in R
    <3> TAKE k \in 1..Len(cs)
    <3>1. g[k] \in C /\ cs[k] = ms[g[k]]
      BY <1>4 DEF ListsBack
    <3>2. k \in Q <=> (cs[k].duos = (md = "duos"))
      BY <2>1
    <3>3. g[k] \in R <=> (ms[g[k]].duos = (md = "duos"))
      BY <3>1
    <3> QED
      BY <3>1, <3>2, <3>3, Zenon
  <2>4. R = ListedIn(ms, md)
    <3>1. ~(md = "all")
      BY <1>5
    <3> QED
      BY <1>0, <3>1, Zenon DEF ListedIn, OfMode
  <2> HIDE DEF Q, R, C, hs
  <2>5. /\ Chosen(cs, Q) \in Seq(Meta)
        /\ \E h : ListsBack(Chosen(cs, Q), ms, R, h)
    BY <1>3, <1>4, <2>2, <2>3, ChosenBack, Zenon
  <2> QED
    BY <2>1, <2>4, <2>5, Zenon DEF hs, cs, rs, HistoryOf
<1>6. CASE md \notin {"solo", "duos"}
  <2>1. md = "all" /\ hs = cs
    BY <1>6 DEF FilterByMode, Modes
  <2>2. C = ListedIn(ms, md)
    BY <1>0, <2>1 DEF ListedIn, OfMode
  <2> QED
    BY <1>3, <1>4, <2>1, <2>2, Zenon DEF cs, rs, HistoryOf
<1> QED
  BY <1>5, <1>6

-----------------------------------------------------------------------------
(* The aggregate *)

CountedIn(ms, S) == {i \in S : ms[i].place > 0}
Points(ms, C)    == UNION {{i} \X (1..ms[i].place) : i \in C}

\* The aggregate of the entries with an index in S.
Figures(ms, S) ==
  LET counted == CountedIn(ms, S)
      ranked  == {ms[i].place : i \in counted}
  IN  [played |-> Cardinality(counted),
       wins   |-> Cardinality({i \in counted : Won(ms[i])}),
       losses |-> Cardinality({i \in counted : ~Won(ms[i])}),
       sum    |-> Cardinality(Points(ms, counted)),
       best   |-> IF ranked = {} THEN 0 ELSE Min(ranked),
       worst  |-> IF ranked = {} THEN 0 ELSE Max(ranked)]

\* stats.Compute, as counts over the positions in the list.
LEMMA ComputeIsFigures ==
  ASSUME NEW ms
  PROVE  Compute(ms) = Figures(ms, DOMAIN ms)
BY DEF Compute, Figures, CountedIn, Points

\* The points of a finite set of games are finitely many.
LEMMA FinitePoints ==
  ASSUME NEW ms, NEW C, IsFiniteSet(C), \A i \in C : ms[i].place \in Nat
  PROVE  IsFiniteSet(Points(ms, C))
<1> DEFINE P(i) == {i} \X (1..ms[i].place)
           F == [i \in C |-> P(i)]
           U == {F[i] : i \in C}
<1>1. \A i \in C : IsFiniteSet(F[i])
  <2> TAKE i \in C
  <2>1. IsFiniteSet({i})
    BY FS_Singleton, Zenon
  <2>2. 1 \in Int /\ ms[i].place \in Int
    OBVIOUS
  <2>3. IsFiniteSet(1..ms[i].place)
    BY <2>2, FS_Interval, Zenon
  <2>4. IsFiniteSet({i} \X (1..ms[i].place))
    BY <2>1, <2>3, FS_Product, Zenon
  <2> QED
    BY <2>4
<1>2. F \in Surjection(C, U)
  BY DEF Surjection
<1>3. IsFiniteSet(U)
  <2> HIDE DEF F, U
  <2> QED
    BY <1>2, FS_Surjection, Zenon
<1>4. \A T \in U : IsFiniteSet(T)
  BY <1>1
<1>5. Points(ms, C) = UNION U
  BY DEF Points
<1> HIDE DEF U
<1>6. IsFiniteSet(UNION U)
  BY <1>3, <1>4, FS_UNION, Zenon
<1> QED
  BY <1>5, <1>6, Zenon

\* The entries of a list that are in a set are as many as those they stand for.
LEMMA PickCount ==
  ASSUME NEW ls \in Seq(Meta), NEW ms, NEW S \in SUBSET Nat, NEW f, ListsBack(ls, ms, S, f),
         NEW A \in SUBSET (1..Len(ls)), NEW B \in SUBSET S,
         \A k \in 1..Len(ls) : k \in A <=> f[k] \in B
  PROVE  Cardinality(A) = Cardinality(B)
<1> DEFINE n == Len(ls)
           g == [k \in A |-> f[k]]
<1>1. n \in Nat /\ A \in SUBSET (1..n) /\ \A k \in 1..n : k \in A <=> f[k] \in B
  OBVIOUS
<1>2. /\ f \in [1..n -> S]
      /\ \A k, l \in 1..n : k < l => f[k] > f[l]
      /\ \A i \in S : \E k \in 1..n : f[k] = i
  BY DEF ListsBack
<1> HIDE DEF n
<1>3. IsFiniteSet(A)
  <2>1. 1 \in Int /\ n \in Int
    BY <1>1
  <2>2. IsFiniteSet(1..n)
    BY <2>1, FS_Interval, Zenon
  <2> QED
    BY <1>1, <2>2, FS_Subset, Zenon
<1>4. g \in [A -> B]
  BY <1>1, <1>2
<1>5. ASSUME NEW a \in A, NEW b \in A, g[a] = g[b] PROVE a = b
  <2>0. a \in 1..n /\ b \in 1..n
    BY <1>1
  <2>9. f[a] \in S /\ f[b] \in S
    BY <1>2, <2>0
  <2>4. f[a] = f[b]
    BY <1>5
  <2>5. \A x \in 1..n : x \in Nat
    BY <1>1
  <2>6. S \subseteq Nat
    OBVIOUS
  <2>1. a \in Nat /\ b \in Nat /\ f[a] \in Nat /\ f[b] \in Nat /\ f[a] = f[b]
    BY <2>0, <2>4, <2>5, <2>6, <2>9, Zenon
  <2>2. ~(a < b) /\ ~(b < a)
    BY <1>2, <2>0, <2>1
  <2> QED
    BY <2>1, <2>2
<1>6. \A b \in B : \E a \in A : g[a] = b
  <2> TAKE b \in B
  <2>1. PICK k \in 1..n : f[k] = b
    BY <1>2
  <2>2. k \in A /\ g[k] = b
    BY <1>1, <2>1
  <2> QED
    BY <2>2
<1> HIDE DEF g
<1> QED
  BY <1>3, <1>4, <1>5, <1>6, SameCount, Zenon

\* A list has the aggregate of the entries it lists.
LEMMA FiguresOfList ==
  ASSUME NEW ls \in Seq(Meta), NEW ms \in Seq(Meta), NEW S \in SUBSET (DOMAIN ms), NEW f,
         ListsBack(ls, ms, S, f)
  PROVE  Compute(ls) = Figures(ms, S)
<1> DEFINE D == DOMAIN ls
           A == CountedIn(ls, D)
           B == CountedIn(ms, S)
<1>1. /\ D = 1..Len(ls) /\ Len(ls) \in Nat /\ \A k \in D : ls[k] \in Meta /\ ls[k].place \in Nat
      /\ DOMAIN ms = 1..Len(ms) /\ Len(ms) \in Nat
      /\ \A i \in S : i \in Nat /\ ms[i] \in Meta /\ ms[i].place \in Nat
  <2>1. \A m \in Meta : m.place \in Nat
    BY DEF Meta
  <2> QED
    BY <2>1
<1>2. /\ f \in [D -> S]
      /\ \A k, l \in D : k < l => f[k] > f[l]
      /\ \A i \in S : \E k \in D : f[k] = i
      /\ \A k \in D : ls[k] = ms[f[k]]
  BY <1>1 DEF ListsBack
<1>3. S \in SUBSET Nat
  BY <1>1
<1>4. /\ A \in SUBSET (1..Len(ls)) /\ B \in SUBSET S
      /\ \A k \in 1..Len(ls) : k \in A <=> f[k] \in B
  BY <1>1, <1>2 DEF CountedIn
<1> HIDE DEF D, A, B
<1>5. Cardinality(A) = Cardinality(B)
  <2>1. A \in SUBSET (1..Len(ls))
    BY <1>4
  <2>2. B \in SUBSET S
    BY <1>4
  <2>3. \A k \in 1..Len(ls) : k \in A <=> f[k] \in B
    BY <1>4
  <2> QED
    BY <1>3, <2>1, <2>2, <2>3, PickCount
<1>6. ASSUME NEW A1 \in SUBSET A, NEW B1 \in SUBSET B,
             \A k \in A : k \in A1 <=> f[k] \in B1
      PROVE  Cardinality(A1) = Cardinality(B1)
  <2>1. /\ A1 \in SUBSET (1..Len(ls)) /\ B1 \in SUBSET S
        /\ \A k \in 1..Len(ls) : k \in A1 <=> f[k] \in B1
    BY <1>4, <1>6
  <2> QED
    BY <1>3, <2>1, PickCount
<1>7. /\ Cardinality({k \in A : Won(ls[k])}) = Cardinality({i \in B : Won(ms[i])})
      /\ Cardinality({k \in A : ~Won(ls[k])}) = Cardinality({i \in B : ~Won(ms[i])})
  <2> DEFINE A1 == {k \in A : Won(ls[k])}
             A2 == {k \in A : ~Won(ls[k])}
             B1 == {i \in B : Won(ms[i])}
             B2 == {i \in B : ~Won(ms[i])}
  <2>1. A1 \in SUBSET A /\ A2 \in SUBSET A /\ B1 \in SUBSET B /\ B2 \in SUBSET B
    OBVIOUS
  <2>2. ASSUME NEW k \in A PROVE (k \in A1 <=> f[k] \in B1) /\ (k \in A2 <=> f[k] \in B2)
    <3>1. f[k] \in B /\ ls[k] = ms[f[k]]
      BY <1>1, <1>2, <1>4
    <3> QED
      BY <3>1, Zenon
  <2> HIDE DEF A1, A2, B1, B2
  <2>3. Cardinality(A1) = Cardinality(B1) /\ Cardinality(A2) = Cardinality(B2)
    BY <1>6, <2>1, <2>2, Zenon
  <2> QED
    BY <2>3 DEF A1, A2, B1, B2
<1>8. {ls[k].place : k \in A} = {ms[i].place : i \in B}
  <2>1. ASSUME NEW k \in A PROVE \E i \in B : ls[k].place = ms[i].place
    BY <1>1, <1>2, <1>4
  <2>2. ASSUME NEW i \in B PROVE \E k \in A : ls[k].place = ms[i].place
    <3>1. PICK k \in D : f[k] = i
      BY <1>2, <1>4
    <3>2. k \in A /\ ls[k].place = ms[i].place
      BY <1>1, <1>2, <1>4, <3>1
    <3> QED
      BY <3>2
  <2> QED
    BY <2>1, <2>2
<1>9. Cardinality(Points(ls, A)) = Cardinality(Points(ms, B))
  <2> DEFINE P == Points(ls, A)
             Q == Points(ms, B)
             g == [z \in P |-> <<f[z[1]], z[2]>>]
  <2>1. IsFiniteSet(A) /\ \A k \in A : ls[k].place \in Nat
    <3>1. IsFiniteSet(1..Len(ls))
      BY <1>1, FS_Interval
    <3> QED
      BY <1>1, <1>4, <3>1, FS_Subset
  <2>2. IsFiniteSet(P)
    BY <2>1, FinitePoints, Zenon
  <2>3. \A z : z \in P <=> \E k \in A : \E p \in 1..ls[k].place : z = <<k, p>>
    BY DEF Points
  <2>4. \A z : z \in Q <=> \E i \in B : \E p \in 1..ms[i].place : z = <<i, p>>
    BY DEF Points
  <2> HIDE DEF P, Q
  <2>5. \A k \in A : k \in D /\ f[k] \in B /\ ls[k] = ms[f[k]]
    BY <1>1, <1>2, <1>4
  <2>6. \A z \in P : z[1] \in A /\ z = <<z[1], z[2]>> /\ <<f[z[1]], z[2]>> \in Q
    <3> TAKE z \in P
    <3>1. PICK k \in A : \E p \in 1..ls[k].place : z = <<k, p>>
      BY <2>3, Zenon
    <3>2. PICK p \in 1..ls[k].place : z = <<k, p>>
      BY <3>1, Zenon
    <3>3. f[k] \in B /\ p \in 1..ms[f[k]].place
      BY <2>5, <3>2, Zenon
    <3>4. <<f[k], p>> \in Q
      BY <2>4, <3>3, Zenon
    <3>5. z[1] = k /\ z[2] = p
      BY <3>2
    <3> QED
      BY <3>2, <3>4, <3>5, Zenon
  <2>7. g \in [P -> Q] /\ \A z \in P : g[z] = <<f[z[1]], z[2]>>
    BY <2>6
  <2> HIDE DEF g
  <2>8. ASSUME NEW a \in A, NEW b \in A, f[a] = f[b] PROVE a = b
    <3>1. a \in Nat /\ b \in Nat /\ f[a] \in Nat /\ f[b] \in Nat
      BY <1>1, <1>2, <2>5
    <3>2. ~(a < b) /\ ~(b < a)
      BY <1>2, <2>5, <2>8, <3>1
    <3> QED
      BY <3>1, <3>2
  <2>9. \A y, z \in P : g[y] = g[z] => y = z
    <3> SUFFICES ASSUME NEW y \in P, NEW z \in P, g[y] = g[z] PROVE y = z
      OBVIOUS
    <3>1. <<f[y[1]], y[2]>> = <<f[z[1]], z[2]>>
      BY <2>7, Zenon
    <3>2. f[y[1]] = f[z[1]] /\ y[2] = z[2]
      BY <3>1
    <3>3. y[1] = z[1]
      BY <2>6, <2>8, <3>2, Zenon
    <3>4. y = <<y[1], y[2]>> /\ z = <<z[1], z[2]>>
      BY <2>6, Zenon
    <3> QED
      BY <3>2, <3>3, <3>4, Zenon
  <2>10. \A q \in Q : \E z \in P : g[z] = q
    <3> TAKE q \in Q
    <3>1. PICK i \in B : \E p \in 1..ms[i].place : q = <<i, p>>
      BY <2>4, Zenon
    <3>2. PICK p \in 1..ms[i].place : q = <<i, p>>
      BY <3>1, Zenon
    <3>3. PICK k \in D : f[k] = i
      BY <1>2, <1>4
    <3>4. k \in A /\ p \in 1..ls[k].place
      BY <1>1, <1>2, <1>4, <3>3
    <3>5. <<k, p>> \in P
      BY <2>3, <3>4, Zenon
    <3>6. g[<<k, p>>] = <<f[<<k, p>>[1]], <<k, p>>[2]>>
      BY <2>7, <3>5, Zenon
    <3>7. g[<<k, p>>] = q
      BY <3>2, <3>3, <3>6
    <3> QED
      BY <3>5, <3>7
  <2>11. Cardinality(Q) = Cardinality(P)
    BY <2>2, <2>7, <2>9, <2>10, SameCount, Zenon
  <2> QED
    BY <2>11 DEF P, Q
<1>10. Compute(ls) = Figures(ls, D)
  BY ComputeIsFigures, Zenon DEF D
<1>11. Figures(ls, D) = Figures(ms, S)
  BY <1>5, <1>7, <1>8, <1>9, Zenon DEF Figures, A, B
<1> QED
  BY <1>10, <1>11, Zenon

\* The aggregates of two modes add up.
LEMMA FiguresAdd ==
  ASSUME NEW ms \in Seq(Meta), NEW S \in SUBSET (DOMAIN ms), NEW S1, NEW S2,
         S = S1 \cup S2, S1 \cap S2 = {}
  PROVE  \A f \in {"played", "wins", "losses", "sum"} :
           Figures(ms, S)[f] = Figures(ms, S1)[f] + Figures(ms, S2)[f]
<1> DEFINE C  == CountedIn(ms, S)
           C1 == CountedIn(ms, S1)
           C2 == CountedIn(ms, S2)
<1>0. \A m \in Meta : m.place \in Nat
  BY DEF Meta
<1>1. C = C1 \cup C2 /\ C1 \cap C2 = {}
  BY DEF CountedIn
<1>2. IsFiniteSet(C) /\ \A i \in C : ms[i].place \in Nat
  <2>1. DOMAIN ms = 1..Len(ms) /\ Len(ms) \in Nat /\ \A i \in 1..Len(ms) : ms[i].place \in Nat
    BY <1>0
  <2>2. IsFiniteSet(1..Len(ms))
    BY <2>1, FS_Interval
  <2>3. C \in SUBSET (1..Len(ms))
    BY <2>1 DEF CountedIn
  <2> HIDE DEF C
  <2> QED
    BY <2>1, <2>2, <2>3, FS_Subset
<1> HIDE DEF C, C1, C2
<1>3. Cardinality(C) = Cardinality(C1) + Cardinality(C2)
  BY <1>1, <1>2, CountParts, Zenon
<1>4. /\ Cardinality({i \in C : Won(ms[i])}) =
           Cardinality({i \in C1 : Won(ms[i])}) + Cardinality({i \in C2 : Won(ms[i])})
      /\ Cardinality({i \in C : ~Won(ms[i])}) =
           Cardinality({i \in C1 : ~Won(ms[i])}) + Cardinality({i \in C2 : ~Won(ms[i])})
  <2> DEFINE W(T) == {i \in T : Won(ms[i])}
             L(T) == {i \in T : ~Won(ms[i])}
  <2>1. W(C) \in SUBSET C /\ L(C) \in SUBSET C
    OBVIOUS
  <2>2. IsFiniteSet(W(C)) /\ IsFiniteSet(L(C))
    BY <1>2, <2>1, FS_Subset, Zenon
  <2>3. W(C) = W(C1) \cup W(C2) /\ W(C1) \cap W(C2) = {}
    BY <1>1
  <2>4. L(C) = L(C1) \cup L(C2) /\ L(C1) \cap L(C2) = {}
    BY <1>1
  <2> HIDE DEF W, L
  <2>5. /\ Cardinality(W(C)) = Cardinality(W(C1)) + Cardinality(W(C2))
        /\ Cardinality(L(C)) = Cardinality(L(C1)) + Cardinality(L(C2))
    BY <2>2, <2>3, <2>4, CountParts, Zenon
  <2> QED
    BY <2>5 DEF W, L
<1>5. Cardinality(Points(ms, C)) =
        Cardinality(Points(ms, C1)) + Cardinality(Points(ms, C2))
  <2>1. IsFiniteSet(Points(ms, C))
    BY <1>2, FinitePoints, Zenon
  <2>2. Points(ms, C) = Points(ms, C1) \cup Points(ms, C2)
    BY <1>1, Zenon DEF Points
  <2>3. Points(ms, C1) \cap Points(ms, C2) = {}
    BY <1>1 DEF Points
  <2> QED
    BY <2>1, <2>2, <2>3, CountParts, Zenon
<1> QED
  BY <1>3, <1>4, <1>5 DEF Figures, C, C1, C2

-----------------------------------------------------------------------------
(* Lists of IDs, the newest first *)

DescendsOver(s, S) ==
  /\ s \in Seq(Nat)
  /\ \A k, l \in 1..Len(s) : k < l => s[k] > s[l]
  /\ \A k \in 1..Len(s) : s[k] \in S
  /\ \A x \in S : \E k \in 1..Len(s) : s[k] = x

\* Such a list has as many entries after one as its set has members below it.
LEMMA DescendingRank ==
  ASSUME NEW s, NEW S, DescendsOver(s, S)
  PROVE  /\ IsFiniteSet(S) /\ Cardinality(S) = Len(s) /\ Len(s) \in Nat
         /\ \A k \in 1..Len(s) : RankIn(S, s[k]) = Len(s) - k
<1> DEFINE n == Len(s)
<1>1. /\ n \in Nat
      /\ \A k \in 1..n : s[k] \in Nat /\ s[k] \in S
      /\ \A k, l \in 1..n : k < l => s[k] > s[l]
      /\ \A x \in S : \E k \in 1..n : s[k] = x
  BY DEF DescendsOver
<1> HIDE DEF n
<1>2. \A k, l \in 1..n : s[k] = s[l] => k = l
  <2> SUFFICES ASSUME NEW k \in 1..n, NEW l \in 1..n, s[k] = s[l] PROVE k = l
    OBVIOUS
  <2>1. k \in Nat /\ l \in Nat /\ s[k] \in Nat
    BY <1>1
  <2>2. ~(k < l) /\ ~(l < k)
    BY <1>1, <2>1
  <2> QED
    BY <2>1, <2>2
<1>3. ASSUME NEW m \in 0..n, NEW T, \A x : x \in T <=> \E k \in (m + 1)..n : s[k] = x
      PROVE  IsFiniteSet(T) /\ Cardinality(T) = n - m
  <2> DEFINE A == (m + 1)..n
             f == [k \in A |-> s[k]]
  <2>1. m \in Nat /\ m <= n /\ \A k \in A : k \in 1..n
    BY <1>1
  <2>2. IsFiniteSet(A) /\ Cardinality(A) = n - m
    <3>1. m + 1 \in Int /\ n \in Int
      BY <1>1, <2>1
    <3>2. IsFiniteSet(A) /\ Cardinality(A) = IF m + 1 > n THEN 0 ELSE n - (m + 1) + 1
      BY <3>1, FS_Interval, Zenon
    <3> HIDE DEF A
    <3> QED
      BY <1>1, <2>1, <3>2
  <2>3. f \in [A -> T]
    BY <1>3
  <2>4. \A a, b \in A : f[a] = f[b] => a = b
    BY <1>2, <2>1
  <2>5. \A b \in T : \E a \in A : f[a] = b
    <3> TAKE b \in T
    <3>1. PICK k \in A : s[k] = b
      BY <1>3
    <3>2. f[k] = b
      BY <3>1
    <3> QED
      BY <3>1, <3>2
  <2> HIDE DEF f, A
  <2> QED
    BY <2>2, <2>3, <2>4, <2>5, SameCount, Zenon
<1>4. IsFiniteSet(S) /\ Cardinality(S) = n
  <2>1. 0 \in 0..n /\ n - 0 = n
    BY <1>1
  <2>2. \A x : x \in S <=> \E k \in (0 + 1)..n : s[k] = x
    BY <1>1
  <2>3. IsFiniteSet(S) /\ Cardinality(S) = n - 0
    BY <1>3, <2>1, <2>2, Zenon
  <2> QED
    BY <2>1, <2>3
<1>5. ASSUME NEW k \in 1..n PROVE RankIn(S, s[k]) = n - k
  <2> DEFINE T == Below(S, s[k])
  <2>1. k \in 0..n
    BY <1>1
  <2>2. ASSUME NEW x \in T PROVE \E l \in (k + 1)..n : s[l] = x
    <3>1. x \in S /\ x < s[k]
      BY DEF Below
    <3>2. PICK l \in 1..n : s[l] = x
      BY <1>1, <3>1
    <3>3. l \in Nat /\ k \in Nat /\ s[l] \in Nat /\ s[k] \in Nat
      BY <1>1
    <3>4. ~(l < k) /\ l # k
      BY <1>1, <3>1, <3>2, <3>3
    <3>5. l \in (k + 1)..n
      BY <1>1, <3>3, <3>4
    <3> QED
      BY <3>2, <3>5
  <2>3. ASSUME NEW l \in (k + 1)..n PROVE s[l] \in T
    <3>1. l \in 1..n /\ k < l
      BY <1>1
    <3>2. s[l] \in S /\ s[k] > s[l] /\ s[l] \in Nat /\ s[k] \in Nat
      BY <1>1, <3>1
    <3> QED
      BY <3>2 DEF Below
  <2> HIDE DEF T
  <2>4. \A x : x \in T <=> \E l \in (k + 1)..n : s[l] = x
    BY <2>2, <2>3, Zenon
  <2>5. Cardinality(T) = n - k
    BY <1>3, <2>1, <2>4, Zenon
  <2> QED
    BY <2>5, Zenon DEF T, RankIn
<1> QED
  BY <1>1, <1>4, <1>5, Zenon DEF n

\* Where a list has gone on from an older one, that one is its end.
LEMMA LongerList ==
  ASSUME NEW old, NEW S, DescendsOver(old, S), NEW new, NEW T, DescendsOver(new, T),
         S \subseteq T, \A x \in T, y \in S : x \in S \/ x > y
  PROVE  LET d == Len(new) - Len(old)
         IN  /\ Len(old) \in Nat /\ Len(new) \in Nat /\ d \in Nat
             /\ \A i \in 1..Len(old) : i + d \in 1..Len(new) /\ new[i + d] = old[i]
<1> DEFINE m == Len(old)
           n == Len(new)
<1>1. /\ IsFiniteSet(S) /\ Cardinality(S) = m /\ m \in Nat
      /\ \A k \in 1..m : RankIn(S, old[k]) = m - k
  BY DescendingRank, Zenon
<1>2. /\ IsFiniteSet(T) /\ Cardinality(T) = n /\ n \in Nat
      /\ \A k \in 1..n : RankIn(T, new[k]) = n - k
  BY DescendingRank, Zenon
<1>3. m <= n
  <2>1. S \in SUBSET T
    OBVIOUS
  <2>2. Cardinality(S) <= Cardinality(T)
    BY <1>2, <2>1, FS_Subset, Zenon
  <2> QED
    BY <1>1, <1>2, <2>2
<1>4. /\ \A k \in 1..m : old[k] \in Nat /\ old[k] \in S
      /\ \A k \in 1..n : new[k] \in Nat /\ new[k] \in T
      /\ \A x \in T : \E k \in 1..n : new[k] = x
  BY DEF DescendsOver
<1> HIDE DEF m, n
<1>5. ASSUME NEW i \in 1..m
      PROVE  i + (n - m) \in 1..n /\ new[i + (n - m)] = old[i]
  <2>1. old[i] \in S /\ old[i] \in T /\ old[i] \in Nat
    BY <1>4
  <2>2. PICK j \in 1..n : new[j] = old[i]
    BY <1>4, <2>1
  <2>3. Below(S, old[i]) = Below(T, old[i])
    <3>1. \A x \in T : x \in Nat
      BY <1>4
    <3>2. ASSUME NEW x \in T, x < old[i] PROVE x \in S
      <4>1. ~(x > old[i])
        BY <2>1, <3>1, <3>2
      <4> QED
        BY <2>1, <3>2, <4>1
    <3> QED
      BY <3>2 DEF Below
  <2>4. m - i = n - j
    BY <1>1, <1>2, <2>2, <2>3, Zenon DEF RankIn
  <2>5. j = i + (n - m)
    BY <1>1, <1>2, <2>4
  <2> QED
    BY <2>2, <2>5
<1> QED
  BY <1>1, <1>2, <1>3, <1>5 DEF m, n

\* The games of a mode among the first n, which is what the list has of them.
OwnIDs      == \A i \in DOMAIN metas : metas[i].id = i
UpTo(n, md) == {i \in 1..n : metas[i].place > 0 /\ OfMode(metas[i], md)}

\* The IDs of a history are those of the entries listed, from the last to the first.
LEMMA IDsOfHistory ==
  ASSUME metas \in Seq(Meta), OwnIDs, NEW n \in 0..Len(metas), NEW md \in Modes
  PROVE  DescendsOver(ListWith(n, md), UpTo(n, md))
<1> DEFINE ms == SubSeq(metas, 1, n)
           hs == HistoryOf(ms, md)
           S  == ListedIn(ms, md)
           s  == ListWith(n, md)
<1>1. /\ n \in Nat /\ n <= Len(metas) /\ ms \in Seq(Meta) /\ Len(ms) = n /\ DOMAIN ms = 1..n
      /\ \A i \in 1..n : ms[i] = metas[i] /\ ms[i].id = i
  BY DEF OwnIDs
<1>2. S = UpTo(n, md) /\ S \subseteq 1..n
  <2> HIDE DEF ms
  <2> QED
    BY <1>1 DEF ListedIn, UpTo
<1> HIDE DEF ms, S
<1>3. hs \in Seq(Meta) /\ \E f : ListsBack(hs, ms, S, f)
  BY <1>1, HistoryLists, Zenon DEF S
<1>4. PICK f : ListsBack(hs, ms, S, f)
  BY <1>3, Zenon
<1>5. s = [k \in DOMAIN hs |-> hs[k].id]
  BY DEF ListWith, IDsIn, HistoryOf, ms
<1> HIDE DEF hs, s
<1>6. DOMAIN hs = 1..Len(hs) /\ Len(hs) \in Nat
  BY <1>3
<1>7. /\ f \in [1..Len(hs) -> S]
      /\ \A k, l \in 1..Len(hs) : k < l => f[k] > f[l]
      /\ \A i \in S : \E k \in 1..Len(hs) : f[k] = i
      /\ \A k \in 1..Len(hs) : hs[k] = ms[f[k]]
  BY <1>4 DEF ListsBack
<1>8. \A k \in 1..Len(hs) : s[k] = f[k] /\ f[k] \in S /\ f[k] \in Nat
  <2> TAKE k \in 1..Len(hs)
  <2>1. f[k] \in S /\ hs[k] = ms[f[k]]
    BY <1>7
  <2>2. f[k] \in 1..n /\ f[k] \in Nat
    BY <1>1, <1>2, <2>1
  <2>3. s[k] = hs[k].id
    BY <1>5, <1>6
  <2> QED
    BY <1>1, <2>1, <2>2, <2>3
<1>9. s \in Seq(Nat) /\ Len(s) = Len(hs)
  <2> DEFINE n0 == Len(hs)
  <2>1. s = [k \in 1..n0 |-> hs[k].id] /\ n0 \in Nat
    BY <1>5, <1>6
  <2>2. \A k \in 1..n0 : hs[k].id \in Nat
    <3> TAKE k \in 1..n0
    <3>1. s[k] = hs[k].id
      BY <2>1
    <3> QED
      BY <1>8, <3>1
  <2> HIDE DEF n0
  <2>3. s \in Seq(Nat) /\ Len(s) = n0
    BY <2>1, <2>2
  <2> QED
    BY <2>3 DEF n0
<1>10. DescendsOver(s, S)
  BY <1>7, <1>8, <1>9 DEF DescendsOver
<1> QED
  BY <1>2, <1>10, Zenon DEF s

\* The list with all games saved is the one with the first n of them behind what was
\* saved since.
LEMMA HistoryGrows ==
  ASSUME metas \in Seq(Meta), OwnIDs, NEW n \in 0..Len(metas), NEW md \in Modes
  PROVE  LET old == ListWith(n, md)
             new == ListWith(Len(metas), md)
             d   == Len(new) - Len(old)
         IN  /\ Len(old) \in Nat /\ Len(new) \in Nat /\ d \in Nat
             /\ \A i \in 1..Len(old) : i + d \in 1..Len(new) /\ new[i + d] = old[i]
             /\ \A k, l \in 1..Len(new) : k < l => new[k] > new[l]
             /\ \A k \in 1..Len(new) : new[k] \in 1..Len(metas)
             /\ Len(new) <= Len(metas)
<1> DEFINE m   == Len(metas)
           old == ListWith(n, md)
           new == ListWith(m, md)
<1>1. m \in Nat /\ n \in 0..m /\ m \in 0..m
  OBVIOUS
<1>2. DescendsOver(old, UpTo(n, md)) /\ DescendsOver(new, UpTo(m, md))
  BY <1>1, IDsOfHistory, Zenon
<1> HIDE DEF m, old, new
<1>3. /\ UpTo(n, md) \subseteq UpTo(m, md)
      /\ \A x \in UpTo(m, md), y \in UpTo(n, md) : x \in UpTo(n, md) \/ x > y
  BY <1>1 DEF UpTo
<1>4. /\ Len(old) \in Nat /\ Len(new) \in Nat /\ Len(new) - Len(old) \in Nat
      /\ \A i \in 1..Len(old) : /\ i + (Len(new) - Len(old)) \in 1..Len(new)
                                /\ new[i + (Len(new) - Len(old))] = old[i]
  BY <1>2, <1>3, LongerList, Zenon
<1>5. \A k, l \in 1..Len(new) : k < l => new[k] > new[l]
  BY <1>2 DEF DescendsOver
<1>6. \A k \in 1..Len(new) : new[k] \in 1..m
  BY <1>2 DEF DescendsOver, UpTo
<1>7. Len(new) <= m
  <2>1. Cardinality(UpTo(m, md)) = Len(new)
    BY <1>2, DescendingRank, Zenon
  <2>2. UpTo(m, md) \in SUBSET (1..m)
    BY DEF UpTo
  <2>3. IsFiniteSet(1..m) /\ Cardinality(1..m) = m
    BY <1>1, FS_Interval
  <2>4. Cardinality(UpTo(m, md)) <= Cardinality(1..m)
    BY <2>2, <2>3, FS_Subset, Zenon
  <2> QED
    BY <2>1, <2>3, <2>4
<1> QED
  BY <1>4, <1>5, <1>6, <1>7, Zenon DEF m, old, new

-----------------------------------------------------------------------------
(* The answers of the APIs *)

\* What the list of a mode holds is counted alike wherever it is counted.
LEMMA HistoryFigures ==
  ASSUME metas \in Seq(Meta), NEW md \in Modes
  PROVE  /\ RestGames(md) \in Seq(Meta) /\ Len(RestGames(md)) \in Nat
         /\ Compute(RestGames(md)) = Figures(metas, ListedIn(metas, md))
         /\ Len(RestGames(md)) = Cardinality(ListedIn(metas, md))
         /\ \A k \in 1..Len(RestGames(md)) : \E i \in DOMAIN metas : RestGames(md)[k] = metas[i]
<1> DEFINE hs == RestGames(md)
           S  == ListedIn(metas, md)
<1>1. hs = HistoryOf(metas, md)
  BY DEF RestGames, HistoryOf, ListGames, LoadAllMetas
<1> HIDE DEF hs
<1>2. hs \in Seq(Meta) /\ \E f : ListsBack(hs, metas, S, f)
  BY <1>1, HistoryLists, Zenon
<1>3. PICK f : ListsBack(hs, metas, S, f)
  BY <1>2, Zenon
<1>4. S \in SUBSET (DOMAIN metas) /\ S \in SUBSET Nat
  BY DEF ListedIn
<1> HIDE DEF S
<1>5. Compute(hs) = Figures(metas, S)
  BY <1>2, <1>3, <1>4, FiguresOfList, Zenon
<1>6. Len(hs) \in Nat
  BY <1>2
<1>7. Cardinality(1..Len(hs)) = Cardinality(S)
  <2>1. \A k \in 1..Len(hs) : f[k] \in S
    BY <1>3 DEF ListsBack
  <2>2. (1..Len(hs)) \in SUBSET (1..Len(hs)) /\ S \in SUBSET S
    OBVIOUS
  <2>3. \A k \in 1..Len(hs) : k \in 1..Len(hs) <=> f[k] \in S
    BY <2>1
  <2> QED
    BY <1>2, <1>3, <1>4, <2>2, <2>3, PickCount
<1>8. Cardinality(1..Len(hs)) = Len(hs)
  <2>1. 1 \in Int /\ Len(hs) \in Int
    BY <1>6
  <2>2. Cardinality(1..Len(hs)) = IF 1 > Len(hs) THEN 0 ELSE Len(hs) - 1 + 1
    BY <2>1, FS_Interval, Zenon
  <2> DEFINE n == Len(hs)
  <2> HIDE DEF n
  <2>3. Cardinality(1..n) = n
    BY <1>6, <2>2 DEF n
  <2> QED
    BY <2>3 DEF n
<1>9. \A k \in 1..Len(hs) : \E i \in DOMAIN metas : hs[k] = metas[i]
  BY <1>3, <1>4 DEF ListsBack
<1> QED
  BY <1>2, <1>5, <1>6, <1>7, <1>8, <1>9, Zenon DEF hs, S

\* The lesser of two.
LEMMA MinOfTwo ==
  ASSUME NEW a \in Nat, NEW b \in Nat
  PROVE  Min({a, b}) = IF a <= b THEN a ELSE b
<1> DEFINE m == IF a <= b THEN a ELSE b
<1>1. m \in {a, b} /\ \A y \in {a, b} : m <= y
  OBVIOUS
<1>2. Min({a, b}) \in {a, b} /\ \A y \in {a, b} : Min({a, b}) <= y
  BY <1>1 DEF Min
<1> QED
  BY <1>2

\* A page, of a list that reaches to its offset.
LEMMA PageOf ==
  ASSUME NEW T, NEW ms \in Seq(T), NEW limit \in Nat, NEW offset \in 0..Len(ms)
  PROVE  LET page == Paginate(ms, limit, offset)
             last == IF limit = 0 \/ Len(ms) <= offset + limit THEN Len(ms) ELSE offset + limit
         IN  /\ last \in offset..Len(ms) /\ page \in Seq(T) /\ Len(page) = last - offset
             /\ \A k \in 1..Len(page) : page[k] = ms[offset + k]
             /\ (offset = 0 /\ limit = 0) => page = ms
<1> DEFINE n    == Len(ms)
           last == IF limit = 0 \/ n <= offset + limit THEN n ELSE offset + limit
           page == Paginate(ms, limit, offset)
<1>1. n \in Nat /\ offset \in Nat /\ offset <= n /\ last \in Nat /\ offset <= last /\ last <= n
  OBVIOUS
<1>2. last = IF limit = 0 THEN n ELSE Min({n, offset + limit})
  <2>1. Min({n, offset + limit}) = IF n <= offset + limit THEN n ELSE offset + limit
    <3>1. offset + limit \in Nat
      BY <1>1
    <3> HIDE DEF n
    <3> QED
      BY <1>1, <3>1, MinOfTwo, Zenon
  <2> QED
    BY <2>1
<1>3. page = SubSeq(ms, offset + 1, last)
  BY <1>2 DEF Paginate
<1> HIDE DEF last, page
<1>4. page \in Seq(T) /\ Len(page) = last - offset /\ \A k \in 1..Len(page) : page[k] = ms[offset + k]
  BY <1>1, <1>3
<1>5. (offset = 0 /\ limit = 0) => page = ms
  <2> SUFFICES ASSUME offset = 0, limit = 0 PROVE page = ms
    OBVIOUS
  <2>1. last = Len(ms)
    BY DEF last
  <2>2. page = SubSeq(ms, 1, Len(ms))
    BY <1>3, <2>1
  <2> QED
    BY <2>2
<1>6. last \in offset..Len(ms)
  BY <1>1
<1> QED
  BY <1>4, <1>5, <1>6 DEF last, page

\* The lists, the totals and the aggregates of the APIs count the entries listed.
LEMMA Answers ==
  ASSUME DashboardAssumption, metas \in Seq(Meta), OwnIDs
  PROVE  AnswersAgree
<1> DEFINE cs   == RestGames("all")
           L    == ListedIn(metas, "all")
           rest == RestListGames("all", 0, 0)
           grpc == GrpcListGames(0, 0)
<1>1. "all" \in Modes /\ "solo" \in Modes /\ "duos" \in Modes
  BY DEF Modes
<1>2. /\ cs \in Seq(Meta) /\ Len(cs) \in Nat
      /\ Compute(cs) = Figures(metas, L) /\ Len(cs) = Cardinality(L)
      /\ \A k \in 1..Len(cs) : \E i \in DOMAIN metas : cs[k] = metas[i]
  BY <1>1, HistoryFigures, Zenon
<1>3. cs = FilterCompleteGames(ListGames)
  BY DEF RestGames, FilterByMode
<1> HIDE DEF cs
<1>4. rest.games = cs /\ rest.total = Len(cs)
  <2>1. rest = [games |-> Paginate(cs, 0, 0), total |-> Len(cs)]
    BY DEF RestListGames, cs
  <2>2. 0 \in 0..Len(cs) /\ 0 \in Nat
    BY <1>2
  <2>3. Paginate(cs, 0, 0) = cs
    BY <1>2, <2>2, PageOf
  <2> QED
    BY <2>1, <2>3
<1>5. grpc.total = Len(cs) /\ IsPrefix(grpc.games, cs)
  <2>1. grpc = [games |-> Paginate(cs, DefaultLimit, 0), total |-> Len(cs)]
    BY <1>3 DEF GrpcListGames
  <2> DEFINE page == Paginate(cs, DefaultLimit, 0)
  <2>2. DefaultLimit \in Nat /\ 0 \in 0..Len(cs)
    BY <1>2 DEF DashboardAssumption
  <2>3. /\ page \in Seq(Meta) /\ Len(page) <= Len(cs)
        /\ \A k \in 1..Len(page) : page[k] = cs[0 + k]
    <3> DEFINE last == IF DefaultLimit = 0 \/ Len(cs) <= 0 + DefaultLimit THEN Len(cs)
                       ELSE 0 + DefaultLimit
    <3>1. /\ last \in 0..Len(cs) /\ page \in Seq(Meta) /\ Len(page) = last - 0
          /\ \A k \in 1..Len(page) : page[k] = cs[0 + k]
      BY <1>2, <2>2, PageOf
    <3> HIDE DEF page, last
    <3>2. Len(page) <= Len(cs)
      BY <1>2, <3>1
    <3> QED
      BY <3>1, <3>2
  <2> HIDE DEF page
  <2>4. SubSeq(page, 1, Len(page)) = SubSeq(cs, 1, Len(page))
    <3>1. Len(page) \in Nat /\ \A k \in 1..Len(page) : page[k] = cs[k]
      BY <2>3
    <3>2. SubSeq(page, 1, Len(page)) = page
      BY <2>3
    <3>3. /\ SubSeq(cs, 1, Len(page)) \in Seq(Meta) /\ Len(SubSeq(cs, 1, Len(page))) = Len(page)
          /\ \A k \in 1..Len(page) : SubSeq(cs, 1, Len(page))[k] = cs[k]
      BY <1>2, <2>3, <3>1
    <3> DEFINE q == SubSeq(cs, 1, Len(page))
    <3> HIDE DEF q
    <3>4. q \in Seq(Meta) /\ Len(q) = Len(page) /\ \A k \in 1..Len(page) : q[k] = page[k]
      BY <3>1, <3>3 DEF q
    <3>5. q = page
      BY <2>3, <3>4, SeqEqual, Zenon
    <3> QED
      BY <3>2, <3>5 DEF q
  <2> QED
    BY <2>1, <2>3, <2>4 DEF IsPrefix, page
<1>6. CountedIn(metas, L) = L /\ CountedIn(metas, DOMAIN metas) = L
  BY DEF CountedIn, ListedIn, OfMode
<1>7. RestGetAggregate("all") = Figures(metas, L) /\ GetAggregate = Figures(metas, L)
  <2>1. GetAggregate = Figures(metas, DOMAIN metas)
    BY ComputeIsFigures, Zenon DEF GetAggregate, LoadAllMetas
  <2>2. Figures(metas, DOMAIN metas) = Figures(metas, L)
    BY <1>6, Zenon DEF Figures
  <2>3. RestGetAggregate("all") = Figures(metas, L)
    BY <1>2, Zenon DEF RestGetAggregate, cs
  <2> QED
    BY <2>1, <2>2, <2>3, Zenon
<1>8. Figures(metas, L).played = Len(cs)
  BY <1>2, <1>6 DEF Figures
<1>9. \A f \in {"played", "wins", "losses", "sum"} :
        RestGetAggregate("all")[f] = RestGetAggregate("solo")[f] + RestGetAggregate("duos")[f]
  <2> DEFINE S1 == ListedIn(metas, "solo")
             S2 == ListedIn(metas, "duos")
  <2>1. L \in SUBSET (DOMAIN metas)
    BY DEF ListedIn
  <2>2. L = S1 \cup S2 /\ S1 \cap S2 = {}
    <3>1. \A i \in DOMAIN metas : metas[i].duos \in BOOLEAN
      <4>1. \A m \in Meta : m.duos \in BOOLEAN
        BY DEF Meta
      <4> QED
        BY <4>1
    <3>2. \A i \in DOMAIN metas : /\ OfMode(metas[i], "all")
                                  /\ OfMode(metas[i], "solo") <=> ~metas[i].duos
                                  /\ OfMode(metas[i], "duos") <=> metas[i].duos
      BY <3>1 DEF OfMode
    <3> QED
      BY <3>2 DEF ListedIn
  <2> HIDE DEF S1, S2, L
  <2>3. \A f \in {"played", "wins", "losses", "sum"} :
          Figures(metas, L)[f] = Figures(metas, S1)[f] + Figures(metas, S2)[f]
    BY <2>1, <2>2, FiguresAdd
  <2>4. RestGetAggregate("solo") = Figures(metas, S1) /\ RestGetAggregate("duos") = Figures(metas, S2)
    BY <1>1, HistoryFigures, Zenon DEF RestGetAggregate, S1, S2
  <2> QED
    BY <1>7, <2>3, <2>4, Zenon
<1>10. \A m \in ToSet(cs) : RestGetGame(m.id) = {m}
  <2> TAKE m \in ToSet(cs)
  <2>1. PICK i \in DOMAIN metas : m = metas[i]
    <3>1. PICK k \in DOMAIN cs : m = cs[k]
      BY DEF ToSet
    <3>2. k \in 1..Len(cs)
      BY <1>2, <3>1
    <3> QED
      BY <1>2, <3>1, <3>2
  <2>2. \A j \in DOMAIN metas : metas[j].id = m.id <=> j = i
    BY <2>1 DEF OwnIDs
  <2> QED
    BY <2>1, <2>2 DEF RestGetGame, GetGame, ToSet
<1> HIDE DEF rest, grpc, L
<1> QED
  BY <1>4, <1>5, <1>7, <1>8, <1>9, <1>10, Zenon DEF AnswersAgree, rest, grpc

-----------------------------------------------------------------------------
(* The inductive invariant of the page *)

\* How far a refresh is, between the list it began with and the list by now: every game
\* that the saves since have not pushed past its offset is among its own, and while they
\* are none, or one, its games keep their ranked, or their order.
KeepsUp(st, offset, all, old, new) ==
  LET d == Len(new) - Len(old)
  IN  /\ Len(all) = offset /\ offset <= Len(new)
      /\ \A k \in 1..offset : \E j \in 1..Len(new) : all[k] = new[j]
      /\ \A i \in 1..Len(old) : i + d <= offset \/ st = "done" =>
           \E k \in 1..offset : all[k] = old[i]
      /\ d = 0 => /\ st = "done" => offset = Len(old)
                  /\ \A k \in 1..offset : all[k] = old[k]
      /\ d <= 1 => /\ \A k, l \in 1..offset : k < l => all[k] >= all[l]
                   /\ \A k \in 1..offset : k <= Len(old) => all[k] >= old[k]

Following(load) ==
  /\ load.began <= Len(metas)
  /\ KeepsUp(load.step, load.offset, load.all,
             ListWith(load.began, load.mode), ListWith(Len(metas), load.mode))

Fetching == \A l \in Loads : loads[l].step # "idle" => Following(loads[l])

PageInv == PageTypeOK /\ OwnIDs /\ Fetching

\* The newer list of two, as HistoryGrows has it.
GrewFrom(old, new) ==
  LET d == Len(new) - Len(old)
  IN  /\ Len(old) \in Nat /\ Len(new) \in Nat /\ d \in Nat
      /\ \A i \in 1..Len(old) : i + d \in 1..Len(new) /\ new[i + d] = old[i]
      /\ \A k, l \in 1..Len(new) : k < l => new[k] > new[l]
      /\ \A k \in 1..Len(new) : new[k] \in Nat

\* One more page.
LEMMA FetchFollows ==
  ASSUME NEW old, NEW new, GrewFrom(old, new), NEW o \in Nat, NEW n \in Nat,
         NEW all, KeepsUp("fetch", o, all, old, new),
         o <= n, n <= Len(new), NEW st \in {"fetch", "done"}, st = "done" => n = Len(new),
         NEW more, Len(more) = n,
         \A k \in 1..n : more[k] = IF k <= o THEN all[k] ELSE new[k]
  PROVE  KeepsUp(st, n, more, old, new)
<1> DEFINE m == Len(old)
           w == Len(new)
           d == w - m
<1>1. /\ m \in Nat /\ w \in Nat /\ d \in Nat /\ d = w - m
      /\ \A i \in 1..m : i + d \in 1..w /\ new[i + d] = old[i]
      /\ \A k, l \in 1..w : k < l => new[k] > new[l]
      /\ \A k \in 1..w : new[k] \in Nat
  BY DEF GrewFrom
<1>2. /\ o <= w
      /\ \A k \in 1..o : \E j \in 1..w : all[k] = new[j]
      /\ \A i \in 1..m : i + d <= o => \E k \in 1..o : all[k] = old[i]
      /\ d = 0 => \A k \in 1..o : all[k] = old[k]
      /\ d <= 1 => /\ \A k, l \in 1..o : k < l => all[k] >= all[l]
                   /\ \A k \in 1..o : k <= m => all[k] >= old[k]
  BY DEF KeepsUp
<1>3. n <= w /\ (st = "done" => n = w)
  OBVIOUS
<1> HIDE DEF m, w, d
<1>4. ASSUME NEW k \in 1..n
      PROVE  /\ k \in 1..o \/ k \in (o + 1)..w
             /\ k \in 1..o => more[k] = all[k]
             /\ k \notin 1..o => more[k] = new[k] /\ k \in 1..w
  BY <1>1, <1>3
<1>5. \A k \in 1..n : \E j \in 1..w : more[k] = new[j]
  BY <1>2, <1>4
<1>6. \A k \in 1..n : more[k] \in Nat
  BY <1>1, <1>5
<1>7. ASSUME NEW i \in 1..m, i + d <= n \/ st = "done" PROVE \E k \in 1..n : more[k] = old[i]
  <2>1. i + d <= n /\ i + d \in 1..w /\ new[i + d] = old[i]
    BY <1>1, <1>3, <1>7
  <2>2. CASE i + d <= o
    <3>1. PICK k \in 1..o : all[k] = old[i]
      BY <1>2, <2>2
    <3>2. k \in 1..n
      OBVIOUS
    <3> QED
      BY <1>4, <3>1, <3>2
  <2>3. CASE ~(i + d <= o)
    <3>1. i + d \in 1..n /\ i + d \notin 1..o
      BY <1>1, <2>1, <2>3
    <3>2. more[i + d] = new[i + d]
      BY <1>4, <3>1
    <3> QED
      BY <2>1, <3>1, <3>2
  <2> QED
    BY <2>2, <2>3
<1>8. ASSUME d = 0
      PROVE  /\ st = "done" => n = m
             /\ \A k \in 1..n : more[k] = old[k]
  <2>1. w = m /\ \A i \in 1..m : new[i] = old[i]
    BY <1>1, <1>8
  <2> QED
    BY <1>2, <1>3, <1>4, <1>8, <2>1
<1>9. ASSUME d <= 1, NEW k \in 1..n, k <= m PROVE more[k] >= old[k]
  <2>1. CASE k \in 1..o
    BY <1>2, <1>4, <1>9, <2>1
  <2>2. CASE k \notin 1..o
    <3>1. more[k] = new[k] /\ k \in 1..w /\ k \in 1..m /\ k + d \in 1..w /\ new[k + d] = old[k]
      BY <1>1, <1>4, <1>9, <2>2
    <3>2. new[k] >= new[k + d]
      <4>1. d = 0 \/ k < k + d
        BY <1>1
      <4>2. CASE d = 0
        <5>1. k + d = k
          BY <4>2
        <5> QED
          BY <1>1, <3>1, <5>1
      <4>3. CASE k < k + d
        <5>1. new[k] > new[k + d] /\ new[k] \in Nat /\ new[k + d] \in Nat
          BY <1>1, <3>1, <4>3
        <5> QED
          BY <5>1
      <4> QED
        BY <4>1, <4>2, <4>3
    <3> QED
      BY <3>1, <3>2
  <2> QED
    BY <2>1, <2>2
<1>10. ASSUME d <= 1, NEW k \in 1..n, NEW l \in 1..n, k < l PROVE more[k] >= more[l]
  <2>0. more[k] \in Nat /\ more[l] \in Nat
    BY <1>6
  <2>1. CASE l \in 1..o
    <3>1. k \in 1..o
      BY <1>10, <2>1
    <3> QED
      BY <1>2, <1>4, <1>10, <2>1, <3>1
  <2>2. CASE l \notin 1..o /\ k \notin 1..o
    <3>1. more[k] = new[k] /\ more[l] = new[l] /\ k \in 1..w /\ l \in 1..w
      BY <1>4, <2>2
    <3>2. new[k] > new[l]
      BY <1>1, <1>10, <3>1
    <3> QED
      BY <2>0, <3>1, <3>2
  <2>3. CASE l \notin 1..o /\ k \in 1..o
    \* By then the list is at most one game longer, and the entry at l is one that
    \* was at l or before it in the old.
    <3>1. more[k] = all[k] /\ more[l] = new[l] /\ l \in 1..w /\ o < l /\ k \in 1..n
      BY <1>4, <2>3
    <3>2. o \in 1..n /\ more[o] = all[o] /\ all[o] \in Nat
      BY <1>4, <1>6, <2>3
    <3>3. all[k] >= all[o]
      <4>1. k = o \/ k < o
        BY <2>3
      <4> QED
        BY <1>2, <1>10, <2>3, <3>2, <4>1
    <3>4. all[o] >= new[l]
      <4>1. o \in 1..m
        BY <1>1, <1>10, <3>1, <3>2
      <4>2. all[o] >= old[o]
        BY <1>2, <1>10, <3>2, <4>1
      <4>3. o + d \in 1..w /\ new[o + d] = old[o] /\ o + d <= l
        BY <1>1, <1>10, <3>1, <4>1
      <4>4. new[o + d] >= new[l]
        <5>1. o + d = l \/ o + d < l
          BY <1>1, <4>3
        <5>2. new[o + d] \in Nat /\ new[l] \in Nat
          BY <1>1, <3>1, <4>3
        <5> QED
          BY <1>1, <3>1, <4>3, <5>1, <5>2
      <4> QED
        BY <1>1, <3>1, <3>2, <4>2, <4>3, <4>4
    <3> QED
      BY <2>0, <3>1, <3>2, <3>3, <3>4
  <2> QED
    BY <2>1, <2>2, <2>3
<1> QED
  BY <1>3, <1>5, <1>7, <1>8, <1>9, <1>10 DEF KeepsUp, m, w, d

\* One more game, of the list or not.
LEMMA SaveFollows ==
  ASSUME NEW old, NEW new, GrewFrom(old, new), NEW longer, GrewFrom(new, longer),
         NEW o \in Nat, NEW st, NEW all, KeepsUp(st, o, all, old, new)
  PROVE  KeepsUp(st, o, all, old, longer)
<1> DEFINE m == Len(old)
           w == Len(new)
           v == Len(longer)
<1>1. /\ m \in Nat /\ w \in Nat /\ v \in Nat /\ w - m \in Nat /\ v - w \in Nat
      /\ \A i \in 1..w : i + (v - w) \in 1..v /\ longer[i + (v - w)] = new[i]
  BY DEF GrewFrom
<1>2. /\ Len(all) = o /\ o <= w
      /\ \A k \in 1..o : \E j \in 1..w : all[k] = new[j]
      /\ \A i \in 1..m : i + (w - m) <= o \/ st = "done" => \E k \in 1..o : all[k] = old[i]
      /\ w - m = 0 => /\ st = "done" => o = m
                      /\ \A k \in 1..o : all[k] = old[k]
      /\ w - m <= 1 => /\ \A k, l \in 1..o : k < l => all[k] >= all[l]
                       /\ \A k \in 1..o : k <= m => all[k] >= old[k]
  BY DEF KeepsUp
<1> HIDE DEF m, w, v
<1>3. o <= v
  BY <1>1, <1>2
<1>4. \A k \in 1..o : \E j \in 1..v : all[k] = longer[j]
  <2> TAKE k \in 1..o
  <2>1. PICK j \in 1..w : all[k] = new[j]
    BY <1>2
  <2>2. j + (v - w) \in 1..v /\ longer[j + (v - w)] = new[j]
    BY <1>1
  <2> QED
    BY <2>1, <2>2
<1>5. ASSUME NEW i \in 1..m, i + (v - m) <= o \/ st = "done" PROVE \E k \in 1..o : all[k] = old[i]
  <2>1. i + (w - m) <= o \/ st = "done"
    BY <1>1, <1>5
  <2> QED
    BY <1>2, <2>1
<1>6. (v - m = 0 => w - m = 0) /\ (v - m <= 1 => w - m <= 1)
  BY <1>1
<1> QED
  BY <1>2, <1>3, <1>4, <1>5, <1>6 DEF KeepsUp, m, w, v

\* What it means in the end.
LEMMA DoneWhole ==
  ASSUME NEW old, NEW new, GrewFrom(old, new), NEW o \in Nat, NEW all \in Seq(Nat),
         old \in Seq(Nat), new \in Seq(Nat), KeepsUp("done", o, all, old, new)
  PROVE  /\ ToSet(old) \subseteq ToSet(all) /\ ToSet(all) \subseteq ToSet(new)
         /\ Len(new) = Len(old) => all = old
         /\ Len(new) <= Len(old) + 1 => NewestFirst(all)
<1>1. /\ DOMAIN old = 1..Len(old) /\ DOMAIN new = 1..Len(new) /\ DOMAIN all = 1..Len(all)
      /\ Len(old) \in Nat /\ Len(new) \in Nat /\ Len(all) \in Nat
  OBVIOUS
<1>2. /\ Len(all) = o
      /\ \A k \in 1..o : \E j \in 1..Len(new) : all[k] = new[j]
      /\ \A i \in 1..Len(old) : \E k \in 1..o : all[k] = old[i]
      /\ Len(new) - Len(old) = 0 => /\ o = Len(old)
                                    /\ \A k \in 1..o : all[k] = old[k]
      /\ Len(new) - Len(old) <= 1 => \A k, l \in 1..o : k < l => all[k] >= all[l]
  BY DEF KeepsUp
<1>3. ToSet(old) \subseteq ToSet(all) /\ ToSet(all) \subseteq ToSet(new)
  <2>1. ASSUME NEW x \in ToSet(old) PROVE x \in ToSet(all)
    <3>1. PICK i \in DOMAIN old : x = old[i]
      BY DEF ToSet
    <3>2. i \in 1..Len(old)
      BY <1>1, <3>1
    <3>3. PICK k \in 1..o : all[k] = old[i]
      BY <1>2, <3>2, Zenon
    <3>4. k \in DOMAIN all /\ all[k] = x
      BY <1>1, <1>2, <3>1, <3>3, Zenon
    <3> QED
      BY <3>4 DEF ToSet
  <2>2. ASSUME NEW x \in ToSet(all) PROVE x \in ToSet(new)
    <3>1. PICK k \in DOMAIN all : x = all[k]
      BY DEF ToSet
    <3>2. k \in 1..o
      BY <1>1, <1>2, <3>1
    <3>3. PICK j \in 1..Len(new) : all[k] = new[j]
      BY <1>2, <3>2, Zenon
    <3>4. j \in DOMAIN new /\ new[j] = x
      BY <1>1, <3>1, <3>3, Zenon
    <3> QED
      BY <3>4 DEF ToSet
  <2> QED
    BY <2>1, <2>2, Zenon
<1>4. ASSUME Len(new) = Len(old) PROVE all = old
  <2>0. Len(new) - Len(old) = 0
    BY <1>1, <1>4
  <2>1. Len(all) = Len(old) /\ \A k \in 1..Len(all) : all[k] = old[k]
    <3>1. Len(all) = o /\ o = Len(old) /\ \A k \in 1..o : all[k] = old[k]
      BY <1>2, <2>0, Zenon
    <3> QED
      BY <3>1, Zenon
  <2> QED
    BY <2>1, SeqEqual, Zenon
<1>5. ASSUME Len(new) <= Len(old) + 1 PROVE NewestFirst(all)
  <2>1. Len(new) - Len(old) <= 1
    BY <1>1, <1>5
  <2> QED
    BY <1>1, <1>2, <2>1 DEF NewestFirst
<1> QED
  BY <1>3, <1>4, <1>5, Zenon

-----------------------------------------------------------------------------
(* The page keeps its invariant *)

\* A list and a newer one, of the same mode.
LEMMA Grown ==
  ASSUME metas \in Seq(Meta), OwnIDs, NEW n \in 0..Len(metas), NEW md \in Modes
  PROVE  /\ GrewFrom(ListWith(n, md), ListWith(Len(metas), md))
         /\ ListWith(n, md) \in Seq(Nat) /\ ListWith(Len(metas), md) \in Seq(Nat)
         /\ Len(ListWith(Len(metas), md)) <= Len(metas)
         /\ \A k \in 1..Len(ListWith(Len(metas), md)) :
              ListWith(Len(metas), md)[k] \in 1..Len(metas)
<1> DEFINE m   == Len(metas)
           old == ListWith(n, md)
           new == ListWith(m, md)
<1>1. m \in Nat /\ m \in 0..m
  OBVIOUS
<1>2. LET d == Len(new) - Len(old)
      IN  /\ Len(old) \in Nat /\ Len(new) \in Nat /\ d \in Nat
          /\ \A i \in 1..Len(old) : i + d \in 1..Len(new) /\ new[i + d] = old[i]
          /\ \A k, l \in 1..Len(new) : k < l => new[k] > new[l]
          /\ \A k \in 1..Len(new) : new[k] \in 1..m
          /\ Len(new) <= m
  BY HistoryGrows, Zenon
<1>3. DescendsOver(old, UpTo(n, md)) /\ DescendsOver(new, UpTo(m, md))
  BY <1>1, IDsOfHistory, Zenon
<1> HIDE DEF m, old, new
<1>4. \A k \in 1..Len(new) : new[k] \in Nat
  BY <1>1, <1>2
<1>5. old \in Seq(Nat) /\ new \in Seq(Nat)
  BY <1>3 DEF DescendsOver
<1> QED
  BY <1>2, <1>4, <1>5, Zenon DEF GrewFrom, m, old, new

\* What a save does to the lists.
LEMMA SavedLists ==
  ASSUME metas \in Seq(Meta), OwnIDs, NEW e \in Meta, e.id = Len(metas) + 1,
         metas' = Append(metas, e)
  PROVE  /\ metas' \in Seq(Meta) /\ OwnIDs' /\ Len(metas') = Len(metas) + 1
         /\ \A md \in Modes : \A n \in 0..Len(metas) :
              /\ ListWith(n, md)' = ListWith(n, md)
              /\ GrewFrom(ListWith(n, md)', ListWith(Len(metas), md)')
<1>1. /\ metas' \in Seq(Meta) /\ Len(metas') = Len(metas) + 1 /\ Len(metas) \in Nat
      /\ DOMAIN metas = 1..Len(metas) /\ DOMAIN metas' = 1..(Len(metas) + 1)
      /\ \A i \in 1..Len(metas) : metas'[i] = metas[i]
      /\ metas'[Len(metas) + 1] = e
  OBVIOUS
<1>2. OwnIDs'
  BY <1>1 DEF OwnIDs
<1>3. ASSUME NEW md \in Modes, NEW n \in 0..Len(metas)
      PROVE  /\ ListWith(n, md)' = ListWith(n, md)
             /\ GrewFrom(ListWith(n, md)', ListWith(Len(metas), md)')
  <2>1. SubSeq(metas', 1, n) = SubSeq(metas, 1, n)
    <3>1. n \in Nat /\ n <= Len(metas)
      BY <1>1
    <3>2. /\ SubSeq(metas, 1, n) \in Seq(Meta) /\ Len(SubSeq(metas, 1, n)) = n
          /\ \A i \in 1..n : SubSeq(metas, 1, n)[i] = metas[i]
      BY <1>1, <3>1
    <3>3. /\ SubSeq(metas', 1, n) \in Seq(Meta) /\ Len(SubSeq(metas', 1, n)) = n
          /\ \A i \in 1..n : SubSeq(metas', 1, n)[i] = metas'[i]
      BY <1>1, <3>1
    <3> DEFINE p == SubSeq(metas, 1, n)
               q == SubSeq(metas', 1, n)
    <3>4. p \in Seq(Meta) /\ q \in Seq(Meta) /\ Len(p) = Len(q) /\ Len(p) = n
      BY <3>2, <3>3
    <3>5. \A i \in 1..Len(p) : p[i] = q[i]
      BY <1>1, <3>1, <3>2, <3>3
    <3> HIDE DEF p, q
    <3>6. p = q
      BY <3>4, <3>5, SeqEqual, Zenon
    <3> QED
      BY <3>6 DEF p, q
  <2>2. ListWith(n, md)' = ListWith(n, md)
    BY <2>1, Zenon DEF ListWith
  <2>3. n \in 0..Len(metas')
    BY <1>1
  <2>4. GrewFrom(ListWith(n, md), ListWith(Len(metas), md))'
    <3>1. (metas \in Seq(Meta) /\ OwnIDs /\ n \in 0..Len(metas))'
      BY <1>1, <1>2, <2>3
    <3> QED
      BY <3>1, Grown, PTL
  <2> QED
    BY <2>2, <2>4
<1> QED
  BY <1>1, <1>2, <1>3

\* A refresh after a request.
After(r, st, offset, total, all) ==
  [r EXCEPT !.step = st, !.offset = offset, !.total = total, !.all = all]

\* Which is a refresh again, of the mode and the list it began with.
LEMMA LoadFields ==
  ASSUME NEW r \in Load, NEW a \in {"idle", "fetch", "done"}, NEW b \in 0..MaxGames,
         NEW c \in 0..Unknown, NEW d \in Seq(IDsUsed)
  PROVE  /\ After(r, a, b, c, d) \in Load
         /\ After(r, a, b, c, d).step = a /\ After(r, a, b, c, d).offset = b
         /\ After(r, a, b, c, d).all = d
         /\ After(r, a, b, c, d).mode = r.mode /\ After(r, a, b, c, d).began = r.began
<1> DEFINE q1 == [r EXCEPT !.step = a]
           q2 == [q1 EXCEPT !.offset = b]
           q3 == [q2 EXCEPT !.total = c]
           q4 == [q3 EXCEPT !.all = d]
<1>1. q1 \in Load /\ q1.step = a /\ q1.mode = r.mode /\ q1.began = r.began
  BY DEF Load
<1> HIDE DEF q1
<1>2. q2 \in Load /\ q2.step = a /\ q2.mode = r.mode /\ q2.began = r.began /\ q2.offset = b
  BY <1>1 DEF Load
<1> HIDE DEF q2
<1>3. q3 \in Load /\ q3.step = a /\ q3.mode = r.mode /\ q3.began = r.began /\ q3.offset = b
  BY <1>2 DEF Load
<1> HIDE DEF q3
<1>4. /\ q4 \in Load /\ q4.step = a /\ q4.mode = r.mode /\ q4.began = r.began /\ q4.offset = b
      /\ q4.all = d
  BY <1>3 DEF Load
<1>5. q4 = After(r, a, b, c, d)
  BY DEF After, q1, q2, q3
<1> HIDE DEF q4
<1> QED
  BY <1>4, <1>5, Zenon

LEMMA PageStarts == DashboardAssumption /\ PageInit => PageInv
<1> SUFFICES ASSUME DashboardAssumption, PageInit PROVE PageInv
  OBVIOUS
<1>1. PageTypeOK
  <2>1. Idle \in Load
    BY DEF Idle, Load, Modes, DashboardAssumption, Unknown, IDsUsed
  <2>2. "all" \in Modes
    BY DEF Modes
  <2>3. metas \in Seq(Meta) /\ Len(metas) <= MaxGames
    BY DEF PageInit, DashboardAssumption
  <2>4. loads \in [Loads -> Load]
    BY <2>1 DEF PageInit
  <2>5. saved \subseteq IDsUsed /\ saving \in IDsUsed \cup {None} /\ view \in Modes
    BY <2>2 DEF PageInit
  <2>6. games \in Seq(IDsUsed) /\ selected \in IDsUsed \cup {None} /\ asked \subseteq IDsUsed
    BY DEF PageInit
  <2>7. turnData \in [IDsUsed -> (SUBSET IDsUsed) \cup {{None}}]
    BY DEF PageInit
  <2> QED
    BY <2>3, <2>4, <2>5, <2>6, <2>7, Zenon DEF PageTypeOK
<1>2. OwnIDs
  BY DEF PageInit, OwnIDs
<1>3. Fetching
  BY DEF PageInit, Fetching, Idle
<1> QED
  BY <1>1, <1>2, <1>3 DEF PageInv

\* A step that leaves the store alone, and the refreshes but one.
LEMMA LoadsStep ==
  ASSUME PageInv, UNCHANGED metas, loads' \in [Loads -> Load], NEW l \in Loads,
         \A k \in Loads : k # l => loads'[k] = loads[k],
         loads'[l].step # "idle" => Following(loads'[l])
  PROVE  OwnIDs' /\ Fetching'
<1>1. OwnIDs'
  BY DEF PageInv, OwnIDs
<1>2. ASSUME NEW k \in Loads, loads'[k].step # "idle" PROVE Following(loads[k])'
  <2>1. \A load : Following(load) <=> Following(load)'
    BY DEF Following, ListWith
  <2>2. Following(loads'[k])
    BY <1>2 DEF PageInv, Fetching
  <2> QED
    BY <2>1, <2>2 DEF Following, ListWith
<1> QED
  BY <1>1, <1>2 DEF Fetching

\* A refresh begins: it has nothing, of a list that is as long as it was.
LEMMA BeginStep ==
  ASSUME DashboardAssumption, PageInv, NEW l \in Loads, NEW md \in Modes,
         Begin(l, md), UNCHANGED metas
  PROVE  loads' \in [Loads -> Load] /\ OwnIDs' /\ Fetching'
<1> DEFINE load == [step |-> "fetch", mode |-> md, offset |-> 0, total |-> Unknown,
                    all |-> <<>>, began |-> Len(metas)]
<1>1. loads \in [Loads -> Load] /\ metas \in Seq(Meta) /\ Len(metas) <= MaxGames /\ OwnIDs
  BY DEF PageInv, PageTypeOK
<1>2. /\ load.step = "fetch" /\ load.mode = md /\ load.offset = 0
      /\ load.all = <<>> /\ load.began = Len(metas)
  OBVIOUS
<1>3. load \in Load
  <2>1. Len(metas) \in 0..MaxGames /\ Unknown \in 0..Unknown /\ 0 \in 0..MaxGames
    BY <1>1 DEF DashboardAssumption, Unknown
  <2> QED
    BY <2>1 DEF Load
<1>4. loads' = [loads EXCEPT ![l] = load]
  BY DEF Begin
<1> HIDE DEF load
<1>5. loads' \in [Loads -> Load] /\ loads'[l] = load /\ \A k \in Loads : k # l => loads'[k] = loads[k]
  BY <1>1, <1>3, <1>4
<1>6. Following(load)
  <2> DEFINE new == ListWith(Len(metas), md)
  <2>1. Len(metas) \in 0..Len(metas)
    BY <1>1
  <2>2. GrewFrom(new, new)
    BY <1>1, <2>1, Grown, Zenon
  <2> HIDE DEF new
  <2>3. KeepsUp("fetch", 0, <<>>, new, new)
    <3>1. Len(new) \in Nat
      BY <2>2 DEF GrewFrom
    <3>2. Len(<<>>) = 0 /\ 0 <= Len(new) /\ 1..0 = {}
      BY <3>1
    <3>3. \A i \in 1..Len(new) : ~(i + (Len(new) - Len(new)) <= 0)
      BY <3>1
    <3> QED
      BY <3>2, <3>3 DEF KeepsUp
  <2>4. Len(metas) <= Len(metas)
    BY <1>1
  <2> QED
    BY <1>2, <2>3, <2>4 DEF Following, new
<1> QED
  BY <1>5, <1>6, LoadsStep

\* A request: what it brings is the next page of the list by now.
LEMMA FetchStep ==
  ASSUME DashboardAssumption, PageInv, NEW l \in Loads, Fetch(l)
  PROVE  loads' \in [Loads -> Load] /\ OwnIDs' /\ Fetching'
<1> DEFINE load == loads[l]
           md   == load.mode
           o    == load.offset
           data == RestListGames(md, PageSize, o)
           page == data.games
           n    == o + Len(page)
           hs   == RestGames(md)
           old  == ListWith(load.began, md)
           new  == ListWith(Len(metas), md)
           more == load.all \o [i \in DOMAIN page |-> page[i].id]
           st   == IF page # <<>> /\ n < data.total THEN "fetch" ELSE "done"
           next == [load EXCEPT !.step = st, !.offset = n, !.total = data.total, !.all = more]
<1>1. /\ loads \in [Loads -> Load] /\ load \in Load /\ load.step = "fetch" /\ UNCHANGED metas
      /\ metas \in Seq(Meta) /\ Len(metas) <= MaxGames /\ OwnIDs /\ Len(metas) \in Nat
  BY DEF PageInv, PageTypeOK, Fetch, historyVars
<1>2. loads' = [loads EXCEPT ![l] = next]
  BY DEF Fetch
<1>3. /\ md \in Modes /\ o \in 0..MaxGames /\ load.all \in Seq(IDsUsed) /\ load.began \in 0..MaxGames
      /\ load = [step |-> load.step, mode |-> md, offset |-> o, total |-> load.total,
                 all |-> load.all, began |-> load.began]
  BY <1>1 DEF Load
<1>4. load.began \in 0..Len(metas) /\ KeepsUp("fetch", o, load.all, old, new)
  <2>1. Following(load)
    BY <1>1 DEF PageInv, Fetching
  <2>2. load.began <= Len(metas)
    BY <2>1 DEF Following
  <2>3. KeepsUp(load.step, o, load.all, old, new)
    BY <2>1, Zenon DEF Following
  <2> QED
    BY <1>1, <1>3, <2>2, <2>3
<1>5. /\ GrewFrom(old, new) /\ old \in Seq(Nat) /\ new \in Seq(Nat) /\ Len(new) <= Len(metas)
      /\ \A k \in 1..Len(new) : new[k] \in 1..Len(metas)
  BY <1>1, <1>3, <1>4, Grown, Zenon
<1>6. hs \in Seq(Meta) /\ Len(hs) \in Nat
  BY <1>1, <1>3, HistoryFigures, Zenon
<1>7. new = IDsIn(hs)
  <2>1. SubSeq(metas, 1, Len(metas)) = metas
    BY <1>1
  <2> QED
    BY <2>1, Zenon DEF ListWith, RestGames, ListGames, LoadAllMetas
<1>8. page = Paginate(hs, PageSize, o) /\ data.total = Len(hs)
  BY DEF RestListGames
<1> HIDE DEF hs, old, new, page
<1>9. Len(new) = Len(hs) /\ \A k \in 1..Len(hs) : new[k] = hs[k].id
  BY <1>5, <1>6, <1>7 DEF IDsIn
<1>10. o <= Len(new) /\ Len(load.all) = o
  BY <1>4 DEF KeepsUp
<1>11. /\ n \in o..Len(new) /\ page \in Seq(Meta) /\ Len(page) \in Nat
       /\ \A k \in 1..Len(page) : page[k] = hs[o + k]
       /\ n = Len(new) \/ (n < Len(new) /\ Len(page) > 0)
  <2> DEFINE last == IF PageSize = 0 \/ Len(hs) <= o + PageSize THEN Len(hs) ELSE o + PageSize
  <2>1. PageSize \in Nat /\ PageSize > 0 /\ o \in 0..Len(hs)
    BY <1>3, <1>6, <1>9, <1>10 DEF DashboardAssumption
  <2>2. /\ last \in o..Len(hs) /\ page \in Seq(Meta) /\ Len(page) = last - o
        /\ \A k \in 1..Len(page) : page[k] = hs[o + k]
    <3>1. LET last0 == IF PageSize = 0 \/ Len(hs) <= o + PageSize THEN Len(hs) ELSE o + PageSize
          IN  /\ last0 \in o..Len(hs) /\ Paginate(hs, PageSize, o) \in Seq(Meta)
              /\ Len(Paginate(hs, PageSize, o)) = last0 - o
              /\ \A k \in 1..Len(Paginate(hs, PageSize, o)) :
                   Paginate(hs, PageSize, o)[k] = hs[o + k]
      <4> HIDE DEF o
      <4> QED
        BY <1>6, <2>1, PageOf
    <3> QED
      BY <1>8, <3>1, Zenon
  <2>3. last = Len(hs) \/ (last < Len(hs) /\ last > o)
    BY <1>6, <2>1
  <2> HIDE DEF last
  <2>4. Len(page) \in Nat /\ n = last /\ o \in Nat /\ Len(hs) \in Nat
    BY <1>6, <2>1, <2>2
  <2>5. n \in o..Len(new)
    BY <1>9, <2>2, <2>4, Zenon
  <2>6. n = Len(new) \/ (n < Len(new) /\ Len(page) > 0)
    <3>1. last = Len(new) \/ (last < Len(new) /\ last > o)
      BY <1>9, <2>3, Zenon
    <3>2. last > o => Len(page) > 0
      <4> HIDE DEF o
      <4> QED
        BY <2>2, <2>4
    <3> QED
      BY <2>4, <3>1, <3>2, Zenon
  <2> QED
    BY <2>2, <2>4, <2>5, <2>6, Zenon
<1>12. st \in {"fetch", "done"} /\ (st = "done" => n = Len(new))
  <2>1. Len(page) > 0 => page # <<>>
    BY <1>11
  <2> HIDE DEF n
  <2> QED
    BY <1>8, <1>9, <1>11, <2>1
<1>13. /\ more \in Seq(IDsUsed) /\ Len(more) = n
       /\ \A k \in 1..n : more[k] = IF k <= o THEN load.all[k] ELSE new[k]
  <2> DEFINE ids == [i \in DOMAIN page |-> page[i].id]
             all == load.all
  <2>1. DOMAIN page = 1..Len(page)
    BY <1>11
  <2>2. ASSUME NEW k \in 1..Len(page) PROVE ids[k] = new[o + k] /\ ids[k] \in IDsUsed
    <3>1. o + k \in 1..Len(hs) /\ page[k] = hs[o + k]
      BY <1>3, <1>6, <1>9, <1>10, <1>11
    <3>2. ids[k] = hs[o + k].id /\ hs[o + k].id = new[o + k]
      BY <1>9, <2>1, <3>1
    <3>3. new[o + k] \in 1..MaxGames
      BY <1>1, <1>5, <1>9, <3>1 DEF DashboardAssumption
    <3> QED
      BY <3>2, <3>3 DEF IDsUsed
  <2>3. ids \in Seq(IDsUsed) /\ Len(ids) = Len(page)
    <3> DEFINE c == Len(page)
    <3>1. ids = [k \in 1..c |-> ids[k]] /\ c \in Nat
      BY <1>11, <2>1
    <3> HIDE DEF ids, c
    <3>2. \A k \in 1..c : ids[k] \in IDsUsed
      BY <2>2 DEF c
    <3>3. ids \in Seq(IDsUsed) /\ Len(ids) = c
      BY <3>1, <3>2
    <3> QED
      BY <3>3 DEF c
  <2> HIDE DEF ids, all
  <2>4. more = all \o ids
    BY DEF ids, all
  <2>5. all \in Seq(IDsUsed) /\ Len(all) = o
    BY <1>3, <1>10 DEF all
  <2> HIDE DEF more
  <2>6. more \in Seq(IDsUsed) /\ Len(more) = Len(all) + Len(ids)
    BY <2>3, <2>4, <2>5
  <2>7. ASSUME NEW k \in 1..n PROVE more[k] = IF k <= o THEN all[k] ELSE new[k]
    <3>1. o \in Nat /\ Len(page) \in Nat /\ k \in 1..(o + Len(page))
      BY <1>3, <1>11
    <3>2. more[k] = IF k <= o THEN all[k] ELSE ids[k - o]
      BY <2>3, <2>4, <2>5, <3>1
    <3>3. CASE k <= o
      BY <3>2, <3>3
    <3>4. CASE ~(k <= o)
      <4>1. k - o \in 1..Len(page) /\ o + (k - o) = k
        BY <3>1, <3>4
      <4>2. ids[k - o] = new[k]
        BY <2>2, <4>1
      <4> QED
        BY <3>2, <3>4, <4>2
    <3> QED
      BY <3>3, <3>4
  <2> QED
    BY <2>3, <2>5, <2>6, <2>7 DEF all
<1> HIDE DEF more, st
<1>14. KeepsUp(st, n, more, old, new)
  <2>1. o \in Nat /\ n \in Nat /\ o <= n /\ n <= Len(new)
    BY <1>3, <1>5, <1>11
  <2> DEFINE all == load.all
  <2>2. /\ KeepsUp("fetch", o, all, old, new) /\ Len(more) = n
        /\ \A k \in 1..n : more[k] = IF k <= o THEN all[k] ELSE new[k]
    BY <1>4, <1>13
  <2>3. GrewFrom(old, new) /\ st \in {"fetch", "done"} /\ (st = "done" => n = Len(new))
    BY <1>5, <1>12
  <2> HIDE DEF n, o, all, md, data, next, load
  <2> QED
    BY <2>1, <2>2, <2>3, FetchFollows
<1>15. /\ next \in Load /\ next.step = st /\ next.offset = n /\ next.all = more
       /\ next.mode = md /\ next.began = load.began
  <2>1. n \in 0..MaxGames /\ data.total \in 0..Unknown
    BY <1>1, <1>3, <1>5, <1>6, <1>8, <1>9, <1>11 DEF DashboardAssumption, Unknown
  <2>2. st \in {"idle", "fetch", "done"} /\ more \in Seq(IDsUsed)
    BY <1>12, <1>13
  <2>3. next = [load EXCEPT !.step = st, !.offset = n, !.total = data.total, !.all = more]
    OBVIOUS
  <2> HIDE DEF n, data, next
  <2>4. load \in Load
    BY <1>1
  <2> HIDE DEF load
  <2> DEFINE t == data.total
  <2>5. next = After(load, st, n, t, more) /\ t \in 0..Unknown
    BY <2>1, <2>3 DEF After
  <2> HIDE DEF t, o, md
  <2>6. /\ n \in 0..MaxGames /\ more \in Seq(IDsUsed) /\ st \in {"idle", "fetch", "done"}
    BY <2>1, <2>2
  <2> DEFINE q == After(load, st, n, t, more)
  <2>7. /\ q \in Load /\ q.step = st /\ q.offset = n /\ q.all = more
        /\ q.mode = load.mode /\ q.began = load.began
    BY <2>4, <2>5, <2>6, LoadFields
  <2> HIDE DEF q
  <2>8. next = q
    BY <2>5 DEF q
  <2> QED
    BY <2>7, <2>8, Zenon DEF md
<1>17. Following(next)
  <2>1. KeepsUp(st, n, more, ListWith(load.began, md), ListWith(Len(metas), md))
    BY <1>14 DEF old, new
  <2>2. load.began <= Len(metas)
    BY <1>1, <1>4
  <2> HIDE DEF next, n, md
  <2> QED
    BY <1>15, <2>1, <2>2, Zenon DEF Following
<1> HIDE DEF next
<1>18. loads' \in [Loads -> Load] /\ loads'[l] = next /\ \A k \in Loads : k # l => loads'[k] = loads[k]
  BY <1>1, <1>2, <1>15
<1> QED
  BY <1>1, <1>17, <1>18, LoadsStep

TurnsType == turnData \in [IDsUsed -> (SUBSET IDsUsed) \cup {{None}}]

\* What the actions of the page rely on of the types.
LEMMA PageTypes ==
  ASSUME PageTypeOK
  PROVE  /\ metas \in Seq(Meta) /\ Len(metas) <= MaxGames
         /\ saved \subseteq IDsUsed /\ saving \in IDsUsed \cup {None}
         /\ view \in Modes /\ loads \in [Loads -> Load]
         /\ games \in Seq(IDsUsed) /\ selected \in IDsUsed \cup {None}
         /\ asked \subseteq IDsUsed /\ TurnsType
BY DEF PageTypeOK, TurnsType

\* Refreshes alone.
LEMMA LoadsTypes ==
  ASSUME PageTypeOK, UNCHANGED <<metas, saved, saving, asked, turnData>>,
         view' \in Modes, loads' \in [Loads -> Load], games' \in Seq(IDsUsed),
         selected' \in IDsUsed \cup {None}
  PROVE  PageTypeOK'
BY DEF PageTypeOK

LEMMA SetModeStep ==
  ASSUME DashboardAssumption, PageInv, NEW l \in Loads, NEW md \in Modes, SetMode(l, md)
  PROVE  PageInv'
<1>1. PageTypeOK /\ Begin(l, md) /\ UNCHANGED <<metas, saved, saving, games, asked, turnData>>
      /\ view' = md /\ selected' = None
  BY DEF PageInv, SetMode, historyVars
<1>2. loads' \in [Loads -> Load] /\ OwnIDs' /\ Fetching'
  BY <1>1, BeginStep, Zenon
<1>3. games' \in Seq(IDsUsed) /\ selected' \in IDsUsed \cup {None} /\ view' \in Modes
  BY <1>1, PageTypes
<1>4. PageTypeOK'
  BY <1>1, <1>2, <1>3, LoadsTypes
<1> QED
  BY <1>2, <1>4, Zenon DEF PageInv

LEMMA RefreshStep ==
  ASSUME DashboardAssumption, PageInv, NEW l \in Loads, Refresh(l)
  PROVE  PageInv'
<1>1. /\ PageTypeOK /\ Begin(l, view)
      /\ UNCHANGED <<metas, saved, saving, view, games, selected, asked, turnData>>
  BY DEF PageInv, Refresh, historyVars
<1>2. view \in Modes /\ games \in Seq(IDsUsed) /\ selected \in IDsUsed \cup {None}
  BY <1>1, PageTypes
<1>3. loads' \in [Loads -> Load] /\ OwnIDs' /\ Fetching'
  BY <1>1, <1>2, BeginStep, Zenon
<1>4. PageTypeOK'
  BY <1>1, <1>2, <1>3, LoadsTypes
<1> QED
  BY <1>3, <1>4, Zenon DEF PageInv

LEMMA FetchedStep ==
  ASSUME DashboardAssumption, PageInv, NEW l \in Loads, Fetch(l)
  PROVE  PageInv'
<1>1. /\ PageTypeOK
      /\ UNCHANGED <<metas, saved, saving, view, games, selected, asked, turnData>>
  BY DEF PageInv, Fetch, historyVars
<1>2. view \in Modes /\ games \in Seq(IDsUsed) /\ selected \in IDsUsed \cup {None}
  BY <1>1, PageTypes
<1>3. loads' \in [Loads -> Load] /\ OwnIDs' /\ Fetching'
  BY FetchStep, Zenon
<1>4. PageTypeOK'
  BY <1>1, <1>2, <1>3, LoadsTypes
<1> QED
  BY <1>3, <1>4, Zenon DEF PageInv

\* A refresh that ends, with what it shows or without.
LEMMA EndStep ==
  ASSUME DashboardAssumption, PageInv, NEW l \in Loads,
         loads' = [loads EXCEPT ![l] = Idle], UNCHANGED metas
  PROVE  loads' \in [Loads -> Load] /\ OwnIDs' /\ Fetching'
<1>1. loads \in [Loads -> Load]
  BY PageTypes DEF PageInv
<1>2. Idle \in Load /\ Idle.step = "idle"
  BY DEF Idle, Load, Modes, DashboardAssumption, Unknown, IDsUsed
<1> HIDE DEF Idle
<1>3. loads' \in [Loads -> Load] /\ loads'[l] = Idle /\ \A k \in Loads : k # l => loads'[k] = loads[k]
  BY <1>1, <1>2
<1> QED
  BY <1>2, <1>3, LoadsStep

LEMMA FailStep ==
  ASSUME DashboardAssumption, PageInv, NEW l \in Loads, Fail(l)
  PROVE  PageInv'
<1>1. /\ PageTypeOK /\ loads' = [loads EXCEPT ![l] = Idle]
      /\ UNCHANGED <<metas, saved, saving, view, games, selected, asked, turnData>>
  BY DEF PageInv, Fail, historyVars
<1>2. view \in Modes /\ games \in Seq(IDsUsed) /\ selected \in IDsUsed \cup {None}
  BY <1>1, PageTypes
<1>3. loads' \in [Loads -> Load] /\ OwnIDs' /\ Fetching'
  BY <1>1, EndStep, Zenon
<1>4. PageTypeOK'
  BY <1>1, <1>2, <1>3, LoadsTypes
<1> QED
  BY <1>3, <1>4, Zenon DEF PageInv

LEMMA ShowStep ==
  ASSUME DashboardAssumption, PageInv, NEW l \in Loads, Show(l)
  PROVE  PageInv'
<1>1. /\ PageTypeOK /\ loads' = [loads EXCEPT ![l] = Idle] /\ games' = loads[l].all
      /\ UNCHANGED <<metas, saved, saving, view, selected, asked, turnData>>
  BY DEF PageInv, Show, historyVars
<1>2. view \in Modes /\ loads[l] \in Load /\ selected \in IDsUsed \cup {None}
  BY <1>1, PageTypes
<1>3. games' \in Seq(IDsUsed)
  BY <1>1, <1>2 DEF Load
<1>4. loads' \in [Loads -> Load] /\ OwnIDs' /\ Fetching'
  BY <1>1, EndStep, Zenon
<1>5. PageTypeOK'
  BY <1>1, <1>2, <1>3, <1>4, LoadsTypes
<1> QED
  BY <1>4, <1>5, Zenon DEF PageInv

\* The rest of the page: what is selected, and its turns.
LEMMA SelectedStep ==
  ASSUME PageInv, UNCHANGED <<metas, saved, saving, view, loads, games>>,
         selected' \in IDsUsed \cup {None}, asked' \subseteq IDsUsed, TurnsType'
  PROVE  PageInv'
<1>1. PageTypeOK'
  BY DEF PageInv, PageTypeOK, TurnsType
<1>2. OwnIDs' /\ Fetching'
  BY DEF PageInv, OwnIDs, Fetching, Following, ListWith
<1> QED
  BY <1>1, <1>2 DEF PageInv

LEMMA DrillStep ==
  ASSUME PageInv, NEW g, DrillToGame(g)
  PROVE  PageInv'
<1>1. /\ UNCHANGED <<metas, saved, saving, view, loads, games, turnData>>
      /\ g \in ToSet(games) /\ selected' = g /\ asked' \subseteq asked \cup {g}
  BY DEF DrillToGame, historyVars
<1>2. games \in Seq(IDsUsed) /\ asked \subseteq IDsUsed /\ TurnsType
  BY PageTypes DEF PageInv
<1>3. g \in IDsUsed
  <2>1. PICK k \in DOMAIN games : g = games[k]
    BY <1>1 DEF ToSet
  <2> QED
    BY <1>2, <2>1
<1>4. selected' \in IDsUsed \cup {None} /\ asked' \subseteq IDsUsed /\ TurnsType'
  BY <1>1, <1>2, <1>3 DEF TurnsType
<1> QED
  BY <1>1, <1>4, SelectedStep, Zenon

LEMMA BackStep ==
  ASSUME PageInv, Back
  PROVE  PageInv'
<1>1. UNCHANGED <<metas, saved, saving, view, loads, games, asked, turnData>> /\ selected' = None
  BY DEF Back, historyVars
<1>2. asked \subseteq IDsUsed /\ TurnsType
  BY PageTypes DEF PageInv
<1>3. selected' \in IDsUsed \cup {None} /\ asked' \subseteq IDsUsed /\ TurnsType'
  BY <1>1, <1>2 DEF TurnsType
<1> QED
  BY <1>1, <1>3, SelectedStep, Zenon

LEMMA KeepTurnsStep ==
  ASSUME PageInv, NEW g, KeepTurns(g)
  PROVE  PageInv'
<1>1. /\ UNCHANGED <<metas, saved, saving, view, loads, games, selected>>
      /\ asked' \subseteq asked
      /\ \/ selected # None /\ turnData' = [turnData EXCEPT ![selected] = RestGetTurns(g)]
         \/ UNCHANGED turnData
  BY DEF KeepTurns, historyVars
<1>2. asked \subseteq IDsUsed /\ TurnsType /\ selected \in IDsUsed \cup {None} /\ saved \subseteq IDsUsed
  BY PageTypes DEF PageInv
<1>3. RestGetTurns(g) \in SUBSET IDsUsed
  BY <1>2 DEF RestGetTurns, GetTurnSnapshots
<1>4. TurnsType'
  BY <1>1, <1>2, <1>3 DEF TurnsType
<1>5. selected' \in IDsUsed \cup {None} /\ asked' \subseteq IDsUsed
  BY <1>1, <1>2
<1> QED
  BY <1>1, <1>4, <1>5, SelectedStep, Zenon

LEMMA TurnsSavedStep ==
  ASSUME PageInv, TurnsSaved
  PROVE  PageInv'
<1>1. /\ UNCHANGED <<metas, view, loads, games, selected, asked, turnData>>
      /\ saving # None /\ saved' = saved \cup {saving} /\ saving' = None
  BY DEF TurnsSaved, pageVars
<1>2. PageTypeOK'
  BY <1>1 DEF PageInv, PageTypeOK
<1>3. OwnIDs' /\ Fetching'
  BY <1>1 DEF PageInv, OwnIDs, Fetching, Following, ListWith
<1> QED
  BY <1>2, <1>3 DEF PageInv

\* A game saved goes before those listed, in the list of its mode.
LEMMA GameSavedStep ==
  ASSUME DashboardAssumption, PageInv, NEW r \in Results, GameSaved(r)
  PROVE  PageInv'
<1> DEFINE e == [id |-> Len(metas) + 1, place |-> r.place, duos |-> r.duos]
<1>1. /\ UNCHANGED <<saved, view, loads, games, selected, asked, turnData>>
      /\ Len(metas) < MaxGames /\ saving' = Len(metas) + 1 /\ metas' = Append(metas, e)
  BY DEF GameSaved, pageVars
<1>2. /\ PageTypeOK /\ OwnIDs /\ metas \in Seq(Meta) /\ Len(metas) \in Nat
      /\ loads \in [Loads -> Load] /\ MaxGames \in Nat
  BY PageTypes DEF PageInv, DashboardAssumption
<1>3. Len(metas) + 1 \in IDsUsed
  BY <1>1, <1>2 DEF IDsUsed
<1>4. e \in Meta /\ e.id = Len(metas) + 1
  <2>1. r \in [place : Nat, duos : BOOLEAN]
    BY DEF DashboardAssumption
  <2> QED
    BY <1>3, <2>1 DEF Meta
<1> HIDE DEF e
<1>5. /\ metas' \in Seq(Meta) /\ OwnIDs' /\ Len(metas') = Len(metas) + 1
      /\ \A md \in Modes : \A n \in 0..Len(metas) :
           /\ ListWith(n, md)' = ListWith(n, md)
           /\ GrewFrom(ListWith(n, md)', ListWith(Len(metas), md)')
  BY <1>1, <1>2, <1>4, SavedLists, Zenon
<1>6. PageTypeOK'
  <2>1. Len(metas') <= MaxGames
    BY <1>1, <1>2, <1>5
  <2> QED
    BY <1>1, <1>2, <1>3, <1>5, <2>1 DEF PageTypeOK
<1>7. ASSUME NEW l \in Loads, loads'[l].step # "idle" PROVE Following(loads[l])'
  <2>1. loads[l] \in Load /\ Following(loads[l]) /\ loads'[l] = loads[l]
    BY <1>1, <1>2, <1>7 DEF PageInv, Fetching
  <2>a. /\ loads[l].began \in Nat /\ loads[l].mode \in Modes /\ loads[l].offset \in Nat
    <3>1. loads[l].began \in 0..MaxGames /\ loads[l].offset \in 0..MaxGames
          /\ loads[l].mode \in Modes
      BY <2>1 DEF Load
    <3>2. 0..MaxGames \subseteq Nat
      BY <1>2
    <3> QED
      BY <3>1, <3>2, Zenon
  <2>b. PICK n \in Nat : loads[l].began = n
    BY <2>a, Zenon
  <2>c. PICK md \in Modes : loads[l].mode = md
    BY <2>a, Zenon
  <2>d. PICK st : loads[l].step = st
    OBVIOUS
  <2>e. PICK o \in Nat : loads[l].offset = o
    BY <2>a, Zenon
  <2>f. PICK all : loads[l].all = all
    OBVIOUS
  <2>2. /\ loads[l].began = n /\ loads[l].mode = md /\ loads[l].step = st
        /\ loads[l].offset = o /\ loads[l].all = all
    BY <2>b, <2>c, <2>d, <2>e, <2>f, Zenon
  <2>3. /\ loads'[l].began = n /\ loads'[l].mode = md /\ loads'[l].step = st
        /\ loads'[l].offset = o /\ loads'[l].all = all
    BY <2>1, <2>2
  <2>4. n <= Len(metas) /\ KeepsUp(st, o, all, ListWith(n, md), ListWith(Len(metas), md))
    BY <2>1, <2>2 DEF Following
  <2>5. PICK m \in Nat : m = Len(metas)
    BY <1>2
  <2>6. n \in 0..Len(metas) /\ m \in 0..Len(metas)
    BY <1>2, <2>4, <2>5
  <2> DEFINE old    == ListWith(n, md)
             new    == ListWith(m, md)
             longer == ListWith(Len(metas), md)'
  <2>7. GrewFrom(old, new)
    BY <1>2, <2>5, <2>6, Grown, Zenon
  <2>8. /\ ListWith(m, md)' = new /\ GrewFrom(ListWith(m, md)', longer)
        /\ ListWith(n, md)' = old
    BY <1>5, <2>6, Zenon
  <2>9. GrewFrom(new, longer)
    BY <2>8, Zenon
  <2>10. KeepsUp(st, o, all, old, new)
    BY <2>4, <2>5, Zenon
  <2> HIDE DEF old, new, longer
  <2>11. KeepsUp(st, o, all, old, longer)
    BY <2>7, <2>9, <2>10, SaveFollows, Zenon
  <2>12. n <= Len(metas')
    BY <1>2, <1>5, <2>4
  <2>13. KeepsUp(st, o, all, ListWith(n, md)', ListWith(Len(metas), md)')
    BY <2>8, <2>11, Zenon DEF longer
  <2> QED
    BY <2>3, <2>12, <2>13 DEF Following
<1>8. Fetching'
  BY <1>7 DEF Fetching
<1> QED
  BY <1>5, <1>6, <1>8 DEF PageInv

\* Every step of the daemon or of the page keeps it.
LEMMA PageStep ==
  DashboardAssumption /\ PageInv /\ [PageNext]_dashboardVars => PageInv'
<1> SUFFICES ASSUME DashboardAssumption, PageInv, [PageNext]_dashboardVars PROVE PageInv'
  OBVIOUS
<1>1. CASE TurnsSaved
  BY <1>1, TurnsSavedStep, Zenon
<1>2. ASSUME NEW r \in Results, GameSaved(r) PROVE PageInv'
  BY <1>2, GameSavedStep, Zenon
<1>3. CASE Back
  BY <1>3, BackStep, Zenon
<1>4. ASSUME NEW l \in Loads, Refresh(l) PROVE PageInv'
  BY <1>4, RefreshStep, Zenon
<1>5. ASSUME NEW l \in Loads, Fetch(l) PROVE PageInv'
  BY <1>5, FetchedStep, Zenon
<1>6. ASSUME NEW l \in Loads, Fail(l) PROVE PageInv'
  BY <1>6, FailStep, Zenon
<1>7. ASSUME NEW l \in Loads, Show(l) PROVE PageInv'
  BY <1>7, ShowStep, Zenon
<1>8. ASSUME NEW l \in Loads, NEW md \in Modes, SetMode(l, md) PROVE PageInv'
  BY <1>8, SetModeStep, Zenon
<1>9. ASSUME NEW g \in Viewed, DrillToGame(g) PROVE PageInv'
  BY <1>9, DrillStep, Zenon
<1>10. ASSUME NEW g \in Viewed, KeepTurns(g) PROVE PageInv'
  BY <1>10, KeepTurnsStep, Zenon
<1>11. CASE UNCHANGED dashboardVars
  <2>1. UNCHANGED <<metas, saved, saving, view, loads, games, selected, asked, turnData>>
    BY <1>11 DEF dashboardVars, historyVars, pageVars
  <2>2. selected \in IDsUsed \cup {None} /\ asked \subseteq IDsUsed /\ TurnsType
    BY PageTypes, Zenon DEF PageInv
  <2>3. selected' \in IDsUsed \cup {None} /\ asked' \subseteq IDsUsed /\ TurnsType'
    BY <2>1, <2>2 DEF TurnsType
  <2> QED
    BY <2>1, <2>3, SelectedStep
<1> QED
  BY <1>1, <1>2, <1>3, <1>4, <1>5, <1>6, <1>7, <1>8, <1>9, <1>10, <1>11, Zenon
     DEF PageNext, Daemon, Page

LEMMA PageInductive == PageSpec => []PageInv
<1>1. PageInit => PageInv
  BY DashboardAssumption, PageStarts
<1>2. PageInv /\ [PageNext]_dashboardVars => PageInv'
  BY DashboardAssumption, PageStep
<1> QED
  BY <1>1, <1>2, PTL DEF PageSpec

\* A refresh that is done has followed the list to its end.
LEMMA PagesAreWhole ==
  ASSUME DashboardAssumption, PageInv
  PROVE  PagesWhole
<1>1. PageTypeOK /\ OwnIDs /\ metas \in Seq(Meta) /\ loads \in [Loads -> Load]
  BY PageTypes DEF PageInv
<1> SUFFICES ASSUME NEW l \in Loads, loads[l].step = "done"
             PROVE  LET load == loads[l]
                        old  == ListWith(load.began, load.mode)
                        new  == ListWith(Len(metas), load.mode)
                    IN  /\ ToSet(old) \subseteq ToSet(load.all)
                        /\ ToSet(load.all) \subseteq ToSet(new)
                        /\ Len(new) = Len(old) => load.all = old
                        /\ Len(new) <= Len(old) + 1 => NewestFirst(load.all)
  BY DEF PagesWhole
<1> DEFINE load == loads[l]
           old  == ListWith(load.began, load.mode)
           new  == ListWith(Len(metas), load.mode)
<1>2. load \in Load /\ Following(load)
  BY <1>1 DEF PageInv, Fetching
<1>3. load.began \in 0..Len(metas) /\ load.mode \in Modes /\ load.offset \in Nat
      /\ load.all \in Seq(IDsUsed)
  <2>1. load.began \in 0..MaxGames /\ load.mode \in Modes /\ load.offset \in 0..MaxGames
        /\ load.all \in Seq(IDsUsed)
    BY <1>2 DEF Load
  <2>2. load.began <= Len(metas) /\ Len(metas) \in Nat /\ MaxGames \in Nat
    BY <1>1, <1>2 DEF Following, DashboardAssumption
  <2> QED
    BY <2>1, <2>2
<1>4. load.all \in Seq(Nat)
  BY <1>3 DEF IDsUsed
<1>5. KeepsUp("done", load.offset, load.all, old, new)
  BY <1>2 DEF Following
<1>6. GrewFrom(old, new) /\ old \in Seq(Nat) /\ new \in Seq(Nat)
  BY <1>1, <1>3, Grown, Zenon
<1> HIDE DEF load, old, new
<1>7. /\ ToSet(old) \subseteq ToSet(load.all) /\ ToSet(load.all) \subseteq ToSet(new)
      /\ Len(new) = Len(old) => load.all = old
      /\ Len(new) <= Len(old) + 1 => NewestFirst(load.all)
  BY <1>3, <1>4, <1>5, <1>6, DoneWhole, Zenon
<1> QED
  BY <1>7, Zenon DEF load, old, new

\* The store's list, the refreshes in flight, the page's list and the turns it keeps are
\* always of their types, for any bounds.  (PageNext)
THEOREM PageTypeCorrect == PageSpec => []PageTypeOK
<1>1. PageInv => PageTypeOK
  BY DEF PageInv
<1> QED
  BY <1>1, PageInductive, PTL

\* PROPERTY HistoryExact: for any number of games, saved at any moment, any number of refreshes
\* of the web page and any page size, fetching page by page misses no game (getAllGames,
\* handleListGames), and REST, gRPC and the aggregate count the same games.
THEOREM HistoryExactHolds == PageSpec => []HistoryExact
<1>1. PageInv => HistoryExact
  <2> SUFFICES ASSUME PageInv PROVE PagesWhole /\ AnswersAgree
    BY DEF HistoryExact
  <2>1. metas \in Seq(Meta) /\ OwnIDs
    BY PageTypes DEF PageInv
  <2> QED
    BY <2>1, DashboardAssumption, PagesAreWhole, Answers, Zenon
<1> QED
  BY <1>1, PageInductive, PTL
=============================================================================
