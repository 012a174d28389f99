---------------------------- MODULE LogProofs ----------------------------
(***************************************************************************)
(* Theorems of the way from Power.log to the screen of the replay: of      *)
(* Watcher, for any number of sessions and lines and any capacity of the   *)
(* channel; of Parser and Replay, for any log, files, cap on the raw lines *)
(* of a step, replays of the store and filters.                            *)
(***************************************************************************)
EXTENDS Watcher, Replay, FiniteSetTheorems, SequenceTheorems,
        WellFoundedInduction, TLAPS

-----------------------------------------------------------------------------
(* Watcher: types *)

\* A parked sender holds a line it has read.
ParkedHolds == \A d \in Dirs : sender[d] = "parked" => offset[d] >= 1

\* The directory New resolved exists.
DirExists == dir <= sessions

TypeInv == TypeOK /\ ParkedHolds /\ DirExists

\* Starting the tail of a directory, or refusing to, keeps the types.
LEMMA StartTailsType ==
  ASSUME TypeInv, NEW d \in Dirs, StartTails(d)
  PROVE  /\ tail' \in [Dirs -> {"none", "live", "stopped"}]
         /\ offset' \in [Dirs -> 0..MaxLines]
         /\ sender' \in [Dirs -> {"none", "waiting", "parked", "gone"}]
         /\ ParkedHolds'
<1>1. CASE Refuses
  BY <1>1 DEF StartTails, TypeInv, TypeOK, ParkedHolds, tailVars
<1>2. CASE ~Refuses
  <2>1. StartOffset(d) \in 0..MaxLines
    BY BoundsAssumption DEF StartOffset
  <2> QED
    BY <1>2, <2>1 DEF StartTails, TypeInv, TypeOK, ParkedHolds
<1> QED
  BY <1>1, <1>2

\* So does stopping them, and it leaves none live.
LEMMA StopTailsType ==
  ASSUME TypeOK, StopTails
  PROVE  /\ tail' \in [Dirs -> {"none", "live", "stopped"}]
         /\ \A d \in Dirs : tail'[d] # "live"
  BY DEF TypeOK, StopTails

\* Every step keeps every variable in its type: no sender overfills the channel,
\* and no tail reads past what is written.
LEMMA TypeStep == TypeInv /\ [Next]_vars => TypeInv'
<1> SUFFICES ASSUME TypeInv, [Next]_vars PROVE TypeInv'
  OBVIOUS
<1> USE BoundsAssumption DEF TypeInv, ParkedHolds, DirExists
<1>1. CASE NewSession
  <2>1. sessions' \in Dirs
    BY <1>1 DEF NewSession, TypeOK, Dirs
  <2>2. created' \in Seq(Dirs)
    BY <1>1, <2>1 DEF NewSession, TypeOK
  <2>3. dir' <= sessions'
    BY <1>1 DEF NewSession, TypeOK, Dirs
  <2> QED
    BY <1>1, <2>1, <2>2, <2>3 DEF NewSession, TypeOK, tailVars, chanVars, stopVars, readVars
<1>2. CASE WriteLine
  <2>1. written' \in [Dirs -> 0..MaxLines]
    BY <1>2 DEF WriteLine, TypeOK
  <2> QED
    BY <1>2, <2>1
       DEF WriteLine, TypeOK, tailVars, chanVars, stopVars, fsVars, readVars
<1>3. CASE Cancel
  BY <1>3 DEF Cancel, TypeOK, clientVars, tailVars, chanVars, stopVars, fsVars
<1>4. CASE StopBegins
  BY <1>4 DEF StopBegins, TypeOK, clientVars, tailVars, chanVars, fsVars, readVars
<1>5. ASSUME NEW d \in Dirs, TakeLine(d) PROVE TypeInv'
  <2>1. offset' \in [Dirs -> 0..MaxLines]
    BY <1>5 DEF TakeLine, HasLine, TypeOK
  <2>2. sender' \in [Dirs -> {"none", "waiting", "parked", "gone"}]
    BY <1>5 DEF TakeLine, TypeOK
  <2>3. ASSUME NEW e \in Dirs, sender'[e] = "parked" PROVE offset'[e] >= 1
    <3>1. offset[e] \in Nat
      BY DEF TypeOK
    <3> QED
      BY <1>5, <2>3, <3>1 DEF TakeLine, TypeOK
  <2> QED
    BY <1>5, <2>1, <2>2, <2>3
       DEF TakeLine, TypeOK, clientVars, chanVars, stopVars, fsVars, readVars
<1>6. ASSUME NEW d \in Dirs, SendLine(d) PROVE TypeInv'
  <2>1. <<d, offset[d]>> \in Line
    BY <1>6 DEF SendLine, TypeOK, Line
  <2>2. lines' \in Seq(Line) /\ Len(lines') <= Capacity
    BY <1>6, <2>1 DEF SendLine, TypeOK
  <2>3. sender' \in [Dirs -> {"none", "waiting", "parked", "gone"}] /\ ParkedHolds'
    BY <1>6 DEF SendLine, TypeOK
  <2> QED
    BY <1>6, <2>2, <2>3 DEF SendLine, TypeOK, clientVars, stopVars, fsVars, readVars
<1>7. ASSUME NEW d \in Dirs, SenderEnds(d) PROVE TypeInv'
  <2>1. sender' \in [Dirs -> {"none", "waiting", "parked", "gone"}] /\ ParkedHolds'
    BY <1>7 DEF SenderEnds, TypeOK
  <2> QED
    BY <1>7, <2>1 DEF SenderEnds, TypeOK, clientVars, chanVars, stopVars, fsVars, readVars
<1>8. CASE ResolveLogDir
  BY <1>8 DEF ResolveLogDir, TypeOK, Dirs, clientVars, tailVars, chanVars, stopVars, fsVars,
              readVars
<1>9. CASE FirstTails
  <2>1. dir \in Dirs /\ StartTails(dir)
    BY <1>9 DEF FirstTails, TypeOK
  <2> QED
    BY <1>9, <2>1, StartTailsType
       DEF FirstTails, TypeOK, clientVars, chanVars, stopVars, fsVars, readVars
<1>10. CASE AddWatch
  BY <1>10 DEF AddWatch, TypeOK, clientVars, tailVars, chanVars, stopVars, readVars
<1>11. CASE LeaveOldSession
  <2>1. target' \in Dirs /\ created' \in Seq(Dirs)
    BY <1>11 DEF LeaveOldSession, TypeOK
  <2> QED
    BY <1>11, <2>1, StopTailsType
       DEF LeaveOldSession, TypeOK, clientVars, chanVars, stopVars, readVars
<1>12. CASE EnterNewSession
  <2>1. target \in Dirs /\ StartTails(target)
    BY <1>12 DEF EnterNewSession, TypeOK
  <2> QED
    BY <1>12, <2>1, StartTailsType
       DEF EnterNewSession, TypeOK, clientVars, chanVars, stopVars, readVars
<1>13. CASE WatchEnds
  BY <1>13 DEF WatchEnds, TypeOK, clientVars, tailVars, chanVars, stopVars, readVars
<1>14. CASE StopUnderLock
  BY <1>14, StopTailsType
     DEF StopUnderLock, TypeOK, clientVars, chanVars, fsVars, readVars
<1>15. CASE CloseLines
  BY <1>15 DEF CloseLines, TypeOK, clientVars, tailVars, fsVars, readVars
<1>16. CASE Ingest
  <2>1. lines' \in Seq(Line) /\ Len(lines') <= Capacity /\ ingested' \in Seq(Line)
    BY <1>16 DEF Ingest, TypeOK
  <2> QED
    BY <1>16, <2>1 DEF Ingest, TypeOK, clientVars, tailVars, stopVars, fsVars
<1>17. CASE IngestEnds
  BY <1>17 DEF IngestEnds, TypeOK, clientVars, tailVars, chanVars, stopVars, fsVars
<1>18. CASE UNCHANGED vars
  BY <1>18 DEF vars, TypeOK, clientVars, tailVars, chanVars, stopVars, fsVars, readVars
<1> QED
  BY <1>1, <1>2, <1>3, <1>4, <1>5, <1>6, <1>7, <1>8, <1>9, <1>10, <1>11, <1>12, <1>13,
     <1>14, <1>15, <1>16, <1>17, <1>18
     DEF Next, Sender, Booting, Switching, Stopping, Reader

\* The initial state is typed.
LEMMA TypeInit == Init => TypeInv
  BY BoundsAssumption DEF Init, TypeInv, TypeOK, ParkedHolds, DirExists, Dirs

\* Every variable keeps its type: in particular the Lines channel never holds
\* more than its capacity.
THEOREM TypeCorrect == Spec => []TypeOK
<1>1. TypeInv => TypeOK
  BY DEF TypeInv
<1> QED
  BY TypeInit, TypeStep, <1>1, PTL DEF Spec, Safe

-----------------------------------------------------------------------------
(* The closed channel *)

\* Why nobody sends on a closed channel.  Once Stop has been in its critical
\* section every tail is stopped and startTails refuses; Stop closes the channel
\* after that, when it has seen every sender end, and no new one can come.
QuietInv ==
  /\ linesClosed => stopping = "returned"
  /\ stopping \in {"waiting", "returned"} => stopped /\ \A d \in Dirs : tail[d] # "live"
  /\ stopping = "returned" => \A d \in Dirs : sender[d] \in {"none", "gone"}

\* A step keeps QuietInv.
LEMMA QuietStep == TypeOK /\ QuietInv /\ [Next]_vars => QuietInv'
<1> SUFFICES ASSUME TypeOK, QuietInv, [Next]_vars PROVE QuietInv'
  OBVIOUS
<1> USE DEF QuietInv
<1>1. ASSUME NEW d \in Dirs, TakeLine(d) PROVE QuietInv'
  BY <1>1 DEF TakeLine, chanVars, stopVars
<1>2. ASSUME NEW d \in Dirs, SendLine(d) PROVE QuietInv'
  BY <1>2 DEF SendLine, stopVars
<1>3. ASSUME NEW d \in Dirs, SenderEnds(d) PROVE QuietInv'
  BY <1>3 DEF SenderEnds, TypeOK, chanVars, stopVars
<1>4. ASSUME NEW d \in Dirs, StartTails(d), UNCHANGED <<chanVars, stopVars>>
      PROVE  QuietInv'
  BY <1>4 DEF StartTails, Refuses, tailVars, chanVars, stopVars
<1>5. ASSUME StopTails, UNCHANGED <<sender, chanVars, stopVars>>
      PROVE  QuietInv'
  BY <1>5, StopTailsType DEF chanVars, stopVars
<1>6. CASE StopBegins
  BY <1>6 DEF StopBegins, tailVars, chanVars
<1>7. CASE StopUnderLock
  BY <1>7, StopTailsType DEF StopUnderLock, chanVars
<1>8. CASE CloseLines
  BY <1>8 DEF CloseLines, tailVars
<1>9. CASE UNCHANGED <<tail, sender, linesClosed, stopped, stopping>>
  BY <1>9
<1>10. CASE FirstTails \/ EnterNewSession
  BY <1>10, <1>4 DEF FirstTails, EnterNewSession, TypeOK
<1>11. CASE LeaveOldSession
  BY <1>11, <1>5 DEF LeaveOldSession
<1> QED
  BY <1>1, <1>2, <1>3, <1>6, <1>7, <1>8, <1>9, <1>10, <1>11
     DEF Next, Sender, Booting, Switching, Stopping, Reader, NewSession, WriteLine,
         Cancel, ResolveLogDir, AddWatch, WatchEnds, Ingest, IngestEnds, vars, tailVars,
         chanVars, stopVars

\* Lines is closed only when no sender is left and none can come.
THEOREM ClosedMeansQuietHolds == Spec => []ClosedMeansQuiet
<1>1. Init => TypeInv /\ QuietInv
  <2>1. Init => QuietInv
    BY DEF Init, QuietInv
  <2> QED
    BY <2>1, TypeInit
<1>2. TypeInv /\ QuietInv /\ [Next]_vars => (TypeInv /\ QuietInv)'
  BY TypeStep, QuietStep DEF TypeInv
<1>3. TypeInv /\ QuietInv => ClosedMeansQuiet
  BY DEF QuietInv, ClosedMeansQuiet, Alive
<1> QED
  BY <1>1, <1>2, <1>3, PTL DEF Spec, Safe

-----------------------------------------------------------------------------
(* The lines *)

\* The directories whose tail was never started, and of which nothing was sent.
FreshDirs ==
  {d \in Dirs : /\ tail[d] = "none" /\ sender[d] = "none"
                /\ \A j \in DOMAIN Delivered : Delivered[j][1] # d}

\* Each directory is entered at most once: the switcher only takes directories
\* that were created after its watch was set, each reported once.
NewAreFresh   == \A d \in Dirs : d > sessions => d \in FreshDirs
BootOrder     == boot # "up" => switcher = "none" /\ created = <<>>
NoTailYet     == boot \in {"resolve", "tail"} => \A d \in Dirs : d \in FreshDirs
QueueFresh    == \A i \in DOMAIN created :
                   created[i] <= sessions /\ created[i] \in FreshDirs
QueueDistinct == \A i, j \in DOMAIN created : i # j => created[i] # created[j]
TargetFresh   == switcher = "switching" =>
                   /\ target <= sessions /\ target \in FreshDirs
                   /\ \A i \in DOMAIN created : created[i] # target

EnteredOnce ==
  NewAreFresh /\ BootOrder /\ NoTailYet /\ QueueFresh /\ QueueDistinct /\ TargetFresh

\* The lines a live sender has sent: all it has read but the one it holds.
Sent(d) == IF sender[d] = "parked" THEN offset[d] - 1 ELSE offset[d]

SentAll(d) ==
  /\ \A j \in DOMAIN Delivered : Delivered[j][1] = d => Delivered[j][2] <= Sent(d)
  /\ \A k \in 1..Sent(d) : \E j \in DOMAIN Delivered : Delivered[j] = <<d, k>>

\* What is delivered is a sequence of lines.
LEMMA DeliveredType == TypeOK => Delivered \in Seq(Line)
  BY ConcatProperties DEF TypeOK, Delivered

\* The parser's goroutine moves a line from the channel to what it has read, and
\* so leaves what is delivered.
LEMMA IngestKeeps == TypeOK /\ Ingest => Delivered' = Delivered
<1> SUFFICES ASSUME TypeOK, Ingest PROVE Delivered' = Delivered
  OBVIOUS
<1>1. /\ ingested \in Seq(Line) /\ lines \in Seq(Line) /\ lines # <<>>
      /\ lines' = Tail(lines) /\ ingested' = Append(ingested, Head(lines))
  BY DEF TypeOK, Ingest
<1>2. /\ Head(lines) \in Line /\ <<Head(lines)>> \in Seq(Line)
      /\ Tail(lines) \in Seq(Line) /\ lines = <<Head(lines)>> \o Tail(lines)
  BY <1>1
<1>3. ingested' = ingested \o <<Head(lines)>>
  BY <1>1, <1>2
<1>4. (ingested \o <<Head(lines)>>) \o Tail(lines) = ingested \o (<<Head(lines)>> \o Tail(lines))
  BY <1>1, <1>2, ConcatAssociative
<1> QED
  BY <1>1, <1>2, <1>3, <1>4 DEF Delivered

\* A sender appends the line it holds.
LEMMA SendAppends ==
  ASSUME TypeInv, NEW d \in Dirs, SendLine(d)
  PROVE  /\ Delivered' = Append(Delivered, <<d, offset[d]>>)
         /\ Len(Delivered') = Len(Delivered) + 1
         /\ Delivered'[Len(Delivered) + 1] = <<d, offset[d]>>
         /\ \A j \in DOMAIN Delivered : Delivered'[j] = Delivered[j]
         /\ DOMAIN Delivered' = DOMAIN Delivered \cup {Len(Delivered) + 1}
<1> DEFINE l == <<d, offset[d]>>
<1>1. /\ ingested \in Seq(Line) /\ lines \in Seq(Line) /\ l \in Line
      /\ lines' = Append(lines, l) /\ ingested' = ingested
  BY DEF TypeInv, TypeOK, ParkedHolds, SendLine, Line, readVars
<1>2. Delivered' = Append(Delivered, l)
  <2>0. lines' = lines \o <<l>>
    BY <1>1, AppendIsConcat
  <2>1. <<l>> \in Seq(Line) /\ lines' = lines \o <<l>>
    <3> HIDE DEF l
    <3> QED
      BY <1>1, <2>0
  <2>2. ingested \o (lines \o <<l>>) = (ingested \o lines) \o <<l>>
    BY <1>1, <2>1, ConcatAssociative
  <2>3. (ingested \o lines) \o <<l>> = Append(ingested \o lines, l)
    BY <1>1, ConcatProperties, AppendIsConcat
  <2> QED
    BY <1>1, <2>1, <2>2, <2>3 DEF Delivered
<1>3. Delivered \in Seq(Line)
  BY DeliveredType DEF TypeInv
<1> QED
  BY <1>1, <1>2, <1>3

\* A fresh directory stays so unless its tail is started.
LEMMA FreshKept ==
  ASSUME NEW d \in FreshDirs, tail'[d] = tail[d], sender'[d] = sender[d],
         \/ Delivered' = Delivered
         \/ \E e \in Dirs \ {d} : SendLine(e) /\ TypeInv
  PROVE  d \in FreshDirs'
<1>1. CASE Delivered' = Delivered
  BY <1>1 DEF FreshDirs
<1>2. ASSUME NEW e \in Dirs \ {d}, SendLine(e), TypeInv PROVE d \in FreshDirs'
  BY <1>2, SendAppends DEF FreshDirs
<1> QED
  BY <1>1, <1>2

\* Nothing is delivered when neither the channel nor what was read changes.
LEMMA DeliveredKept == UNCHANGED <<lines, ingested>> => Delivered' = Delivered
  BY DEF Delivered

\* Starting the tail of a fresh directory: no other one is touched, and what its
\* sender has sent is nothing.
LEMMA StartFresh ==
  ASSUME TypeInv, NEW d \in FreshDirs, StartTails(d), Delivered' = Delivered
  PROVE  /\ \A e \in FreshDirs : e # d => e \in FreshDirs'
         /\ \A e \in Dirs : e # d /\ Alive(e)' => Alive(e) /\ Sent(e)' = Sent(e)
         /\ Alive(d)' => SentAll(d)'
<1>1. ASSUME NEW e \in Dirs, e # d
      PROVE  tail'[e] = tail[e] /\ sender'[e] = sender[e] /\ offset'[e] = offset[e]
  BY <1>1 DEF StartTails, TypeInv, TypeOK, tailVars
<1>2. ASSUME Alive(d)' PROVE SentAll(d)'
  <2>1. ~Refuses
    BY <1>2 DEF StartTails, FreshDirs, Alive, tailVars
  <2>2. offset'[d] = 0 /\ sender'[d] = "waiting"
    BY <2>1 DEF StartTails, StartOffset, TypeInv, TypeOK, FreshDirs
  <2> QED
    BY <2>2 DEF SentAll, Sent, FreshDirs
<1>3. \A e \in FreshDirs : e # d => e \in FreshDirs'
  BY <1>1, FreshKept DEF FreshDirs
<1>4. \A e \in Dirs : e # d /\ Alive(e)' => Alive(e) /\ Sent(e)' = Sent(e)
  BY <1>1 DEF Alive, Sent
<1> QED
  BY <1>2, <1>3, <1>4

\* A new session directory is fresh, and so differs from none that is queued.
LEMMA NewSessionKeeps == TypeInv /\ EnteredOnce /\ NewSession => EnteredOnce'
<1> SUFFICES ASSUME TypeInv, EnteredOnce, NewSession PROVE EnteredOnce'
  OBVIOUS
<1>0. sessions \in Dirs /\ created \in Seq(Dirs) /\ target \in Dirs
  BY DEF TypeInv, TypeOK
<1>00. \A i \in DOMAIN created : created[i] \in Dirs
  BY <1>0
<1>1. Delivered' = Delivered /\ UNCHANGED <<tail, sender, boot, switcher, target>>
  BY DeliveredKept DEF NewSession, chanVars, readVars, tailVars
<1>2. FreshDirs' = FreshDirs
  BY <1>1 DEF FreshDirs
<1>3. sessions' = sessions + 1 /\ sessions' \in Dirs /\ sessions' \in FreshDirs
  BY <1>0, BoundsAssumption DEF NewSession, Dirs, EnteredOnce, NewAreFresh
<1>4. NewAreFresh' /\ NoTailYet'
  BY <1>0, <1>1, <1>2, <1>3 DEF EnteredOnce, NewAreFresh, NoTailYet, Dirs
<1>5. CASE created' = created
  <2>1. BootOrder' /\ QueueDistinct'
    BY <1>1, <1>5 DEF EnteredOnce, BootOrder, QueueDistinct
  <2>2. \A i \in DOMAIN created : created[i] \in Nat
    BY <1>00 DEF Dirs
  <2>3. QueueFresh' /\ TargetFresh'
    BY <1>0, <1>1, <1>2, <1>3, <1>5, <2>2
       DEF EnteredOnce, QueueFresh, TargetFresh, Dirs
  <2> QED
    BY <1>4, <2>1, <2>3 DEF EnteredOnce
<1>6. CASE boot = "up" /\ created' = Append(created, sessions')
  <2>1. /\ DOMAIN created' = DOMAIN created \cup {Len(created) + 1}
        /\ created'[Len(created) + 1] = sessions'
        /\ \A i \in DOMAIN created : created'[i] = created[i]
    BY <1>0, <1>3, <1>6
  <2>2. \A i \in DOMAIN created : created[i] \in Nat /\ created[i] < sessions'
    BY <1>0, <1>00, <1>3 DEF Dirs, EnteredOnce, QueueFresh
  <2>3. QueueFresh'
    BY <1>0, <1>2, <1>3, <2>1, <2>2 DEF Dirs, EnteredOnce, QueueFresh
  <2>4. QueueDistinct'
    BY <1>3, <2>1, <2>2 DEF Dirs, EnteredOnce, QueueDistinct
  <2>5. TargetFresh'
    BY <1>0, <1>1, <1>2, <1>3, <2>1, <2>2 DEF Dirs, EnteredOnce, TargetFresh
  <2>6. BootOrder'
    BY <1>1, <1>6 DEF BootOrder
  <2> QED
    BY <1>4, <2>3, <2>4, <2>5, <2>6 DEF EnteredOnce
<1> QED
  BY <1>5, <1>6 DEF NewSession

\* So is any step that starts no tail and leaves what the switcher has alone.
LEMMA FreshSame ==
  ASSUME EnteredOnce, \A d \in FreshDirs : d \in FreshDirs',
         UNCHANGED <<sessions, boot, created, switcher, target>>
  PROVE  EnteredOnce'
<1>1. NewAreFresh' /\ BootOrder' /\ NoTailYet'
  BY DEF EnteredOnce, NewAreFresh, BootOrder, NoTailYet
<1>2. QueueFresh' /\ QueueDistinct' /\ TargetFresh'
  BY DEF EnteredOnce, QueueFresh, QueueDistinct, TargetFresh
<1> QED
  BY <1>1, <1>2 DEF EnteredOnce

\* A step keeps EnteredOnce.
LEMMA EnteredOnceStep == TypeInv /\ EnteredOnce /\ [Next]_vars => EnteredOnce'
<1> SUFFICES ASSUME TypeInv, EnteredOnce, [Next]_vars PROVE EnteredOnce'
  OBVIOUS
<1>0. sessions \in Dirs /\ created \in Seq(Dirs) /\ target \in Dirs /\ dir \in Dirs
  BY DEF TypeInv, TypeOK
<1>1. CASE NewSession
  BY <1>1, NewSessionKeeps
<1>2. ASSUME UNCHANGED <<tail, sender>>, Delivered' = Delivered
      PROVE  FreshDirs' = FreshDirs
  BY <1>2 DEF FreshDirs
<1>3. CASE WriteLine \/ Cancel \/ StopBegins \/ CloseLines \/ IngestEnds \/ UNCHANGED vars
  <2>1. UNCHANGED <<lines, ingested, tail, sender, sessions, boot, created, switcher, target>>
    BY <1>3 DEF WriteLine, Cancel, StopBegins, CloseLines, IngestEnds, clientVars,
                chanVars, tailVars, fsVars, readVars, vars
  <2> QED
    BY <2>1, <1>2, DeliveredKept, FreshSame
<1>4. CASE Ingest
  <2>1. UNCHANGED <<tail, sender, sessions, boot, created, switcher, target>>
    BY <1>4 DEF Ingest, clientVars, tailVars, fsVars
  <2>2. Delivered' = Delivered
    BY <1>4, IngestKeeps DEF TypeInv
  <2> QED
    BY <2>1, <2>2, <1>2, FreshSame
<1>5. ASSUME NEW d \in Dirs, Sender(d) PROVE EnteredOnce'
  <2>1. UNCHANGED <<tail, sessions, boot, created, switcher, target>>
    BY <1>5 DEF Sender, TakeLine, SendLine, SenderEnds, clientVars, fsVars
  <2>2. SendLine(d) \/ Delivered' = Delivered
    BY <1>5, DeliveredKept DEF Sender, TakeLine, SenderEnds, chanVars, readVars
  <2>3. \A e \in Dirs : e # d => sender'[e] = sender[e]
    BY <1>5 DEF Sender, TakeLine, SendLine, SenderEnds, TypeInv, TypeOK
  <2>4. \A e \in FreshDirs : e # d /\ e \in Dirs
    BY <1>5 DEF Sender, TakeLine, SendLine, SenderEnds, FreshDirs, Selecting
  <2>5. \A e \in FreshDirs : e \in FreshDirs'
    BY <2>1, <2>2, <2>3, <2>4, FreshKept
  <2> QED
    BY <2>1, <2>5, FreshSame
<1>6. CASE ResolveLogDir
  <2>1. /\ UNCHANGED <<lines, ingested, tail, sender, sessions, created, switcher, target>>
        /\ boot = "resolve" /\ boot' = "tail"
    BY <1>6 DEF ResolveLogDir, clientVars, chanVars, tailVars, fsVars, readVars
  <2> QED
    BY <2>1, <1>2, DeliveredKept
       DEF EnteredOnce, NewAreFresh, BootOrder, NoTailYet, QueueFresh, QueueDistinct,
           TargetFresh
<1>7. CASE FirstTails
  <2>1. /\ UNCHANGED <<lines, ingested, sessions, created, switcher, target>>
        /\ boot = "tail" /\ boot' = "watch" /\ StartTails(dir)
    BY <1>7 DEF FirstTails, clientVars, chanVars, fsVars, readVars
  <2>2. dir <= sessions
    BY DEF TypeInv, DirExists
  <2>3. created = <<>> /\ switcher = "none" /\ dir \in FreshDirs
    BY <1>0, <2>1 DEF EnteredOnce, BootOrder, NoTailYet
  <2>4. \A e \in FreshDirs : e # dir => e \in FreshDirs'
    BY <2>1, <2>3, StartFresh, DeliveredKept
  <2> QED
    BY <1>0, <2>1, <2>2, <2>3, <2>4
       DEF EnteredOnce, NewAreFresh, BootOrder, NoTailYet, QueueFresh, QueueDistinct,
           TargetFresh, Dirs
<1>8. CASE AddWatch
  <2>1. /\ UNCHANGED <<lines, ingested, tail, sender, sessions, created, target>>
        /\ boot = "watch" /\ boot' = "up" /\ switcher' = "selecting"
    BY <1>8 DEF AddWatch, clientVars, chanVars, tailVars, readVars
  <2> QED
    BY <2>1, <1>2, DeliveredKept
       DEF EnteredOnce, NewAreFresh, BootOrder, NoTailYet, QueueFresh, QueueDistinct,
           TargetFresh
<1>9. CASE LeaveOldSession
  <2>1. /\ created # <<>> /\ created' = Tail(created) /\ target' = Head(created)
        /\ switcher = "selecting" /\ switcher' = "switching"
        /\ UNCHANGED <<sessions, boot, sender, lines, ingested>> /\ StopTails
    BY <1>9 DEF LeaveOldSession, clientVars, chanVars, readVars
  <2>2. \A d \in FreshDirs : d \in FreshDirs'
    BY <2>1, FreshKept, DeliveredKept DEF StopTails, FreshDirs
  <2>3. /\ DOMAIN created' = 1..(Len(created) - 1) /\ target' = created[1]
        /\ \A i \in DOMAIN created' : i + 1 \in DOMAIN created /\ created'[i] = created[i + 1]
    BY <1>0, <2>1
  <2>4. 1 \in DOMAIN created
    BY <1>0, <2>1
  <2>5. NewAreFresh' /\ BootOrder' /\ NoTailYet'
    BY <2>1, <2>2 DEF EnteredOnce, NewAreFresh, BootOrder, NoTailYet
  <2>6. QueueFresh' /\ QueueDistinct'
    BY <2>1, <2>2, <2>3 DEF EnteredOnce, QueueFresh, QueueDistinct
  <2>7. TargetFresh'
    BY <2>1, <2>2, <2>3, <2>4 DEF EnteredOnce, QueueFresh, QueueDistinct, TargetFresh
  <2> QED
    BY <2>5, <2>6, <2>7 DEF EnteredOnce
<1>10. CASE EnterNewSession
  <2>1. /\ UNCHANGED <<lines, ingested, sessions, boot, created, target>>
        /\ switcher = "switching" /\ switcher' = "selecting" /\ StartTails(target)
    BY <1>10 DEF EnterNewSession, clientVars, chanVars, readVars
  <2>2. target <= sessions /\ target \in FreshDirs
    BY <2>1 DEF EnteredOnce, TargetFresh
  <2>3. \A e \in FreshDirs : e # target => e \in FreshDirs'
    BY <2>1, <2>2, StartFresh, DeliveredKept
  <2>4. boot = "up"
    BY <2>1 DEF EnteredOnce, BootOrder
  <2>5. NewAreFresh'
    <3> SUFFICES ASSUME NEW d \in Dirs, d > sessions PROVE d \in FreshDirs'
      BY <2>1 DEF NewAreFresh
    <3>1. d # target
      BY <1>0, <2>2 DEF Dirs
    <3> QED
      BY <2>3, <3>1 DEF EnteredOnce, NewAreFresh
  <2>6. QueueFresh' /\ QueueDistinct' /\ TargetFresh'
    BY <2>1, <2>3 DEF EnteredOnce, QueueFresh, QueueDistinct, TargetFresh
  <2>7. BootOrder' /\ NoTailYet'
    BY <2>1, <2>4 DEF BootOrder, NoTailYet
  <2> QED
    BY <2>5, <2>6, <2>7 DEF EnteredOnce
<1>11. CASE WatchEnds
  <2>1. /\ UNCHANGED <<lines, ingested, tail, sender, sessions, boot, target>>
        /\ switcher = "selecting" /\ switcher' = "gone" /\ created' = <<>>
    BY <1>11 DEF WatchEnds, clientVars, chanVars, tailVars, readVars
  <2> QED
    BY <2>1, <1>2, DeliveredKept
       DEF EnteredOnce, NewAreFresh, BootOrder, NoTailYet, QueueFresh, QueueDistinct,
           TargetFresh
<1>12. CASE StopUnderLock
  <2>1. UNCHANGED <<sessions, boot, sender, created, switcher, target, lines, ingested>>
        /\ StopTails
    BY <1>12 DEF StopUnderLock, clientVars, chanVars, fsVars, readVars
  <2>2. \A d \in FreshDirs : d \in FreshDirs'
    BY <2>1, FreshKept, DeliveredKept DEF StopTails, FreshDirs
  <2> QED
    BY <2>1, <2>2, FreshSame
<1> QED
  BY <1>1, <1>3, <1>4, <1>5, <1>6, <1>7, <1>8, <1>9, <1>10, <1>11, <1>12
     DEF Next, Booting, Switching, Stopping, Reader

\* Every live sender has sent all it has read, but the line it holds.
SentInv == \A d \in Dirs : Alive(d) => SentAll(d)

\* A step that delivers nothing and starts no tail leaves what was sent.
LEMMA SentKept ==
  ASSUME NEW d \in Dirs, Alive(d) => SentAll(d), Delivered' = Delivered,
         Alive(d)' => Alive(d) /\ Sent(d)' = Sent(d)
  PROVE  Alive(d)' => SentAll(d)'
  BY DEF SentAll

\* A step keeps what the senders have sent: the line that is sent is the one that
\* follows in its session.
LEMMA SentStep == TypeInv /\ EnteredOnce /\ SentInv /\ [Next]_vars => SentInv'
<1> SUFFICES ASSUME TypeInv, EnteredOnce, SentInv, [Next]_vars, NEW d \in Dirs
             PROVE  Alive(d)' => SentAll(d)'
  BY DEF SentInv
<1>0. /\ Alive(d) => SentAll(d)
      /\ \A e \in Dirs : offset[e] \in Nat
      /\ sender \in [Dirs -> {"none", "waiting", "parked", "gone"}]
      /\ offset \in [Dirs -> 0..MaxLines] /\ dir \in Dirs /\ target \in Dirs
  BY DEF SentInv, TypeInv, TypeOK
<1>1. CASE UNCHANGED <<lines, ingested, sender, offset>>
  BY <1>0, <1>1, DeliveredKept, SentKept DEF Alive, Sent
<1>2. CASE Ingest
  BY <1>0, <1>2, IngestKeeps, SentKept DEF Alive, Sent, Ingest, tailVars, TypeInv
<1>3. ASSUME NEW e \in Dirs, TakeLine(e) PROVE Alive(d)' => SentAll(d)'
  <2>1. UNCHANGED <<lines, ingested>>
    BY <1>3 DEF TakeLine, chanVars, readVars
  <2>2. Alive(d)' => Alive(d) /\ Sent(d)' = Sent(d)
    BY <1>0, <1>3 DEF TakeLine, Alive, Sent
  <2> QED
    BY <1>0, <2>1, <2>2, DeliveredKept, SentKept
<1>4. ASSUME NEW e \in Dirs, SenderEnds(e) PROVE Alive(d)' => SentAll(d)'
  <2>1. UNCHANGED <<lines, ingested>>
    BY <1>4 DEF SenderEnds, chanVars, readVars
  <2>2. Alive(d)' => Alive(d) /\ Sent(d)' = Sent(d)
    BY <1>0, <1>4 DEF SenderEnds, Alive, Sent
  <2> QED
    BY <1>0, <2>1, <2>2, DeliveredKept, SentKept
<1>5. ASSUME NEW e \in Dirs, SendLine(e) PROVE Alive(d)' => SentAll(d)'
  <2> SUFFICES ASSUME Alive(d)' PROVE SentAll(d)'
    OBVIOUS
  <2>1. /\ Len(Delivered') = Len(Delivered) + 1
        /\ Delivered'[Len(Delivered) + 1] = <<e, offset[e]>>
        /\ \A j \in DOMAIN Delivered : Delivered'[j] = Delivered[j]
        /\ DOMAIN Delivered' = DOMAIN Delivered \cup {Len(Delivered) + 1}
    BY <1>5, SendAppends
  <2>2. CASE d # e
    <3>1. Alive(d) /\ Sent(d)' = Sent(d)
      BY <1>0, <1>5, <2>2 DEF SendLine, Alive, Sent
    <3> QED
      BY <1>0, <2>1, <2>2, <3>1 DEF SentAll
  <2>3. CASE d = e
    <3>1. Alive(d) /\ Sent(d) = offset[d] - 1 /\ Sent(d)' = offset[d]
      BY <1>0, <1>5, <2>3 DEF SendLine, Alive, Sent
    <3>2. \A j \in DOMAIN Delivered' : Delivered'[j][1] = d => Delivered'[j][2] <= Sent(d)'
      <4> SUFFICES ASSUME NEW j \in DOMAIN Delivered', Delivered'[j][1] = d
                   PROVE  Delivered'[j][2] <= Sent(d)'
        OBVIOUS
      <4>1. CASE j = Len(Delivered) + 1
        BY <1>0, <2>1, <2>3, <3>1, <4>1
      <4>2. CASE j \in DOMAIN Delivered
        <5>1. Delivered \in Seq(Line)
          BY DeliveredType DEF TypeInv
        <5>2. Delivered[j] \in Line
          BY <4>2, <5>1
        <5>3. Delivered[j][2] \in Int
          BY <5>2 DEF Line
        <5>4. Delivered[j][2] <= offset[d] - 1
          BY <1>0, <2>1, <3>1, <4>2 DEF SentAll
        <5> QED
          BY <1>0, <2>1, <3>1, <4>2, <5>3, <5>4
      <4> QED
        BY <2>1, <4>1, <4>2
    <3>3. ASSUME NEW k \in 1..(Sent(d)')
          PROVE  \E j \in DOMAIN Delivered' : Delivered'[j] = <<d, k>>
      <4>1. CASE k = offset[d]
        BY <2>1, <2>3, <4>1
      <4>2. CASE k # offset[d]
        <5>1. k \in 1..Sent(d)
          BY <1>0, <3>1, <4>2
        <5> QED
          BY <1>0, <2>1, <3>1, <5>1 DEF SentAll
      <4> QED
        BY <4>1, <4>2
    <3> QED
      BY <3>2, <3>3 DEF SentAll
  <2> QED
    BY <2>2, <2>3
<1>6. ASSUME NEW e \in FreshDirs, StartTails(e), Delivered' = Delivered
      PROVE  Alive(d)' => SentAll(d)'
  BY <1>0, <1>6, StartFresh, SentKept
<1>7. CASE FirstTails
  <2>1. dir \in FreshDirs
    BY <1>0, <1>7 DEF FirstTails, EnteredOnce, NoTailYet
  <2> QED
    BY <1>6, <1>7, <2>1, DeliveredKept DEF FirstTails, chanVars, readVars
<1>8. CASE EnterNewSession
  <2>1. target \in FreshDirs
    BY <1>8 DEF EnterNewSession, EnteredOnce, TargetFresh
  <2> QED
    BY <1>6, <1>8, <2>1, DeliveredKept DEF EnterNewSession, chanVars, readVars
<1> QED
  BY <1>1, <1>2, <1>3, <1>4, <1>5, <1>7, <1>8
     DEF Next, Sender, Booting, Switching, Stopping, Reader, NewSession, WriteLine,
         Cancel, StopBegins, ResolveLogDir, AddWatch, LeaveOldSession, WatchEnds,
         StopUnderLock, CloseLines, IngestEnds, vars, tailVars, chanVars, readVars

\* A step delivers a line only after the one before it in its session.
LEMMA WholeStep == TypeInv /\ SentInv /\ WholeFromTheStart /\ [Next]_vars => WholeFromTheStart'
<1> SUFFICES ASSUME TypeInv, SentInv, WholeFromTheStart, [Next]_vars
             PROVE  WholeFromTheStart'
  OBVIOUS
<1>1. CASE Delivered' = Delivered
  BY <1>1 DEF WholeFromTheStart
<1>2. ASSUME NEW d \in Dirs, SendLine(d) PROVE WholeFromTheStart'
  <2> DEFINE n == Len(Delivered)
  <2>1. /\ DOMAIN Delivered' = DOMAIN Delivered \cup {n + 1}
        /\ Delivered'[n + 1] = <<d, offset[d]>>
        /\ \A j \in DOMAIN Delivered : Delivered'[j] = Delivered[j]
    BY <1>2, SendAppends
  <2>2. DOMAIN Delivered = 1..n /\ n \in Nat /\ \A j \in 1..n : Delivered[j] \in Line
    <3>1. Delivered \in Seq(Line)
      BY DeliveredType DEF TypeInv
    <3> QED
      BY <3>1
  <2>3. offset[d] \in Nat /\ offset[d] >= 1 /\ Sent(d) = offset[d] - 1 /\ SentAll(d)
    BY <1>2 DEF SendLine, Sent, SentInv, Alive, TypeInv, TypeOK, ParkedHolds
  <2> HIDE DEF n
  <2> SUFFICES ASSUME NEW j \in DOMAIN Delivered'
               PROVE  /\ Delivered'[j][2] > 1 =>
                           \E i \in 1..(j - 1) :
                             Delivered'[i] = <<Delivered'[j][1], Delivered'[j][2] - 1>>
                      /\ \A i \in 1..(j - 1) : Delivered'[i][1] = Delivered'[j][1] =>
                           Delivered'[i][2] < Delivered'[j][2]
    BY Zenon DEF WholeFromTheStart
  <2>4. CASE j \in DOMAIN Delivered
    <3>1. Delivered'[j] = Delivered[j] /\ \A i \in 1..(j - 1) : Delivered'[i] = Delivered[i]
      BY <2>1, <2>2, <2>4
    <3> QED
      BY <2>4, <3>1 DEF WholeFromTheStart
  <2>5. CASE j = n + 1
    <3>1. 1..(j - 1) = DOMAIN Delivered
      BY <2>2, <2>5
    <3>2. ASSUME offset[d] > 1
          PROVE  \E i \in DOMAIN Delivered : Delivered[i] = <<d, offset[d] - 1>>
      BY <2>3, <3>2 DEF SentAll
    <3>3. ASSUME NEW i \in DOMAIN Delivered, Delivered[i][1] = d
          PROVE  Delivered[i][2] < offset[d]
      <4>1. Delivered[i][2] \in Int
        BY <2>2 DEF Line
      <4> QED
        BY <2>3, <3>3, <4>1 DEF SentAll
    <3>4. Delivered'[j][1] = d /\ Delivered'[j][2] = offset[d]
      BY <2>1, <2>5
    <3>5. \A i \in 1..(j - 1) : Delivered'[i] = Delivered[i]
      BY <2>1, <3>1
    <3>6. ASSUME Delivered'[j][2] > 1
          PROVE  \E i \in 1..(j - 1) :
                   Delivered'[i] = <<Delivered'[j][1], Delivered'[j][2] - 1>>
      BY <3>1, <3>2, <3>4, <3>5, <3>6
    <3>7. \A i \in 1..(j - 1) : Delivered'[i][1] = Delivered'[j][1] =>
            Delivered'[i][2] < Delivered'[j][2]
      BY <3>1, <3>3, <3>4, <3>5
    <3> QED
      BY <3>6, <3>7
  <2> QED
    BY <2>1, <2>4, <2>5
<1>3. Delivered' = Delivered \/ \E d \in Dirs : SendLine(d)
  BY IngestKeeps, DeliveredKept
     DEF Next, Sender, Booting, Switching, Stopping, Reader, NewSession, WriteLine,
         Cancel, StopBegins, TakeLine, SenderEnds, ResolveLogDir, FirstTails, AddWatch,
         LeaveOldSession, EnterNewSession, WatchEnds, StopUnderLock, CloseLines,
         IngestEnds, vars, chanVars, readVars, TypeInv
<1> QED
  BY <1>1, <1>2, <1>3

\* Whatever sessions come, however small the channel, and wherever Stop or the
\* cancellation falls, a session's lines arrive from its first on and in order.
THEOREM WholeFromTheStartHolds == Spec => []WholeFromTheStart
<1> DEFINE LinesInv == TypeInv /\ EnteredOnce /\ SentInv /\ WholeFromTheStart
<1>1. Init => LinesInv
  <2> SUFFICES ASSUME Init PROVE LinesInv
    OBVIOUS
  <2>1. DOMAIN Delivered = {}
    BY DEF Init, Delivered
  <2>2. EnteredOnce
    BY <2>1 DEF Init, EnteredOnce, NewAreFresh, BootOrder, NoTailYet, QueueFresh,
                QueueDistinct, TargetFresh, FreshDirs
  <2>3. SentInv
    BY DEF Init, SentInv, Alive
  <2>4. WholeFromTheStart
    BY <2>1 DEF WholeFromTheStart
  <2> QED
    BY <2>2, <2>3, <2>4, TypeInit
<1>2. LinesInv /\ [Next]_vars => LinesInv'
  BY TypeStep, EnteredOnceStep, SentStep, WholeStep
<1> QED
  BY <1>1, <1>2, PTL DEF Spec, Safe

-----------------------------------------------------------------------------
(* Replay: numbers *)

\* A set of naturals has a least element.
LEMMA Least ==
  ASSUME NEW T \in SUBSET Nat, T # {}
  PROVE  \E x \in T : \A y \in T : x <= y
<1> DEFINE R == OpToRel(<, Nat)
<1>0. IsWellFoundedOn(R, Nat)
  BY NatLessThanWellFounded, Zenon
<1>1. \A y, z \in Nat : y < z => <<y, z>> \in R
  BY DEF OpToRel
<1> HIDE DEF R
<1>2. PICK x \in T : \A y \in T : ~(<<y, x>> \in R)
  BY <1>0, WFMin
<1>3. ASSUME NEW y \in T PROVE x <= y
  <2>1. x \in Nat /\ y \in Nat /\ ~(y < x)
    BY <1>1, <1>2
  <2> QED
    BY <2>1
<1> QED
  BY <1>3

\* What holds at 0 and goes on from one number to the next holds up to n.
LEMMA UpTo ==
  ASSUME NEW n \in Nat, NEW T, 0 \in T, \A k \in 1..n : k - 1 \in T => k \in T
  PROVE  \A k \in 0..n : k \in T
<1> SUFFICES ASSUME NEW j \in 0..n, j \notin T PROVE FALSE
  OBVIOUS
<1> DEFINE Out == {k \in 0..n : k \notin T}
<1>1. Out \in SUBSET Nat /\ j \in Out
  OBVIOUS
<1> HIDE DEF Out
<1>2. PICK x \in Out : \A y \in Out : x <= y
  BY <1>1, Least
<1>3. x \in 1..n /\ x \notin T
  BY <1>2 DEF Out
<1>4. x - 1 \in 0..n /\ ~(x <= x - 1)
  BY <1>3
<1>5. x - 1 \in T
  BY <1>2, <1>4 DEF Out
<1> QED
  BY <1>3, <1>5

\* A set of places has a least and a greatest, which Min and Max find.
LEMMA MinIn ==
  ASSUME NEW s \in SUBSET Nat, s # {}
  PROVE  Min(s) \in s /\ \A y \in s : Min(s) <= y
<1>1. \E x \in s : \A y \in s : x <= y
  BY Least
<1> QED
  BY <1>1 DEF Min

\* The greatest of a set of places is one of them.
LEMMA MaxIn ==
  ASSUME NEW n \in Nat, NEW s \in SUBSET (1..n), s # {}
  PROVE  Max(s) \in s /\ \A y \in s : Max(s) >= y
<1> DEFINE U == {m \in Nat : \A y \in s : y <= m}
<1>1. n \in U
  OBVIOUS
<1>2. PICK m \in U : \A y \in U : m <= y
  <2> HIDE DEF U
  <2>1. U \in SUBSET Nat
    BY DEF U
  <2> QED
    BY <1>1, <2>1, Least
<1>3. m \in s
  <2> SUFFICES ASSUME m \notin s PROVE FALSE
    OBVIOUS
  <2>1. PICK y \in s : TRUE
    OBVIOUS
  <2>2. m \in Nat /\ y \in 1..n /\ y <= m
    BY <1>2
  <2>3. m - 1 \in Nat
    BY <2>2
  <2>4. \A z \in s : z <= m - 1
    BY <1>2
  <2> QED
    BY <1>2, <2>2, <2>3, <2>4
<1>4. m \in s /\ \A y \in s : m >= y
  BY <1>2, <1>3
<1> QED
  BY <1>4 DEF Max

\* Of two numbers.
LEMMA MaxOfTwo ==
  ASSUME NEW a \in Int, NEW b \in Int
  PROVE  Max({a, b}) \in {a, b} /\ Max({a, b}) >= a /\ Max({a, b}) >= b
<1>1. \E x \in {a, b} : \A y \in {a, b} : x >= y
  <2>1. a >= a /\ b >= b /\ (a >= b \/ b >= a)
    OBVIOUS
  <2> QED
    BY <2>1
<1> QED
  BY <1>1 DEF Max

\* The least of two numbers is one of them.
LEMMA MinOfTwo ==
  ASSUME NEW a \in Int, NEW b \in Int
  PROVE  Min({a, b}) \in {a, b} /\ Min({a, b}) <= a /\ Min({a, b}) <= b
<1>1. \E x \in {a, b} : \A y \in {a, b} : x <= y
  <2>1. a <= a /\ b <= b /\ (a <= b \/ b <= a)
    OBVIOUS
  <2> QED
    BY <2>1
<1> QED
  BY <1>1 DEF Min

-----------------------------------------------------------------------------
(* Replay: types *)

\* An event of a line.
LEMMA EventTypes ==
  ASSUME NEW kind \in LineKind, NEW i \in Nat, NEW src \in Nat
  PROVE  Event(kind, i, src) \in EventType
BY DEF Event, EventType

\* A new parser has the types of a parser.
LEMMA NewTypes == New \in ParserType /\ NoEvent \in EventType
<1>1. NoEvent \in EventType
  BY DEF NoEvent, Event, EventType, LineKind
<1> QED
  BY <1>1 DEF New, ParserType

\* A parser and the events it has emitted.
WithType == [parser : ParserType, events : Seq(EventType)]

\* What a parser returns, by its two parts.
LEMMA WithIs ==
  ASSUME NEW p \in ParserType, NEW es \in Seq(EventType)
  PROVE  With(p, es) \in WithType /\ With(p, es).parser = p /\ With(p, es).events = es
BY DEF With, WithType

\* The two parts of what a parser returns have their types.
LEMMA WithHas ==
  ASSUME NEW w \in WithType
  PROVE  w.parser \in ParserType /\ w.events \in Seq(EventType)
BY DEF WithType

\* A parser by its parts, and with one of them replaced.
Parts(inBlock, pending, stack, inCreate, createTags) ==
  [inBlock |-> inBlock, pending |-> pending, blockStack |-> stack,
   inCreate |-> inCreate, createTags |-> createTags]

\* A parser is made of its parts.
LEMMA PartsAre ==
  ASSUME NEW p \in ParserType
  PROVE  /\ p.inBlock \in BOOLEAN /\ p.pending \in EventType /\ p.blockStack \in Seq(Nat)
         /\ p.inCreate \in BOOLEAN /\ p.createTags \in EventType
         /\ p = Parts(p.inBlock, p.pending, p.blockStack, p.inCreate, p.createTags)
BY DEF ParserType, Parts

\* The parts make a parser.
LEMMA PartsMake ==
  ASSUME NEW b \in BOOLEAN, NEW e \in EventType, NEW s \in Seq(Nat), NEW c \in BOOLEAN, NEW f \in EventType
  PROVE  /\ Parts(b, e, s, c, f) \in ParserType
         /\ Parts(b, e, s, c, f).inBlock = b /\ Parts(b, e, s, c, f).pending = e
         /\ Parts(b, e, s, c, f).blockStack = s /\ Parts(b, e, s, c, f).inCreate = c
         /\ Parts(b, e, s, c, f).createTags = f
<1> HIDE DEF EventType
<1> QED
  BY DEF ParserType, Parts

\* A parser with another block stack.
LEMMA BlockStackChange ==
  ASSUME NEW p \in ParserType, NEW s
  PROVE  [p EXCEPT !.blockStack = s] = Parts(p.inBlock, p.pending, s, p.inCreate, p.createTags)
BY DEF ParserType, Parts

\* A parser with another event held back.
LEMMA PendingChange ==
  ASSUME NEW p \in ParserType, NEW b, NEW e
  PROVE  [p EXCEPT !.inBlock = b, !.pending = e] = Parts(b, e, p.blockStack, p.inCreate, p.createTags)
<1> DEFINE q == [p EXCEPT !.inBlock = b]
<1>1. q = Parts(b, p.pending, p.blockStack, p.inCreate, p.createTags)
  BY DEF ParserType, Parts
<1>2. [p EXCEPT !.inBlock = b, !.pending = e] = [q EXCEPT !.pending = e]
  OBVIOUS
<1> HIDE DEF q
<1>3. q \in [inBlock : {b}, pending : {p.pending}, blockStack : {p.blockStack},
            inCreate : {p.inCreate}, createTags : {p.createTags}]
  BY <1>1 DEF Parts
<1>4. [q EXCEPT !.pending = e] = Parts(b, e, p.blockStack, p.inCreate, p.createTags)
  BY <1>3 DEF Parts
<1> QED
  BY <1>2, <1>4, Zenon

\* A parser with other tags of a game.
LEMMA CreateTagsChange ==
  ASSUME NEW p \in ParserType, NEW b, NEW e
  PROVE  [p EXCEPT !.inCreate = b, !.createTags = e] = Parts(p.inBlock, p.pending, p.blockStack, b, e)
<1> DEFINE q == [p EXCEPT !.inCreate = b]
<1>1. q = Parts(p.inBlock, p.pending, p.blockStack, b, p.createTags)
  BY DEF ParserType, Parts
<1>2. [p EXCEPT !.inCreate = b, !.createTags = e] = [q EXCEPT !.createTags = e]
  OBVIOUS
<1> HIDE DEF q
<1>3. q \in [inBlock : {p.inBlock}, pending : {p.pending}, blockStack : {p.blockStack},
            inCreate : {b}, createTags : {p.createTags}]
  BY <1>1 DEF Parts
<1>4. [q EXCEPT !.createTags = e] = Parts(p.inBlock, p.pending, p.blockStack, b, e)
  BY <1>3 DEF Parts
<1> QED
  BY <1>2, <1>4, Zenon

\* A parser that is reset.
LEMMA ResetChange ==
  ASSUME NEW p \in ParserType, NEW b, NEW e, NEW s
  PROVE  [p EXCEPT !.inBlock = b, !.pending = e, !.blockStack = s] = Parts(b, e, s, p.inCreate, p.createTags)
<1> DEFINE q == [p EXCEPT !.inBlock = b, !.pending = e]
<1>1. q = Parts(b, e, p.blockStack, p.inCreate, p.createTags)
  BY PendingChange, Zenon
<1>2. [p EXCEPT !.inBlock = b, !.pending = e, !.blockStack = s] = [q EXCEPT !.blockStack = s]
  OBVIOUS
<1> HIDE DEF q
<1>3. q \in [inBlock : {b}, pending : {e}, blockStack : {p.blockStack},
            inCreate : {p.inCreate}, createTags : {p.createTags}]
  BY <1>1 DEF Parts
<1>4. [q EXCEPT !.blockStack = s] = Parts(b, e, s, p.inCreate, p.createTags)
  BY <1>3 DEF Parts
<1> QED
  BY <1>2, <1>4, Zenon

\* What ends a stretch of tag lines, by the parts of the parser.
LEMMA EndedIs ==
  ASSUME NEW p \in ParserType
  PROVE  /\ flushCreateGameEntityTags(p)
              = With(Parts(p.inBlock, p.pending, p.blockStack, FALSE, NoEvent),
                     IF p.inCreate /\ p.createTags.tags # {} THEN <<p.createTags>> ELSE <<>>)
         /\ flushPending(p)
              = With(Parts(FALSE, NoEvent, p.blockStack, p.inCreate, p.createTags),
                     IF p.inBlock THEN <<p.pending>> ELSE <<>>)
         /\ Reset(p) = Parts(FALSE, NoEvent, <<>>, p.inCreate, p.createTags)
<1>1. [p EXCEPT !.inCreate = FALSE, !.createTags = NoEvent]
        = Parts(p.inBlock, p.pending, p.blockStack, FALSE, NoEvent)
  BY CreateTagsChange, Zenon
<1>2. [p EXCEPT !.inBlock = FALSE, !.pending = NoEvent]
        = Parts(FALSE, NoEvent, p.blockStack, p.inCreate, p.createTags)
  BY PendingChange, Zenon
<1>3. [p EXCEPT !.inBlock = FALSE, !.pending = NoEvent, !.blockStack = <<>>]
        = Parts(FALSE, NoEvent, <<>>, p.inCreate, p.createTags)
  BY ResetChange, Zenon
<1> QED
  BY <1>1, <1>2, <1>3, Zenon DEF flushCreateGameEntityTags, flushPending, Reset

\* What ends a stretch of tag lines keeps the types.
LEMMA EndedTypes ==
  ASSUME NEW p \in ParserType
  PROVE  /\ flushCreateGameEntityTags(p) \in WithType
         /\ flushPending(p) \in WithType
         /\ Reset(p) \in ParserType
         /\ \A kind : Leave(p, kind) \in WithType
<1>0. NoEvent \in EventType
  BY NewTypes
<1>1. /\ p.inBlock \in BOOLEAN /\ p.pending \in EventType /\ p.blockStack \in Seq(Nat)
      /\ p.inCreate \in BOOLEAN /\ p.createTags \in EventType
  BY PartsAre
<1> HIDE DEF EventType
<1>2. /\ Parts(p.inBlock, p.pending, p.blockStack, FALSE, NoEvent) \in ParserType
      /\ Parts(FALSE, NoEvent, p.blockStack, p.inCreate, p.createTags) \in ParserType
      /\ Parts(FALSE, NoEvent, <<>>, p.inCreate, p.createTags) \in ParserType
  <2>1. FALSE \in BOOLEAN /\ <<>> \in Seq(Nat)
    OBVIOUS
  <2> QED
    BY <1>0, <1>1, <2>1, PartsMake, Zenon
<1>3. flushCreateGameEntityTags(p) \in WithType
  <2> DEFINE es == IF p.inCreate /\ p.createTags.tags # {} THEN <<p.createTags>> ELSE <<>>
  <2>1. es \in Seq(EventType)
    BY <1>1
  <2>2. flushCreateGameEntityTags(p) = With(Parts(p.inBlock, p.pending, p.blockStack, FALSE, NoEvent), es)
    BY EndedIs, Zenon
  <2> HIDE DEF es
  <2> QED
    BY <1>2, <2>1, <2>2, WithIs, Zenon
<1>4. flushPending(p) \in WithType
  <2> DEFINE es == IF p.inBlock THEN <<p.pending>> ELSE <<>>
  <2>1. es \in Seq(EventType)
    BY <1>1
  <2>2. flushPending(p) = With(Parts(FALSE, NoEvent, p.blockStack, p.inCreate, p.createTags), es)
    BY EndedIs, Zenon
  <2> HIDE DEF es
  <2> QED
    BY <1>2, <2>1, <2>2, WithIs, Zenon
<1>5. Reset(p) \in ParserType
  BY <1>2, EndedIs, Zenon
<1>6. ASSUME NEW kind PROVE Leave(p, kind) \in WithType
  <2>1. <<>> \in Seq(EventType)
    OBVIOUS
  <2>2. With(Reset(p), <<>>) \in WithType
    BY <1>5, <2>1, WithIs
  <2> QED
    BY <1>4, <2>2, Zenon DEF Leave
<1> QED
  BY <1>3, <1>4, <1>5, <1>6

\* The line that ends a stretch of tag lines, by its kind.
LEMMA OpenIs ==
  ASSUME NEW p \in ParserType, NEW i \in Nat, NEW kind \in LineKind
  PROVE  /\ kind = "blockEnd" /\ p.blockStack # <<>> =>
              Open(p, i, kind) = With([p EXCEPT !.blockStack = SubSeq(@, 1, Len(@) - 1)], <<>>)
         /\ kind = "blockStart" => Open(p, i, kind) = With([p EXCEPT !.blockStack = Append(@, i)], <<>>)
         /\ kind = "create" => Open(p, i, kind) = With(Reset(p), <<Event(kind, i, 0)>>)
         /\ kind = "gameEntity" =>
              Open(p, i, kind) = With([p EXCEPT !.inCreate = TRUE, !.createTags = Event(kind, i, 0)], <<>>)
         /\ kind \in Held =>
              Open(p, i, kind)
                = With([p EXCEPT !.inBlock = TRUE, !.pending = Event(kind, i, Source(p, kind))], <<>>)
         /\ kind \in Immediate \ {"create"} =>
              Open(p, i, kind) = With(p, <<Event(kind, i, Source(p, kind))>>)
         /\ kind \in {"blockTag", "other", "foreign"} \/ (kind = "blockEnd" /\ p.blockStack = <<>>) =>
              Open(p, i, kind) = With(p, <<>>)
<1>1. kind = "blockEnd" /\ p.blockStack # <<>> =>
        Open(p, i, kind) = With([p EXCEPT !.blockStack = SubSeq(@, 1, Len(@) - 1)], <<>>)
  BY DEF Open, Held, Immediate
<1>2. kind = "blockStart" => Open(p, i, kind) = With([p EXCEPT !.blockStack = Append(@, i)], <<>>)
  BY DEF Open, Held, Immediate
<1>3. kind = "create" => Open(p, i, kind) = With(Reset(p), <<Event(kind, i, 0)>>)
  BY DEF Open, Held, Immediate
<1>4. kind = "gameEntity" =>
        Open(p, i, kind) = With([p EXCEPT !.inCreate = TRUE, !.createTags = Event(kind, i, 0)], <<>>)
  BY DEF Open, Held, Immediate
<1>5. kind \in Held =>
        Open(p, i, kind) = With([p EXCEPT !.inBlock = TRUE, !.pending = Event(kind, i, Source(p, kind))], <<>>)
  BY DEF Open, Held, Immediate
<1>6. kind \in Immediate \ {"create"} => Open(p, i, kind) = With(p, <<Event(kind, i, Source(p, kind))>>)
  BY DEF Open, Held, Immediate
<1>7. kind \in {"blockTag", "other", "foreign"} \/ (kind = "blockEnd" /\ p.blockStack = <<>>) =>
        Open(p, i, kind) = With(p, <<>>)
  BY DEF Open, Held, Immediate
<1> QED
  BY <1>1, <1>2, <1>3, <1>4, <1>5, <1>6, <1>7

\* The line that ends a stretch of tag lines keeps the types.
LEMMA OpenTypes ==
  ASSUME NEW p \in ParserType, NEW i \in Nat, NEW kind \in LineKind
  PROVE  Open(p, i, kind) \in WithType
<1>1. Source(p, kind) \in Nat
  BY DEF Source, ParserType
<1>2. Event(kind, i, 0) \in EventType /\ Event(kind, i, Source(p, kind)) \in EventType
  BY <1>1, EventTypes
<1> HIDE DEF EventType
<1>3. /\ p.inBlock \in BOOLEAN /\ p.pending \in EventType /\ p.blockStack \in Seq(Nat)
      /\ p.inCreate \in BOOLEAN /\ p.createTags \in EventType
  BY PartsAre
<1>4. <<>> \in Seq(EventType) /\ <<Event(kind, i, 0)>> \in Seq(EventType)
      /\ <<Event(kind, i, Source(p, kind))>> \in Seq(EventType)
  BY <1>2
<1>5. CASE kind = "blockEnd" /\ p.blockStack # <<>>
  <2> DEFINE s == SubSeq(p.blockStack, 1, Len(p.blockStack) - 1)
  <2>1. s \in Seq(Nat)
    BY <1>3, <1>5
  <2>2. Open(p, i, kind) = With([p EXCEPT !.blockStack = s], <<>>)
    BY <1>5, OpenIs
  <2> HIDE DEF s
  <2> DEFINE q == [p EXCEPT !.blockStack = s]
  <2>3. q = Parts(p.inBlock, p.pending, s, p.inCreate, p.createTags)
    BY BlockStackChange, Zenon
  <2>4. Open(p, i, kind) = With(q, <<>>)
    BY <2>2, Zenon
  <2> HIDE DEF q
  <2>5. q \in ParserType
    BY <1>3, <2>1, <2>3, PartsMake, Zenon
  <2> QED
    BY <1>4, <2>4, <2>5, WithIs, Zenon
<1>6. CASE kind = "blockStart"
  <2> DEFINE s == Append(p.blockStack, i)
  <2>1. s \in Seq(Nat)
    BY <1>3
  <2>2. Open(p, i, kind) = With([p EXCEPT !.blockStack = s], <<>>)
    BY <1>6, OpenIs
  <2> HIDE DEF s
  <2> DEFINE q == [p EXCEPT !.blockStack = s]
  <2>3. q = Parts(p.inBlock, p.pending, s, p.inCreate, p.createTags)
    BY BlockStackChange, Zenon
  <2>4. Open(p, i, kind) = With(q, <<>>)
    BY <2>2, Zenon
  <2> HIDE DEF q
  <2>5. q \in ParserType
    BY <1>3, <2>1, <2>3, PartsMake, Zenon
  <2> QED
    BY <1>4, <2>4, <2>5, WithIs, Zenon
<1>7. CASE kind = "create"
  <2>1. Open(p, i, kind) = With(Reset(p), <<Event(kind, i, 0)>>)
    BY <1>7, OpenIs
  <2>2. Reset(p) \in ParserType
    BY EndedTypes
  <2> QED
    BY <1>4, <2>1, <2>2, WithIs, Zenon
<1>8. CASE kind = "gameEntity"
  <2> DEFINE e == Event(kind, i, 0)
             q == [p EXCEPT !.inCreate = TRUE, !.createTags = e]
  <2>1. Open(p, i, kind) = With(q, <<>>)
    <3>1. kind = "gameEntity" => Open(p, i, kind) = With(q, <<>>)
      BY OpenIs, Zenon
    <3> QED
      BY <1>8, <3>1
  <2>2. q = Parts(p.inBlock, p.pending, p.blockStack, TRUE, e)
    BY CreateTagsChange, Zenon
  <2>3. TRUE \in BOOLEAN
    OBVIOUS
  <2> HIDE DEF q
  <2>4. q \in ParserType
    BY <1>2, <1>3, <2>2, <2>3, PartsMake, Zenon
  <2> QED
    BY <1>4, <2>1, <2>4, WithIs, Zenon
<1>9. CASE kind \in Held
  <2> DEFINE e == Event(kind, i, Source(p, kind))
             q == [p EXCEPT !.inBlock = TRUE, !.pending = e]
  <2>1. Open(p, i, kind) = With(q, <<>>)
    BY <1>9, OpenIs
  <2>2. q = Parts(TRUE, e, p.blockStack, p.inCreate, p.createTags)
    BY PendingChange, Zenon
  <2>3. TRUE \in BOOLEAN
    OBVIOUS
  <2> HIDE DEF q
  <2>4. q \in ParserType
    BY <1>2, <1>3, <2>2, <2>3, PartsMake, Zenon
  <2> QED
    BY <1>4, <2>1, <2>4, WithIs, Zenon
<1>10. CASE kind \in Immediate \ {"create"}
  <2>1. Open(p, i, kind) = With(p, <<Event(kind, i, Source(p, kind))>>)
    BY <1>10, OpenIs
  <2> QED
    BY <1>4, <2>1, WithIs, Zenon
<1>11. CASE kind \in {"blockTag", "other", "foreign"} \/ (kind = "blockEnd" /\ p.blockStack = <<>>)
  <2>1. Open(p, i, kind) = With(p, <<>>)
    BY <1>11, OpenIs
  <2> QED
    BY <1>4, <2>1, WithIs, Zenon
<1>12. kind \in Held \/ kind \in Immediate \ {"create"}
       \/ kind \in {"create", "gameEntity", "blockStart", "blockEnd", "blockTag", "other", "foreign"}
  BY DEF LineKind
<1> QED
  BY <1>5, <1>6, <1>7, <1>8, <1>9, <1>10, <1>11, <1>12

\* A line, by what it is to the parser.
LEMMA FeedIs ==
  ASSUME NEW p \in ParserType, NEW i \in Nat, NEW kind \in LineKind
  PROVE  /\ kind = "foreign" => Feed(p, i, kind) = With(p, <<>>)
         /\ kind = "blockTag" /\ p.inCreate =>
              Feed(p, i, kind)
                = With(Parts(p.inBlock, p.pending, p.blockStack, p.inCreate,
                             Tagged(p.createTags, i)), <<>>)
         /\ kind = "blockTag" /\ ~p.inCreate /\ p.inBlock =>
              Feed(p, i, kind)
                = With(Parts(p.inBlock, Tagged(p.pending, i), p.blockStack,
                             p.inCreate, p.createTags), <<>>)
         /\ kind # "foreign" /\ ~(kind = "blockTag" /\ (p.inCreate \/ p.inBlock)) =>
              Feed(p, i, kind)
                = LET ended == flushCreateGameEntityTags(p)
                      left  == Leave(ended.parser, kind)
                      open  == Open(left.parser, i, kind)
                  IN  With(open.parser, ended.events \o left.events \o open.events)
<1>1. kind = "foreign" => Feed(p, i, kind) = With(p, <<>>)
  BY DEF Feed
<1>2. [p EXCEPT !.createTags = Tagged(@, i)]
        = Parts(p.inBlock, p.pending, p.blockStack, p.inCreate, Tagged(p.createTags, i))
  BY DEF ParserType, Parts
<1>3. [p EXCEPT !.pending = Tagged(@, i)]
        = Parts(p.inBlock, Tagged(p.pending, i), p.blockStack, p.inCreate, p.createTags)
  BY DEF ParserType, Parts
<1>4. kind = "blockTag" /\ p.inCreate =>
        Feed(p, i, kind) = With([p EXCEPT !.createTags = Tagged(@, i)], <<>>)
  BY DEF Feed
<1>5. kind = "blockTag" /\ ~p.inCreate /\ p.inBlock =>
        Feed(p, i, kind) = With([p EXCEPT !.pending = Tagged(@, i)], <<>>)
  BY DEF Feed
<1>6. kind # "foreign" /\ ~(kind = "blockTag" /\ (p.inCreate \/ p.inBlock)) =>
        Feed(p, i, kind)
          = LET ended == flushCreateGameEntityTags(p)
                left  == Leave(ended.parser, kind)
                open  == Open(left.parser, i, kind)
            IN  With(open.parser, ended.events \o left.events \o open.events)
  BY DEF Feed
<1> QED
  BY <1>1, <1>2, <1>3, <1>4, <1>5, <1>6

\* A line, and the end of the log.
LEMMA FeedTypes ==
  ASSUME NEW p \in ParserType, NEW i \in Nat, NEW kind \in LineKind
  PROVE  Feed(p, i, kind) \in WithType
<1>1. \A e \in EventType : Tagged(e, i) \in EventType
  BY DEF EventType, Tagged
<1> HIDE DEF EventType
<1>2. /\ p.inBlock \in BOOLEAN /\ p.pending \in EventType /\ p.blockStack \in Seq(Nat)
      /\ p.inCreate \in BOOLEAN /\ p.createTags \in EventType
  BY PartsAre
<1>3. <<>> \in Seq(EventType)
  OBVIOUS
<1>4. CASE kind = "foreign"
  <2>1. Feed(p, i, kind) = With(p, <<>>)
    BY <1>4, FeedIs
  <2> QED
    BY <1>3, <2>1, WithIs, Zenon
<1>5. CASE kind = "blockTag" /\ p.inCreate
  <2> DEFINE e == Tagged(p.createTags, i)
             q == Parts(p.inBlock, p.pending, p.blockStack, p.inCreate, e)
  <2>1. e \in EventType
    BY <1>1, <1>2
  <2>3. Feed(p, i, kind) = With(q, <<>>)
    <3>1. kind = "blockTag" /\ p.inCreate => Feed(p, i, kind) = With(q, <<>>)
      BY FeedIs, Zenon
    <3> QED
      BY <1>5, <3>1, Zenon
  <2> HIDE DEF e
  <2>2. q \in ParserType
    BY <1>2, <2>1, PartsMake, Zenon
  <2> QED
    BY <1>3, <2>2, <2>3, WithIs, Zenon
<1>6. CASE kind = "blockTag" /\ ~p.inCreate /\ p.inBlock
  <2> DEFINE e == Tagged(p.pending, i)
             q == Parts(p.inBlock, e, p.blockStack, p.inCreate, p.createTags)
  <2>1. e \in EventType
    BY <1>1, <1>2
  <2>3. Feed(p, i, kind) = With(q, <<>>)
    <3>1. kind = "blockTag" /\ ~p.inCreate /\ p.inBlock => Feed(p, i, kind) = With(q, <<>>)
      BY FeedIs, Zenon
    <3> QED
      BY <1>6, <3>1, Zenon
  <2> HIDE DEF e
  <2>2. q \in ParserType
    BY <1>2, <2>1, PartsMake, Zenon
  <2> QED
    BY <1>3, <2>2, <2>3, WithIs, Zenon
<1>7. CASE kind # "foreign" /\ ~(kind = "blockTag" /\ (p.inCreate \/ p.inBlock))
  <2> DEFINE ended == flushCreateGameEntityTags(p)
             left  == Leave(ended.parser, kind)
             open  == Open(left.parser, i, kind)
  <2>1. ended \in WithType
    BY EndedTypes
  <2>2. ended.parser \in ParserType /\ ended.events \in Seq(EventType)
    BY <2>1 DEF WithType
  <2>3. Feed(p, i, kind) = With(open.parser, ended.events \o left.events \o open.events)
    BY <1>7, FeedIs
  <2> HIDE DEF ended
  <2>4. left \in WithType
    BY <2>2, EndedTypes
  <2>5. left.parser \in ParserType /\ left.events \in Seq(EventType)
    BY <2>4 DEF WithType
  <2> HIDE DEF left
  <2>6. open \in WithType
    BY <2>5, OpenTypes
  <2>7. open.parser \in ParserType /\ open.events \in Seq(EventType)
    BY <2>6 DEF WithType
  <2> HIDE DEF open
  <2>8. ended.events \o left.events \o open.events \in Seq(EventType)
    BY <2>2, <2>5, <2>7
  <2> QED
    BY <2>3, <2>7, <2>8, WithIs
<1> QED
  BY <1>4, <1>5, <1>6, <1>7

\* The end of the log keeps the types.
LEMMA FlushTypes ==
  ASSUME NEW p \in ParserType
  PROVE  Flush(p) \in WithType
<1> DEFINE ended == flushCreateGameEntityTags(p)
           left  == flushPending(ended.parser)
<1>1. ended \in WithType
  BY EndedTypes
<1>2. ended.parser \in ParserType /\ ended.events \in Seq(EventType)
  BY <1>1 DEF WithType
<1>3. Flush(p) = With(left.parser, ended.events \o left.events)
  BY DEF Flush
<1> HIDE DEF ended
<1>4. left \in WithType
  BY <1>2, EndedTypes
<1>5. left.parser \in ParserType /\ left.events \in Seq(EventType)
  BY <1>4 DEF WithType
<1> HIDE DEF left
<1>6. ended.events \o left.events \in Seq(EventType)
  BY <1>2, <1>5
<1> QED
  BY <1>3, <1>5, <1>6, WithIs

\* The raw lines of a step, with the oldest dropped.
LEMMA CappedTypes ==
  ASSUME NEW raw \in Seq(Nat), NEW dropped \in Nat, NEW ls \in Seq(Nat)
  PROVE  Capped(raw, dropped, ls) \in [raw : Seq(Nat), dropped : Nat]
<1> DEFINE all  == raw \o ls
           over == Max({0, Len(all) - MaxRaw})
<1>1. MaxRaw \in Nat /\ all \in Seq(Nat) /\ Len(all) \in Nat
  BY ReplayAssumption
<1> HIDE DEF all
<1>2. over \in Nat /\ over <= Len(all)
  <2>1. 0 \in Int /\ Len(all) - MaxRaw \in Int
    BY <1>1
  <2>2. over \in {0, Len(all) - MaxRaw} /\ over >= 0
    BY <2>1, MaxOfTwo
  <2> QED
    BY <1>1, <2>2
<1> HIDE DEF over
<1>3. SubSeq(all, over + 1, Len(all)) \in Seq(Nat)
  BY <1>1, <1>2
<1>4. Capped(raw, dropped, ls) = [raw |-> SubSeq(all, over + 1, Len(all)), dropped |-> dropped + over]
  BY DEF Capped, all, over
<1> QED
  BY <1>2, <1>3, <1>4

-----------------------------------------------------------------------------
(* Replay: the builder *)

\* What the loader has built, by its parts.
Make(ss, gs, st, ac, ea) == [steps |-> ss, games |-> gs, start |-> st, accum |-> ac, early |-> ea]

\* What is made of the parts has the type of what is built.
LEMMA MakeTypes ==
  ASSUME NEW ss \in Seq(StepType), NEW gs \in Seq(GameType), NEW st \in Nat, NEW ac \in Seq(Nat), NEW ea \in Nat
  PROVE  /\ Make(ss, gs, st, ac, ea) \in BuiltType
         /\ Make(ss, gs, st, ac, ea).steps = ss /\ Make(ss, gs, st, ac, ea).games = gs
         /\ Make(ss, gs, st, ac, ea).start = st /\ Make(ss, gs, st, ac, ea).accum = ac
         /\ Make(ss, gs, st, ac, ea).early = ea
BY DEF Make, BuiltType

\* What is built is made of its parts.
LEMMA MakeIs ==
  ASSUME NEW b \in BuiltType
  PROVE  /\ b.steps \in Seq(StepType) /\ b.games \in Seq(GameType) /\ b.start \in Nat
         /\ b.accum \in Seq(Nat) /\ b.early \in Nat
         /\ b = Make(b.steps, b.games, b.start, b.accum, b.early)
BY DEF Make, BuiltType

\* The last step, with more lines: nothing else of it changes.
Same(ss, new) ==
  /\ new \in Seq(StepType) /\ Len(new) = Len(ss)
  /\ \A i \in 1..Len(ss) : new[i].kind = ss[i].kind

\* The last step with more lines: the other steps stay, and it keeps its kind, turn and end.
LEMMA ToppedIs ==
  ASSUME NEW ss \in Seq(StepType), ss # <<>>, NEW ls \in Seq(Nat)
  PROVE  LET n == Len(ss)
             c == Capped(ss[n].raw, ss[n].dropped, ls)
         IN  /\ n \in 1..Len(ss) /\ Same(ss, Topped(ss, ls))
             /\ Topped(ss, ls)[n].raw = c.raw /\ Topped(ss, ls)[n].dropped = c.dropped
             /\ \A i \in 1..(n - 1) : Topped(ss, ls)[i] = ss[i]
<1> DEFINE n == Len(ss)
           c == Capped(ss[n].raw, ss[n].dropped, ls)
           s == [ss[n] EXCEPT !.raw = c.raw, !.dropped = c.dropped]
<1>1. n \in 1..Len(ss) /\ ss[n] \in StepType
  OBVIOUS
<1>2. ss[n].raw \in Seq(Nat) /\ ss[n].dropped \in Nat
  BY <1>1 DEF StepType
<1>3. c.raw \in Seq(Nat) /\ c.dropped \in Nat
  <2>1. c \in [raw : Seq(Nat), dropped : Nat]
    BY <1>2, CappedTypes
  <2> QED
    BY <2>1
<1>4. Topped(ss, ls) = [ss EXCEPT ![n] = s]
  BY Zenon DEF Topped
<1> HIDE DEF c
<1>5. s \in StepType /\ s.kind = ss[n].kind /\ s.raw = c.raw /\ s.dropped = c.dropped
  BY <1>1, <1>3 DEF StepType
<1> HIDE DEF s
<1>6. /\ Topped(ss, ls) \in Seq(StepType) /\ Len(Topped(ss, ls)) = Len(ss)
      /\ Topped(ss, ls)[n] = s /\ \A i \in 1..Len(ss) : i # n => Topped(ss, ls)[i] = ss[i]
  BY <1>1, <1>4, <1>5
<1>7. \A i \in 1..(n - 1) : Topped(ss, ls)[i] = ss[i]
  BY <1>1, <1>6
<1>8. Same(ss, Topped(ss, ls))
  BY <1>5, <1>6 DEF Same
<1> QED
  BY <1>1, <1>5, <1>6, <1>7, <1>8 DEF c

\* What accumulates is dropped before the first step, and added to the last one after it.
LEMMA FoldIs ==
  ASSUME NEW b \in BuiltType
  PROVE  /\ b.steps = <<>> =>
              foldAccum(b) = Make(b.steps, b.games, b.start, <<>>, b.early + Len(b.accum))
         /\ b.steps # <<>> =>
              foldAccum(b) = Make(Topped(b.steps, b.accum), b.games, b.start, <<>>, b.early)
<1>1. ASSUME b.steps = <<>>
      PROVE  foldAccum(b) = Make(b.steps, b.games, b.start, <<>>, b.early + Len(b.accum))
  <2>1. foldAccum(b) = [b EXCEPT !.accum = <<>>, !.early = @ + Len(b.accum)]
    BY <1>1 DEF foldAccum
  <2> QED
    BY <1>1, <2>1 DEF BuiltType, Make
<1>2. ASSUME b.steps # <<>>
      PROVE  foldAccum(b) = Make(Topped(b.steps, b.accum), b.games, b.start, <<>>, b.early)
  <2> DEFINE ss == Topped(b.steps, b.accum)
             none == <<>>
             q == [b EXCEPT !.accum = none]
  <2>1. foldAccum(b) = [q EXCEPT !.steps = ss]
    <3>1. q.steps = b.steps
      BY DEF BuiltType
    <3>2. foldAccum(b) = [q EXCEPT !.steps = Topped(q.steps, b.accum)]
      BY <1>2 DEF foldAccum
    <3> QED
      BY <3>1, <3>2
  <2> HIDE DEF none
  <2>3. q = Make(b.steps, b.games, b.start, none, b.early)
    BY DEF BuiltType, Make
  <2> HIDE DEF q, ss
  <2>4. q \in [steps : {b.steps}, games : {b.games}, start : {b.start}, accum : {none}, early : {b.early}]
    BY <2>3 DEF Make
  <2>5. [q EXCEPT !.steps = ss] = Make(ss, b.games, b.start, none, b.early)
    BY <2>4 DEF Make
  <2> QED
    BY <2>1, <2>5, Zenon DEF ss, none
<1> QED
  BY <1>1, <1>2

\* A step, and what it does to the games.
EffectType == [t : Nat, over : BOOLEAN, changes : BOOLEAN]

\* The step an event makes of what accumulates.
NewStep(b, e, effect) ==
  LET c == Capped(<<>>, 0, b.accum) IN Step(e, effect.t, effect.over, c.raw, c.dropped)

\* What a new step does to the open game and to the games.
LEMMA AppendIs ==
  ASSUME NEW b \in BuiltType, NEW e, NEW effect
  PROVE  LET ss == Append(b.steps, NewStep(b, e, effect))
             n  == Len(b.steps) + 1
         IN  /\ e.kind = "create" => AppendStep(b, e, effect) = Make(ss, b.games, n, <<>>, b.early)
             /\ e.kind = "complete" /\ b.start # NoGame =>
                  AppendStep(b, e, effect)
                    = Make(ss, Append(b.games, [lo |-> b.start, hi |-> n]), NoGame, <<>>, b.early)
             /\ e.kind # "create" /\ ~(e.kind = "complete" /\ b.start # NoGame) =>
                  AppendStep(b, e, effect) = Make(ss, b.games, b.start, <<>>, b.early)
<1> DEFINE s  == NewStep(b, e, effect)
           ss == Append(b.steps, s)
           n  == Len(b.steps) + 1
           q  == [b EXCEPT !.steps = ss]
           grown == [q EXCEPT !.accum = <<>>]
           game == [lo |-> b.start, hi |-> n]
           gs == Append(b.games, game)
           r  == [grown EXCEPT !.games = gs]
<1>1. AppendStep(b, e, effect)
        = CASE e.kind = "create" -> [grown EXCEPT !.start = n]
            [] e.kind = "complete" /\ b.start # NoGame -> [r EXCEPT !.start = NoGame]
            [] OTHER -> grown
  <2> HIDE DEF NoGame
  <2>1. grown.games = b.games /\ grown.start = b.start
    BY DEF BuiltType
  <2> QED
    BY <2>1 DEF AppendStep, NewStep
<1> HIDE DEF s, n, game, ss
<1>2. q = Make(ss, b.games, b.start, b.accum, b.early)
  BY DEF BuiltType, Make
<1> HIDE DEF q
<1>3. q \in [steps : {ss}, games : {b.games}, start : {b.start}, accum : {b.accum}, early : {b.early}]
  BY <1>2 DEF Make
<1>4. grown = Make(ss, b.games, b.start, <<>>, b.early)
  BY <1>3 DEF Make
<1> HIDE DEF grown, gs
<1>8. grown \in [steps : {ss}, games : {b.games}, start : {b.start}, accum : {<<>>}, early : {b.early}]
  BY <1>4 DEF Make
<1>9. [grown EXCEPT !.start = n] = Make(ss, b.games, n, <<>>, b.early)
  BY <1>8 DEF Make
<1>10. r = Make(ss, gs, b.start, <<>>, b.early)
  BY <1>8 DEF Make
<1> HIDE DEF r
<1>11. r \in [steps : {ss}, games : {gs}, start : {b.start}, accum : {<<>>}, early : {b.early}]
  BY <1>10 DEF Make
<1>12. [r EXCEPT !.start = NoGame] = Make(ss, gs, NoGame, <<>>, b.early)
  BY <1>11 DEF Make
<1>5. e.kind = "create" => AppendStep(b, e, effect) = Make(ss, b.games, n, <<>>, b.early)
  BY <1>1, <1>9
<1>6. e.kind = "complete" /\ b.start # NoGame =>
        AppendStep(b, e, effect) = Make(ss, gs, NoGame, <<>>, b.early)
  BY <1>1, <1>12
<1>7. e.kind # "create" /\ ~(e.kind = "complete" /\ b.start # NoGame) =>
        AppendStep(b, e, effect) = Make(ss, b.games, b.start, <<>>, b.early)
  BY <1>1, <1>4
<1> QED
  BY <1>5, <1>6, <1>7, Zenon DEF gs, ss, s, n, game

\* The effects of an event are known by their types.
LEMMA EffectTypes ==
  ASSUME NEW b \in BuiltType, NEW kind
  PROVE  Effects(kind, StateOf(b)) \subseteq EffectType
<1>1. StateOf(b).t \in Nat /\ StateOf(b).over \in BOOLEAN
  <2>1. CASE b.steps = <<>>
    BY <2>1 DEF StateOf
  <2>2. CASE b.steps # <<>>
    <3>1. b.steps[Len(b.steps)] \in StepType
      BY <2>2, MakeIs
    <3> QED
      BY <2>2, <3>1 DEF StateOf, StepType
  <2> QED
    BY <2>1, <2>2
<1> DEFINE t == StateOf(b).t
           over == StateOf(b).over
<1>2. t \in Nat /\ t + 1 \in Nat /\ over \in BOOLEAN
  BY <1>1
<1> HIDE DEF t, over
<1>3. /\ {[t |-> 0, over |-> FALSE, changes |-> TRUE]} \subseteq EffectType
      /\ {[t |-> t + 1, over |-> over, changes |-> TRUE]} \subseteq EffectType
      /\ {[t |-> t, over |-> TRUE, changes |-> ~over]} \subseteq EffectType
      /\ {[t |-> t, over |-> over, changes |-> c] : c \in BOOLEAN} \subseteq EffectType
  BY <1>2 DEF EffectType
<1> QED
  BY <1>3 DEF Effects, t, over

\* A new step.
LEMMA NewStepTypes ==
  ASSUME NEW b \in BuiltType, NEW e \in EventType, NEW effect \in EffectType
  PROVE  LET s == NewStep(b, e, effect)
             c == Capped(<<>>, 0, b.accum)
         IN  s \in StepType /\ s.kind = e.kind /\ s.raw = c.raw /\ s.dropped = c.dropped
<1> DEFINE c == Capped(<<>>, 0, b.accum)
<1>1. c.raw \in Seq(Nat) /\ c.dropped \in Nat
  <2>1. b.accum \in Seq(Nat) /\ <<>> \in Seq(Nat)
    BY MakeIs
  <2>2. c \in [raw : Seq(Nat), dropped : Nat]
    BY <2>1, CappedTypes
  <2> QED
    BY <2>2
<1> HIDE DEF c
<1>2. NewStep(b, e, effect)
        = [kind |-> e.kind, of |-> e.of, t |-> effect.t, over |-> effect.over,
           raw |-> c.raw, dropped |-> c.dropped]
  BY DEF NewStep, Step, c
<1>3. e.kind \in LineKind /\ e.of \in Nat /\ effect.t \in Nat /\ effect.over \in BOOLEAN
  BY DEF EventType, EffectType
<1> QED
  BY <1>1, <1>2, <1>3 DEF StepType, c

\* Either way of taking an event keeps the types.
LEMMA BuildTypes ==
  ASSUME NEW b \in BuiltType
  PROVE  /\ foldAccum(b) \in BuiltType
         /\ \A e \in EventType, effect \in EffectType : AppendStep(b, e, effect) \in BuiltType
<1>0. /\ b.steps \in Seq(StepType) /\ b.games \in Seq(GameType) /\ b.start \in Nat
      /\ b.accum \in Seq(Nat) /\ b.early \in Nat
  BY MakeIs
<1>1. <<>> \in Seq(Nat) /\ b.early + Len(b.accum) \in Nat /\ 0 \in Nat /\ NoGame = 0
  BY <1>0 DEF NoGame
<1>2. foldAccum(b) \in BuiltType
  <2>1. CASE b.steps = <<>>
    <3>1. foldAccum(b) = Make(b.steps, b.games, b.start, <<>>, b.early + Len(b.accum))
      BY <2>1, FoldIs
    <3> QED
      BY <1>0, <1>1, <3>1 DEF Make, BuiltType
  <2>2. CASE b.steps # <<>>
    <3>1. foldAccum(b) = Make(Topped(b.steps, b.accum), b.games, b.start, <<>>, b.early)
      BY <2>2, FoldIs
    <3>2. Topped(b.steps, b.accum) \in Seq(StepType)
      BY <1>0, <2>2, ToppedIs DEF Same
    <3> QED
      BY <1>0, <1>1, <3>1, <3>2 DEF Make, BuiltType
  <2> QED
    BY <2>1, <2>2
<1>3. ASSUME NEW e \in EventType, NEW effect \in EffectType PROVE AppendStep(b, e, effect) \in BuiltType
  <2> DEFINE s  == NewStep(b, e, effect)
             ss == Append(b.steps, s)
             n  == Len(b.steps) + 1
             gs == Append(b.games, [lo |-> b.start, hi |-> n])
  <2>1. s \in StepType
    BY NewStepTypes
  <2> HIDE DEF s
  <2>2. ss \in Seq(StepType) /\ n \in Nat
    BY <1>0, <2>1
  <2>3. gs \in Seq(GameType)
    BY <1>0, <2>2 DEF GameType
  <2>4. \/ AppendStep(b, e, effect) = Make(ss, b.games, n, <<>>, b.early)
        \/ AppendStep(b, e, effect) = Make(ss, gs, NoGame, <<>>, b.early)
        \/ AppendStep(b, e, effect) = Make(ss, b.games, b.start, <<>>, b.early)
    BY AppendIs DEF s
  <2> HIDE DEF ss, n, gs
  <2>5. NoGame \in Nat
    BY <1>1
  <2>6. Make(ss, b.games, n, <<>>, b.early) \in BuiltType
    BY <1>0, <1>1, <2>2 DEF Make, BuiltType
  <2>7. Make(ss, gs, NoGame, <<>>, b.early) \in BuiltType
    BY <1>0, <1>1, <2>2, <2>3, <2>5 DEF Make, BuiltType
  <2>8. Make(ss, b.games, b.start, <<>>, b.early) \in BuiltType
    BY <1>0, <1>1, <2>2 DEF Make, BuiltType
  <2> QED
    BY <2>4, <2>6, <2>7, <2>8, Zenon
<1> QED
  BY <1>2, <1>3

-----------------------------------------------------------------------------
(* Replay: the games *)

\* Nothing between two steps begins or ends a game.
Calm(ss, i, j) == \A k \in i..j : ss[k].kind \notin {"create", "complete"}

\* A game that ended: from its start to its end, nothing between.
Whole(ss, lo, hi) ==
  /\ lo \in 1..Len(ss) /\ hi \in 1..Len(ss) /\ lo < hi
  /\ ss[lo].kind = "create" /\ ss[hi].kind = "complete" /\ Calm(ss, lo + 1, hi - 1)

\* The games kept are those that ended, in their order; the open one is the last
\* start with neither a start nor an end behind it.
GamesInv(ss, gs, st) ==
  /\ st \in 0..Len(ss)
  /\ st # 0 => ss[st].kind = "create" /\ Calm(ss, st + 1, Len(ss))
  /\ st = 0 => \A i \in 1..Len(ss) : ss[i].kind = "create" => ~Calm(ss, i + 1, Len(ss))
  /\ \A g \in 1..Len(gs) : Whole(ss, gs[g].lo, gs[g].hi)
  /\ \A lo, hi \in Nat : Whole(ss, lo, hi) => \E g \in 1..Len(gs) : gs[g] = [lo |-> lo, hi |-> hi]
  /\ \A g \in 1..(Len(gs) - 1) : gs[g].hi < gs[g + 1].lo
  /\ st # 0 => \A g \in 1..Len(gs) : gs[g].hi < st

\* It is about the kinds of the steps alone.
LEMMA CalmSame ==
  ASSUME NEW ss \in Seq(StepType), NEW new, Same(ss, new)
  PROVE  /\ \A i \in Nat \ {0}, j \in 0..Len(ss) : Calm(new, i, j) <=> Calm(ss, i, j)
         /\ \A lo, hi \in Nat : Whole(new, lo, hi) <=> Whole(ss, lo, hi)
<1>0. Len(ss) \in Nat /\ Len(new) = Len(ss) /\ \A i \in 1..Len(ss) : new[i].kind = ss[i].kind
  BY DEF Same
<1> HIDE DEF Same
<1>1. ASSUME NEW i \in Nat \ {0}, NEW j \in 0..Len(ss) PROVE Calm(new, i, j) <=> Calm(ss, i, j)
  <2>1. \A k \in i..j : k \in 1..Len(ss)
    BY <1>0
  <2>2. \A k \in i..j : new[k].kind = ss[k].kind
    BY <1>0, <2>1
  <2> QED
    BY <2>2 DEF Calm
<1>2. ASSUME NEW lo \in Nat, NEW hi \in Nat PROVE Whole(new, lo, hi) <=> Whole(ss, lo, hi)
  <2>1. CASE lo \in 1..Len(ss) /\ hi \in 1..Len(ss)
    <3>1. lo + 1 \in Nat \ {0} /\ hi - 1 \in 0..Len(ss)
      BY <1>0, <2>1
    <3>2. Calm(new, lo + 1, hi - 1) <=> Calm(ss, lo + 1, hi - 1)
      BY <1>1, <3>1
    <3> QED
      BY <1>0, <2>1, <3>2 DEF Whole
  <2>2. CASE ~(lo \in 1..Len(ss) /\ hi \in 1..Len(ss))
    BY <1>0, <2>2 DEF Whole
  <2> QED
    BY <2>1, <2>2
<1> QED
  BY <1>1, <1>2

\* The games stay what they are when steps only gain raw lines.
LEMMA GamesSame ==
  ASSUME NEW ss \in Seq(StepType), NEW gs \in Seq(GameType), NEW st, NEW new,
         GamesInv(ss, gs, st), Same(ss, new)
  PROVE  GamesInv(new, gs, st)
<1>0. Len(ss) \in Nat /\ Len(new) = Len(ss) /\ \A i \in 1..Len(ss) : new[i].kind = ss[i].kind
  BY DEF Same
<1>1. /\ \A i \in Nat \ {0}, j \in 0..Len(ss) : Calm(new, i, j) <=> Calm(ss, i, j)
      /\ \A lo, hi \in Nat : Whole(new, lo, hi) <=> Whole(ss, lo, hi)
  BY CalmSame
<1>2. st \in 0..Len(ss) /\ \A i \in 0..Len(ss) : i + 1 \in Nat \ {0}
  BY <1>0 DEF GamesInv
<1>3. \A g \in 1..Len(gs) : gs[g].lo \in Nat /\ gs[g].hi \in Nat
  <2>1. \A g \in 1..Len(gs) : gs[g] \in GameType
    OBVIOUS
  <2> QED
    BY <2>1 DEF GameType
<1>4. \A i \in 0..Len(ss) : Calm(new, i + 1, Len(new)) <=> Calm(ss, i + 1, Len(ss))
  BY <1>0, <1>1, <1>2
<1>5. st # 0 => new[st].kind = "create" /\ Calm(new, st + 1, Len(new))
  <2>1. st # 0 => st \in 1..Len(ss)
    BY <1>0, <1>2
  <2> HIDE DEF Calm
  <2>2. st # 0 => ss[st].kind = "create" /\ Calm(ss, st + 1, Len(ss))
    BY DEF GamesInv
  <2>3. Calm(new, st + 1, Len(new)) <=> Calm(ss, st + 1, Len(ss))
    BY <1>2, <1>4
  <2> QED
    BY <1>0, <2>1, <2>2, <2>3
<1>6. st = 0 => \A i \in 1..Len(new) : new[i].kind = "create" => ~Calm(new, i + 1, Len(new))
  <2> HIDE DEF Calm
  <2> QED
    BY <1>0, <1>4 DEF GamesInv
<1>7. \A g \in 1..Len(gs) : Whole(new, gs[g].lo, gs[g].hi)
  BY <1>1, <1>3 DEF GamesInv
<1>8. \A lo, hi \in Nat : Whole(new, lo, hi) => \E g \in 1..Len(gs) : gs[g] = [lo |-> lo, hi |-> hi]
  BY <1>1 DEF GamesInv
<1> QED
  BY <1>0, <1>5, <1>6, <1>7, <1>8 DEF GamesInv

\* One more step.
LEMMA CalmGrows ==
  ASSUME NEW ss \in Seq(StepType), NEW s \in StepType
  PROVE  LET ss2 == Append(ss, s)
             n   == Len(ss) + 1
         IN  /\ ss2 \in Seq(StepType) /\ Len(ss2) = n /\ ss2[n] = s
             /\ \A i \in 1..Len(ss) : ss2[i] = ss[i]
             /\ \A i \in Nat \ {0}, j \in 0..Len(ss) : Calm(ss2, i, j) <=> Calm(ss, i, j)
             /\ \A i \in 1..n : Calm(ss2, i, n) <=> Calm(ss, i, Len(ss)) /\ s.kind \notin {"create", "complete"}
             /\ Calm(ss2, n + 1, n)
             /\ \A lo, hi \in Nat :
                  Whole(ss2, lo, hi) <=> \/ Whole(ss, lo, hi)
                                         \/ /\ hi = n /\ s.kind = "complete" /\ lo \in 1..Len(ss)
                                            /\ ss[lo].kind = "create" /\ Calm(ss, lo + 1, Len(ss))
<1> DEFINE ss2 == Append(ss, s)
           m   == Len(ss)
           n   == m + 1
<1>1. ss2 \in Seq(StepType) /\ Len(ss2) = n /\ ss2[n] = s /\ \A i \in 1..m : ss2[i] = ss[i]
  OBVIOUS
<1>2. m \in Nat
  OBVIOUS
<1> HIDE DEF ss2, m
<1>3. ASSUME NEW i \in Nat \ {0}, NEW j \in 0..m PROVE Calm(ss2, i, j) <=> Calm(ss, i, j)
  <2>1. \A k \in i..j : k \in 1..m
    BY <1>2
  <2>2. \A k \in i..j : ss2[k] = ss[k]
    BY <1>1, <2>1
  <2> QED
    BY <2>2 DEF Calm
<1>4. ASSUME NEW i \in 1..n
      PROVE  Calm(ss2, i, n) <=> Calm(ss, i, m) /\ s.kind \notin {"create", "complete"}
  <2>1. i..n = (i..m) \cup {n}
    BY <1>2
  <2>2. Calm(ss2, i, n) <=> Calm(ss2, i, m) /\ s.kind \notin {"create", "complete"}
    BY <1>1, <2>1 DEF Calm
  <2>3. i \in Nat \ {0} /\ m \in 0..m
    BY <1>2
  <2>4. Calm(ss2, i, m) <=> Calm(ss, i, m)
    BY <1>3, <2>3
  <2> QED
    BY <2>2, <2>4
<1>5. Calm(ss2, n + 1, n)
  <2>1. (n + 1)..n = {}
    BY <1>2
  <2> QED
    BY <2>1 DEF Calm
<1>6. ASSUME NEW lo \in Nat, NEW hi \in Nat
      PROVE  Whole(ss2, lo, hi) <=> \/ Whole(ss, lo, hi)
                                    \/ /\ hi = n /\ s.kind = "complete" /\ lo \in 1..m
                                       /\ ss[lo].kind = "create" /\ Calm(ss, lo + 1, m)
  <2>0. Len(ss) = m
    BY DEF m
  <2>1. CASE lo \in 1..m /\ hi \in 1..m
    <3>1. lo + 1 \in Nat \ {0} /\ hi - 1 \in 0..m /\ hi # n /\ lo \in 1..n /\ hi \in 1..n
      BY <1>2, <2>1
    <3>2. Calm(ss2, lo + 1, hi - 1) <=> Calm(ss, lo + 1, hi - 1)
      BY <1>3, <3>1
    <3> QED
      BY <1>1, <2>0, <2>1, <3>1, <3>2 DEF Whole
  <2>2. CASE lo \in 1..m /\ hi = n
    <3>1. lo + 1 \in Nat \ {0} /\ hi - 1 = m /\ m \in 0..m /\ lo \in 1..n /\ hi \in 1..n /\ lo < hi /\ hi \notin 1..m
      BY <1>2, <2>2
    <3>2. Calm(ss2, lo + 1, hi - 1) <=> Calm(ss, lo + 1, m)
      BY <1>3, <3>1
    <3>3. ss2[hi] = s /\ ss2[lo] = ss[lo]
      BY <1>1, <2>2
    <3> QED
      BY <1>1, <2>0, <2>2, <3>1, <3>2, <3>3 DEF Whole
  <2>3. CASE ~(lo \in 1..m /\ hi \in 1..n)
    <3>1. ~(lo \in 1..n /\ hi \in 1..n /\ lo < hi)
      BY <1>2, <2>3
    <3>2. ~(lo \in 1..m /\ hi \in 1..m) /\ ~(hi = n /\ lo \in 1..m)
      BY <1>2, <2>3
    <3> QED
      BY <1>1, <2>0, <3>1, <3>2 DEF Whole
  <2>4. hi \in 1..n => hi \in 1..m \/ hi = n
    BY <1>2
  <2> QED
    BY <2>1, <2>2, <2>3, <2>4
<1> QED
  BY <1>1, <1>3, <1>4, <1>5, <1>6 DEF ss2, m

\* A start opens a game, an end closes the open one, and nothing else changes the games.
LEMMA GamesGrow ==
  ASSUME NEW ss \in Seq(StepType), NEW gs \in Seq(GameType), NEW st, NEW s \in StepType,
         GamesInv(ss, gs, st)
  PROVE  LET ss2 == Append(ss, s)
             n   == Len(ss) + 1
         IN  /\ s.kind = "create" => GamesInv(ss2, gs, n)
             /\ s.kind = "complete" /\ st # 0 => GamesInv(ss2, Append(gs, [lo |-> st, hi |-> n]), 0)
             /\ s.kind # "create" /\ ~(s.kind = "complete" /\ st # 0) => GamesInv(ss2, gs, st)
<1> DEFINE ss2 == Append(ss, s)
           m   == Len(ss)
           n   == m + 1
           gs2 == Append(gs, [lo |-> st, hi |-> n])
           h   == Len(gs)
<1>0. m \in Nat /\ h \in Nat
  OBVIOUS
<1>1. /\ ss2 \in Seq(StepType) /\ Len(ss2) = n /\ ss2[n] = s
      /\ \A i \in 1..m : ss2[i] = ss[i]
      /\ \A i \in 1..n : Calm(ss2, i, n) <=> Calm(ss, i, m) /\ s.kind \notin {"create", "complete"}
      /\ Calm(ss2, n + 1, n)
      /\ \A lo, hi \in Nat :
           Whole(ss2, lo, hi) <=> \/ Whole(ss, lo, hi)
                                  \/ /\ hi = n /\ s.kind = "complete" /\ lo \in 1..m
                                     /\ ss[lo].kind = "create" /\ Calm(ss, lo + 1, m)
  BY CalmGrows
<1>2. \A g \in 1..h : gs[g].lo \in Nat /\ gs[g].hi \in Nat
  <2>1. \A g \in 1..Len(gs) : gs[g] \in GameType
    OBVIOUS
  <2> QED
    BY <2>1 DEF GameType
<1>3. /\ st \in 0..m
      /\ st # 0 => ss[st].kind = "create" /\ Calm(ss, st + 1, m)
      /\ st = 0 => \A i \in 1..m : ss[i].kind = "create" => ~Calm(ss, i + 1, m)
      /\ \A g \in 1..h : Whole(ss, gs[g].lo, gs[g].hi)
      /\ \A lo, hi \in Nat : Whole(ss, lo, hi) => \E g \in 1..h : gs[g] = [lo |-> lo, hi |-> hi]
      /\ \A g \in 1..(h - 1) : gs[g].hi < gs[g + 1].lo
      /\ st # 0 => \A g \in 1..h : gs[g].hi < st
  BY Zenon DEF GamesInv
<1>4. \A g \in 1..h : gs[g].hi <= m
  BY <1>3 DEF Whole
<1>5. \A g \in 1..h : Whole(ss2, gs[g].lo, gs[g].hi)
  BY <1>1, <1>2, <1>3, Zenon
<1> HIDE DEF ss2, m, h
<1>6. ASSUME s.kind = "create" PROVE GamesInv(ss2, gs, n)
  <2>1. n \in 0..Len(ss2) /\ n # 0 /\ ss2[n].kind = "create" /\ Calm(ss2, n + 1, Len(ss2))
    BY <1>0, <1>1, <1>6
  <2>2. \A lo, hi \in Nat : Whole(ss2, lo, hi) => \E g \in 1..h : gs[g] = [lo |-> lo, hi |-> hi]
    BY <1>1, <1>3, <1>6
  <2>3. \A g \in 1..h : gs[g].hi < n
    BY <1>0, <1>2, <1>4
  <2> QED
    BY <1>3, <1>5, <2>1, <2>2, <2>3, Zenon DEF GamesInv, h
<1>7. ASSUME s.kind = "complete", st # 0 PROVE GamesInv(ss2, gs2, 0)
  <2>1. /\ st \in 1..m /\ ss[st].kind = "create" /\ Calm(ss, st + 1, m)
    BY <1>0, <1>3, <1>7
  <2>2. 0 \in 0..Len(ss2)
    BY <1>0, <1>1
  <2>3. \A i \in 1..Len(ss2) : ss2[i].kind = "create" => ~Calm(ss2, i + 1, Len(ss2))
    <3> SUFFICES ASSUME NEW i \in 1..n, ss2[i].kind = "create", Calm(ss2, i + 1, n) PROVE FALSE
      BY <1>1
    <3>1. i # n
      BY <1>1, <1>7
    <3>2. i + 1 \in 1..n
      BY <1>0, <3>1
    <3> QED
      BY <1>1, <1>7, <3>2
  <2>4. /\ Len(gs2) = h + 1 /\ gs2[h + 1] = [lo |-> st, hi |-> n]
        /\ \A g \in 1..h : gs2[g] = gs[g]
    BY <1>0, <1>3 DEF h
  <2> HIDE DEF gs2
  <2>5. st \in Nat /\ n \in Nat
    BY <1>0, <2>1
  <2>6. Whole(ss2, st, n)
    BY <1>1, <1>7, <2>1, <2>5
  <2>7. \A g \in 1..Len(gs2) : Whole(ss2, gs2[g].lo, gs2[g].hi)
    <3> SUFFICES ASSUME NEW g \in 1..(h + 1) PROVE Whole(ss2, gs2[g].lo, gs2[g].hi)
      BY <2>4
    <3>1. CASE g = h + 1
      BY <2>4, <2>6, <3>1
    <3>2. CASE g \in 1..h
      BY <1>5, <2>4, <3>2
    <3> QED
      BY <1>0, <3>1, <3>2
  <2>8. \A lo, hi \in Nat : Whole(ss2, lo, hi) => \E g \in 1..Len(gs2) : gs2[g] = [lo |-> lo, hi |-> hi]
    <3> SUFFICES ASSUME NEW lo \in Nat, NEW hi \in Nat, Whole(ss2, lo, hi)
                 PROVE  \E g \in 1..(h + 1) : gs2[g] = [lo |-> lo, hi |-> hi]
      BY <2>4
    <3>1. CASE Whole(ss, lo, hi)
      <4>1. PICK g \in 1..h : gs[g] = [lo |-> lo, hi |-> hi]
        BY <1>3, <3>1
      <4>2. g \in 1..(h + 1) /\ gs2[g] = gs[g]
        BY <1>0, <2>4
      <4> QED
        BY <4>1, <4>2
    <3>2. CASE hi = n /\ lo \in 1..m /\ ss[lo].kind = "create" /\ Calm(ss, lo + 1, m)
      <4>1. lo = st
        <5>1. ~(lo < st)
          BY <1>0, <2>1, <3>2 DEF Calm
        <5>2. ~(st < lo)
          BY <1>0, <2>1, <3>2 DEF Calm
        <5> QED
          BY <1>0, <2>1, <3>2, <5>1, <5>2
      <4>2. h + 1 \in 1..(h + 1)
        BY <1>0
      <4> QED
        BY <2>4, <3>2, <4>1, <4>2
    <3> QED
      BY <1>1, <3>1, <3>2
  <2>9. \A g \in 1..(Len(gs2) - 1) : gs2[g].hi < gs2[g + 1].lo
    <3> SUFFICES ASSUME NEW g \in 1..h PROVE gs2[g].hi < gs2[g + 1].lo
      BY <1>0, <2>4
    <3>1. CASE g = h
      BY <1>3, <1>7, <2>4, <3>1
    <3>2. CASE g \in 1..(h - 1)
      <4>1. g + 1 \in 1..h
        BY <1>0, <3>2
      <4> QED
        BY <1>3, <2>4, <3>2, <4>1
    <3> QED
      BY <1>0, <3>1, <3>2
  <2> QED
    BY <2>2, <2>3, <2>7, <2>8, <2>9, Zenon DEF GamesInv
<1>8. ASSUME s.kind # "create", ~(s.kind = "complete" /\ st # 0) PROVE GamesInv(ss2, gs, st)
  <2>1. st \in 0..Len(ss2)
    BY <1>0, <1>1, <1>3
  <2>2. st # 0 => ss2[st].kind = "create" /\ Calm(ss2, st + 1, Len(ss2))
    <3> SUFFICES ASSUME st # 0 PROVE ss2[st].kind = "create" /\ Calm(ss2, st + 1, n)
      BY <1>1
    <3>1. st \in 1..m /\ st + 1 \in 1..n
      BY <1>0, <1>3
    <3> QED
      BY <1>1, <1>3, <1>8, <3>1
  <2>3. st = 0 => \A i \in 1..Len(ss2) : ss2[i].kind = "create" => ~Calm(ss2, i + 1, Len(ss2))
    <3> SUFFICES ASSUME st = 0, NEW i \in 1..n, ss2[i].kind = "create", Calm(ss2, i + 1, n) PROVE FALSE
      BY <1>1
    <3>1. i # n
      BY <1>1, <1>8
    <3>2. i + 1 \in 1..n /\ i \in 1..m
      BY <1>0, <3>1
    <3> QED
      BY <1>1, <1>3, <3>2
  <2>4. \A lo, hi \in Nat : Whole(ss2, lo, hi) => \E g \in 1..h : gs[g] = [lo |-> lo, hi |-> hi]
    <3> SUFFICES ASSUME NEW lo \in Nat, NEW hi \in Nat, Whole(ss2, lo, hi) PROVE Whole(ss, lo, hi)
      BY <1>3
    <3> SUFFICES ASSUME s.kind = "complete", lo \in 1..m, ss[lo].kind = "create", Calm(ss, lo + 1, m)
                 PROVE  FALSE
      BY <1>1
    <3> QED
      BY <1>3, <1>8
  <2> QED
    BY <1>3, <1>5, <2>1, <2>2, <2>3, <2>4, Zenon DEF GamesInv, h
<1> QED
  BY <1>6, <1>7, <1>8, Zenon DEF ss2, m

\* The game that begins at a step, if no other begins before it ends.
EndIn(ss, lo) ==
  LET ends == {i \in (lo + 1)..Len(ss) : ss[i].kind = "complete"}
      next == {i \in (lo + 1)..Len(ss) : ss[i].kind = "create"}
      hi   == Min(ends \cup {Len(ss)})
  IN  IF \E i \in next : i <= hi THEN {} ELSE {[lo |-> lo, hi |-> hi]}

\* It is the game that ended, or the one still open.
LEMMA EndsIs ==
  ASSUME NEW ss \in Seq(StepType), NEW i \in 1..Len(ss), ss[i].kind = "create", NEW x
  PROVE  x \in EndIn(ss, i) <=>
           \/ \E h \in 1..Len(ss) : Whole(ss, i, h) /\ x = [lo |-> i, hi |-> h]
           \/ Calm(ss, i + 1, Len(ss)) /\ x = [lo |-> i, hi |-> Len(ss)]
<1> DEFINE n    == Len(ss)
           ends == {k \in (i + 1)..n : ss[k].kind = "complete"}
           next == {k \in (i + 1)..n : ss[k].kind = "create"}
           hi   == Min(ends \cup {n})
<1>0. n \in Nat /\ i \in 1..n
  OBVIOUS
<1>1. EndIn(ss, i) = IF \E k \in next : k <= hi THEN {} ELSE {[lo |-> i, hi |-> hi]}
  BY DEF EndIn
<1> HIDE DEF n
<1>2. ends \cup {n} \in SUBSET Nat /\ ends \cup {n} # {}
  BY <1>0
<1> HIDE DEF hi
<1>3. hi \in ends \cup {n} /\ \A y \in ends \cup {n} : hi <= y
  <2> HIDE DEF ends
  <2>1. Min(ends \cup {n}) \in ends \cup {n} /\ \A y \in ends \cup {n} : Min(ends \cup {n}) <= y
    BY <1>2, MinIn
  <2> QED
    BY <2>1 DEF hi
<1>4. CASE Calm(ss, i + 1, n)
  <2>1. ends = {} /\ next = {}
    BY <1>4 DEF Calm
  <2>2. hi = n
    BY <1>3, <2>1
  <2>3. EndIn(ss, i) = {[lo |-> i, hi |-> n]}
    BY <1>1, <2>1, <2>2
  <2>4. ~\E h \in 1..n : Whole(ss, i, h)
    <3> SUFFICES ASSUME NEW h \in 1..n, Whole(ss, i, h) PROVE FALSE
      OBVIOUS
    <3>1. h \in (i + 1)..n /\ ss[h].kind = "complete"
      BY <1>0 DEF Whole
    <3> QED
      BY <1>4, <3>1 DEF Calm
  <2> QED
    BY <1>4, <2>3, <2>4 DEF n
<1>5. CASE ~Calm(ss, i + 1, n)
  <2> DEFINE Loud == {k \in (i + 1)..n : ss[k].kind \in {"create", "complete"}}
  <2>1. Loud \in SUBSET Nat /\ Loud # {}
    BY <1>0, <1>5 DEF Calm
  <2>2. PICK k \in Loud : \A y \in Loud : k <= y
    <3> HIDE DEF Loud
    <3> QED
      BY <2>1, Least
  <2>3. k \in (i + 1)..n /\ k \in 1..n /\ i < k /\ k \in Nat
    BY <1>0, <2>2
  <2>4. Calm(ss, i + 1, k - 1)
    <3> SUFFICES ASSUME NEW j \in (i + 1)..(k - 1), ss[j].kind \in {"create", "complete"} PROVE FALSE
      BY DEF Calm
    <3>1. j \in Loud /\ ~(k <= j)
      BY <1>0, <2>3
    <3> QED
      BY <2>2, <3>1
  <2>5. ASSUME NEW h \in 1..n, Whole(ss, i, h) PROVE h = k
    <3>1. h \in (i + 1)..n /\ ss[h].kind = "complete" /\ Calm(ss, i + 1, h - 1)
      BY <1>0, <2>5 DEF Whole
    <3>2. h \in Loud
      BY <3>1
    <3>3. k <= h
      BY <2>2, <3>2
    <3>4. ~(k < h)
      <4> SUFFICES ASSUME k < h PROVE FALSE
        OBVIOUS
      <4>1. k \in (i + 1)..(h - 1)
        BY <1>0, <2>3, <3>1
      <4> QED
        BY <2>2, <3>1, <4>1 DEF Calm
    <3> QED
      BY <1>0, <2>3, <3>1, <3>3, <3>4
  <2>6. \A y \in ends \cup next : k <= y
    BY <2>2
  <2>7. CASE ss[k].kind = "complete"
    <3>1. k \in ends
      BY <2>3, <2>7
    <3>2. hi <= k
      BY <1>3, <3>1
    <3>3. k <= hi
      BY <1>0, <1>3, <2>3, <2>6
    <3>4. hi = k
      BY <1>0, <1>3, <2>3, <3>2, <3>3
    <3>5. ~\E y \in next : y <= hi
      <4> SUFFICES ASSUME NEW y \in next, y <= k PROVE FALSE
        BY <3>4
      <4>1. y = k
        BY <1>0, <2>3, <2>6
      <4> QED
        BY <2>7, <4>1
    <3>6. EndIn(ss, i) = {[lo |-> i, hi |-> k]}
      BY <1>1, <3>4, <3>5
    <3>7. Whole(ss, i, k)
      BY <1>0, <2>3, <2>4, <2>7 DEF Whole, n
    <3> QED
      BY <1>5, <2>3, <2>5, <3>6, <3>7 DEF n
  <2>8. CASE ss[k].kind # "complete"
    <3>1. k \in next
      BY <2>2, <2>3, <2>8
    <3>2. k <= hi
      BY <1>0, <1>3, <2>3, <2>6
    <3>3. EndIn(ss, i) = {}
      BY <1>1, <3>1, <3>2
    <3>4. ASSUME NEW h \in 1..n, Whole(ss, i, h) PROVE FALSE
      BY <2>5, <2>8, <3>4 DEF Whole
    <3> QED
      BY <1>5, <3>3, <3>4 DEF n
  <2> QED
    BY <2>7, <2>8
<1> QED
  BY <1>4, <1>5

\* With the open game closed at the last step, the games are what the steps say.
LEMMA GamesClose ==
  ASSUME NEW ss \in Seq(StepType), NEW gs \in Seq(GameType), NEW st, GamesInv(ss, gs, st)
  PROVE  LET all == IF st = NoGame THEN gs ELSE Append(gs, [lo |-> st, hi |-> Len(ss)])
         IN  /\ all \in Seq(GameType) /\ Ranges(ss, all)
             /\ {all[g] : g \in 1..Len(all)}
                  = UNION {EndIn(ss, i) : i \in {j \in 1..Len(ss) : ss[j].kind = "create"}}
             /\ \A g \in 1..(Len(all) - 1) : all[g].hi < all[g + 1].lo
<1> DEFINE n    == Len(ss)
           h    == Len(gs)
           last == [lo |-> st, hi |-> n]
           all  == IF st = NoGame THEN gs ELSE Append(gs, last)
           Starts == {j \in 1..n : ss[j].kind = "create"}
<1>0. n \in Nat /\ h \in Nat /\ NoGame = 0
  BY DEF NoGame
<1>1. \A g \in 1..h : gs[g] \in GameType /\ gs[g] = [lo |-> gs[g].lo, hi |-> gs[g].hi]
                      /\ gs[g].lo \in Nat /\ gs[g].hi \in Nat
  <2>1. \A g \in 1..Len(gs) : gs[g] \in GameType
    OBVIOUS
  <2> QED
    BY <2>1 DEF GameType
<1>2. /\ st \in 0..n
      /\ st # 0 => ss[st].kind = "create" /\ Calm(ss, st + 1, n)
      /\ st = 0 => \A i \in 1..n : ss[i].kind = "create" => ~Calm(ss, i + 1, n)
      /\ \A g \in 1..h : Whole(ss, gs[g].lo, gs[g].hi)
      /\ \A lo, hi \in Nat : Whole(ss, lo, hi) => \E g \in 1..h : gs[g] = [lo |-> lo, hi |-> hi]
      /\ \A g \in 1..(h - 1) : gs[g].hi < gs[g + 1].lo
      /\ st # 0 => \A g \in 1..h : gs[g].hi < st
  BY Zenon DEF GamesInv
<1>3. \A lo, hi : Whole(ss, lo, hi) => lo \in 1..n /\ hi \in 1..n /\ lo < hi /\ ss[lo].kind = "create"
  BY DEF Whole
<1>4. /\ all \in Seq(GameType)
      /\ st = 0 => all = gs
      /\ st # 0 => /\ Len(all) = h + 1 /\ all[h + 1] = last
                   /\ \A g \in 1..h : all[g] = gs[g]
  <2>1. last \in GameType
    BY <1>0, <1>2 DEF GameType
  <2> HIDE DEF last
  <2> QED
    BY <1>0, <2>1
<1>5. \A i \in Starts : \A x : x \in EndIn(ss, i) <=>
         \/ \E k \in 1..n : Whole(ss, i, k) /\ x = [lo |-> i, hi |-> k]
         \/ Calm(ss, i + 1, n) /\ x = [lo |-> i, hi |-> n]
  <2> TAKE i \in Starts
  <2> TAKE x
  <2>1. i \in 1..Len(ss) /\ ss[i].kind = "create"
    OBVIOUS
  <2> HIDE DEF Starts
  <2> QED
    BY <2>1, EndsIs, Zenon
<1> HIDE DEF n, h, all
<1>6. Ranges(ss, all)
  <2>1. ASSUME NEW g \in 1..Len(all) PROVE 1 <= all[g].lo /\ all[g].lo <= all[g].hi /\ all[g].hi <= n
    <3>1. CASE st = 0 \/ g \in 1..h
      <4>1. g \in 1..h /\ all[g] = gs[g]
        BY <1>4, <3>1 DEF h
      <4>2. gs[g].lo \in 1..n /\ gs[g].hi \in 1..n /\ gs[g].lo < gs[g].hi
        BY <1>2, <1>3, <4>1
      <4> QED
        BY <1>0, <4>1, <4>2
    <3>2. CASE st # 0 /\ g \notin 1..h
      <4>1. all[g] = last
        BY <1>0, <1>4, <3>2
      <4>2. last.lo = st /\ last.hi = n
        OBVIOUS
      <4> QED
        BY <1>0, <1>2, <3>2, <4>1, <4>2
    <3> QED
      BY <3>1, <3>2
  <2> QED
    BY <2>1 DEF Ranges, n
<1>7. ASSUME NEW g \in 1..(Len(all) - 1) PROVE all[g].hi < all[g + 1].lo
  <2>1. CASE st = 0
    BY <1>2, <1>4, <2>1 DEF h
  <2>2. CASE st # 0 /\ g \in 1..(h - 1)
    <3>1. g \in 1..h /\ g + 1 \in 1..h
      BY <1>0, <2>2
    <3> QED
      BY <1>2, <1>4, <2>2, <3>1
  <2>3. CASE st # 0 /\ g \notin 1..(h - 1)
    <3>1. g = h /\ h \in 1..h
      BY <1>0, <1>4, <2>3
    <3>2. all[g] = gs[g] /\ all[g + 1] = last /\ last.lo = st
      BY <1>4, <2>3, <3>1
    <3> QED
      BY <1>2, <2>3, <3>1, <3>2
  <2> QED
    BY <2>1, <2>2, <2>3
<1>8. ASSUME NEW g \in 1..Len(all) PROVE \E i \in Starts : all[g] \in EndIn(ss, i)
  <2>1. CASE st = 0 \/ g \in 1..h
    <3>1. g \in 1..h /\ all[g] = gs[g]
      BY <1>4, <2>1 DEF h
    <3>2. Whole(ss, gs[g].lo, gs[g].hi)
      BY <1>2, <3>1
    <3>3. gs[g].lo \in Starts /\ gs[g].hi \in 1..n
      BY <1>3, <3>2
    <3> HIDE DEF Starts
    <3>4. gs[g] \in EndIn(ss, gs[g].lo)
      BY <1>1, <1>5, <3>1, <3>2, <3>3
    <3> QED
      BY <3>1, <3>3, <3>4
  <2>2. CASE st # 0 /\ g \notin 1..h
    <3>1. all[g] = last
      BY <1>0, <1>4, <2>2
    <3>2. st \in Starts /\ Calm(ss, st + 1, n)
      BY <1>0, <1>2, <2>2
    <3> HIDE DEF Starts
    <3>3. last \in EndIn(ss, st)
      BY <1>5, <3>2
    <3> QED
      BY <3>1, <3>2, <3>3
  <2> QED
    BY <2>1, <2>2
<1>9. ASSUME NEW i \in Starts, NEW x, x \in EndIn(ss, i) PROVE \E g \in 1..Len(all) : x = all[g]
  <2>1. CASE \E k \in 1..n : Whole(ss, i, k) /\ x = [lo |-> i, hi |-> k]
    <3>1. PICK k \in 1..n : Whole(ss, i, k) /\ x = [lo |-> i, hi |-> k]
      BY <2>1
    <3>2. i \in Nat /\ k \in Nat
      BY <1>0
    <3>3. PICK g \in 1..h : gs[g] = x
      BY <1>2, <3>1, <3>2
    <3>4. g \in 1..Len(all) /\ all[g] = gs[g]
      BY <1>0, <1>4 DEF h
    <3> QED
      BY <3>3, <3>4
  <2>2. CASE Calm(ss, i + 1, n) /\ x = [lo |-> i, hi |-> n]
    <3>1. st # 0 /\ i \in 1..n /\ ss[i].kind = "create"
      BY <1>2, <2>2
    <3>2. st \in 1..n /\ ss[st].kind = "create" /\ Calm(ss, st + 1, n)
      BY <1>0, <1>2, <3>1
    <3>3. ~(i < st)
      BY <1>0, <2>2, <3>1, <3>2 DEF Calm
    <3>4. ~(st < i)
      BY <1>0, <3>1, <3>2 DEF Calm
    <3>5. i = st
      BY <1>0, <3>1, <3>2, <3>3, <3>4
    <3>6. h + 1 \in 1..Len(all) /\ all[h + 1] = last
      BY <1>0, <1>4, <3>1
    <3> QED
      BY <2>2, <3>5, <3>6
  <2> QED
    BY <1>5, <1>9, <2>1, <2>2
<1>10. {all[g] : g \in 1..Len(all)} = UNION {EndIn(ss, i) : i \in Starts}
  <2> HIDE DEF Starts
  <2> QED
    BY <1>8, <1>9
<1> QED
  BY <1>4, <1>6, <1>7, <1>10, Zenon DEF all, n

-----------------------------------------------------------------------------
(* Replay: the loader *)

\* What both ways of taking an event keep, the drain loop keeps.
LEMMA DrainKeeps ==
  ASSUME NEW S \in SUBSET BuiltType,
         \A b \in S : foldAccum(b) \in S,
         \A b \in S, e \in EventType, effect \in EffectType : AppendStep(b, e, effect) \in S,
         NEW b \in S, NEW es \in Seq(EventType)
  PROVE  DrainAll(b, es) \subseteq S
<1>1. ASSUME NEW a \in S, NEW e \in EventType PROVE Drain(a, e) \subseteq S
  <2> SUFFICES ASSUME NEW effect \in Effects(e.kind, StateOf(a))
               PROVE  (IF ~Forced(e.kind) /\ a.steps # <<>> /\ ~effect.changes
                         THEN foldAccum(a) ELSE AppendStep(a, e, effect)) \in S
    BY DEF Drain
  <2>1. a \in BuiltType
    OBVIOUS
  <2>2. Effects(e.kind, StateOf(a)) \subseteq EffectType
    BY <2>1, EffectTypes, Zenon
  <2> HIDE DEF EffectType, EventType, BuiltType
  <2>3. effect \in EffectType
    BY <2>2
  <2>4. foldAccum(a) \in S /\ AppendStep(a, e, effect) \in S
    BY <2>3, Zenon
  <2> QED
    BY <2>4
<1> HIDE DEF EventType, BuiltType, EffectType
<1>2. CASE es = <<>>
  BY <1>2 DEF DrainAll
<1>3. CASE Len(es) = 1
  <2>1. es # <<>> /\ es[1] \in EventType
    BY <1>3
  <2>2. DrainAll(b, es) = Drain(b, es[1])
    BY <1>3, <2>1 DEF DrainAll
  <2> QED
    BY <1>1, <2>1, <2>2
<1>4. CASE es # <<>> /\ Len(es) # 1
  <2>1. Len(es) \in Nat /\ Len(es) # 0
    BY <1>4
  <2>2. 1 \in 1..Len(es) /\ 2 \in 1..Len(es)
    BY <1>4, <2>1
  <2>3. es[1] \in EventType /\ es[2] \in EventType
    BY <2>2
  <2>4. DrainAll(b, es) = UNION {Drain(c, es[2]) : c \in Drain(b, es[1])}
    BY <1>4 DEF DrainAll
  <2>5. Drain(b, es[1]) \subseteq S
    BY <1>1, <2>3
  <2>6. \A c \in Drain(b, es[1]) : Drain(c, es[2]) \subseteq S
    BY <1>1, <2>3, <2>5
  <2> QED
    BY <2>4, <2>6
<1> QED
  BY <1>2, <1>3, <1>4

\* What the loader has built keeps its games exact.
Tidy == {b \in BuiltType : GamesInv(b.steps, b.games, b.start)}

\* Both ways of taking an event keep the games as the steps have them.
LEMMA TidyKept ==
  ASSUME NEW b \in Tidy, NEW es \in Seq(EventType)
  PROVE  foldAccum(b) \in Tidy /\ DrainAll(b, es) \subseteq Tidy
<1>1. ASSUME NEW a \in Tidy PROVE foldAccum(a) \in Tidy
  <2>1. a \in BuiltType /\ GamesInv(a.steps, a.games, a.start) /\ foldAccum(a) \in BuiltType
    BY BuildTypes DEF Tidy
  <2>2. /\ a.steps \in Seq(StepType) /\ a.games \in Seq(GameType) /\ a.start \in Nat
        /\ a.accum \in Seq(Nat) /\ a.early \in Nat
    BY <2>1, MakeIs
  <2>3. CASE a.steps = <<>>
    <3>1. foldAccum(a) = Make(a.steps, a.games, a.start, <<>>, a.early + Len(a.accum))
      BY <2>1, <2>3, FoldIs
    <3>2. foldAccum(a).steps = a.steps /\ foldAccum(a).games = a.games /\ foldAccum(a).start = a.start
      BY <3>1 DEF Make
    <3> QED
      BY <2>1, <3>2 DEF Tidy
  <2>4. CASE a.steps # <<>>
    <3>1. foldAccum(a) = Make(Topped(a.steps, a.accum), a.games, a.start, <<>>, a.early)
      BY <2>1, <2>4, FoldIs
    <3>2. foldAccum(a).steps = Topped(a.steps, a.accum) /\ foldAccum(a).games = a.games
          /\ foldAccum(a).start = a.start
      BY <3>1 DEF Make
    <3>3. Same(a.steps, Topped(a.steps, a.accum))
      BY <2>2, <2>4, ToppedIs
    <3>4. GamesInv(Topped(a.steps, a.accum), a.games, a.start)
      BY <2>1, <2>2, <3>3, GamesSame
    <3> QED
      BY <2>1, <3>2, <3>4 DEF Tidy
  <2> QED
    BY <2>3, <2>4
<1>2. ASSUME NEW a \in Tidy, NEW e \in EventType, NEW effect \in EffectType
      PROVE  AppendStep(a, e, effect) \in Tidy
  <2>1. a \in BuiltType /\ GamesInv(a.steps, a.games, a.start)
    BY DEF Tidy
  <2>2. AppendStep(a, e, effect) \in BuiltType
    BY <2>1, BuildTypes
  <2>3. a.steps \in Seq(StepType) /\ a.games \in Seq(GameType)
    BY <2>1, MakeIs
  <2> DEFINE s  == NewStep(a, e, effect)
             ss == Append(a.steps, s)
             n  == Len(a.steps) + 1
  <2>4. s \in StepType /\ s.kind = e.kind
    BY <2>1, NewStepTypes
  <2> DEFINE c == AppendStep(a, e, effect)
  <2>5. /\ e.kind = "create" => c = Make(ss, a.games, n, <<>>, a.early)
        /\ e.kind = "complete" /\ a.start # NoGame =>
             c = Make(ss, Append(a.games, [lo |-> a.start, hi |-> n]), NoGame, <<>>, a.early)
        /\ e.kind # "create" /\ ~(e.kind = "complete" /\ a.start # NoGame) =>
             c = Make(ss, a.games, a.start, <<>>, a.early)
    BY <2>1, AppendIs
  <2> HIDE DEF s
  <2>6. /\ s.kind = "create" => GamesInv(ss, a.games, n)
        /\ s.kind = "complete" /\ a.start # 0 =>
             GamesInv(ss, Append(a.games, [lo |-> a.start, hi |-> n]), 0)
        /\ s.kind # "create" /\ ~(s.kind = "complete" /\ a.start # 0) => GamesInv(ss, a.games, a.start)
    BY <2>1, <2>3, <2>4, GamesGrow
  <2> HIDE DEF ss, n, c
  <2>7. GamesInv(c.steps, c.games, c.start)
    <3>1. CASE e.kind = "create"
      <4>1. c.steps = ss /\ c.games = a.games /\ c.start = n
        BY <2>5, <3>1 DEF Make
      <4> QED
        BY <2>4, <2>6, <3>1, <4>1
    <3>2. CASE e.kind = "complete" /\ a.start # NoGame
      <4>1. /\ c.steps = ss /\ c.games = Append(a.games, [lo |-> a.start, hi |-> n])
            /\ c.start = NoGame
        BY <2>5, <3>2 DEF Make
      <4> QED
        BY <2>4, <2>6, <3>2, <4>1 DEF NoGame
    <3>3. CASE e.kind # "create" /\ ~(e.kind = "complete" /\ a.start # NoGame)
      <4>1. c.steps = ss /\ c.games = a.games /\ c.start = a.start
        BY <2>5, <3>3 DEF Make
      <4> QED
        BY <2>4, <2>6, <3>3, <4>1 DEF NoGame
    <3> QED
      BY <3>1, <3>2, <3>3
  <2> QED
    BY <2>2, <2>7 DEF Tidy, c
<1>3. Tidy \in SUBSET BuiltType
  BY DEF Tidy
<1> HIDE DEF Tidy, EventType, EffectType, BuiltType
<1>4. DrainAll(b, es) \subseteq Tidy
  <2> DEFINE T == Tidy
  <2>1. /\ T \in SUBSET BuiltType
        /\ \A a \in T : foldAccum(a) \in T
        /\ \A a \in T, e \in EventType, effect \in EffectType : AppendStep(a, e, effect) \in T
        /\ b \in T
    BY <1>1, <1>2, <1>3
  <2> HIDE DEF T
  <2>2. DrainAll(b, es) \subseteq T
    BY <2>1, DrainKeeps, Zenon
  <2> QED
    BY <2>2 DEF T
<1> QED
  BY <1>1, <1>4

\* What the loader has built, with one more line accumulated.
LEMMA BuiltIs ==
  ASSUME Built \in BuiltType
  PROVE  /\ steps \in Seq(StepType) /\ games \in Seq(GameType) /\ gameStepStart \in Nat
         /\ accum \in Seq(Nat) /\ early \in Nat
         /\ Built = Make(steps, games, gameStepStart, accum, early)
         /\ \A i \in Nat : [Built EXCEPT !.accum = Append(@, i)]
              = Make(steps, games, gameStepStart, Append(accum, i), early)
<1>1. Built = Make(steps, games, gameStepStart, accum, early)
  BY DEF Built, Make
<1>2. /\ steps \in Seq(StepType) /\ games \in Seq(GameType) /\ gameStepStart \in Nat
      /\ accum \in Seq(Nat) /\ early \in Nat
  BY DEF BuiltType, Built
<1>3. ASSUME NEW i \in Nat
      PROVE  [Built EXCEPT !.accum = Append(@, i)] = Make(steps, games, gameStepStart, Append(accum, i), early)
  <2> DEFINE more == Append(accum, i)
  <2>1. [Built EXCEPT !.accum = Append(@, i)] = [Built EXCEPT !.accum = more]
    BY DEF Built
  <2> HIDE DEF more
  <2>2. [Built EXCEPT !.accum = more] = Make(steps, games, gameStepStart, more, early)
    BY DEF Built, Make
  <2> QED
    BY <2>1, <2>2 DEF more
<1> QED
  BY <1>1, <1>2, <1>3

-----------------------------------------------------------------------------
(* Replay: the list of the steps that match the filter *)

\* The places of a set are counted by their order.
UpOf(m, i) == {j \in m : j <= i}
RankOf(m, i) == Cardinality(UpOf(m, i))

\* Ranks are numbers up to the size of the set, and grow with the place.
LEMMA RanksGrow ==
  ASSUME NEW n \in Nat, NEW m \in SUBSET (1..n)
  PROVE  /\ IsFiniteSet(m) /\ Cardinality(m) \in Nat /\ Cardinality(m) <= n
         /\ \A i \in Int : RankOf(m, i) \in Nat /\ RankOf(m, i) <= Cardinality(m)
         /\ \A i, j \in Int : i <= j => RankOf(m, i) <= RankOf(m, j)
         /\ \A i \in Int : i \in m => RankOf(m, i) = RankOf(m, i - 1) + 1
         /\ \A i \in Int : i \notin m => RankOf(m, i) = RankOf(m, i - 1)
         /\ RankOf(m, 0) = 0 /\ RankOf(m, n) = Cardinality(m)
<1>1. IsFiniteSet(1..n) /\ Cardinality(1..n) = n
  <2>1. 1 \in Int /\ n \in Int
    OBVIOUS
  <2>2. IsFiniteSet(1..n) /\ Cardinality(1..n) = IF 1 > n THEN 0 ELSE n - 1 + 1
    BY <2>1, FS_Interval
  <2> QED
    BY <2>2
<1>2. IsFiniteSet(m) /\ Cardinality(m) \in Nat /\ Cardinality(m) <= n
  BY <1>1, FS_Subset, FS_CardinalityType
<1>3. ASSUME NEW i \in Int
      PROVE  IsFiniteSet(UpOf(m, i)) /\ RankOf(m, i) \in Nat /\ RankOf(m, i) <= Cardinality(m)
  <2>1. UpOf(m, i) \subseteq m
    BY DEF UpOf
  <2> QED
    BY <1>2, <2>1, FS_Subset, FS_CardinalityType DEF RankOf
<1>4. ASSUME NEW i \in Int, NEW j \in Int, i <= j PROVE RankOf(m, i) <= RankOf(m, j)
  <2>0. \A x \in m : x <= i => x <= j
    BY <1>4
  <2>1. UpOf(m, i) \subseteq UpOf(m, j)
    BY <2>0, Zenon DEF UpOf
  <2> DEFINE a == UpOf(m, i)
             b == UpOf(m, j)
  <2>2. IsFiniteSet(b) /\ a \in SUBSET b
    BY <1>3, <2>1
  <2> HIDE DEF a, b
  <2>3. Cardinality(a) <= Cardinality(b)
    BY <2>2, FS_Subset, Zenon
  <2> QED
    BY <2>3, Zenon DEF RankOf, a, b
<1>5. ASSUME NEW i \in Int, i \in m PROVE RankOf(m, i) = RankOf(m, i - 1) + 1
  <2> DEFINE a == UpOf(m, i - 1)
             b == UpOf(m, i)
  <2>0. ~(i <= i - 1) /\ i <= i /\ \A j \in m : j <= i <=> j <= i - 1 \/ j = i
    OBVIOUS
  <2>1. b = a \cup {i} /\ i \notin a
    BY <1>5, <2>0, Zenon DEF UpOf
  <2>2. IsFiniteSet(a)
    BY <1>3
  <2> HIDE DEF a, b
  <2>3. Cardinality(b) = Cardinality(a) + 1
    BY <2>1, <2>2, FS_AddElement, Zenon
  <2> QED
    BY <2>3, Zenon DEF RankOf, a, b
<1>6. ASSUME NEW i \in Int, i \notin m PROVE RankOf(m, i) = RankOf(m, i - 1)
  <2>1. \A j \in m : j \in Int /\ j # i
    BY <1>6
  <2>2. \A j \in m : j <= i <=> j <= i - 1
    BY <2>1
  <2>3. UpOf(m, i) = UpOf(m, i - 1)
    BY <2>2, Zenon DEF UpOf
  <2> QED
    BY <2>3, Zenon DEF RankOf
<1>7. RankOf(m, 0) = 0
  <2>1. \A j \in m : ~(j <= 0)
    OBVIOUS
  <2>2. UpOf(m, 0) = {}
    BY <2>1, Zenon DEF UpOf
  <2> QED
    BY <2>2, FS_EmptySet, Zenon DEF RankOf
<1>8. RankOf(m, n) = Cardinality(m)
  <2>1. \A j \in m : j <= n
    OBVIOUS
  <2>2. UpOf(m, n) = m
    BY <2>1 DEF UpOf
  <2> QED
    BY <2>2, Zenon DEF RankOf
<1> QED
  BY <1>2, <1>3, <1>4, <1>5, <1>6, <1>7, <1>8

\* Every rank is the rank of one place.
LEMMA RankFound ==
  ASSUME NEW n \in Nat, NEW m \in SUBSET (1..n), NEW k \in 1..Cardinality(m)
  PROVE  \E i \in m : RankOf(m, i) = k
<1> DEFINE High == {i \in 0..n : RankOf(m, i) >= k}
<1>1. /\ Cardinality(m) \in Nat
      /\ \A i \in Int : RankOf(m, i) \in Nat
      /\ \A i \in Int : i \in m => RankOf(m, i) = RankOf(m, i - 1) + 1
      /\ \A i \in Int : i \notin m => RankOf(m, i) = RankOf(m, i - 1)
      /\ RankOf(m, 0) = 0 /\ RankOf(m, n) = Cardinality(m)
  BY RanksGrow
<1>2. High \in SUBSET Nat /\ n \in High
  BY <1>1
<1> HIDE DEF High
<1>3. PICK i \in High : \A y \in High : i <= y
  BY <1>2, Least
<1>4. i \in 0..n /\ RankOf(m, i) >= k
  BY <1>3 DEF High
<1>5. i # 0
  BY <1>1, <1>4
<1>6. i - 1 \in 0..n /\ i \in Int /\ i - 1 \in Int /\ ~(i <= i - 1)
  BY <1>4, <1>5
<1>7. ~(RankOf(m, i - 1) >= k)
  BY <1>3, <1>6 DEF High
<1>8. i \in m
  BY <1>1, <1>4, <1>6, <1>7
<1>9. RankOf(m, i) = k
  BY <1>1, <1>4, <1>6, <1>7, <1>8
<1> QED
  BY <1>8, <1>9

\* FilterOf lists the steps that match, all of them, in their order.
LEMMA FilterLists ==
  ASSUME NEW ss \in Seq(StepType), NEW f
  PROVE  LET list == FilterOf(ss, f)
             matching == {i \in 1..Len(ss) : Matches(ss[i], f)}
         IN  /\ list \in Seq(Nat) /\ Len(list) = Cardinality(matching)
             /\ {list[k] : k \in 1..Len(list)} = matching
             /\ \A k, l \in 1..Len(list) : k < l => list[k] < list[l]
<1> DEFINE n == Len(ss)
           m == {i \in 1..n : Matches(ss[i], f)}
           c == Cardinality(m)
           list == FilterOf(ss, f)
           At1(k) == CHOOSE i \in m : RankOf(m, i) = k
<1>0. n \in Nat /\ m \in SUBSET (1..n) /\ \A i \in m : i \in Nat /\ i \in Int
  OBVIOUS
<1>1. list = [k \in 1..c |-> At1(k)]
  BY DEF FilterOf, RankOf, UpOf
<1> HIDE DEF n, m, list
<1>2. /\ Cardinality(m) \in Nat
      /\ \A i \in Int : RankOf(m, i) \in Nat /\ RankOf(m, i) <= Cardinality(m)
      /\ \A i, j \in Int : i <= j => RankOf(m, i) <= RankOf(m, j)
      /\ \A i \in Int : i \in m => RankOf(m, i) = RankOf(m, i - 1) + 1
  BY <1>0, RanksGrow
<1>3. \A k \in 1..c : At1(k) \in m /\ RankOf(m, At1(k)) = k
  <2> TAKE k \in 1..c
  <2>1. \E i \in m : RankOf(m, i) = k
    BY <1>0, RankFound
  <2> QED
    BY <2>1
<1> HIDE DEF At1, c
<1>4. c \in Nat
  BY <1>2 DEF c
<1>5. list \in Seq(Nat) /\ Len(list) = c /\ \A k \in 1..c : list[k] = At1(k)
  <2>1. \A k \in 1..c : At1(k) \in Nat
    BY <1>0, <1>3, Zenon
  <2>2. list \in [1..c -> Nat]
    BY <1>1, <2>1
  <2> QED
    BY <1>1, <1>4, <2>2
<1>10. \A k \in 1..c : list[k] \in m /\ list[k] \in Int /\ RankOf(m, list[k]) = k
  BY <1>0, <1>3, <1>5, Zenon
<1>6. ASSUME NEW k \in 1..c, NEW l \in 1..c, k < l PROVE list[k] < list[l]
  <2>1. /\ list[k] \in Int /\ list[l] \in Int
        /\ RankOf(m, list[k]) = k /\ RankOf(m, list[l]) = l
    BY <1>10
  <2>2. ~(list[l] <= list[k])
    <3> SUFFICES ASSUME list[l] <= list[k] PROVE FALSE
      OBVIOUS
    <3>1. RankOf(m, list[l]) <= RankOf(m, list[k])
      BY <1>2, <2>1, Zenon
    <3>2. l <= k
      BY <2>1, <3>1, Zenon
    <3> QED
      BY <1>4, <1>6, <3>2
  <2> QED
    BY <2>1, <2>2
<1>7. ASSUME NEW i \in m PROVE \E k \in 1..c : list[k] = i
  <2> DEFINE k == RankOf(m, i)
  <2>1. i \in Int /\ i - 1 \in Int /\ RankOf(m, i - 1) \in Nat /\ k = RankOf(m, i - 1) + 1 /\ k <= c
    BY <1>0, <1>2 DEF c
  <2>2. k \in 1..c
    BY <1>4, <2>1
  <2> DEFINE j == list[k]
  <2>3. j \in m /\ j \in Int /\ RankOf(m, j) = k /\ j - 1 \in Int
    BY <1>10, <2>2
  <2> HIDE DEF j
  <2>4. RankOf(m, j) = RankOf(m, j - 1) + 1 /\ RankOf(m, j - 1) \in Nat
    BY <1>2, <2>3
  <2>5. ~(i < j)
    <3> SUFFICES ASSUME i < j PROVE FALSE
      OBVIOUS
    <3>1. i <= j - 1
      BY <2>1, <2>3
    <3>2. RankOf(m, i) <= RankOf(m, j - 1)
      BY <1>2, <2>1, <2>3, <3>1
    <3> QED
      BY <2>1, <2>3, <2>4, <3>2
  <2>6. ~(j < i)
    <3> SUFFICES ASSUME j < i PROVE FALSE
      OBVIOUS
    <3>1. j <= i - 1
      BY <2>1, <2>3
    <3>2. RankOf(m, j) <= RankOf(m, i - 1)
      BY <1>2, <2>1, <2>3, <3>1
    <3> QED
      BY <2>1, <2>3, <3>2
  <2>7. j = i
    BY <2>1, <2>3, <2>5, <2>6
  <2> QED
    BY <2>2, <2>7 DEF j
<1>8. {list[k] : k \in 1..c} = m
  <2>1. \A k \in 1..c : list[k] \in m
    BY <1>3, <1>5
  <2> QED
    BY <1>7, <2>1
<1> QED
  BY <1>5, <1>6, <1>8 DEF list, m, n, c

-----------------------------------------------------------------------------
(* Replay: types, games and what is shown, together *)

\* The loader: its types, and its games as the steps have them.
LoadOK ==
  /\ log \in Seq(LineKind) /\ files \in Nat /\ parser \in ParserType /\ events \in Seq(EventType)
  /\ Built \in BuiltType
  /\ stage = "loading" => GamesInv(steps, games, gameStepStart)
  /\ stage # "loading" => Ranges(steps, games)
  /\ GamesExact

\* A replay whose games are ranges of its steps.
Fits(r) == r \in ReplayType /\ Ranges(r.steps, r.games)

\* The browser has replays that fit.
ModeOK ==
  /\ stage \in {"loading", "loaded", "browsing", "reloading", "left", "dead"}
  /\ Fits(replay) /\ Fits(store) /\ source \in {"logs", "store"}
  /\ embedded \in BOOLEAN /\ loadErr \in BOOLEAN /\ notice \in BOOLEAN

\* What is shown is the list of the steps that match, with the cursor on one of them.
View ==
  /\ gameIdx \in Nat /\ shown \in Seq(StepType) /\ filtered \in Seq(Nat)
  /\ cursor \in Nat /\ filter \in Filters \cup {ALL}
  /\ filtered = FilterOf(shown, filter)
  /\ filtered # <<>> => cursor \in 1..Len(filtered)

\* Outside the picker the steps of the chosen game are shown.
Chosen(r) == ~picking /\ r.games # <<>> => shown = StepsOf(r, gameIdx)

\* The picker and the list.
ViewOK == picking \in BOOLEAN /\ gameCursor \in Nat /\ View /\ Chosen(replay)

\* The inductive invariant of the types, the games and what is shown.
ReplayInv == LoadOK /\ ModeOK /\ ViewOK

\* The steps of a replay, without what the loader alone keeps.
LEMMA PlainTypes ==
  ASSUME NEW ss \in Seq(StepType)
  PROVE  Plain(ss) \in Seq(StepType) /\ Len(Plain(ss)) = Len(ss)
<1> DEFINE none == <<>>
<1>0. Len(ss) \in Nat /\ none \in Seq(Nat)
  OBVIOUS
<1> DEFINE P(i) == [ss[i] EXCEPT !.of = 0, !.raw = none, !.dropped = 0]
<1> HIDE DEF none
<1>1. ASSUME NEW i \in 1..Len(ss) PROVE P(i) \in StepType
  <2> DEFINE s == ss[i]
  <2>1. s \in StepType
    OBVIOUS
  <2> HIDE DEF s
  <2> DEFINE a == [s EXCEPT !.of = 0]
             b == [a EXCEPT !.raw = none]
  <2>2. a \in StepType
    BY <2>1 DEF StepType
  <2> HIDE DEF a
  <2>3. b \in StepType
    BY <1>0, <2>2 DEF StepType
  <2> HIDE DEF b
  <2>4. [b EXCEPT !.dropped = 0] \in StepType
    BY <2>3 DEF StepType
  <2>5. [s EXCEPT !.of = 0, !.raw = none, !.dropped = 0] = [b EXCEPT !.dropped = 0]
    BY Zenon DEF a, b
  <2> QED
    BY <2>4, <2>5 DEF s
<1>2. Plain(ss) = [i \in 1..Len(ss) |-> P(i)]
  BY Zenon DEF Plain, none
<1> HIDE DEF P
<1> QED
  BY <1>0, <1>1, <1>2

\* A replay made of steps and of ranges of them has the types of a replay.
LEMMA LoadedFits ==
  ASSUME NEW ss \in Seq(StepType), NEW gs \in Seq(GameType), Ranges(ss, gs)
  PROVE  /\ Fits(Loaded(ss, gs)) /\ Loaded(ss, gs).games = gs
         /\ Fits(Loaded(Plain(ss), gs)) /\ Loaded(Plain(ss), gs).games = gs
         /\ Ranges(Plain(ss), gs)
         /\ Fits(NoReplay) /\ NoReplay.games = <<>> /\ Fits(Loaded(<<>>, <<>>))
<1>1. Plain(ss) \in Seq(StepType) /\ Len(Plain(ss)) = Len(ss)
  BY PlainTypes
<1>2. Ranges(Plain(ss), gs)
  BY <1>1 DEF Ranges
<1>3. \A tt \in Seq(StepType) : Ranges(tt, gs) => Fits(Loaded(tt, gs)) /\ Loaded(tt, gs).games = gs
  BY DEF Fits, Loaded, ReplayType
<1>4. Fits(NoReplay) /\ NoReplay.games = <<>>
  <2>1. NoReplay \in ReplayType /\ NoReplay.games = <<>>
    BY DEF NoReplay, ReplayType
  <2> QED
    BY <2>1 DEF Fits, Ranges
<1>5. Fits(Loaded(<<>>, <<>>))
  <2>1. Loaded(<<>>, <<>>) \in ReplayType /\ Loaded(<<>>, <<>>).games = <<>>
    BY DEF Loaded, ReplayType
  <2> QED
    BY <2>1 DEF Fits, Ranges
<1> HIDE DEF Loaded, NoReplay, Fits, Ranges
<1> QED
  BY <1>1, <1>2, <1>3, <1>4, <1>5

\* The steps of a game are steps.
LEMMA StepsOfTypes ==
  ASSUME NEW r, Fits(r), NEW g \in 1..Len(r.games)
  PROVE  StepsOf(r, g) \in Seq(StepType)
<1>1. /\ r.steps \in Seq(StepType) /\ r.games \in Seq(GameType)
  BY DEF Fits, ReplayType
<1>2. r.games[g] \in GameType
  BY <1>1
<1> DEFINE lo == r.games[g].lo
           hi == r.games[g].hi
           ss == r.steps
<1>3. lo \in Nat /\ hi \in Nat /\ 1 <= lo /\ hi <= Len(ss)
  BY <1>2 DEF GameType, Fits, Ranges
<1>4. Len(ss) \in Nat /\ \A i \in 1..Len(ss) : ss[i] \in StepType
  BY <1>1
<1> HIDE DEF lo, hi, ss, StepType
<1>5. \A i \in lo..hi : ss[i] \in StepType
  BY <1>3, <1>4
<1>6. SubSeq(ss, lo, hi) \in Seq(StepType)
  BY <1>3, <1>5, SubSeqProperties
<1> QED
  BY <1>6 DEF StepsOf, lo, hi, ss

\* The list is made anew: it is what the filter says, and the cursor is on it.
LEMMA Rebuilt ==
  ASSUME NEW ss \in Seq(StepType), NEW f \in Filters \cup {ALL}, NEW at \in Int,
         rebuildFiltered(ss, f, at), gameIdx' \in Nat
  PROVE  View' /\ shown' = ss
<1> DEFINE list == FilterOf(ss, f)
           n    == Len(list)
<1>1. list \in Seq(Nat)
  BY FilterLists
<1>2. /\ shown' = ss /\ filter' = f /\ filtered' = list
      /\ cursor' = Max({1, Min({at, n})})
  BY DEF rebuildFiltered
<1> HIDE DEF list
<1>3. n \in Nat
  BY <1>1
<1>4. list # <<>> => n >= 1
  BY <1>1
<1> HIDE DEF n
<1> DEFINE low == Min({at, n})
<1>5. low \in {at, n} /\ low <= n
  <2>1. at \in Int /\ n \in Int
    BY <1>3
  <2> QED
    BY <2>1, MinOfTwo, Zenon
<1> HIDE DEF low
<1>6. low \in Int /\ 1 \in Int
  BY <1>3, <1>5
<1>7. Max({1, low}) \in {1, low} /\ Max({1, low}) >= 1
  BY <1>6, MaxOfTwo
<1> DEFINE top == Max({1, low})
<1> HIDE DEF top
<1>8. top \in Nat /\ (n >= 1 => top \in 1..n)
  BY <1>3, <1>5, <1>6, <1>7 DEF top
<1>9. cursor' \in Nat /\ (list # <<>> => cursor' \in 1..n)
  <2>1. cursor' = top
    BY <1>2, Zenon DEF top, low
  <2> QED
    BY <1>4, <1>8, <2>1
<1>10. FilterOf(shown', filter') = list
  BY <1>2 DEF list
<1> QED
  BY <1>1, <1>2, <1>9, <1>10 DEF View, n

\* Selecting a game shows its steps; an index out of range selects nothing.
LEMMA Selected ==
  ASSUME ViewOK, NEW r, Fits(r), NEW g \in Nat, selectGame(r, g)
  PROVE  /\ View' /\ picking' \in BOOLEAN
         /\ g \in 1..Len(r.games) => ~picking' /\ shown' = StepsOf(r, gameIdx')
         /\ g \notin 1..Len(r.games) => UNCHANGED <<picking, viewVars>>
<1>1. CASE g \in 1..Len(r.games)
  <2>1. gameIdx' = g /\ picking' = FALSE /\ rebuildFiltered(StepsOf(r, g), ALL, 1)
    BY <1>1 DEF selectGame
  <2>2. StepsOf(r, g) \in Seq(StepType)
    BY <1>1, StepsOfTypes
  <2> DEFINE ss == StepsOf(r, g)
  <2> HIDE DEF ss
  <2>3. ss \in Seq(StepType) /\ ALL \in Filters \cup {ALL} /\ 1 \in Int /\ gameIdx' \in Nat
        /\ rebuildFiltered(ss, ALL, 1)
    BY <2>1, <2>2 DEF ss
  <2>4. View' /\ shown' = ss
    BY <2>3, Rebuilt
  <2> QED
    BY <1>1, <2>1, <2>4 DEF ss
<1>2. CASE g \notin 1..Len(r.games)
  <2>1. UNCHANGED <<picking, viewVars>>
    BY <1>2 DEF selectGame
  <2> QED
    BY <1>2, <2>1 DEF ViewOK, View, viewVars
<1> QED
  BY <1>1, <1>2

\* A replay is installed: its only game is shown, or the picker.
LEMMA Installed ==
  ASSUME ViewOK, NEW r, Fits(r), Install(r)
  PROVE  ViewOK' /\ replay' = r /\ loadErr' = FALSE
<1>0. replay' = r /\ loadErr' = FALSE /\ gameCursor' = gameCursor
  BY DEF Install
<1>1. r.games \in Seq(GameType)
  BY DEF Fits, ReplayType
<1>2. CASE Len(r.games) = 1
  <2>1. selectGame(r, 1) /\ 1 \in Nat /\ 1 \in 1..Len(r.games)
    BY <1>2 DEF Install
  <2>2. View' /\ picking' \in BOOLEAN /\ ~picking' /\ shown' = StepsOf(r, gameIdx')
    BY <2>1, Selected, Zenon
  <2>3. Chosen(replay)'
    BY <1>0, <2>2 DEF Chosen, StepsOf
  <2> QED
    BY <1>0, <2>2, <2>3 DEF ViewOK
<1>3. CASE Len(r.games) # 1
  <2>1. picking' = (Len(r.games) > 1) /\ UNCHANGED viewVars
    BY <1>3 DEF Install
  <2>2. View'
    BY <2>1 DEF ViewOK, View, viewVars
  <2>3. r.games # <<>> => Len(r.games) > 1
    <3> DEFINE gs == r.games
    <3>1. gs \in Seq(GameType) /\ Len(gs) # 1
      BY <1>1, <1>3
    <3> HIDE DEF gs
    <3>2. gs # <<>> => Len(gs) > 1
      BY <3>1
    <3> QED
      BY <3>2 DEF gs
  <2>4. picking' \in BOOLEAN /\ (r.games # <<>> => picking')
    <3> DEFINE many == Len(r.games) > 1
    <3>1. many \in BOOLEAN
      OBVIOUS
    <3>2. picking' = many /\ (r.games # <<>> => many)
      BY <2>1, <2>3
    <3> HIDE DEF many
    <3> QED
      BY <3>1, <3>2, Zenon
  <2>5. Chosen(replay)'
    BY <1>0, <2>4, Zenon DEF Chosen
  <2> QED
    BY <1>0, <2>2, <2>4, <2>5 DEF ViewOK
<1> QED
  BY <1>2, <1>3

\* The initial states have the invariant.
LEMMA InitOK == ReplayInit => ReplayInv
<1> SUFFICES ASSUME ReplayInit PROVE ReplayInv
  OBVIOUS
<1>1. /\ log = <<>> /\ files = 1 /\ parser = New /\ accum = <<>>
      /\ gameStepStart = NoGame /\ steps = <<>> /\ games = <<>>
      /\ events = <<>> /\ early = 0
      /\ stage = "loading" /\ replay = NoReplay /\ store = NoReplay
      /\ source = "logs" /\ embedded = FALSE /\ loadErr = FALSE /\ notice = FALSE
      /\ picking = FALSE /\ gameCursor = 1
      /\ gameIdx = 1 /\ shown = <<>> /\ filtered = <<>> /\ cursor = 1 /\ filter = ALL
  BY DEF ReplayInit
<1>2. /\ <<>> \in Seq(StepType) /\ <<>> \in Seq(GameType) /\ <<>> \in Seq(Nat)
      /\ <<>> \in Seq(LineKind) /\ <<>> \in Seq(EventType) /\ Len(<<>>) = 0
  OBVIOUS
<1>3. Built \in BuiltType
  BY <1>1, <1>2 DEF Built, BuiltType, NoGame
<1>4. GamesInv(steps, games, gameStepStart)
  BY <1>1 DEF GamesInv, NoGame, Whole
<1>5. GamesExact
  BY <1>1 DEF GamesExact
<1>6. LoadOK
  <2>1. parser \in ParserType
    BY <1>1, NewTypes
  <2>2. log \in Seq(LineKind) /\ files \in Nat /\ events \in Seq(EventType)
    BY <1>1, <1>2
  <2> QED
    BY <1>1, <1>3, <1>4, <1>5, <2>1, <2>2, Zenon DEF LoadOK
<1>7. Ranges(<<>>, <<>>)
  BY <1>2 DEF Ranges
<1>8. Fits(NoReplay) /\ NoReplay.games = <<>>
  <2> DEFINE ss == <<>>
             gs == <<>>
  <2>1. ss \in Seq(StepType) /\ gs \in Seq(GameType) /\ Ranges(ss, gs)
    BY <1>2, <1>7
  <2> HIDE DEF ss, gs
  <2> QED
    BY <2>1, LoadedFits
<1>9. ModeOK
  BY <1>1, <1>8 DEF ModeOK
<1>10. FilterOf(shown, filter) = <<>>
  <2> DEFINE ss == shown
             f  == filter
             m  == {i \in 1..Len(ss) : Matches(ss[i], f)}
  <2>1. ss \in Seq(StepType) /\ m = {}
    BY <1>1, <1>2
  <2>2. Cardinality(m) = 0
    BY <2>1, FS_EmptySet
  <2>3. FilterOf(ss, f) \in Seq(Nat) /\ Len(FilterOf(ss, f)) = Cardinality(m)
    <3> HIDE DEF ss, f
    <3> QED
      BY <2>1, FilterLists DEF m
  <2>4. FilterOf(ss, f) = <<>>
    BY <2>2, <2>3
  <2> QED
    BY <2>4
<1>11. ViewOK
  <2>1. View
    BY <1>1, <1>2, <1>10 DEF View
  <2>2. Chosen(replay)
    BY <1>1, <1>8 DEF Chosen
  <2> QED
    BY <1>1, <2>1, <2>2 DEF ViewOK
<1> QED
  BY <1>6, <1>9, <1>11 DEF ReplayInv

\* A step of the loader.
LEMMA LoaderSteps ==
  ASSUME LoadOK, ReadLine \/ NextFile \/ FinishLoad
  PROVE  LoadOK' /\ stage' \in {"loading", "loaded"}
         /\ UNCHANGED <<replay, store, source, embedded, loadErr, notice, pickVars, viewVars>>
<1>1. /\ log \in Seq(LineKind) /\ files \in Nat /\ parser \in ParserType /\ events \in Seq(EventType)
      /\ Built \in BuiltType
      /\ stage = "loading" => GamesInv(steps, games, gameStepStart)
  BY DEF LoadOK
<1>2. stage = "loading"
  BY DEF ReadLine, NextFile, FinishLoad
<1>3. /\ steps \in Seq(StepType) /\ games \in Seq(GameType) /\ gameStepStart \in Nat
      /\ accum \in Seq(Nat) /\ early \in Nat
      /\ Built = Make(steps, games, gameStepStart, accum, early)
      /\ \A i \in Nat : [Built EXCEPT !.accum = Append(@, i)]
              = Make(steps, games, gameStepStart, Append(accum, i), early)
  BY <1>1, BuiltIs, Zenon
<1>4. Built \in Tidy
  <2>1. Built.steps = steps /\ Built.games = games /\ Built.start = gameStepStart
    BY DEF Built
  <2> QED
    BY <1>1, <1>2, <2>1 DEF Tidy
<1>5. ASSUME NEW b \in Tidy, Build(b)
      PROVE  Built' = b /\ Built' \in BuiltType /\ GamesInv(steps', games', gameStepStart')
  <2>1. b \in BuiltType /\ GamesInv(b.steps, b.games, b.start)
    BY DEF Tidy
  <2>2. b = Make(b.steps, b.games, b.start, b.accum, b.early)
    BY <2>1, MakeIs, Zenon
  <2>3. /\ steps' = b.steps /\ games' = b.games /\ gameStepStart' = b.start
        /\ accum' = b.accum /\ early' = b.early
    BY <1>5 DEF Build
  <2>4. Built' = Make(b.steps, b.games, b.start, b.accum, b.early)
    BY <2>3 DEF Built, Make
  <2> QED
    BY <2>1, <2>2, <2>3, <2>4
<1>6. CASE ReadLine
  <2>1. PICK kind \in LineKind :
          LET fed == Feed(parser, Len(log) + 1, kind)
          IN  /\ log' = Append(log, kind)
              /\ parser' = fed.parser /\ events' = events \o fed.events
              /\ \E b \in DrainAll([Built EXCEPT !.accum = Append(@, Len(log) + 1)], fed.events) : Build(b)
    BY <1>6 DEF ReadLine
  <2> DEFINE i   == Len(log) + 1
             fed == Feed(parser, i, kind)
             more == [Built EXCEPT !.accum = Append(@, i)]
  <2>2. i \in Nat
    BY <1>1
  <2>3. log' \in Seq(LineKind)
    BY <1>1, <2>1
  <2> HIDE DEF i
  <2>4. fed \in WithType
    BY <1>1, <2>2, FeedTypes, Zenon
  <2>5. /\ parser' = fed.parser /\ events' = events \o fed.events
        /\ \E b \in DrainAll(more, fed.events) : Build(b)
    BY <2>1, Zenon DEF i
  <2> HIDE DEF fed
  <2>6. fed.parser \in ParserType /\ fed.events \in Seq(EventType)
    BY <2>4, WithHas
  <2>7. parser' \in ParserType /\ events' \in Seq(EventType)
    <3> HIDE DEF EventType, ParserType
    <3> QED
      BY <1>1, <2>5, <2>6
  <2>8. more = Make(steps, games, gameStepStart, Append(accum, i), early)
    BY <1>3, <2>2, Zenon
  <2> HIDE DEF more
  <2>9. more \in Tidy
    <3>1. Append(accum, i) \in Seq(Nat)
      BY <1>3, <2>2
    <3>2. more \in BuiltType
      BY <1>3, <2>8, <3>1 DEF Make, BuiltType
    <3>3. more.steps = steps /\ more.games = games /\ more.start = gameStepStart
      BY <2>8 DEF Make
    <3> QED
      BY <1>1, <1>2, <3>2, <3>3 DEF Tidy
  <2>10. DrainAll(more, fed.events) \subseteq Tidy
    BY <2>6, <2>9, TidyKept
  <2>11. PICK b \in Tidy : Build(b)
    BY <2>5, <2>10
  <2>12. Built' \in BuiltType /\ GamesInv(steps', games', gameStepStart')
    BY <1>5, <2>11
  <2>13. files' = files /\ stage' = "loading"
         /\ UNCHANGED <<replay, store, source, embedded, loadErr, notice, pickVars, viewVars>>
    BY <1>2, <1>6 DEF ReadLine, modeVars
  <2>14. GamesExact'
    BY <2>13 DEF GamesExact
  <2>15. LoadOK'
    BY <1>1, <2>3, <2>7, <2>12, <2>13, <2>14 DEF LoadOK
  <2> QED
    BY <2>13, <2>15
<1>7. CASE NextFile
  <2>1. Build(foldAccum(Built)) /\ files' = files + 1
        /\ UNCHANGED <<log, parser, events, modeVars, pickVars, viewVars>>
    BY <1>7 DEF NextFile
  <2>2. <<>> \in Seq(EventType)
    OBVIOUS
  <2>3. foldAccum(Built) \in Tidy
    BY <1>4, <2>2, TidyKept, Zenon
  <2>4. Built' \in BuiltType /\ GamesInv(steps', games', gameStepStart')
    BY <1>5, <2>1, <2>3
  <2>5. stage' = "loading" /\ files' \in Nat /\ log' = log /\ parser' = parser /\ events' = events
        /\ UNCHANGED <<replay, store, source, embedded, loadErr, notice, pickVars, viewVars>>
    BY <1>1, <1>2, <2>1 DEF modeVars
  <2>6. GamesExact'
    BY <2>5 DEF GamesExact
  <2>7. LoadOK'
    BY <1>1, <2>4, <2>5, <2>6 DEF LoadOK
  <2> QED
    BY <2>5, <2>7
<1>8. CASE FinishLoad
  <2>1. /\ parser' = Flushed.parser /\ events' = events \o Flushed.events
        /\ \E b \in DrainAll(Built, Flushed.events) :
             LET c == foldAccum(b)
             IN  Build([c EXCEPT !.games = IF c.start = NoGame THEN @
                          ELSE Append(@, [lo |-> c.start, hi |-> Len(c.steps)])])
        /\ stage' = "loaded"
        /\ UNCHANGED <<log, files, replay, store, source, embedded, loadErr, notice, pickVars, viewVars>>
    BY <1>8 DEF FinishLoad
  <2>2. Flushed \in WithType
    BY <1>1, FlushTypes DEF Flushed
  <2>3. Flushed.parser \in ParserType /\ Flushed.events \in Seq(EventType)
    BY <2>2, WithHas
  <2>4. parser' \in ParserType /\ events' \in Seq(EventType)
    <3> HIDE DEF EventType, ParserType
    <3> QED
      BY <1>1, <2>1, <2>3
  <2>5. DrainAll(Built, Flushed.events) \subseteq Tidy
    BY <1>4, <2>3, TidyKept
  <2>6. PICK b \in Tidy : Build([foldAccum(b) EXCEPT !.games = IF foldAccum(b).start = NoGame THEN @
                          ELSE Append(@, [lo |-> foldAccum(b).start, hi |-> Len(foldAccum(b).steps)])])
    BY <2>1, <2>5
  <2> DEFINE c   == foldAccum(b)
             all == IF c.start = NoGame THEN c.games ELSE Append(c.games, [lo |-> c.start, hi |-> Len(c.steps)])
             d   == [c EXCEPT !.games = all]
  <2>7. c \in Tidy
    <3>1. <<>> \in Seq(EventType)
      OBVIOUS
    <3> QED
      BY <3>1, TidyKept, Zenon
  <2>8. c \in BuiltType /\ GamesInv(c.steps, c.games, c.start)
    BY <2>7 DEF Tidy
  <2>9. /\ c.steps \in Seq(StepType) /\ c.games \in Seq(GameType) /\ c.start \in Nat
        /\ c.accum \in Seq(Nat) /\ c.early \in Nat
        /\ c = Make(c.steps, c.games, c.start, c.accum, c.early)
    <3> HIDE DEF c
    <3> QED
      BY <2>8, MakeIs, Zenon
  <2>10. Build(d)
    <3>1. d = [c EXCEPT !.games = IF c.start = NoGame THEN @
                          ELSE Append(@, [lo |-> c.start, hi |-> Len(c.steps)])]
      <4> HIDE DEF c
      <4> QED
        BY <2>9 DEF Make
    <3> QED
      BY <2>6, <3>1, Zenon
  <2> HIDE DEF c
  <2>11. /\ all \in Seq(GameType) /\ Ranges(c.steps, all)
         /\ {all[g] : g \in 1..Len(all)}
              = UNION {EndIn(c.steps, j) : j \in {k \in 1..Len(c.steps) : c.steps[k].kind = "create"}}
         /\ \A g \in 1..(Len(all) - 1) : all[g].hi < all[g + 1].lo
    <3> DEFINE ss == c.steps
               gs == c.games
               st == c.start
    <3>1. ss \in Seq(StepType) /\ gs \in Seq(GameType) /\ GamesInv(ss, gs, st)
      BY <2>8, <2>9
    <3> HIDE DEF ss, gs, st
    <3>2. LET a == IF st = NoGame THEN gs ELSE Append(gs, [lo |-> st, hi |-> Len(ss)])
          IN  /\ a \in Seq(GameType) /\ Ranges(ss, a)
              /\ {a[g] : g \in 1..Len(a)}
                   = UNION {EndIn(ss, j) : j \in {k \in 1..Len(ss) : ss[k].kind = "create"}}
              /\ \A g \in 1..(Len(a) - 1) : a[g].hi < a[g + 1].lo
      BY <3>1, GamesClose, Zenon
    <3> QED
      BY <3>2, Zenon DEF ss, gs, st
  <2> HIDE DEF all
  <2>12. d = Make(c.steps, all, c.start, c.accum, c.early)
    <3> DEFINE q == Make(c.steps, c.games, c.start, c.accum, c.early)
    <3>1. [q EXCEPT !.games = all] = Make(c.steps, all, c.start, c.accum, c.early)
      BY DEF Make
    <3> QED
      BY <2>9, <3>1
  <2>13. /\ d.steps = c.steps /\ d.games = all /\ d.start = c.start
         /\ d.accum = c.accum /\ d.early = c.early
    BY <2>12 DEF Make
  <2>14. /\ steps' = c.steps /\ games' = all /\ gameStepStart' = c.start
         /\ accum' = c.accum /\ early' = c.early
    BY <2>10, <2>13 DEF Build
  <2>15. Built' \in BuiltType
    BY <2>9, <2>11, <2>14 DEF Built, BuiltType
  <2>16. GamesExact'
    <3>1. \A lo : EndOf(lo)' = EndIn(steps', lo)
      BY Zenon DEF EndOf, EndIn
    <3> DEFINE Starts == {k \in 1..Len(steps') : steps'[k].kind = "create"}
    <3>2. {games'[g] : g \in 1..Len(games')} = UNION {EndIn(steps', j) : j \in Starts}
      BY <2>11, <2>14
    <3>3. UNION {EndIn(steps', j) : j \in Starts} = UNION {EndOf(j)' : j \in Starts}
      <4> HIDE DEF Starts
      <4> QED
        BY <3>1
    <3>4. \A g \in 1..(Len(games') - 1) : games'[g].hi < games'[g + 1].lo
      BY <2>11, <2>14
    <3> QED
      BY <3>2, <3>3, <3>4, Zenon DEF GamesExact
  <2>17. Ranges(steps', games')
    BY <2>11, <2>14
  <2>18. LoadOK'
    <3>1. log' \in Seq(LineKind) /\ files' \in Nat /\ stage' = "loaded"
      BY <1>1, <2>1
    <3> QED
      BY <2>4, <2>15, <2>16, <2>17, <3>1, Zenon DEF LoadOK
  <2> QED
    BY <2>1, <2>18
<1> QED
  BY <1>6, <1>7, <1>8

\* Where the keys lead is a place of the list.
LEMMA MovesStay ==
  ASSUME View, filtered # <<>>
  PROVE  /\ \A c \in Int : moveCursor(c) \in Places
         /\ nextTurn(cursor) \in Places /\ prevTurn(cursor) \in Places
         /\ nextPhase(cursor) \in Places /\ prevPhase(cursor) \in Places
         /\ \A turn : jumpToTurn(turn, cursor) \in Places
         /\ 1 \in Places /\ Len(filtered) \in Places
<1> DEFINE n == Len(filtered)
<1>1. n \in Nat /\ n >= 1 /\ Places = 1..n /\ cursor \in 1..n
  BY DEF View, Places
<1> HIDE DEF n
<1>2. ASSUME NEW c \in Int PROVE moveCursor(c) \in Places
  <2> DEFINE low == Min({c, n})
  <2>1. low \in {c, n} /\ low <= n
    <3>1. c \in Int /\ n \in Int
      BY <1>1
    <3> QED
      BY <3>1, MinOfTwo, Zenon
  <2> HIDE DEF low
  <2>2. low \in Int
    BY <1>1, <2>1
  <2>3. Max({1, low}) \in {1, low} /\ Max({1, low}) >= 1
    BY <2>2, MaxOfTwo
  <2>4. moveCursor(c) = Max({1, low})
    BY Zenon DEF moveCursor, low, n
  <2> DEFINE top == Max({1, low})
  <2> HIDE DEF top
  <2>5. top \in 1..n
    BY <1>1, <2>1, <2>2, <2>3 DEF top
  <2> QED
    BY <1>1, <2>4, <2>5 DEF top
<1>3. ASSUME NEW s \in SUBSET (1..n), NEW c \in 1..n PROVE FirstOf(s, c) \in 1..n
  <2>1. s # {} => Min(s) \in s
    <3>1. s \in SUBSET Nat
      OBVIOUS
    <3> QED
      BY <3>1, MinIn
  <2> QED
    BY <2>1 DEF FirstOf
<1>4. ASSUME NEW p \in 1..n, NEW s \in SUBSET (1..(p - 1)) PROVE StartOf(s) \in 1..n
  <2>1. CASE s = {}
    BY <1>1, <2>1 DEF StartOf
  <2>2. CASE s # {}
    <3>1. p - 1 \in Nat
      BY <1>1
    <3>2. Max(s) \in s
      BY <2>2, <3>1, MaxIn
    <3>3. StartOf(s) = Max(s) + 1
      BY <2>2 DEF StartOf
    <3>4. Max(s) \in 1..(p - 1)
      BY <3>2
    <3> QED
      BY <1>1, <3>3, <3>4
  <2> QED
    BY <2>1, <2>2
<1>5. ASSUME NEW s \in SUBSET Up(cursor), s # {} PROVE Max(s) \in 1..n
  <2>1. s \in SUBSET (1..n)
    BY <1>1 DEF Up
  <2> QED
    BY <1>1, <1>5, <2>1, MaxIn
<1>6. \A p \in 1..n : Up(p) \in SUBSET (1..(p - 1))
  BY <1>1 DEF Up
<1>7. After(cursor) \in SUBSET (1..n)
  BY <1>1 DEF After
<1>8. nextTurn(cursor) \in Places /\ nextPhase(cursor) \in Places
  <2>1. {i \in After(cursor) : Turn(At(i)) > Turn(At(cursor))} \in SUBSET (1..n)
    BY <1>7
  <2>2. {i \in After(cursor) : Phase(At(i)) # Phase(At(cursor))} \in SUBSET (1..n)
    BY <1>7
  <2> QED
    BY <1>1, <1>3, <2>1, <2>2, Zenon DEF nextTurn, nextPhase
<1>9. prevTurn(cursor) \in Places
  <2> DEFINE earlier == {i \in Up(cursor) : Turn(At(i)) < Turn(At(cursor))}
             p       == Max(earlier)
             breaks  == {j \in Up(p) : Turn(At(j)) < Turn(At(p))}
  <2>1. prevTurn(cursor) = IF earlier = {} THEN cursor ELSE StartOf(breaks)
    BY Zenon DEF prevTurn
  <2>2. earlier \in SUBSET Up(cursor)
    OBVIOUS
  <2>3. \A q : {j \in Up(q) : Turn(At(j)) < Turn(At(q))} \in SUBSET Up(q)
    OBVIOUS
  <2> HIDE DEF earlier
  <2>4. earlier # {} => p \in 1..n
    BY <1>5, <2>2, Zenon
  <2>5. breaks \in SUBSET Up(p)
    BY <2>3, Zenon
  <2> HIDE DEF p, breaks
  <2>6. earlier # {} => StartOf(breaks) \in 1..n
    <3> SUFFICES ASSUME earlier # {} PROVE StartOf(breaks) \in 1..n
      OBVIOUS
    <3>1. p \in 1..n /\ breaks \in SUBSET (1..(p - 1))
      BY <1>6, <2>4, <2>5
    <3> QED
      BY <1>4, <3>1, Zenon
  <2> QED
    BY <1>1, <2>1, <2>6
<1>10. prevPhase(cursor) \in Places
  <2> DEFINE other  == {i \in Up(cursor) : Phase(At(i)) # Phase(At(cursor))}
             p      == Max(other)
             breaks == {j \in Up(p) : Phase(At(j)) # Phase(At(p))}
  <2>1. prevPhase(cursor) = IF other = {} THEN cursor ELSE StartOf(breaks)
    BY Zenon DEF prevPhase
  <2>2. other \in SUBSET Up(cursor)
    OBVIOUS
  <2>3. \A q : {j \in Up(q) : Phase(At(j)) # Phase(At(q))} \in SUBSET Up(q)
    OBVIOUS
  <2> HIDE DEF other
  <2>4. other # {} => p \in 1..n
    BY <1>5, <2>2, Zenon
  <2>5. breaks \in SUBSET Up(p)
    BY <2>3, Zenon
  <2> HIDE DEF p, breaks
  <2>6. other # {} => StartOf(breaks) \in 1..n
    <3> SUFFICES ASSUME other # {} PROVE StartOf(breaks) \in 1..n
      OBVIOUS
    <3>1. p \in 1..n /\ breaks \in SUBSET (1..(p - 1))
      BY <1>6, <2>4, <2>5
    <3> QED
      BY <1>4, <3>1, Zenon
  <2> QED
    BY <1>1, <2>1, <2>6
<1>11. ASSUME NEW turn PROVE jumpToTurn(turn, cursor) \in Places
  <2> DEFINE same == {i \in Places : Turn(At(i)) = turn}
             run  == {i \in same : \A j \in Min(same)..i : j \in same}
             more == {i \in Places : Turn(At(i)) >= turn}
  <2>1. jumpToTurn(turn, cursor) = IF same # {} THEN Max(run) ELSE FirstOf(more, cursor)
    BY Zenon DEF jumpToTurn
  <2>2. same \in SUBSET (1..n) /\ more \in SUBSET (1..n)
    BY <1>1
  <2> HIDE DEF same, more
  <2>3. FirstOf(more, cursor) \in 1..n
    BY <1>1, <1>3, <2>2
  <2>4. ASSUME same # {} PROVE Max(run) \in 1..n
    <3>1. same \in SUBSET Nat
      BY <2>2
    <3>2. Min(same) \in same
      BY <2>4, <3>1, MinIn
    <3>3. Min(same)..Min(same) = {Min(same)}
      <4> DEFINE x == Min(same)
      <4>1. x \in Nat
        BY <3>1, <3>2
      <4> HIDE DEF x
      <4>2. x..x = {x}
        BY <4>1
      <4> QED
        BY <4>2 DEF x
    <3>4. Min(same) \in run
      BY <3>2, <3>3
    <3>5. run \in SUBSET (1..n) /\ run # {}
      BY <2>2, <3>4
    <3> HIDE DEF run
    <3>6. Max(run) \in run
      BY <1>1, <3>5, MaxIn
    <3> QED
      BY <3>5, <3>6
  <2> QED
    BY <1>1, <2>1, <2>3, <2>4
<1>12. 1 \in Places /\ Len(filtered) \in Places
  BY <1>1 DEF n
<1> QED
  BY <1>2, <1>8, <1>9, <1>10, <1>11, <1>12

\* A step of the browser leaves the loader's part as it should be.
LEMMA Forgotten ==
  ASSUME LoadOK, stage # "loading", stage' # "loading", stage' # "loaded", Forget
  PROVE  LoadOK'
<1>1. /\ log' = <<>> /\ parser' = New /\ events' = <<>> /\ files' = 1 /\ early' = 0
      /\ accum' = <<>> /\ gameStepStart' = NoGame /\ steps' = Plain(steps)
      /\ games' = games
  BY DEF Forget
<1>2. Built \in BuiltType /\ Ranges(steps, games)
  BY DEF LoadOK
<1>3. steps \in Seq(StepType) /\ games \in Seq(GameType)
  BY <1>2, BuiltIs
<1>4. Plain(steps) \in Seq(StepType) /\ Ranges(Plain(steps), games)
  BY <1>2, <1>3, PlainTypes, LoadedFits
<1>5. Built' \in BuiltType
  <2>1. /\ steps' \in Seq(StepType) /\ games' \in Seq(GameType) /\ gameStepStart' \in Nat
        /\ accum' \in Seq(Nat) /\ early' \in Nat
    <3>1. <<>> \in Seq(Nat)
      OBVIOUS
    <3> QED
      BY <1>1, <1>3, <1>4, <3>1 DEF NoGame
  <2> QED
    BY <2>1 DEF Built, BuiltType
<1>6. log' \in Seq(LineKind) /\ files' \in Nat /\ parser' \in ParserType /\ events' \in Seq(EventType)
  <2>1. <<>> \in Seq(LineKind) /\ <<>> \in Seq(EventType)
    OBVIOUS
  <2> QED
    BY <1>1, <2>1, NewTypes
<1>7. GamesExact'
  BY DEF GamesExact
<1>8. Ranges(steps', games')
  BY <1>1, <1>4
<1> QED
  BY <1>5, <1>6, <1>7, <1>8, Zenon DEF LoadOK

\* What the loader has built stays while the browser runs.
LEMMA LoadStays ==
  ASSUME LoadOK, stage \notin {"loading", "loaded"}, stage' \notin {"loading", "loaded"}, UNCHANGED loadVars
  PROVE  LoadOK'
<1>1. /\ log' = log /\ files' = files /\ parser' = parser /\ accum' = accum
      /\ gameStepStart' = gameStepStart /\ steps' = steps /\ games' = games
      /\ events' = events /\ early' = early
  BY DEF loadVars
<1>2. Built' = Built
  BY <1>1 DEF Built
<1>3. GamesExact'
  BY DEF GamesExact
<1>4. Ranges(steps', games')
  BY <1>1 DEF LoadOK
<1>5. stage' # "loading"
  OBVIOUS
<1> QED
  BY <1>1, <1>2, <1>3, <1>4, <1>5 DEF LoadOK

\* The browser's steps, one by one.
LEMMA OpenSteps ==
  ASSUME ReplayInv, OpenLogs \/ OpenStore
  PROVE  ReplayInv'
<1>1. LoadOK /\ ModeOK /\ ViewOK
  BY DEF ReplayInv
<1>2. stage = "loaded" /\ stage' = "browsing" /\ Forget
  BY DEF OpenLogs, OpenStore
<1>3. LoadOK'
  BY <1>1, <1>2, Forgotten
<1>4. steps \in Seq(StepType) /\ games \in Seq(GameType) /\ Ranges(steps, games)
  <2>1. Built \in BuiltType /\ Ranges(steps, games)
    BY <1>1, <1>2 DEF LoadOK
  <2> QED
    BY <2>1, BuiltIs
<1>5. /\ Fits(Loaded(Plain(steps), games)) /\ Loaded(Plain(steps), games).games = games
      /\ Fits(NoReplay) /\ Fits(Loaded(<<>>, <<>>))
  BY <1>4, LoadedFits
<1>6. /\ Fits(replay) /\ Fits(store) /\ source \in {"logs", "store"}
      /\ embedded \in BOOLEAN /\ loadErr \in BOOLEAN /\ notice \in BOOLEAN
  BY <1>1 DEF ModeOK
<1>7. CASE OpenLogs
  <2>1. /\ Fits(store') /\ embedded' \in BOOLEAN /\ UNCHANGED <<source, notice>>
    BY <1>5, <1>7 DEF OpenLogs
  <2>2. Fits(replay') /\ loadErr' \in BOOLEAN /\ ViewOK'
    <3> DEFINE r == Loaded(Plain(steps), games)
    <3>0. Fits(r) /\ r.games = games
      BY <1>5
    <3> HIDE DEF r
    <3>1. \/ games # <<>> /\ Install(r)
          \/ games = <<>> /\ replay' = r /\ loadErr' = TRUE /\ UNCHANGED <<pickVars, viewVars>>
          \/ loadErr' = TRUE /\ UNCHANGED <<replay, pickVars, viewVars>>
      BY <1>7 DEF OpenLogs, r
    <3>2. CASE Install(r)
      <4>1. ViewOK' /\ replay' = r /\ loadErr' = FALSE
        BY <1>1, <3>0, <3>2, Installed
      <4> QED
        BY <3>0, <4>1
    <3>3. CASE games = <<>> /\ replay' = r /\ loadErr' = TRUE /\ UNCHANGED <<pickVars, viewVars>>
      <4>1. replay'.games = <<>>
        BY <3>0, <3>3
      <4>2. ViewOK'
        BY <1>1, <3>3, <4>1 DEF ViewOK, View, Chosen, pickVars, viewVars
      <4> QED
        BY <3>0, <3>3, <4>2
    <3>4. CASE loadErr' = TRUE /\ UNCHANGED <<replay, pickVars, viewVars>>
      <4>1. ViewOK'
        BY <1>1, <3>4 DEF ViewOK, View, Chosen, pickVars, viewVars, StepsOf
      <4> QED
        BY <1>6, <3>4, <4>1
    <3> QED
      BY <3>1, <3>2, <3>3, <3>4
  <2>3. ModeOK'
    BY <1>2, <1>6, <2>1, <2>2, Zenon DEF ModeOK
  <2> QED
    BY <1>3, <2>2, <2>3 DEF ReplayInv
<1>8. CASE OpenStore
  <2>1. PICK r \in StoreReplays : store' = r /\ Install(r)
    BY <1>8 DEF OpenStore
  <2>2. source' = "store" /\ embedded' = TRUE /\ notice' = notice
    BY <1>8 DEF OpenStore
  <2>3. Fits(r)
    BY ReplayAssumption DEF Fits
  <2>4. ViewOK' /\ replay' = r /\ loadErr' = FALSE
    BY <1>1, <2>1, <2>3, Installed
  <2>5. ModeOK'
    BY <1>2, <1>6, <2>1, <2>2, <2>3, <2>4 DEF ModeOK
  <2> QED
    BY <1>3, <2>4, <2>5 DEF ReplayInv
<1> QED
  BY <1>7, <1>8

\* The keys, and a reload, keep the invariant.
LEMMA KeySteps ==
  ASSUME ReplayInv,
         \/ Reloaded \/ switchSource \/ Dismiss \/ PickGame \/ OpenPicker \/ Move \/ Refilter \/ Quit
  PROVE  ReplayInv'
<1>1. LoadOK /\ ModeOK /\ ViewOK
  BY DEF ReplayInv
<1>2. /\ stage \in {"browsing", "reloading"}
      /\ stage' \in {"browsing", "reloading", "left", "dead"} /\ UNCHANGED loadVars
  BY DEF Reloaded, switchSource, Dismiss, PickGame, OpenPicker, Move, Refilter, Quit,
         Normal, Pressed, Picker, modeVars
<1>3. LoadOK'
  BY <1>1, <1>2, LoadStays
<1>4. /\ Fits(replay) /\ Fits(store) /\ source \in {"logs", "store"}
      /\ embedded \in BOOLEAN /\ loadErr \in BOOLEAN /\ notice \in BOOLEAN
  BY <1>1 DEF ModeOK
<1>5. picking \in BOOLEAN /\ gameCursor \in Nat /\ View /\ Chosen(replay)
  BY <1>1 DEF ViewOK
<1>6. /\ gameIdx \in Nat /\ shown \in Seq(StepType) /\ filtered \in Seq(Nat)
      /\ cursor \in Nat /\ filter \in Filters \cup {ALL}
      /\ filtered = FilterOf(shown, filter)
      /\ filtered # <<>> => cursor \in 1..Len(filtered)
  BY <1>5 DEF View
\* The steps that leave what is shown, and the replay, alone.
<1>7. ASSUME UNCHANGED <<replay, pickVars, viewVars>> PROVE ViewOK'
  BY <1>1, <1>7 DEF ViewOK, View, Chosen, pickVars, viewVars, StepsOf
\* The steps that leave the mode alone.
<1>8. ASSUME UNCHANGED modeVars PROVE ModeOK'
  BY <1>1, <1>8 DEF ModeOK, modeVars, Fits
<1>9. ASSUME Fits(replay'), UNCHANGED <<store, embedded>>, source' \in {"logs", "store"},
             loadErr' \in BOOLEAN, notice' \in BOOLEAN
      PROVE  ModeOK'
  BY <1>2, <1>4, <1>9 DEF ModeOK
<1>10. CASE Reloaded
  <2> DEFINE r == IF Other = "store" THEN store ELSE Loaded(steps, games)
  <2>1. Fits(r)
    <3>1. Built \in BuiltType /\ Ranges(steps, games)
      BY <1>1, <1>2 DEF LoadOK
    <3>2. steps \in Seq(StepType) /\ games \in Seq(GameType)
      BY <3>1, BuiltIs
    <3>3. Fits(Loaded(steps, games))
      BY <3>1, <3>2, LoadedFits
    <3> QED
      BY <1>4, <3>3
  <2>2. \/ loadErr' = TRUE /\ UNCHANGED <<replay, source, notice, pickVars, viewVars>>
        \/ r.games = <<>> /\ notice' = TRUE /\ UNCHANGED <<replay, source, loadErr, pickVars, viewVars>>
        \/ r.games # <<>> /\ Install(r) /\ source' = Other /\ UNCHANGED notice
    BY <1>10 DEF Reloaded
  <2>3. UNCHANGED <<store, embedded>>
    BY <1>10 DEF Reloaded
  <2> HIDE DEF r
  <2>4. CASE loadErr' = TRUE /\ UNCHANGED <<replay, source, notice, pickVars, viewVars>>
    <3>1. ViewOK'
      BY <1>7, <2>4
    <3>2. ModeOK'
      BY <1>4, <1>9, <2>3, <2>4
    <3> QED
      BY <1>3, <3>1, <3>2 DEF ReplayInv
  <2>5. CASE notice' = TRUE /\ UNCHANGED <<replay, source, loadErr, pickVars, viewVars>>
    <3>1. ViewOK'
      BY <1>7, <2>5
    <3>2. ModeOK'
      BY <1>4, <1>9, <2>3, <2>5
    <3> QED
      BY <1>3, <3>1, <3>2 DEF ReplayInv
  <2>6. CASE Install(r) /\ source' = Other /\ UNCHANGED notice
    <3>1. ViewOK' /\ replay' = r /\ loadErr' = FALSE
      BY <1>1, <2>1, <2>6, Installed
    <3>2. source' \in {"logs", "store"}
      BY <2>6 DEF Other
    <3>3. ModeOK'
      BY <1>4, <1>9, <2>1, <2>3, <2>6, <3>1, <3>2
    <3> QED
      BY <1>3, <3>1, <3>3 DEF ReplayInv
  <2> QED
    BY <2>2, <2>4, <2>5, <2>6
<1>11. CASE switchSource
  <2>1. /\ loadErr' = FALSE
        /\ UNCHANGED <<replay, store, source, embedded, notice, pickVars, viewVars>>
    BY <1>11 DEF switchSource
  <2>2. ViewOK'
    BY <1>7, <2>1
  <2>3. ModeOK'
    BY <1>4, <1>9, <2>1
  <2> QED
    BY <1>3, <2>2, <2>3 DEF ReplayInv
<1>12. CASE Dismiss
  <2>1. /\ notice' = FALSE
        /\ UNCHANGED <<replay, store, source, embedded, loadErr, pickVars, viewVars>>
    BY <1>12 DEF Dismiss
  <2>2. ViewOK'
    BY <1>7, <2>1
  <2>3. ModeOK'
    BY <1>4, <1>9, <2>1
  <2> QED
    BY <1>3, <2>2, <2>3 DEF ReplayInv
<1>13. CASE PickGame
  <2>1. UNCHANGED modeVars /\ replay' = replay
    BY <1>13 DEF PickGame, modeVars
  <2>2. CASE /\ gameCursor' \in {gameCursor - 1, gameCursor + 1, 1, Len(replay.games)}
             /\ gameCursor' >= 1 /\ UNCHANGED <<picking, viewVars>>
    <3>1. Len(replay.games) \in Nat
      <4>1. replay.games \in Seq(GameType)
        BY <1>4 DEF Fits, ReplayType
      <4> QED
        BY <4>1
    <3>2. gameCursor' \in Nat
      BY <1>5, <2>2, <3>1
    <3>3. View' /\ Chosen(replay)' /\ picking' \in BOOLEAN
      BY <1>5, <2>1, <2>2 DEF View, Chosen, viewVars, StepsOf
    <3> QED
      BY <1>3, <1>8, <2>1, <3>2, <3>3 DEF ReplayInv, ViewOK
  <2>3. CASE selectGame(replay, gameCursor) /\ UNCHANGED gameCursor
    <3> DEFINE r == replay
               g == gameCursor
    <3>0. Fits(r) /\ g \in Nat /\ selectGame(r, g)
      BY <1>4, <1>5, <2>3
    <3> HIDE DEF r, g
    <3>1. /\ View' /\ picking' \in BOOLEAN
          /\ g \in 1..Len(r.games) => ~picking' /\ shown' = StepsOf(r, gameIdx')
          /\ g \notin 1..Len(r.games) => UNCHANGED <<picking, viewVars>>
      BY <1>1, <3>0, Selected
    <3>2. Chosen(replay)'
      <4>1. CASE g \in 1..Len(r.games)
        <5>1. shown' = StepsOf(replay, gameIdx')
          BY <3>1, <4>1 DEF r
        <5> QED
          BY <2>1, <5>1 DEF Chosen, StepsOf
      <4>2. CASE g \notin 1..Len(r.games)
        <5>1. picking' = picking /\ shown' = shown /\ gameIdx' = gameIdx
          BY <3>1, <4>2 DEF viewVars
        <5> QED
          BY <1>5, <2>1, <5>1 DEF Chosen, StepsOf
      <4> QED
        BY <4>1, <4>2
    <3> QED
      BY <1>3, <1>5, <1>8, <2>1, <2>3, <3>1, <3>2 DEF ReplayInv, ViewOK
  <2> QED
    BY <1>13, <2>2, <2>3 DEF PickGame
<1>14. CASE OpenPicker
  <2>1. /\ picking' = TRUE \/ picking' = picking
        /\ UNCHANGED <<replay, store, source, embedded, loadErr, notice, gameCursor, viewVars>>
    BY <1>14 DEF OpenPicker
  <2>2. ModeOK'
    BY <1>4, <1>9, <2>1
  <2>3. ViewOK'
    BY <1>5, <2>1 DEF ViewOK, View, Chosen, viewVars, StepsOf
  <2> QED
    BY <1>3, <2>2, <2>3 DEF ReplayInv
<1>15. CASE Move
  <2>1. /\ UNCHANGED modeVars /\ replay' = replay
        /\ picking' = picking /\ gameCursor' = gameCursor
        /\ gameIdx' = gameIdx /\ shown' = shown /\ filtered' = filtered /\ filter' = filter
    BY <1>15 DEF Move, modeVars, pickVars
  <2>2. cursor' \in Nat /\ (filtered # <<>> => cursor' \in Places)
    <3>1. CASE filtered # <<>>
      <4>1. /\ \A c \in Int : moveCursor(c) \in Places
            /\ nextTurn(cursor) \in Places /\ prevTurn(cursor) \in Places
            /\ nextPhase(cursor) \in Places /\ prevPhase(cursor) \in Places
            /\ \A turn : jumpToTurn(turn, cursor) \in Places
            /\ 1 \in Places /\ Len(filtered) \in Places
        BY <1>5, <3>1, MovesStay
      <4>2. cursor - 1 \in Int /\ cursor + 1 \in Int
        BY <1>6
      <4>3. moveCursor(cursor - 1) \in Places /\ moveCursor(cursor + 1) \in Places
        BY <4>1, <4>2
      <4>4. cursor' \in Places
        BY <1>15, <4>1, <4>3 DEF Move
      <4>5. cursor' \in Nat
        BY <4>4 DEF Places
      <4> QED
        BY <4>4, <4>5
    <3>2. CASE filtered = <<>>
      <4>1. \A c : moveCursor(c) = 0
        BY <3>2 DEF moveCursor
      <4>2. cursor' = 0 \/ cursor' = 1
        BY <1>15, <3>2, <4>1 DEF Move
      <4> QED
        BY <3>2, <4>2
    <3> QED
      BY <3>1, <3>2
  <2>3. View' /\ Chosen(replay)'
    BY <1>5, <1>6, <2>1, <2>2 DEF View, Chosen, StepsOf, Places
  <2> QED
    BY <1>3, <1>5, <1>8, <2>1, <2>3 DEF ReplayInv, ViewOK
<1>16. CASE Refilter
  <2>1. PICK f \in Filters \cup {ALL} : rebuildFiltered(shown, f, cursor)
    BY <1>16 DEF Refilter
  <2>2. UNCHANGED modeVars /\ replay' = replay /\ picking' = picking /\ gameCursor' = gameCursor
        /\ gameIdx' = gameIdx
    BY <1>16 DEF Refilter, modeVars, pickVars
  <2> DEFINE ss == shown
             at == cursor
  <2>3. ss \in Seq(StepType) /\ at \in Int /\ rebuildFiltered(ss, f, at) /\ gameIdx' \in Nat
    BY <1>6, <2>1, <2>2
  <2> HIDE DEF ss, at
  <2>4. View' /\ shown' = ss
    BY <2>3, Rebuilt
  <2>5. Chosen(replay)'
    BY <1>5, <2>2, <2>4 DEF Chosen, StepsOf, ss
  <2> QED
    BY <1>3, <1>5, <1>8, <2>2, <2>4, <2>5 DEF ReplayInv, ViewOK
<1>17. CASE Quit
  <2>1. UNCHANGED <<replay, store, source, embedded, loadErr, notice, pickVars, viewVars>>
    BY <1>17 DEF Quit
  <2>2. ViewOK'
    BY <1>7, <2>1
  <2>3. ModeOK'
    BY <1>4, <1>9, <2>1
  <2> QED
    BY <1>3, <2>2, <2>3 DEF ReplayInv
<1> QED
  BY <1>10, <1>11, <1>12, <1>13, <1>14, <1>15, <1>16, <1>17

\* Every step keeps the invariant.
LEMMA ReplayStep == ReplayInv /\ [ReplayNext]_replayVars => ReplayInv'
<1> SUFFICES ASSUME ReplayInv, [ReplayNext]_replayVars PROVE ReplayInv'
  OBVIOUS
<1>1. LoadOK /\ ModeOK /\ ViewOK
  BY DEF ReplayInv
<1>2. CASE ReadLine \/ NextFile \/ FinishLoad
  <2>1. /\ LoadOK' /\ stage' \in {"loading", "loaded"}
        /\ UNCHANGED <<replay, store, source, embedded, loadErr, notice, pickVars, viewVars>>
    BY <1>1, <1>2, LoaderSteps, Zenon
  <2>2. ModeOK'
    BY <1>1, <2>1 DEF ModeOK, Fits
  <2>3. ViewOK'
    BY <1>1, <2>1 DEF ViewOK, View, Chosen, pickVars, viewVars, StepsOf
  <2> QED
    BY <2>1, <2>2, <2>3 DEF ReplayInv
<1>3. CASE OpenLogs \/ OpenStore
  BY <1>3, OpenSteps
<1>4. CASE Reloaded \/ switchSource \/ Dismiss \/ PickGame \/ OpenPicker \/ Move \/ Refilter \/ Quit
  BY <1>4, KeySteps, Zenon
<1>5. CASE UNCHANGED replayVars
  <2>1. /\ log' = log /\ files' = files /\ parser' = parser /\ accum' = accum
        /\ gameStepStart' = gameStepStart /\ steps' = steps /\ games' = games
        /\ events' = events /\ early' = early /\ stage' = stage
    BY <1>5 DEF replayVars, loadVars, modeVars
  <2>2. UNCHANGED <<replay, store, source, embedded, loadErr, notice, pickVars, viewVars>>
    BY <1>5 DEF replayVars, modeVars
  <2>3. LoadOK'
    <3>1. Built' = Built
      BY <2>1 DEF Built
    <3>2. GamesExact'
      <4>1. GamesExact
        BY <1>1 DEF LoadOK
      <4>2. \A lo : EndOf(lo)' = EndOf(lo)
        BY <2>1, Zenon DEF EndOf
      <4> QED
        BY <2>1, <4>1, <4>2 DEF GamesExact
    <3> QED
      BY <1>1, <2>1, <3>1, <3>2 DEF LoadOK, GamesInv, Whole, Calm, Ranges
  <2>4. ModeOK'
    BY <1>1, <2>1, <2>2 DEF ModeOK, Fits
  <2>5. ViewOK'
    BY <1>1, <2>2 DEF ViewOK, View, Chosen, pickVars, viewVars, StepsOf
  <2> QED
    BY <2>3, <2>4, <2>5 DEF ReplayInv
<1> QED
  BY <1>2, <1>3, <1>4, <1>5 DEF ReplayNext

\* The invariant holds in every state of the specification.
LEMMA ReplayHolds == ReplaySpec => []ReplayInv
BY InitOK, ReplayStep, PTL DEF ReplaySpec

\* Every variable of the loader and of the browser keeps its type.
THEOREM ReplayTypeCorrect == ReplaySpec => []ReplayTypeOK
<1>1. ReplayInv => ReplayTypeOK
  BY DEF ReplayInv, LoadOK, ModeOK, ViewOK, View, Fits, ReplayTypeOK
<1> QED
  BY <1>1, ReplayHolds, PTL

\* The games of a replay are those of the logs, each from its start to its end.
THEOREM GamesExactHolds == ReplaySpec => []GamesExact
<1>1. ReplayInv => GamesExact
  BY DEF ReplayInv, LoadOK
<1> QED
  BY <1>1, ReplayHolds, PTL

\* The cursor is on a step that matches the filter, of the selected game.
THEOREM ShownStepHolds == ReplaySpec => []ShownStep
<1>1. ReplayInv => ShownStep
  BY DEF ReplayInv, ViewOK, View, Chosen, ShownStep, Places
<1> QED
  BY <1>1, ReplayHolds, PTL

-----------------------------------------------------------------------------
(* Replay: the raw lines *)

\* The lines kept, step by step.
Sums(ss, to) ==
  /\ to \in [0..Len(ss) -> Nat] /\ to[0] = 0
  /\ \A k \in 1..Len(ss) : to[k] = to[k - 1] + Kept(ss[k])

\* There is one such function, and KeptTo is it.
LEMMA KeptToIs ==
  ASSUME NEW ss \in Seq(StepType), NEW to, Sums(ss, to)
  PROVE  KeptTo(ss) = to
<1> DEFINE n    == Len(ss)
           F(g) == [k \in 0..n |-> IF k = 0 THEN 0 ELSE g[k - 1] + Kept(ss[k])]
           t    == CHOOSE g : g = F(g)
<1>0. n \in Nat
  OBVIOUS
<1>1. KeptTo(ss) = t
  BY Zenon DEF KeptTo
<1>2. /\ to \in [0..n -> Nat] /\ to[0] = 0
      /\ \A k \in 1..n : to[k] = to[k - 1] + Kept(ss[k])
  BY DEF Sums
<1> HIDE DEF n
<1>3. to = F(to)
  <2>1. \A k \in 0..n : k # 0 => k \in 1..n
    BY <1>0
  <2>2. \A k \in 0..n : to[k] = IF k = 0 THEN 0 ELSE to[k - 1] + Kept(ss[k])
    BY <1>2, <2>1
  <2> QED
    BY <1>2, <2>2
<1>4. t = F(t)
  <2> HIDE DEF F
  <2> QED
    BY <1>3
<1> HIDE DEF t
<1>5. /\ t[0] = 0 /\ \A k \in 1..n : t[k] = t[k - 1] + Kept(ss[k])
  <2>1. \A k \in 0..n : t[k] = IF k = 0 THEN 0 ELSE t[k - 1] + Kept(ss[k])
    BY <1>4
  <2>2. 0 \in 0..n /\ \A k \in 1..n : k \in 0..n /\ k # 0
    BY <1>0
  <2> QED
    BY <2>1, <2>2
<1>6. \A k \in 0..n : t[k] = to[k]
  <2> DEFINE T == {k \in 0..n : t[k] = to[k]}
  <2>1. 0 \in T
    BY <1>0, <1>2, <1>5
  <2>2. \A k \in 1..n : k - 1 \in T => k \in T
    <3> SUFFICES ASSUME NEW k \in 1..n, t[k - 1] = to[k - 1] PROVE k \in T
      OBVIOUS
    <3>1. k \in 0..n
      BY <1>0
    <3>2. t[k] = to[k]
      BY <1>2, <1>5
    <3> QED
      BY <3>1, <3>2
  <2>3. \A k \in 0..n : k \in T
    <3> HIDE DEF T
    <3> QED
      BY <1>0, <2>1, <2>2, UpTo
  <2> QED
    BY <2>3
<1>7. t = [k \in 0..n |-> t[k]]
  BY <1>4
<1> QED
  BY <1>1, <1>2, <1>6, <1>7

\* Lines that follow one another, after the first so many.
Follow(s, base) == \A j \in 1..Len(s) : s[j] = base + j

\* They stay so when the oldest are dropped.
CappedFollow(c, raw, dropped, ls, base) ==
  /\ c.raw \in Seq(Nat) /\ c.dropped \in Nat
  /\ Len(c.raw) + c.dropped = Len(raw) + dropped + Len(ls)
  /\ Follow(c.raw, base + c.dropped)

\* Lines that follow each other do so once the oldest are dropped, from a later start.
LEMMA CappedLines ==
  ASSUME NEW raw \in Seq(Nat), NEW dropped \in Nat, NEW ls \in Seq(Nat), NEW base \in Nat,
         Follow(raw, base + dropped), Follow(ls, base + dropped + Len(raw))
  PROVE  CappedFollow(Capped(raw, dropped, ls), raw, dropped, ls, base)
<1> DEFINE all  == raw \o ls
           n    == Len(all)
           over == Max({0, n - MaxRaw})
           rest == SubSeq(all, over + 1, n)
<1>1. MaxRaw \in Nat /\ MaxRaw > 0
  BY ReplayAssumption
<1>2. Len(raw) \in Nat /\ Len(ls) \in Nat /\ all \in Seq(Nat) /\ n = Len(raw) + Len(ls)
  OBVIOUS
<1>3. \A j \in 1..n : all[j] = base + dropped + j
  <2> TAKE j \in 1..n
  <2>1. CASE j <= Len(raw)
    <3>1. all[j] = raw[j] /\ j \in 1..Len(raw)
      BY <1>2, <2>1
    <3> QED
      BY <3>1 DEF Follow
  <2>2. CASE ~(j <= Len(raw))
    <3> DEFINE k == j - Len(raw)
    <3>1. all[j] = ls[k] /\ k \in 1..Len(ls)
      BY <1>2, <2>2
    <3>2. ls[k] = base + dropped + Len(raw) + k
      BY <3>1 DEF Follow
    <3> QED
      BY <1>2, <3>1, <3>2
  <2> QED
    BY <2>1, <2>2
<1> HIDE DEF all
<1>4. n \in Nat
  BY <1>2
<1> HIDE DEF n
<1>5. over \in Nat /\ over <= n
  <2>1. 0 \in Int /\ n - MaxRaw \in Int
    BY <1>1, <1>4
  <2>2. over \in {0, n - MaxRaw} /\ over >= 0
    BY <2>1, MaxOfTwo
  <2> HIDE DEF over
  <2> QED
    BY <1>1, <1>4, <2>2
<1>6. Capped(raw, dropped, ls) = [raw |-> rest, dropped |-> dropped + over]
  BY Zenon DEF Capped, rest, over, all, n
<1> HIDE DEF over
<1>7. rest \in Seq(Nat) /\ Len(rest) = n - over /\ \A j \in 1..(n - over) : rest[j] = all[over + j]
  <2>1. all \in Seq(Nat) /\ Len(all) = n
    BY <1>2 DEF n
  <2> QED
    BY <1>4, <1>5, <2>1
<1> HIDE DEF rest
<1>8. \A j \in 1..Len(rest) : rest[j] = base + (dropped + over) + j
  <2> TAKE j \in 1..Len(rest)
  <2>1. j \in 1..(n - over) /\ over + j \in 1..n
    BY <1>4, <1>5, <1>7
  <2>2. rest[j] = all[over + j] /\ all[over + j] = base + dropped + (over + j)
    BY <1>3, <1>7, <2>1
  <2> QED
    BY <1>5, <2>1, <2>2
<1>9. Len(rest) + (dropped + over) = Len(raw) + dropped + Len(ls)
  BY <1>2, <1>4, <1>5, <1>7
<1>10. dropped + over \in Nat
  BY <1>5
<1> DEFINE d == dropped + over
<1> HIDE DEF d
<1>11. Capped(raw, dropped, ls) = [raw |-> rest, dropped |-> d]
  BY <1>6 DEF d
<1> QED
  BY <1>7, <1>8, <1>9, <1>10, <1>11 DEF d, CappedFollow, Follow

\* Each step's lines follow those of the step before, and what accumulates follows
\* the last: n lines in all.
LinesAre(b, n, to) ==
  /\ Sums(b.steps, to)
  /\ b.early + to[Len(b.steps)] + Len(b.accum) = n
  /\ \A j \in 1..Len(b.accum) : b.accum[j] = b.early + to[Len(b.steps)] + j
  /\ \A k \in 1..Len(b.steps) : \A j \in 1..Len(b.steps[k].raw) :
       b.steps[k].raw[j] = b.early + to[k - 1] + b.steps[k].dropped + j
InLine(n) == {b \in BuiltType : \E to : LinesAre(b, n, to)}

\* Merging what accumulates into the last step keeps every line.
LEMMA InLineFold ==
  ASSUME NEW n \in Nat, NEW b \in InLine(n)
  PROVE  foldAccum(b) \in InLine(n)
<1>1. b \in BuiltType
  BY DEF InLine
<1>2. PICK to : LinesAre(b, n, to)
  BY DEF InLine
<1> DEFINE ss == b.steps
           m  == Len(ss)
           ac == b.accum
           ea == b.early
<1>3. /\ ss \in Seq(StepType) /\ ac \in Seq(Nat) /\ ea \in Nat /\ m \in Nat /\ Len(ac) \in Nat
  BY <1>1, MakeIs
<1>4. /\ to \in [0..m -> Nat] /\ to[0] = 0
      /\ \A k \in 1..m : to[k] = to[k - 1] + Kept(ss[k])
      /\ ea + to[m] + Len(ac) = n
      /\ \A j \in 1..Len(ac) : ac[j] = ea + to[m] + j
      /\ \A k \in 1..m : \A j \in 1..Len(ss[k].raw) :
           ss[k].raw[j] = ea + to[k - 1] + ss[k].dropped + j
  BY <1>2 DEF LinesAre, Sums
<1>5. foldAccum(b) \in BuiltType
  BY <1>1, BuildTypes
<1>20. /\ ss # <<>> => m \in 1..m /\ Same(ss, Topped(ss, ac))
                     /\ Topped(ss, ac)[m].raw = Capped(ss[m].raw, ss[m].dropped, ac).raw
                     /\ Topped(ss, ac)[m].dropped = Capped(ss[m].raw, ss[m].dropped, ac).dropped
                     /\ \A i \in 1..(m - 1) : Topped(ss, ac)[i] = ss[i]
       /\ ss # <<>> => foldAccum(b) = Make(Topped(ss, ac), b.games, b.start, <<>>, ea)
  BY <1>1, <1>3, FoldIs, ToppedIs
<1>21. ss # <<>> => ss[m] \in StepType
  BY <1>3
<1>22. Len(ss) = m /\ b.steps = ss
  OBVIOUS
<1>6. CASE ss = <<>>
  <2>1. foldAccum(b) = Make(ss, b.games, b.start, <<>>, ea + Len(ac))
    BY <1>1, <1>6, FoldIs
  <2> DEFINE c == foldAccum(b)
             more == ea + Len(ac)
  <2>2. c.steps = ss /\ c.accum = <<>> /\ c.early = more
    BY <2>1 DEF Make
  <2>3. Len(c.accum) = 0 /\ m = 0 /\ Len(c.steps) = 0
    BY <1>6, <2>2
  <2>4. Sums(c.steps, to)
    BY <1>2, <2>2 DEF LinesAre
  <2>5. c.early + to[Len(c.steps)] + Len(c.accum) = n
    BY <1>3, <1>4, <2>2, <2>3
  <2>6. LinesAre(c, n, to)
    BY <2>3, <2>4, <2>5 DEF LinesAre
  <2> QED
    BY <1>5, <2>6 DEF InLine
<1>7. CASE ss # <<>>
  <2> DEFINE c   == Capped(ss[m].raw, ss[m].dropped, ac)
             new == Topped(ss, ac)
             to2 == [to EXCEPT ![m] = to[m] + Len(ac)]
             d   == foldAccum(b)
  <2>1. foldAccum(b) = Make(new, b.games, b.start, <<>>, ea)
    BY <1>7, <1>20
  <2>2. /\ m \in 1..m /\ Same(ss, new)
        /\ new[m].raw = c.raw /\ new[m].dropped = c.dropped
        /\ \A i \in 1..(m - 1) : new[i] = ss[i]
    BY <1>7, <1>20
  <2>3. ss[m] \in StepType
    BY <1>7, <1>21
  <2> HIDE DEF ss, m, ac, ea, c, new
  <2>4. ss[m].raw \in Seq(Nat) /\ ss[m].dropped \in Nat
    BY <2>3 DEF StepType
  <2> DEFINE base == ea + to[m - 1]
             raw  == ss[m].raw
             drop == ss[m].dropped
  <2>5. m - 1 \in 0..m /\ m \in 0..m /\ to[m - 1] \in Nat /\ to[m] \in Nat
    BY <1>3, <1>4, <2>2
  <2>6. to[m] = to[m - 1] + (Len(raw) + drop)
    BY <1>4, <2>2 DEF Kept
  <2> HIDE DEF raw, drop
  <2>7. raw \in Seq(Nat) /\ drop \in Nat /\ Len(raw) \in Nat /\ base \in Nat
    <3>1. raw \in Seq(Nat) /\ drop \in Nat
      BY <2>4, Zenon DEF raw, drop
    <3>2. Len(raw) \in Nat
      BY <3>1
    <3> DEFINE y == to[m - 1]
    <3>3. y \in Nat /\ ea \in Nat
      BY <1>3, <2>5, Zenon
    <3> HIDE DEF y
    <3>4. ea + y \in Nat
      BY <3>3
    <3> QED
      BY <3>1, <3>2, <3>4, Zenon DEF y
  <2>23. base + Len(raw) + drop = ea + to[m]
    <3> DEFINE y == to[m - 1]
               z == to[m]
               l == Len(raw)
    <3>1. y \in Nat /\ ea \in Nat /\ l \in Nat /\ drop \in Nat /\ z = y + (l + drop) /\ base = ea + y
      BY <1>3, <2>5, <2>6, <2>7, Zenon
    <3> HIDE DEF y, z, l, base
    <3>2. base + l + drop = ea + z
      BY <3>1
    <3> QED
      BY <3>2, Zenon DEF l, z
  <2>8. \A j \in 1..Len(raw) : raw[j] = base + drop + j
    BY <1>4, <2>2 DEF raw, drop
  <2> HIDE DEF base
  <2>9. \A j \in 1..Len(ac) : ac[j] = base + drop + Len(raw) + j
    <3> TAKE j \in 1..Len(ac)
    <3>1. ac[j] = (ea + to[m]) + j
      BY <1>4
    <3> QED
      BY <2>7, <2>23, <3>1
  <2>10. c = Capped(raw, drop, ac)
    BY DEF raw, drop, c
  <2>11. /\ c.raw \in Seq(Nat) /\ c.dropped \in Nat
         /\ Len(c.raw) + c.dropped = Len(raw) + drop + Len(ac)
         /\ \A j \in 1..Len(c.raw) : c.raw[j] = base + c.dropped + j
    <3> DEFINE x == Capped(raw, drop, ac)
    <3>1. ac \in Seq(Nat)
      BY <1>3
    <3>2. /\ x.raw \in Seq(Nat) /\ x.dropped \in Nat
          /\ Len(x.raw) + x.dropped = Len(raw) + drop + Len(ac)
          /\ \A j \in 1..Len(x.raw) : x.raw[j] = base + x.dropped + j
      <4>1. Follow(raw, base + drop) /\ Follow(ac, base + drop + Len(raw))
        BY <2>8, <2>9 DEF Follow
      <4>2. CappedFollow(x, raw, drop, ac, base)
        BY <2>7, <3>1, <4>1, CappedLines, Zenon
      <4> HIDE DEF x
      <4> QED
        BY <4>2 DEF CappedFollow, Follow
    <3> QED
      BY <2>10, <3>2
  <2>12. d.steps = new /\ d.accum = <<>> /\ d.early = ea
    BY <2>1 DEF Make
  <2>13. Len(new) = m /\ Len(d.accum) = 0
    BY <1>22, <2>2, <2>12 DEF Same
  <2>14. Len(ac) \in Nat /\ ea \in Nat
    BY <1>3
  <2>15. /\ to2 \in [0..m -> Nat] /\ to2[m] = to[m] + Len(ac)
         /\ \A k \in 0..m : k # m => to2[k] = to[k]
    BY <1>4, <2>5, <2>14
  <2> HIDE DEF to2
  <2>16. \A k \in 1..(m - 1) : to2[k] = to[k] /\ to2[k - 1] = to[k - 1] /\ k \in 1..m /\ k - 1 \in 0..m
    BY <1>3, <2>15
  <2>17. to2[0] = 0 /\ to2[m - 1] = to[m - 1]
    BY <1>3, <1>4, <2>2, <2>5, <2>15
  <2>18. \A k \in 1..m : to2[k] = to2[k - 1] + Kept(new[k])
    <3> TAKE k \in 1..m
    <3>1. CASE k = m
      <4>1. Kept(new[m]) = Len(c.raw) + c.dropped
        BY <2>2 DEF Kept
      <4>2. to[m] + Len(ac) = to[m - 1] + (Len(raw) + drop + Len(ac))
        BY <2>5, <2>6, <2>7, <2>14
      <4> QED
        BY <2>11, <2>15, <2>17, <3>1, <4>1, <4>2
    <3>2. CASE k # m
      <4>1. k \in 1..(m - 1)
        BY <1>3, <3>2
      <4>2. new[k] = ss[k] /\ to[k] = to[k - 1] + Kept(ss[k])
        BY <1>4, <2>2, <4>1
      <4> QED
        BY <2>16, <4>1, <4>2
    <3> QED
      BY <3>1, <3>2
  <2>19. Sums(new, to2)
    BY <2>13, <2>15, <2>17, <2>18 DEF Sums
  <2>20. \A k \in 1..m : \A j \in 1..Len(new[k].raw) :
           new[k].raw[j] = ea + to2[k - 1] + new[k].dropped + j
    <3> TAKE k \in 1..m
    <3>1. CASE k = m
      <4>1. \A j \in 1..Len(c.raw) : c.raw[j] = base + c.dropped + j
        BY <2>11
      <4>2. base = ea + to2[m - 1]
        BY <2>17 DEF base
      <4> QED
        BY <2>2, <3>1, <4>1, <4>2
    <3>2. CASE k # m
      <4>1. k \in 1..(m - 1)
        BY <1>3, <3>2
      <4>2. new[k] = ss[k] /\ to2[k - 1] = to[k - 1]
        BY <2>2, <2>16, <4>1
      <4> QED
        BY <1>4, <4>2
    <3> QED
      BY <3>1, <3>2
  <2>21. ea + to2[m] + 0 = n
    <3>1. ea + to[m] + Len(ac) = n
      BY <1>4
    <3> QED
      BY <2>5, <2>14, <2>15, <3>1
  <2> HIDE DEF d
  <2>22. LinesAre(d, n, to2)
    BY <2>12, <2>13, <2>19, <2>20, <2>21 DEF LinesAre
  <2> QED
    BY <1>5, <2>22 DEF InLine, d
<1> QED
  BY <1>6, <1>7

\* A new step keeps every line.
LEMMA InLineAppend ==
  ASSUME NEW n \in Nat, NEW b \in InLine(n), NEW e \in EventType, NEW effect \in EffectType
  PROVE  AppendStep(b, e, effect) \in InLine(n)
<1>1. b \in BuiltType
  BY DEF InLine
<1>2. PICK to : LinesAre(b, n, to)
  BY DEF InLine
<1> DEFINE ss == b.steps
           m  == Len(ss)
           ac == b.accum
           ea == b.early
           s  == NewStep(b, e, effect)
           new == Append(ss, s)
           none == <<>>
           c  == Capped(none, 0, ac)
           d  == AppendStep(b, e, effect)
           to2 == [k \in 0..(m + 1) |-> IF k = m + 1 THEN to[m] + Len(ac) ELSE to[k]]
<1>3. /\ ss \in Seq(StepType) /\ ac \in Seq(Nat) /\ ea \in Nat /\ m \in Nat /\ Len(ac) \in Nat
  BY <1>1, MakeIs
<1>4. /\ to \in [0..m -> Nat] /\ to[0] = 0
      /\ \A k \in 1..m : to[k] = to[k - 1] + Kept(ss[k])
      /\ ea + to[m] + Len(ac) = n
      /\ \A j \in 1..Len(ac) : ac[j] = ea + to[m] + j
      /\ \A k \in 1..m : \A j \in 1..Len(ss[k].raw) :
           ss[k].raw[j] = ea + to[k - 1] + ss[k].dropped + j
  BY <1>2 DEF LinesAre, Sums
<1>5. d \in BuiltType
  BY <1>1, BuildTypes
<1>6. s \in StepType /\ s.raw = c.raw /\ s.dropped = c.dropped
  BY <1>1, NewStepTypes
<1>7. d.steps = new /\ d.accum = none /\ d.early = ea
  <2>1. \E gs, st : d = Make(new, gs, st, none, ea)
    BY <1>1, AppendIs
  <2> HIDE DEF d, new, none, ea
  <2> QED
    BY <2>1 DEF Make
<1>19. Len(ss) = m /\ b.steps = ss
  OBVIOUS
<1> HIDE DEF s, d
<1>8. /\ new \in Seq(StepType) /\ Len(new) = m + 1 /\ new[m + 1] = s
      /\ \A k \in 1..m : new[k] = ss[k]
  BY <1>3, <1>6
<1>9. none \in Seq(Nat) /\ Len(none) = 0
  OBVIOUS
<1> HIDE DEF none, ss, ac, ea
<1>10. m \in 0..m /\ to[m] \in Nat
  BY <1>3, <1>4
<1> DEFINE base == ea + to[m]
<1>11. base \in Nat
  BY <1>3, <1>10
<1>12. /\ c.raw \in Seq(Nat) /\ c.dropped \in Nat
       /\ Len(c.raw) + c.dropped = Len(none) + 0 + Len(ac)
       /\ \A j \in 1..Len(c.raw) : c.raw[j] = base + c.dropped + j
  <2>1. \A j \in 1..Len(none) : none[j] = base + 0 + j
    BY <1>9
  <2>2. \A j \in 1..Len(ac) : ac[j] = base + 0 + Len(none) + j
    <3> TAKE j \in 1..Len(ac)
    <3>1. ac[j] = base + j
      BY <1>4
    <3> HIDE DEF base
    <3> QED
      BY <1>9, <1>11, <3>1
  <2>3. 0 \in Nat
    OBVIOUS
  <2> DEFINE zero == 0
             x == Capped(none, zero, ac)
  <2> HIDE DEF base, zero
  <2>4. /\ x.raw \in Seq(Nat) /\ x.dropped \in Nat
        /\ Len(x.raw) + x.dropped = Len(none) + zero + Len(ac)
        /\ \A j \in 1..Len(x.raw) : x.raw[j] = base + x.dropped + j
    <3>1. none \in Seq(Nat) /\ zero \in Nat /\ ac \in Seq(Nat) /\ base \in Nat
      BY <1>3, <1>9, <1>11 DEF zero
    <3>2. /\ \A j \in 1..Len(none) : none[j] = base + zero + j
          /\ \A j \in 1..Len(ac) : ac[j] = base + zero + Len(none) + j
      BY <2>1, <2>2 DEF zero
    <3> QED
      <4>1. Follow(none, base + zero) /\ Follow(ac, base + zero + Len(none))
        BY <3>2 DEF Follow
      <4>2. CappedFollow(x, none, zero, ac, base)
        BY <3>1, <4>1, CappedLines, Zenon
      <4> HIDE DEF x
      <4> QED
        BY <4>2 DEF CappedFollow, Follow
  <2> QED
    BY <2>4 DEF zero
<1> HIDE DEF c, new
<1>13. /\ to2 \in [0..(m + 1) -> Nat] /\ to2[m + 1] = to[m] + Len(ac)
       /\ \A k \in 0..m : to2[k] = to[k]
  BY <1>3, <1>4, <1>10
<1> HIDE DEF to2, m
<1>14. \A k \in 1..(m + 1) : to2[k] = to2[k - 1] + Kept(new[k])
  <2> TAKE k \in 1..(m + 1)
  <2>1. CASE k = m + 1
    <3>1. Kept(new[k]) = Len(c.raw) + c.dropped
      BY <1>6, <1>8, <2>1 DEF Kept
    <3>2. Len(c.raw) + c.dropped = Len(ac)
      BY <1>3, <1>9, <1>12
    <3>3. k - 1 = m /\ to2[m] = to[m]
      BY <1>3, <1>10, <1>13, <2>1
    <3> QED
      BY <1>13, <2>1, <3>1, <3>2, <3>3
  <2>2. CASE k # m + 1
    <3>1. k \in 1..m /\ k \in 0..m /\ k - 1 \in 0..m
      BY <1>3, <2>2
    <3> QED
      BY <1>4, <1>8, <1>13, <3>1
  <2> QED
    BY <2>1, <2>2
<1>15. Sums(new, to2)
  <2>1. to2[0] = 0
    BY <1>3, <1>4, <1>13
  <2> QED
    BY <1>8, <1>13, <1>14, <2>1 DEF Sums
<1>16. \A k \in 1..(m + 1) : \A j \in 1..Len(new[k].raw) :
         new[k].raw[j] = ea + to2[k - 1] + new[k].dropped + j
  <2> TAKE k \in 1..(m + 1)
  <2>1. CASE k = m + 1
    <3>1. k - 1 = m /\ to2[m] = to[m]
      BY <1>3, <1>10, <1>13, <2>1
    <3>2. new[k].raw = c.raw /\ new[k].dropped = c.dropped
      BY <1>6, <1>8, <2>1
    <3> QED
      BY <1>12, <3>1, <3>2
  <2>2. CASE k # m + 1
    <3>1. k \in 1..m /\ k - 1 \in 0..m
      BY <1>3, <2>2
    <3>2. new[k] = ss[k] /\ to2[k - 1] = to[k - 1]
      BY <1>8, <1>13, <3>1
    <3> QED
      BY <1>4, <3>1, <3>2
  <2> QED
    BY <2>1, <2>2
<1>17. ea + to2[m + 1] + 0 = n
  BY <1>3, <1>4, <1>10, <1>13
<1>18. LinesAre(d, n, to2)
  BY <1>7, <1>8, <1>9, <1>15, <1>16, <1>17 DEF LinesAre
<1> QED
  BY <1>5, <1>18 DEF InLine, d

\* What is built is what Build was given.
LEMMA BuildIs ==
  ASSUME NEW b \in BuiltType, Build(b)
  PROVE  Built' = b
<1>1. b = Make(b.steps, b.games, b.start, b.accum, b.early)
  BY MakeIs, Zenon
<1>2. Built' = Make(b.steps, b.games, b.start, b.accum, b.early)
  BY DEF Build, Built, Make
<1> QED
  BY <1>1, <1>2

\* A line is read, the events are taken: every line is kept, or accumulates.
LEMMA InLineKept ==
  ASSUME NEW n \in Nat, NEW b \in InLine(n), NEW es \in Seq(EventType)
  PROVE  DrainAll(b, es) \subseteq InLine(n)
<1> DEFINE T == InLine(n)
<1>1. /\ T \in SUBSET BuiltType
      /\ \A a \in T : foldAccum(a) \in T
      /\ \A a \in T, e \in EventType, effect \in EffectType : AppendStep(a, e, effect) \in T
  <2>1. T \in SUBSET BuiltType
    BY DEF InLine
  <2> HIDE DEF EventType, EffectType
  <2> QED
    BY <2>1, InLineFold, InLineAppend, Zenon
<1>2. b \in T
  OBVIOUS
<1> HIDE DEF T, EventType, EffectType
<1>3. DrainAll(b, es) \subseteq T
  BY <1>1, <1>2, DrainKeeps, Zenon
<1> QED
  BY <1>3 DEF T

\* While the logs are read, and once they are, every line is in line.
LinesOK == stage \in {"loading", "loaded"} => Built \in InLine(Len(log))

\* Every step keeps the lines in line.
LEMMA LinesStep ==
  ASSUME LoadOK, LoadOK', LinesOK, [ReplayNext]_replayVars
  PROVE  LinesOK'
<1>1. log \in Seq(LineKind) /\ parser \in ParserType /\ Built \in BuiltType /\ Len(log) \in Nat
  BY DEF LoadOK
<1>2. CASE ReadLine
  <2>1. PICK kind \in LineKind :
          LET fed == Feed(parser, Len(log) + 1, kind)
          IN  /\ log' = Append(log, kind)
              /\ \E b \in DrainAll([Built EXCEPT !.accum = Append(@, Len(log) + 1)], fed.events) : Build(b)
    BY <1>2 DEF ReadLine
  <2> DEFINE n    == Len(log)
             i    == n + 1
             es   == Feed(parser, i, kind).events
             more == [Built EXCEPT !.accum = Append(@, i)]
  <2>2. Built \in InLine(n)
    BY <1>2 DEF ReadLine, LinesOK
  <2>3. Len(log') = i
    BY <1>1, <2>1
  <2>4. n \in Nat /\ i \in Nat
    BY <1>1
  <2> HIDE DEF n
  <2>5. es \in Seq(EventType)
    <3>1. Feed(parser, i, kind) \in WithType
      BY <1>1, <2>4, FeedTypes, Zenon
    <3> QED
      BY <3>1, WithHas, Zenon
  <2>6. \E b \in DrainAll(more, es) : Build(b)
    BY <2>1, Zenon DEF n
  <2>7. /\ steps \in Seq(StepType) /\ games \in Seq(GameType) /\ gameStepStart \in Nat
        /\ accum \in Seq(Nat) /\ early \in Nat
        /\ Built = Make(steps, games, gameStepStart, accum, early)
    BY <1>1, BuiltIs, Zenon
  <2>8. more = Make(steps, games, gameStepStart, Append(accum, i), early)
    BY <1>1, <2>4, BuiltIs, Zenon
  <2>9. more \in InLine(i)
    <3>1. PICK to : LinesAre(Built, n, to)
      BY <2>2 DEF InLine
    <3> DEFINE m == Len(steps)
               a == Len(accum)
               new == Append(accum, i)
    <3>2. /\ Sums(steps, to) /\ early + to[m] + a = n
          /\ \A j \in 1..a : accum[j] = early + to[m] + j
          /\ \A k \in 1..m : \A j \in 1..Len(steps[k].raw) :
               steps[k].raw[j] = early + to[k - 1] + steps[k].dropped + j
      BY <3>1 DEF LinesAre, Built
    <3>3. new \in Seq(Nat) /\ Len(new) = a + 1 /\ new[a + 1] = i /\ \A j \in 1..a : new[j] = accum[j]
      BY <2>4, <2>7
    <3>4. a \in Nat /\ m \in Nat
      BY <2>7
    <3>5. to[m] \in Nat
      BY <3>2, <3>4 DEF Sums
    <3>6. more \in BuiltType
      BY <2>7, <2>8, <3>3 DEF Make, BuiltType
    <3>7. more.steps = steps /\ more.accum = new /\ more.early = early
      BY <2>8 DEF Make
    <3> HIDE DEF more, i, new, a, m
    <3>8. \A j \in 1..(a + 1) : new[j] = early + to[m] + j
      <4> TAKE j \in 1..(a + 1)
      <4>1. CASE j = a + 1
        <5>1. new[j] = n + 1
          BY <3>3, <4>1 DEF i
        <5>2. early + to[m] + (a + 1) = n + 1
          <6> DEFINE y == to[m]
          <6>1. y \in Nat /\ early \in Nat /\ a \in Nat /\ early + y + a = n
            BY <2>7, <3>2, <3>4, <3>5, Zenon
          <6> HIDE DEF y
          <6>2. early + y + (a + 1) = n + 1
            BY <6>1
          <6> QED
            BY <6>2, Zenon DEF y
        <5> QED
          BY <4>1, <5>1, <5>2
      <4>2. CASE j # a + 1
        <5>1. j \in 1..a
          BY <3>4, <4>2
        <5> QED
          BY <3>2, <3>3, <5>1
      <4> QED
        BY <4>1, <4>2
    <3>9. early + to[m] + (a + 1) = i
      BY <2>4, <2>7, <3>2, <3>4, <3>5 DEF i
    <3>10. LinesAre(more, i, to)
      BY <3>2, <3>3, <3>7, <3>8, <3>9 DEF LinesAre, m
    <3> QED
      BY <3>6, <3>10 DEF InLine
  <2> HIDE DEF more, es, i
  <2>10. DrainAll(more, es) \subseteq InLine(i)
    BY <2>4, <2>5, <2>9, InLineKept
  <2>11. PICK b \in InLine(i) : Build(b)
    BY <2>6, <2>10
  <2>12. Built' = b
    BY <2>11, BuildIs DEF InLine
  <2>13. Built' \in InLine(Len(log'))
    BY <2>3, <2>11, <2>12
  <2> QED
    BY <2>13 DEF LinesOK, InLine
<1>3. CASE NextFile
  <2>1. Built \in InLine(Len(log))
    BY <1>3 DEF NextFile, LinesOK
  <2>2. Build(foldAccum(Built)) /\ log' = log
    BY <1>3 DEF NextFile
  <2> DEFINE n == Len(log)
             a == Built
             c == foldAccum(a)
  <2>3. n \in Nat /\ a \in InLine(n)
    BY <1>1, <2>1
  <2> HIDE DEF n, a
  <2>4. c \in InLine(n)
    BY <2>3, InLineFold, Zenon
  <2>5. Build(c)
    BY <2>2 DEF a
  <2> HIDE DEF c
  <2>6. Built' = c
    BY <2>4, <2>5, BuildIs DEF InLine
  <2>7. Built' \in InLine(Len(log'))
    BY <2>2, <2>4, <2>6 DEF n
  <2> QED
    BY <2>7 DEF LinesOK, InLine
<1>4. CASE FinishLoad
  <2>1. PICK b \in DrainAll(Built, Flushed.events) :
          Build([foldAccum(b) EXCEPT !.games = IF foldAccum(b).start = NoGame THEN @
                  ELSE Append(@, [lo |-> foldAccum(b).start, hi |-> Len(foldAccum(b).steps)])])
    BY <1>4 DEF FinishLoad
  <2>2. Built \in InLine(Len(log)) /\ log' = log
    BY <1>4 DEF FinishLoad, LinesOK
  <2> DEFINE n == Len(log)
             a == Built
             es == Flushed.events
  <2>3. n \in Nat /\ a \in InLine(n) /\ es \in Seq(EventType)
    <3>1. Flushed \in WithType
      BY <1>1, FlushTypes DEF Flushed
    <3> QED
      BY <1>1, <2>2, <3>1, WithHas
  <2>4. b \in DrainAll(a, es)
    OBVIOUS
  <2> HIDE DEF n, a, es
  <2>5. b \in InLine(n)
    BY <2>3, <2>4, InLineKept
  <2> DEFINE c == foldAccum(b)
             gs == IF c.start = NoGame THEN c.games
                     ELSE Append(c.games, [lo |-> c.start, hi |-> Len(c.steps)])
             d == Make(c.steps, gs, c.start, c.accum, c.early)
  <2>6. c \in InLine(n)
    BY <2>3, <2>5, InLineFold, Zenon
  <2>7. c \in BuiltType
    BY <2>6 DEF InLine
  <2>8. Build(d)
    <3>1. /\ c.steps \in Seq(StepType) /\ c.games \in Seq(GameType) /\ c.start \in Nat
          /\ c.accum \in Seq(Nat) /\ c.early \in Nat
          /\ c = Make(c.steps, c.games, c.start, c.accum, c.early)
      <4> HIDE DEF c
      <4> QED
        BY <2>7, MakeIs, Zenon
    <3> DEFINE q == [c EXCEPT !.games = IF c.start = NoGame THEN @
                  ELSE Append(@, [lo |-> c.start, hi |-> Len(c.steps)])]
    <3>2. Build(q)
      BY <2>1, Zenon
    <3> HIDE DEF c
    <3>3. q = [c EXCEPT !.games = gs]
      BY <3>1 DEF Make
    <3> HIDE DEF gs, q
    <3>4. [c EXCEPT !.games = gs] = Make(c.steps, gs, c.start, c.accum, c.early)
      <4> DEFINE w == Make(c.steps, c.games, c.start, c.accum, c.early)
      <4>1. [w EXCEPT !.games = gs] = Make(c.steps, gs, c.start, c.accum, c.early)
        BY DEF Make
      <4> QED
        BY <3>1, <4>1
    <3> QED
      BY <3>2, <3>3, <3>4
  <2> HIDE DEF c, gs
  <2>9. d.steps = c.steps /\ d.accum = c.accum /\ d.early = c.early
    BY DEF Make
  <2>10. /\ steps' = d.steps /\ accum' = d.accum /\ early' = d.early
    BY <2>8 DEF Build
  <2>11. Built'.steps = c.steps /\ Built'.accum = c.accum /\ Built'.early = c.early
    BY <2>9, <2>10 DEF Built
  <2>12. Built' \in BuiltType
    BY DEF LoadOK
  <2>13. PICK to : LinesAre(c, n, to)
    BY <2>6 DEF InLine
  <2> DEFINE e == Built'
  <2>14. e.steps = c.steps /\ e.accum = c.accum /\ e.early = c.early /\ e \in BuiltType
    BY <2>11, <2>12
  <2> HIDE DEF e
  <2>15. LinesAre(e, n, to)
    BY <2>13, <2>14 DEF LinesAre
  <2>16. e \in InLine(n)
    BY <2>14, <2>15 DEF InLine
  <2>17. Built' \in InLine(Len(log'))
    BY <2>2, <2>16 DEF e, n
  <2> QED
    BY <2>17 DEF LinesOK, InLine
<1>5. CASE stage' \notin {"loading", "loaded"}
  BY <1>5 DEF LinesOK
<1>6. CASE UNCHANGED <<loadVars, stage>>
  <2>1. Built' = Built /\ log' = log /\ stage' = stage
    BY <1>6 DEF Built, loadVars
  <2> QED
    BY <2>1 DEF LinesOK, InLine
<1>7. ReadLine \/ NextFile \/ FinishLoad \/ stage' \notin {"loading", "loaded"} \/ UNCHANGED <<loadVars, stage>>
  <2>1. CASE UNCHANGED replayVars
    BY <2>1 DEF replayVars, modeVars
  <2>2. CASE OpenLogs \/ OpenStore \/ Reloaded \/ switchSource \/ Dismiss \/ PickGame \/ OpenPicker
             \/ Move \/ Refilter \/ Quit
    BY <2>2 DEF OpenLogs, OpenStore, Reloaded, switchSource, Dismiss, PickGame, OpenPicker, Move,
                Refilter, Quit, Normal, Pressed, Picker, modeVars
  <2> QED
    BY <2>1, <2>2 DEF ReplayNext
<1> QED
  BY <1>2, <1>3, <1>4, <1>5, <1>6, <1>7

\* Every line read is in one step, in order, or counted among the dropped ones.
THEOREM LinesKeptHolds == ReplaySpec => []LinesKept
<1>1. ReplayInit => LinesOK
  <2> SUFFICES ASSUME ReplayInit PROVE Built \in InLine(Len(log))
    BY DEF LinesOK
  <2>1. steps = <<>> /\ accum = <<>> /\ early = 0 /\ log = <<>>
    BY DEF ReplayInit
  <2>2. Built \in BuiltType
    BY InitOK DEF ReplayInv, LoadOK
  <2> DEFINE to == [k \in 0..0 |-> 0]
  <2>3. to \in [0..0 -> Nat] /\ to[0] = 0
    OBVIOUS
  <2>4. Built.steps = <<>> /\ Built.accum = <<>> /\ Built.early = 0
    BY <2>1 DEF Built
  <2> DEFINE b == Built
             n == Len(log)
  <2>5. Len(b.steps) = 0 /\ Len(b.accum) = 0 /\ n = 0 /\ b.early = 0 /\ b \in BuiltType
    BY <2>1, <2>2, <2>4
  <2> HIDE DEF b, n, to
  <2>6. LinesAre(b, n, to)
    BY <2>3, <2>5 DEF LinesAre, Sums
  <2> QED
    BY <2>5, <2>6 DEF InLine, b, n
<1>2. ReplayInv /\ ReplayInv' /\ LinesOK /\ [ReplayNext]_replayVars => LinesOK'
  BY LinesStep DEF ReplayInv
<1>3. LinesOK => LinesKept
  <2> SUFFICES ASSUME LinesOK, stage \in {"loading", "loaded"}
               PROVE  /\ early + KeptTo(steps)[Len(steps)] + Len(accum) = Len(log)
                      /\ \A k \in 1..Len(steps) : \A j \in 1..Len(steps[k].raw) :
                           steps[k].raw[j] = early + KeptTo(steps)[k - 1] + steps[k].dropped + j
    BY DEF LinesKept
  <2>1. Built \in InLine(Len(log))
    BY DEF LinesOK
  <2>2. PICK to : LinesAre(Built, Len(log), to)
    BY <2>1 DEF InLine
  <2>3. /\ Sums(steps, to) /\ early + to[Len(steps)] + Len(accum) = Len(log)
        /\ \A k \in 1..Len(steps) : \A j \in 1..Len(steps[k].raw) :
             steps[k].raw[j] = early + to[k - 1] + steps[k].dropped + j
    BY <2>2 DEF LinesAre, Built
  <2>4. steps \in Seq(StepType)
    BY <2>1, BuiltIs DEF InLine
  <2>5. KeptTo(steps) = to
    BY <2>3, <2>4, KeptToIs
  <2> QED
    BY <2>3, <2>5
<1> QED
  BY <1>1, <1>2, <1>3, ReplayHolds, PTL DEF ReplaySpec

-----------------------------------------------------------------------------
(* Parser: what one more line does to what is said of the whole log *)

\* The lines that end no block.
Quiet == {"blockTag", "foreign"}

\* Line i is followed by tag lines and foreign lines alone.
Trailing(l, i) == \A k \in (i + 1)..Len(l) : l[k] \in Quiet

\* The line that ends a block is the first that is neither.
LEMMA EndsFirst ==
  ASSUME NEW l \in Seq(LineKind), NEW i \in 1..Len(l)
  PROVE  /\ Ends(l, i) = {} <=> Trailing(l, i)
         /\ \A j \in Ends(l, i) : Ends(l, i) = {j}
<1> DEFINE n == Len(l)
           Loud == {k \in (i + 1)..n : l[k] \notin Quiet}
<1>0. n \in Nat /\ i \in 1..n
  OBVIOUS
<1>1. Ends(l, i) = {j \in (i + 1)..n : l[j] \notin Quiet /\ \A k \in (i + 1)..(j - 1) : l[k] \in Quiet}
  BY DEF Ends, Passed, Quiet
<1>2. Trailing(l, i) <=> Loud = {}
  BY DEF Trailing
<1> HIDE DEF n
<1>3. ASSUME Loud # {} PROVE Ends(l, i) # {}
  <2>1. Loud \in SUBSET Nat
    BY <1>0
  <2> HIDE DEF Loud
  <2>2. PICK j \in Loud : \A y \in Loud : j <= y
    BY <1>3, <2>1, Least
  <2>3. j \in (i + 1)..n /\ l[j] \notin Quiet
    BY <2>2 DEF Loud
  <2>4. \A k \in (i + 1)..(j - 1) : l[k] \in Quiet
    <3> SUFFICES ASSUME NEW k \in (i + 1)..(j - 1), l[k] \notin Quiet PROVE FALSE
      OBVIOUS
    <3>1. k \in (i + 1)..n /\ ~(j <= k)
      BY <1>0, <2>3
    <3>2. k \in Loud
      BY <3>1 DEF Loud
    <3> QED
      BY <2>2, <3>1, <3>2
  <2> QED
    BY <1>1, <2>3, <2>4
<1>4. Loud = {} => Ends(l, i) = {}
  BY <1>1
<1>5. ASSUME NEW j \in Ends(l, i), NEW k \in Ends(l, i) PROVE k = j
  <2>1. /\ j \in (i + 1)..n /\ l[j] \notin Quiet /\ \A h \in (i + 1)..(j - 1) : l[h] \in Quiet
        /\ k \in (i + 1)..n /\ l[k] \notin Quiet /\ \A h \in (i + 1)..(k - 1) : l[h] \in Quiet
    BY <1>1
  <2>2. ~(j < k)
    BY <1>0, <2>1
  <2>3. ~(k < j)
    BY <1>0, <2>1
  <2> QED
    BY <1>0, <2>1, <2>2, <2>3
<1> QED
  BY <1>2, <1>3, <1>4, <1>5

\* One more line ends the blocks that had no end, or adds to them.
LEMMA EndsGrow ==
  ASSUME NEW l \in Seq(LineKind), NEW kind \in LineKind, NEW i \in 1..Len(l)
  PROVE  LET l2 == Append(l, kind)
             n  == Len(l) + 1
         IN  /\ ~Trailing(l, i) => Ends(l2, i) = Ends(l, i) /\ Body(l2, i) = Body(l, i)
             /\ Trailing(l, i) /\ kind \notin Quiet => Ends(l2, i) = {n} /\ Body(l2, i) = Body(l, i)
             /\ Trailing(l, i) /\ kind = "foreign" => Ends(l2, i) = {} /\ Body(l2, i) = Body(l, i)
             /\ Trailing(l, i) /\ kind = "blockTag" => Ends(l2, i) = {} /\ Body(l2, i) = Body(l, i) \cup {n}
<1> DEFINE m  == Len(l)
           l2 == Append(l, kind)
           n  == m + 1
           Clear(j) == \A k \in (i + 1)..(j - 1) : l[k] \in Quiet
<1>0. /\ m \in Nat /\ i \in 1..m /\ Len(l2) = n /\ l2[n] = kind
      /\ \A k \in 1..m : l2[k] = l[k]
  OBVIOUS
<1> HIDE DEF l2, m
<1>1. \A j \in (i + 1)..n : (\A k \in (i + 1)..(j - 1) : l2[k] \in Quiet) <=> Clear(j)
  <2> TAKE j \in (i + 1)..n
  <2>1. \A k \in (i + 1)..(j - 1) : k \in 1..m
    BY <1>0
  <2> QED
    BY <1>0, <2>1
<1>2. Clear(n) <=> Trailing(l, i)
  <2>1. (i + 1)..(n - 1) = (i + 1)..m
    BY <1>0
  <2> QED
    BY <2>1 DEF Trailing, m
<1>3. /\ Ends(l, i) = {j \in (i + 1)..m : l[j] \notin Quiet /\ Clear(j)}
      /\ Body(l, i) = {j \in (i + 1)..m : l[j] = "blockTag" /\ Clear(j)}
  BY Zenon DEF Ends, Body, Passed, Quiet, m
<1> HIDE DEF Clear
<1>4. /\ Ends(l2, i) = {j \in (i + 1)..n : l2[j] \notin Quiet /\ Clear(j)}
      /\ Body(l2, i) = {j \in (i + 1)..n : l2[j] = "blockTag" /\ Clear(j)}
  <2>1. /\ Ends(l2, i) = {j \in (i + 1)..n : l2[j] \notin Quiet /\ \A k \in (i + 1)..(j - 1) : l2[k] \in Quiet}
        /\ Body(l2, i) = {j \in (i + 1)..n : l2[j] = "blockTag" /\ \A k \in (i + 1)..(j - 1) : l2[k] \in Quiet}
    BY <1>0, Zenon DEF Ends, Body, Passed, Quiet
  <2> QED
    BY <1>1, <2>1
<1>5. \A j : j \in (i + 1)..n <=> j \in (i + 1)..m \/ j = n
  BY <1>0
<1>6. \A j \in (i + 1)..m : l2[j] = l[j] /\ j # n
  BY <1>0
<1>7. /\ \A j : j \in Ends(l2, i) <=> j \in Ends(l, i) \/ (j = n /\ kind \notin Quiet /\ Trailing(l, i))
      /\ \A j : j \in Body(l2, i) <=> j \in Body(l, i) \/ (j = n /\ kind = "blockTag" /\ Trailing(l, i))
  BY <1>0, <1>2, <1>3, <1>4, <1>5, <1>6
<1>8. Trailing(l, i) => Ends(l, i) = {}
  BY EndsFirst
<1>9. "blockTag" \in Quiet /\ "foreign" \in Quiet /\ "foreign" # "blockTag"
  BY DEF Quiet
<1>10. kind \notin Quiet => kind # "blockTag"
  BY <1>9
<1>11. ASSUME ~Trailing(l, i) PROVE Ends(l2, i) = Ends(l, i) /\ Body(l2, i) = Body(l, i)
  BY <1>7, <1>11
<1>12. ASSUME Trailing(l, i), kind \notin Quiet PROVE Ends(l2, i) = {n} /\ Body(l2, i) = Body(l, i)
  BY <1>7, <1>8, <1>10, <1>12
<1>13. ASSUME Trailing(l, i), kind = "foreign" PROVE Ends(l2, i) = {} /\ Body(l2, i) = Body(l, i)
  BY <1>7, <1>8, <1>9, <1>13
<1>14. ASSUME Trailing(l, i), kind = "blockTag"
       PROVE  Ends(l2, i) = {} /\ Body(l2, i) = Body(l, i) \cup {n}
  BY <1>7, <1>8, <1>9, <1>14
<1> QED
  BY <1>11, <1>12, <1>13, <1>14 DEF l2, m

\* A new line has nothing behind it.
LEMMA NewestIs ==
  ASSUME NEW l \in Seq(LineKind), NEW kind \in LineKind
  PROVE  LET l2 == Append(l, kind)
             n  == Len(l) + 1
         IN  /\ l2 \in Seq(LineKind) /\ Len(l2) = n /\ l2[n] = kind /\ n \in 1..n
             /\ \A i \in 1..Len(l) : l2[i] = l[i] /\ i \in 1..n
             /\ Ends(l2, n) = {} /\ Body(l2, n) = {} /\ Trailing(l2, n)
             /\ \A i \in 1..Len(l) : Trailing(l2, i) <=> Trailing(l, i) /\ kind \in Quiet
<1> DEFINE m  == Len(l)
           l2 == Append(l, kind)
           n  == m + 1
<1>0. /\ m \in Nat /\ l2 \in Seq(LineKind) /\ Len(l2) = n /\ l2[n] = kind
      /\ \A k \in 1..m : l2[k] = l[k]
  OBVIOUS
<1> HIDE DEF l2
<1>1. (n + 1)..n = {} /\ n \in 1..n /\ \A i \in 1..m : i \in 1..n
  BY <1>0
<1>2. Ends(l2, n) = {} /\ Body(l2, n) = {} /\ Trailing(l2, n)
  BY <1>0, <1>1 DEF Ends, Body, Trailing
<1>3. ASSUME NEW i \in 1..m PROVE Trailing(l2, i) <=> Trailing(l, i) /\ kind \in Quiet
  <2>1. \A k : k \in (i + 1)..n <=> k \in (i + 1)..m \/ k = n
    BY <1>0
  <2>2. \A k \in (i + 1)..m : l2[k] = l[k]
    BY <1>0
  <2> QED
    BY <1>0, <2>1, <2>2 DEF Trailing
<1> QED
  BY <1>0, <1>1, <1>2, <1>3 DEF l2

\* Two lines cannot both be the last that is no tag line.
LEMMA OneTrails ==
  ASSUME NEW l \in Seq(LineKind), NEW i \in 1..Len(l), NEW j \in 1..Len(l),
         Trailing(l, i), Trailing(l, j), l[i] \notin Quiet, l[j] \notin Quiet
  PROVE  i = j
<1>0. Len(l) \in Nat
  OBVIOUS
<1>1. ~(i < j)
  <2> SUFFICES ASSUME i < j PROVE FALSE
    OBVIOUS
  <2>1. j \in (i + 1)..Len(l)
    BY <1>0
  <2> QED
    BY <2>1 DEF Trailing
<1>2. ~(j < i)
  <2> SUFFICES ASSUME j < i PROVE FALSE
    OBVIOUS
  <2>1. i \in (j + 1)..Len(l)
    BY <1>0
  <2> QED
    BY <2>1 DEF Trailing
<1> QED
  BY <1>1, <1>2

\* The depth of a block, with one more line.
LEMMA DepthGrows ==
  ASSUME NEW l \in Seq(LineKind), NEW kind \in LineKind
  PROVE  LET l2 == Append(l, kind)
             n  == Len(l) + 1
         IN  /\ \A j \in Nat, i \in 0..Len(l) : j >= 1 => Depth(l2, j, i) = Depth(l, j, i)
             /\ \A j \in 1..Len(l) : /\ Depth(l, j, Len(l)) \in Int
                                     /\ Depth(l2, j, n) = Depth(l, j, Len(l))
                                          + (IF kind = "blockStart" THEN 1 ELSE 0)
                                          - (IF kind = "blockEnd" THEN 1 ELSE 0)
             /\ kind = "blockStart" => Depth(l2, n, n) = 1
<1> DEFINE m  == Len(l)
           l2 == Append(l, kind)
           n  == m + 1
           In(s, j, i, x) == {k \in j..i : s[k] = x}
<1>0. /\ m \in Nat /\ Len(l2) = n /\ l2[n] = kind
      /\ \A k \in 1..m : l2[k] = l[k]
  OBVIOUS
<1> HIDE DEF l2, m
<1>1. \A s, j, i : Depth(s, j, i) = Cardinality(In(s, j, i, "blockStart")) - Cardinality(In(s, j, i, "blockEnd"))
  BY Zenon DEF Depth
<1>2. ASSUME NEW j \in Nat, NEW i \in 0..m, j >= 1 PROVE Depth(l2, j, i) = Depth(l, j, i)
  <2>1. \A k \in j..i : l2[k] = l[k]
    BY <1>0, <1>2
  <2>2. \A x : In(l2, j, i, x) = In(l, j, i, x)
    BY <2>1
  <2> HIDE DEF In
  <2> QED
    BY <1>1, <2>2
<1>3. ASSUME NEW j \in 1..m, NEW x
      PROVE  /\ IsFiniteSet(In(l, j, m, x)) /\ Cardinality(In(l, j, m, x)) \in Nat
             /\ Cardinality(In(l2, j, n, x)) = Cardinality(In(l, j, m, x)) + (IF kind = x THEN 1 ELSE 0)
  <2> DEFINE a == In(l, j, m, x)
             b == In(l2, j, n, x)
  <2>1. IsFiniteSet(a)
    <3>1. j \in Int /\ m \in Int
      BY <1>0
    <3>2. IsFiniteSet(j..m)
      BY <3>1, FS_Interval
    <3>3. a \in SUBSET (j..m)
      OBVIOUS
    <3> QED
      BY <3>2, <3>3, FS_Subset
  <2>2. \A k : k \in j..n <=> k \in j..m \/ k = n
    BY <1>0
  <2>3. \A k \in j..m : l2[k] = l[k] /\ k # n
    BY <1>0
  <2>4. b = (IF kind = x THEN a \cup {n} ELSE a) /\ n \notin a
    BY <1>0, <2>2, <2>3
  <2> HIDE DEF a, b
  <2>5. Cardinality(a) \in Nat
    BY <2>1, FS_CardinalityType
  <2>6. Cardinality(a \cup {n}) = Cardinality(a) + 1
    BY <2>1, <2>4, FS_AddElement, Zenon
  <2>7. Cardinality(b) = Cardinality(a) + (IF kind = x THEN 1 ELSE 0)
    <3>1. CASE kind = x
      BY <2>4, <2>6, <3>1
    <3>2. CASE kind # x
      BY <2>4, <2>5, <3>2
    <3> QED
      BY <3>1, <3>2
  <2> QED
    BY <2>1, <2>5, <2>7 DEF a, b
<1>4. ASSUME NEW j \in 1..m
      PROVE  /\ Depth(l, j, m) \in Int
             /\ Depth(l2, j, n) = Depth(l, j, m) + (IF kind = "blockStart" THEN 1 ELSE 0)
                                                 - (IF kind = "blockEnd" THEN 1 ELSE 0)
  <2> HIDE DEF In
  <2> DEFINE a == Cardinality(In(l, j, m, "blockStart"))
             b == Cardinality(In(l, j, m, "blockEnd"))
             c == Cardinality(In(l2, j, n, "blockStart"))
             d == Cardinality(In(l2, j, n, "blockEnd"))
  <2>1. /\ a \in Nat /\ b \in Nat
        /\ c = a + (IF kind = "blockStart" THEN 1 ELSE 0) /\ d = b + (IF kind = "blockEnd" THEN 1 ELSE 0)
    BY <1>3
  <2>2. Depth(l, j, m) = a - b /\ Depth(l2, j, n) = c - d
    BY <1>1
  <2> HIDE DEF a, b, c, d
  <2> QED
    BY <2>1, <2>2
<1>5. ASSUME kind = "blockStart" PROVE Depth(l2, n, n) = 1
  <2>1. n..n = {n}
    BY <1>0
  <2>2. In(l2, n, n, "blockStart") = {n} /\ In(l2, n, n, "blockEnd") = {}
    BY <1>0, <1>5, <2>1
  <2> HIDE DEF In
  <2>3. Cardinality(In(l2, n, n, "blockStart")) = 1 /\ Cardinality(In(l2, n, n, "blockEnd")) = 0
    BY <2>2, FS_EmptySet, FS_Singleton
  <2> QED
    BY <1>1, <2>3
<1> QED
  BY <1>2, <1>4, <1>5 DEF l2, m

\* The blocks around a line, with one more line.
LEMMA AroundGrows ==
  ASSUME NEW l \in Seq(LineKind), NEW kind \in LineKind
  PROVE  LET l2 == Append(l, kind)
             n  == Len(l) + 1
         IN  /\ \A i \in 1..n : Around(l2, i) = Around(l, i)
             /\ \A j : j \in Around(l2, n + 1) <=>
                         \/ j \in Around(l, n) /\ Depth(l2, j, n) > 0 /\ kind # "create"
                         \/ j = n /\ kind = "blockStart"
             /\ Around(l, n) \in SUBSET (1..Len(l))
<1> DEFINE m  == Len(l)
           l2 == Append(l, kind)
           n  == m + 1
           In(s, j, i) == \A k \in j..(i - 1) : Depth(s, j, k) > 0 /\ s[k] # "create"
<1>0. /\ m \in Nat /\ Len(l2) = n /\ l2[n] = kind
      /\ \A k \in 1..m : l2[k] = l[k]
  OBVIOUS
<1>1. /\ \A j \in Nat, i \in 0..m : j >= 1 => Depth(l2, j, i) = Depth(l, j, i)
      /\ kind = "blockStart" => Depth(l2, n, n) = 1
  BY DepthGrows
<1> HIDE DEF l2, m
<1>2. \A s, i : Around(s, i) = {j \in 1..(i - 1) : s[j] = "blockStart" /\ In(s, j, i)}
  BY Zenon DEF Around
<1>3. ASSUME NEW j \in 1..m, NEW i \in 1..n PROVE In(l2, j, i) <=> In(l, j, i)
  <2>1. \A k \in j..(i - 1) : k \in 1..m /\ k \in 0..m /\ j \in Nat /\ j >= 1
    BY <1>0
  <2>2. \A k \in j..(i - 1) : l2[k] = l[k] /\ Depth(l2, j, k) = Depth(l, j, k)
    BY <1>0, <1>1, <2>1
  <2> QED
    BY <2>2
<1>4. ASSUME NEW j \in 1..m
      PROVE  In(l2, j, n + 1) <=> In(l2, j, n) /\ Depth(l2, j, n) > 0 /\ kind # "create"
  <2>1. \A k : k \in j..(n + 1 - 1) <=> k \in j..(n - 1) \/ k = n
    BY <1>0
  <2> QED
    BY <1>0, <2>1
<1>5. kind = "blockStart" => In(l2, n, n + 1)
  <2>1. n..(n + 1 - 1) = {n}
    BY <1>0
  <2> QED
    BY <1>0, <1>1, <2>1
<1> HIDE DEF In
<1>6. ASSUME NEW i \in 1..n PROVE Around(l2, i) = Around(l, i)
  <2>1. \A j \in 1..(i - 1) : j \in 1..m /\ l2[j] = l[j]
    BY <1>0
  <2>2. \A j \in 1..(i - 1) : In(l2, j, i) <=> In(l, j, i)
    BY <1>3, <2>1
  <2>3. /\ Around(l2, i) = {j \in 1..(i - 1) : l2[j] = "blockStart" /\ In(l2, j, i)}
        /\ Around(l, i) = {j \in 1..(i - 1) : l[j] = "blockStart" /\ In(l, j, i)}
    BY <1>2, Zenon
  <2> QED
    BY <2>1, <2>2, <2>3
<1>7. n \in 1..n /\ n - 1 = m /\ n + 1 - 1 = n
  BY <1>0
<1>8. /\ Around(l, n) = {j \in 1..m : l[j] = "blockStart" /\ In(l, j, n)}
      /\ Around(l2, n + 1) = {j \in 1..n : l2[j] = "blockStart" /\ In(l2, j, n + 1)}
  BY <1>2, <1>7
<1>9. ASSUME NEW j
      PROVE  j \in Around(l2, n + 1) <=>
                         \/ j \in Around(l, n) /\ Depth(l2, j, n) > 0 /\ kind # "create"
                         \/ j = n /\ kind = "blockStart"
  <2>1. j \in 1..n <=> j \in 1..m \/ j = n
    BY <1>0
  <2>2. CASE j \in 1..m
    <3>1. j # n /\ l2[j] = l[j] /\ j \in 1..n
      BY <1>0, <2>2
    <3>2. In(l2, j, n) <=> In(l, j, n)
      BY <1>3, <1>7, <2>2
    <3>3. In(l2, j, n + 1) <=> In(l2, j, n) /\ Depth(l2, j, n) > 0 /\ kind # "create"
      BY <1>4, <2>2
    <3> QED
      BY <1>8, <2>2, <3>1, <3>2, <3>3
  <2>3. CASE j = n
    <3>1. n \notin 1..m
      BY <1>0
    <3>2. n \notin Around(l, n)
      BY <1>8, <3>1
    <3> QED
      BY <1>0, <1>5, <1>7, <1>8, <2>3, <3>2
  <2>4. CASE j \notin 1..m /\ j # n
    BY <1>8, <2>1, <2>4
  <2> QED
    BY <2>2, <2>3, <2>4
<1>10. Around(l, n) \in SUBSET (1..m)
  BY <1>8
<1> QED
  BY <1>6, <1>9, <1>10 DEF l2, m

\* The block stack of the parser holds the blocks around the next line, outermost first.
StackInv(l, s) ==
  /\ s \in Seq(Nat)
  /\ \A k \in 1..Len(s) : s[k] \in Around(l, Len(l) + 1) /\ Depth(l, s[k], Len(l)) = Len(s) - k + 1
  /\ \A j \in Around(l, Len(l) + 1) : \E k \in 1..Len(s) : s[k] = j
  /\ \A k, h \in 1..Len(s) : k < h => s[k] < s[h]

\* What a line does to the stack.
Stacked(s, i, kind, s2) ==
  /\ kind = "create" => s2 = <<>>
  /\ kind = "blockStart" => s2 = Append(s, i)
  /\ kind = "blockEnd" /\ s # <<>> => s2 = SubSeq(s, 1, Len(s) - 1)
  /\ kind \notin {"create", "blockStart"} /\ ~(kind = "blockEnd" /\ s # <<>>) => s2 = s

\* One more line keeps the stack in step with the blocks.
LEMMA StackKept ==
  ASSUME NEW l \in Seq(LineKind), NEW kind \in LineKind, NEW s, StackInv(l, s),
         NEW s2, Stacked(s, Len(l) + 1, kind, s2)
  PROVE  StackInv(Append(l, kind), s2)
<1> DEFINE m  == Len(l)
           l2 == Append(l, kind)
           n  == m + 1
           h  == Len(s)
           A  == Around(l, n)
           A2 == Around(l2, n + 1)
<1>0. m \in Nat /\ Len(l2) = n /\ s \in Seq(Nat) /\ h \in Nat
  BY DEF StackInv
<1>1. /\ \A k \in 1..h : s[k] \in A /\ Depth(l, s[k], m) = h - k + 1
      /\ \A j \in A : \E k \in 1..h : s[k] = j
      /\ \A k, g \in 1..h : k < g => s[k] < s[g]
  BY DEF StackInv
<1>2. /\ \A j : j \in A2 <=> \/ j \in A /\ Depth(l2, j, n) > 0 /\ kind # "create"
                             \/ j = n /\ kind = "blockStart"
      /\ A \in SUBSET (1..m)
  BY AroundGrows
<1>3. /\ \A j \in 1..m : /\ Depth(l, j, m) \in Int
                         /\ Depth(l2, j, n) = Depth(l, j, m)
                              + (IF kind = "blockStart" THEN 1 ELSE 0)
                              - (IF kind = "blockEnd" THEN 1 ELSE 0)
      /\ kind = "blockStart" => Depth(l2, n, n) = 1
  BY DepthGrows
<1> HIDE DEF l2, m, A, A2
<1>4. \A k \in 1..h : s[k] \in 1..m /\ s[k] \in Nat /\ s[k] < n
  <2>1. \A j \in 1..m : j \in Nat /\ j < n
    BY <1>0
  <2> QED
    BY <1>1, <1>2, <2>1
<1> HIDE DEF h
<1>5. SUFFICES /\ s2 \in Seq(Nat)
               /\ \A k \in 1..Len(s2) : s2[k] \in A2 /\ Depth(l2, s2[k], n) = Len(s2) - k + 1
               /\ \A j \in A2 : \E k \in 1..Len(s2) : s2[k] = j
               /\ \A k, g \in 1..Len(s2) : k < g => s2[k] < s2[g]
  BY <1>0 DEF StackInv, A2, l2
<1>6. CASE kind = "create"
  <2>1. s2 = <<>>
    BY <1>6 DEF Stacked
  <2>2. A2 = {}
    BY <1>2, <1>6
  <2> QED
    BY <2>1, <2>2
<1>7. CASE kind = "blockStart"
  <2>1. s2 = Append(s, n)
    BY <1>7 DEF Stacked, m
  <2>2. /\ s2 \in Seq(Nat) /\ Len(s2) = h + 1 /\ s2[h + 1] = n
        /\ \A k \in 1..h : s2[k] = s[k]
    BY <1>0, <2>1 DEF h
  <2>3. \A k \in 1..h : Depth(l2, s[k], n) = h + 1 - k + 1 /\ Depth(l2, s[k], n) > 0
    <3> TAKE k \in 1..h
    <3>1. Depth(l2, s[k], n) = Depth(l, s[k], m) + 1 - 0
      BY <1>3, <1>4, <1>7
    <3>2. Depth(l, s[k], m) = h - k + 1
      BY <1>1
    <3> QED
      BY <1>0, <3>1, <3>2
  <2>4. ASSUME NEW k \in 1..(h + 1) PROVE s2[k] \in A2 /\ Depth(l2, s2[k], n) = h + 1 - k + 1
    <3>1. CASE k = h + 1
      BY <1>0, <1>2, <1>3, <1>7, <2>2, <3>1
    <3>2. CASE k # h + 1
      <4>1. k \in 1..h
        BY <1>0, <3>2
      <4> QED
        BY <1>1, <1>2, <1>7, <2>2, <2>3, <4>1
    <3> QED
      BY <3>1, <3>2
  <2>5. ASSUME NEW j \in A2 PROVE \E k \in 1..(h + 1) : s2[k] = j
    <3>1. CASE j \in A
      <4>1. PICK k \in 1..h : s[k] = j
        BY <1>1, <3>1
      <4>2. k \in 1..(h + 1) /\ s2[k] = j
        BY <1>0, <2>2, <4>1
      <4> QED
        BY <4>2
    <3>2. CASE j = n
      <4>1. h + 1 \in 1..(h + 1)
        BY <1>0
      <4> QED
        BY <2>2, <3>2, <4>1
    <3> QED
      BY <1>2, <3>1, <3>2
  <2>6. ASSUME NEW k \in 1..(h + 1), NEW g \in 1..(h + 1), k < g PROVE s2[k] < s2[g]
    <3>1. k \in 1..h
      BY <1>0, <2>6
    <3>2. CASE g = h + 1
      BY <1>4, <2>2, <3>1, <3>2
    <3>3. CASE g # h + 1
      <4>1. g \in 1..h
        BY <1>0, <3>3
      <4> QED
        BY <1>1, <2>2, <2>6, <3>1, <4>1
    <3> QED
      BY <3>2, <3>3
  <2>7. Len(s2) = h + 1 /\ s2 \in Seq(Nat)
    BY <2>2
  <2> HIDE DEF n
  <2>8. \A k \in 1..Len(s2) : s2[k] \in A2 /\ Depth(l2, s2[k], n) = Len(s2) - k + 1
    <3> TAKE k \in 1..Len(s2)
    <3>1. k \in 1..(h + 1) /\ Len(s2) = h + 1
      BY <2>7
    <3>2. s2[k] \in A2 /\ Depth(l2, s2[k], n) = h + 1 - k + 1
      BY <2>4, <3>1, Zenon
    <3>3. h + 1 - k + 1 = Len(s2) - k + 1
      BY <1>0, <3>1
    <3> QED
      BY <3>2, <3>3, Zenon
  <2>9. \A j \in A2 : \E k \in 1..Len(s2) : s2[k] = j
    BY <2>5, <2>7
  <2>10. \A k, g \in 1..Len(s2) : k < g => s2[k] < s2[g]
    BY <2>6, <2>7
  <2> QED
    BY <2>7, <2>8, <2>9, <2>10
<1>8. CASE kind = "blockEnd" /\ s # <<>>
  <2>1. s2 = SubSeq(s, 1, h - 1)
    BY <1>8 DEF Stacked, h
  <2>2. h >= 1
    BY <1>0, <1>8 DEF h
  <2>3. /\ s2 \in Seq(Nat) /\ Len(s2) = h - 1
        /\ \A k \in 1..(h - 1) : s2[k] = s[k] /\ k \in 1..h
    <3>1. Len(s) = h
      BY DEF h
    <3> QED
      BY <1>0, <2>1, <2>2, <3>1
  <2>4. \A k \in 1..h : Depth(l2, s[k], n) = h - k
    <3> TAKE k \in 1..h
    <3>1. Depth(l2, s[k], n) = Depth(l, s[k], m) + 0 - 1
      BY <1>3, <1>4, <1>8
    <3>2. Depth(l, s[k], m) = h - k + 1
      BY <1>1
    <3> QED
      BY <1>0, <3>1, <3>2
  <2>5. ASSUME NEW k \in 1..(h - 1) PROVE s2[k] \in A2 /\ Depth(l2, s2[k], n) = h - 1 - k + 1
    <3>1. Depth(l2, s[k], n) = h - k /\ h - k > 0
      BY <1>0, <2>3, <2>4
    <3>2. s[k] \in A2
      BY <1>1, <1>2, <1>8, <2>3, <3>1
    <3>3. h - 1 - k + 1 = h - k
      BY <1>0
    <3> QED
      BY <2>3, <3>1, <3>2, <3>3
  <2>6. ASSUME NEW j \in A2 PROVE \E k \in 1..(h - 1) : s2[k] = j
    <3>1. j \in A /\ Depth(l2, j, n) > 0
      BY <1>2, <1>8
    <3>2. PICK k \in 1..h : s[k] = j
      BY <1>1, <3>1
    <3>3. h - k > 0
      BY <2>4, <3>1, <3>2
    <3>4. k \in 1..(h - 1)
      BY <1>0, <3>3
    <3> QED
      BY <2>3, <3>2, <3>4
  <2>7. ASSUME NEW k \in 1..(h - 1), NEW g \in 1..(h - 1), k < g PROVE s2[k] < s2[g]
    BY <1>1, <2>3, <2>7
  <2> QED
    BY <2>3, <2>5, <2>6, <2>7
<1>9. CASE kind \notin {"create", "blockStart"} /\ ~(kind = "blockEnd" /\ s # <<>>)
  <2>1. s2 = s /\ Len(s2) = h
    BY <1>9 DEF Stacked, h
  <2>2. kind # "blockEnd" \/ h = 0
    BY <1>0, <1>9 DEF h
  <2>3. \A k \in 1..h : Depth(l2, s[k], n) = h - k + 1 /\ Depth(l2, s[k], n) > 0
    <3> TAKE k \in 1..h
    <3>1. kind # "blockEnd"
      BY <1>0, <2>2
    <3>2. Depth(l2, s[k], n) = Depth(l, s[k], m) + 0 - 0
      BY <1>3, <1>4, <1>9, <3>1
    <3>3. Depth(l, s[k], m) = h - k + 1
      BY <1>1
    <3> QED
      BY <1>0, <3>2, <3>3
  <2>4. \A k \in 1..h : s[k] \in A2
    BY <1>1, <1>2, <1>9, <2>3
  <2>5. \A j \in A2 : j \in A
    BY <1>2, <1>9
  <2> QED
    BY <1>0, <1>1, <2>1, <2>3, <2>4, <2>5
<1> QED
  BY <1>6, <1>7, <1>8, <1>9

\* What the parser attributes an entity or a tag change to.
LEMMA SourceIs ==
  ASSUME NEW l \in Seq(LineKind), NEW kind \in LineKind, NEW s, StackInv(l, s)
  PROVE  LET l2 == Append(l, kind)
         IN  /\ \A i \in 1..Len(l) : Attributed(l2, i) = Attributed(l, i)
             /\ Attributed(l2, Len(l) + 1)
                  = IF kind \in {"entity", "tag"} /\ s # <<>> THEN s[Len(s)] ELSE 0
<1> DEFINE m  == Len(l)
           l2 == Append(l, kind)
           n  == m + 1
           h  == Len(s)
           A  == Around(l, n)
           top(a) == CHOOSE j \in a : \A k \in a : k <= j
<1>0. /\ m \in Nat /\ l2[n] = kind /\ s \in Seq(Nat) /\ h \in Nat
      /\ \A k \in 1..m : l2[k] = l[k] /\ k \in 1..n
  BY DEF StackInv
<1>1. /\ \A k \in 1..h : s[k] \in A
      /\ \A j \in A : \E k \in 1..h : s[k] = j
      /\ \A k, g \in 1..h : k < g => s[k] < s[g]
  BY DEF StackInv
<1>2. \A i \in 1..n : Around(l2, i) = Around(l, i)
  BY AroundGrows
<1>3. A \in SUBSET (1..m)
  BY AroundGrows
<1>4. \A t, i : Attributed(t, i) = IF t[i] \in {"entity", "tag"} /\ Around(t, i) # {} THEN top(Around(t, i)) ELSE 0
  BY Zenon DEF Attributed
<1> HIDE DEF l2, m, top
<1>5. \A i \in 1..m : Attributed(l2, i) = Attributed(l, i)
  BY <1>0, <1>2, <1>4
<1>6. s # <<>> => A # {} /\ top(A) = s[h]
  <2> SUFFICES ASSUME s # <<>> PROVE A # {} /\ top(A) = s[h]
    OBVIOUS
  <2>1. h \in 1..h
    BY <1>0
  <2>2. s[h] \in A
    BY <1>1, <2>1
  <2>9. \A j \in A : j \in Nat
    BY <1>3
  <2> HIDE DEF A
  <2>3. \A k \in A : k <= s[h]
    <3> TAKE j \in A
    <3>1. PICK k \in 1..h : s[k] = j
      BY <1>1
    <3>2. k = h \/ k < h
      BY <1>0
    <3>3. k < h => s[k] < s[h]
      BY <1>1, <2>1
    <3>4. j \in Nat /\ s[h] \in Nat
      BY <2>2, <2>9
    <3> QED
      BY <3>1, <3>2, <3>3, <3>4
  <2>4. top(A) \in A /\ \A k \in A : k <= top(A)
    <3>1. \E j \in A : \A k \in A : k <= j
      BY <2>2, <2>3
    <3> QED
      BY <3>1 DEF top
  <2>5. top(A) <= s[h] /\ s[h] <= top(A) /\ top(A) \in Nat /\ s[h] \in Nat
    BY <2>2, <2>3, <2>4, <2>9
  <2>6. top(A) = s[h]
    BY <2>5
  <2> QED
    BY <2>2, <2>6
<1>7. s = <<>> => A = {}
  BY <1>1
<1>8. n \in 1..n /\ Around(l2, n) = A
  BY <1>0, <1>2
<1> HIDE DEF A
<1>9. Attributed(l2, n) = IF kind \in {"entity", "tag"} /\ s # <<>> THEN s[h] ELSE 0
  <2>1. Attributed(l2, n) = IF kind \in {"entity", "tag"} /\ A # {} THEN top(A) ELSE 0
    BY <1>0, <1>4, <1>8
  <2> QED
    BY <1>6, <1>7, <2>1
<1> QED
  BY <1>5, <1>9 DEF l2, m

-----------------------------------------------------------------------------
(* Parser: the events of a log *)

\* The lines that are over when the next line is no tag line: the one with
\* nothing but tag lines behind it, unless a new game discards it.
Over(l, discards) ==
  {i \in 1..Len(l) : /\ Trailing(l, i)
                     /\ \/ l[i] \in Held /\ ~discards
                        \/ l[i] = "gameEntity" /\ Body(l, i) # {}}

\* The lines that have their event.
Marked(l, flushed) == {i \in 1..Len(l) : HasEvent(l, flushed, i)}

\* The kinds of lines, told apart.
LEMMA KindsApart ==
  /\ "gameEntity" \notin Held /\ "gameEntity" \notin Immediate /\ "gameEntity" \notin Quiet
  /\ \A k \in Held : k \notin Immediate /\ k \notin Quiet /\ k # "create"
  /\ \A k \in Immediate : k \notin Held /\ k \notin Quiet /\ k # "gameEntity"
  /\ \A k \in Quiet : k # "create" /\ k # "blockStart" /\ k # "blockEnd"
  /\ "create" \in Immediate
BY DEF Held, Immediate, Quiet

\* The lines that have their event, with one more line, and at the end.
LEMMA MarkedGrows ==
  ASSUME NEW l \in Seq(LineKind), NEW kind \in LineKind
  PROVE  LET l2 == Append(l, kind)
             n  == Len(l) + 1
         IN  /\ Marked(l2, FALSE) = Marked(l, FALSE)
                                    \cup (IF kind \notin Quiet THEN Over(l, kind = "create") ELSE {})
                                    \cup (IF kind \in Immediate THEN {n} ELSE {})
             /\ Marked(l, TRUE) = Marked(l, FALSE) \cup Over(l, FALSE)
<1> DEFINE m  == Len(l)
           l2 == Append(l, kind)
           n  == m + 1
           Had(i) == \/ l[i] \in Immediate
                     \/ l[i] \in Held /\ ~Trailing(l, i) /\ \A j \in Ends(l, i) : l[j] # "create"
                     \/ l[i] = "gameEntity" /\ ~Trailing(l, i) /\ Body(l, i) # {}
           Now(i) == \/ Trailing(l, i) /\ l[i] \in Held /\ kind # "create"
                     \/ Trailing(l, i) /\ l[i] = "gameEntity" /\ Body(l, i) # {}
<1>0. /\ m \in Nat /\ Len(l2) = n /\ l2[n] = kind
      /\ \A k \in 1..m : l2[k] = l[k]
  OBVIOUS
<1>1. /\ Ends(l2, n) = {} /\ Body(l2, n) = {}
  BY NewestIs
<1>2. \A i \in 1..m : Ends(l, i) = {} <=> Trailing(l, i)
  BY EndsFirst
<1>3. \A i \in 1..m :
        /\ ~Trailing(l, i) => Ends(l2, i) = Ends(l, i) /\ Body(l2, i) = Body(l, i)
        /\ Trailing(l, i) /\ kind \notin Quiet => Ends(l2, i) = {n} /\ Body(l2, i) = Body(l, i)
        /\ Trailing(l, i) /\ kind = "foreign" => Ends(l2, i) = {} /\ Body(l2, i) = Body(l, i)
        /\ Trailing(l, i) /\ kind = "blockTag" => Ends(l2, i) = {}
  BY EndsGrow
<1>4. \A i \in 1..m : \A j \in Ends(l, i) : j \in 1..m
  <2> TAKE i \in 1..m
  <2>1. \A j : j \in Ends(l, i) => j \in (i + 1)..m
    BY DEF Ends
  <2> QED
    BY <1>0, <2>1
<1> HIDE DEF l2, m
<1>5. \A i \in 1..m : HasEvent(l, FALSE, i) <=> Had(i)
  BY <1>2 DEF HasEvent
<1>6. \A i \in 1..m : HasEvent(l, TRUE, i) <=>
                        \/ l[i] \in Immediate
                        \/ l[i] \in Held /\ \A j \in Ends(l, i) : l[j] # "create"
                        \/ l[i] = "gameEntity" /\ Body(l, i) # {}
  BY DEF HasEvent
<1>7. ASSUME NEW i \in 1..m
      PROVE  HasEvent(l2, FALSE, i) <=> Had(i) \/ (kind \notin Quiet /\ Now(i))
  <2>1. l2[i] = l[i]
    BY <1>0
  <2>2. HasEvent(l2, FALSE, i) <=>
          \/ l[i] \in Immediate
          \/ l[i] \in Held /\ Ends(l2, i) # {} /\ \A j \in Ends(l2, i) : l2[j] # "create"
          \/ l[i] = "gameEntity" /\ Ends(l2, i) # {} /\ Body(l2, i) # {}
    BY <2>1, Zenon DEF HasEvent
  <2>3. CASE ~Trailing(l, i)
    <3>1. Ends(l2, i) = Ends(l, i) /\ Body(l2, i) = Body(l, i) /\ Ends(l, i) # {}
      BY <1>2, <1>3, <2>3
    <3>2. \A j \in Ends(l, i) : l2[j] = l[j]
      BY <1>0, <1>4
    <3> QED
      BY <2>2, <2>3, <3>1, <3>2
  <2>4. CASE Trailing(l, i) /\ kind \notin Quiet
    <3>1. Ends(l2, i) = {n} /\ Body(l2, i) = Body(l, i)
      BY <1>3, <2>4
    <3> QED
      BY <1>0, <2>2, <2>4, <3>1
  <2>5. CASE Trailing(l, i) /\ kind \in Quiet
    <3>1. Ends(l2, i) = {}
      BY <1>3, <2>5 DEF Quiet
    <3> QED
      BY <2>2, <2>5, <3>1
  <2> QED
    BY <2>3, <2>4, <2>5
<1>8. HasEvent(l2, FALSE, n) <=> kind \in Immediate
  BY <1>0, <1>1 DEF HasEvent
<1>9. \A i : i \in 1..n <=> i \in 1..m \/ i = n
  BY <1>0
<1>10. n \notin 1..m
  BY <1>0
<1>11. /\ \A i : i \in Marked(l2, FALSE) <=> i \in 1..n /\ HasEvent(l2, FALSE, i)
       /\ \A i, f : i \in Marked(l, f) <=> i \in 1..m /\ HasEvent(l, f, i)
       /\ \A i : i \in Over(l, kind = "create") <=> i \in 1..m /\ Now(i)
       /\ \A i : i \in Over(l, FALSE) <=>
                   i \in 1..m /\ Trailing(l, i)
                   /\ (l[i] \in Held \/ (l[i] = "gameEntity" /\ Body(l, i) # {}))
  BY <1>0 DEF Marked, Over, m
<1> HIDE DEF Had, Now
<1>12. \A i : i \in Marked(l2, FALSE) <=>
                \/ i \in Marked(l, FALSE)
                \/ kind \notin Quiet /\ i \in Over(l, kind = "create")
                \/ kind \in Immediate /\ i = n
  <2> TAKE i
  <2>1. CASE i \in 1..m
    <3>1. i # n /\ i \in 1..n
      BY <1>9, <1>10, <2>1
    <3> QED
      BY <1>5, <1>7, <1>11, <2>1, <3>1, Zenon
  <2>2. CASE i = n
    <3>1. n \notin 1..m /\ n \in 1..n
      BY <1>9, <1>10
    <3> QED
      BY <1>8, <1>11, <2>2, <3>1, Zenon
  <2>3. CASE i \notin 1..m /\ i # n
    BY <1>9, <1>11, <2>3, Zenon
  <2> QED
    BY <2>1, <2>2, <2>3
<1>13. \A i : i \in Marked(l, TRUE) <=> i \in Marked(l, FALSE) \/ i \in Over(l, FALSE)
  <2> TAKE i
  <2>1. CASE i \in 1..m
    <3>1. Ends(l, i) = {} <=> Trailing(l, i)
      BY <1>2, <2>1
    <3> QED
      BY <1>5, <1>6, <1>11, <2>1, <3>1 DEF Had
  <2>2. CASE i \notin 1..m
    BY <1>11, <2>2, Zenon
  <2> QED
    BY <2>1, <2>2
<1>14. Marked(l2, FALSE) = Marked(l, FALSE)
                           \cup (IF kind \notin Quiet THEN Over(l, kind = "create") ELSE {})
                           \cup (IF kind \in Immediate THEN {n} ELSE {})
  <2> DEFINE a == IF kind \notin Quiet THEN Over(l, kind = "create") ELSE {}
             b == IF kind \in Immediate THEN {n} ELSE {}
  <2>1. \A i : i \in a <=> kind \notin Quiet /\ i \in Over(l, kind = "create")
    OBVIOUS
  <2>2. \A i : i \in b <=> kind \in Immediate /\ i = n
    OBVIOUS
  <2> HIDE DEF a, b
  <2>3. Marked(l2, FALSE) = Marked(l, FALSE) \cup a \cup b
    BY <1>12, <2>1, <2>2, Zenon
  <2> QED
    BY <2>3 DEF a, b
<1>15. Marked(l, TRUE) = Marked(l, FALSE) \cup Over(l, FALSE)
  BY <1>13
<1> QED
  BY <1>14, <1>15 DEF l2, m

\* What is over comes after all that has its event, and is one line at most.
LEMMA OverLast ==
  ASSUME NEW l \in Seq(LineKind), NEW discards \in BOOLEAN, NEW i \in Over(l, discards)
  PROVE  /\ \A j \in Marked(l, FALSE) : j < i
         /\ Over(l, discards) = {i}
         /\ i \in 1..Len(l) /\ Trailing(l, i) /\ l[i] \notin Quiet /\ l[i] \notin Immediate
<1>1. /\ i \in 1..Len(l) /\ Trailing(l, i) /\ l[i] \notin Quiet /\ l[i] \notin Immediate
  BY KindsApart DEF Over
<1>2. ASSUME NEW j \in Over(l, discards) PROVE j = i
  <2>1. j \in 1..Len(l) /\ Trailing(l, j) /\ l[j] \notin Quiet
    BY KindsApart DEF Over
  <2> QED
    BY <1>1, <2>1, OneTrails
<1>3. ASSUME NEW j \in Marked(l, FALSE) PROVE j < i
  <2>1. j \in 1..Len(l) /\ HasEvent(l, FALSE, j)
    BY DEF Marked
  <2>2. l[j] \notin Quiet
    BY <2>1, KindsApart DEF HasEvent
  <2>3. j # i
    <3> SUFFICES ASSUME j = i PROVE FALSE
      OBVIOUS
    <3>1. Ends(l, i) = {}
      BY <1>1, EndsFirst
    <3> QED
      BY <1>1, <2>1, <3>1 DEF HasEvent
  <2>4. ~(i < j)
    <3> SUFFICES ASSUME i < j PROVE FALSE
      OBVIOUS
    <3>1. j \in (i + 1)..Len(l)
      BY <1>1, <2>1
    <3> QED
      BY <1>1, <2>2, <3>1 DEF Trailing
  <2> QED
    BY <1>1, <2>1, <2>3, <2>4
<1> QED
  BY <1>1, <1>2, <1>3

\* What the parser attributes a line to.
Own(kind, s) == IF kind \in {"entity", "tag"} /\ s # <<>> THEN s[Len(s)] ELSE 0

\* What is expected of a line, with one more line.
LEMMA ExpectedGrows ==
  ASSUME NEW l \in Seq(LineKind), NEW kind \in LineKind, NEW s, StackInv(l, s)
  PROVE  LET l2 == Append(l, kind)
             n  == Len(l) + 1
         IN  /\ \A i \in 1..Len(l) :
                  /\ l[i] \in Immediate \/ ~Trailing(l, i) \/ kind # "blockTag" =>
                       ExpectedEvent(l2, i) = ExpectedEvent(l, i)
                  /\ l[i] \notin Immediate /\ Trailing(l, i) /\ kind = "blockTag" =>
                       ExpectedEvent(l2, i) = Tagged(ExpectedEvent(l, i), n)
             /\ ExpectedEvent(l2, n) = Event(kind, n, Own(kind, s))
<1> DEFINE m  == Len(l)
           l2 == Append(l, kind)
           n  == m + 1
           Rec(k, i, a, t) == [kind |-> k, of |-> i, source |-> a, tags |-> t]
<1>0. /\ m \in Nat /\ Len(l2) = n /\ l2[n] = kind
      /\ \A k \in 1..m : l2[k] = l[k]
  OBVIOUS
<1>1. Body(l2, n) = {}
  BY NewestIs
<1>2. /\ \A i \in 1..m : Attributed(l2, i) = Attributed(l, i)
      /\ Attributed(l2, n) = Own(kind, s)
  BY SourceIs DEF Own
<1>3. \A i \in 1..m :
        /\ ~Trailing(l, i) => Body(l2, i) = Body(l, i)
        /\ Trailing(l, i) /\ kind \notin Quiet => Body(l2, i) = Body(l, i)
        /\ Trailing(l, i) /\ kind = "foreign" => Body(l2, i) = Body(l, i)
        /\ Trailing(l, i) /\ kind = "blockTag" => Body(l2, i) = Body(l, i) \cup {n}
  BY EndsGrow
<1>4. \A t, i : ExpectedEvent(t, i)
                  = Rec(t[i], i, Attributed(t, i), IF t[i] \in Immediate THEN {} ELSE Body(t, i))
  BY Zenon DEF ExpectedEvent
<1>5. \A k, i, a, t : Tagged(Rec(k, i, a, t), n) = Rec(k, i, a, t \cup {n})
  <2> TAKE k, i, a, t
  <2> DEFINE r == Rec(k, i, a, t)
  <2>1. r \in [kind : {k}, of : {i}, source : {a}, tags : {t}]
    OBVIOUS
  <2> HIDE DEF r
  <2> DEFINE u == t \cup {n}
  <2>2. r.tags \cup {n} = u
    BY <2>1
  <2> HIDE DEF u
  <2>3. [r EXCEPT !.tags = u] = Rec(k, i, a, u)
    BY <2>1
  <2>4. [r EXCEPT !.tags = @ \cup {n}] = Rec(k, i, a, u)
    BY <2>2, <2>3
  <2> QED
    BY <2>4 DEF Tagged, r, u
<1>6. Event(kind, n, Own(kind, s)) = Rec(kind, n, Own(kind, s), {})
  BY DEF Event
<1> HIDE DEF l2, m, Rec
<1>7. ASSUME NEW i \in 1..m, l[i] \in Immediate \/ ~Trailing(l, i) \/ kind # "blockTag"
      PROVE  ExpectedEvent(l2, i) = ExpectedEvent(l, i)
  <2>1. l[i] \notin Immediate => Body(l2, i) = Body(l, i)
    BY <1>3, <1>7 DEF Quiet
  <2>2. l2[i] = l[i] /\ Attributed(l2, i) = Attributed(l, i)
    BY <1>0, <1>2
  <2> QED
    BY <1>4, <2>1, <2>2
<1>8. ASSUME NEW i \in 1..m, l[i] \notin Immediate, Trailing(l, i), kind = "blockTag"
      PROVE  ExpectedEvent(l2, i) = Tagged(ExpectedEvent(l, i), n)
  <2>1. Body(l2, i) = Body(l, i) \cup {n}
    BY <1>3, <1>8
  <2>2. l2[i] = l[i] /\ Attributed(l2, i) = Attributed(l, i)
    BY <1>0, <1>2
  <2>3. /\ ExpectedEvent(l2, i) = Rec(l[i], i, Attributed(l, i), Body(l, i) \cup {n})
        /\ ExpectedEvent(l, i) = Rec(l[i], i, Attributed(l, i), Body(l, i))
    BY <1>4, <1>8, <2>1, <2>2
  <2> QED
    BY <1>5, <2>3
<1>9. ExpectedEvent(l2, n) = Event(kind, n, Own(kind, s))
  <2>1. ExpectedEvent(l2, n) = Rec(kind, n, Own(kind, s), {})
    BY <1>0, <1>1, <1>2, <1>4
  <2> QED
    BY <1>6, <2>1
<1> QED
  BY <1>7, <1>8, <1>9 DEF l2, m

-----------------------------------------------------------------------------
(* Parser: what is held back, and what a line emits *)

\* The events of what is held back, at the end of a stretch of tag lines.
HeldBack(p, discards) ==
  (IF p.inCreate /\ p.createTags.tags # {} THEN <<p.createTags>> ELSE <<>>)
  \o (IF p.inBlock /\ ~discards THEN <<p.pending>> ELSE <<>>)

\* A parser that a line which is no tag line has left, and the line's own event.
Opened(w, s, i, kind) ==
  /\ w.parser.inBlock <=> kind \in Held
  /\ w.parser.inCreate <=> kind = "gameEntity"
  /\ kind \in Held => w.parser.pending = Event(kind, i, Own(kind, s))
  /\ kind = "gameEntity" => w.parser.createTags = Event(kind, i, Own(kind, s))
  /\ Stacked(s, i, kind, w.parser.blockStack)
  /\ w.events = IF kind \in Immediate THEN <<Event(kind, i, Own(kind, s))>> ELSE <<>>

\* What a line that is no tag line does to the parser, by its parts.
LEMMA OpenParts ==
  ASSUME NEW s \in Seq(Nat), NEW i \in Nat, NEW kind \in LineKind
  PROVE  Opened(Open(Parts(FALSE, NoEvent, s, FALSE, NoEvent), i, kind), s, i, kind)
<1> DEFINE q == Parts(FALSE, NoEvent, s, FALSE, NoEvent)
           w == Open(q, i, kind)
           e == Event(kind, i, Own(kind, s))
<1>0. FALSE \in BOOLEAN /\ TRUE \in BOOLEAN /\ <<>> \in Seq(Nat) /\ NoEvent \in EventType
  BY NewTypes
<1>1. /\ q \in ParserType /\ q.inBlock = FALSE /\ q.pending = NoEvent /\ q.blockStack = s
      /\ q.inCreate = FALSE /\ q.createTags = NoEvent
  <2>1. q \in ParserType
    BY <1>0, PartsMake, Zenon
  <2> QED
    BY <2>1 DEF Parts
<1>2. Source(q, kind) = Own(kind, s)
  BY <1>1, Zenon DEF Source, Own
<1>3. Own(kind, s) \in Nat
  BY DEF Own
<1>4. e \in EventType
  BY <1>3, EventTypes, Zenon
<1> HIDE DEF q, e, EventType
<1> DEFINE Is(p, es) == w = With(p, es)
<1>5. \A p, es : Is(p, es) => w.parser = p /\ w.events = es
  BY DEF With
<1>a. SUFFICES Opened(w, s, i, kind)
  BY DEF w, q
<1>b. Opened(w, s, i, kind) <=>
         /\ w.parser.inBlock <=> kind \in Held
         /\ w.parser.inCreate <=> kind = "gameEntity"
         /\ kind \in Held => w.parser.pending = e
         /\ kind = "gameEntity" => w.parser.createTags = e
         /\ Stacked(s, i, kind, w.parser.blockStack)
         /\ w.events = IF kind \in Immediate THEN <<e>> ELSE <<>>
  BY Zenon DEF Opened, e
<1> HIDE DEF w
<1>6. CASE kind = "blockEnd"
  <2>0. /\ kind \notin Held /\ kind # "gameEntity" /\ kind \notin Immediate
        /\ kind # "create" /\ kind # "blockStart"
    BY <1>6 DEF Held, Immediate
  <2>1. CASE s # <<>>
    <3> DEFINE t == SubSeq(s, 1, Len(s) - 1)
               r == Parts(FALSE, NoEvent, t, FALSE, NoEvent)
    <3>1. Is([q EXCEPT !.blockStack = SubSeq(@, 1, Len(@) - 1)], <<>>)
      BY <1>1, <1>6, <2>1, OpenIs DEF w
    <3>2. SubSeq(q.blockStack, 1, Len(q.blockStack) - 1) = t
      BY <1>1
    <3>6. t \in Seq(Nat)
      BY <2>1
    <3> HIDE DEF t
    <3>3. [q EXCEPT !.blockStack = t] = r
      <4>1. [q EXCEPT !.blockStack = t] = Parts(q.inBlock, q.pending, t, q.inCreate, q.createTags)
        BY <1>1, BlockStackChange, Zenon
      <4> QED
        BY <1>1, <4>1
    <3>4. Is(r, <<>>)
      BY <3>1, <3>2, <3>3
    <3>5. r.inBlock = FALSE /\ r.inCreate = FALSE /\ r.blockStack = t
      BY DEF Parts
    <3>7. w.parser = r /\ w.events = <<>>
      BY <1>5, <3>4, Zenon
    <3>8. Stacked(s, i, kind, t)
      BY <1>6, <2>0, <2>1 DEF Stacked, t
    <3> QED
      BY <2>0, <3>5, <3>7, <3>8, <1>b
  <2>2. CASE s = <<>>
    <3>1. Is(q, <<>>)
      BY <1>1, <1>6, <2>2, OpenIs DEF w
    <3>2. w.parser = q /\ w.events = <<>>
      BY <1>5, <3>1, Zenon
    <3>3. Stacked(s, i, kind, s)
      BY <1>6, <2>0, <2>2 DEF Stacked
    <3> QED
      BY <1>1, <2>0, <3>2, <3>3, <1>b
  <2> QED
    BY <2>1, <2>2
<1>7. CASE kind = "blockStart"
  <2>0. /\ kind \notin Held /\ kind # "gameEntity" /\ kind \notin Immediate
        /\ kind # "create" /\ kind # "blockEnd"
    BY <1>7 DEF Held, Immediate
  <2> DEFINE t == Append(s, i)
             r == Parts(FALSE, NoEvent, t, FALSE, NoEvent)
  <2>1. Is([q EXCEPT !.blockStack = Append(@, i)], <<>>)
    BY <1>1, <1>7, OpenIs DEF w
  <2>2. Append(q.blockStack, i) = t /\ t \in Seq(Nat)
    BY <1>1
  <2> HIDE DEF t
  <2>3. [q EXCEPT !.blockStack = t] = r
    <3>1. [q EXCEPT !.blockStack = t] = Parts(q.inBlock, q.pending, t, q.inCreate, q.createTags)
      BY <1>1, BlockStackChange, Zenon
    <3> QED
      BY <1>1, <3>1
  <2>4. Is(r, <<>>)
    BY <2>1, <2>2, <2>3
  <2>5. r.inBlock = FALSE /\ r.inCreate = FALSE /\ r.blockStack = t
    BY DEF Parts
  <2>6. w.parser = r /\ w.events = <<>>
    BY <1>5, <2>4, Zenon
  <2>7. Stacked(s, i, kind, t)
    BY <1>7, <2>0 DEF Stacked, t
  <2> QED
    BY <2>0, <2>5, <2>6, <2>7, <1>b
<1>8. CASE kind = "create"
  <2>0. /\ kind \notin Held /\ kind # "gameEntity" /\ kind \in Immediate
        /\ kind # "blockStart" /\ kind # "blockEnd"
    BY <1>8 DEF Held, Immediate
  <2> DEFINE r == Parts(FALSE, NoEvent, <<>>, FALSE, NoEvent)
  <2>1. Is(Reset(q), <<Event(kind, i, 0)>>)
    BY <1>1, <1>8, OpenIs DEF w
  <2>2. Reset(q) = r
    BY <1>1, EndedIs, Zenon
  <2>3. Event(kind, i, 0) = e
    <3>1. Own(kind, s) = 0
      BY <1>8 DEF Own
    <3> QED
      BY <3>1 DEF e
  <2>4. r.inBlock = FALSE /\ r.inCreate = FALSE /\ r.blockStack = <<>>
    BY DEF Parts
  <2>5. w.parser = r /\ w.events = <<e>>
    BY <1>5, <2>1, <2>2, <2>3, Zenon
  <2>6. Stacked(s, i, kind, <<>>)
    BY <1>8, <2>0 DEF Stacked
  <2> QED
    BY <2>0, <2>4, <2>5, <2>6, <1>b
<1>9. CASE kind = "gameEntity"
  <2>0. /\ kind \notin Held /\ kind \notin Immediate
        /\ kind # "create" /\ kind # "blockStart" /\ kind # "blockEnd"
    BY <1>9 DEF Held, Immediate
  <2> DEFINE r == Parts(FALSE, NoEvent, s, TRUE, e)
  <2>1. Event(kind, i, 0) = e
    <3>1. Own(kind, s) = 0
      BY <1>9 DEF Own
    <3> QED
      BY <3>1 DEF e
  <2>2. kind = "gameEntity" => Is([q EXCEPT !.inCreate = TRUE, !.createTags = Event(kind, i, 0)], <<>>)
    BY <1>1, OpenIs, Zenon DEF w
  <2>3. Is([q EXCEPT !.inCreate = TRUE, !.createTags = e], <<>>)
    BY <1>9, <2>1, <2>2, Zenon
  <2>4. [q EXCEPT !.inCreate = TRUE, !.createTags = e] = r
    <3>1. [q EXCEPT !.inCreate = TRUE, !.createTags = e] = Parts(q.inBlock, q.pending, q.blockStack, TRUE, e)
      BY <1>1, CreateTagsChange, Zenon
    <3> QED
      BY <1>1, <3>1
  <2>5. Is(r, <<>>)
    BY <2>3, <2>4, Zenon
  <2>6. r.inBlock = FALSE /\ r.inCreate = TRUE /\ r.blockStack = s /\ r.createTags = e
    BY DEF Parts
  <2>7. w.parser = r /\ w.events = <<>>
    BY <1>5, <2>5, Zenon
  <2>8. Stacked(s, i, kind, s)
    BY <2>0 DEF Stacked
  <2> QED
    BY <1>9, <2>0, <2>6, <2>7, <2>8, <1>b
<1>10. CASE kind \in Held
  <2>0. /\ kind # "gameEntity" /\ kind \notin Immediate
        /\ kind # "create" /\ kind # "blockStart" /\ kind # "blockEnd"
    BY <1>10 DEF Held, Immediate
  <2> DEFINE r == Parts(TRUE, e, s, FALSE, NoEvent)
  <2>1. kind \in Held => Is([q EXCEPT !.inBlock = TRUE, !.pending = Event(kind, i, Source(q, kind))], <<>>)
    BY <1>1, OpenIs, Zenon DEF w
  <2>2. Event(kind, i, Source(q, kind)) = e
    BY <1>2 DEF e
  <2>3. Is([q EXCEPT !.inBlock = TRUE, !.pending = e], <<>>)
    BY <1>10, <2>1, <2>2, Zenon
  <2>4. [q EXCEPT !.inBlock = TRUE, !.pending = e] = r
    <3>1. [q EXCEPT !.inBlock = TRUE, !.pending = e] = Parts(TRUE, e, q.blockStack, q.inCreate, q.createTags)
      BY <1>1, PendingChange, Zenon
    <3> QED
      BY <1>1, <3>1
  <2>5. Is(r, <<>>)
    BY <2>3, <2>4, Zenon
  <2>6. r.inBlock = TRUE /\ r.inCreate = FALSE /\ r.blockStack = s /\ r.pending = e
    BY DEF Parts
  <2>7. w.parser = r /\ w.events = <<>>
    BY <1>5, <2>5, Zenon
  <2>8. Stacked(s, i, kind, s)
    BY <2>0 DEF Stacked
  <2> QED
    BY <1>10, <2>0, <2>6, <2>7, <2>8, <1>b
<1>11. CASE kind \in Immediate \ {"create"}
  <2>0. /\ kind # "gameEntity" /\ kind \notin Held /\ kind \in Immediate
        /\ kind # "create" /\ kind # "blockStart" /\ kind # "blockEnd"
    BY <1>11 DEF Held, Immediate
  <2>1. Is(q, <<Event(kind, i, Source(q, kind))>>)
    BY <1>1, <1>11, OpenIs DEF w
  <2>2. Event(kind, i, Source(q, kind)) = e
    BY <1>2 DEF e
  <2>3. w.parser = q /\ w.events = <<e>>
    BY <1>5, <2>1, <2>2, Zenon
  <2>4. Stacked(s, i, kind, s)
    BY <2>0 DEF Stacked
  <2> QED
    BY <1>1, <2>0, <2>3, <2>4, <1>b
<1>12. CASE kind \in {"blockTag", "other", "foreign"}
  <2>0. /\ kind # "gameEntity" /\ kind \notin Held /\ kind \notin Immediate
        /\ kind # "create" /\ kind # "blockStart" /\ kind # "blockEnd"
    BY <1>12 DEF Held, Immediate
  <2>1. Is(q, <<>>)
    BY <1>1, <1>12, OpenIs DEF w
  <2>2. w.parser = q /\ w.events = <<>>
    BY <1>5, <2>1, Zenon
  <2>3. Stacked(s, i, kind, s)
    BY <2>0 DEF Stacked
  <2> QED
    BY <1>1, <2>0, <2>2, <2>3, <1>b
<1>13. kind \in Held \/ kind \in Immediate \ {"create"}
       \/ kind \in {"create", "gameEntity", "blockStart", "blockEnd", "blockTag", "other", "foreign"}
  BY DEF LineKind
<1> QED
  BY <1>6, <1>7, <1>8, <1>9, <1>10, <1>11, <1>12, <1>13

\* What a line does to what is held back, at its end.
LEMMA LeftIs ==
  ASSUME NEW p \in ParserType, NEW kind \in LineKind
  PROVE  LET ended == flushCreateGameEntityTags(p)
             left  == Leave(ended.parser, kind)
             s     == IF p.inBlock /\ kind = "create" THEN <<>> ELSE p.blockStack
         IN  /\ ended.parser = Parts(p.inBlock, p.pending, p.blockStack, FALSE, NoEvent)
             /\ left.parser = Parts(FALSE, NoEvent, s, FALSE, NoEvent)
             /\ ended.events \o left.events = HeldBack(p, kind = "create")
             /\ flushPending(ended.parser).events
                  = IF p.inBlock THEN <<p.pending>> ELSE <<>>
             /\ ended.events = IF p.inCreate /\ p.createTags.tags # {} THEN <<p.createTags>> ELSE <<>>
<1> DEFINE ended == flushCreateGameEntityTags(p)
           q     == Parts(p.inBlock, p.pending, p.blockStack, FALSE, NoEvent)
           left  == Leave(q, kind)
           h     == IF p.inCreate /\ p.createTags.tags # {} THEN <<p.createTags>> ELSE <<>>
           g     == IF p.inBlock THEN <<p.pending>> ELSE <<>>
           f     == IF p.inBlock /\ ~(kind = "create") THEN <<p.pending>> ELSE <<>>
           s     == IF p.inBlock /\ kind = "create" THEN <<>> ELSE p.blockStack
<1>0. FALSE \in BOOLEAN /\ NoEvent \in EventType
  BY NewTypes
<1>1. /\ p.inBlock \in BOOLEAN /\ p.pending \in EventType /\ p.blockStack \in Seq(Nat)
      /\ p.inCreate \in BOOLEAN /\ p.createTags \in EventType
  BY PartsAre, Zenon
<1>2. ended = With(q, h)
  BY EndedIs, Zenon
<1>3. ended.parser = q /\ ended.events = h
  <2> HIDE DEF q, h, ended
  <2> QED
    BY <1>2 DEF With
<1>4. /\ q.inBlock = p.inBlock /\ q.pending = p.pending /\ q.blockStack = p.blockStack
      /\ q.inCreate = FALSE /\ q.createTags = NoEvent
  BY DEF Parts
<1>5. q \in ParserType
  BY <1>0, <1>1, PartsMake, Zenon
<1> HIDE DEF q, EventType
<1>6. flushPending(q) = With(Parts(FALSE, NoEvent, p.blockStack, FALSE, NoEvent), g)
  <2>1. flushPending(q) = With(Parts(FALSE, NoEvent, q.blockStack, q.inCreate, q.createTags),
                               IF q.inBlock THEN <<q.pending>> ELSE <<>>)
    BY <1>5, EndedIs, Zenon
  <2>2. (IF q.inBlock THEN <<q.pending>> ELSE <<>>) = g
    BY <1>4
  <2>3. Parts(FALSE, NoEvent, q.blockStack, q.inCreate, q.createTags)
          = Parts(FALSE, NoEvent, p.blockStack, FALSE, NoEvent)
    BY <1>4
  <2> QED
    BY <2>1, <2>2, <2>3
<1>7. Reset(q) = Parts(FALSE, NoEvent, <<>>, FALSE, NoEvent)
  <2>1. Reset(q) = Parts(FALSE, NoEvent, <<>>, q.inCreate, q.createTags)
    BY <1>5, EndedIs, Zenon
  <2> QED
    BY <1>4, <2>1
<1>8. flushPending(q).events = g
  <2> HIDE DEF g
  <2> QED
    BY <1>6 DEF With
<1>9. left.parser = Parts(FALSE, NoEvent, s, FALSE, NoEvent) /\ left.events = f
  <2>1. CASE p.inBlock /\ kind = "create"
    <3>1. left = With(Reset(q), <<>>) /\ f = <<>> /\ s = <<>>
      BY <1>4, <2>1 DEF Leave
    <3> HIDE DEF left, f, s
    <3> QED
      BY <1>7, <3>1 DEF With
  <2>2. CASE ~(p.inBlock /\ kind = "create")
    <3>1. left = flushPending(q) /\ f = g /\ s = p.blockStack
      BY <1>4, <2>2 DEF Leave
    <3> HIDE DEF left, f, s, g
    <3> QED
      BY <1>6, <3>1 DEF With
  <2> QED
    BY <2>1, <2>2
<1>10. HeldBack(p, kind = "create") = h \o f
  BY DEF HeldBack
<1> HIDE DEF ended, left, h, g, f, s
<1>11. /\ ended.events \o left.events = HeldBack(p, kind = "create")
       /\ Leave(ended.parser, kind) = left /\ flushPending(ended.parser).events = g
  BY <1>3, <1>8, <1>9, <1>10 DEF left
<1> QED
  BY <1>3, <1>9, <1>11 DEF ended, g, h, s, q

\* A line that is no tag line of what is held back, to the parser as a whole.
LEMMA FeedOther ==
  ASSUME NEW p \in ParserType, NEW i \in Nat, NEW kind \in LineKind,
         kind # "foreign", ~(kind = "blockTag" /\ (p.inCreate \/ p.inBlock))
  PROVE  \E w : /\ Opened(w, p.blockStack, i, kind)
                /\ Feed(p, i, kind).parser = w.parser
                /\ Feed(p, i, kind).events = HeldBack(p, kind = "create") \o w.events
<1> DEFINE ended == flushCreateGameEntityTags(p)
           left  == Leave(ended.parser, kind)
           s     == IF p.inBlock /\ kind = "create" THEN <<>> ELSE p.blockStack
           w     == Open(left.parser, i, kind)
<1>1. Feed(p, i, kind) = With(w.parser, ended.events \o left.events \o w.events)
  BY FeedIs
<1>2. /\ left.parser = Parts(FALSE, NoEvent, s, FALSE, NoEvent)
      /\ ended.events \o left.events = HeldBack(p, kind = "create")
  BY LeftIs
<1>3. p.blockStack \in Seq(Nat)
  BY PartsAre
<1>4. s \in Seq(Nat)
  BY <1>3
<1>5. Own(kind, s) = Own(kind, p.blockStack)
  BY DEF Own
<1>6. \A t : Stacked(s, i, kind, t) => Stacked(p.blockStack, i, kind, t)
  BY DEF Stacked
<1> HIDE DEF s
<1>7. Opened(Open(Parts(FALSE, NoEvent, s, FALSE, NoEvent), i, kind), s, i, kind)
  BY <1>4, OpenParts
<1> HIDE DEF left
<1>8. Opened(w, s, i, kind)
  BY <1>2, <1>7
<1> HIDE DEF w
<1>9. Opened(w, p.blockStack, i, kind)
  BY <1>5, <1>6, <1>8 DEF Opened
<1> HIDE DEF ended
<1>10. /\ Feed(p, i, kind).parser = w.parser
       /\ Feed(p, i, kind).events = ended.events \o left.events \o w.events
  <2> DEFINE es == ended.events \o left.events \o w.events
             q  == w.parser
  <2>1. Feed(p, i, kind) = With(q, es)
    BY <1>1
  <2> HIDE DEF es, q
  <2>2. Feed(p, i, kind).parser = q /\ Feed(p, i, kind).events = es
    BY <2>1 DEF With
  <2> QED
    BY <2>2 DEF es, q
<1>11. Feed(p, i, kind).events = HeldBack(p, kind = "create") \o w.events
  BY <1>2, <1>10
<1> QED
  BY <1>9, <1>10, <1>11

\* At the end of the log everything held back is emitted.
LEMMA FlushOther ==
  ASSUME NEW p \in ParserType
  PROVE  Flush(p).events = HeldBack(p, FALSE)
<1> DEFINE ended == flushCreateGameEntityTags(p)
           left  == flushPending(ended.parser)
<1>1. Flush(p) = With(left.parser, ended.events \o left.events)
  BY DEF Flush
<1>2. /\ left.events = IF p.inBlock THEN <<p.pending>> ELSE <<>>
      /\ ended.events = IF p.inCreate /\ p.createTags.tags # {} THEN <<p.createTags>> ELSE <<>>
  <2>1. "other" \in LineKind
    BY DEF LineKind
  <2> QED
    BY <2>1, LeftIs
<1> HIDE DEF ended, left
<1>3. Flush(p).events = ended.events \o left.events
  <2> DEFINE es == ended.events \o left.events
             q  == left.parser
  <2>1. Flush(p) = With(q, es)
    BY <1>1
  <2> HIDE DEF es, q
  <2>2. Flush(p).events = es
    BY <2>1 DEF With
  <2> QED
    BY <2>2 DEF es
<1> QED
  BY <1>2, <1>3 DEF HeldBack

-----------------------------------------------------------------------------
(* Parser: what is held back is the last line that begins something *)

\* An event is held back for a kind of lines when such a line has only tag
\* lines behind it, and then it is that line's.
HeldFor(l, K, on, e) ==
  /\ on => \E i \in 1..Len(l) : l[i] \in K /\ Trailing(l, i) /\ e = ExpectedEvent(l, i)
  /\ \A i \in 1..Len(l) : l[i] \in K /\ Trailing(l, i) => on

\* Both events the parser can hold back are those of the last lines.
HeldInv(l, p) ==
  /\ HeldFor(l, Held, p.inBlock, p.pending)
  /\ HeldFor(l, {"gameEntity"}, p.inCreate, p.createTags)

\* What is held back is the event of the line that is over.
LEMMA HeldOut ==
  ASSUME NEW l \in Seq(LineKind), NEW p \in ParserType, HeldInv(l, p), NEW discards \in BOOLEAN
  PROVE  \/ HeldBack(p, discards) = <<>> /\ Over(l, discards) = {}
         \/ \E i \in 1..Len(l) : /\ Over(l, discards) = {i}
                                 /\ HeldBack(p, discards) = <<ExpectedEvent(l, i)>>
<1> DEFINE h == IF p.inCreate /\ p.createTags.tags # {} THEN <<p.createTags>> ELSE <<>>
           f == IF p.inBlock /\ ~discards THEN <<p.pending>> ELSE <<>>
           Opens(i) == i \in 1..Len(l) /\ Trailing(l, i) /\ l[i] \notin Quiet
<1>1. /\ p.inBlock => \E i \in 1..Len(l) : l[i] \in Held /\ Trailing(l, i) /\ p.pending = ExpectedEvent(l, i)
      /\ \A i \in 1..Len(l) : l[i] \in Held /\ Trailing(l, i) => p.inBlock
      /\ p.inCreate => \E i \in 1..Len(l) : /\ l[i] = "gameEntity" /\ Trailing(l, i)
                                            /\ p.createTags = ExpectedEvent(l, i)
      /\ \A i \in 1..Len(l) : l[i] = "gameEntity" /\ Trailing(l, i) => p.inCreate
  BY DEF HeldInv, HeldFor
<1>2. HeldBack(p, discards) = h \o f
  BY DEF HeldBack
<1>3. \A i, j : Opens(i) /\ Opens(j) => i = j
  BY OneTrails
<1>4. \A i : i \in Over(l, discards) <=>
               /\ i \in 1..Len(l) /\ Trailing(l, i)
               /\ (l[i] \in Held /\ ~discards) \/ (l[i] = "gameEntity" /\ Body(l, i) # {})
  BY DEF Over
<1>5. \A i \in 1..Len(l) : l[i] = "gameEntity" => ExpectedEvent(l, i).tags = Body(l, i)
  BY KindsApart DEF ExpectedEvent
<1>6. \A i : i \in Over(l, discards) => Opens(i)
  BY <1>4, KindsApart
<1>7. CASE p.inCreate
  <2>1. PICK i \in 1..Len(l) : /\ l[i] = "gameEntity" /\ Trailing(l, i)
                               /\ p.createTags = ExpectedEvent(l, i)
    BY <1>1, <1>7
  <2>2. Opens(i)
    BY <2>1, KindsApart
  <2>3. ~p.inBlock
    <3> SUFFICES ASSUME p.inBlock PROVE FALSE
      OBVIOUS
    <3>1. PICK j \in 1..Len(l) : l[j] \in Held /\ Trailing(l, j)
      BY <1>1
    <3>2. Opens(j)
      BY <3>1, KindsApart
    <3> QED
      BY <1>3, <2>1, <2>2, <3>1, <3>2, KindsApart
  <2>4. p.createTags.tags = Body(l, i)
    BY <1>5, <2>1
  <2>5. f = <<>>
    BY <2>3
  <2> HIDE DEF Opens, f
  <2>6. CASE Body(l, i) = {}
    <3>1. h = <<>>
      BY <2>4, <2>6
    <3>2. Over(l, discards) = {}
      <4> SUFFICES ASSUME NEW j \in Over(l, discards) PROVE FALSE
        OBVIOUS
      <4>1. j = i
        BY <1>3, <1>6, <2>2
      <4> QED
        BY <1>4, <2>1, <2>6, <4>1, KindsApart
    <3> QED
      BY <1>2, <2>5, <3>1, <3>2
  <2>7. CASE Body(l, i) # {}
    <3>1. h = <<ExpectedEvent(l, i)>>
      BY <1>7, <2>1, <2>4, <2>7
    <3>2. i \in Over(l, discards)
      BY <1>4, <2>1, <2>7
    <3>3. Over(l, discards) = {i}
      BY <1>3, <1>6, <2>2, <3>2
    <3> HIDE DEF h
    <3> QED
      BY <1>2, <2>5, <3>1, <3>3
  <2> QED
    BY <2>6, <2>7
<1>8. CASE ~p.inCreate
  <2>1. h = <<>>
    BY <1>8
  <2>2. \A i \in Over(l, discards) : l[i] \in Held /\ ~discards /\ p.inBlock
    BY <1>1, <1>4, <1>8
  <2> HIDE DEF h
  <2>3. CASE p.inBlock /\ ~discards
    <3>1. PICK i \in 1..Len(l) : l[i] \in Held /\ Trailing(l, i) /\ p.pending = ExpectedEvent(l, i)
      BY <1>1, <2>3
    <3>2. i \in Over(l, discards)
      BY <1>4, <2>3, <3>1
    <3>3. Over(l, discards) = {i}
      <4> HIDE DEF Opens
      <4> QED
        BY <1>3, <1>6, <3>2
    <3>4. f = <<ExpectedEvent(l, i)>>
      BY <2>3, <3>1
    <3> HIDE DEF f
    <3> QED
      BY <1>2, <2>1, <3>3, <3>4
  <2>4. CASE ~(p.inBlock /\ ~discards)
    <3>1. f = <<>>
      BY <2>4
    <3>2. Over(l, discards) = {}
      BY <2>2, <2>4
    <3> HIDE DEF f
    <3> QED
      BY <1>2, <2>1, <3>1, <3>2
  <2> QED
    BY <2>3, <2>4
<1> QED
  BY <1>1, <1>7, <1>8

\* What is held back stays so while tag lines and foreign lines follow.
LEMMA HeldQuiet ==
  ASSUME NEW l \in Seq(LineKind), NEW kind \in Quiet, NEW s, StackInv(l, s),
         NEW K \in {Held, {"gameEntity"}}, NEW on, NEW e, HeldFor(l, K, on, e)
  PROVE  LET l2 == Append(l, kind)
         IN  /\ kind = "foreign" => HeldFor(l2, K, on, e)
             /\ kind = "blockTag" => HeldFor(l2, K, on, Tagged(e, Len(l) + 1))
             /\ ~on => \A e2 : HeldFor(l2, K, on, e2)
<1> DEFINE m  == Len(l)
           l2 == Append(l, kind)
           n  == m + 1
<1>0. kind \in LineKind
  BY DEF Quiet, LineKind
<1>1. /\ l2[n] = kind /\ Len(l2) = n /\ m \in Nat
      /\ \A i \in 1..m : l2[i] = l[i] /\ i \in 1..n
      /\ \A i \in 1..m : Trailing(l2, i) <=> Trailing(l, i)
  BY <1>0, NewestIs
<1>2. \A i \in 1..n : i \in 1..m \/ i = n
  BY <1>1
<1>3. kind \notin K /\ \A k \in K : k \notin Immediate
  BY KindsApart
<1>4. \A i \in 1..m :
        /\ l[i] \in Immediate \/ ~Trailing(l, i) \/ kind # "blockTag" =>
             ExpectedEvent(l2, i) = ExpectedEvent(l, i)
        /\ l[i] \notin Immediate /\ Trailing(l, i) /\ kind = "blockTag" =>
             ExpectedEvent(l2, i) = Tagged(ExpectedEvent(l, i), n)
  BY <1>0, ExpectedGrows
<1>5. /\ on => \E i \in 1..m : l[i] \in K /\ Trailing(l, i) /\ e = ExpectedEvent(l, i)
      /\ \A i \in 1..m : l[i] \in K /\ Trailing(l, i) => on
  BY DEF HeldFor
<1> HIDE DEF l2, m
<1>6. \A i \in 1..n : l2[i] \in K /\ Trailing(l2, i) => on
  BY <1>1, <1>2, <1>3, <1>5
<1>7. ASSUME ~on, NEW e2 PROVE HeldFor(l2, K, on, e2)
  BY <1>1, <1>6, <1>7 DEF HeldFor
<1>8. ASSUME kind = "foreign" PROVE HeldFor(l2, K, on, e)
  <2>1. on => \E i \in 1..n : l2[i] \in K /\ Trailing(l2, i) /\ e = ExpectedEvent(l2, i)
    <3> SUFFICES ASSUME on PROVE \E i \in 1..n : l2[i] \in K /\ Trailing(l2, i) /\ e = ExpectedEvent(l2, i)
      OBVIOUS
    <3>1. PICK i \in 1..m : l[i] \in K /\ Trailing(l, i) /\ e = ExpectedEvent(l, i)
      BY <1>5
    <3>2. i \in 1..n /\ l2[i] \in K /\ Trailing(l2, i)
      BY <1>1, <3>1
    <3>3. ExpectedEvent(l2, i) = ExpectedEvent(l, i)
      BY <1>4, <1>8
    <3> QED
      BY <3>1, <3>2, <3>3
  <2> QED
    BY <1>1, <1>6, <2>1 DEF HeldFor
<1>9. ASSUME kind = "blockTag" PROVE HeldFor(l2, K, on, Tagged(e, n))
  <2>1. on => \E i \in 1..n : l2[i] \in K /\ Trailing(l2, i) /\ Tagged(e, n) = ExpectedEvent(l2, i)
    <3> SUFFICES ASSUME on
                 PROVE \E i \in 1..n : l2[i] \in K /\ Trailing(l2, i) /\ Tagged(e, n) = ExpectedEvent(l2, i)
      OBVIOUS
    <3>1. PICK i \in 1..m : l[i] \in K /\ Trailing(l, i) /\ e = ExpectedEvent(l, i)
      BY <1>5
    <3>2. i \in 1..n /\ l2[i] \in K /\ Trailing(l2, i)
      BY <1>1, <3>1
    <3>3. ExpectedEvent(l2, i) = Tagged(ExpectedEvent(l, i), n)
      BY <1>3, <1>4, <1>9, <3>1
    <3> QED
      BY <3>1, <3>2, <3>3
  <2> QED
    BY <1>1, <1>6, <2>1 DEF HeldFor
<1> QED
  BY <1>7, <1>8, <1>9 DEF l2, m

\* Another line ends what was held back, and may be held back in its place.
LEMMA HeldLoud ==
  ASSUME NEW l \in Seq(LineKind), NEW kind \in LineKind \ Quiet, NEW s, StackInv(l, s),
         NEW K, NEW on, NEW e, on <=> kind \in K,
         kind \in K => e = Event(kind, Len(l) + 1, Own(kind, s))
  PROVE  HeldFor(Append(l, kind), K, on, e)
<1> DEFINE m  == Len(l)
           l2 == Append(l, kind)
           n  == m + 1
<1>1. /\ l2[n] = kind /\ Len(l2) = n /\ m \in Nat /\ n \in 1..n /\ Trailing(l2, n)
      /\ \A i \in 1..m : ~Trailing(l2, i)
  BY NewestIs
<1>2. \A i \in 1..n : i \in 1..m \/ i = n
  BY <1>1
<1>3. ExpectedEvent(l2, n) = Event(kind, n, Own(kind, s))
  BY ExpectedGrows
<1> HIDE DEF l2, m
<1>4. \A i \in 1..n : l2[i] \in K /\ Trailing(l2, i) => on
  BY <1>1, <1>2
<1>5. on => \E i \in 1..n : l2[i] \in K /\ Trailing(l2, i) /\ e = ExpectedEvent(l2, i)
  BY <1>1, <1>3 DEF m
<1>6. HeldFor(l2, K, on, e)
  BY <1>1, <1>4, <1>5 DEF HeldFor
<1> QED
  BY <1>6 DEF l2

\* The events are those expected of a set of lines, in the order of the lines.
Listed(l, S, es) ==
  /\ es \in Seq(EventType)
  /\ \A k \in 1..Len(es) : es[k].of \in S /\ es[k] = ExpectedEvent(l, es[k].of)
  /\ \A i \in S : \E k \in 1..Len(es) : es[k].of = i
  /\ \A k, h \in 1..Len(es) : k < h => es[k].of < es[h].of

\* One more event, of a later line.
LEMMA ListedAppend ==
  ASSUME NEW l, NEW S, NEW es, Listed(l, S, es), NEW i \in Nat, \A j \in S : j < i,
         ExpectedEvent(l, i) \in EventType
  PROVE  Listed(l, S \cup {i}, Append(es, ExpectedEvent(l, i)))
<1> DEFINE e   == ExpectedEvent(l, i)
           es2 == Append(es, e)
           n   == Len(es)
<1>1. /\ es \in Seq(EventType) /\ n \in Nat
      /\ \A k \in 1..n : es[k].of \in S /\ es[k] = ExpectedEvent(l, es[k].of)
      /\ \A j \in S : \E k \in 1..n : es[k].of = j
      /\ \A k, h \in 1..n : k < h => es[k].of < es[h].of
  BY DEF Listed
<1>2. e.of = i
  BY DEF ExpectedEvent
<1>3. e \in EventType /\ e = ExpectedEvent(l, i)
  OBVIOUS
<1> HIDE DEF e, EventType
<1>4. /\ es2 \in Seq(EventType) /\ Len(es2) = n + 1 /\ es2[n + 1] = e
      /\ \A k \in 1..n : es2[k] = es[k] /\ k \in 1..(n + 1)
  BY <1>1, <1>3
<1>5. \A k \in 1..(n + 1) : k \in 1..n \/ k = n + 1
  BY <1>1
<1>6. n + 1 \in 1..(n + 1) /\ n + 1 \notin 1..n
  BY <1>1
<1>7. \A k, h \in 1..(n + 1) : k < h => k \in 1..n
  BY <1>1
<1> DEFINE c == n + 1
<1> HIDE DEF es2, n, c
<1>8. \A k \in 1..c : es2[k].of \in S \cup {i} /\ es2[k] = ExpectedEvent(l, es2[k].of)
  BY <1>1, <1>2, <1>3, <1>4, <1>5, Zenon DEF c
<1>9. \A j \in S \cup {i} : \E k \in 1..c : es2[k].of = j
  <2> TAKE j \in S \cup {i}
  <2>1. CASE j \in S
    <3>1. PICK k \in 1..n : es[k].of = j
      BY <1>1, <2>1
    <3>2. k \in 1..c /\ es2[k] = es[k]
      BY <1>4, Zenon DEF c
    <3> QED
      BY <3>1, <3>2
  <2>2. CASE j = i
    <3>1. c \in 1..c /\ es2[c] = e
      BY <1>4, <1>6, Zenon DEF c
    <3> QED
      BY <1>2, <2>2, <3>1
  <2> QED
    BY <2>1, <2>2
<1>10. ASSUME NEW k \in 1..c, NEW h \in 1..c, k < h PROVE es2[k].of < es2[h].of
  <2>1. k \in 1..n /\ es2[k] = es[k]
    BY <1>4, <1>7, <1>10 DEF c
  <2>2. CASE h \in 1..n
    BY <1>1, <1>4, <1>10, <2>1, <2>2
  <2>3. CASE h = c
    <3>1. es2[h].of = i
      BY <1>2, <1>4, <2>3 DEF c
    <3>2. es[k].of < i
      BY <1>1, <2>1
    <3> QED
      BY <2>1, <3>1, <3>2
  <2> QED
    BY <1>5, <2>2, <2>3 DEF c
<1>11. Listed(l, S \cup {i}, es2)
  BY <1>4, <1>8, <1>9, <1>10, Zenon DEF Listed, c
<1> QED
  BY <1>11 DEF es2, e

\* The log may grow as long as what is expected of these lines stays.
LEMMA ListedSame ==
  ASSUME NEW l, NEW l2, NEW S, NEW es, Listed(l, S, es),
         \A i \in S : ExpectedEvent(l2, i) = ExpectedEvent(l, i)
  PROVE  Listed(l2, S, es)
<1> HIDE DEF EventType
<1> QED
  BY Zenon DEF Listed

-----------------------------------------------------------------------------
(* Parser: one event for each line that begins one *)

\* What the parser knows of the log, and the events so far.
ParserOK(l, p, es) ==
  /\ StackInv(l, p.blockStack)
  /\ HeldInv(l, p)
  /\ Listed(l, Marked(l, FALSE), es)

\* The lines that have their event expect the same while tag lines follow.
LEMMA MarkedStay ==
  ASSUME NEW l \in Seq(LineKind), NEW i \in Marked(l, FALSE)
  PROVE  i \in 1..Len(l) /\ (l[i] \in Immediate \/ ~Trailing(l, i))
<1>1. i \in 1..Len(l) /\ HasEvent(l, FALSE, i)
  BY DEF Marked
<1>2. Trailing(l, i) => Ends(l, i) = {}
  BY <1>1, EndsFirst
<1> QED
  BY <1>1, <1>2 DEF HasEvent

\* The event of what is over follows all the events so far.
LEMMA ListedHeld ==
  ASSUME NEW l \in Seq(LineKind), NEW p \in ParserType, NEW es, ParserOK(l, p, es),
         NEW discards \in BOOLEAN
  PROVE  /\ HeldBack(p, discards) \in Seq(EventType)
         /\ Listed(l, Marked(l, FALSE) \cup Over(l, discards), es \o HeldBack(p, discards))
<1> DEFINE h == HeldBack(p, discards)
           S == Marked(l, FALSE)
<1>1. HeldInv(l, p) /\ Listed(l, S, es)
  BY DEF ParserOK
<1>2. p.pending \in EventType /\ p.createTags \in EventType
  BY PartsAre
<1> HIDE DEF S, EventType
<1>3. es \in Seq(EventType)
  BY <1>1 DEF Listed
<1>4. h \in Seq(EventType)
  BY <1>2 DEF HeldBack
<1>5. \/ h = <<>> /\ Over(l, discards) = {}
      \/ \E i \in 1..Len(l) : Over(l, discards) = {i} /\ h = <<ExpectedEvent(l, i)>>
  BY <1>1, HeldOut
<1> HIDE DEF h
<1>6. CASE h = <<>> /\ Over(l, discards) = {}
  <2>1. es \o h = es /\ S \cup Over(l, discards) = S
    BY <1>3, <1>6
  <2> QED
    BY <1>1, <1>4, <2>1 DEF h, S
<1>7. ASSUME NEW i \in 1..Len(l), Over(l, discards) = {i}, h = <<ExpectedEvent(l, i)>>
      PROVE  Listed(l, S \cup Over(l, discards), es \o h)
  <2> DEFINE e == ExpectedEvent(l, i)
  <2> HIDE DEF e
  <2>1. h = <<e>>
    BY <1>7 DEF e
  <2>2. e \in EventType
    BY <1>4, <2>1
  <2>3. es \o h = Append(es, e)
    BY <1>3, <2>1, <2>2
  <2>4. \A j \in S : j < i
    BY <1>7, OverLast DEF S
  <2>5. i \in Nat
    OBVIOUS
  <2>6. Listed(l, S \cup {i}, Append(es, e))
    BY <1>1, <2>2, <2>4, <2>5, ListedAppend DEF e
  <2> QED
    BY <1>7, <2>3, <2>6
<1> QED
  BY <1>4, <1>5, <1>6, <1>7 DEF h, S

\* Never are both an entity and the tags of a game held back.
LEMMA HeldApart ==
  ASSUME NEW l \in Seq(LineKind), NEW a, NEW e, NEW b, NEW f,
         HeldFor(l, Held, a, e), HeldFor(l, {"gameEntity"}, b, f), a, b
  PROVE  FALSE
<1>1. PICK i \in 1..Len(l) : l[i] \in Held /\ Trailing(l, i)
  BY DEF HeldFor
<1>2. PICK j \in 1..Len(l) : l[j] = "gameEntity" /\ Trailing(l, j)
  BY DEF HeldFor
<1>3. i = j
  BY <1>1, <1>2, OneTrails, KindsApart
<1> QED
  BY <1>1, <1>2, <1>3, KindsApart

\* One more line.
LEMMA ParserStep ==
  ASSUME NEW l \in Seq(LineKind), NEW p \in ParserType, NEW es, ParserOK(l, p, es),
         NEW kind \in LineKind
  PROVE  LET w == Feed(p, Len(l) + 1, kind)
         IN  ParserOK(Append(l, kind), w.parser, es \o w.events)
<1> DEFINE m  == Len(l)
           l2 == Append(l, kind)
           n  == m + 1
           w  == Feed(p, n, kind)
           s  == p.blockStack
           S  == Marked(l, FALSE)
           K2 == {"gameEntity"}
<1>0. /\ m \in Nat /\ n \in Nat /\ l2 \in Seq(LineKind) /\ \A i \in 1..m : i < n
  OBVIOUS
<1>1. StackInv(l, s) /\ HeldInv(l, p) /\ Listed(l, S, es)
  BY DEF ParserOK
<1>2. /\ HeldFor(l, Held, p.inBlock, p.pending)
      /\ HeldFor(l, K2, p.inCreate, p.createTags)
  BY <1>1 DEF HeldInv
<1>3. es \in Seq(EventType)
  BY <1>1 DEF Listed
<1>4. Marked(l2, FALSE) = S \cup (IF kind \notin Quiet THEN Over(l, kind = "create") ELSE {})
                            \cup (IF kind \in Immediate THEN {n} ELSE {})
  BY MarkedGrows
<1>5. /\ \A i \in 1..m : l[i] \in Immediate \/ ~Trailing(l, i) \/ kind # "blockTag" =>
             ExpectedEvent(l2, i) = ExpectedEvent(l, i)
      /\ ExpectedEvent(l2, n) = Event(kind, n, Own(kind, s))
  BY <1>1, ExpectedGrows
<1>6. \A t : Stacked(s, n, kind, t) => StackInv(l2, t)
  BY <1>1, StackKept
<1>7. Held \in {Held, K2} /\ K2 \in {Held, K2}
  OBVIOUS
<1>8. \A i \in S : i \in 1..m /\ (l[i] \in Immediate \/ ~Trailing(l, i))
  BY MarkedStay
<1>9. /\ p.inBlock \in BOOLEAN /\ p.pending \in EventType /\ p.inCreate \in BOOLEAN
      /\ p.createTags \in EventType /\ s \in Seq(Nat)
      /\ p = Parts(p.inBlock, p.pending, s, p.inCreate, p.createTags)
  BY PartsAre, Zenon
<1> HIDE DEF m, l2, S, EventType, n
<1>10. ASSUME kind \in Quiet PROVE /\ Listed(l2, Marked(l2, FALSE), es)
                                   /\ StackInv(l2, s) /\ es \o <<>> = es
  <2>1. Marked(l2, FALSE) = S
    BY <1>4, <1>10, KindsApart
  <2>2. \A i \in S : ExpectedEvent(l2, i) = ExpectedEvent(l, i)
    BY <1>5, <1>8
  <2>3. Listed(l2, S, es)
    BY <1>1, <2>2, ListedSame
  <2>4. Stacked(s, n, kind, s)
    BY <1>10, KindsApart DEF Stacked
  <2>5. StackInv(l2, s)
    BY <1>6, <2>4, Zenon
  <2>6. es \o <<>> = es
    BY <1>3
  <2> QED
    BY <2>1, <2>3, <2>5, <2>6, Zenon
<1>11. \A q : w = With(q, <<>>) => w.parser = q /\ w.events = <<>>
  <2> HIDE DEF w
  <2> QED
    BY DEF With
<1>12. CASE kind = "foreign"
  <2>1. w = With(p, <<>>)
    BY <1>0, <1>12, FeedIs
  <2> HIDE DEF w
  <2>2. w.parser = p /\ w.events = <<>>
    BY <1>11, <2>1
  <2>3. kind \in Quiet
    BY <1>12 DEF Quiet
  <2>4. HeldFor(l2, Held, p.inBlock, p.pending)
    BY <1>1, <1>2, <1>7, <1>12, <2>3, HeldQuiet DEF l2
  <2>5. HeldFor(l2, K2, p.inCreate, p.createTags)
    BY <1>1, <1>2, <1>7, <1>12, <2>3, HeldQuiet DEF l2
  <2>6. ParserOK(l2, w.parser, es \o w.events)
    BY <1>10, <2>2, <2>3, <2>4, <2>5 DEF ParserOK, HeldInv
  <2> QED
    BY <2>6 DEF l2, n, m, w
<1>13. CASE kind = "blockTag" /\ (p.inCreate \/ p.inBlock)
  <2> DEFINE e == IF p.inCreate THEN p.pending ELSE Tagged(p.pending, n)
             f == IF p.inCreate THEN Tagged(p.createTags, n) ELSE p.createTags
             q == Parts(p.inBlock, e, s, p.inCreate, f)
  <2>1. w = With(q, <<>>)
    BY <1>0, <1>9, <1>13, FeedIs
  <2> HIDE DEF w, q
  <2>2. w.parser = q /\ w.events = <<>>
    BY <1>11, <2>1
  <2>3. kind \in Quiet
    BY <1>13 DEF Quiet
  <2>4. HeldFor(l2, Held, p.inBlock, Tagged(p.pending, n)) /\ HeldFor(l2, K2, p.inCreate, Tagged(p.createTags, n))
    BY <1>1, <1>2, <1>7, <1>13, <2>3, HeldQuiet DEF l2, n, m
  <2>5. p.inCreate => ~p.inBlock
    BY <1>2, HeldApart
  <2>6. HeldFor(l2, Held, p.inBlock, e)
    <3>1. CASE p.inCreate
      BY <2>5, <2>4, <3>1 DEF HeldFor
    <3>2. CASE ~p.inCreate
      BY <2>4, <3>2
    <3> QED
      BY <3>1, <3>2
  <2>7. HeldFor(l2, K2, p.inCreate, f)
    <3>1. CASE p.inCreate
      BY <2>4, <3>1
    <3>2. CASE ~p.inCreate
      BY <2>4, <3>2 DEF HeldFor
    <3> QED
      BY <3>1, <3>2
  <2> HIDE DEF e, f
  <2>8. /\ q.inBlock = p.inBlock /\ q.pending = e /\ q.blockStack = s
        /\ q.inCreate = p.inCreate /\ q.createTags = f
    BY DEF q, Parts
  <2>9. ParserOK(l2, w.parser, es \o w.events)
    BY <1>10, <2>2, <2>3, <2>6, <2>7, <2>8 DEF ParserOK, HeldInv
  <2> QED
    BY <2>9 DEF l2, n, m, w
<1>14. CASE kind # "foreign" /\ ~(kind = "blockTag" /\ (p.inCreate \/ p.inBlock))
  <2> DEFINE c == kind = "create"
             h == HeldBack(p, c)
             e == Event(kind, n, Own(kind, s))
  <2>1. PICK v : /\ Opened(v, s, n, kind)
                 /\ w.parser = v.parser /\ w.events = h \o v.events
    BY <1>0, <1>14, FeedOther
  <2> HIDE DEF w
  <2>2. /\ v.parser.inBlock <=> kind \in Held
        /\ v.parser.inCreate <=> kind \in K2
        /\ kind \in Held => v.parser.pending = e
        /\ kind \in K2 => v.parser.createTags = e
        /\ Stacked(s, n, kind, v.parser.blockStack)
        /\ v.events = IF kind \in Immediate THEN <<e>> ELSE <<>>
    BY <2>1 DEF Opened
  <2>3. StackInv(l2, v.parser.blockStack)
    BY <1>6, <2>2
  <2>4. c \in BOOLEAN
    OBVIOUS
  <2>5. h \in Seq(EventType) /\ Listed(l, S \cup Over(l, c), es \o h)
    BY <2>4, ListedHeld, Zenon DEF S
  <2>6. e \in EventType
    <3>1. Own(kind, s) \in Nat
      BY <1>9 DEF Own
    <3> QED
      BY <1>0, <3>1, EventTypes
  <2>7. CASE kind = "blockTag"
    <3>1. ~p.inCreate /\ ~p.inBlock
      BY <1>14, <2>7
    <3>2. kind \in Quiet /\ kind \notin Held /\ kind \notin K2 /\ kind \notin Immediate
      BY <2>7, KindsApart DEF Quiet
    <3>3. h = <<>> /\ v.events = <<>>
      BY <2>2, <3>1, <3>2 DEF HeldBack
    <3>4. w.events = <<>>
      BY <2>1, <3>3
    <3>5. HeldFor(l2, Held, p.inBlock, v.parser.pending) /\ HeldFor(l2, K2, p.inCreate, v.parser.createTags)
      BY <1>1, <1>2, <1>7, <3>1, <3>2, HeldQuiet DEF l2
    <3>6. HeldFor(l2, Held, v.parser.inBlock, v.parser.pending)
          /\ HeldFor(l2, K2, v.parser.inCreate, v.parser.createTags)
      BY <2>2, <3>1, <3>2, <3>5 DEF HeldFor
    <3>7. ParserOK(l2, w.parser, es \o w.events)
      BY <1>10, <2>1, <2>3, <3>2, <3>4, <3>6 DEF ParserOK, HeldInv
    <3> QED
      BY <3>7 DEF l2, n, m, w
  <2>8. CASE kind \notin Quiet
    <3>1. kind \in LineKind \ Quiet
      BY <2>8
    <3>2. HeldFor(l2, Held, v.parser.inBlock, v.parser.pending)
      BY <1>1, <2>2, <3>1, HeldLoud DEF l2, n, m
    <3>3. HeldFor(l2, K2, v.parser.inCreate, v.parser.createTags)
      BY <1>1, <2>2, <3>1, HeldLoud DEF l2, n, m
    <3> DEFINE T   == S \cup Over(l, c)
               es1 == es \o h
    <3>4. \A i \in T : i \in 1..m
      BY <1>8 DEF Over, m
    <3>5. kind # "blockTag"
      BY <2>8 DEF Quiet
    <3>6. \A i \in T : ExpectedEvent(l2, i) = ExpectedEvent(l, i)
      BY <1>5, <3>4, <3>5
    <3>7. Listed(l, T, es1) /\ es1 \in Seq(EventType)
      BY <1>3, <2>5
    <3>8. Marked(l2, FALSE) = T \cup (IF kind \in Immediate THEN {n} ELSE {})
      BY <1>4, <2>8
    <3>9. \A i \in T : i < n
      BY <1>0, <3>4
    <3> HIDE DEF T, e
    <3>10. es \o w.events = es1 \o v.events /\ v.events \in Seq(EventType)
      <4>1. v.events \in Seq(EventType)
        BY <2>2, <2>6
      <4> HIDE DEF h
      <4>2. es \o (h \o v.events) = (es \o h) \o v.events
        <5>1. h \in Seq(EventType) /\ v.events \in Seq(EventType) /\ es \in Seq(EventType)
          BY <1>3, <2>5, <4>1
        <5> DEFINE g == v.events
        <5>2. g \in Seq(EventType)
          BY <5>1
        <5> HIDE DEF g
        <5>3. (es \o h) \o g = es \o (h \o g)
          BY <5>1, <5>2, ConcatAssociative
        <5> QED
          BY <5>3 DEF g
      <4> QED
        BY <2>1, <4>1, <4>2
    <3> HIDE DEF es1
    <3>11. Listed(l2, T, es1)
      BY <3>6, <3>7, ListedSame
    <3>12. Listed(l2, Marked(l2, FALSE), es1 \o v.events)
      <4>1. CASE kind \in Immediate
        <5>1. v.events = <<e>> /\ Marked(l2, FALSE) = T \cup {n}
          BY <2>2, <3>8, <4>1
        <5>2. es1 \o <<e>> = Append(es1, e)
          BY <2>6, <3>7
        <5>3. ExpectedEvent(l2, n) = e
          BY <1>5 DEF e
        <5>4. Listed(l2, T \cup {n}, Append(es1, ExpectedEvent(l2, n)))
          BY <1>0, <2>6, <3>9, <3>11, <5>3, ListedAppend
        <5> QED
          BY <5>1, <5>2, <5>3, <5>4
      <4>2. CASE kind \notin Immediate
        <5>1. v.events = <<>> /\ Marked(l2, FALSE) = T
          BY <2>2, <3>8, <4>2
        <5>2. es1 \o <<>> = es1
          BY <3>7
        <5> QED
          BY <3>11, <5>1, <5>2
      <4> QED
        BY <4>1, <4>2
    <3>13. ParserOK(l2, w.parser, es \o w.events)
      BY <2>1, <2>3, <3>2, <3>3, <3>10, <3>12 DEF ParserOK, HeldInv
    <3> QED
      BY <3>13 DEF l2, n, m, w
  <2> QED
    BY <1>14, <2>7, <2>8 DEF Quiet
<1> QED
  BY <1>12, <1>13, <1>14

\* The end of the log.
LEMMA FlushStep ==
  ASSUME NEW l \in Seq(LineKind), NEW p \in ParserType, NEW es, ParserOK(l, p, es)
  PROVE  Listed(l, Marked(l, TRUE), es \o Flush(p).events)
<1>1. "other" \in LineKind /\ FALSE \in BOOLEAN
  BY DEF LineKind
<1>2. Marked(l, TRUE) = Marked(l, FALSE) \cup Over(l, FALSE)
  BY <1>1, MarkedGrows
<1>3. Flush(p).events = HeldBack(p, FALSE)
  BY FlushOther
<1>4. Listed(l, Marked(l, FALSE) \cup Over(l, FALSE), es \o HeldBack(p, FALSE))
  BY <1>1, ListedHeld, Zenon
<1> QED
  BY <1>2, <1>3, <1>4

\* While the log is read the parser knows it; once it is read its events are whole.
EventsOK ==
  /\ stage = "loading" => ParserOK(log, parser, events)
  /\ stage = "loaded" => Listed(log, Marked(log, TRUE), events)

\* An empty log has no events.
LEMMA EventsInit == ReplayInit => EventsOK
<1> SUFFICES ASSUME ReplayInit PROVE ParserOK(log, parser, events)
  BY DEF ReplayInit, EventsOK
<1>1. log = <<>> /\ parser = New /\ events = <<>>
  BY DEF ReplayInit
<1>2. parser.inBlock = FALSE /\ parser.inCreate = FALSE /\ parser.blockStack = <<>>
  BY <1>1 DEF New
<1>3. Len(log) = 0 /\ Len(events) = 0 /\ Len(parser.blockStack) = 0
  BY <1>1, <1>2
<1>4. 1..0 = {} /\ 0 + 1 = 1 /\ 1..(1 - 1) = {}
  OBVIOUS
<1>5. Around(log, 1) = {}
  BY <1>4 DEF Around
<1>6. StackInv(log, parser.blockStack)
  BY <1>2, <1>3, <1>4, <1>5 DEF StackInv
<1>7. HeldInv(log, parser)
  BY <1>2, <1>3, <1>4 DEF HeldInv, HeldFor
<1>8. Marked(log, FALSE) = {}
  BY <1>3, <1>4 DEF Marked
<1>9. events \in Seq(EventType)
  BY <1>1
<1> HIDE DEF EventType
<1>10. Listed(log, Marked(log, FALSE), events)
  BY <1>3, <1>4, <1>8, <1>9 DEF Listed
<1> QED
  BY <1>6, <1>7, <1>10 DEF ParserOK

\* Every step of the loader keeps what the parser knows.
LEMMA EventsStep ==
  ASSUME LoadOK, EventsOK, [ReplayNext]_replayVars
  PROVE  EventsOK'
<1>1. log \in Seq(LineKind) /\ parser \in ParserType
  BY DEF LoadOK
<1>2. CASE ReadLine
  <2>1. stage = "loading" /\ stage' = "loading"
    BY <1>2 DEF ReadLine, modeVars
  <2>2. PICK kind \in LineKind :
          /\ log' = Append(log, kind)
          /\ parser' = Feed(parser, Len(log) + 1, kind).parser
          /\ events' = events \o Feed(parser, Len(log) + 1, kind).events
    BY <1>2, Zenon DEF ReadLine
  <2>3. ParserOK(log, parser, events)
    BY <2>1 DEF EventsOK
  <2>4. ParserOK(log', parser', events')
    BY <1>1, <2>2, <2>3, ParserStep
  <2> QED
    BY <2>1, <2>4 DEF EventsOK, ParserOK
<1>3. CASE FinishLoad
  <2>1. /\ stage = "loading" /\ stage' = "loaded" /\ log' = log
        /\ events' = events \o Flush(parser).events
    BY <1>3 DEF FinishLoad, Flushed
  <2>2. ParserOK(log, parser, events)
    BY <2>1 DEF EventsOK
  <2>3. Listed(log, Marked(log, TRUE), events')
    BY <1>1, <2>1, <2>2, FlushStep
  <2> QED
    BY <2>1, <2>3 DEF EventsOK
<1>4. CASE stage' \notin {"loading", "loaded"}
  BY <1>4 DEF EventsOK
<1>5. CASE UNCHANGED <<log, parser, events, stage>>
  BY <1>5 DEF EventsOK, ParserOK
<1>6. \/ ReadLine \/ FinishLoad \/ stage' \notin {"loading", "loaded"}
      \/ UNCHANGED <<log, parser, events, stage>>
  <2>1. CASE UNCHANGED replayVars
    BY <2>1 DEF replayVars, modeVars, loadVars
  <2>2. CASE NextFile
    BY <2>2 DEF NextFile, modeVars
  <2>3. CASE OpenLogs \/ OpenStore \/ Reloaded \/ switchSource \/ Dismiss \/ PickGame \/ OpenPicker
             \/ Move \/ Refilter \/ Quit
    BY <2>3 DEF OpenLogs, OpenStore, Reloaded, switchSource, Dismiss, PickGame, OpenPicker, Move,
                Refilter, Quit, Normal, Pressed, Picker, modeVars, loadVars
  <2> QED
    BY <2>1, <2>2, <2>3 DEF ReplayNext
<1> QED
  BY <1>2, <1>3, <1>4, <1>5, <1>6

\* The parser emits exactly the events that are expected of the log, in order.
THEOREM EventsExactHolds == ReplaySpec => []EventsExact
<1>1. ReplayInv /\ EventsOK /\ [ReplayNext]_replayVars => EventsOK'
  BY EventsStep DEF ReplayInv
<1>2. EventsOK => EventsExact
  <2> SUFFICES ASSUME EventsOK, stage \in {"loading", "loaded"}
               PROVE  /\ events = [k \in 1..Len(events) |-> ExpectedEvent(log, events[k].of)]
                      /\ {events[k].of : k \in 1..Len(events)}
                           = {i \in 1..Len(log) : HasEvent(log, stage = "loaded", i)}
                      /\ \A k \in 1..(Len(events) - 1) : events[k].of < events[k + 1].of
    BY DEF EventsExact
  <2> DEFINE f == stage = "loaded"
             S == Marked(log, f)
  <2>1. Listed(log, S, events)
    <3>1. CASE stage = "loading"
      <4>1. f = FALSE
        BY <3>1
      <4> HIDE DEF f
      <4> QED
        BY <3>1, <4>1 DEF EventsOK, ParserOK
    <3>2. CASE stage = "loaded"
      <4>1. f = TRUE
        BY <3>2
      <4> HIDE DEF f
      <4> QED
        BY <3>2, <4>1 DEF EventsOK
    <3> QED
      BY <3>1, <3>2
  <2>2. S = {i \in 1..Len(log) : HasEvent(log, stage = "loaded", i)}
    BY Zenon DEF Marked
  <2> HIDE DEF f, S, EventType
  <2>3. /\ events \in Seq(EventType)
        /\ \A k \in 1..Len(events) : events[k].of \in S /\ events[k] = ExpectedEvent(log, events[k].of)
        /\ \A i \in S : \E k \in 1..Len(events) : events[k].of = i
        /\ \A k, h \in 1..Len(events) : k < h => events[k].of < events[h].of
    BY <2>1 DEF Listed
  <2>4. {events[k].of : k \in 1..Len(events)} = S
    BY <2>3
  <2>5. events = [k \in 1..Len(events) |-> ExpectedEvent(log, events[k].of)]
    <3>1. events = [k \in 1..Len(events) |-> events[k]]
      BY <2>3
    <3> QED
      BY <2>3, <3>1
  <2>6. \A k \in 1..(Len(events) - 1) : events[k].of < events[k + 1].of
    <3> TAKE k \in 1..(Len(events) - 1)
    <3>1. Len(events) \in Nat
      BY <2>3
    <3>2. k \in 1..Len(events) /\ k + 1 \in 1..Len(events) /\ k < k + 1
      BY <3>1
    <3> QED
      BY <2>3, <3>2
  <2> QED
    BY <2>2, <2>4, <2>5, <2>6
<1> QED
  BY <1>1, <1>2, EventsInit, ReplayHolds, PTL DEF ReplaySpec
=============================================================================
