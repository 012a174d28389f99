------------------------------ MODULE Watcher ------------------------------
(***************************************************************************)
(* The log watcher: it tails Power.log of the newest session directory,    *)
(* switches to the next one when it appears, and hands the lines over a    *)
(* bounded channel to the goroutine that feeds the parser.  Switching and  *)
(* stopping run in goroutines of their own, under a mutex, while senders   *)
(* may be parked on the full channel.                                      *)
(*                                                                         *)
(* A critical section of w.mu is one action.  Lines are numbered within    *)
(* their session; session 0 is the log directory itself, which is tailed   *)
(* when it has no session yet and whose own Power.log never appears.       *)
(***************************************************************************)
EXTENDS Integers, Sequences, SequencesExt

CONSTANTS
  MaxSessions,  \* bound on session directories
  MaxLines,     \* bound on the lines of one session
  Capacity      \* of the Lines channel; 512 in the source

ASSUME BoundsAssumption ==
  {MaxSessions, MaxLines} \subseteq Nat /\ Capacity \in Nat \ {0}

Dirs     == 0..MaxSessions
Line     == Dirs \X (1..MaxLines)

VARIABLES
  \* The client.
  sessions,     \* session directories so far
  written,      \* lines written to the Power.log of each
  \* The Watcher.
  boot,         \* how far New and the start of watchForNewSessions have got
  dir,          \* the directory New resolved
  tail,         \* the tail of each directory: none, live or stopped
  offset,       \* lines each tail has read
  sender,       \* the goroutine that forwards its lines
  lines, linesClosed,
  done,         \* w.done is closed
  stopped,      \* w.stopped
  stopping,     \* where Stop is
  \* watchForNewSessions
  created,      \* fsnotify events not taken yet
  switcher,     \* where the loop is
  target,       \* the directory it is switching to
  \* The daemon's context and the goroutine that reads Lines.
  cancelled, ingesting,
  ingested      \* History: the lines it has fed to the parser

clientVars == <<sessions, written>>
tailVars   == <<tail, offset, sender>>
chanVars   == <<lines, linesClosed>>
stopVars   == <<done, stopped, stopping>>
fsVars     == <<created, switcher, target>>
readVars   == <<cancelled, ingesting, ingested>>
vars == <<clientVars, boot, dir, tailVars, chanVars, stopVars, fsVars, readVars>>

TypeOK ==
  /\ sessions \in Dirs /\ written \in [Dirs -> 0..MaxLines]
  /\ boot \in {"resolve", "tail", "watch", "up"} /\ dir \in Dirs
  /\ tail \in [Dirs -> {"none", "live", "stopped"}]
  /\ offset \in [Dirs -> 0..MaxLines]
  /\ sender \in [Dirs -> {"none", "waiting", "parked", "gone"}]
  /\ lines \in Seq(Line) /\ Len(lines) <= Capacity /\ linesClosed \in BOOLEAN
  /\ done \in BOOLEAN /\ stopped \in BOOLEAN
  /\ stopping \in {"no", "begun", "waiting", "returned"}
  /\ created \in Seq(Dirs) /\ target \in Dirs
  /\ switcher \in {"none", "selecting", "switching", "gone"}
  /\ cancelled \in BOOLEAN /\ ingesting \in BOOLEAN /\ ingested \in Seq(Line)

Init ==
  /\ sessions \in 0..1 /\ sessions <= MaxSessions
  /\ written = [d \in Dirs |-> 0]
  /\ boot = "resolve" /\ dir = 0
  /\ tail = [d \in Dirs |-> "none"] /\ offset = [d \in Dirs |-> 0]
  /\ sender = [d \in Dirs |-> "none"]
  /\ lines = <<>> /\ linesClosed = FALSE
  /\ done = FALSE /\ stopped = FALSE /\ stopping = "no"
  /\ created = <<>> /\ switcher = "none" /\ target = 0
  /\ cancelled = FALSE /\ ingesting = TRUE /\ ingested = <<>>

-----------------------------------------------------------------------------
(* The client *)

\* Hearthstone starts; inotify reports the directory once the watch is there.
NewSession ==
  /\ sessions < MaxSessions
  /\ sessions' = sessions + 1
  /\ created' = IF boot = "up" /\ switcher # "gone"
                THEN Append(created, sessions') ELSE created
  /\ UNCHANGED <<written, boot, dir, tailVars, chanVars, stopVars, switcher,
                 target, readVars>>

WriteLine ==
  /\ sessions > 0 /\ written[sessions] < MaxLines
  /\ written' = [written EXCEPT ![sessions] = @ + 1]
  /\ UNCHANGED <<sessions, boot, dir, tailVars, chanVars, stopVars, fsVars,
                 readVars>>

-----------------------------------------------------------------------------
(* Tails and senders *)

\* fromStart: a tail begins at the first line.
StartOffset_end(d) == written[d] \* mutant: at the end of the file
StartOffset(d) == 0

\* startTails, under w.mu: no tail, and no sender, once Stop has been there.
Refuses_never == FALSE \* mutant: Stop is not looked for
Refuses_onceTailing == \* mutant: stopTails does not forget the tails
  stopped \/ \E d \in Dirs : tail[d] # "none"
Refuses == stopped

StartTails(d) ==
  IF Refuses THEN UNCHANGED tailVars
  ELSE /\ tail' = [tail EXCEPT ![d] = "live"]
       /\ offset' = [offset EXCEPT ![d] = StartOffset(d)]
       /\ sender' = [sender EXCEPT ![d] = "waiting"]

\* stopTailsLocked
StopTails_none == UNCHANGED tail \* mutant: the old tail runs on
StopTails == tail' = [d \in Dirs |-> IF tail[d] = "live" THEN "stopped" ELSE tail[d]]

HasLine_pastEnd(d) == offset[d] <= written[d] \* mutant: reads past the end
HasLine(d) == offset[d] < written[d]

\* The sender takes a line of its tail, which does not buffer, ...
TakeLine(d) ==
  /\ tail[d] = "live" /\ sender[d] = "waiting" /\ HasLine(d)
  /\ offset' = [offset EXCEPT ![d] = @ + 1]
  /\ sender' = [sender EXCEPT ![d] = "parked"]
  /\ UNCHANGED <<clientVars, boot, dir, tail, chanVars, stopVars, fsVars, readVars>>

\* ... and sends it on, when the channel has room for it.
SendLine(d) ==
  /\ sender[d] = "parked" /\ Len(lines) < Capacity
  /\ lines' = Append(lines, <<d, offset[d]>>)
  /\ sender' = [sender EXCEPT ![d] = "waiting"]
  /\ UNCHANGED <<clientVars, boot, dir, tail, offset, linesClosed, stopVars, fsVars,
                 readVars>>

\* It ends when its tail is closed, or in either of its selects when told to.
Selecting_waiting == {"waiting"} \* mutant: the send is no select
Selecting == {"waiting", "parked"}

SenderEnds(d) ==
  /\ \/ sender[d] = "waiting" /\ tail[d] = "stopped"
     \/ sender[d] \in Selecting /\ (cancelled \/ done)
  /\ sender' = [sender EXCEPT ![d] = "gone"]
  /\ UNCHANGED <<clientVars, boot, dir, tail, offset, chanVars, stopVars, fsVars,
                 readVars>>

-----------------------------------------------------------------------------
(* New and watchForNewSessions *)

\* resolveLogDir: the newest session, or the log directory itself.
ResolveLogDir ==
  /\ boot = "resolve"
  /\ boot' = "tail" /\ dir' = sessions
  /\ UNCHANGED <<clientVars, tailVars, chanVars, stopVars, fsVars, readVars>>

FirstTails ==
  /\ boot = "tail"
  /\ boot' = "watch"
  /\ StartTails(dir)
  /\ UNCHANGED <<clientVars, dir, chanVars, stopVars, fsVars, readVars>>

\* fsw.Add, in the goroutine of watchForNewSessions.
AddWatch ==
  /\ boot = "watch"
  /\ boot' = "up" /\ switcher' = "selecting"
  /\ UNCHANGED <<clientVars, dir, tailVars, chanVars, stopVars, created, target,
                 readVars>>

\* A session directory was created: stopTails, ...
LeaveOldSession ==
  /\ switcher = "selecting" /\ created # <<>>
  /\ target' = Head(created) /\ created' = Tail(created)
  /\ switcher' = "switching"
  /\ StopTails
  /\ UNCHANGED <<clientVars, boot, dir, offset, sender, chanVars, stopVars, readVars>>

\* ... and, under the mutex again, startTails.
EnterNewSession ==
  /\ switcher = "switching"
  /\ switcher' = "selecting"
  /\ StartTails(target)
  /\ UNCHANGED <<clientVars, boot, dir, chanVars, stopVars, created, target, readVars>>

WatchEnds ==
  /\ switcher = "selecting" /\ (cancelled \/ done)
  /\ switcher' = "gone" /\ created' = <<>>
  /\ UNCHANGED <<clientVars, boot, dir, tailVars, chanVars, stopVars, target, readVars>>

-----------------------------------------------------------------------------
(* Stop *)

Cancel ==
  /\ ~cancelled /\ cancelled' = TRUE
  /\ UNCHANGED <<clientVars, boot, dir, tailVars, chanVars, stopVars, fsVars,
                 ingesting, ingested>>

\* stopOnCancel, shutdown, or the error path of New: close(w.done), ...
StopBegins ==
  /\ boot \in {"watch", "up"} /\ stopping = "no"
  /\ stopping' = "begun" /\ done' = TRUE
  /\ UNCHANGED <<clientVars, boot, dir, tailVars, chanVars, stopped, fsVars, readVars>>

\* ... the critical section, ...
StopUnderLock ==
  /\ stopping = "begun"
  /\ stopping' = "waiting" /\ stopped' = TRUE
  /\ StopTails
  /\ UNCHANGED <<clientVars, boot, dir, offset, sender, chanVars, done, fsVars,
                 readVars>>

\* ... and, when every sender has ended, close(w.lines).
CloseLines ==
  /\ stopping = "waiting" /\ \A d \in Dirs : sender[d] \in {"none", "gone"}
  /\ stopping' = "returned" /\ linesClosed' = TRUE
  /\ UNCHANGED <<clientVars, boot, dir, tailVars, lines, done, stopped, fsVars,
                 readVars>>

-----------------------------------------------------------------------------
(* Line ingestion *)

Ingest ==
  /\ ingesting /\ lines # <<>>
  /\ lines' = Tail(lines)
  /\ ingested' = Append(ingested, Head(lines))
  /\ UNCHANGED <<clientVars, boot, dir, tailVars, linesClosed, stopVars, fsVars,
                 cancelled, ingesting>>

IngestEnds ==
  /\ ingesting /\ (cancelled \/ (linesClosed /\ lines = <<>>))
  /\ ingesting' = FALSE
  /\ UNCHANGED <<clientVars, boot, dir, tailVars, chanVars, stopVars, fsVars,
                 cancelled, ingested>>

-----------------------------------------------------------------------------
Sender(d) == TakeLine(d) \/ SendLine(d) \/ SenderEnds(d)
Booting   == ResolveLogDir \/ FirstTails \/ AddWatch
Switching == LeaveOldSession \/ EnterNewSession \/ WatchEnds
Stopping  == StopUnderLock \/ CloseLines
Reader    == Ingest \/ IngestEnds

Next ==
  \/ NewSession \/ WriteLine \/ Cancel \/ StopBegins
  \/ \E d \in Dirs : Sender(d)
  \/ Booting \/ Switching \/ Stopping \/ Reader

Safe == Init /\ [][Next]_vars

\* Every goroutine is scheduled; the context is watched by stopOnCancel.
Spec ==
  /\ Safe
  /\ \A d \in Dirs : WF_vars(Sender(d))
  /\ WF_vars(Booting) /\ WF_vars(Switching) /\ WF_vars(Stopping) /\ WF_vars(Reader)
  /\ WF_vars(cancelled /\ StopBegins)

-----------------------------------------------------------------------------
(* What the watcher promises *)

Alive(d) == sender[d] \in {"waiting", "parked"}

\* Lines is closed only when no sender is left and none can come: a switch of
\* sessions in the middle of Stop starts nothing, so no one sends on a closed
\* channel.
ClosedMeansQuiet == linesClosed => \A d \in Dirs : ~Alive(d) /\ tail[d] # "live"

Delivered == ingested \o lines

\* The lines of a session arrive from its first on, in order, none lost and none
\* twice, however often sessions are switched: a line follows the one before it
\* in its session, and no later one of that session.
WholeFromTheStart ==
  \A j \in DOMAIN Delivered :
    LET d == Delivered[j][1]
        k == Delivered[j][2]
    IN  /\ k > 1 => \E i \in 1..(j - 1) : Delivered[i] = <<d, k - 1>>
        /\ \A i \in 1..(j - 1) : Delivered[i][1] = d => Delivered[i][2] < k

\* A sender that was parked when its session was left may still deliver the line
\* it holds, after lines of the new session: one such line, and no second.
OneLateLine ==
  \A d \in Dirs :
    Cardinality({j \in DOMAIN Delivered :
                   /\ Delivered[j][1] = d
                   /\ \E i \in 1..(j - 1) : Delivered[i][1] > d}) <= 1

\* Stop returns, though the channel may be full with no one left to drain it and
\* a switch of sessions may be under way.
StopReturns == stopping = "begun" ~> stopping = "returned"

\* A session that appears once the watch is set is tailed, unless the watcher is
\* stopped, and every line of a session arrives unless it is left or stopped.
SessionsAreTailed ==
  \A d \in Dirs \ {0} :
    (boot = "up" /\ Contains(created, d)) ~> (tail[d] # "none" \/ cancelled \/ done)
LinesArrive ==
  /\ SessionsAreTailed
  /\ \A d \in Dirs \ {0} : \A k \in 1..MaxLines :
       (tail[d] = "live" /\ written[d] >= k) ~>
         (Contains(Delivered, <<d, k>>) \/ tail[d] = "stopped" \/ cancelled \/ done)
=============================================================================
