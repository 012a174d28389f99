----------------------------- MODULE Discovery -----------------------------
(***************************************************************************)
(* How Hearthstone is found on a disk: the probe of a directory, the walk  *)
(* below one, and the scans of the setup wizard and of the daemon.  A      *)
(* directory tree is given by its directories in the order of a walk; the  *)
(* disk says what each directory holds.                                    *)
(***************************************************************************)
EXTENDS Naturals, SequencesExt

CONSTANTS
  WalkOrder,    \* the directories, a parent before its children
  Parent,       \* the parent of each, NoDir at the top
  NoDir,
  DriveC,       \* the drive_c of a Wine prefix, NoDir for other directories
  SearchRoots   \* where the default scan looks, in order

Dirs == ToSet(WalkOrder)

ASSUME TreeAssumption ==
  /\ WalkOrder \in Seq(Dirs) /\ SearchRoots \in Seq(Dirs) /\ NoDir \notin Dirs
  /\ Parent \in [Dirs -> Dirs \cup {NoDir}] /\ DriveC \in [Dirs -> Dirs \cup {NoDir}]

\* What probeRoot looks for: the game or its Logs directory, or Power.log itself.
Marks == {"game", "power"}

Install(root, log) == [root |-> root, log |-> log]

Above[d \in Dirs] == IF Parent[d] = NoDir THEN {} ELSE {Parent[d]} \cup Above[Parent[d]]

\* probeRoot
LooksRight(disk, d) == disk[d] # {}

\* The logs of an install are in its own Logs directory; the logs directory itself
\* may be all that there is, and then the install is its parent.
ProbeRoot(disk, d) ==
  IF "game" \in disk[d] THEN Install(d, d) ELSE Install(Parent[d], d)

\* WalkForAllInstalls does not enter an install.
Outermost(disk, start, d) ==
  \A a \in Above[d] : a = start \/ start \in Above[a] => ~LooksRight(disk, a)

WalkForAllInstalls(disk, start) ==
  LET Found(d) == /\ d = start \/ start \in Above[d]
                  /\ LooksRight(disk, d) /\ Outermost(disk, start, d)
      Add(all, d) == IF Found(d) THEN Append(all, ProbeRoot(disk, d)) ELSE all
  IN  FoldLeft(Add, <<>>, WalkOrder)

\* WalkForInstall stops at the first.
FirstOf(s) == IF s = <<>> THEN <<>> ELSE <<s[1]>>

DiscoverFromRoot(disk, root) ==
  CASE LooksRight(disk, root) -> <<ProbeRoot(disk, root)>>
    [] ~LooksRight(disk, root) /\ DriveC[root] # NoDir ->
         FirstOf(WalkForAllInstalls(disk, DriveC[root]))
    [] OTHER -> <<>>

DiscoverAllFromRoot(disk, root) ==
  CASE LooksRight(disk, root) -> <<ProbeRoot(disk, root)>>
    [] ~LooksRight(disk, root) /\ DriveC[root] # NoDir ->
         WalkForAllInstalls(disk, DriveC[root])
    [] OTHER -> <<>>

\* Every install root once.
AddUnseen(all, info) ==
  IF \E i \in DOMAIN all : all[i].root = info.root THEN all ELSE Append(all, info)

DiscoverAll(disk) ==
  LET AddAll(all, root) == FoldLeft(AddUnseen, all, DiscoverAllFromRoot(disk, root))
  IN  FoldLeft(AddAll, <<>>, SearchRoots)

\* Discover: the first of the search roots with an install.
Discover(disk) ==
  LET Until(found, root) == IF found = <<>> THEN DiscoverFromRoot(disk, root) ELSE found
  IN  FoldLeft(Until, <<>>, SearchRoots)

\* doScan: the default scan, or the directory that was typed and all below it.
DoScan(disk, path) ==
  IF path = NoDir THEN DiscoverAll(disk)
  ELSE LET direct == DiscoverFromRoot(disk, path)
       IN  IF direct # <<>> THEN direct ELSE WalkForAllInstalls(disk, path)
=============================================================================
