------------------------------- MODULE Setup -------------------------------
(***************************************************************************)
(* How battlestream is set up and started: the wizard that finds installs, *)
(* names them and saves them as profiles (internal/tui/discover.go), the   *)
(* configuration file it and the dashboard write (internal/config), and    *)
(* what a start of the program makes of that file and of the game's        *)
(* log.config (cmd/battlestream/main.go).                                  *)
(*                                                                         *)
(* One process runs at a time.  In the wizard a scan runs beside the keys, *)
(* and its result may come at any step; in the dashboard every release of  *)
(* a divider starts a goroutine that saves the layout.                     *)
(***************************************************************************)
EXTENDS Discovery, LogConfig, FiniteSets, TLC

CONSTANTS
  Bases,        \* the names of profiles, but for a number and their case
  Base,         \* of each directory: baseProfileName
  Prefix,       \* of each directory: the Wine prefix whose log.config counts
  Typed,        \* the names a user types
  Typable,      \* the directories a user types, to scan them
  Layouts,      \* the layouts of the dashboard
  NoLayout,
  Disks,        \* what the disk may hold
  FirstLogs,    \* what the log.config of each prefix may hold
  FirstFiles,   \* what the configuration file may be
  MaxSessions,  \* bound: starts of the program
  LastSetup,    \* bound: the last start that may be one of the wizard
  MaxScans,     \* bound: scans under way
  MaxSavers     \* bound: savers under way

\* What the parameters are: names and installs, configurations and the files that hold
\* them, log.configs of whatever sections and settings, disks on which a directory of
\* logs lies in another one, of the same prefix.
Names    == [base : Bases, nth : Nat, upper : BOOLEAN]
Installs == [root : Dirs \cup {NoDir}, log : Dirs \cup {NoDir}]

IsConfig(c) ==
  /\ c \in [profiles : {c.profiles}, active : Names, tui : {c.tui}, addr : {c.addr}]
  /\ DOMAIN c.profiles \subseteq Names /\ IsFiniteSet(DOMAIN c.profiles)
  /\ c.profiles \in [DOMAIN c.profiles -> Installs]

NoFile == [state |-> "missing"]
Broken == [state |-> "unreadable"]
IsFile(f) ==
  f \in {NoFile, Broken}
  \/ /\ f \in [config : {f.config}, legacy : {f.legacy}]
     /\ IsConfig(f.config) /\ f.legacy \in Seq(Installs)

IsSection(s) ==
  s = [name |-> s.name, fields |-> [k \in DOMAIN s.fields |-> s.fields[k]]]
IsLog(c) == c \in Seq(ToSet(c)) /\ \A i \in DOMAIN c : IsSection(c[i])
AreLogs(ls) ==
  /\ ls = [p \in DOMAIN ls |-> ls[p]] /\ \A p \in DOMAIN ls : IsLog(ls[p])
  /\ \A d \in Dirs : Prefix[d] \in DOMAIN ls

IsDisk(d) ==
  /\ d \in [Dirs -> SUBSET Marks]
  /\ \A x \in Dirs : d[x] # {} /\ "game" \notin d[x] =>
       Parent[x] # NoDir /\ Prefix[Parent[x]] = Prefix[x]

ASSUME SetupAssumption ==
  /\ {"", "default"} \subseteq Bases /\ Base \in [Dirs -> Bases]
  /\ Typed \subseteq Names /\ Typable \subseteq Dirs
  /\ \A d \in Disks : IsDisk(d)
  /\ \A ls \in FirstLogs : AreLogs(ls)
  /\ \A f \in FirstFiles : IsFile(f)

VARIABLES
  disk,      \* the marks in each directory
  logs,      \* the log.config of each prefix
  file,      \* the configuration file: NoFile, Broken or a document
  at,        \* "idle", "setup", "saved" (set up, about to run), "running"
  cfg,       \* config.Config of the process
  wiz,       \* DiscoverModel
  scans,     \* the scans under way, by what is scanned
  run,       \* the profile the daemon runs with and what became of log.config
  savers,    \* SaveTUI goroutines that have not written
  sessions,  \* starts so far
  \* History
  logs0,     \* log.config as it was in the beginning
  chosen     \* the install the last setup made active, if its names are plain

vars == <<disk, logs, file, at, cfg, wiz, scans, run, savers, sessions, logs0, chosen>>

----------------------------------------------------------------------------
(* Names of profiles.  Viper reads keys in lower case, values as they are. *)

Profile(base, nth) == [base |-> base, nth |-> nth, upper |-> FALSE]
Lower(n) == [n EXCEPT !.upper = FALSE]
NoName == Profile("", 0)

\* suggestProfileName: the base, or the first of base-2, base-3, ... not in use.
SuggestProfileName(root, used) ==
  LET free == {i \in 1..(Cardinality(used) + 1) : Profile(Base[root], i) \notin used}
  IN  Profile(Base[root], CHOOSE i \in free : \A j \in free : i <= j)

----------------------------------------------------------------------------
(* The configuration and its file.                                         *)

Unset == Install(NoDir, NoDir)         \* a profile with no paths: NewProfileConfig
None  == <<>>                          \* a map with no keys

Config(profiles, active, tui, addr) ==
  [profiles |-> profiles, active |-> active, tui |-> tui, addr |-> addr]
Defaults == Config(None, NoName, NoLayout, "default")
Blank    == Config(None, NoName, NoLayout, "blank")   \* &config.Config{}

\* A document: a configuration, and the flat keys of an older release if it has them.
Document(c, legacy) == [config |-> c, legacy |-> legacy]

\* Of two keys that differ in case only, either survives the reading.
Lowered(profiles) ==
  {q \in [{Lower(n) : n \in DOMAIN profiles} -> {profiles[n] : n \in DOMAIN profiles}] :
     \A l \in DOMAIN q : \E n \in DOMAIN profiles : Lower(n) = l /\ q[l] = profiles[n]}

\* Load: the configurations that may result, none if the file cannot be read.
Load(f) ==
  CASE f = NoFile -> {Defaults}
    [] f = Broken -> {}
    [] f \notin {NoFile, Broken} /\ f.config.profiles = None /\ f.legacy # None ->
         {[f.config EXCEPT !.profiles = [n \in {Profile("default", 1)} |-> f.legacy[1]],
                           !.active = Profile("default", 1)]}
    [] OTHER -> {[f.config EXCEPT !.profiles = q] : q \in Lowered(f.config.profiles)}

AddProfile(c, name, install, setActive) ==
  [c EXCEPT !.profiles = [n \in {name} \cup DOMAIN @ |-> IF n = name THEN install ELSE c.profiles[n]],
            !.active = IF setActive \/ @ = NoName THEN name ELSE @]

\* GetProfile without a name, as a sequence of at most one profile.
GetProfile(c) ==
  CASE c.profiles = None -> <<Unset>>
    [] Cardinality(DOMAIN c.profiles) = 1 -> <<c.profiles[CHOOSE n \in DOMAIN c.profiles : TRUE]>>
    [] Cardinality(DOMAIN c.profiles) > 1 /\ c.active \in DOMAIN c.profiles ->
         <<c.profiles[c.active]>>
    [] OTHER -> <<>>

HasUsableProfile(c) == c.profiles # None \/ Discover(disk) # <<>>

----------------------------------------------------------------------------
(* The wizard: what its keys do.                                           *)

NewDiscoverModel(thenRun) ==
  [step |-> "scan", installs |-> <<>>, cursor |-> 1, focused |-> FALSE, clear |-> FALSE,
   profiles |-> <<>>, inputs |-> <<>>, nameIdx |-> 1, active |-> 1, thenRun |-> thenRun]

NoWizard == NewDiscoverModel(FALSE)

Selected(w) ==
  FoldLeft(LAMBDA infos, i : IF i.selected THEN Append(infos, i.info) ELSE infos,
           <<>>, w.installs)
NeedsNaming(w) == Len(Selected(w)) > 1

\* addInstall
AddInstall(w, info) ==
  IF \E i \in DOMAIN w.installs : w.installs[i].info.root = info.root THEN w
  ELSE [w EXCEPT !.installs = Append(@, [info |-> info, selected |-> TRUE]),
                 !.cursor = Len(w.installs) + 1]

\* buildNamingInputs: one name after the other, each different from those before.
Suggestions(infos) ==
  FoldLeft(LAMBDA names, info : Append(names, SuggestProfileName(info.root, ToSet(names))),
           <<>>, infos)

BuildNamingInputs(w, infos) ==
  [w EXCEPT !.profiles = [i \in DOMAIN infos |-> [install |-> infos[i], name |-> NoName]],
            !.inputs = Suggestions(infos), !.nameIdx = 1]

AdvanceFromScan_active(w) == \* mutant: the radio button stays where it was
  IF NeedsNaming(w) THEN [BuildNamingInputs(w, Selected(w)) EXCEPT !.step = "naming"]
  ELSE LET info == Selected(w)[1]
       IN  [w EXCEPT !.profiles = <<[install |-> info, name |-> Profile(Base[info.root], 1)]>>,
                     !.step = "summary"]
AdvanceFromScan(w) ==
  IF NeedsNaming(w) THEN [BuildNamingInputs(w, Selected(w)) EXCEPT !.step = "naming"]
  ELSE LET info == Selected(w)[1]
       IN  [w EXCEPT !.profiles = <<[install |-> info, name |-> Profile(Base[info.root], 1)]>>,
                     !.active = 1, !.step = "summary"]

\* The key alone, in a step of the wizard.
Key(step, w) ==
  /\ at = "setup" /\ wiz.step = step
  /\ wiz' = w
  /\ UNCHANGED <<disk, logs, file, at, cfg, scans, run, savers, sessions, logs0, chosen>>

InList == wiz.step = "scan" /\ ~wiz.focused

MoveCursor ==
  /\ InList
  /\ \E c \in {wiz.cursor - 1, wiz.cursor + 1} :
       c \in DOMAIN wiz.installs /\ Key("scan", [wiz EXCEPT !.cursor = c])

ToggleInstall ==
  /\ InList /\ wiz.installs # <<>>
  /\ Key("scan", [wiz EXCEPT !.installs[wiz.cursor].selected = ~@])

DeleteInstall ==
  /\ InList /\ wiz.installs # <<>>
  /\ LET left == RemoveAt(wiz.installs, wiz.cursor)
     IN  Key("scan", [wiz EXCEPT !.installs = left,
                        !.cursor = IF @ > Len(left) /\ @ > 1 THEN @ - 1 ELSE @])

ClearAll ==
  InList /\ Key("scan", [wiz EXCEPT !.installs = <<>>, !.cursor = 1, !.clear = TRUE])

FocusInput == InList /\ Key("scan", [wiz EXCEPT !.focused = TRUE])
BlurInput  == wiz.focused /\ Key("scan", [wiz EXCEPT !.focused = FALSE])

Advance ==
  InList /\ Selected(wiz) # <<>> /\ Key("scan", AdvanceFromScan(wiz))

\* r, or a directory typed into the input.
StartScan(path) ==
  /\ at = "setup" /\ wiz.step = "scan"
  /\ wiz.focused \/ path = NoDir
  /\ FoldFunction(+, 0, scans) < MaxScans
  /\ wiz' = [wiz EXCEPT !.focused = FALSE]
  /\ scans' = [scans EXCEPT ![path] = @ + 1]
  /\ UNCHANGED <<disk, logs, file, at, cfg, run, savers, sessions, logs0, chosen>>

\* scanResultMsg, at whatever step the wizard is by now.
ScanArrives(path) ==
  /\ at = "setup" /\ scans[path] > 0
  /\ scans' = [scans EXCEPT ![path] = @ - 1]
  /\ wiz' = FoldLeft(AddInstall, wiz, DoScan(disk, path))
  /\ UNCHANGED <<disk, logs, file, at, cfg, run, savers, sessions, logs0, chosen>>

NamesReady == wiz.nameIdx \in DOMAIN wiz.inputs /\ wiz.nameIdx \in DOMAIN wiz.profiles

\* The name as it stands in the input, another one, or none.
EnterName(typed) ==
  /\ NamesReady
  /\ typed \in {wiz.inputs[wiz.nameIdx], NoName} \cup Typed
  /\ LET i    == wiz.nameIdx
         used == {wiz.profiles[j].name : j \in 1..(i - 1)}
         name == IF typed # NoName THEN typed
                 ELSE SuggestProfileName(wiz.profiles[i].install.root, used)
         named == [wiz EXCEPT !.inputs[i] = typed, !.profiles[i].name = name, !.nameIdx = i + 1]
     IN  Key("naming",
             IF i < Len(wiz.inputs) THEN named
             ELSE [named EXCEPT !.active = 1,
                     !.step = IF Len(wiz.profiles) > 1 THEN "active" ELSE "summary"])

LeaveNaming == Key("naming", [wiz EXCEPT !.step = "scan"])

MoveRadio ==
  \E c \in {wiz.active - 1, wiz.active + 1} :
    c \in DOMAIN wiz.profiles /\ Key("active", [wiz EXCEPT !.active = c])

LeaveActive    == Key("active", [wiz EXCEPT !.nameIdx = 1, !.step = "naming"])
ConfirmActive  == Key("active", [wiz EXCEPT !.step = "summary"])

LeaveSummary ==
  Key("summary",
      CASE Len(wiz.profiles) > 1 -> [wiz EXCEPT !.step = "active"]
        [] Len(wiz.profiles) <= 1 /\ NeedsNaming(wiz) ->
             [wiz EXCEPT !.nameIdx = 1, !.step = "naming"]
        [] OTHER -> [wiz EXCEPT !.step = "scan"])

\* saveConfig, up to the writing.
Merged(c, w) ==
  LET kept == IF w.clear THEN [c EXCEPT !.profiles = None, !.active = NoName] ELSE c
      Add(acc, i) == AddProfile(acc, w.profiles[i].name, w.profiles[i].install, i = w.active)
  IN  FoldLeft(Add, kept, [i \in DOMAIN w.profiles |-> i])

EndSetup(next) ==
  /\ at' = next /\ wiz' = NoWizard
  /\ scans' = [p \in DOMAIN scans |-> 0]
  /\ cfg' = Defaults
  /\ UNCHANGED <<disk, logs, run, savers, sessions, logs0>>

\* Names the reading of the file tells apart as the wizard does.
PlainNames(profiles) ==
  /\ \A i \in DOMAIN profiles : ~profiles[i].name.upper
  /\ \A i, j \in DOMAIN profiles : profiles[i].name = profiles[j].name => i = j

\* The file is written under another name and renamed: a reader finds the old or the new.
AtomicWriteYAML(doc) == file' = doc

ConfirmSummary ==
  /\ at = "setup" /\ wiz.step = "summary"
  /\ AtomicWriteYAML(Document(Merged(cfg, wiz), None))
  /\ LET shown == IF Len(wiz.profiles) = 1 THEN 1 ELSE wiz.active
     IN  chosen' = IF PlainNames(wiz.profiles) THEN <<wiz.profiles[shown].install>> ELSE <<>>
  /\ EndSetup(IF wiz.thenRun THEN "saved" ELSE "idle")

\* The writing fails, or the user gives up: the file is as it was.
Cancel ==
  /\ at = "setup"
  /\ EndSetup("idle")
  /\ UNCHANGED <<file, chosen>>

\* An index out of range ends the program.
Panic ==
  /\ at = "setup" /\ wiz.step = "naming" /\ ~NamesReady
  /\ EndSetup("idle")
  /\ UNCHANGED <<file, chosen>>

Wizard ==
  \/ MoveCursor \/ ToggleInstall \/ DeleteInstall \/ ClearAll \/ FocusInput \/ BlurInput
  \/ Advance \/ LeaveNaming \/ MoveRadio \/ LeaveActive \/ ConfirmActive \/ LeaveSummary
  \/ \E path \in DOMAIN scans : StartScan(path) \/ ScanArrives(path)
  \/ \E typed \in Typed \cup {NoName} \cup ToSet(wiz.inputs) : EnterName(typed)
  \/ ConfirmSummary \/ Cancel \/ Panic

----------------------------------------------------------------------------
(* Starts.                                                                 *)

StartWizard(c, thenRun) ==
  /\ at' = "setup" /\ cfg' = c
  /\ wiz' = NewDiscoverModel(thenRun)
  /\ scans' = [scans EXCEPT ![NoDir] = 1]
  /\ UNCHANGED <<disk, logs, file, run, savers, logs0, chosen>>

\* cmdDiscover: what it cannot load it starts afresh.
Loadable == IF Load(file) = {} THEN {Blank} ELSE Load(file)

RunDiscover ==
  /\ at = "idle" /\ sessions < LastSetup
  /\ sessions' = sessions + 1
  /\ \E c \in Loadable : StartWizard(c, FALSE)

\* startDaemon: where the logs are, as a sequence of at most one install.
LogsOf(p) == IF p = Unset THEN Discover(disk) ELSE <<p>>

\* startDaemon: the install whose log.config is checked.
ConfigFound(p) ==
  LET own == IF p.root = NoDir THEN <<>> ELSE DiscoverFromRoot(disk, p.root)
  IN  IF own # <<>> THEN own ELSE Discover(disk)

Patch(p, fails) ==
  LET found == ConfigFound(p)
  IN  IF found = <<>> \/ fails THEN logs
      ELSE [logs EXCEPT ![Prefix[found[1].root]] = CheckAndPatch(@)]

\* A start from a configuration: no profile or no logs end it, an error with
\* log.config does not.
StartRun(c) ==
  LET profile == GetProfile(c)
      starts  == profile # <<>> /\ LogsOf(profile[1]) # <<>>
  IN  /\ IF starts
         THEN \E fails \in BOOLEAN :
                /\ logs' = Patch(profile[1], fails)
                /\ run' = [install |-> LogsOf(profile[1])[1], checked |-> ~fails]
                /\ at' = "running" /\ cfg' = c
         ELSE at' = "idle" /\ UNCHANGED <<logs, run, cfg>>
      /\ UNCHANGED <<disk, file, wiz, scans, savers, logs0, chosen>>

\* The program without a command: set up first if there is nothing to run with.
RunRoot ==
  /\ at = "idle" /\ sessions < MaxSessions
  /\ sessions' = sessions + 1
  /\ \/ \E c \in Load(file) : HasUsableProfile(c) /\ StartRun(c)
     \/ \E c \in Loadable :
          sessions < LastSetup /\ (Load(file) = {} \/ ~HasUsableProfile(c)) /\ StartWizard(c, TRUE)

\* ... and then run with what was saved.
RunSaved ==
  /\ at = "saved"
  /\ \E c \in Load(file) : StartRun(c)
  /\ UNCHANGED sessions

\* cmdRun.
RunCommand ==
  /\ at = "idle" /\ sessions < MaxSessions
  /\ sessions' = sessions + 1
  /\ \E c \in Load(file) : StartRun(c)

----------------------------------------------------------------------------
(* The dashboard, and the world.                                           *)

\* The release of a divider: SetTUI, and SaveTUI in a goroutine of its own.
ReleaseDivider(l) ==
  /\ at = "running" /\ FoldFunction(+, 0, savers) < MaxSavers
  /\ cfg' = [cfg EXCEPT !.tui = l]
  /\ savers' = [savers EXCEPT ![l] = @ + 1]
  /\ UNCHANGED <<disk, logs, file, at, wiz, scans, run, sessions, logs0, chosen>>

\* What SaveTUI writes, started at the release of layout l.
LayoutToSave_released(l) == l \* mutant: the layout of its own release
LayoutToSave(l) == cfg.tui

SaveTUI(l) ==
  /\ at = "running" /\ savers[l] > 0
  /\ savers' = [savers EXCEPT ![l] = @ - 1]
  /\ LET doc == IF file = NoFile THEN Document(Defaults, None) ELSE file
     IN  AtomicWriteYAML([doc EXCEPT !.config.tui = LayoutToSave(l)])
  /\ UNCHANGED <<disk, logs, at, cfg, wiz, scans, run, sessions, logs0, chosen>>

\* The end of the dashboard waits for no saver.
EndSession ==
  /\ at = "running"
  /\ at' = "idle" /\ cfg' = Defaults
  /\ savers' = [l \in Layouts |-> 0]
  /\ UNCHANGED <<disk, logs, file, wiz, scans, run, sessions, logs0, chosen>>

\* The game is removed from a directory.
Uninstall ==
  /\ at = "idle"
  /\ \E d \in Dirs : disk[d] # {} /\ disk' = [disk EXCEPT ![d] = {}]
  /\ UNCHANGED <<logs, file, at, cfg, wiz, scans, run, savers, sessions, logs0, chosen>>

Init ==
  /\ disk \in Disks
  /\ logs0 \in FirstLogs /\ logs = logs0
  /\ file \in FirstFiles
  /\ at = "idle" /\ cfg = Defaults
  /\ wiz = NoWizard
  /\ scans = [p \in {NoDir} \cup Typable |-> 0]
  /\ run = [install |-> Unset, checked |-> FALSE]
  /\ savers = [l \in Layouts |-> 0]
  /\ sessions = 0 /\ chosen = <<>>

Next ==
  \/ Wizard
  \/ RunDiscover \/ RunRoot \/ RunSaved \/ RunCommand
  \/ \E l \in Layouts : ReleaseDivider(l) \/ SaveTUI(l)
  \/ EndSession \/ Uninstall

Spec == Init /\ [][Next]_vars

----------------------------------------------------------------------------
(* Properties.                                                             *)

\* The program runs with the install that the last completed setup showed as the
\* active one, whatever was configured before, renamed, deselected or gone back to on
\* the way, provided its names are told apart by the file as by the wizard.
RunsChosen == at = "running" /\ chosen # <<>> => run.install = chosen[1]

\* A required field in any spelling: what the program takes as its own.
Owned(s, k) == Name(k.name) \in RequiredFields(s.name.name)

\* While the program runs with an install that is where the profile says, the
\* log.config of that install asks for all the logs the parser needs, unless writing
\* it failed; and no start has ever lost a section or a setting of the user's own.
LoggingOn ==
  /\ at = "running" /\ run.checked
     /\ run.install.root # NoDir /\ disk[run.install.root] # {}
       => IsComplete(logs[Prefix[run.install.root]])
  /\ \A p \in DOMAIN logs0 : \A i \in DOMAIN logs0[p] :
       LET s0 == logs0[p][i]  s == logs[p][i]
       IN  \A k \in DOMAIN s0.fields : ~Owned(s0, k) => Value(s, k) = Value(s0, k)

\* Once its savers are done the dashboard leaves a file from which the next start
\* reads exactly the configuration it holds: the last layout, and the profiles as they
\* were loaded.  A dashboard that was started without a file, and whose layout nobody
\* changed, leaves none.
LayoutKept ==
  at = "running" /\ (\A l \in Layouts : savers[l] = 0) /\ file # NoFile => cfg \in Load(file)

\* What the code does not keep: the index of the name being entered is that of an
\* input and of a profile ...
NamesHaveInputs == at = "setup" /\ wiz.step = "naming" => NamesReady

\* ... the profile that was made active is found at the next start, as the comment of
\* GetProfile says ("name="" + N profiles: uses active_profile") ...
ActiveIsFound ==
  file \notin {NoFile, Broken} /\ file.config.active # NoName
    => \A c \in Load(file) : GetProfile(c) # <<>>

\* ... every install that was confirmed is in the file ...
NoInstallLost ==
  [][at = "setup" /\ file' # file =>
       \A i \in DOMAIN wiz.profiles : \E n \in DOMAIN file'.config.profiles :
          file'.config.profiles[n] = wiz.profiles[i].install]_vars

\* ... and the servers have their addresses.
AddressesKept == at = "running" => cfg.addr = "default"
=============================================================================
