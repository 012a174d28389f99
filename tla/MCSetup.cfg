SPECIFICATION Spec
CONSTANTS
  NoDir = "none"
  NoLayout = "asBuilt"
  WalkOrder <- MCWalkOrder
  Parent <- MCParent
  DriveC <- MCDriveC
  SearchRoots <- MCSearchRoots
  Bases = {"", "default", "wine", "old"}
  Base <- MCBase
  Prefix <- MCPrefix
  Typed <- MCTyped
  Typable = {"mnt"}
  Layouts = {"tall", "wide"}
  Disks <- MCDisks
  FirstLogs <- MCFirstLogs
  FirstFiles <- MCFirstFiles
  MaxSessions = 2
  LastSetup = 1
  MaxScans = 2
  MaxSavers = 2
INVARIANTS
  RunsChosen
  LoggingOn
  LayoutKept
CHECK_DEADLOCK FALSE
