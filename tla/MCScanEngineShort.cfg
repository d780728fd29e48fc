SPECIFICATION Spec
CONSTANTS
  Path = {"/"}
  SubDirs <- ShortSubDirs
  Contents <- ShortContents
  Openable = {"/"}
  RootPath = {"/"}
  File = {"/s"}
  Link = {}
  Real = {}
  Target <- NoLinks
  Image <- ShortImage
  SkippedPath = {}
  NoTarget = NoTarget
  Worker = {w1}
  NoTask = NoTask
  NoThread = NoThread
  MaxTasks = 1
  MayThrow = FALSE
  MayStop = FALSE
  MaxRoots = 1
  MaxLaunches = 1
INVARIANT OnlyElfRecorded
