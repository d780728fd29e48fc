SPECIFICATION FairSpec
CONSTANTS
  Path <- NarrowPath
  SubDirs <- NarrowSubDirs
  Contents <- NarrowContents
  Openable = {"/", "/a/", "/a/b/", "/sys/"}
  RootPath = {"/", "/a/b/"}
  File = {"/x"}
  Link = {"/a/l"}
  Real = {"/lib.so"}
  Target <- NarrowTarget
  Image <- NarrowImage
  SkippedPath = {"/sys/"}
  NoTarget = NoTarget
  Worker = {w1}
  NoTask = NoTask
  NoThread = NoThread
  MaxTasks = 3
  MayThrow = FALSE
  MayStop = TRUE
  MaxRoots = 1
  MaxLaunches = 1
PROPERTY WaitReturns
