SPECIFICATION FairSpec
CONSTANTS
  Path <- NarrowPath
  SubDirs <- NarrowSubDirs
  Contents <- NarrowContents
  Openable = {"/", "/a/", "/a/b/", "/sys/"}
  RootPath = {"/a/"}
  File = {"/x"}
  Link = {"/a/l"}
  Real = {"/lib.so"}
  Target <- NarrowTarget
  Image <- NarrowImage
  SkippedPath = {"/sys/"}
  NoTarget = NoTarget
  Worker = {w1, w2}
  NoTask = NoTask
  NoThread = NoThread
  MaxTasks = 2
  MayThrow = TRUE
  MayStop = FALSE
  MaxRoots = 2
  MaxLaunches = 1
INVARIANTS ScanComplete NoUseAfterDestroy
PROPERTIES ScanEnds DestructorReturns
