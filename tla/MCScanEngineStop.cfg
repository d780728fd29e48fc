SPECIFICATION Spec
CONSTANTS
  Path <- NarrowPath
  SubDirs <- NarrowSubDirs
  Contents <- NarrowContents
  Openable = {"/", "/a/", "/a/b/", "/sys/"}
  RootPath = {"/a/"}
  File = {"/x"}
  Link = {"/a/l"}
  Real = {"/lib.so"}
  Target <- NarrowTarget
  Image <- NarrowImage
  SkippedPath = {"/sys/"}
  NoTarget = NoTarget
  Worker = {w1, w2}
  NoTask = NoTask
  NoThread = NoThread
  MaxTasks = 3
  MayThrow = FALSE
  MayStop = TRUE
  MaxRoots = 1
  MaxLaunches = 2
SYMMETRY Symmetric
INVARIANTS NoUseAfterDestroy StopHolds
