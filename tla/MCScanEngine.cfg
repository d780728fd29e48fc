SPECIFICATION Spec
CONSTANTS
  Path <- WidePath
  SubDirs <- WideSubDirs
  Contents <- WideContents
  Openable = {"/", "/a/", "/a/b/", "/sys/"}
  RootPath = {"/", "/a/b/", "/root/"}
  File = {"/x", "/a/t", "/root/x", "/sys/x"}
  Link = {"/l", "/a/b/l", "/a/m"}
  Real = {"/lib.so", "/sys/x"}
  Target <- WideTarget
  Image <- WideImage
  SkippedPath = {"/sys/", "/sys/x"}
  NoTarget = NoTarget
  Worker = {w1, w2}
  NoTask = NoTask
  NoThread = NoThread
  MaxTasks = 3
  MayThrow = FALSE
  MayStop = FALSE
  MaxRoots = 2
  MaxLaunches = 1
SYMMETRY Symmetric
INVARIANTS TypeOK ScanComplete RecordsComplete CountsExact
