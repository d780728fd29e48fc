SPECIFICATION FairSpec
CONSTANTS
  ThreadHint = 8
  HardwareConcurrency = 2
  MaxTasks = 4
  NoTask = NoTask
  NoThread = NoThread
INVARIANTS TypeOK OnceInOrder NothingCutShort
PROPERTIES WaiterNotForgotten ImplementsFairContract DestructorReturns WaitReturns
