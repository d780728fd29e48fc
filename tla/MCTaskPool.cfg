SPECIFICATION Spec
CONSTANTS
  Task = {t1, t2}
  Worker = {w1, w2}
  NoTask = NoTask
  MaxTasks = 4
INVARIANTS TypeOK CountExact QuietAfterShutdown
CHECK_DEADLOCK FALSE
