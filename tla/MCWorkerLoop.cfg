SPECIFICATION WorkerSpec
CONSTANTS
  Workers = {w1, w2}
  Owners = {p1, p2}
  JobIds = {1, 2}
  Delays = {0, 1}
  NoJob = NoJob
  Nobody = Nobody
  MaxTick = 1
  Buff = buff
  Decay = decay
  Tasks = {buff, decay}
  NoTask = NoTask
  MaxTasks = 3
INVARIANTS OneExecuter NothingStranded CountIsWork TopIsRunning OwnerLocked
PROPERTIES ImplementsSerialExecutor TasksKeepRunning
CHECK_DEADLOCK FALSE
