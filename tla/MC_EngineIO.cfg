CONSTANTS
  t1 = t1
  t2 = t2
  t3 = t3
  NoTask = NoTask
  Task <- MC_Task
  Roots <- MC_Roots
  IoTasks <- MC_IoTasks
  Child <- MC_Child
  WithNotify = TRUE

SPECIFICATION Spec

INVARIANT TypeOK
INVARIANT IoAccounting
INVARIANT NoExitWithPendingWork

PROPERTY EveryTaskDone
PROPERTY WorkerExits
