CONSTANTS
  t1 = t1
  t2 = t2
  t3 = t3
  NoTask = NoTask
  Task <- MC_Task
  Roots <- MC_Roots
  IoTasks <- MC_NoIoTasks
  Child <- MC_Child
  WithNotify = FALSE

SPECIFICATION Spec


PROPERTY WorkerExits

\* The worker stays blocked in wait_eventfd: the state has no successor.
CHECK_DEADLOCK FALSE
