CONSTANTS
  x1 = x1
  x2 = x2
  t1 = t1
  t2 = t2
  t3 = t3
  t4 = t4
  NoCtx = NoCtx
  NoTask = NoTask
  CtxSeq <- MC_CtxSeq
  Task <- MC_Task
  StartCtx <- MC_StartCtx
  Child <- MC_Child
  Awaiters <- MC_NoTasks
  Setters <- MC_NoTasks
SPECIFICATION Spec
PROPERTY NotifyOnlyLiveContext
