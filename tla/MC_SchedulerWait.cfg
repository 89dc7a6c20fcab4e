CONSTANTS
  x1 = x1
  x2 = x2
  a1 = a1
  a2 = a2
  s1 = s1
  t1 = t1
  NoCtx = NoCtx
  NoTask = NoTask
  CtxSeq <- MC_CtxSeq
  Task <- MC_Task
  StartCtx <- MC_StartCtx
  Child <- MC_Child
  Awaiters <- MC_Awaiters
  Setters <- MC_Setters

SPECIFICATION Spec

INVARIANT TypeOK
INVARIANT TokenCountsFlags
INVARIANT NoExitWhileWaiting

PROPERTY ImplementsStopDetection
PROPERTY EveryTaskRuns
PROPERTY AllWorkersExit
