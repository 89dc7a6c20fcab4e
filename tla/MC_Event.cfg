CONSTANTS
  a1 = a1
  a2 = a2
  a3 = a3
  s1 = s1
  s2 = s2
  x1 = x1
  x2 = x2
  NoAw = NoAw
  SetMark = SetMark
  v1 = v1
  NoVal = NoVal
  Payload <- MC_Payload
  Awaiters <- MC_Awaiters
  Setters <- MC_Setters
  Ctx <- MC_Ctx
  CtxOf <- MC_CtxOf
SPECIFICATION Spec
INVARIANT TypeOK
INVARIANT WaitReturnsOnlyWhenSet
INVARIANT ResumedAtMostOnce
INVARIANT WaitCountCoversWaiters
INVARIANT ValueDelivered
PROPERTY EveryWaiterReturns
