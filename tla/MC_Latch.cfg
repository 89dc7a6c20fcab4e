CONSTANTS
  a1 = a1
  a2 = a2
  d1 = d1
  d2 = d2
  x1 = x1
  x2 = x2
  NoAw = NoAw
  SetMark = SetMark
  Awaiters <- MC_Awaiters
  Downers <- MC_Downers
  Ctx <- MC_Ctx
  CtxOf <- MC_CtxOf
  Count = 2
SPECIFICATION Spec
INVARIANT TypeOK
INVARIANT WaitReturnsAtZero
PROPERTY LatchOpensAfterCount
