CONSTANTS
  c1 = c1
  c2 = c2
  c3 = c3
  c4 = c4
  x1 = x1
  x2 = x2
  NoLocked = NoLocked
  NoCoro = NoCoro
  Coro <- MC_Coro
  Ctx <- MC_Ctx
  CtxOf <- MC_CtxOf
  Rounds = 3

SPECIFICATION Spec

INVARIANT TypeOK
INVARIANT MutualExclusion
INVARIANT NoLostWakeup
INVARIANT WaitCountCoversParked
PROPERTY StarvationFree
PROPERTY ImplementsFifoLock
