CONSTANTS
  c1 = c1
  c2 = c2
  p1 = p1
  p2 = p2
  NoLocked = NoLocked
  None = None
  Consumers <- MC_Consumers
  Producers <- MC_Producers
  NotifyAll <- MC_NotifyAll
  NotifyInside <- MC_NotifyInside

SPECIFICATION Spec

INVARIANT TypeOK
INVARIANT MutualExclusion
INVARIANT PredicateHoldsAfterWait
INVARIANT WaitCountedOnce
INVARIANT DestructorsHold

PROPERTY EveryConsumerDone
