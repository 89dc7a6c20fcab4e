CONSTANTS
  m = m
  e1 = e1
  w1 = w1
  w2 = w2
  Main = m
  Extras <- MC_Extras
  Workers <- MC_Workers
  Cycles = 1
  JoinWorkers = FALSE

SPECIFICATION Spec


PROPERTY ParkedWaiterResumed

\* A waiter parked after the last done() drained m_state is never resumed
\* and the system stops there (run wg_lost_wakeup); that stop is the
\* finding, so deadlock is not what this run checks.
CHECK_DEADLOCK FALSE
