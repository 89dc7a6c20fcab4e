---------------------------- MODULE MC_WaitGroup ----------------------------
(* A coordinator, one more waiter (so two awaiters race their CAS on       *)
(* m_state) and two workers (so only the second done() drains).            *)
EXTENDS WaitGroup

CONSTANTS m, e1, w1, w2

MC_Extras == {e1}
MC_Workers == {w1, w2}

=============================================================================
