----------------------------- MODULE MC_CondVar -----------------------------
(* Two consumers waiting with items > 0 and two producers: p1 adds an item  *)
(* and calls notify_one while it still holds the mutex, p2 unlocks first    *)
(* and then calls notify_all.  Each coroutine runs on a context of its own. *)
EXTENDS CondVar

CONSTANTS c1, c2, p1, p2

MC_Consumers == {c1, c2}
MC_Producers == {p1, p2}
MC_NotifyAll == {p2}
MC_NotifyInside == {p1}

=============================================================================
