------------------------------ MODULE MC_Mutex ------------------------------
(* Four coroutines on two contexts, two per worker thread: the FIFO task  *)
(* queue and the one-coroutine-at-a-time rule of a context both matter,   *)
(* and waiters park from both threads, so the m_state chain and the       *)
(* m_resume_list_head batch each hold more than one awaiter.              *)
EXTENDS Mutex

CONSTANTS c1, c2, c3, c4, x1, x2

MC_Coro == {c1, c2, c3, c4}
MC_Ctx == {x1, x2}
MC_CtxOf == (c1 :> x1) @@ (c2 :> x1) @@ (c3 :> x2) @@ (c4 :> x2)

=============================================================================
