---------------------------- MODULE MC_Scheduler ----------------------------
(* Two contexts.  t1 starts on x1 and submits t2 through the scheduler,   *)
(* which submits t3; t4 starts on x2 and only runs.                      *)
EXTENDS Scheduler

CONSTANTS x1, x2, t1, t2, t3, t4

MC_CtxSeq == <<x1, x2>>
MC_Task == {t1, t2, t3, t4}
MC_StartCtx == (t1 :> x1) @@ (t2 :> NoCtx) @@ (t3 :> NoCtx) @@ (t4 :> x2)
MC_Child == (t1 :> t2) @@ (t2 :> t3) @@ (t3 :> NoTask) @@ (t4 :> NoTask)
MC_NoTasks == {}
=============================================================================
