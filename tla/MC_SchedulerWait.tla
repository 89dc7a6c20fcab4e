-------------------------- MODULE MC_SchedulerWait --------------------------
(* Two contexts and one event<>.  a1 waits on x1 and a2 on x2; t1, on x1, *)
(* submits the setter s1 through the scheduler to either context, and s1  *)
(* sets the event, resuming the awaiters across contexts.                 *)
EXTENDS Scheduler

CONSTANTS x1, x2, a1, a2, s1, t1

MC_CtxSeq == <<x1, x2>>
MC_Task == {a1, a2, s1, t1}
MC_StartCtx == (a1 :> x1) @@ (a2 :> x2) @@ (s1 :> NoCtx) @@ (t1 :> x1)
MC_Child == (a1 :> NoTask) @@ (a2 :> NoTask) @@ (s1 :> NoTask) @@ (t1 :> s1)
MC_Awaiters == {a1, a2}
MC_Setters == {s1}
=============================================================================
