----------------------------- MODULE MC_EngineIO -----------------------------
(* Two tasks submitted before start(): t1 awaits an I/O, t2 spawns t3,     *)
(* which awaits an I/O too.  MC_NoIoTasks is the same workload without any *)
(* I/O.                                                                     *)
EXTENDS EngineIO

CONSTANTS t1, t2, t3

MC_Task == {t1, t2, t3}
MC_Roots == {t1, t2}
MC_IoTasks == {t1, t3}
MC_NoIoTasks == {}
MC_Child == (t1 :> NoTask) @@ (t2 :> t3) @@ (t3 :> NoTask)

=============================================================================
