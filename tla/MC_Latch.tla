------------------------------ MODULE MC_Latch ------------------------------
(* Two awaiters on two contexts and two count_down() calls on a latch of   *)
(* count 2: the last count_down's set() races awaiters still registering.  *)
EXTENDS Latch, TLC

CONSTANTS a1, a2, d1, d2, x1, x2

MC_Awaiters == {a1, a2}
MC_Downers == {d1, d2}
MC_Ctx == {x1, x2}
MC_CtxOf == (a1 :> x1) @@ (a2 :> x2)
=============================================================================
