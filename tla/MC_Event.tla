------------------------------ MODULE MC_Event ------------------------------
(* Three awaiters on two contexts and two set() calls: the chain holds    *)
(* several awaiters, awaiters race each set(), and the second set() finds *)
(* the event already set.  Both set() calls pass the same value v1.     *)
EXTENDS Event, TLC

CONSTANTS a1, a2, a3, s1, s2, x1, x2, v1

MC_Awaiters == {a1, a2, a3}
MC_Setters == {s1, s2}
MC_Payload == [s \in MC_Setters |-> v1]
MC_Ctx == {x1, x2}
MC_CtxOf == (a1 :> x1) @@ (a2 :> x1) @@ (a3 :> x2)
=============================================================================
