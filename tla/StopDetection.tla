--------------------------- MODULE StopDetection ---------------------------
(***************************************************************************)
(* What the runtime's stop protocol promises, as a termination detector:   *)
(* each context is busy or idle; only a busy context can hand work to      *)
(* another (a task it runs submits a child, or a set() it runs resumes an  *)
(* awaiter there), and it may go idle in the same step; the stop is        *)
(* detected only once every context is idle, and then it stays detected.  *)
(* Detection is the moment scheduler::m_stop_token reaches 0, after which  *)
(* stop_impl asks every context to stop.                                   *)
(***************************************************************************)
EXTENDS Naturals

CONSTANT Node   \* the contexts

VARIABLES
  active,     \* whether each context has work queued, running or waiting
  detected    \* whether the stop has been detected

vars == <<active, detected>>

Quiescent == \A n \in Node : ~active[n]

Init ==
  /\ active \in [Node -> BOOLEAN]
  /\ detected = FALSE

\* A busy context runs out of work.
Finish(n) ==
  /\ active[n]
  /\ active' = [active EXCEPT ![n] = FALSE]
  /\ UNCHANGED detected

\* A busy context gives work to m, finishing its own or not.
Hand(n, m) ==
  /\ active[n]
  /\ \/ active' = [active EXCEPT ![m] = TRUE]
     \/ active' = [active EXCEPT ![n] = FALSE, ![m] = TRUE]
  /\ UNCHANGED detected

\* The stop is detected, only in a quiescent state.
Detect ==
  /\ Quiescent
  /\ ~detected
  /\ detected' = TRUE
  /\ UNCHANGED active

Next ==
  \/ \E n \in Node : Finish(n)
  \/ \E n, m \in Node : Hand(n, m)
  \/ Detect

\* Once every context stays idle, the stop is eventually detected.
Spec == Init /\ [][Next]_vars /\ WF_vars(Detect)

=============================================================================
