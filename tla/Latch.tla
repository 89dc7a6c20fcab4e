------------------------------- MODULE Latch -------------------------------
(***************************************************************************)
(* coro::latch (src/include/coro/comp/latch.hpp): an atomic int64 m_count  *)
(* and an embedded event<> m_ev.  count_down() does fetch_sub(1) and, when *)
(* the value it returned was <= 1, calls m_ev.set(); wait() is             *)
(* m_ev.wait().  The event is the Event module; each thread calling        *)
(* count_down() is one of its setters, which reaches set() only after its  *)
(* fetch_sub.                                                              *)
(***************************************************************************)
EXTENDS Integers, FiniteSets

CONSTANTS
  Awaiters,  \* coroutines that co_await latch.wait()
  Downers,   \* coroutines or threads that call count_down() once
  Ctx,
  CtxOf,
  NoAw,
  SetMark,
  Count      \* the count the latch is constructed with

ASSUME Count \in Nat

VARIABLES evState, next, apc, spc, cursor, waitCnt, resumes, value, got,
  count      \* latch::m_count

vars == <<evState, next, apc, spc, cursor, waitCnt, resumes, value, got, count>>

\* m_ev is an event<>: set() carries no payload.
Ev == INSTANCE Event WITH Setters <- Downers, Payload <- [d \in Downers |-> NoAw],
                          NoVal <- NoAw

\* Mutant: the test is off by one, so the latch opens one count_down early.
CountDown_early(d) ==
  /\ spc[d] = "count"
  /\ count' = count - 1
  /\ spc' = [spc EXCEPT ![d] = IF count <= 2 THEN "set" ELSE "done"]
  /\ UNCHANGED <<evState, next, apc, cursor, waitCnt, resumes, value, got>>

\* Mutant: the test is on the decremented value, so it is never met when
\* count_down() is called exactly Count times.
CountDown_late(d) ==
  /\ spc[d] = "count"
  /\ count' = count - 1
  /\ spc' = [spc EXCEPT ![d] = IF count < 1 THEN "set" ELSE "done"]
  /\ UNCHANGED <<evState, next, apc, cursor, waitCnt, resumes, value, got>>

\* Mutant: fetch_add instead of fetch_sub.
CountDown_add(d) ==
  /\ spc[d] = "count"
  /\ count' = count + 1
  /\ spc' = [spc EXCEPT ![d] = IF count <= 1 THEN "set" ELSE "done"]
  /\ UNCHANGED <<evState, next, apc, cursor, waitCnt, resumes, value, got>>

\* count_down: if (m_count.fetch_sub(1) <= 1) m_ev.set().
CountDown(d) ==
  /\ spc[d] = "count"
  /\ count' = count - 1
  /\ spc' = [spc EXCEPT ![d] = IF count <= 1 THEN "set" ELSE "done"]
  /\ UNCHANGED <<evState, next, apc, cursor, waitCnt, resumes, value, got>>

\* latch(count): m_count(count), m_ev(count <= 0).
Init ==
  /\ count = Count
  /\ evState = IF Count <= 0 THEN SetMark ELSE NoAw
  /\ next = [a \in Awaiters |-> NoAw]
  /\ apc = [a \in Awaiters |-> "ready"]
  /\ spc = [d \in Downers |-> "count"]
  /\ cursor = [d \in Downers |-> NoAw]
  /\ waitCnt = [x \in Ctx |-> 0]
  /\ resumes = [a \in Awaiters |-> 0]
  /\ value = NoAw
  /\ got = [a \in Awaiters |-> NoAw]

DownerStep(d) ==
  \/ CountDown(d)
  \/ Ev!SetterStep(d) /\ UNCHANGED count

Terminated ==
  /\ \A a \in Awaiters : apc[a] = "done"
  /\ \A d \in Downers : spc[d] = "done"
  /\ UNCHANGED vars

Next ==
  \/ \E a \in Awaiters : Ev!AwaiterStep(a) /\ UNCHANGED count
  \/ \E d \in Downers : DownerStep(d)
  \/ Terminated

Fairness ==
  /\ \A a \in Awaiters : WF_vars(Ev!AwaiterStep(a) /\ UNCHANGED count)
  /\ \A d \in Downers : WF_vars(DownerStep(d))

Spec == Init /\ [][Next]_vars /\ Fairness

TypeOK ==
  /\ count \in (Count - Cardinality(Downers))..Count
  /\ spc \in [Downers -> {"count", "set", "resuming", "done"}]
  /\ apc \in [Awaiters -> {"ready", "register", "parked", "resume", "done"}]
  /\ resumes \in [Awaiters -> Nat]

\* latch.wait() returns only after count_down() has been called Count
\* times: no awaiter is past the event while m_count is still positive.
WaitReturnsAtZero ==
  \A a \in Awaiters : apc[a] \in {"resume", "done"} => count <= 0

\* The latch opens on its count: once count_down() has been called Count
\* times, every coroutine waiting on the latch returns from wait(), whether
\* it parked before the last count_down's set() or raced it.
LatchOpensAfterCount ==
  (\A d \in Downers : spc[d] # "count") ~> (\A a \in Awaiters : apc[a] = "done")

=============================================================================
