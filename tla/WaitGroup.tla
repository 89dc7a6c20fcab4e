----------------------------- MODULE WaitGroup -----------------------------
(***************************************************************************)
(* coro::wait_group (src/src/comp/wait_group.cpp).                         *)
(*                                                                         *)
(* m_count is an atomic counter and m_state an atomic LIFO chain of parked *)
(* awaiters (<<>> is nullptr).  awaiter::await_suspend loops: load         *)
(* m_count, return false if it is 0, load the head, CAS itself in as the   *)
(* new head, retry from the count check when the CAS fails.  Each load and *)
(* the CAS are separate atomic steps.  done() decrements m_count and, when *)
(* it took the count from 1 to 0, exchanges m_state with nullptr and       *)
(* resumes the detached awaiters one by one.                               *)
(*                                                                         *)
(* The workload is the one the tests use, repeated for Cycles cycles: a    *)
(* coordinator Main calls add(|Workers|) and then waits; each worker calls *)
(* done() once per cycle after that cycle's add(); each other waiter       *)
(* waits once per cycle after that cycle's add().  With JoinWorkers the    *)
(* coordinator starts a new cycle only once every done() of the last one   *)
(* has returned (the workers are joined); without it, as soon as its own   *)
(* wait() has returned.                                                    *)
(***************************************************************************)
EXTENDS Integers, Sequences, SequencesExt, FiniteSets

CONSTANTS
  Main,     \* the coroutine that calls add() and then wait()
  Extras,   \* other coroutines that wait()
  Workers,  \* coroutines that call done()
  Cycles,     \* how many times the group is reused
  JoinWorkers \* whether add() waits for the last cycle's done() calls to return

ASSUME Cycles \in Nat \ {0}
ASSUME JoinWorkers \in BOOLEAN

Waiters == {Main} \cup Extras

VARIABLES
  count,     \* wait_group::m_count
  wgState,   \* wait_group::m_state, newest awaiter first
  pc,        \* where each coroutine is
  seen,      \* the head an awaiter loaded for its CAS
  detached,  \* the chain a done() took and has not resumed yet
  cycle,     \* the cycle each waiter is in
  added,     \* add() calls made so far
  finished   \* done() decrements each worker has made

vars == <<count, wgState, pc, seen, detached, cycle, added, finished>>

WaiterPcs == {"add", "check", "load", "cas", "parked", "resumed", "done"}
WorkerPcs == {"idle", "exchange", "resuming", "done"}

\* pcs of a waiter inside co_await wg.wait()
InWait == {"check", "load", "cas", "parked", "resumed"}

\* Where a waiter goes once its wait() has returned.
AfterWait(v) ==
  IF cycle[v] = Cycles THEN "done" ELSE IF v = Main THEN "add" ELSE "check"

\* A waiter's wait() returns: on to its next cycle, or finished.
ReturnFromWait(v) ==
  /\ cycle' = IF cycle[v] = Cycles THEN cycle ELSE [cycle EXCEPT ![v] = @ + 1]

\* Where a worker goes once its done() has finished.
AfterDone(w, n) == IF n = Cycles THEN "done" ELSE "idle"

(***************************************************************************)
(* add() and the coordinator                                               *)
(***************************************************************************)

\* Every done() of the cycles so far has returned.
DonesReturned == \A w \in Workers : pc[w] \in {"idle", "done"} /\ finished[w] = added

\* wait_group::add: fetch_add on m_count; the coordinator then waits.
Add ==
  /\ pc[Main] = "add"
  /\ JoinWorkers => DonesReturned
  /\ count' = count + Cardinality(Workers)
  /\ added' = added + 1
  /\ pc' = [pc EXCEPT ![Main] = "check"]
  /\ UNCHANGED <<wgState, seen, detached, cycle, finished>>

(***************************************************************************)
(* wait(): awaiter::await_suspend and await_resume                         *)
(***************************************************************************)

\* Mutant: the count test is off by one.
CheckCount_offByOne(v) ==
  /\ pc[v] = "check"
  /\ added >= cycle[v]
  /\ IF count <= 1
     THEN /\ pc' = [pc EXCEPT ![v] = AfterWait(v)]
          /\ ReturnFromWait(v)
     ELSE /\ pc' = [pc EXCEPT ![v] = "load"]
          /\ UNCHANGED cycle
  /\ UNCHANGED <<count, wgState, seen, detached, added, finished>>

\* Load m_count: 0 means await_suspend returns false and await_resume runs
\* at once; otherwise go on to push.  (added >= cycle[v] is the workload:
\* a waiter of cycle k starts after that cycle's add().)
CheckCount(v) ==
  /\ pc[v] = "check"
  /\ added >= cycle[v]
  /\ IF count = 0
     THEN /\ pc' = [pc EXCEPT ![v] = AfterWait(v)]
          /\ ReturnFromWait(v)
     ELSE /\ pc' = [pc EXCEPT ![v] = "load"]
          /\ UNCHANGED cycle
  /\ UNCHANGED <<count, wgState, seen, detached, added, finished>>

\* head = m_state.load(); m_next = head.
LoadHead(v) ==
  /\ pc[v] = "load"
  /\ seen' = [seen EXCEPT ![v] = wgState]
  /\ pc' = [pc EXCEPT ![v] = "cas"]
  /\ UNCHANGED <<count, wgState, detached, cycle, added, finished>>

\* compare_exchange_weak(head, this) succeeds: the awaiter is parked.
CasPush(v) ==
  /\ pc[v] = "cas"
  /\ wgState = seen[v]
  /\ wgState' = <<v>> \o wgState
  /\ pc' = [pc EXCEPT ![v] = "parked"]
  /\ UNCHANGED <<count, seen, detached, cycle, added, finished>>

\* The CAS fails because m_state moved: back to the count check.
CasFail(v) ==
  /\ pc[v] = "cas"
  /\ wgState # seen[v]
  /\ pc' = [pc EXCEPT ![v] = "check"]
  /\ UNCHANGED <<count, wgState, seen, detached, cycle, added, finished>>

\* await_resume of a resumed awaiter, run by its context.
AwaitResume(v) ==
  /\ pc[v] = "resumed"
  /\ pc' = [pc EXCEPT ![v] = AfterWait(v)]
  /\ ReturnFromWait(v)
  /\ UNCHANGED <<count, wgState, seen, detached, added, finished>>

(***************************************************************************)
(* done()                                                                  *)
(***************************************************************************)

\* Mutant: done() increments m_count instead of decrementing it.
Done_FetchSub_add(w) ==
  /\ pc[w] = "idle"
  /\ finished[w] < added
  /\ count' = count + 1
  /\ finished' = [finished EXCEPT ![w] = @ + 1]
  /\ pc' = [pc EXCEPT ![w] = IF count = 1 THEN "exchange"
                                          ELSE AfterDone(w, finished[w] + 1)]
  /\ UNCHANGED <<wgState, seen, detached, cycle, added>>

\* fetch_sub(1): the worker whose decrement returned 1 goes on to drain the
\* chain.  (finished[w] < added is the workload: one done() per add().)
Done_FetchSub(w) ==
  /\ pc[w] = "idle"
  /\ finished[w] < added
  /\ count' = count - 1
  /\ finished' = [finished EXCEPT ![w] = @ + 1]
  /\ pc' = [pc EXCEPT ![w] = IF count = 1 THEN "exchange"
                                          ELSE AfterDone(w, finished[w] + 1)]
  /\ UNCHANGED <<wgState, seen, detached, cycle, added>>

\* Mutant: the chain is read with load() and m_state is left as it was.
Done_Exchange_keep(w) ==
  /\ pc[w] = "exchange"
  /\ detached' = [detached EXCEPT ![w] = wgState]
  /\ pc' = [pc EXCEPT ![w] = IF wgState = <<>> THEN AfterDone(w, finished[w])
                                               ELSE "resuming"]
  /\ UNCHANGED <<wgState, count, seen, cycle, added, finished>>

\* m_state.exchange(nullptr): detach the whole chain.
Done_Exchange(w) ==
  /\ pc[w] = "exchange"
  /\ wgState' = <<>>
  /\ detached' = [detached EXCEPT ![w] = wgState]
  /\ pc' = [pc EXCEPT ![w] = IF wgState = <<>> THEN AfterDone(w, finished[w])
                                               ELSE "resuming"]
  /\ UNCHANGED <<count, seen, cycle, added, finished>>

\* head->resume(): submit the next detached awaiter to its context.
Done_ResumeNext(w) ==
  /\ pc[w] = "resuming"
  /\ LET v == Head(detached[w])
     IN  pc' = [pc EXCEPT ![v] = "resumed",
                          ![w] = IF Tail(detached[w]) = <<>>
                                 THEN AfterDone(w, finished[w])
                                 ELSE "resuming"]
  /\ detached' = [detached EXCEPT ![w] = Tail(@)]
  /\ UNCHANGED <<count, wgState, seen, cycle, added, finished>>

(***************************************************************************)
(* Specification                                                           *)
(***************************************************************************)

\* wait_group(0): the counter starts at 0 and nobody is parked.
Init ==
  /\ count = 0
  /\ wgState = <<>>
  /\ pc = [p \in Waiters \cup Workers |->
             IF p = Main THEN "add" ELSE IF p \in Extras THEN "check" ELSE "idle"]
  /\ seen = [v \in Waiters |-> <<>>]
  /\ detached = [w \in Workers |-> <<>>]
  /\ cycle = [v \in Waiters |-> 1]
  /\ added = 0
  /\ finished = [w \in Workers |-> 0]

WaiterStep(v) ==
  \/ CheckCount(v)
  \/ LoadHead(v)
  \/ CasPush(v)
  \/ CasFail(v)
  \/ AwaitResume(v)

WorkerStep(w) ==
  \/ Done_FetchSub(w)
  \/ Done_Exchange(w)
  \/ Done_ResumeNext(w)

\* Every coroutine has finished its cycles.
Terminated ==
  /\ \A p \in Waiters \cup Workers : pc[p] = "done"
  /\ UNCHANGED vars

Next ==
  \/ Add
  \/ \E v \in Waiters : WaiterStep(v)
  \/ \E w \in Workers : WorkerStep(w)
  \/ Terminated

\* Worker threads keep running whatever coroutine is ready.
Fairness ==
  /\ WF_vars(Add)
  /\ \A v \in Waiters : WF_vars(WaiterStep(v))
  /\ \A w \in Workers : WF_vars(WorkerStep(w))

Spec == Init /\ [][Next]_vars /\ Fairness

(***************************************************************************)
(* Properties                                                              *)
(***************************************************************************)

TypeOK ==
  /\ count \in 0..Cardinality(Workers)
  /\ wgState \in Seq(Waiters)
  /\ pc \in [Waiters \cup Workers -> WaiterPcs \cup WorkerPcs]
  /\ seen \in [Waiters -> Seq(Waiters)]
  /\ detached \in [Workers -> Seq(Waiters)]
  /\ cycle \in [Waiters -> 1..Cycles]
  /\ added \in 0..Cycles
  /\ finished \in [Workers -> 0..Cycles]

\* A wait() returns only after every worker's done() of the waiter's cycle
\* has decremented m_count: whether it saw m_count == 0 itself or was
\* resumed by the done() that drained m_state.
WaitReturnsAfterAllDone ==
  [][\A v \in Waiters :
       (pc[v] \in InWait /\ pc'[v] \notin InWait)
         => \A w \in Workers : finished[w] >= cycle[v]]_vars

\* How many times v is linked, in m_state and in the chains done() calls
\* have detached and not yet resumed.
Links(v) ==
  CopiesIn(v, ToBag(wgState))
    + SumFunction([w \in Workers |-> CopiesIn(v, ToBag(detached[w]))])

\* Every parked awaiter is linked exactly once, in m_state or in one done()'s
\* detached chain, and no other waiter is linked at all: the exchange in
\* done() hands each parked awaiter to exactly one resumer, whatever the
\* interleaving of pushes, exchanges and later cycles' pushes.
ParkedLinkedOnce ==
  \A v \in Waiters : Links(v) = IF pc[v] = "parked" THEN 1 ELSE 0

\* Every awaiter parked on the wait group is eventually resumed.
ParkedWaiterResumed ==
  \A v \in Waiters : pc[v] = "parked" ~> pc[v] = "resumed"

=============================================================================
