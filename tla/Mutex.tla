------------------------------- MODULE Mutex -------------------------------
(***************************************************************************)
(* coro::mutex (src/src/comp/mutex.cpp) driven by coroutines that run on   *)
(* the worker threads of several contexts.                                 *)
(*                                                                         *)
(* m_state is one atomic word: nolocked, locked_no_waiting (nullptr), or   *)
(* the head of a LIFO chain of parked mutex_awaiters.  Here it is NoLocked *)
(* or the chain as a sequence, head first, so <<>> is locked_no_waiting.  *)
(* A CAS loop in register_lock is one atomic step: the CAS only succeeds   *)
(* when m_state still holds the value the loop just loaded, and what it    *)
(* wrote in between (m_next) is private to the awaiter.  m_resume_list_head*)
(* is touched only by the coroutine that holds the lock.                   *)
(*                                                                         *)
(* Each context runs one coroutine at a time, in the FIFO order of its     *)
(* engine's task queue; a coroutine gives up its worker only when it       *)
(* suspends or finishes.  Each coroutine runs the workload of the tests:   *)
(* Rounds times, lock() or try_lock(), a critical section, unlock().       *)
(***************************************************************************)
EXTENDS Naturals, Sequences, SequencesExt, FiniteSets

CONSTANTS
  Coro,      \* coroutines
  Ctx,       \* contexts (worker threads)
  CtxOf,     \* the context each coroutine was submitted to, for life
  Rounds,    \* lock/unlock rounds each coroutine runs
  NoLocked,  \* the sentinel mutex::nolocked
  NoCoro     \* a worker thread that runs no coroutine

ASSUME CtxOf \in [Coro -> Ctx]
ASSUME Rounds \in Nat \ {0}

VARIABLES
  state,       \* mutex::m_state
  resumeList,  \* mutex::m_resume_list_head, the FIFO batch left to hand off
  pc,          \* where each coroutine is
  round,       \* rounds each coroutine has finished
  waitCnt,     \* context::m_num_wait_task of each context
  queue,       \* engine::m_task_queue of each context
  running      \* the coroutine each context's worker is executing

vars == <<state, resumeList, pc, round, waitCnt, queue, running>>

Pcs == {"lock", "parked", "resumed", "cs", "unlock", "done"}

\* pcs in which a coroutine owns the mutex; "resumed" is a waiter the lock
\* was handed to that its context has not run yet.
HoldingPcs == {"resumed", "cs", "unlock"}

Holders == {c \in Coro : pc[c] \in HoldingPcs}

\* The parked awaiters linked from m_state, newest first.
Chain == IF state = NoLocked THEN <<>> ELSE state

Running(c) == running[CtxOf[c]] = c

\* The pc a coroutine moves to when it ends a round.
AfterRound(c) == IF round[c] + 1 = Rounds THEN "done" ELSE "lock"

\* A coroutine that finished its last round gives its worker back.
EndRound(c) ==
  /\ round' = [round EXCEPT ![c] = @ + 1]
  /\ running' = IF AfterRound(c) = "done"
                THEN [running EXCEPT ![CtxOf[c]] = NoCoro]
                ELSE running

(***************************************************************************)
(* Engine and context                                                      *)
(***************************************************************************)

\* engine::submit_task: push the handle on the owning context's queue.
SubmitTask(c) == queue' = [queue EXCEPT ![CtxOf[c]] = Append(@, c)]

\* context::process_work / engine::exec_one_task: an idle worker pops the
\* oldest handle of its queue and resumes it.
ExecOneTask(x) ==
  /\ running[x] = NoCoro
  /\ queue[x] # <<>>
  /\ running' = [running EXCEPT ![x] = Head(queue[x])]
  /\ queue' = [queue EXCEPT ![x] = Tail(@)]
  /\ UNCHANGED <<state, resumeList, pc, round, waitCnt>>

(***************************************************************************)
(* lock(): mutex_awaiter.  await_ready is always false; await_suspend      *)
(* stores the handle, calls register_wait() and register_lock().           *)
(***************************************************************************)

\* Mutant: a null test mistakes locked_no_waiting (nullptr) for free.
Lock_Acquire_nullIsFree(c) ==
  /\ pc[c] = "lock"
  /\ Running(c)
  /\ state \in {NoLocked, <<>>}
  /\ state' = <<>>
  /\ pc' = [pc EXCEPT ![c] = "cs"]
  /\ UNCHANGED <<resumeList, round, waitCnt, queue, running>>

\* Mutant: the immediate acquire unregisters a wait it never registered.
Lock_Acquire_unregisterOnly(c) ==
  /\ pc[c] = "lock"
  /\ Running(c)
  /\ state = NoLocked
  /\ state' = <<>>
  /\ waitCnt' = [waitCnt EXCEPT ![CtxOf[c]] = @ - 1]
  /\ pc' = [pc EXCEPT ![c] = "cs"]
  /\ UNCHANGED <<resumeList, round, queue, running>>

\* register_lock finds m_state == nolocked and CASes it to
\* locked_no_waiting: await_suspend returns false, so await_resume runs at
\* once and its unregister_wait() cancels the register_wait().
Lock_Acquire(c) ==
  /\ pc[c] = "lock"
  /\ Running(c)
  /\ state = NoLocked
  /\ state' = <<>>
  /\ pc' = [pc EXCEPT ![c] = "cs"]
  /\ UNCHANGED <<resumeList, round, waitCnt, queue, running>>

\* Mutant: await_suspend leaves register_wait() out.
Lock_Park_noRegister(c) ==
  /\ pc[c] = "lock"
  /\ Running(c)
  /\ state # NoLocked
  /\ state' = <<c>> \o state
  /\ pc' = [pc EXCEPT ![c] = "parked"]
  /\ running' = [running EXCEPT ![CtxOf[c]] = NoCoro]
  /\ UNCHANGED <<resumeList, round, waitCnt, queue>>

\* register_lock finds the mutex locked: m_next = head, CAS this in as the
\* new head; await_suspend returns true and the worker is free again.
Lock_Park(c) ==
  /\ pc[c] = "lock"
  /\ Running(c)
  /\ state # NoLocked
  /\ state' = <<c>> \o state
  /\ waitCnt' = [waitCnt EXCEPT ![CtxOf[c]] = @ + 1]
  /\ pc' = [pc EXCEPT ![c] = "parked"]
  /\ running' = [running EXCEPT ![CtxOf[c]] = NoCoro]
  /\ UNCHANGED <<resumeList, round, queue>>

\* mutex::try_lock: one strong CAS nolocked -> locked_no_waiting; a
\* coroutine whose try_lock fails gives up this round.
TryLock(c) ==
  /\ pc[c] = "lock"
  /\ Running(c)
  /\ IF state = NoLocked
     THEN /\ state' = <<>>
          /\ pc' = [pc EXCEPT ![c] = "cs"]
          /\ UNCHANGED <<round, running>>
     ELSE /\ pc' = [pc EXCEPT ![c] = AfterRound(c)]
          /\ EndRound(c)
          /\ UNCHANGED state
  /\ UNCHANGED <<resumeList, waitCnt, queue>>

\* mutex_awaiter::await_resume of a waiter the lock was handed to.
AwaitResume(c) ==
  /\ pc[c] = "resumed"
  /\ Running(c)
  /\ waitCnt' = [waitCnt EXCEPT ![CtxOf[c]] = @ - 1]
  /\ pc' = [pc EXCEPT ![c] = "cs"]
  /\ UNCHANGED <<state, resumeList, round, queue, running>>

\* The critical section of the workload.
CriticalSection(c) ==
  /\ pc[c] = "cs"
  /\ Running(c)
  /\ pc' = [pc EXCEPT ![c] = "unlock"]
  /\ UNCHANGED <<state, resumeList, round, waitCnt, queue, running>>

(***************************************************************************)
(* unlock()                                                                *)
(***************************************************************************)

\* Mutant: the head is unlinked from the batch but never resumed.
Unlock_ResumeList_noResume(c) ==
  /\ pc[c] = "unlock"
  /\ Running(c)
  /\ resumeList # <<>>
  /\ resumeList' = Tail(resumeList)
  /\ pc' = [pc EXCEPT ![c] = AfterRound(c)]
  /\ EndRound(c)
  /\ UNCHANGED <<state, waitCnt, queue>>

\* The batch left by an earlier unlock is not empty: m_resume_list_head
\* moves to the next awaiter and the head is resumed; it now owns the lock.
Unlock_ResumeList(c) ==
  /\ pc[c] = "unlock"
  /\ Running(c)
  /\ resumeList # <<>>
  /\ LET w == Head(resumeList)
     IN  /\ resumeList' = Tail(resumeList)
         /\ pc' = [pc EXCEPT ![w] = "resumed", ![c] = AfterRound(c)]
         /\ SubmitTask(w)
  /\ EndRound(c)
  /\ UNCHANGED <<state, waitCnt>>

\* Mutant: a plain store of nolocked instead of the CAS.
Unlock_Fast_store(c) ==
  /\ pc[c] = "unlock"
  /\ Running(c)
  /\ resumeList = <<>>
  /\ state' = NoLocked
  /\ pc' = [pc EXCEPT ![c] = AfterRound(c)]
  /\ EndRound(c)
  /\ UNCHANGED <<resumeList, waitCnt, queue>>

\* No batch and nobody parked: CAS locked_no_waiting -> nolocked succeeds.
Unlock_Fast(c) ==
  /\ pc[c] = "unlock"
  /\ Running(c)
  /\ resumeList = <<>>
  /\ state = <<>>
  /\ state' = NoLocked
  /\ pc' = [pc EXCEPT ![c] = AfterRound(c)]
  /\ EndRound(c)
  /\ UNCHANGED <<resumeList, waitCnt, queue>>

\* Mutant: the chain is handed off in LIFO order, without the reversal.
Unlock_TakeChain_noReverse(c) ==
  /\ pc[c] = "unlock"
  /\ Running(c)
  /\ resumeList = <<>>
  /\ state \notin {NoLocked, <<>>}
  /\ LET w == Head(state)
     IN  /\ state' = <<>>
         /\ resumeList' = Tail(state)
         /\ pc' = [pc EXCEPT ![w] = "resumed", ![c] = AfterRound(c)]
         /\ SubmitTask(w)
  /\ EndRound(c)
  /\ UNCHANGED waitCnt

\* The CAS fails because awaiters are parked: exchange m_state with
\* locked_no_waiting, reverse the chain into FIFO order, resume its first
\* awaiter and keep the rest as m_resume_list_head.  Awaiters that park
\* between the failed CAS and the exchange are taken by the exchange too.
Unlock_TakeChain(c) ==
  /\ pc[c] = "unlock"
  /\ Running(c)
  /\ resumeList = <<>>
  /\ state \notin {NoLocked, <<>>}
  /\ LET fifo == Reverse(state)
         w    == Head(fifo)
     IN  /\ state' = <<>>
         /\ resumeList' = Tail(fifo)
         /\ pc' = [pc EXCEPT ![w] = "resumed", ![c] = AfterRound(c)]
         /\ SubmitTask(w)
  /\ EndRound(c)
  /\ UNCHANGED waitCnt

(***************************************************************************)
(* Specification                                                           *)
(***************************************************************************)

\* Every coroutine is submitted to its context before the workers start.
Init ==
  /\ state = NoLocked
  /\ resumeList = <<>>
  /\ pc = [c \in Coro |-> "lock"]
  /\ round = [c \in Coro |-> 0]
  /\ waitCnt = [x \in Ctx |-> 0]
  /\ queue = [x \in Ctx |-> SetToSeq({c \in Coro : CtxOf[c] = x})]
  /\ running = [x \in Ctx |-> NoCoro]

CoroStep(c) ==
  \/ Lock_Acquire(c)
  \/ Lock_Park(c)
  \/ TryLock(c)
  \/ AwaitResume(c)
  \/ CriticalSection(c)
  \/ Unlock_ResumeList(c)
  \/ Unlock_Fast(c)
  \/ Unlock_TakeChain(c)

\* Every coroutine has run its rounds: the system stops.
Terminated ==
  /\ \A c \in Coro : pc[c] = "done"
  /\ UNCHANGED vars

Next ==
  \/ \E x \in Ctx : ExecOneTask(x)
  \/ \E c \in Coro : CoroStep(c)
  \/ Terminated

\* Worker threads keep looping, so a queued task is eventually run and a
\* running coroutine eventually takes its next step.
Fairness ==
  /\ \A x \in Ctx : WF_vars(ExecOneTask(x))
  /\ \A c \in Coro : WF_vars(CoroStep(c))

Spec == Init /\ [][Next]_vars /\ Fairness

(***************************************************************************)
(* Properties                                                              *)
(***************************************************************************)

TypeOK ==
  /\ state \in {NoLocked} \cup Seq(Coro)
  /\ resumeList \in Seq(Coro)
  /\ pc \in [Coro -> Pcs]
  /\ round \in [Coro -> 0..Rounds]
  /\ waitCnt \in [Ctx -> Nat]
  /\ queue \in [Ctx -> Seq(Coro)]
  /\ running \in [Ctx -> Coro \cup {NoCoro}]

\* Mutual exclusion: no two coroutines own the mutex at once, counting a
\* waiter that unlock() handed the lock to before its context resumed it.
MutualExclusion ==
  \A c, d \in Holders : c = d

\* No lost wakeup: while any awaiter is parked in m_state or in
\* m_resume_list_head, some coroutine owns the mutex and m_state is not
\* nolocked, so a later unlock() will hand the lock on.
NoLostWakeup ==
  (\E c \in Coro : pc[c] = "parked") => (Holders # {} /\ state # NoLocked)

\* A context's wait count covers its parked awaiters: m_num_wait_task is 0
\* only when no coroutine of that context is parked on the mutex, which the
\* context's stop check in context::run relies on.
WaitCountCoversParked ==
  \A x \in Ctx :
    waitCnt[x] = 0 => \A c \in Coro : CtxOf[c] = x => pc[c] \notin {"parked", "resumed"}

\* Starvation freedom: every coroutine that parks on the mutex is
\* eventually handed the lock and enters its critical section.
StarvationFree ==
  \A c \in Coro : pc[c] = "parked" ~> pc[c] = "cs"

\* Refinement: the mutex implements a strictly FIFO lock.  The abstract
\* owner is the coroutine holding the mutex; the abstract queue is the
\* batch m_resume_list_head followed by the m_state chain in arrival order.
Abstract == INSTANCE AbstractLock WITH
  owner   <- IF Holders = {} THEN NoCoro ELSE CHOOSE h \in Holders : TRUE,
  waiting <- resumeList \o Reverse(Chain)

ImplementsFifoLock == Abstract!Spec

=============================================================================
