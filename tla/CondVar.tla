------------------------------ MODULE CondVar ------------------------------
(***************************************************************************)
(* coro::condition_variable (src/src/comp/condition_variable.cpp) with the *)
(* coro::mutex it is used with (src/src/comp/mutex.cpp).                   *)
(*                                                                         *)
(* A cv_awaiter is a mutex_awaiter: notify_one / notify_all take waiters   *)
(* off the FIFO list (under the spinlock m_lock) and call wake_up, which   *)
(* runs mutex_awaiter::register_lock for the waiter on the notifier's      *)
(* thread.  If that takes the mutex, cv_awaiter::resume runs there too;    *)
(* otherwise the waiter is pushed on the mutex's chain and mutex::unlock   *)
(* later calls its (virtual) resume on the unlocker's thread.  resume      *)
(* evaluates the predicate: true resumes the coroutine for real, holding   *)
(* the mutex; false re-parks it on the list and unlocks the mutex on its   *)
(* behalf, which may hand the mutex to the next waiter, and so on.         *)
(*                                                                         *)
(* Each spinlock critical section is one step.  The predicate, the         *)
(* register_wait and m_suspend_state before register_cv are read and       *)
(* written by the thread that holds the mutex on the waiter's behalf, so   *)
(* they are one step with register_cv.                                     *)
(*                                                                         *)
(* The workload is the producer/consumer of the tests: a consumer locks,   *)
(* waits with the predicate items > 0, takes an item and unlocks; a        *)
(* producer locks, adds an item and notifies, either before or after its   *)
(* unlock, with notify_one or notify_all.  Every coroutine runs on its own *)
(* context, so waitCnt is per coroutine.                                   *)
(***************************************************************************)
EXTENDS Integers, Sequences, SequencesExt, FiniteSets

CONSTANTS
  Consumers,     \* coroutines that co_await cv.wait(mtx, pred)
  Producers,     \* coroutines that add an item and notify
  NotifyAll,     \* producers that call notify_all (the others notify_one)
  NotifyInside,  \* producers that notify while still holding the mutex
  NoLocked,      \* mutex::nolocked
  None           \* no coroutine

ASSUME NotifyAll \subseteq Producers /\ NotifyInside \subseteq Producers

Coro == Consumers \cup Producers

VARIABLES
  mstate,      \* mutex::m_state: NoLocked or the chain, head first
  resumeList,  \* mutex::m_resume_list_head
  cvList,      \* the list m_head .. m_tail
  items,       \* the shared data the predicate reads, guarded by the mutex
  waitCnt,     \* context::m_num_wait_task of each coroutine's context
  suspended,   \* cv_awaiter::m_suspend_state
  pc,          \* where each coroutine is
  ret,         \* where a coroutine goes once its current unlock() returns
  hand,        \* the waiter a coroutine is running wake_up / resume for
  batch,       \* the list notify_all detached and is walking
  handed,      \* waiters submitted to their context holding the mutex
  owner        \* the coroutine the mutex belongs to (history variable)

vars == <<mstate, resumeList, cvList, items, waitCnt, suspended, pc, ret,
          hand, batch, handed, owner>>

Pcs == {"lock", "mparked", "mresumed", "wait", "cvsusp", "consume",
        "produce", "notify", "wake", "cvres", "notify_next", "unlock", "done"}

\* Where a producer goes once its notify has returned.
AfterNotify(p) == IF p \in NotifyInside THEN "unlock" ELSE "done"

\* A coroutine returns from the unlock / wake_up / resume it was running:
\* the pc and the ret it continues with.
NextPc(u) == IF ret[u] = "after_notify" THEN AfterNotify(u) ELSE ret[u]
NextRet(u) == IF ret[u] = "after_notify" THEN "done" ELSE ret[u]

\* The pc a coroutine holding the mutex after lock() goes on to.
AfterLock(c) == IF c \in Consumers THEN "wait" ELSE "produce"

(***************************************************************************)
(* mutex::lock() by a coroutine                                            *)
(***************************************************************************)

\* Mutant: lock() parks without registering a wait on its context.
MutexLock_noRegister(c) ==
  /\ pc[c] = "lock"
  /\ IF mstate = NoLocked
     THEN /\ mstate' = <<>>
          /\ owner' = c
          /\ pc' = [pc EXCEPT ![c] = AfterLock(c)]
     ELSE /\ mstate' = <<c>> \o mstate
          /\ pc' = [pc EXCEPT ![c] = "mparked"]
          /\ UNCHANGED owner
  /\ UNCHANGED <<resumeList, cvList, items, waitCnt, suspended, ret, hand,
                 batch, handed>>

\* register_lock: CAS nolocked -> locked_no_waiting, or push this awaiter
\* (await_suspend registered a wait first; await_resume undoes it).
MutexLock(c) ==
  /\ pc[c] = "lock"
  /\ IF mstate = NoLocked
     THEN /\ mstate' = <<>>
          /\ owner' = c
          /\ pc' = [pc EXCEPT ![c] = AfterLock(c)]
          /\ UNCHANGED waitCnt
     ELSE /\ mstate' = <<c>> \o mstate
          /\ waitCnt' = [waitCnt EXCEPT ![c] = @ + 1]
          /\ pc' = [pc EXCEPT ![c] = "mparked"]
          /\ UNCHANGED owner
  /\ UNCHANGED <<resumeList, cvList, items, suspended, ret, hand, batch, handed>>

\* mutex_awaiter::await_resume of a coroutine unlock() handed the mutex to.
MutexAwaitResume(c) ==
  /\ pc[c] = "mresumed"
  /\ waitCnt' = [waitCnt EXCEPT ![c] = @ - 1]
  /\ pc' = [pc EXCEPT ![c] = AfterLock(c)]
  /\ UNCHANGED <<mstate, resumeList, cvList, items, suspended, ret, hand,
                 batch, handed, owner>>

(***************************************************************************)
(* mutex::unlock(), run by u for itself or for a re-parked cv waiter       *)
(***************************************************************************)

\* to_resume->resume() for the waiter w unlock() hands the mutex to: a
\* plain mutex_awaiter is submitted to its context and u's unlock returns;
\* a cv_awaiter's resume runs on u's thread.
HandOff(u, w) ==
  /\ owner' = w
  /\ IF pc[w] = "mparked"
     THEN /\ pc' = [pc EXCEPT ![w] = "mresumed", ![u] = NextPc(u)]
          /\ ret' = [ret EXCEPT ![u] = NextRet(u)]
          /\ UNCHANGED hand
     ELSE /\ pc' = [pc EXCEPT ![u] = "cvres"]
          /\ hand' = [hand EXCEPT ![u] = w]
          /\ UNCHANGED ret

\* unlock: pop m_resume_list_head; or CAS locked_no_waiting -> nolocked;
\* or exchange the chain out, reverse it, hand off to its first awaiter.
Unlock(u) ==
  /\ pc[u] = "unlock"
  /\ CASE resumeList # <<>> ->
            /\ resumeList' = Tail(resumeList)
            /\ HandOff(u, Head(resumeList))
            /\ UNCHANGED mstate
       [] mstate = <<>> ->
            /\ mstate' = NoLocked
            /\ owner' = None
            /\ pc' = [pc EXCEPT ![u] = NextPc(u)]
            /\ ret' = [ret EXCEPT ![u] = NextRet(u)]
            /\ UNCHANGED <<resumeList, hand>>
       [] OTHER ->
            /\ mstate' = <<>>
            /\ resumeList' = Tail(Reverse(mstate))
            /\ HandOff(u, Head(Reverse(mstate)))
  /\ UNCHANGED <<cvList, items, waitCnt, suspended, batch, handed>>

(***************************************************************************)
(* cv.wait(mtx, pred): cv_awaiter                                          *)
(***************************************************************************)

\* Mutant: register_cv runs before the predicate is tested, so a waiter
\* that does not suspend stays on the list.
CvWait_registerFirst(c) ==
  /\ pc[c] = "wait"
  /\ cvList' = Append(cvList, c)
  /\ IF items > 0
     THEN /\ pc' = [pc EXCEPT ![c] = "consume"]
          /\ UNCHANGED <<waitCnt, suspended, ret>>
     ELSE /\ waitCnt' = [waitCnt EXCEPT ![c] = @ + IF suspended[c] THEN 0 ELSE 1]
          /\ suspended' = [suspended EXCEPT ![c] = TRUE]
          /\ pc' = [pc EXCEPT ![c] = "unlock"]
          /\ ret' = [ret EXCEPT ![c] = "cvsusp"]
  /\ UNCHANGED <<mstate, resumeList, items, hand, batch, handed, owner>>

\* register_lock: a true predicate means no suspension (await_resume's
\* unregister_wait(false) is a no-op); otherwise register_wait(!m_suspend_
\* state), m_suspend_state = true, register_cv, then m_mtx.unlock().
CvWait(c) ==
  /\ pc[c] = "wait"
  /\ IF items > 0
     THEN /\ pc' = [pc EXCEPT ![c] = "consume"]
          /\ UNCHANGED <<cvList, waitCnt, suspended, ret>>
     ELSE /\ waitCnt' = [waitCnt EXCEPT ![c] = @ + IF suspended[c] THEN 0 ELSE 1]
          /\ suspended' = [suspended EXCEPT ![c] = TRUE]
          /\ cvList' = Append(cvList, c)
          /\ pc' = [pc EXCEPT ![c] = "unlock"]
          /\ ret' = [ret EXCEPT ![c] = "cvsusp"]
  /\ UNCHANGED <<mstate, resumeList, items, hand, batch, handed, owner>>

\* Mutant: a re-park registers another wait, as plain register_wait() would.
CvResume_recount(u) ==
  /\ pc[u] = "cvres"
  /\ LET w == hand[u]
     IN  IF items > 0
         THEN /\ handed' = handed \cup {w}
              /\ pc' = [pc EXCEPT ![u] = NextPc(u)]
              /\ ret' = [ret EXCEPT ![u] = NextRet(u)]
              /\ UNCHANGED <<cvList, waitCnt, suspended>>
         ELSE /\ waitCnt' = [waitCnt EXCEPT ![w] = @ + 1]
              /\ suspended' = [suspended EXCEPT ![w] = TRUE]
              /\ cvList' = Append(cvList, w)
              /\ pc' = [pc EXCEPT ![u] = "unlock"]
              /\ UNCHANGED <<ret, handed>>
  /\ UNCHANGED <<mstate, resumeList, items, hand, batch, owner>>

\* Mutant: resume skips the predicate and always resumes for real.
CvResume_noPredicate(u) ==
  /\ pc[u] = "cvres"
  /\ handed' = handed \cup {hand[u]}
  /\ pc' = [pc EXCEPT ![u] = NextPc(u)]
  /\ ret' = [ret EXCEPT ![u] = NextRet(u)]
  /\ UNCHANGED <<mstate, resumeList, cvList, items, waitCnt, suspended, hand,
                 batch, owner>>

\* cv_awaiter::resume for hand[u], run by u, which holds the mutex for it:
\* a true predicate submits the waiter (mutex_awaiter::resume); a false one
\* re-parks it without counting it again and unlocks on its behalf.
CvResume(u) ==
  /\ pc[u] = "cvres"
  /\ LET w == hand[u]
     IN  IF items > 0
         THEN /\ handed' = handed \cup {w}
              /\ pc' = [pc EXCEPT ![u] = NextPc(u)]
              /\ ret' = [ret EXCEPT ![u] = NextRet(u)]
              /\ UNCHANGED <<cvList, waitCnt, suspended>>
         ELSE /\ waitCnt' = [waitCnt EXCEPT ![w] = @ + IF suspended[w] THEN 0 ELSE 1]
              /\ suspended' = [suspended EXCEPT ![w] = TRUE]
              /\ cvList' = Append(cvList, w)
              /\ pc' = [pc EXCEPT ![u] = "unlock"]
              /\ UNCHANGED <<ret, handed>>
  /\ UNCHANGED <<mstate, resumeList, items, hand, batch, owner>>

\* cv_awaiter::await_resume once the submitted coroutine runs again (after
\* its own await_suspend has returned): unregister_wait(m_suspend_state).
CvAwaitResume(c) ==
  /\ pc[c] = "cvsusp"
  /\ c \in handed
  /\ waitCnt' = [waitCnt EXCEPT ![c] = @ - IF suspended[c] THEN 1 ELSE 0]
  /\ handed' = handed \ {c}
  /\ pc' = [pc EXCEPT ![c] = "consume"]
  /\ UNCHANGED <<mstate, resumeList, cvList, items, suspended, ret, hand,
                 batch, owner>>

(***************************************************************************)
(* The workload's critical sections                                        *)
(***************************************************************************)

Consume(c) ==
  /\ pc[c] = "consume"
  /\ items' = items - 1
  /\ pc' = [pc EXCEPT ![c] = "unlock"]
  /\ ret' = [ret EXCEPT ![c] = "done"]
  /\ UNCHANGED <<mstate, resumeList, cvList, waitCnt, suspended, hand, batch,
                 handed, owner>>

Produce(p) ==
  /\ pc[p] = "produce"
  /\ items' = items + 1
  /\ IF p \in NotifyInside
     THEN /\ pc' = [pc EXCEPT ![p] = "notify"]
          /\ UNCHANGED ret
     ELSE /\ pc' = [pc EXCEPT ![p] = "unlock"]
          /\ ret' = [ret EXCEPT ![p] = "notify"]
  /\ UNCHANGED <<mstate, resumeList, cvList, waitCnt, suspended, hand, batch,
                 handed, owner>>

(***************************************************************************)
(* notify_one / notify_all and wake_up                                     *)
(***************************************************************************)

\* notify_one: under m_lock, pop m_head (clearing m_tail when it empties).
NotifyOne(p) ==
  /\ pc[p] = "notify"
  /\ p \notin NotifyAll
  /\ IF cvList = <<>>
     THEN /\ pc' = [pc EXCEPT ![p] = AfterNotify(p)]
          /\ ret' = [ret EXCEPT ![p] = "done"]
          /\ UNCHANGED <<cvList, hand>>
     ELSE /\ hand' = [hand EXCEPT ![p] = Head(cvList)]
          /\ cvList' = Tail(cvList)
          /\ pc' = [pc EXCEPT ![p] = "wake"]
          /\ ret' = [ret EXCEPT ![p] = "after_notify"]
  /\ UNCHANGED <<mstate, resumeList, items, waitCnt, suspended, batch, handed,
                 owner>>

\* notify_all: under m_lock, detach the whole list.
NotifyAllDetach(p) ==
  /\ pc[p] = "notify"
  /\ p \in NotifyAll
  /\ batch' = [batch EXCEPT ![p] = cvList]
  /\ cvList' = <<>>
  /\ ret' = [ret EXCEPT ![p] = "notify_next"]
  /\ pc' = [pc EXCEPT ![p] = "notify_next"]
  /\ UNCHANGED <<mstate, resumeList, items, waitCnt, suspended, hand, handed,
                 owner>>

\* notify_all's loop: nxt = cur->m_next, then wake_up(cur).
NotifyAllNext(p) ==
  /\ pc[p] = "notify_next"
  /\ IF batch[p] = <<>>
     THEN /\ pc' = [pc EXCEPT ![p] = AfterNotify(p)]
          /\ ret' = [ret EXCEPT ![p] = "done"]
          /\ UNCHANGED <<hand, batch>>
     ELSE /\ hand' = [hand EXCEPT ![p] = Head(batch[p])]
          /\ batch' = [batch EXCEPT ![p] = Tail(@)]
          /\ pc' = [pc EXCEPT ![p] = "wake"]
          /\ UNCHANGED ret
  /\ UNCHANGED <<mstate, resumeList, cvList, items, waitCnt, suspended,
                 handed, owner>>

\* Mutant: wake_up takes the mutex for the waiter without the CAS.
WakeUp_noCas(p) ==
  /\ pc[p] = "wake"
  /\ owner' = hand[p]
  /\ mstate' = <<>>
  /\ pc' = [pc EXCEPT ![p] = "cvres"]
  /\ UNCHANGED <<resumeList, cvList, items, waitCnt, suspended, ret, hand,
                 batch, handed>>

\* Mutant: wake_up drops a waiter when the mutex is taken.
WakeUp_dropWhenLocked(p) ==
  /\ pc[p] = "wake"
  /\ IF mstate = NoLocked
     THEN /\ mstate' = <<>>
          /\ owner' = hand[p]
          /\ pc' = [pc EXCEPT ![p] = "cvres"]
          /\ UNCHANGED ret
     ELSE /\ pc' = [pc EXCEPT ![p] = NextPc(p)]
          /\ ret' = [ret EXCEPT ![p] = NextRet(p)]
          /\ UNCHANGED <<mstate, owner>>
  /\ UNCHANGED <<resumeList, cvList, items, waitCnt, suspended, hand, batch,
                 handed>>

\* wake_up: mutex_awaiter::register_lock for the waiter; if it takes the
\* mutex, resume() runs now; if it is pushed on the chain, unlock() will.
WakeUp(p) ==
  /\ pc[p] = "wake"
  /\ LET w == hand[p]
     IN  IF mstate = NoLocked
         THEN /\ mstate' = <<>>
              /\ owner' = w
              /\ pc' = [pc EXCEPT ![p] = "cvres"]
              /\ UNCHANGED ret
         ELSE /\ mstate' = <<w>> \o mstate
              /\ pc' = [pc EXCEPT ![p] = NextPc(p)]
              /\ ret' = [ret EXCEPT ![p] = NextRet(p)]
              /\ UNCHANGED owner
  /\ UNCHANGED <<resumeList, cvList, items, waitCnt, suspended, hand, batch,
                 handed>>

(***************************************************************************)
(* Specification                                                           *)
(***************************************************************************)

Init ==
  /\ mstate = NoLocked
  /\ resumeList = <<>>
  /\ cvList = <<>>
  /\ items = 0
  /\ waitCnt = [c \in Coro |-> 0]
  /\ suspended = [c \in Coro |-> FALSE]
  /\ pc = [c \in Coro |-> "lock"]
  /\ ret = [c \in Coro |-> "done"]
  /\ hand = [c \in Coro |-> None]
  /\ batch = [c \in Coro |-> <<>>]
  /\ handed = {}
  /\ owner = None

CoroStep(c) ==
  \/ MutexLock(c)
  \/ MutexAwaitResume(c)
  \/ Unlock(c)
  \/ CvWait(c)
  \/ CvResume(c)
  \/ CvAwaitResume(c)
  \/ Consume(c)
  \/ Produce(c)
  \/ NotifyOne(c)
  \/ NotifyAllDetach(c)
  \/ NotifyAllNext(c)
  \/ WakeUp(c)

Terminated ==
  /\ \A c \in Coro : pc[c] = "done"
  /\ UNCHANGED vars

Next ==
  \/ \E c \in Coro : CoroStep(c)
  \/ Terminated

\* Every coroutine has a worker of its own that runs it whenever it can
\* take a step.
Fairness == \A c \in Coro : WF_vars(CoroStep(c))

Spec == Init /\ [][Next]_vars /\ Fairness

\* ~mutex(): assert(m_state == nolocked).
MutexDestructorOk == mstate = NoLocked

\* ~condition_variable(): assert(m_head == nullptr && m_tail == nullptr).
CvDestructorOk == cvList = <<>>

(***************************************************************************)
(* Properties                                                              *)
(***************************************************************************)

TypeOK ==
  /\ mstate \in {NoLocked} \cup Seq(Coro)
  /\ resumeList \in Seq(Coro)
  /\ cvList \in Seq(Consumers)
  /\ items \in Int
  /\ waitCnt \in [Coro -> Nat]
  /\ suspended \in [Coro -> BOOLEAN]
  /\ pc \in [Coro -> Pcs]
  /\ handed \subseteq Consumers
  /\ owner \in Coro \cup {None}

\* Only the owner of the mutex is in a critical section: taking it by
\* lock(), by wake_up's register_lock, or by a hand-off in unlock() (also
\* one run on a re-parked waiter's behalf) never gives it to two.
MutualExclusion ==
  \A c \in Coro : pc[c] \in {"wait", "consume", "produce"} => owner = c

\* The predicate holds on return from wait(): a consumer never gets past
\* cv.wait(mtx, items > 0) while there is no item, however notifications,
\* re-parks and hand-offs interleave.
PredicateHoldsAfterWait ==
  \A c \in Consumers : pc[c] = "consume" => items > 0

\* m_suspend_state makes a waiter count once: a consumer's context counts
\* it at most once however often it re-parks, and not at all once it has
\* returned from wait().
WaitCountedOnce ==
  \A c \in Consumers :
    /\ waitCnt[c] <= 1
    /\ pc[c] \in {"consume", "done"} => waitCnt[c] = 0

\* The destructors' assertions hold when the workload is over: the mutex
\* is nolocked and the condition variable's list is empty.
DestructorsHold ==
  (\A c \in Coro : pc[c] = "done") => (MutexDestructorOk /\ CvDestructorOk)

\* Every consumer eventually takes its item: no notification is lost.
EveryConsumerDone ==
  \A c \in Consumers : <>(pc[c] = "done")

=============================================================================
