------------------------------- MODULE Event -------------------------------
(***************************************************************************)
(* coro::detail::event_base (src/src/comp/event.cpp, event.hpp).           *)
(*                                                                         *)
(* m_state is one atomic word: nullptr, the head of a LIFO chain of        *)
(* awaiters linked through m_next, or the event's own address, the "set"   *)
(* mark.  co_await ev.wait() runs await_ready (register_wait, then         *)
(* is_set), and when that is false await_suspend -> register_awaiters, a   *)
(* CAS loop that gives up when it loads the set mark.  set() exchanges the *)
(* set mark in and resumes the chain it took out, reading each awaiter's   *)
(* m_next before submitting the awaiter to its context.                    *)
(*                                                                         *)
(* register_awaiters' load and CAS act on m_state alone and write only the *)
(* awaiter's private m_next in between, so the loop is one atomic step.    *)
(* register_wait and the is_set load are one step: only the awaiter's own  *)
(* worker reads its context's m_num_wait_task.                             *)
(*                                                                         *)
(* event<T>::set(value) first stores the payload in the event's container  *)
(* (return_value), then calls set_state; the awaiter's await_resume        *)
(* returns result(), the payload as it is when it reads it.  event<>::set  *)
(* is set_state alone (Payload NoVal).                                     *)
(***************************************************************************)
EXTENDS Naturals, FiniteSets

CONSTANTS
  Awaiters,  \* coroutines that co_await ev.wait()
  Setters,   \* threads that call ev.set()
  Ctx,       \* contexts
  CtxOf,     \* the context of each awaiter
  NoAw,      \* nullptr
  SetMark,   \* the event's own address: m_state when set
  Payload,   \* the value each setter passes to set(value), or NoVal
  NoVal      \* no payload stored (event<>, or not yet set)

ASSUME CtxOf \in [Awaiters -> Ctx]

VARIABLES
  evState,   \* event_base::m_state
  next,      \* awaiter_base::m_next
  apc,       \* where each awaiter is
  spc,       \* where each setter is
  cursor,    \* the awaiter a setter's resume_all_awaiters loop is at
  waitCnt,   \* context::m_num_wait_task of each context
  resumes,   \* how many times each awaiter has been submitted
  value,     \* the payload in the event's container
  got        \* what each awaiter's await_resume returned

vars == <<evState, next, apc, spc, cursor, waitCnt, resumes, value, got>>

Ptr == Awaiters \cup {NoAw}

(***************************************************************************)
(* wait(): awaiter_base                                                    *)
(***************************************************************************)

\* Mutant: register_wait moved into await_suspend, so the ready path's
\* await_resume unregisters a wait it never registered.
AwaitReady_noRegister(a) ==
  /\ apc[a] = "ready"
  /\ IF evState = SetMark
     THEN /\ apc' = [apc EXCEPT ![a] = "done"]
          /\ waitCnt' = [waitCnt EXCEPT ![CtxOf[a]] = @ - 1]
     ELSE /\ apc' = [apc EXCEPT ![a] = "register"]
          /\ waitCnt' = [waitCnt EXCEPT ![CtxOf[a]] = @ + 1]
  /\ UNCHANGED <<evState, next, spc, cursor, resumes, value, got>>

\* Mutant: is_set tests m_state against nullptr instead of the set mark.
AwaitReady_nullTest(a) ==
  /\ apc[a] = "ready"
  /\ waitCnt' = [waitCnt EXCEPT ![CtxOf[a]] = @ + 1]
  /\ apc' = [apc EXCEPT ![a] = IF evState # NoAw THEN "resume" ELSE "register"]
  /\ UNCHANGED <<evState, next, spc, cursor, resumes, value, got>>

\* await_ready: register_wait(); return is_set().  When it is set the
\* coroutine goes straight on to await_resume.
AwaitReady(a) ==
  /\ apc[a] = "ready"
  /\ waitCnt' = [waitCnt EXCEPT ![CtxOf[a]] = @ + 1]
  /\ apc' = [apc EXCEPT ![a] = IF evState = SetMark THEN "resume" ELSE "register"]
  /\ UNCHANGED <<evState, next, spc, cursor, resumes, value, got>>

\* Mutant: register_awaiters leaves out the test for the set mark.
RegisterAwaiters_noSetTest(a) ==
  /\ apc[a] = "register"
  /\ next' = [next EXCEPT ![a] = IF evState = SetMark THEN NoAw ELSE evState]
  /\ evState' = a
  /\ apc' = [apc EXCEPT ![a] = "parked"]
  /\ UNCHANGED <<spc, cursor, waitCnt, resumes, value, got>>

\* await_suspend -> register_awaiters: load m_state; the set mark means
\* return false (not suspended, await_resume runs); otherwise m_next = the
\* loaded head and CAS this in as the new head: suspended.
RegisterAwaiters(a) ==
  /\ apc[a] = "register"
  /\ IF evState = SetMark
     THEN /\ apc' = [apc EXCEPT ![a] = "resume"]
          /\ UNCHANGED <<evState, next>>
     ELSE /\ next' = [next EXCEPT ![a] = evState]
          /\ evState' = a
          /\ apc' = [apc EXCEPT ![a] = "parked"]
  /\ UNCHANGED <<spc, cursor, waitCnt, resumes, value, got>>

\* await_resume: unregister_wait(); wait() returns result().
AwaitResume(a) ==
  /\ apc[a] = "resume"
  /\ waitCnt' = [waitCnt EXCEPT ![CtxOf[a]] = @ - 1]
  /\ apc' = [apc EXCEPT ![a] = "done"]
  /\ got' = [got EXCEPT ![a] = value]
  /\ UNCHANGED <<evState, next, spc, cursor, resumes, value>>

(***************************************************************************)
(* set(): set_state and resume_all_awaiters                                *)
(***************************************************************************)

\* Mutant: set(value) goes straight to set_state without return_value.
Store_noop(s) ==
  /\ spc[s] = "store"
  /\ spc' = [spc EXCEPT ![s] = "set"]
  /\ UNCHANGED <<evState, next, apc, cursor, waitCnt, resumes, value, got>>

\* event<T>::set(value): this->return_value(value) stores the payload.
Store(s) ==
  /\ spc[s] = "store"
  /\ value' = Payload[s]
  /\ spc' = [spc EXCEPT ![s] = "set"]
  /\ UNCHANGED <<evState, next, apc, cursor, waitCnt, resumes, got>>

\* set_state: flag = m_state.exchange(this); if it was not set, resume the
\* chain taken out.
SetState(s) ==
  /\ spc[s] = "set"
  /\ evState' = SetMark
  /\ cursor' = [cursor EXCEPT ![s] = IF evState = SetMark THEN NoAw ELSE evState]
  /\ spc' = [spc EXCEPT ![s] = IF evState \in Awaiters THEN "resuming" ELSE "done"]
  /\ UNCHANGED <<next, apc, waitCnt, resumes, value, got>>

\* Mutant: the loop does not advance past the awaiter it submitted.
ResumeAwaiter_noAdvance(s) ==
  /\ spc[s] = "resuming"
  /\ LET cur == cursor[s]
     IN  /\ apc' = [apc EXCEPT ![cur] = "resume"]
         /\ resumes' = [resumes EXCEPT ![cur] = @ + 1]
  /\ UNCHANGED <<evState, next, spc, cursor, waitCnt, value, got>>

\* resume_all_awaiters: next = cur->m_next; submit cur to its context
\* (it resumes there and runs await_resume); go on with next.
ResumeAwaiter(s) ==
  /\ spc[s] = "resuming"
  /\ LET cur == cursor[s]
     IN  /\ cursor' = [cursor EXCEPT ![s] = next[cur]]
         /\ apc' = [apc EXCEPT ![cur] = "resume"]
         /\ resumes' = [resumes EXCEPT ![cur] = @ + 1]
         /\ spc' = [spc EXCEPT ![s] = IF next[cur] = NoAw THEN "done" ELSE "resuming"]
  /\ UNCHANGED <<evState, next, waitCnt, value, got>>

(***************************************************************************)
(* Specification                                                           *)
(***************************************************************************)

\* event_base(false): m_state is nullptr.
Init ==
  /\ evState = NoAw
  /\ next = [a \in Awaiters |-> NoAw]
  /\ apc = [a \in Awaiters |-> "ready"]
  /\ spc = [s \in Setters |-> IF Payload[s] = NoVal THEN "set" ELSE "store"]
  /\ cursor = [s \in Setters |-> NoAw]
  /\ waitCnt = [x \in Ctx |-> 0]
  /\ resumes = [a \in Awaiters |-> 0]
  /\ value = NoVal
  /\ got = [a \in Awaiters |-> NoVal]

AwaiterStep(a) ==
  \/ AwaitReady(a)
  \/ RegisterAwaiters(a)
  \/ AwaitResume(a)

SetterStep(s) ==
  \/ Store(s)
  \/ SetState(s)
  \/ ResumeAwaiter(s)

\* Every awaiter has returned from wait() and every set() has finished.
Terminated ==
  /\ \A a \in Awaiters : apc[a] = "done"
  /\ \A s \in Setters : spc[s] = "done"
  /\ UNCHANGED vars

Next ==
  \/ \E a \in Awaiters : AwaiterStep(a)
  \/ \E s \in Setters : SetterStep(s)
  \/ Terminated

\* Each awaiter's worker runs it once resumed; each setter is a running
\* coroutine or thread.
Fairness ==
  /\ \A a \in Awaiters : WF_vars(AwaiterStep(a))
  /\ \A s \in Setters : WF_vars(SetterStep(s))

Spec == Init /\ [][Next]_vars /\ Fairness

(***************************************************************************)
(* Properties                                                              *)
(***************************************************************************)

TypeOK ==
  /\ evState \in Ptr \cup {SetMark}
  /\ next \in [Awaiters -> Ptr]
  /\ apc \in [Awaiters -> {"ready", "register", "parked", "resume", "done"}]
  /\ spc \in [Setters -> {"store", "set", "resuming", "done"}]
  /\ cursor \in [Setters -> Ptr]
  /\ waitCnt \in [Ctx -> Nat]
  /\ resumes \in [Awaiters -> Nat]
  /\ value \in {Payload[s] : s \in Setters} \cup {NoVal}
  /\ got \in [Awaiters -> {Payload[s] : s \in Setters} \cup {NoVal}]

\* Some set() has exchanged the set mark in.
IsSet == evState = SetMark

\* wait() returns only once the event is set: no awaiter gets past
\* await_ready or register_awaiters, or is resumed, while m_state is
\* nullptr or a chain.
WaitReturnsOnlyWhenSet ==
  \A a \in Awaiters : apc[a] \in {"resume", "done"} => IsSet

\* Exactly-once resumption: the set() that takes a chain out submits each
\* awaiter on it once, and no later set() submits it again.
ResumedAtMostOnce ==
  \A a \in Awaiters : resumes[a] <= 1

\* A context's m_num_wait_task covers its awaiters inside wait(), so its
\* worker cannot leave run() while one of them is parked.
WaitCountCoversWaiters ==
  \A x \in Ctx :
    Cardinality({a \in Awaiters : CtxOf[a] = x /\ apc[a] \in {"register", "parked", "resume"}})
      = waitCnt[x]

\* Event broadcast: every awaiter's wait() resolves to the value set()
\* passed, whether it was resumed by set() on another thread or found the
\* event already set; never to the payload as it was before set() stored it.
ValueDelivered ==
  \A a \in Awaiters : apc[a] = "done" => got[a] = value /\ got[a] # NoVal

\* No awaiter parks for good: every awaiter that registers, including one
\* racing set(), eventually returns from wait().
EveryWaiterReturns ==
  \A a \in Awaiters : apc[a] = "register" ~> apc[a] = "done"

=============================================================================
