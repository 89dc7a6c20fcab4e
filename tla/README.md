# TLA+ models of tinyCoroLab

TLA+ specifications of the coroutine runtime in `src/`, checked with TLC.
Each module translates the C++ code: its variables are the fields the code
shares between threads, and its actions are the atomic steps of the code's
functions. `PROJECT.json` maps every action to the source lines it models. It
also lists the runs, the mutants that show each property can fail, the
findings and the hazards.

## The system

* **Engine** (`src/src/engine.cpp`, `include/coro/engine.hpp`), one per
  worker thread. It has:
  * a multi-producer task queue of coroutine handles;
  * an eventfd that a producer writes to wake the worker;
  * io_uring staging counters for I/O.
* **Context** (`src/src/context.cpp`) owns one engine and one `jthread`.
  * Its worker runs `context::run`. Each turn it runs the batch of tasks
    queued at the start of the turn (`process_work`), then checks for stop,
    then for idleness, then blocks in `poll_work` on the eventfd.
  * `m_num_wait_task` counts the coroutines of this context parked on a
    primitive. A worker leaves `run` only when stop has been requested, no
    task is queued and that count is 0.
* **Scheduler** (`src/src/scheduler.cpp`) owns the contexts.
  * `m_stop_token` counts busy contexts. `m_ctx_stop_flag[i]` says whether
    context i is counted.
  * `submit_task_impl` ORs the target's flag and adds whatever the OR
    changed.
  * The stop callback a context calls when idle ANDs its flag to 0 and
    subtracts whatever the AND changed. The callback whose subtraction reaches
    0 calls `stop_impl`, which calls `notify_stop` on every context:
    `request_stop`, then `wake_up`.
* **Primitives** (`src/src/comp/`). They park coroutines on intrusive lists
  and resume them by submitting them back to their own context.
  * `mutex`: a tagged-pointer LIFO chain, plus a FIFO resume list private to
    the holder.
  * `event` and `latch`.
  * `wait_group`: a counter plus a LIFO chain.
  * `condition_variable`: a FIFO list under a spinlock, whose waiters embed a
    mutex awaiter.
* Only the engine's I/O counters are thread-private. Everything else above is
  shared between worker threads: coroutines on one context take locks, set
  events and submit tasks that wake coroutines on others.

## Modules

| Module | Models | State | Actions |
|---|---|---|---|
| `AbstractLock` | what a mutex promises: one owner, a FIFO queue of blocked coroutines | `owner`, `waiting` | Acquire, Block, Release |
| `Mutex` | `mutex.cpp` over contexts with task queues and wait counts | `state` (m_state: `NoLocked` or the chain, head first; `<<>>` is locked_no_waiting), `resumeList`, `waitCnt`, `queue`, `running`, per-coroutine `pc` | ExecOneTask, Lock_Acquire, Lock_Park, TryLock, AwaitResume, CriticalSection, Unlock_ResumeList, Unlock_Fast, Unlock_TakeChain |
| `WaitGroup` | `wait_group.cpp` | `count`, `wgState`, each awaiter's loaded head `seen`, each done()'s detached chain | Add, CheckCount, LoadHead, CasPush, CasFail, AwaitResume, Done_FetchSub, Done_Exchange, Done_ResumeNext |
| `Event` | `event.cpp` (`event_base`), `event.hpp` (`event<T>::set`) | `evState` (m_state: nullptr, a chain head, or the set mark), `next` (m_next), `waitCnt`, per-setter `cursor`, `value` (the payload), per-awaiter `got` | AwaitReady, RegisterAwaiters, AwaitResume, Store, SetState, ResumeAwaiter |
| `Latch` | `latch.hpp`, an `INSTANCE` of `Event` plus the counter | `count` and Event's state | CountDown, and Event's awaiter steps |
| `CondVar` | `condition_variable.cpp` composed with `mutex.cpp` | `mstate`, `resumeList`, `owner`, `cvList` (the spinlocked FIFO), `items`, `waitCnt`, `suspended` (m_suspend_state), per-coroutine `pc` and `ret` (where an unlock chain returns to) | MutexLock, MutexAwaitResume, HandOff, Unlock, CvWait, CvResume, CvAwaitResume, Consume, Produce, NotifyOne, NotifyAllDetach, NotifyAllNext, WakeUp |
| `EngineIO` | one context's `run` loop with its engine's I/O: `engine.cpp`, `context.cpp` | `queue`, `efd` (the eventfd as its task and CQE fields), `stopReq`, `staged` (m_num_io_wait_submit), `running` (m_num_io_running), `inflight` and `cq` (io_uring), per-task `tpc`, driver `dpc` | ProcessWork, ExecOneTask, CheckStop, DoIoSubmit, WaitEventfd, Harvest, Deinit, Complete (the kernel), NotifyStop_Request, NotifyStop_Wake |
| `Scheduler` | `scheduler.cpp` (including `start_impl` and `loop_impl`), `context::start`/`init`/`run`/`notify_stop`/`deinit`/`register_wait`/`unregister_wait`/`submit_task`, the engine's queue and eventfd, and one `event<>` shared by tasks on different contexts | `token`, `flag`, `queue`, `efd` (eventfd non-zero), `stopReq`, per-worker `cpc`/`budget`/`running`/`cbCnt`/`toNotify`/`waitCnt`, per-task `tpc`/`target`/`orOld`/`home`, the event's `evSet`/`chain`, per-setter `taken`, per-context `job` (m_job set), `launched` (contexts start_impl has launched) | StartImpl_Launch, StartImpl_AssignJob, CtxInit, ProcessWork, ExecOneTask (including await_ready and await_resume), CheckStop, IdleCb_And, IdleCb_Sub, StopImpl_Request, StopImpl_Wake, PollWork, Deinit, Submit_Or, Submit_Add, Submit_Push, RegisterAwaiters, SetState, ResumeAwaiter |
| `StopDetection` | what the stop protocol promises: a termination detector | `active` per context, `detected` | Finish, Hand, Detect |

`EngineIO` and `Scheduler` name the engine's own operations as helpers that
their actions use: `Ready` (`engine::ready`), `NumTaskSchedule`,
`AddIoSubmit`, `EngineDeinit` (`engine::deinit`, which drops queued tasks),
`RegisterWait`, and in `EngineIO` the eventfd layout (`TaskFlag`, `CqeCount`,
`EfdWrite`: a write adds to the counter, so task and CQE counts accumulate
until `wait_eventfd` reads and clears them). `Deinit` is `context::deinit`.

`MC_*.tla` instantiate these with model values; the `.cfg` files choose
properties and bounds.

### Atomicity

Every atomic read-modify-write, load or store that another thread can observe
is a step of its own. The one exception: a CAS loop whose load and CAS act on
the same word, and write in between only fields that no other thread reads
yet (`m_next`). Such a loop is one step, because its CAS succeeds only if the
word still holds the value just loaded:
* `mutex::register_lock`;
* `wait_group`'s push, in part: its count load stays a separate step, because
  it reads a different word.

In `context::run`, the operands of one `if` are read in one step. Reading
them in separate steps would add no outcome, because the step that acts on
the result (the stop callback, the break) is separate anyway.

### Workloads

The coroutines run the workloads of the repository's tests:
* **Mutex:** `Rounds` rounds of `lock()` or `try_lock()`, a critical
  section, then `unlock()`.
* **WaitGroup:** a coordinator calls `add(n)` and then waits, together with
  one other waiter, while n workers each call `done()`, for `Cycles` cycles.
* **Event / Latch:** awaiters call `wait()` while setters call `set()` (or
  downers call `count_down()`), as in the event and latch tests.
* **CondVar:** consumers `lock`, `cv.wait(mtx, items > 0)`, take an item and
  unlock; one producer adds an item and calls `notify_one` inside the lock,
  another adds one and calls `notify_all` after unlocking.
* **EngineIO:** root tasks on one context; some await one I/O operation (an
  `io_awaiter` calling `add_io_submit`), one submits a child to its own
  context. A driver optionally calls `notify_stop`.
* **Scheduler:** tasks run to completion. Some of them first submit a child
  through `scheduler::submit`, as `submit_to_scheduler` does. In
  `MC_SchedulerWait`, some tasks `co_await ev.wait()` and one calls
  `ev.set()`, as in the event tests. The setter is itself submitted through
  `scheduler::submit`.

Dispatch is a free choice of context, so every dispatch policy is covered.

## Runs

| Run | cfg | Expect | Checks |
|---|---|---|---|
| mutex | `MC_Mutex.cfg` | pass | TypeOK, MutualExclusion, NoLostWakeup, WaitCountCoversParked, StarvationFree, ImplementsFifoLock |
| wg_reuse_joined | `MC_WaitGroup.cfg` | pass | TypeOK, ParkedLinkedOnce, WaitReturnsAfterAllDone |
| wg_lost_wakeup | `MC_WaitGroup_lost.cfg` | violation | ParkedWaiterResumed |
| sched_double_stop | `MC_Scheduler_twice.cfg` | violation | StopImplOnTransition |
| sched_premature_stop | `MC_Scheduler_quiescent.cfg` | violation | StopOnlyWhenQuiescent |
| sched_notify_not_live | `MC_Scheduler_wake.cfg` | violation | NotifyOnlyLiveContext |
| sched_wait | `MC_SchedulerWait.cfg` | pass | TypeOK, TokenCountsFlags, NoExitWhileWaiting, ImplementsStopDetection, EveryTaskRuns, AllWorkersExit |
| event | `MC_Event.cfg` | pass | TypeOK, WaitReturnsOnlyWhenSet, ResumedAtMostOnce, WaitCountCoversWaiters, ValueDelivered, EveryWaiterReturns |
| latch | `MC_Latch.cfg` | pass | TypeOK, WaitReturnsAtZero, LatchOpensAfterCount |
| condvar | `MC_CondVar.cfg` | pass | TypeOK, MutualExclusion, PredicateHoldsAfterWait, WaitCountedOnce, DestructorsHold, EveryConsumerDone |
| engine_io | `MC_EngineIO.cfg` | pass | TypeOK, IoAccounting, NoExitWithPendingWork, EveryTaskDone, WorkerExits |
| engine_selfstop_hang | `MC_EngineIO_selfstop.cfg` | violation | WorkerExits |

What they show:

* **Mutex.**
  * Mutual exclusion holds. So do the absence of lost wakeups (while anyone
    is parked, someone holds the lock) and starvation freedom.
  * A parked awaiter always keeps its context's wait count above 0.
  * The refinement mapping is: owner = the coroutine holding the lock
    (including one handed the lock but not yet resumed); queue =
    `m_resume_list_head` followed by the reversed `m_state` chain. Under it,
    the mutex implements `AbstractLock`, a strictly FIFO lock.
  * The spec (section 9) expects only approximately FIFO service. The code is
    stricter: the mutex is never free while a batch remains, and a new chain
    is taken only after the batch is empty.
* **WaitGroup.**
  * Over two cycles, `wait()` never returns early, provided every worker's
    `done()` has returned before the next `add()` (`JoinWorkers`), as the
    repository's tests do by joining the workers.
  * Every parked awaiter is linked exactly once, in `m_state` or in the one
    chain a `done()` detached, and no other waiter is linked
    (ParkedLinkedOnce). So the `exchange` hands each parked awaiter to exactly
    one resumer, also when a push races it or a later cycle pushes after it.
  * **A waiter can be lost.** It reads a non-zero count, the last `done()`
    then drains an empty chain, and the waiter parks for good. Its context's
    wait count (raised by `register_wait` in `await_suspend`, `wait_group.cpp:10`) then never returns to 0, so the runtime cannot stop either. `WaitGroup` leaves `register_wait` and `unregister_wait` out, because none of its properties reads the wait count.
  * Reuse across cycles (a late `done()` of one cycle racing the next
    cycle's waiter) is the spec's open question (section 9). With
    `JoinWorkers = FALSE` and `Cycles = 2` the module shows it: the last
    worker's late `exchange` takes the coordinator parked in cycle 2 and
    resumes it while the count is 2. No run holds the code to either answer.
* **Event and Latch.**
  * `wait()` returns only once the event is set, each awaiter is resumed
    exactly once, and every awaiter returns, also when `register_awaiters`
    races `set_state`.
  * The context's wait count equals the number of its awaiters inside
    `wait()`.
  * Every awaiter's `wait()` resolves to the value `set(v)` stored, because
    `set` stores the payload before `set_state` publishes the set mark.
  * The latch's waiters return only once the count reaches 0.
  * Once `count_down` has been called as many times as the count, every
    waiter returns (LatchOpensAfterCount), including one racing the last
    `count_down`'s `set()`. With exactly count callers, a test one off on
    the late side would leave the latch shut for good.
  * `count_down` tests `fetch_sub(1) <= 1`, so a `count_down` past zero would
    call `m_ev.set()` again, where the spec calls it a no-op. That second
    `set()` resumes nobody, because `set_state`'s `exchange` finds the set
    mark; the event run's two setters already check this (ResumedAtMostOnce).
* **CondVar.**
  * Mutual exclusion holds across every way of taking the mutex: `lock()`,
    `wake_up`'s `register_lock` on the notifier's thread, and hand-offs,
    including an unlock a re-parking waiter runs on its own behalf.
  * A consumer never returns from `wait` with the predicate false.
    `m_suspend_state` makes each waiter count once in its context's wait
    count.
  * Both destructors' assertions hold at the end, and no notification is
    lost.
* **Scheduler.** These runs use the `MC_Scheduler` workload, with tasks
  that submit children through the scheduler.
  * **`stop_impl` runs more than once even without a race
    (sched_double_stop).** `context::run` calls the stop callback on every
    idle pass. A context whose flag is already 0 ANDs 0 and then tests
    `fetch_sub(0) == 0`, which holds once another context has taken
    `m_stop_token` to 0. It then calls `stop_impl` again. The spec says the
    transition fires the broadcast exactly once. The property checks every
    step that moves a context from its callback to `request_stop`.
  * **The count can still reach 0 while a task runs.** An idle context's
    callback can clear and subtract a flag that a concurrent submit has ORed
    but not yet added. From that one race follow:
    * a second detection of 0, after a later submit raises the count again;
    * the `m_stop_token != 0` assertion firing, in a debug build;
    * a child task pushed to a worker that is leaving `run`, which
      `engine::deinit` then drops, so the task never runs. This is the same
      race, so it has no run of its own.
  * **`notify_stop` can act on a context that is not live
    (sched_notify_not_live).** Two independent races break
    NotifyOnlyLiveContext:
    * *Before `m_job` is set.* `context::start` runs
      `m_job = make_unique<jthread>(...)`, and the worker thread starts inside
      `make_unique`, before the pointer is stored. `start_impl` launches the
      contexts one after another. So the last context's worker can already
      run, and the stop can be detected, while its `m_job` is still null.
      `notify_stop` then calls `m_job->request_stop()` through it: a data
      race that reads nullptr. TLC shows this first, in 22 steps.
    * *After deinit.* Between `request_stop` and `wake_up`, a worker that a
      stale eventfd count woke can see the stop, exit and deinit its engine.
      `wake_up` then writes that engine's eventfd. With the `m_job`
      assignment made atomic, the same run still fails this way, in 24
      steps.
  * The model starts before `loop()`: `StartImpl_Launch` and
    `StartImpl_AssignJob` are the steps of the thread that called `loop()`,
    and `CtxInit` is the worker's `context::init`. A task submitted before
    `loop()`, or to a context not yet launched, writes the eventfd before
    `engine::init` sets up the proxy. Whether that write survives depends on
    the proxy, which is outside `src/`, so `CtxInit` may keep or lose it.
    The passing run shows every task still runs, because `run()` begins with
    `process_work`.
* **Scheduler with waits (sched_wait).**
  * The two-level count is exact (TokenCountsFlags): `m_stop_token` equals
    the number of set flags, once the halves in flight are accounted for.
  * A coroutine parked on an event keeps its context's `m_num_wait_task`
    above 0. That keeps the context in `run()`, and keeps its flag counted
    in `m_stop_token`. This holds even though `set()` on another context
    resumes it through `context::submit_task`, which bypasses the
    scheduler's flags.
  * Under the mapping busy = task queued or running or wait registered, and
    detected = `m_stop_token` is 0, the protocol implements `StopDetection`.
    So the count reaches 0 only when every context is idle, and stays there.
    Work reaches a context only from a busy one. Once all are idle, the
    count does reach 0.
  * Every task runs and every worker exits. The setter here is submitted
    through the scheduler, but only one level deep, which is not enough for
    the premature-stop race.
* **EngineIO.**
  * `m_num_io_running` always equals the operations io_uring holds, in
    flight or completed and not yet harvested.
  * The worker never leaves `run` with a task queued or I/O outstanding.
  * Every task finishes and the worker exits, with completions arriving in
    any order, under `notify_stop`.
  * **A standalone context can hang.** The default `m_stop_cb` installed by
    `context::start` (`context.cpp:43`) only calls `request_stop`, and `run`
    then calls `poll_work`, which blocks in `wait_eventfd`. If the eventfd
    count for the last tasks was read before those tasks ran (a task that
    submits a child to its own context), nothing writes the eventfd again and
    the worker never exits. `notify_stop` avoids this by writing after
    `request_stop`.

Every property of a passing run has a mutant in `PROJECT.json`: the mapped
action rewritten as a plausible bug, which TLC must find violating the
property.

## Bounds

* **Mutex:** 4 coroutines on 2 contexts, 3 rounds, about 24 000 states.
  * Two coroutines per context exercise the FIFO task queue and the rule that
    a context runs one coroutine at a time.
  * With 4 coroutines the chain and the resume list both hold several
    waiters, and a waiter can arrive while a batch is being served.
  * Three rounds let a coroutine come back and queue behind others.
* **WaitGroup:** 1 coordinator, 1 extra waiter and 2 workers, about 900
  states.
  * Two workers give a decrement that does not drain the chain and one that
    does.
  * Two waiters give a failed CAS.
  * Cycles = 2 is the smallest bound that exercises reuse; the passing run
    uses it with `JoinWorkers`, and the lost-waiter run needs only one.
* **Scheduler (violation runs):** 2 contexts and 4 tasks.
  * Task t1 starts on x1 and submits t2, which submits t3; t4 runs on x2.
  * That is enough for a submit to land on a context that is going idle, on
    itself, or on a context that is stopping.
  * Two contexts are the fewest at which one can stop another, or at which
    a second idle callback can find the count already 0.
  * Tasks submitted before `loop()` start in their contexts' queues
    (`SubmittedBeforeLoop`), with the eventfd written, as
    `scheduler::submit` leaves them.
* **Event:** 3 awaiters on 2 contexts and 2 setters, about 1 600 states.
  Three awaiters make a chain of more than one link and let one awaiter
  arrive while a setter walks the chain; two setters exercise a `set()` that
  finds the event already set.
* **Latch:** 2 awaiters, 2 downers, count 2, about 120 states. The first
  `count_down` does not set the event and the second does.
* **CondVar:** 2 consumers and 2 producers, about 3 400 states. Two
  consumers give a waiter re-parked behind another; the two producers cover
  `notify_one` inside the lock (waking into a locked mutex) and `notify_all`
  outside it.
* **Scheduler with waits:** 2 contexts, about 3 600 states.
  * a1 waits on x1 and a2 on x2. t1 on x1 submits the setter s1 to either
    context.
  * So an awaiter can park before or after `set()` and be resumed on its own
    context or across contexts. A context can also sit blocked in
    `poll_work` with a parked waiter while the other goes idle.
* **EngineIO:** 3 tasks, 2 of them doing I/O and 1 spawned as a child, about
  400 states. Two operations in flight complete in either order and can be
  harvested by one peek or by two.

## Fairness

* Each worker is an OS thread that keeps running while it has a step to take,
  so each context's steps are weakly fair.
* The thread that called `loop()` runs `start_impl` to its end, so its steps
  are weakly fair.
* A coroutine runs to its next suspension once its worker resumes it, so each
  coroutine's steps are weakly fair too.
* Nothing stronger is assumed. The mutex's starvation freedom needs only WF,
  because a handed-off waiter is submitted directly.
* No action models the OS blocking a worker: `PollWork` and `WaitEventfd`
  are enabled only when the eventfd is non-zero.
* In `EngineIO` the kernel's completion of each operation is weakly fair:
  io_uring eventually completes a submitted no-op or read.

## Not modelled yet, and the plan

* **The start of a standalone context.** `context::start`'s default stop
  callback (`context.cpp:43`) calls `m_job->request_stop()` from the worker
  itself, so the `m_job` race above applies to it as well. `EngineIO` begins
  with the worker already in `run()`, so it does not check that instance;
  the `Scheduler` model checks the same window.
* **Other primitives in the stop protocol.** `Scheduler` composes
  `event<>` with the run loops. A lost `wait_group` waiter there would show
  up as a runtime that never stops. The spec states that consequence
  already ("a permanently-parked waiter prevents the whole runtime from
  ever stopping"), and `wg_lost_wakeup` shows the lost waiter itself.
* **A second `set(v2)` on an event** overwrites the payload while earlier
  waiters may be reading it. The spec calls Event one-shot and leaves a
  second `set` undefined, so the event run's two setters pass the same
  value.
* **Engine limits.** `peek_batch_cqe` fills `m_urc` (capacity `kQueCap`) with
  up to `m_num_io_running` entries; `config.h`, which sets `kQueCap`, is not
  in the repository, so the bound is not checked. The eventfd's 20-bit fields
  overflow only after about 2^20 unread writes, beyond TLC's reach.
* **Left out:**
  * `meta_info` and `atomic_helper`: thread-local pointers and a wrapper,
    with no state machine.
  * The io_uring proxy, the I/O awaiters and the lock-free queue: external to
    `src/`. The model treats the queue as an atomic FIFO and io_uring as an
    environment that completes submitted operations in any order.
