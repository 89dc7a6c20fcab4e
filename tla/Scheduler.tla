----------------------------- MODULE Scheduler -----------------------------
(***************************************************************************)
(* The stop protocol of the runtime: coro::scheduler (src/src/scheduler.cpp)*)
(* fanning tasks out to the contexts, each context's worker thread running *)
(* context::run (src/src/context.cpp) over its engine's task queue and     *)
(* eventfd (src/src/engine.cpp).                                           *)
(*                                                                         *)
(* m_stop_token counts busy contexts and m_ctx_stop_flag[i] says whether   *)
(* context i is counted.  submit_task_impl ORs the flag and adds what the  *)
(* OR changed; the stop callback a context calls when it finds itself idle *)
(* ANDs the flag to 0 and subtracts what that changed; the callback whose  *)
(* subtraction reaches 0 calls stop_impl, which requests every context to  *)
(* stop and writes its eventfd.  A worker leaves run() once stop is        *)
(* requested and it has no task and no wait left; it then deinits its      *)
(* engine.                                                                 *)
(*                                                                         *)
(* Tasks meet on one coro::event<> (src/src/comp/event.cpp): an awaiter    *)
(* registers a wait with the context it runs on (m_num_wait_task) and      *)
(* parks on the event's chain; a setter exchanges the set mark in and      *)
(* submits each awaiter it took out to that awaiter's own context          *)
(* (context::submit_task), which bypasses the scheduler's stop flags.     *)
(* The event's m_state is the pair evSet/chain, always changed at once.   *)
(*                                                                         *)
(* Every atomic operation is a step of its own; the conditions of one `if` *)
(* of context::run are read in one step.  The eventfd is abstracted to     *)
(* whether its counter is non-zero: wait_eventfd blocks while it is 0 and  *)
(* reads it back to 0.  No I/O is issued, so empty_io() holds.  Tasks are  *)
(* coroutines that run to completion, some of them first handing a child   *)
(* task to scheduler::submit, as submit_to_scheduler does.                 *)
(***************************************************************************)
EXTENDS Naturals, Sequences, SequencesExt, FiniteSets

CONSTANTS
  CtxSeq,     \* the contexts in the order of m_ctxs
  Task,       \* coroutines
  StartCtx,   \* the context a task is submitted to before loop(), or NoCtx
  Child,      \* the task a task submits while it runs, or NoTask
  Awaiters,   \* tasks that co_await ev.wait() and then end
  Setters,    \* tasks that call ev.set() and then end
  NoCtx,
  NoTask

Ctx == ToSet(CtxSeq)

ASSUME IsInjective(CtxSeq)
ASSUME StartCtx \in [Task -> Ctx \cup {NoCtx}]
ASSUME Child \in [Task -> Task \cup {NoTask}]
ASSUME Awaiters \cup Setters \subseteq {t \in Task : Child[t] = NoTask}
ASSUME Awaiters \cap Setters = {}

VARIABLES
  token,      \* scheduler::m_stop_token
  flag,       \* scheduler::m_ctx_stop_flag
  queue,      \* engine::m_task_queue of each context
  efd,        \* whether each context's eventfd counter is non-zero
  stopReq,    \* each worker jthread's stop_token
  cpc,        \* where each worker thread is in context::run
  budget,     \* tasks left in the current process_work batch
  running,    \* the task each worker is resuming, or NoTask
  cbCnt,      \* the stop callback's cnt, the old value of its flag
  toNotify,   \* contexts stop_impl has still to notify, per caller
  tpc,        \* where each task is
  target,     \* the context dispatch() chose for a task's child
  orOld,      \* the old flag value fetch_or returned to a task's submit
  waitCnt,    \* context::m_num_wait_task
  home,       \* an awaiter's m_ctx: the context it called wait() on
  evSet,      \* the event's m_state is the set mark
  chain,      \* otherwise the awaiters parked on it, head first
  taken,      \* the awaiters a setter's resume_all_awaiters has still to submit
  job,        \* whether each context's m_job holds its jthread yet
  launched    \* how many contexts start_impl has launched

evVars == <<waitCnt, home, evSet, chain, taken>>
startVars == <<job, launched>>
vars == <<token, flag, queue, efd, stopReq, cpc, budget, running, cbCnt,
          toNotify, tpc, target, orOld, waitCnt, home, evSet, chain, taken,
          job, launched>>

CtxPcs == {"unstarted", "init", "process", "exec", "check", "idle_cb_and", "idle_cb_sub",
           "stop_req", "stop_wake", "poll", "deinit", "exited"}
TaskPcs == {"new", "queued", "running", "sub_add", "sub_push", "register",
            "parked", "resumed", "setting", "resuming", "done", "dropped"}

\* The context a task runs on, when it is running.
RunsOn(t) == CHOOSE x \in Ctx : running[x] = t

\* Back in process_work's loop once the running task is done.
TaskDone(x) ==
  /\ running' = [running EXCEPT ![x] = NoTask]
  /\ budget' = [budget EXCEPT ![x] = @ - 1]
  /\ cpc' = [cpc EXCEPT ![x] = "exec"]

\* engine::ready(): the task queue is not empty.
Ready(x) == queue[x] # <<>>

\* engine::num_task_schedule(): the task queue's size.
NumTaskSchedule(x) == Len(queue[x])

\* context::register_wait(): m_num_wait_task.fetch_add(1).
RegisterWait(x) == waitCnt' = [waitCnt EXCEPT ![x] = @ + 1]

\* engine::deinit: the task queue is swapped for an empty one; whatever
\* was still in it is never run.
EngineDeinit(x) ==
  /\ queue' = [queue EXCEPT ![x] = <<>>]
  /\ tpc' = [t \in Task |-> IF Contains(queue[x], t) THEN "dropped" ELSE tpc[t]]

(***************************************************************************)
(* loop() -> start_impl, on the thread that called loop()                  *)
(***************************************************************************)

\* start_impl, for the next context in m_ctxs: set_stop_cb, then start(),
\* whose make_unique<jthread> launches the worker thread; the thread may
\* run before the pointer is stored in m_job.  The next context is launched
\* only once the last one's m_job is assigned.
StartImpl_Launch ==
  /\ launched < Len(CtxSeq)
  /\ \A i \in 1..launched : job[CtxSeq[i]]
  /\ cpc' = [cpc EXCEPT ![CtxSeq[launched + 1]] = "init"]
  /\ launched' = launched + 1
  /\ UNCHANGED <<evVars, token, flag, queue, efd, stopReq, budget, running, cbCnt,
                 toNotify, tpc, target, orOld, job>>

\* context::start: m_job = the unique_ptr make_unique returned.
StartImpl_AssignJob ==
  /\ \E i \in 1..launched :
       /\ ~job[CtxSeq[i]]
       /\ job' = [job EXCEPT ![CtxSeq[i]] = TRUE]
  /\ UNCHANGED <<evVars, token, flag, queue, efd, stopReq, cpc, budget, running,
                 cbCnt, toNotify, tpc, target, orOld, launched>>

(***************************************************************************)
(* context::run                                                            *)
(***************************************************************************)

\* The worker thread's body: context::init -> engine::init, which sets up
\* the io_uring proxy and its eventfd (m_upxy.init).  Whether a task count
\* written to the eventfd before that survives is the proxy's business,
\* outside src/, so both outcomes are possible.  The scheduler installed
\* m_stop_cb before start(), so no default callback is made; then run().
CtxInit(x) ==
  /\ cpc[x] = "init"
  /\ \E kept \in BOOLEAN : efd' = [efd EXCEPT ![x] = efd[x] /\ kept]
  /\ cpc' = [cpc EXCEPT ![x] = "process"]
  /\ UNCHANGED <<evVars, token, flag, queue, stopReq, budget, running, cbCnt,
                 toNotify, tpc, target, orOld>>

\* process_work: take the queue size as this batch.
ProcessWork(x) ==
  /\ cpc[x] = "process"
  /\ budget' = [budget EXCEPT ![x] = NumTaskSchedule(x)]
  /\ cpc' = [cpc EXCEPT ![x] = "exec"]
  /\ UNCHANGED <<evVars, token, flag, queue, efd, stopReq, running, cbCnt, toNotify,
                 tpc, target, orOld>>

\* A worker resumes an awaiter's coroutine: await_resume's
\* m_ctx.unregister_wait() (m_ctx is where the awaiter called wait()).
UnregisterWait(t) == waitCnt' = [waitCnt EXCEPT ![home[t]] = @ - 1]

\* engine::exec_one_task: pop a handle and resume it, up to its next
\* suspension or its end.
\*  - an awaiter resumed by set(): await_resume, then it ends;
\*  - an awaiter's first run: await_ready registers a wait with this
\*    context and loads is_set(); when set it goes on through await_resume
\*    to its end, otherwise into await_suspend;
\*  - a setter, or a task with a child: it runs on (SetState, Submit_Or);
\*  - any other task runs to its end.
ExecOneTask(x) ==
  /\ cpc[x] = "exec"
  /\ budget[x] > 0
  /\ running[x] = NoTask
  /\ LET t == Head(queue[x])
         ends == \/ tpc[t] = "resumed"
                 \/ t \in Awaiters /\ evSet
                 \/ t \notin Awaiters \cup Setters /\ Child[t] = NoTask
     IN  /\ queue' = [queue EXCEPT ![x] = Tail(@)]
         /\ tpc' = [tpc EXCEPT ![t] =
                      CASE ends -> "done"
                        [] t \in Awaiters -> "register"
                        [] t \in Setters -> "setting"
                        [] OTHER -> "running"]
         /\ IF ends
            THEN /\ budget' = [budget EXCEPT ![x] = @ - 1]
                 /\ UNCHANGED running
            ELSE /\ running' = [running EXCEPT ![x] = t]
                 /\ UNCHANGED budget
         /\ IF tpc[t] = "resumed"
            THEN UnregisterWait(t) /\ UNCHANGED home
            ELSE IF t \in Awaiters /\ ~evSet
            THEN /\ home' = [home EXCEPT ![t] = x]
                 /\ RegisterWait(x)
            ELSE UNCHANGED <<waitCnt, home>>
  /\ UNCHANGED <<token, flag, efd, stopReq, cpc, cbCnt, toNotify, target,
                 orOld, evSet, chain, taken>>

\* Mutant: empty_wait_work tests only the I/O, not m_num_wait_task.
EmptyWaitWork_ioOnly(x) == TRUE

\* context::empty_wait_work: no wait registered and (no I/O is issued)
\* engine::empty_io().
EmptyWaitWork(x) == waitCnt[x] = 0

\* Mutant: the idle test of line 160 leaves out empty_wait_work().
CheckStop_idleIgnoresWait(x) ==
  /\ cpc[x] = "exec"
  /\ budget[x] = 0
  /\ cpc' = [cpc EXCEPT ![x] =
               CASE stopReq[x] /\ EmptyWaitWork(x) ->
                      IF Ready(x) THEN "process" ELSE "deinit"
                 [] ~stopReq[x] /\ ~Ready(x) -> "idle_cb_and"
                 [] OTHER -> "poll"]
  /\ UNCHANGED <<evVars, token, flag, queue, efd, stopReq, budget, running,
                 cbCnt, toNotify, tpc, target, orOld>>

\* The batch is done.  `if (stop_requested && empty_wait_work())`: with a
\* task queued, continue; otherwise break.  Else the idle test of line 160:
\* not stopping, no wait, no task: call the stop callback.  Else poll.
CheckStop(x) ==
  /\ cpc[x] = "exec"
  /\ budget[x] = 0
  /\ cpc' = [cpc EXCEPT ![x] =
               CASE stopReq[x] /\ EmptyWaitWork(x) ->
                      IF Ready(x) THEN "process" ELSE "deinit"
                 [] ~stopReq[x] /\ EmptyWaitWork(x) /\ ~Ready(x) -> "idle_cb_and"
                 [] OTHER -> "poll"]
  /\ UNCHANGED <<evVars, token, flag, queue, efd, stopReq, budget, running,
                 cbCnt, toNotify, tpc, target, orOld>>

\* Stop callback: cnt = m_ctx_stop_flag[i].fetch_and(0).
IdleCb_And(x) ==
  /\ cpc[x] = "idle_cb_and"
  /\ cbCnt' = [cbCnt EXCEPT ![x] = flag[x]]
  /\ flag' = [flag EXCEPT ![x] = 0]
  /\ cpc' = [cpc EXCEPT ![x] = "idle_cb_sub"]
  /\ UNCHANGED <<evVars, token, queue, efd, stopReq, budget, running, toNotify, tpc,
                 target, orOld>>

\* Mutant: the callback always subtracts 1, not what its AND changed.
IdleCb_Sub_one(x) ==
  /\ cpc[x] = "idle_cb_sub"
  /\ token' = token - 1
  /\ IF token = 1
     THEN /\ cpc' = [cpc EXCEPT ![x] = "stop_req"]
          /\ toNotify' = [toNotify EXCEPT ![x] = CtxSeq]
     ELSE /\ cpc' = [cpc EXCEPT ![x] = "poll"]
          /\ UNCHANGED toNotify
  /\ UNCHANGED <<evVars, flag, queue, efd, stopReq, budget, running, cbCnt, tpc,
                 target, orOld>>

\* Stop callback: if (m_stop_token.fetch_sub(cnt) == cnt) stop_impl().
IdleCb_Sub(x) ==
  /\ cpc[x] = "idle_cb_sub"
  /\ token' = token - cbCnt[x]
  /\ IF token = cbCnt[x]
     THEN /\ cpc' = [cpc EXCEPT ![x] = "stop_req"]
          /\ toNotify' = [toNotify EXCEPT ![x] = CtxSeq]
     ELSE /\ cpc' = [cpc EXCEPT ![x] = "poll"]
          /\ UNCHANGED toNotify
  /\ UNCHANGED <<evVars, flag, queue, efd, stopReq, budget, running, cbCnt, tpc,
                 target, orOld>>

\* Mutant: notify_stop requests the stop but does not wake the engine.
StopImpl_Wake_noWake(x) ==
  /\ cpc[x] = "stop_wake"
  /\ toNotify' = [toNotify EXCEPT ![x] = Tail(@)]
  /\ cpc' = [cpc EXCEPT ![x] = IF Tail(toNotify[x]) = <<>> THEN "poll" ELSE "stop_req"]
  /\ UNCHANGED <<evVars, token, flag, queue, efd, stopReq, budget, running, cbCnt, tpc,
                 target, orOld>>

\* stop_impl -> notify_stop(i): m_job->request_stop().
StopImpl_Request(x) ==
  /\ cpc[x] = "stop_req"
  /\ stopReq' = [stopReq EXCEPT ![Head(toNotify[x])] = TRUE]
  /\ cpc' = [cpc EXCEPT ![x] = "stop_wake"]
  /\ UNCHANGED <<evVars, token, flag, queue, efd, budget, running, cbCnt, toNotify,
                 tpc, target, orOld>>

\* notify_stop(i): m_engine.wake_up(1); then the next context, or poll.
StopImpl_Wake(x) ==
  /\ cpc[x] = "stop_wake"
  /\ efd' = [efd EXCEPT ![Head(toNotify[x])] = TRUE]
  /\ toNotify' = [toNotify EXCEPT ![x] = Tail(@)]
  /\ cpc' = [cpc EXCEPT ![x] = IF Tail(toNotify[x]) = <<>> THEN "poll" ELSE "stop_req"]
  /\ UNCHANGED <<evVars, token, flag, queue, stopReq, budget, running, cbCnt, tpc,
                 target, orOld>>

\* poll_work -> engine::poll_submit: wait_eventfd blocks until the counter
\* is non-zero and reads it back to 0; nothing to reap without I/O.
PollWork(x) ==
  /\ cpc[x] = "poll"
  /\ efd[x]
  /\ efd' = [efd EXCEPT ![x] = FALSE]
  /\ cpc' = [cpc EXCEPT ![x] = "process"]
  /\ UNCHANGED <<evVars, token, flag, queue, stopReq, budget, running, cbCnt, toNotify,
                 tpc, target, orOld>>

\* run() returned: context::deinit -> engine::deinit, dropping whatever was
\* pushed since the check.
Deinit(x) ==
  /\ cpc[x] = "deinit"
  /\ EngineDeinit(x)
  /\ cpc' = [cpc EXCEPT ![x] = "exited"]
  /\ UNCHANGED <<evVars, token, flag, efd, stopReq, budget, running, cbCnt, toNotify,
                 target, orOld>>

(***************************************************************************)
(* scheduler::submit_task_impl, called by a running task for its child     *)
(***************************************************************************)

\* Mutant: the flag is set with fetch_add instead of fetch_or.
Submit_Or_add(t) ==
  /\ tpc[t] = "running"
  /\ \E d \in Ctx :
       /\ target' = [target EXCEPT ![t] = d]
       /\ orOld' = [orOld EXCEPT ![t] = flag[d]]
       /\ flag' = [flag EXCEPT ![d] = @ + 1]
  /\ tpc' = [tpc EXCEPT ![t] = "sub_add"]
  /\ UNCHANGED <<evVars, token, queue, efd, stopReq, cpc, budget, running, cbCnt,
                 toNotify>>

\* assert(m_stop_token != 0) (a no-op in a release build, which this models;
\* it fails exactly in the states StopOnlyWhenQuiescent rules out);
\* ctx_id = m_dispatcher.dispatch(); old = m_ctx_stop_flag[ctx_id].fetch_or(1).
\* Any dispatch policy.
Submit_Or(t) ==
  /\ tpc[t] = "running"
  /\ \E d \in Ctx :
       /\ target' = [target EXCEPT ![t] = d]
       /\ orOld' = [orOld EXCEPT ![t] = flag[d]]
       /\ flag' = [flag EXCEPT ![d] = 1]
  /\ tpc' = [tpc EXCEPT ![t] = "sub_add"]
  /\ UNCHANGED <<evVars, token, queue, efd, stopReq, cpc, budget, running, cbCnt,
                 toNotify>>

\* m_stop_token.fetch_add(1 - old).
Submit_Add(t) ==
  /\ tpc[t] = "sub_add"
  /\ token' = token + 1 - orOld[t]
  /\ tpc' = [tpc EXCEPT ![t] = "sub_push"]
  /\ UNCHANGED <<evVars, flag, queue, efd, stopReq, cpc, budget, running, cbCnt,
                 toNotify, target, orOld>>

\* m_ctxs[ctx_id]->submit_task(handle): engine::submit_task pushes the
\* child and writes task_flag to that context's eventfd; the task then
\* runs to its end.
Submit_Push(t) ==
  /\ tpc[t] = "sub_push"
  /\ LET d == target[t]
         x == RunsOn(t)
     IN  /\ queue' = [queue EXCEPT ![d] = Append(@, Child[t])]
         /\ efd' = [efd EXCEPT ![d] = TRUE]
         /\ tpc' = [tpc EXCEPT ![Child[t]] = "queued", ![t] = "done"]
         /\ TaskDone(x)
  /\ UNCHANGED <<evVars, token, flag, stopReq, cbCnt, toNotify, target, orOld>>

(***************************************************************************)
(* event<>: wait() and set(), run by tasks on their workers                *)
(***************************************************************************)

\* Mutant: await_suspend's failed registration also unregisters the wait,
\* before await_resume unregisters it again.
RegisterAwaiters_doubleUnregister(t) ==
  /\ tpc[t] = "register"
  /\ IF evSet
     THEN /\ waitCnt' = [waitCnt EXCEPT ![home[t]] = @ - 2]
          /\ tpc' = [tpc EXCEPT ![t] = "done"]
          /\ UNCHANGED chain
     ELSE /\ chain' = <<t>> \o chain
          /\ tpc' = [tpc EXCEPT ![t] = "parked"]
          /\ UNCHANGED waitCnt
  /\ TaskDone(RunsOn(t))
  /\ UNCHANGED <<token, flag, queue, efd, stopReq, cbCnt, toNotify, target,
                 orOld, home, evSet, taken>>

\* await_suspend -> register_awaiters: the set mark makes it return false
\* and the coroutine goes on through await_resume (unregister_wait) to its
\* end; otherwise the CAS pushes the awaiter at the head of the chain and
\* the coroutine is suspended.  Either way exec_one_task returns.
RegisterAwaiters(t) ==
  /\ tpc[t] = "register"
  /\ IF evSet
     THEN /\ UnregisterWait(t)
          /\ tpc' = [tpc EXCEPT ![t] = "done"]
          /\ UNCHANGED chain
     ELSE /\ chain' = <<t>> \o chain
          /\ tpc' = [tpc EXCEPT ![t] = "parked"]
          /\ UNCHANGED waitCnt
  /\ TaskDone(RunsOn(t))
  /\ UNCHANGED <<token, flag, queue, efd, stopReq, cbCnt, toNotify, target,
                 orOld, home, evSet, taken>>

\* set() -> set_state: flag = m_state.exchange(this); the chain taken out
\* (none if it was set already) goes to resume_all_awaiters.
SetState(t) ==
  /\ tpc[t] = "setting"
  /\ evSet' = TRUE
  /\ chain' = <<>>
  /\ taken' = [taken EXCEPT ![t] = IF evSet THEN <<>> ELSE chain]
  /\ IF evSet \/ chain = <<>>
     THEN tpc' = [tpc EXCEPT ![t] = "done"] /\ TaskDone(RunsOn(t))
     ELSE tpc' = [tpc EXCEPT ![t] = "resuming"] /\ UNCHANGED <<running, budget, cpc>>
  /\ UNCHANGED <<token, flag, queue, efd, stopReq, cbCnt, toNotify, target,
                 orOld, waitCnt, home>>

\* Mutant: the awaiter is submitted to the setter's own context
\* (local_context()) instead of its m_ctx.
ResumeAwaiter_localCtx(t) ==
  /\ tpc[t] = "resuming"
  /\ LET a == Head(taken[t])
         d == RunsOn(t)
     IN  /\ queue' = [queue EXCEPT ![d] = Append(@, a)]
         /\ efd' = [efd EXCEPT ![d] = TRUE]
         /\ taken' = [taken EXCEPT ![t] = Tail(@)]
         /\ IF Tail(taken[t]) = <<>>
            THEN tpc' = [tpc EXCEPT ![a] = "resumed", ![t] = "done"] /\ TaskDone(d)
            ELSE tpc' = [tpc EXCEPT ![a] = "resumed"] /\ UNCHANGED <<running, budget, cpc>>
  /\ UNCHANGED <<token, flag, stopReq, cbCnt, toNotify, target, orOld,
                 waitCnt, home, evSet, chain>>

\* Mutant: the awaiter is pushed without writing the eventfd.
ResumeAwaiter_noWake(t) ==
  /\ tpc[t] = "resuming"
  /\ LET a == Head(taken[t])
     IN  /\ queue' = [queue EXCEPT ![home[a]] = Append(@, a)]
         /\ taken' = [taken EXCEPT ![t] = Tail(@)]
         /\ IF Tail(taken[t]) = <<>>
            THEN tpc' = [tpc EXCEPT ![a] = "resumed", ![t] = "done"] /\ TaskDone(RunsOn(t))
            ELSE tpc' = [tpc EXCEPT ![a] = "resumed"] /\ UNCHANGED <<running, budget, cpc>>
  /\ UNCHANGED <<token, flag, efd, stopReq, cbCnt, toNotify, target, orOld,
                 waitCnt, home, evSet, chain>>

\* resume_all_awaiters: next = cur->m_next, then
\* cur->m_ctx.submit_task(handle): context::submit_task ->
\* engine::submit_task pushes it and writes task_flag to that context's
\* eventfd.  set() returns after the last one and the setter ends.
ResumeAwaiter(t) ==
  /\ tpc[t] = "resuming"
  /\ LET a == Head(taken[t])
     IN  /\ queue' = [queue EXCEPT ![home[a]] = Append(@, a)]
         /\ efd' = [efd EXCEPT ![home[a]] = TRUE]
         /\ taken' = [taken EXCEPT ![t] = Tail(@)]
         /\ IF Tail(taken[t]) = <<>>
            THEN tpc' = [tpc EXCEPT ![a] = "resumed", ![t] = "done"] /\ TaskDone(RunsOn(t))
            ELSE tpc' = [tpc EXCEPT ![a] = "resumed"] /\ UNCHANGED <<running, budget, cpc>>
  /\ UNCHANGED <<token, flag, stopReq, cbCnt, toNotify, target, orOld,
                 waitCnt, home, evSet, chain>>

(***************************************************************************)
(* Specification                                                           *)
(***************************************************************************)

\* scheduler::submit(task) before loop(): the task is detached and its
\* handle goes to submit_task_impl, which ORs a flag init_impl already set
\* (adding 0) and pushes it onto the dispatched context's queue, writing
\* that context's eventfd.
SubmittedBeforeLoop(x) == SetToSeq({t \in Task : StartCtx[t] = x})

\* After init(n) and the submits made before loop(): every flag is 1 and
\* m_stop_token is n; loop() is about to start the workers.
Init ==
  /\ token = Len(CtxSeq)
  /\ flag = [x \in Ctx |-> 1]
  /\ queue = [x \in Ctx |-> SubmittedBeforeLoop(x)]
  /\ efd = [x \in Ctx |-> SubmittedBeforeLoop(x) # <<>>]
  /\ stopReq = [x \in Ctx |-> FALSE]
  /\ cpc = [x \in Ctx |-> "unstarted"]
  /\ budget = [x \in Ctx |-> 0]
  /\ running = [x \in Ctx |-> NoTask]
  /\ cbCnt = [x \in Ctx |-> 0]
  /\ toNotify = [x \in Ctx |-> <<>>]
  /\ tpc = [t \in Task |-> IF StartCtx[t] = NoCtx THEN "new" ELSE "queued"]
  /\ target = [t \in Task |-> NoCtx]
  /\ orOld = [t \in Task |-> 0]
  /\ waitCnt = [x \in Ctx |-> 0]
  /\ home = [t \in Task |-> NoCtx]
  /\ evSet = FALSE
  /\ chain = <<>>
  /\ taken = [t \in Task |-> <<>>]
  /\ job = [x \in Ctx |-> FALSE]
  /\ launched = 0

CtxStep(x) ==
  \/ CtxInit(x)
  \/ ProcessWork(x)
  \/ ExecOneTask(x)
  \/ CheckStop(x)
  \/ IdleCb_And(x)
  \/ IdleCb_Sub(x)
  \/ StopImpl_Request(x)
  \/ StopImpl_Wake(x)
  \/ PollWork(x)
  \/ Deinit(x)

TaskStep(t) ==
  \/ Submit_Or(t)
  \/ Submit_Add(t)
  \/ Submit_Push(t)
  \/ RegisterAwaiters(t)
  \/ SetState(t)
  \/ ResumeAwaiter(t)

\* loop() has joined every worker.
Terminated ==
  /\ \A x \in Ctx : cpc[x] = "exited"
  /\ UNCHANGED vars

\* The thread that called loop().
MainStep == StartImpl_Launch \/ StartImpl_AssignJob

Next ==
  \/ \E x \in Ctx : CtxStep(x) /\ UNCHANGED startVars
  \/ \E t \in Task : TaskStep(t) /\ UNCHANGED startVars
  \/ MainStep
  \/ Terminated

\* Each worker is an OS thread that keeps running its loop.
Fairness ==
  /\ WF_vars(MainStep)
  /\ \A x \in Ctx : WF_vars(CtxStep(x) /\ UNCHANGED startVars)
  /\ \A t \in Task : WF_vars(TaskStep(t) /\ UNCHANGED startVars)

Spec == Init /\ [][Next]_vars /\ Fairness

(***************************************************************************)
(* Properties                                                              *)
(***************************************************************************)

TypeOK ==
  /\ token \in Int
  /\ flag \in [Ctx -> {0, 1}]
  /\ queue \in [Ctx -> Seq(Task)]
  /\ efd \in [Ctx -> BOOLEAN]
  /\ stopReq \in [Ctx -> BOOLEAN]
  /\ cpc \in [Ctx -> CtxPcs]
  /\ budget \in [Ctx -> Nat]
  /\ running \in [Ctx -> Task \cup {NoTask}]
  /\ cbCnt \in [Ctx -> {0, 1}]
  /\ toNotify \in [Ctx -> Seq(Ctx)]
  /\ tpc \in [Task -> TaskPcs]
  /\ target \in [Task -> Ctx \cup {NoCtx}]
  /\ orOld \in [Task -> {0, 1}]
  /\ waitCnt \in [Ctx -> Nat]
  /\ home \in [Task -> Ctx \cup {NoCtx}]
  /\ evSet \in BOOLEAN
  /\ chain \in Seq(Awaiters)
  /\ taken \in [Task -> Seq(Awaiters)]
  /\ job \in [Ctx -> BOOLEAN]
  /\ launched \in 0..Len(CtxSeq)

\* What submits have ORed into a flag and not yet added to m_stop_token.
PendingAdd == Cardinality({t \in Task : tpc[t] = "sub_add" /\ orOld[t] = 0})

\* What callbacks have ANDed out of a flag and not yet subtracted.
PendingSub == Cardinality({x \in Ctx : cpc[x] = "idle_cb_sub" /\ cbCnt[x] = 1})

\* The two-level count is exact: m_stop_token equals the number of
\* contexts whose flag is set, once the submits and callbacks in flight
\* have applied their halves; so it never leaves 0..n.
TokenCountsFlags ==
  token + PendingAdd - PendingSub = Cardinality({x \in Ctx : flag[x] = 1})

\* Quiescence: m_stop_token is 0 only when no context has a task queued or
\* running and no submit is in flight, as the scheduler's comment and the
\* spec say ("all contexts idle").
StopOnlyWhenQuiescent ==
  token = 0 =>
    \A x \in Ctx : queue[x] = <<>> /\ running[x] = NoTask

\* No task is lost: every task handed to the runtime is eventually run to
\* its end, never left in the queue of a context that has exited.
EveryTaskRuns ==
  \A t \in Task : tpc[t] = "queued" ~> tpc[t] = "done"

\* notify_stop(i) acts only on a live context: its m_job->request_stop()
\* reads an m_job that start() has assigned, and its m_engine.wake_up(1)
\* writes the eventfd of a worker still in run(), never of one that has
\* already deinit'ed its engine (and with it the io_uring proxy that owns
\* the eventfd).
NotifyOnlyLiveContext ==
  [][\A x \in Ctx :
       /\ (cpc[x] = "stop_req" /\ cpc'[x] = "stop_wake")
            => job[Head(toNotify[x])]
       /\ (cpc[x] = "stop_wake" /\ toNotify'[x] # toNotify[x])
            => cpc[Head(toNotify[x])] # "exited"]_vars

\* The stop broadcast fires on m_stop_token's transition to 0, as the
\* scheduler's comment says ("当降为 0 时，触发 stop_impl()") and the spec
\* ("that transition fires the stop broadcast exactly once"): a stop
\* callback calls stop_impl only when its fetch_sub took the count from a
\* non-zero value to 0, never when an idle context whose flag was already
\* 0 subtracts its cnt of 0 from a count that is already 0.
StopImplOnTransition ==
  [][\A x \in Ctx :
       (cpc[x] = "idle_cb_sub" /\ cpc'[x] = "stop_req") => token # 0]_vars

\* A context is busy while it has a task queued or running, or a
\* coroutine of its own inside wait() (m_num_wait_task > 0).
Busy(x) == queue[x] # <<>> \/ running[x] # NoTask \/ waitCnt[x] > 0

\* m_num_wait_task keeps a worker in run(): no context exits while one of
\* the awaiters that called wait() on it is registering, parked on the
\* event or resumed into its queue but not yet run.
NoExitWhileWaiting ==
  \A t \in Awaiters :
    tpc[t] \in {"register", "parked", "resumed"} => cpc[home[t]] # "exited"

SD == INSTANCE StopDetection WITH
        Node <- Ctx,
        active <- [x \in Ctx |-> Busy(x)],
        detected <- (token = 0)

\* The stop protocol is a termination detector: m_stop_token reaches 0
\* only when no context is busy, work reaches a context only from a busy
\* one (a submit, or set() resuming an awaiter through context::submit_task),
\* and once every context stays idle the count does reach 0.
ImplementsStopDetection == SD!Spec

\* loop() returns: every worker eventually leaves run().
AllWorkersExit == <>(\A x \in Ctx : cpc[x] = "exited")

=============================================================================
