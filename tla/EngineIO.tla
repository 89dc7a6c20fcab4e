------------------------------ MODULE EngineIO ------------------------------
(***************************************************************************)
(* One context's worker (context::run, src/src/context.cpp) with its       *)
(* engine's task queue, eventfd and I/O counters (src/src/engine.cpp), and *)
(* the kernel side of io_uring completing the operations it was given.     *)
(*                                                                         *)
(* The I/O counters m_num_io_wait_submit and m_num_io_running belong to    *)
(* the worker thread.  The kernel runs concurrently: it completes any      *)
(* submitted operation, posts its CQE and adds 1 to the eventfd (the       *)
(* eventfd registered with io_uring).  The eventfd's 64-bit value is split *)
(* into the task field (task_flag, 1 << 44) and the CQE field (bits        *)
(* 0..23); at these bounds neither field carries into the other, so the    *)
(* counter is the pair of its fields.  wait_eventfd blocks while the value *)
(* is 0 and otherwise reads it and resets it to 0.                         *)
(*                                                                         *)
(* The context is used on its own: start() installs the default m_stop_cb, *)
(* request_stop on its own jthread.  A driver thread may call              *)
(* notify_stop() (request_stop, then wake_up(1)).                          *)
(*                                                                         *)
(* Workload: IoTasks issue one I/O each (get_free_urs, add_io_submit,      *)
(* suspend) and finish when the completion callback has resubmitted them;  *)
(* a SpawnTask submits its child to its own context and finishes; all      *)
(* roots are submitted before start().                                     *)
(***************************************************************************)
EXTENDS Integers, Sequences, SequencesExt, FiniteSets

CONSTANTS
  Task,        \* coroutines
  Roots,       \* the tasks submitted before start()
  IoTasks,     \* tasks that await one I/O operation
  Child,       \* the child each task submits to its own context, or NoTask
  NoTask,
  WithNotify   \* whether a driver thread calls notify_stop()

ASSUME Roots \subseteq Task /\ IoTasks \subseteq Task
ASSUME Child \in [Task -> Task \cup {NoTask}]
ASSUME WithNotify \in BOOLEAN

VARIABLES
  queue,     \* engine::m_task_queue
  efd,       \* the eventfd value, as its task and CQE fields
  stopReq,   \* the jthread's stop_requested()
  cpc,       \* where the worker is in run() / poll_submit()
  budget,    \* tasks left in the current process_work batch
  staged,    \* SQEs prepared but not submitted; their number is m_num_io_wait_submit
  running,   \* engine::m_num_io_running
  inflight,  \* operations the kernel has and has not completed
  cq,        \* CQEs posted and not yet advanced past
  tpc,       \* where each task is
  dpc        \* where the driver is

vars == <<queue, efd, stopReq, cpc, budget, staged, running, inflight, cq,
          tpc, dpc>>

Zero == [task |-> 0, cqe |-> 0]

\* The eventfd layout: task_flag (1 << 44) is 1 in the task field
\* (task_mask, bits 44..63); io_uring's completions and wake_up(1) count in
\* the CQE field (cqe_mask, bits 0..23).  The io field (io_flag) is never
\* written.  A write adds to the fields.
TaskFlag(n) == [task |-> n, cqe |-> 0]
CqeCount(n) == [task |-> 0, cqe |-> n]
EfdWrite(f) == efd' = [k \in {"task", "cqe"} |-> efd[k] + f[k]]

\* wake_by_cqe(val): the CQE field (cqe_mask, bits 0..23) is non-zero.
WakeByCqe(v) == v.cqe > 0

\* engine::empty_io(): nothing staged, nothing running (the workload
\* registers no waits, so this is also context::empty_wait_work()).
EmptyIo == staged = <<>> /\ running = 0

\* engine::ready() and engine::num_task_schedule().
Ready == queue # <<>>
NumTaskSchedule == Len(queue)

\* engine::add_io_submit(): one more SQE staged (m_num_io_wait_submit++).
AddIoSubmit(t) == staged' = Append(staged, t)

\* peek_batch_cqe(m_urc.data(), m_num_io_running): as many CQEs as are
\* ready, up to the count asked for.
PeekCount == IF running < Len(cq) THEN running ELSE Len(cq)

\* engine::submit_task on this context: push, then wake_up(task_flag).
PushTasks(s) ==
  /\ queue' = queue \o s
  /\ EfdWrite(TaskFlag(Len(s)))

(***************************************************************************)
(* The worker: context::run                                                *)
(***************************************************************************)

\* process_work: num = num_task_schedule().
ProcessWork ==
  /\ cpc = "process"
  /\ budget' = NumTaskSchedule
  /\ cpc' = IF Ready THEN "exec" ELSE "check"
  /\ UNCHANGED <<queue, efd, stopReq, staged, running, inflight, cq, tpc, dpc>>

\* exec_one_task: pop a task and resume it until it suspends or finishes.
ExecOneTask ==
  /\ cpc = "exec"
  /\ LET t == Head(queue)
     IN  CASE t \in IoTasks /\ tpc[t] = "queued" ->
                 \* the I/O awaiter: get_free_urs, prep, add_io_submit
                 /\ AddIoSubmit(t)
                 /\ tpc' = [tpc EXCEPT ![t] = "io_wait"]
                 /\ queue' = Tail(queue)
                 /\ UNCHANGED efd
           [] Child[t] # NoTask ->
                 /\ tpc' = [tpc EXCEPT ![t] = "done", ![Child[t]] = "queued"]
                 /\ queue' = Tail(queue) \o <<Child[t]>>
                 /\ EfdWrite(TaskFlag(1))
                 /\ UNCHANGED staged
           [] OTHER ->
                 /\ tpc' = [tpc EXCEPT ![t] = "done"]
                 /\ queue' = Tail(queue)
                 /\ UNCHANGED <<efd, staged>>
  /\ budget' = budget - 1
  /\ cpc' = IF budget = 1 THEN "check" ELSE "exec"
  /\ UNCHANGED <<stopReq, running, inflight, cq, dpc>>

\* The m_stop_cb context::start installs when none was set:
\* m_job->request_stop(), and nothing else.
StopCb == stopReq' = TRUE

\* Mutant: the stop test leaves out empty_wait_work().
CheckStop_noEmptyTest ==
  /\ cpc = "check"
  /\ IF stopReq
     THEN cpc' = IF queue # <<>> THEN "process" ELSE "exit"
     ELSE cpc' = "poll"
  /\ stopReq' = (stopReq \/ (EmptyIo /\ queue = <<>>))
  /\ UNCHANGED <<queue, efd, budget, staged, running, inflight, cq, tpc, dpc>>

\* The two tests after process_work: stopped with nothing outstanding ->
\* run again if tasks are ready, else leave run(); idle and not stopped ->
\* m_stop_cb(), the default request_stop; then poll_work.
CheckStop ==
  /\ cpc = "check"
  /\ IF stopReq /\ EmptyIo
     THEN cpc' = IF Ready THEN "process" ELSE "exit"
     ELSE cpc' = "poll"
  /\ IF ~stopReq /\ EmptyIo /\ ~Ready THEN StopCb ELSE UNCHANGED stopReq
  /\ UNCHANGED <<queue, efd, budget, staged, running, inflight, cq, tpc, dpc>>

\* Mutant: do_io_submit leaves m_num_io_wait_submit as it is.
DoIoSubmit_noReset ==
  /\ cpc = "poll"
  /\ inflight' = inflight \cup ToSet(staged)
  /\ running' = running + Len(staged)
  /\ cpc' = "wait"
  /\ UNCHANGED <<queue, efd, stopReq, budget, staged, cq, tpc, dpc>>

\* poll_submit -> do_io_submit: if anything is staged, submit it and move
\* its count into m_num_io_running.
DoIoSubmit ==
  /\ cpc = "poll"
  /\ inflight' = inflight \cup ToSet(staged)
  /\ running' = running + Len(staged)
  /\ staged' = <<>>
  /\ cpc' = "wait"
  /\ UNCHANGED <<queue, efd, stopReq, budget, cq, tpc, dpc>>

\* Mutant: a wake with the task field set returns before the CQEs.
WaitEventfd_taskFirst ==
  /\ cpc = "wait"
  /\ efd # Zero
  /\ efd' = Zero
  /\ cpc' = IF WakeByCqe(efd) /\ efd.task = 0 THEN "harvest" ELSE "process"
  /\ UNCHANGED <<queue, stopReq, budget, staged, running, inflight, cq, tpc, dpc>>

\* cnt = wait_eventfd(); if (!wake_by_cqe(cnt)) return.
WaitEventfd ==
  /\ cpc = "wait"
  /\ efd # Zero
  /\ efd' = Zero
  /\ cpc' = IF WakeByCqe(efd) THEN "harvest" ELSE "process"
  /\ UNCHANGED <<queue, stopReq, budget, staged, running, inflight, cq, tpc, dpc>>

\* Mutant: both the fetch_sub left in the comment and the -= run.
Harvest_subTwice ==
  /\ cpc = "harvest"
  /\ LET done == SubSeq(cq, 1, PeekCount)
     IN  /\ PushTasks(done)
         /\ tpc' = [t \in Task |-> IF t \in ToSet(done) THEN "resumed" ELSE tpc[t]]
         /\ cq' = SubSeq(cq, PeekCount + 1, Len(cq))
  /\ running' = running - 2 * PeekCount
  /\ cpc' = "process"
  /\ UNCHANGED <<stopReq, budget, staged, inflight, dpc>>

\* Mutant: m_num_io_running is not decremented after cq_advance.
Harvest_noSub ==
  /\ cpc = "harvest"
  /\ LET done == SubSeq(cq, 1, PeekCount)
     IN  /\ PushTasks(done)
         /\ tpc' = [t \in Task |-> IF t \in ToSet(done) THEN "resumed" ELSE tpc[t]]
         /\ cq' = SubSeq(cq, PeekCount + 1, Len(cq))
  /\ cpc' = "process"
  /\ UNCHANGED <<stopReq, budget, staged, running, inflight, dpc>>

\* num = peek_batch_cqe(m_urc, m_num_io_running); handle_cqe_entry for each
\* (the callback resubmits the awaiting task); cq_advance(num);
\* m_num_io_running -= num.
Harvest ==
  /\ cpc = "harvest"
  /\ LET done == SubSeq(cq, 1, PeekCount)
     IN  /\ PushTasks(done)
         /\ tpc' = [t \in Task |-> IF t \in ToSet(done) THEN "resumed" ELSE tpc[t]]
         /\ cq' = SubSeq(cq, PeekCount + 1, Len(cq))
  /\ running' = running - PeekCount
  /\ cpc' = "process"
  /\ UNCHANGED <<stopReq, budget, staged, inflight, dpc>>

\* engine::deinit: reset the I/O counters, swap the task queue out.
EngineDeinit ==
  /\ queue' = <<>>
  /\ staged' = <<>>
  /\ running' = 0

\* After run(): context::deinit -> engine::deinit.
Deinit ==
  /\ cpc = "exit"
  /\ EngineDeinit
  /\ cpc' = "exited"
  /\ UNCHANGED <<efd, stopReq, budget, inflight, cq, tpc, dpc>>

(***************************************************************************)
(* The kernel and the driver                                               *)
(***************************************************************************)

\* io_uring completes a submitted operation: post its CQE, signal the
\* registered eventfd.
Complete(t) ==
  /\ t \in inflight
  /\ inflight' = inflight \ {t}
  /\ cq' = Append(cq, t)
  /\ EfdWrite(CqeCount(1))
  /\ UNCHANGED <<queue, stopReq, cpc, budget, staged, running, tpc, dpc>>

\* notify_stop: m_job->request_stop().
NotifyStop_Request ==
  /\ dpc = "request"
  /\ stopReq' = TRUE
  /\ dpc' = "wake"
  /\ UNCHANGED <<queue, efd, cpc, budget, staged, running, inflight, cq, tpc>>

\* notify_stop: m_engine.wake_up(1), which lands in the CQE field.
NotifyStop_Wake ==
  /\ dpc = "wake"
  /\ EfdWrite(CqeCount(1))
  /\ dpc' = "done"
  /\ UNCHANGED <<queue, stopReq, cpc, budget, staged, running, inflight, cq, tpc>>

(***************************************************************************)
(* Specification                                                           *)
(***************************************************************************)

\* Roots submitted before start(), in a fixed order; engine::init zeroes the
\* I/O counters.
Init ==
  /\ queue = SetToSeq(Roots)
  /\ efd = TaskFlag(Cardinality(Roots))
  /\ stopReq = FALSE
  /\ cpc = "process"
  /\ budget = 0
  /\ staged = <<>>
  /\ running = 0
  /\ inflight = {}
  /\ cq = <<>>
  /\ tpc = [t \in Task |-> IF t \in Roots THEN "queued" ELSE "new"]
  /\ dpc = IF WithNotify THEN "request" ELSE "done"

WorkerStep ==
  \/ ProcessWork
  \/ ExecOneTask
  \/ CheckStop
  \/ DoIoSubmit
  \/ WaitEventfd
  \/ Harvest
  \/ Deinit

DriverStep == NotifyStop_Request \/ NotifyStop_Wake

Terminated ==
  /\ cpc = "exited"
  /\ dpc = "done"
  /\ inflight = {}
  /\ UNCHANGED vars

Next ==
  \/ WorkerStep
  \/ \E t \in Task : Complete(t)
  \/ DriverStep
  \/ Terminated

\* The worker thread runs whenever it has a step; the kernel completes every
\* submitted operation; the driver thread runs.
Fairness ==
  /\ WF_vars(WorkerStep)
  /\ \A t \in Task : WF_vars(Complete(t))
  /\ WF_vars(DriverStep)

Spec == Init /\ [][Next]_vars /\ Fairness

(***************************************************************************)
(* Properties                                                              *)
(***************************************************************************)

TypeOK ==
  /\ queue \in Seq(Task)
  /\ efd \in [task : Nat, cqe : Nat]
  /\ stopReq \in BOOLEAN
  /\ cpc \in {"process", "exec", "check", "poll", "wait", "harvest", "exit", "exited"}
  /\ staged \in Seq(IoTasks)
  /\ running \in Nat
  /\ inflight \subseteq IoTasks
  /\ cq \in Seq(IoTasks)
  /\ tpc \in [Task -> {"new", "queued", "io_wait", "resumed", "done"}]
  /\ dpc \in {"request", "wake", "done"}

\* m_num_io_running counts exactly the submitted operations whose CQE the
\* worker has not yet advanced past: do_io_submit, the kernel's completions
\* and poll_submit's harvest keep the private counter and io_uring in step.
IoAccounting == cpc # "exited" => running = Cardinality(inflight) + Len(cq)

\* The worker leaves run() only with nothing left to do: no task queued, no
\* I/O staged, in flight or completed and unharvested (the context's
\* draining -> stopped rule).
NoExitWithPendingWork ==
  cpc \in {"exit", "exited"} =>
    /\ queue = <<>>
    /\ staged = <<>>
    /\ inflight = {}
    /\ cq = <<>>

\* Every task runs to its end: every I/O completes and its task resumes,
\* every spawned child runs.
EveryTaskDone == <>(\A t \in Task : tpc[t] = "done")

\* The worker eventually leaves run() and deinits its engine.
WorkerExits == <>(cpc = "exited")

=============================================================================
