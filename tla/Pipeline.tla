------------------------------ MODULE Pipeline ------------------------------
(***************************************************************************)
(* The streaming pipeline (struct damacy): damacy_push, damacy_pop,        *)
(* damacy_release, damacy_stats and damacy_shutdown called by application  *)
(* threads, and the scheduler thread that moves batches from the planner   *)
(* through the ring of prepared plans into the executor.                   *)
(*                                                                         *)
(* Everything runs under the one mutex of scheduler.c.  A critical section *)
(* of an application thread is one action, enabled while the mutex is      *)
(* free.  The scheduler thread holds the mutex across the calls of         *)
(* damacy_scheduler_step, each of which is an action, so that what is      *)
(* lock-free (damacy_batch_release) interleaves with them.  Threads        *)
(* blocked on the condition variable leave their state "wait" only by a    *)
(* broadcast, or, for damacy_pop, by its timeout.                          *)
(***************************************************************************)
EXTENDS Planner, Executor, SequencesExt

CONSTANTS
    Poppers,          \* threads that call damacy_pop
    Closers,          \* threads that call damacy_shutdown
    PreparedBatches   \* damacy_queue_limits.prepared_batches

\* damacy_pipeline_create rejects prepared_batches = 0.
ASSUME PipelineAssumption == PreparedBatches \in Nat \ {0}

VARIABLES
    worker,         \* where the scheduler thread is
    changed,        \* `changed` of damacy_scheduler_step
    plans,          \* ring of prepared plans
    plan_head,
    plan_count,
    next_batch_id,
    failed_status,
    pop_calls,      \* threads inside the loop of damacy_pop
    stopping,
    stopped,
    shutdown,       \* scheduler.shutdown
    ppc,            \* where each popper is
    spc,            \* where each closer is
    delivered,      \* history: [id, plan] of the batches popped, in order
    misuse          \* history: an operation of a stopped component was called

pipelineVars == <<worker, changed, plans, plan_head, plan_count, next_batch_id,
                  failed_status, pop_calls, stopping, stopped, shutdown,
                  ppc, spc, delivered, misuse>>
vars == <<plannerVars, executorVars, pipelineVars>>

NoPlan == <<>>
Ring == 0 .. PreparedBatches - 1

\* The scheduler thread owns the mutex inside damacy_scheduler_step.
Stepping == worker \in {"step", "prepare", "submit"}
MutexFree == ~Stepping

Init ==
    /\ PlannerInit
    /\ ExecutorInit
    /\ worker = "enter"
    /\ changed = FALSE
    /\ plans = [i \in Ring |-> NoPlan]
    /\ plan_head = 0
    /\ plan_count = 0
    /\ next_batch_id = 0
    /\ failed_status = "OK"
    /\ pop_calls = 0
    /\ stopping = FALSE
    /\ stopped = FALSE
    /\ shutdown = FALSE
    /\ ppc = [p \in Poppers |-> "out"]
    /\ spc = [c \in Closers |-> "out"]
    /\ delivered = <<>>
    /\ misuse = FALSE

-----------------------------------------------------------------------------
(* The condition variable of scheduler.c.                                  *)

\* scheduler_broadcast, seen by the poppers and by the closers.
WokenPoppers == [p \in Poppers |-> IF ppc[p] = "wait" THEN "loop" ELSE ppc[p]]
WokenClosers == [c \in Closers |-> CASE spc[c] = "wait_pops" -> "check_pops"
                                     [] spc[c] = "wait_stopped" -> "check_stopped"
                                     [] OTHER -> spc[c]]

Broadcast == ppc' = WokenPoppers /\ spc' = WokenClosers

\* History: the operation now called belongs to a component in state `up`.
Calls(up) == misuse' = (misuse \/ ~up)

-----------------------------------------------------------------------------
(* The scheduler thread: worker_main, damacy_scheduler_enter, _step, _leave *)

\* The enter hook.  Making the CUDA context current can fail.
WorkerEnter ==
    /\ worker = "enter"
    /\ worker' = "idle"
    /\ failed_status' \in {"OK", "CUDA"}
    /\ Calls(execUp)
    /\ Broadcast
    /\ UNCHANGED <<plannerVars, executorVars, changed, plans, plan_head,
                   plan_count, next_batch_id, pop_calls, stopping, stopped,
                   shutdown, delivered>>

\* worker_main sees the shutdown flag and returns.
WorkerLeave ==
    /\ worker = "idle"
    /\ shutdown
    /\ worker' = "gone"
    /\ Calls(execUp)
    /\ UNCHANGED <<plannerVars, executorVars, changed, plans, plan_head,
                   plan_count, next_batch_id, failed_status, pop_calls,
                   stopping, stopped, shutdown, ppc, spc, delivered>>

\* Mutant: a step is made although the pipeline has failed.
WorkerLockAnyway ==
    /\ worker = "idle"
    /\ ~shutdown
    /\ ~stopping
    /\ worker' = "step"
    /\ changed' = FALSE
    /\ UNCHANGED <<plannerVars, executorVars, plans, plan_head, plan_count,
                   next_batch_id, failed_status, pop_calls, stopping, stopped,
                   shutdown, ppc, spc, delivered, misuse>>

\* worker_main takes the mutex and damacy_scheduler_step passes its first test.
WorkerLock ==
    /\ worker = "idle"
    /\ ~shutdown
    /\ ~stopping
    /\ failed_status = "OK"
    /\ worker' = "step"
    /\ changed' = FALSE
    /\ UNCHANGED <<plannerVars, executorVars, plans, plan_head, plan_count,
                   next_batch_id, failed_status, pop_calls, stopping, stopped,
                   shutdown, ppc, spc, delivered, misuse>>

\* Mutant: nobody is told.
StepReturnsQuietly(ready) ==
    /\ worker' = "idle"
    /\ UNCHANGED <<ppc, spc>>

\* damacy_scheduler_step returns `ready`; worker_main broadcasts if it is set
\* and gives the mutex back.
StepReturns(ready) ==
    /\ worker' = "idle"
    /\ IF ready THEN Broadcast ELSE UNCHANGED <<ppc, spc>>

StepFails(status) ==
    /\ failed_status' = status
    /\ StepReturns(TRUE)
    /\ UNCHANGED <<changed, plans, plan_head, plan_count, next_batch_id>>

\* executor->ops->step.  AGAIN counts as OK.
WorkerStep ==
    /\ worker = "step"
    /\ Calls(execUp)
    /\ \E done \in SUBSET DOMAIN inflight, freed \in SUBSET held :
          /\ ExecutorStep(done, freed)
          /\ changed' = (done # {} \/ freed # {})
    /\ worker' = "prepare"
    /\ UNCHANGED <<plannerVars, plans, plan_head, plan_count, next_batch_id,
                   failed_status, pop_calls, stopping, stopped, shutdown,
                   ppc, spc, delivered>>

\* executor->ops->step fails, perhaps half-way: a read, a decode, CUDA.
WorkerStepFails ==
    /\ worker = "step"
    /\ Calls(execUp)
    /\ \E done \in SUBSET DOMAIN inflight, freed \in SUBSET held :
          ExecutorStep(done, freed)
    /\ StepFails("IO")
    /\ UNCHANGED <<plannerVars, pop_calls, stopping, stopped, shutdown,
                   delivered>>

\* pipeline_prepare gets a plan and puts it at the end of the ring.
WorkerPrepareOk ==
    /\ worker = "prepare"
    /\ plan_count < PreparedBatches
    /\ Calls(plannerUp)
    /\ PlannerNextOk
    /\ plans' = [plans EXCEPT
                    ![(plan_head + plan_count) % PreparedBatches] = NextPlan]
    /\ plan_count' = plan_count + 1
    /\ changed' = TRUE
    /\ UNCHANGED <<executorVars, worker, plan_head, next_batch_id,
                   failed_status, pop_calls, stopping, stopped, shutdown,
                   ppc, spc, delivered>>

\* pipeline_prepare returns: the planner says AGAIN, of itself or of a sample.
WorkerPrepareAgain ==
    /\ worker = "prepare"
    /\ plan_count < PreparedBatches
    /\ Calls(plannerUp)
    /\ PlannerNextAgain \/ PlannerSampleAgain
    /\ worker' = "submit"
    /\ UNCHANGED <<executorVars, changed, plans, plan_head, plan_count,
                   next_batch_id, failed_status, pop_calls, stopping, stopped,
                   shutdown, ppc, spc, delivered>>

\* pipeline_prepare returns: the ring is full.
WorkerPrepareFull ==
    /\ worker = "prepare"
    /\ plan_count = PreparedBatches
    /\ worker' = "submit"
    /\ UNCHANGED <<plannerVars, executorVars, changed, plans, plan_head,
                   plan_count, next_batch_id, failed_status, pop_calls,
                   stopping, stopped, shutdown, ppc, spc, delivered, misuse>>

\* The planner fails: a sample's error, or the plan cannot be built.
WorkerPrepareFails ==
    /\ worker = "prepare"
    /\ plan_count < PreparedBatches
    /\ Calls(plannerUp)
    /\ PlannerSampleError \/ PlannerBuildError
    /\ StepFails("NOTFOUND")
    /\ UNCHANGED <<executorVars, pop_calls, stopping, stopped, shutdown,
                   delivered>>

\* Mutant: the batch id is not advanced.
WorkerSubmitSameId ==
    /\ worker = "submit"
    /\ plan_count > 0
    /\ Calls(execUp)
    /\ ExecutorSubmit(plans[plan_head], next_batch_id)
    /\ plans' = [plans EXCEPT ![plan_head] = NoPlan]
    /\ plan_head' = (plan_head + 1) % PreparedBatches
    /\ plan_count' = plan_count - 1
    /\ changed' = TRUE
    /\ UNCHANGED <<plannerVars, worker, next_batch_id, failed_status, pop_calls,
                   stopping, stopped, shutdown, ppc, spc, delivered>>

\* executor->ops->submit accepts the oldest plan; the loop goes on.
WorkerSubmitOk ==
    /\ worker = "submit"
    /\ plan_count > 0
    /\ Calls(execUp)
    /\ ExecutorSubmit(plans[plan_head], next_batch_id)
    /\ plans' = [plans EXCEPT ![plan_head] = NoPlan]
    /\ plan_head' = (plan_head + 1) % PreparedBatches
    /\ plan_count' = plan_count - 1
    /\ next_batch_id' = next_batch_id + 1
    /\ changed' = TRUE
    /\ UNCHANGED <<plannerVars, worker, failed_status, pop_calls, stopping,
                   stopped, shutdown, ppc, spc, delivered>>

\* Mutant: AGAIN drops the plan.
WorkerSubmitDrops ==
    /\ worker = "submit"
    /\ plan_count > 0
    /\ SubmitAgain
    /\ Calls(execUp)
    /\ StepReturns(changed)
    /\ plans' = [plans EXCEPT ![plan_head] = NoPlan]
    /\ plan_head' = (plan_head + 1) % PreparedBatches
    /\ plan_count' = plan_count - 1
    /\ UNCHANGED <<plannerVars, executorVars, changed, next_batch_id,
                   failed_status, pop_calls, stopping, stopped, shutdown,
                   delivered>>

\* submit says AGAIN: the plan and the batch id stay for the next step.
WorkerSubmitAgain ==
    /\ worker = "submit"
    /\ plan_count > 0
    /\ SubmitAgain
    /\ Calls(execUp)
    /\ StepReturns(changed)
    /\ UNCHANGED <<plannerVars, executorVars, changed, plans, plan_head,
                   plan_count, next_batch_id, failed_status, pop_calls,
                   stopping, stopped, shutdown, delivered>>

\* submit rejects the plan: it does not fit the executor's limits.
WorkerSubmitFails ==
    /\ worker = "submit"
    /\ plan_count > 0
    /\ SlotFree
    /\ Calls(execUp)
    /\ StepFails("BUDGET")
    /\ UNCHANGED <<plannerVars, executorVars, pop_calls, stopping, stopped,
                   shutdown, delivered>>

\* No plan is left.
WorkerSubmitDone ==
    /\ worker = "submit"
    /\ plan_count = 0
    /\ StepReturns(changed)
    /\ UNCHANGED <<plannerVars, executorVars, changed, plans, plan_head,
                   plan_count, next_batch_id, failed_status, pop_calls,
                   stopping, stopped, shutdown, delivered, misuse>>

-----------------------------------------------------------------------------
(* damacy_push, damacy_release and the statistics.                         *)

\* Mutant: the flag is not tested under the mutex.
PushUnchecked ==
    /\ MutexFree
    /\ failed_status = "OK"
    /\ Calls(plannerUp)
    /\ \E k \in 0 .. Lookahead : PlannerPush(k)
    /\ Broadcast
    /\ UNCHANGED <<executorVars, worker, changed, plans, plan_head, plan_count,
                   next_batch_id, failed_status, pop_calls, stopping, stopped,
                   shutdown, delivered>>

\* A push that reaches the planner, and one that is turned away.
Push ==
    /\ MutexFree
    /\ ~stopping
    /\ failed_status = "OK"
    /\ Calls(plannerUp)
    /\ \E k \in 0 .. Lookahead : PlannerPush(k)
    /\ Broadcast
    /\ UNCHANGED <<executorVars, worker, changed, plans, plan_head, plan_count,
                   next_batch_id, failed_status, pop_calls, stopping, stopped,
                   shutdown, delivered>>

PushRejected ==
    /\ MutexFree
    /\ stopping \/ failed_status # "OK"
    /\ Broadcast
    /\ UNCHANGED <<plannerVars, executorVars, worker, changed, plans,
                   plan_head, plan_count, next_batch_id, failed_status,
                   pop_calls, stopping, stopped, shutdown, delivered, misuse>>

\* damacy_batch_retain and damacy_release: no lock, before or after shutdown.
BatchReference ==
    /\ \E id \in DOMAIN refs : Retain(id) \/ Release(id)
    /\ UNCHANGED <<plannerVars, pipelineVars>>

\* damacy_release_event, damacy_stats_get and damacy_stats_reset call the
\* components under the mutex, unless the pipeline is stopping.
ComponentQuery ==
    /\ MutexFree
    /\ ~stopping
    /\ Calls(plannerUp /\ execUp)
    /\ UNCHANGED <<plannerVars, executorVars, worker, changed, plans,
                   plan_head, plan_count, next_batch_id, failed_status,
                   pop_calls, stopping, stopped, shutdown, ppc, spc, delivered>>

-----------------------------------------------------------------------------
(* damacy_pop.  One action is one turn of its loop; a call that has not yet *)
(* slept enters the loop in the same critical section.  The test of         *)
(* `stopped` at its head is made without the mutex: a call that passed it   *)
(* can take the mutex after the shutdown, and so can damacy_push.           *)

PopTurn(p) ==
    /\ MutexFree
    /\ ppc[p] \in {"out", "loop"}

\* Mutants: pop_calls is decremented by a call that has not slept; closers are
\* not woken.
PopReturnsTwice(p) ==
    /\ pop_calls' = pop_calls - 1
    /\ ppc' = [WokenPoppers EXCEPT ![p] = "out"]
    /\ spc' = WokenClosers
PopReturnsQuietly(p) ==
    /\ pop_calls' = pop_calls - (IF ppc[p] = "loop" THEN 1 ELSE 0)
    /\ ppc' = [ppc EXCEPT ![p] = "out"]
    /\ UNCHANGED spc

\* The call leaves: pop_calls goes back down and everyone is woken.
PopReturns(p) ==
    /\ pop_calls' = pop_calls - (IF ppc[p] = "loop" THEN 1 ELSE 0)
    /\ ppc' = [WokenPoppers EXCEPT ![p] = "out"]
    /\ spc' = WokenClosers

PopShutdown(p) ==
    /\ PopTurn(p)
    /\ stopping
    /\ PopReturns(p)
    /\ UNCHANGED <<plannerVars, executorVars, worker, changed, plans,
                   plan_head, plan_count, next_batch_id, failed_status,
                   stopping, stopped, shutdown, delivered, misuse>>

PopFailed(p) ==
    /\ PopTurn(p)
    /\ ~stopping
    /\ failed_status # "OK"
    /\ PopReturns(p)
    /\ UNCHANGED <<plannerVars, executorVars, worker, changed, plans,
                   plan_head, plan_count, next_batch_id, failed_status,
                   stopping, stopped, shutdown, delivered, misuse>>

\* take returns a batch, or, out of memory for its handle, an error that
\* leaves the batch where it is.
PopTake(p) ==
    /\ PopTurn(p)
    /\ ~stopping
    /\ failed_status = "OK"
    /\ Calls(execUp)
    /\ \/ /\ ExecutorTake
          /\ delivered' = Append(delivered, [id |-> Head(inflight).id,
                                             plan |-> Head(inflight).plan])
       \/ /\ CanTake
          /\ UNCHANGED <<executorVars, delivered>>
    /\ PopReturns(p)
    /\ UNCHANGED <<plannerVars, worker, changed, plans, plan_head, plan_count,
                   next_batch_id, failed_status, stopping, stopped, shutdown>>

\* Nothing is queued, pending or in flight.
Drained == plan_count = 0 /\ Pending = 0 /\ ~Busy

PopAgain(p) ==
    /\ PopTurn(p)
    /\ ~stopping
    /\ failed_status = "OK"
    /\ ~CanTake
    /\ Drained
    /\ Calls(execUp /\ plannerUp)
    /\ PopReturns(p)
    /\ UNCHANGED <<plannerVars, executorVars, worker, changed, plans,
                   plan_head, plan_count, next_batch_id, failed_status,
                   stopping, stopped, shutdown, delivered>>

PopSleep(p) ==
    /\ PopTurn(p)
    /\ ~stopping
    /\ failed_status = "OK"
    /\ ~CanTake
    /\ ~Drained
    /\ Calls(execUp /\ plannerUp)
    /\ pop_calls' = pop_calls + (IF ppc[p] = "out" THEN 1 ELSE 0)
    /\ ppc' = [ppc EXCEPT ![p] = "wait"]
    /\ UNCHANGED <<plannerVars, executorVars, worker, changed, plans,
                   plan_head, plan_count, next_batch_id, failed_status,
                   stopping, stopped, shutdown, spc, delivered>>

\* SCHEDULER_WAIT_DIAG runs into its timeout.
PopTimeout(p) ==
    /\ ppc[p] = "wait"
    /\ ppc' = [ppc EXCEPT ![p] = "loop"]
    /\ UNCHANGED <<plannerVars, executorVars, worker, changed, plans,
                   plan_head, plan_count, next_batch_id, failed_status,
                   pop_calls, stopping, stopped, shutdown, spc, delivered,
                   misuse>>

PopStep(p) == \/ PopShutdown(p)
              \/ PopFailed(p)
              \/ PopTake(p)
              \/ PopAgain(p)
              \/ PopSleep(p)

-----------------------------------------------------------------------------
(* damacy_shutdown and scheduler_stop, one action per critical section and *)
(* per component that is stopped outside the mutex.                        *)

\* Mutant: blocked pops are not waited for.
ShutdownAtOnce(c) ==
    /\ MutexFree
    /\ spc[c] = "out"
    /\ ~stopping
    /\ Calls(plannerUp /\ execUp)
    /\ stopping' = TRUE
    /\ ppc' = WokenPoppers
    /\ spc' = [WokenClosers EXCEPT ![c] = "stop_sched"]
    /\ UNCHANGED <<plannerVars, executorVars, worker, changed, plans,
                   plan_head, plan_count, next_batch_id, failed_status,
                   pop_calls, stopped, shutdown, delivered>>
\* damacy_shutdown raises the flag, wakes everyone and waits for the pops.
ShutdownBegin(c) ==
    /\ MutexFree
    /\ spc[c] = "out"
    /\ ~stopping
    /\ Calls(plannerUp /\ execUp)
    /\ stopping' = TRUE
    /\ ppc' = WokenPoppers
    /\ spc' = [WokenClosers EXCEPT
                  ![c] = IF pop_calls = 0 THEN "stop_sched" ELSE "wait_pops"]
    /\ UNCHANGED <<plannerVars, executorVars, worker, changed, plans,
                   plan_head, plan_count, next_batch_id, failed_status,
                   pop_calls, stopped, shutdown, delivered>>

\* Another thread is shutting down: wait until it has finished.  (It may have
\* since the test of `stopped` made without the mutex.)
ShutdownJoins(c) ==
    /\ MutexFree
    /\ spc[c] = "out"
    /\ stopping
    /\ spc' = [spc EXCEPT ![c] = IF stopped THEN "out" ELSE "wait_stopped"]
    /\ UNCHANGED <<plannerVars, executorVars, worker, changed, plans,
                   plan_head, plan_count, next_batch_id, failed_status,
                   pop_calls, stopping, stopped, shutdown, ppc, delivered,
                   misuse>>

\* A closer woken by a broadcast tests its condition again.
ShutdownRecheck(c) ==
    /\ MutexFree
    /\ \/ /\ spc[c] = "check_pops"
          /\ spc' = [spc EXCEPT ![c] = IF pop_calls = 0 THEN "stop_sched"
                                                        ELSE "wait_pops"]
       \/ /\ spc[c] = "check_stopped"
          /\ spc' = [spc EXCEPT ![c] = IF stopped THEN "out"
                                                  ELSE "wait_stopped"]
    /\ UNCHANGED <<plannerVars, executorVars, worker, changed, plans,
                   plan_head, plan_count, next_batch_id, failed_status,
                   pop_calls, stopping, stopped, shutdown, ppc, delivered,
                   misuse>>

\* scheduler_stop sets the flag, ...
ShutdownStopsScheduler(c) ==
    /\ MutexFree
    /\ spc[c] = "stop_sched"
    /\ shutdown' = TRUE
    /\ ppc' = WokenPoppers
    /\ spc' = [WokenClosers EXCEPT ![c] = "join"]
    /\ UNCHANGED <<plannerVars, executorVars, worker, changed, plans,
                   plan_head, plan_count, next_batch_id, failed_status,
                   pop_calls, stopping, stopped, delivered, misuse>>

\* ... and joins the thread; then the planner stops.
ShutdownStopsPlanner(c) ==
    /\ spc[c] = "join"
    /\ worker = "gone"
    /\ PlannerStop
    /\ spc' = [spc EXCEPT ![c] = "stop_executor"]
    /\ UNCHANGED <<executorVars, pop_calls, worker, changed, plans, plan_head,
                   plan_count, next_batch_id, failed_status, stopping, stopped,
                   shutdown, ppc, delivered, misuse>>

\* The executor stops and the prepared plans are destroyed.
ShutdownStopsExecutor(c) ==
    /\ spc[c] = "stop_executor"
    /\ ExecutorStop
    /\ plans' = [i \in Ring |-> NoPlan]
    /\ spc' = [spc EXCEPT ![c] = "finish"]
    /\ UNCHANGED <<plannerVars, worker, changed, plan_head, plan_count,
                   next_batch_id, failed_status, pop_calls, stopping, stopped,
                   shutdown, ppc, delivered, misuse>>

ShutdownFinish(c) ==
    /\ MutexFree
    /\ spc[c] = "finish"
    /\ plan_count' = 0
    /\ stopped' = TRUE
    /\ ppc' = WokenPoppers
    /\ spc' = [WokenClosers EXCEPT ![c] = "out"]
    /\ UNCHANGED <<plannerVars, executorVars, worker, changed, plans,
                   plan_head, next_batch_id, failed_status, pop_calls,
                   stopping, shutdown, delivered, misuse>>

ShutdownStep(c) == \/ ShutdownJoins(c)
                   \/ ShutdownRecheck(c)
                   \/ ShutdownStopsScheduler(c)
                   \/ ShutdownStopsPlanner(c)
                   \/ ShutdownStopsExecutor(c)
                   \/ ShutdownFinish(c)

\* damacy_push, damacy_pop, damacy_shutdown and damacy_stats_reset return at
\* once, without the mutex, when the pipeline has stopped.
CallAfterStop == stopped /\ UNCHANGED vars

-----------------------------------------------------------------------------
WorkerAct == \/ WorkerEnter
             \/ WorkerLeave
             \/ WorkerLock
             \/ WorkerStep
             \/ WorkerStepFails
             \/ WorkerPrepareOk
             \/ WorkerPrepareAgain
             \/ WorkerPrepareFull
             \/ WorkerPrepareFails
             \/ WorkerSubmitOk
             \/ WorkerSubmitAgain
             \/ WorkerSubmitFails
             \/ WorkerSubmitDone

Next == \/ WorkerAct
        \/ Push
        \/ PushRejected
        \/ BatchReference
        \/ ComponentQuery
        \/ CallAfterStop
        \/ \E p \in Poppers : PopStep(p) \/ PopTimeout(p)
        \/ \E c \in Closers : ShutdownBegin(c) \/ ShutdownStep(c)

Spec == Init /\ [][Next]_vars

-----------------------------------------------------------------------------
(* What the code's scheduling justifies.  The scheduler thread runs until   *)
(* told to leave; a thread that wants the mutex gets it, because the       *)
(* scheduler thread sleeps between steps; a call that has begun goes on.   *)
CallsFinish ==
    /\ WF_vars(WorkerAct)
    /\ \A p \in Poppers : SF_vars(ppc[p] = "loop" /\ PopStep(p))
    /\ \A c \in Closers : SF_vars(ShutdownStep(c))

FairSpec == Spec /\ CallsFinish

(* On top of that, storage and consumers that make progress: metadata and  *)
(* reads complete, handles can be allocated, the application keeps popping *)
(* and releases what it popped.                                            *)
EnvironmentProgress ==
    /\ SF_vars(WorkerPrepareOk)
    /\ SF_vars(WorkerStep /\ inflight' # inflight)
    /\ SF_vars(WorkerStep /\ held' # held)
    /\ \A p \in Poppers : SF_vars(PopStep(p))
    /\ \A p \in Poppers : SF_vars(PopTake(p) /\ delivered' # delivered)
    /\ WF_vars(\E id \in DOMAIN refs : Release(id) /\ UNCHANGED <<plannerVars, pipelineVars>>)

-----------------------------------------------------------------------------
(* Properties.                                                             *)

\* Type invariant of the pipeline, its planner and its executor.  With it goes
\* that pop_calls is never decremented below zero (damacy_pop).
TypeOK ==
    /\ worker \in {"enter", "idle", "step", "prepare", "submit", "gone"}
    /\ changed \in BOOLEAN
    /\ \A i \in Ring : plans[i] \in Seq(Nat)
    /\ plan_head \in Ring
    /\ plan_count \in 0 .. PreparedBatches
    /\ next_batch_id \in Nat
    /\ failed_status \in {"OK", "CUDA", "IO", "NOTFOUND", "BUDGET"}
    /\ pop_calls \in Nat
    /\ stopping \in BOOLEAN
    /\ stopped \in BOOLEAN
    /\ shutdown \in BOOLEAN
    /\ ppc \in [Poppers -> {"out", "loop", "wait"}]
    /\ spc \in [Closers -> {"out", "wait_pops", "check_pops", "wait_stopped",
                            "check_stopped", "stop_sched", "join",
                            "stop_executor", "finish"}]
    /\ misuse \in BOOLEAN
    /\ pushed \in Nat /\ consumed \in Nat /\ planned \in Nat
    /\ staged \in Seq(Nat)
    /\ plannerUp \in BOOLEAN
    /\ execUp \in BOOLEAN
    /\ \A i \in DOMAIN inflight : inflight[i] \in [id : Nat, plan : Seq(Nat), ready : BOOLEAN]
    /\ held \subseteq DOMAIN refs
    /\ \A id \in DOMAIN refs : refs[id] \in 0 .. MaxRefs

\* The samples of a sequence of batches, and whether they are in push order.
Samples(batches) == FoldLeft(LAMBDA all, b : all \o b.plan, <<>>, batches)
Increasing(seq) == \A i \in 1 .. Len(seq) - 1 : seq[i] < seq[i + 1]

\* damacy_pop returns batches "in push order" (damacy.h:293): batch ids count
\* up from 0 and every batch is full of samples pushed after those of the batch
\* before, whatever the interleaving of pushes, pops, failures and shutdown.
InPushOrder ==
    /\ \A i \in DOMAIN delivered :
          /\ delivered[i].id = i - 1
          /\ Len(delivered[i].plan) = SamplesPerBatch
    /\ Increasing(Samples(delivered))

\* The plans of the ring in their order, as batches.
Queued == [i \in 1 .. plan_count |->
              [plan |-> plans[(plan_head + i - 1) % PreparedBatches]]]

\* Every sample the planner has handed out is in exactly one place: popped, in
\* flight in the executor, queued in the ring or staged, and all of them in
\* push order.  The AGAIN of submit and the wrap of the ring neither lose nor
\* repeat a plan.
EveryPlanOwnedOnce ==
    failed_status = "OK" /\ execUp /\ plannerUp =>
        LET all == Samples(delivered) \o Samples(inflight) \o Samples(Queued)
                   \o staged
        IN  /\ Increasing(all)
            /\ Len(all) = planned + Len(staged)
            /\ \A i \in DOMAIN all : all[i] < consumed
            /\ next_batch_id = Len(delivered) + Len(inflight)
            /\ \A i \in DOMAIN inflight :
                  inflight[i].id = Len(delivered) + i - 1

\* A sample whose metadata cannot be loaded fails the pipeline: the planner
\* "see[s] a single error transition and fail[s] the batch cleanly"
\* (dev/metadata_prefetch.md:240).  So while no failure is published, every
\* sample popped as ready is in a batch or staged for one.
NoSampleSkipped ==
    failed_status = "OK" /\ plannerUp => Lost = 0

\* No wake-up is missed.  Whenever the mutex is free, a thread asleep on the
\* condition variable has nothing it could do: its condition still holds.
\* (damacy_pop would recover by its five second timeout; damacy_shutdown
\* waits without one.)
NoMissedWakeup ==
    MutexFree =>
        /\ \A p \in Poppers : ppc[p] = "wait" =>
              /\ ~stopping
              /\ failed_status = "OK"
              /\ ~CanTake
              /\ ~Drained
        /\ \A c \in Closers :
              /\ spc[c] = "wait_pops" => pop_calls > 0
              /\ spc[c] = "wait_stopped" => ~stopped

\* No operation of the planner or the executor is called once damacy_shutdown
\* has stopped it: not by the scheduler thread, not by a pop that was asleep,
\* not by a push, a release with an event or a statistics call that raced it.
NoUseAfterStop == ~misuse

\* When damacy_shutdown is over ("Stop the pipeline", damacy.h:241) nobody is
\* left inside: the scheduler thread is gone, no pop is blocked, no plan and
\* no batch is in the pipeline.
StoppedIsQuiet ==
    stopped =>
        /\ worker = "gone"
        /\ \A p \in Poppers : ppc[p] = "out"
        /\ plan_count = 0
        /\ \A i \in Ring : plans[i] = NoPlan
        /\ ~Busy

\* After a failure the pipeline admits nothing and delivers nothing more, and
\* the first error is the one every later pop reports ("Failures stop
\* admission and remain visible", dev/cpu-pipeline.md:34).
FailureIsFinal ==
    [][failed_status # "OK" =>
          /\ failed_status' = failed_status
          /\ UNCHANGED <<pushed, planned, delivered, next_batch_id>>]_vars

\* A thread that calls damacy_shutdown returns from it, also when several do
\* and when pops are blocked: closers wait for pops, pops for a broadcast,
\* and the join for the scheduler thread.
ShutdownReturns ==
    \A c \in Closers : spc[c] # "out" ~> spc[c] = "out"

\* With storage and consumers that make progress, every full batch of pushed
\* samples is popped in the end unless the pipeline fails or is shut down, or
\* a sample was skipped: the lookahead, the plan ring and the output slots
\* never wait for each other in a circle.
EveryBatchDelivered ==
    EnvironmentProgress => \A k \in 1 .. MaxPushed \div SamplesPerBatch :
        pushed >= k * SamplesPerBatch ~>
            \/ Len(delivered) >= k
            \/ failed_status # "OK"
            \/ stopping
            \/ Lost > 0
=============================================================================
