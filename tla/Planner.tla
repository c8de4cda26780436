------------------------------ MODULE Planner ------------------------------
(***************************************************************************)
(* What the pipeline sees of a planner (damacy_planner_ops of              *)
(* pipeline/components.h), as zarr_planner.c implements it: samples are    *)
(* pushed under a lookahead limit, become ready in push order, are staged  *)
(* until a batch is complete, and each complete batch is handed out once   *)
(* as an owned plan.                                                       *)
(*                                                                         *)
(* A sample is its push number, 0, 1, 2, ...  A plan is the sequence of    *)
(* its samples.  When samples become ready is up to metadata I/O, so how   *)
(* many are ready at a call of next is a nondeterministic choice.          *)
(***************************************************************************)
EXTENDS Integers, Sequences

CONSTANTS
    SamplesPerBatch,  \* damacy_batch_spec.samples_per_batch
    Lookahead,        \* damacy_queue_limits.lookahead_samples
    MaxPushed,        \* bound of the model: samples pushed in a behaviour
    MaxLost           \* bound of the model: samples whose error is AGAIN

\* damacy_pipeline_create and batch_spec_layout reject anything else.
ASSUME PlannerAssumption ==
    /\ SamplesPerBatch \in Nat \ {0}
    /\ Lookahead \in Nat
    /\ Lookahead >= SamplesPerBatch
    /\ MaxPushed \in Nat
    /\ MaxLost \in Nat

VARIABLES
    pushed,     \* samples accepted by push
    consumed,   \* next_consume_seq of the prefetcher: samples popped as ready
    staged,     \* the samples waiting in the planner for their batch to fill
    planned,    \* samples whose plan has been built
    plannerUp   \* between start and stop

plannerVars == <<pushed, consumed, staged, planned, plannerUp>>

PlannerInit ==
    /\ pushed = 0
    /\ consumed = 0
    /\ staged = <<>>
    /\ planned = 0
    /\ plannerUp = TRUE

\* zarr_pending
Pending == pushed - planned

\* zarr_push of a slice: k of its samples are accepted.  The lookahead limit,
\* a sample that fails validation or an allocation that fails end the loop.
PlannerPush(k) ==
    /\ k <= Lookahead - (pushed - consumed)
    /\ k <= MaxPushed - pushed
    /\ pushed' = pushed + k
    /\ UNCHANGED <<consumed, staged, planned, plannerUp>>

\* The loop of zarr_next: the n samples that are ready next, if there is room.
Ready(n) == [i \in 1 .. n |-> consumed + i - 1]
CanStage(n) ==
    /\ n <= SamplesPerBatch - Len(staged)
    /\ n <= pushed - consumed

\* Samples popped as ready that are neither staged nor counted as planned.
Lost == consumed - planned - Len(staged)

\* zarr_next returns AGAIN: too few samples are ready, or the plan cannot be
\* built yet.  What has been staged stays staged.
PlannerNextAgain ==
    \E n \in 0 .. SamplesPerBatch :
        /\ CanStage(n)
        /\ staged' = staged \o Ready(n)
        /\ consumed' = consumed + n
        /\ UNCHANGED <<pushed, planned, plannerUp>>

\* zarr_next returns OK: the batch is complete and its plan is handed out.
NextPlan == staged \o Ready(SamplesPerBatch - Len(staged))
PlannerNextOk ==
    LET n == SamplesPerBatch - Len(staged) IN
        /\ CanStage(n)
        /\ consumed' = consumed + n
        /\ planned' = planned + SamplesPerBatch
        /\ staged' = <<>>
        /\ UNCHANGED <<pushed, plannerUp>>

\* zarr_next returns the error of a sample, which is popped and dropped.
PlannerSampleError ==
    \E n \in 0 .. SamplesPerBatch - 1 :
        /\ CanStage(n + 1)
        /\ staged' = staged \o Ready(n)
        /\ consumed' = consumed + n + 1
        /\ UNCHANGED <<pushed, planned, plannerUp>>

\* The same when the error is AGAIN, which the caller cannot tell from "not
\* yet": a cache entry gets that error when its read cannot be started for
\* want of memory (prefetch_cache.c:495, shard_index.c:341).
PlannerSampleAgain ==
    /\ Lost < MaxLost
    /\ PlannerSampleError

\* zarr_next returns an error of prepared_plan_build: the staged samples are
\* cleared and counted as planned all the same.
PlannerBuildError == PlannerNextOk

\* zarr_stop: the prefetcher, the caches and the staged samples go.
PlannerStop ==
    /\ plannerUp' = FALSE
    /\ staged' = <<>>
    /\ UNCHANGED <<pushed, consumed, planned>>

\* The planner alone: what an implementation of it may do.
PlannerNext ==
    \/ \E k \in 1 .. Lookahead : PlannerPush(k)
    \/ PlannerNextAgain
    \/ PlannerNextOk
    \/ PlannerSampleError
    \/ PlannerStop

PlannerSpec == PlannerInit /\ [][PlannerNext]_plannerVars
=============================================================================
