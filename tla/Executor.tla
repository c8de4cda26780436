------------------------------ MODULE Executor ------------------------------
(***************************************************************************)
(* What the pipeline sees of an executor (damacy_executor_ops of           *)
(* pipeline/components.h): it accepts plans under a fixed number of output *)
(* slots, renders them in whatever order its I/O and decoding finish,      *)
(* hands the results out in the order of their batch ids, and reuses a     *)
(* slot only when nobody holds a reference to the batch rendered in it.    *)
(***************************************************************************)
EXTENDS Integers, Sequences, FiniteSets, TLC

CONSTANTS
    Slots,    \* output slots of the executor (2 in cpu_executor.c)
    MaxRefs   \* bound of the model: references a consumer holds on a batch

\* An executor has at least one output slot; a consumer can hold a batch.
ASSUME ExecutorAssumption == Slots \in Nat \ {0} /\ MaxRefs \in Nat \ {0}

VARIABLES
    inflight,  \* accepted and not yet taken: [id, plan, ready], by batch id
    held,      \* ids of the batches whose slot is in state HELD
    refs,      \* id of a batch handed out -> references the consumer holds
    execUp     \* between start and stop

executorVars == <<inflight, held, refs, execUp>>

ExecutorInit ==
    /\ inflight = <<>>
    /\ held = {}
    /\ refs = <<>>
    /\ execUp = TRUE

\* ops->busy: some slot is not free.
Busy == inflight # <<>> \/ held # {}

SlotFree == Len(inflight) + Cardinality(held) < Slots

\* ops->submit returns OK and takes over the plan.
ExecutorSubmit(plan, id) ==
    /\ SlotFree
    /\ inflight' = Append(inflight, [id |-> id, plan |-> plan, ready |-> FALSE])
    /\ UNCHANGED <<held, refs, execUp>>

\* ops->submit returns AGAIN: no slot, or no memory until a batch in flight
\* returns its own.
SubmitAgain == ~SlotFree \/ \E i \in DOMAIN inflight : ~inflight[i].ready

\* Mutant: a slot stays HELD after its batch has been released.
ExecutorStepKeepsHeld(done, freed) ==
    /\ done \subseteq {i \in DOMAIN inflight : ~inflight[i].ready}
    /\ freed \subseteq {id \in held : refs[id] = 0}
    /\ inflight' = [i \in DOMAIN inflight |->
                        [inflight[i] EXCEPT !.ready = @ \/ i \in done]]
    /\ UNCHANGED <<held, refs, execUp>>

\* ops->step makes progress: the batches in the positions `done` finish
\* rendering, and the slots of the batches `freed`, which nobody references
\* any more, become free.
ExecutorStep(done, freed) ==
    /\ done \subseteq {i \in DOMAIN inflight : ~inflight[i].ready}
    /\ freed \subseteq {id \in held : refs[id] = 0}
    /\ inflight' = [i \in DOMAIN inflight |->
                        [inflight[i] EXCEPT !.ready = @ \/ i \in done]]
    /\ held' = held \ freed
    /\ UNCHANGED <<refs, execUp>>

\* ops->take has a batch to give: the oldest one, once it is rendered.
CanTake == inflight # <<>> /\ Head(inflight).ready

\* ops->take returns OK; the caller owns one reference.
ExecutorTake ==
    /\ CanTake
    /\ inflight' = Tail(inflight)
    /\ held' = held \union {Head(inflight).id}
    /\ refs' = (Head(inflight).id :> 1) @@ refs
    /\ UNCHANGED execUp

\* damacy_batch_retain and damacy_batch_release, called by a consumer that
\* holds a reference, at any time and from any thread.
Retain(id) ==
    /\ refs[id] \in 1 .. MaxRefs - 1
    /\ refs' = [refs EXCEPT ![id] = @ + 1]
    /\ UNCHANGED <<inflight, held, execUp>>

Release(id) ==
    /\ refs[id] > 0
    /\ refs' = [refs EXCEPT ![id] = @ - 1]
    /\ UNCHANGED <<inflight, held, execUp>>

\* ops->stop: work in flight is dropped and the executor gives up its buffers;
\* a batch that a consumer still holds keeps its own.
ExecutorStop ==
    /\ execUp' = FALSE
    /\ inflight' = <<>>
    /\ held' = {}
    /\ UNCHANGED refs
=============================================================================
