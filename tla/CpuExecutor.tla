---------------------------- MODULE CpuExecutor ----------------------------
(***************************************************************************)
(* The CPU executor (executor/cpu_executor.c): two output slots, two input *)
(* waves and one decode thread.  The scheduler thread calls cpu_submit,    *)
(* cpu_step and cpu_take one after the other; beside it run the decode     *)
(* thread, the reads of the store, and consumers that drop references to   *)
(* batches.  cpu_step is one action per stage, so that all of these        *)
(* interleave with it.                                                     *)
(*                                                                         *)
(* A plan is what coalesce_reads makes of it: a sequence of reads, each    *)
(* with the number of chunks it brings in; a read of a missing chunk       *)
(* transfers nothing.  Reads only join chunks that touch in the file, so a *)
(* wave within its limit of chunks is also within its limit of bytes, and  *)
(* only the former is modelled.  A byte of read plan is counted per chunk. *)
(***************************************************************************)
EXTENDS Integers, SequencesExt

CONSTANTS
    Plans,          \* the plans that may be submitted
    Reads,          \* plan -> sequence of [chunks, transfers]
    ChunkCap,       \* damacy_cpu_config.chunks_per_input_buffer
    MaxInflight,    \* damacy_reader.max_inflight_reads
    Memory,         \* max_memory_bytes less what cpu_start commits
    MaxBatches,     \* bound of the model: batches submitted in a behaviour
    MaxRefs         \* bound of the model: references held on a batch

\* cpu_read_plan_build bounds the chunks of a read by the input buffer;
\* cpu_submit rejects a plan without chunks, file_reader_create a reader
\* without reads in flight.
ASSUME CpuExecutorAssumption ==
    /\ ChunkCap \in Nat \ {0} /\ MaxInflight \in Nat \ {0} /\ Memory \in Nat
    /\ MaxBatches \in Nat /\ MaxRefs \in Nat \ {0}
    /\ \A p \in Plans :
          /\ Reads[p] # <<>>
          /\ \A i \in DOMAIN Reads[p] : Reads[p][i].chunks \in 1 .. ChunkCap

Slot == 0 .. 1
Wave == 0 .. 1
NoWave == -1

VARIABLES
    slots,           \* [state, plan, id, dispatched, remaining, bytes]; `plan`
                     \* is remembered after the plan has been destroyed
    waves,           \* [state, slot, count, sequence]
    io,              \* per wave: what has become of the reads of its event
    decoding,        \* the wave given to the decode thread, or NoWave
    decode_pending,
    decode_done,
    decode_ok,       \* whether every result of the decoded wave is OK
    stopping,
    committed,
    next_wave,
    dpc,             \* where the decode thread is
    pc,              \* where the scheduler thread is in cpu_step or cpu_stop
    refs,            \* batch id -> references consumers hold on it
    slotOf,          \* history: batch id -> the slot it was rendered in
    rendered         \* history: slot -> chunks assembled into its buffer

callVars == <<slots, waves, io, decoding, decode_pending, decode_done,
              decode_ok, stopping, committed, next_wave, dpc>>
vars == <<callVars, pc, refs, slotOf, rendered>>

FreeSlot == [state |-> "FREE", plan |-> 0, id |-> 0, dispatched |-> 0,
             remaining |-> 0, bytes |-> 0]
FreeWave == [state |-> "INPUT_FREE", slot |-> 0, count |-> 0, sequence |-> 0]

Init ==
    /\ slots = [s \in Slot |-> FreeSlot]
    /\ waves = [w \in Wave |-> FreeWave]
    /\ io = [w \in Wave |-> "none"]
    /\ decoding = NoWave
    /\ decode_pending = FALSE
    /\ decode_done = FALSE
    /\ decode_ok = TRUE
    /\ stopping = FALSE
    /\ committed = 0
    /\ next_wave = 0
    /\ dpc = "wait"
    /\ pc = "idle"
    /\ refs = <<>>
    /\ slotOf = <<>>
    /\ rendered = [s \in Slot |-> 0]

-----------------------------------------------------------------------------
(* Plans and reads.                                                        *)

\* Chunks and transfers of the reads from+1 .. to of a plan.
Chunks(p, from, to) ==
    MapThenSumSet(LAMBDA i : Reads[p][i].chunks, from + 1 .. to)
Transfers(p, from, to) ==
    Cardinality({i \in from + 1 .. to : Reads[p][i].transfers})
TotalChunks(p) == Chunks(p, 0, Len(Reads[p]))

\* cpu_read_plan_build: a read plan keeps `bytes` and needs as much again for
\* scratch while it is built.
PlanBytes(p) == TotalChunks(p)
PlanNeed(p) == 2 * PlanBytes(p)
Available == Memory - committed
ActivePlanBytes == slots[0].bytes + slots[1].bytes

\* cpu_dispatch packs reads while they fit the input buffer and the reader.
Fits(p, from, to) ==
    /\ Chunks(p, from, to) <= ChunkCap
    /\ Transfers(p, from, to) <= MaxInflight
LastFitting(p, from) ==
    Max({to \in from .. Len(Reads[p]) : Fits(p, from, to)})

-----------------------------------------------------------------------------
(* cpu_submit and cpu_take.                                                *)

FreeSlots == {s \in Slot : slots[s].state = "FREE"}
NextId == Cardinality(DOMAIN refs)
              + Cardinality({s \in Slot : slots[s].state \in {"RENDERING", "READY"}})

\* Mutant: the scratch memory of building the plan stays charged.
SubmitChargesScratch(p) ==
    /\ pc = "idle"
    /\ NextId < MaxBatches
    /\ FreeSlots # {}
    /\ PlanNeed(p) <= Available
    /\ LET s == Min(FreeSlots) IN
          /\ slots' = [slots EXCEPT ![s] =
                          [state |-> "RENDERING", plan |-> p, id |-> NextId,
                           dispatched |-> 0, remaining |-> TotalChunks(p),
                           bytes |-> PlanBytes(p)]]
          /\ rendered' = [rendered EXCEPT ![s] = 0]
    /\ committed' = committed + PlanNeed(p)
    /\ UNCHANGED <<waves, io, decoding, decode_pending, decode_done, decode_ok,
                   stopping, next_wave, dpc, pc, refs, slotOf>>

\* cpu_submit returns OK.  Its AGAIN (no slot is free, or the memory is with
\* other read plans) changes nothing.
Submit(p) ==
    /\ pc = "idle"
    /\ NextId < MaxBatches
    /\ FreeSlots # {}
    /\ PlanNeed(p) <= Available
    /\ LET s == Min(FreeSlots) IN
          /\ slots' = [slots EXCEPT ![s] =
                          [state |-> "RENDERING", plan |-> p, id |-> NextId,
                           dispatched |-> 0, remaining |-> TotalChunks(p),
                           bytes |-> PlanBytes(p)]]
          /\ rendered' = [rendered EXCEPT ![s] = 0]
    /\ committed' = committed + PlanBytes(p)
    /\ UNCHANGED <<waves, io, decoding, decode_pending, decode_done, decode_ok,
                   stopping, next_wave, dpc, pc, refs, slotOf>>

\* cpu_submit returns BUDGET: the plan would not fit on its own either.
SubmitBudget(p) ==
    /\ pc = "idle"
    /\ FreeSlots # {}
    /\ PlanNeed(p) > Available + ActivePlanBytes
    /\ pc' = "failed"
    /\ UNCHANGED <<callVars, refs, slotOf, rendered>>

\* cpu_submit rejects a chunk (its size or its codec), or is out of memory.
SubmitRejected ==
    /\ pc = "idle"
    /\ FreeSlots # {}
    /\ pc' = "failed"
    /\ UNCHANGED <<callVars, refs, slotOf, rendered>>

\* Mutant: the first slot, whichever batch it holds.
FirstSlot(S) == Min(S)

\* The slot that cpu_take and the dispatch look at first.
Oldest(S) == CHOOSE s \in S : \A t \in S : slots[s].id <= slots[t].id

\* cpu_take: the oldest batch that is rendering or ready, if it is ready.  It
\* changes nothing when it is not or when batch_create is out of memory.
Untaken == {s \in Slot : slots[s].state \in {"RENDERING", "READY"}}
Take ==
    /\ pc = "idle"
    /\ Untaken # {}
    /\ LET s == Oldest(Untaken) IN
          /\ slots[s].state = "READY"
          /\ slots' = [slots EXCEPT ![s].state = "HELD"]
          /\ refs' = (slots[s].id :> 1) @@ refs
          /\ slotOf' = (slots[s].id :> s) @@ slotOf
    /\ UNCHANGED <<waves, io, decoding, decode_pending, decode_done, decode_ok,
                   stopping, committed, next_wave, dpc, pc, rendered>>

\* damacy_batch_retain and damacy_batch_release, by any thread at any time.
Retain(id) ==
    /\ refs[id] \in 1 .. MaxRefs - 1
    /\ refs' = [refs EXCEPT ![id] = @ + 1]
    /\ UNCHANGED <<callVars, pc, slotOf, rendered>>

Release(id) ==
    /\ refs[id] > 0
    /\ refs' = [refs EXCEPT ![id] = @ - 1]
    /\ UNCHANGED <<callVars, pc, slotOf, rendered>>

\* Mutant: a slot is reused as soon as its batch has been taken.
BufferAlwaysAvailable(s) == TRUE

\* buffer_available: the executor's own reference is the last one.
BufferAvailable(s) ==
    \A id \in DOMAIN refs : slotOf[id] = s => refs[id] = 0

-----------------------------------------------------------------------------
(* cpu_step.                                                               *)

\* Mutant: what has been dispatched counts as rendered.
RemainingUndispatched(w) ==
    LET slot == slots[waves[w].slot] IN
        Chunks(slot.plan, slot.dispatched, Len(Reads[slot.plan]))

\* cpu_collect: what its batch still waits for when wave w has been decoded.
Remaining(w) == slots[waves[w].slot].remaining - waves[w].count

\* Nothing was decoded, ...
CollectNothing ==
    /\ pc = "idle"
    /\ decoding = NoWave \/ ~decode_done
    /\ pc' = "reclaim"
    /\ UNCHANGED <<callVars, refs, slotOf, rendered>>

\* ... a chunk failed, ...
CollectError ==
    /\ pc = "idle"
    /\ decoding # NoWave
    /\ decode_done
    /\ ~decode_ok
    /\ pc' = "failed"
    /\ UNCHANGED <<callVars, refs, slotOf, rendered>>

\* Mutant: a decoded wave is not given back.
CollectKeepsWave ==
    /\ pc = "idle"
    /\ decoding # NoWave
    /\ decode_done
    /\ decode_ok
    /\ LET s == waves[decoding].slot
           left == Remaining(decoding)
       IN  IF left = 0
           THEN /\ slots' = [slots EXCEPT ![s].remaining = 0,
                                          ![s].state = "READY",
                                          ![s].bytes = 0]
                /\ committed' = committed - slots[s].bytes
           ELSE /\ slots' = [slots EXCEPT ![s].remaining = left]
                /\ UNCHANGED committed
    /\ decoding' = NoWave
    /\ pc' = "reclaim"
    /\ UNCHANGED <<waves, io, decode_pending, decode_done, decode_ok,
                   stopping, next_wave, dpc, refs, slotOf, rendered>>

\* ... or a wave is done, and with the last one of a batch its read plan goes.
Collect ==
    /\ pc = "idle"
    /\ decoding # NoWave
    /\ decode_done
    /\ decode_ok
    /\ LET s == waves[decoding].slot
           left == Remaining(decoding)
       IN  IF left = 0
           THEN /\ slots' = [slots EXCEPT ![s].remaining = 0,
                                          ![s].state = "READY",
                                          ![s].bytes = 0]
                /\ committed' = committed - slots[s].bytes
           ELSE /\ slots' = [slots EXCEPT ![s].remaining = left]
                /\ UNCHANGED committed
    /\ waves' = [waves EXCEPT ![decoding].state = "INPUT_FREE"]
    /\ decoding' = NoWave
    /\ pc' = "reclaim"
    /\ UNCHANGED <<io, decode_pending, decode_done, decode_ok, stopping,
                   next_wave, dpc, refs, slotOf, rendered>>

\* A slot whose batch has been released is free again.
Reclaim ==
    /\ pc = "reclaim"
    /\ slots' = [s \in Slot |->
                    IF slots[s].state = "HELD" /\ BufferAvailable(s)
                    THEN [slots[s] EXCEPT !.state = "FREE"] ELSE slots[s]]
    /\ pc' = "dispatch0"
    /\ UNCHANGED <<waves, io, decoding, decode_pending, decode_done, decode_ok,
                   stopping, committed, next_wave, dpc, refs, slotOf, rendered>>

DispatchPc(w) == IF w = 0 THEN "dispatch0" ELSE "dispatch1"
AfterDispatch(w) == IF w = 0 THEN "dispatch1" ELSE "poll0"

Dispatchable ==
    {s \in Slot : /\ slots[s].state = "RENDERING"
                  /\ slots[s].dispatched < Len(Reads[slots[s].plan])}

\* The wave is in use, there is nothing to read, or the store says AGAIN.
DispatchNothing(w) ==
    /\ pc = DispatchPc(w)
    /\ pc' = AfterDispatch(w)
    /\ UNCHANGED <<callVars, refs, slotOf, rendered>>

\* cpu_dispatch: the next reads of the oldest batch are submitted.
Dispatch(w) ==
    /\ pc = DispatchPc(w)
    /\ waves[w].state = "INPUT_FREE"
    /\ Dispatchable # {}
    /\ LET s == Oldest(Dispatchable)
           from == slots[s].dispatched
           to == LastFitting(slots[s].plan, from)
       IN  /\ waves' = [waves EXCEPT ![w] =
                           [state |-> "READING", slot |-> s,
                            count |-> Chunks(slots[s].plan, from, to),
                            sequence |-> next_wave]]
           /\ slots' = [slots EXCEPT ![s].dispatched = to]
           /\ io' = [io EXCEPT ![w] = IF Transfers(slots[s].plan, from, to) > 0
                                      THEN "pending" ELSE "empty"]
    /\ next_wave' = next_wave + 1
    /\ pc' = AfterDispatch(w)
    /\ UNCHANGED <<decoding, decode_pending, decode_done, decode_ok, stopping,
                   committed, dpc, refs, slotOf, rendered>>

\* store_read_submit fails; nothing has been dispatched.
DispatchError(w) ==
    /\ pc = DispatchPc(w)
    /\ waves[w].state = "INPUT_FREE"
    /\ Dispatchable # {}
    /\ pc' = "failed"
    /\ UNCHANGED <<callVars, refs, slotOf, rendered>>

PollPc(w) == IF w = 0 THEN "poll0" ELSE "poll1"
AfterPoll(w) == IF w = 0 THEN "poll1" ELSE "decode"

\* store_event_query of a wave that reads.  The event is cleared once ready.
Poll(w) ==
    /\ pc = PollPc(w)
    /\ IF waves[w].state # "READING" \/ io[w] \in {"pending", "empty"}
       THEN /\ pc' = AfterPoll(w)
            /\ UNCHANGED <<waves, io>>
       ELSE /\ io' = [io EXCEPT ![w] = "none"]
            /\ IF io[w] = "failed"
               THEN pc' = "failed" /\ UNCHANGED waves
               ELSE /\ pc' = AfterPoll(w)
                    /\ waves' = [waves EXCEPT ![w].state = "READ_READY"]
    /\ UNCHANGED <<slots, decoding, decode_pending, decode_done, decode_ok,
                   stopping, committed, next_wave, dpc, refs, slotOf, rendered>>

\* The wave read first is decoded first, one at a time.
StartDecode ==
    /\ pc = "decode"
    /\ LET ready == {w \in Wave : waves[w].state = "READ_READY"} IN
          IF decoding = NoWave /\ ready # {}
          THEN \E w \in ready :
                  /\ \A v \in ready : waves[w].sequence <= waves[v].sequence
                  /\ waves' = [waves EXCEPT ![w].state = "DECODING"]
                  /\ decoding' = w
                  /\ decode_done' = FALSE
                  /\ decode_pending' = TRUE
          ELSE UNCHANGED <<waves, decoding, decode_done, decode_pending>>
    /\ pc' = "idle"
    /\ UNCHANGED <<slots, io, decode_ok, stopping, committed, next_wave, dpc,
                   refs, slotOf, rendered>>

-----------------------------------------------------------------------------
(* The other threads.                                                      *)

\* The store finishes the reads of a wave.  A submission without reads is only
\* behind the reads submitted before it and cannot fail.
IoDone(w) ==
    /\ io[w] \in {"pending", "empty"}
    /\ \E result \in IF io[w] = "pending" THEN {"ok", "failed"} ELSE {"ok"} :
          io' = [io EXCEPT ![w] = result]
    /\ UNCHANGED <<slots, waves, decoding, decode_pending, decode_done,
                   decode_ok, stopping, committed, next_wave, dpc, pc, refs,
                   slotOf, rendered>>

\* decode_main takes the wave it was given ...
DecodeBegin ==
    /\ dpc = "wait"
    /\ decode_pending
    /\ ~stopping
    /\ decode_pending' = FALSE
    /\ dpc' = "run"
    /\ UNCHANGED <<slots, waves, io, decoding, decode_done, decode_ok,
                   stopping, committed, next_wave, pc, refs, slotOf, rendered>>

\* ... and decodes and assembles its chunks; some may fail.
DecodeEnd ==
    /\ dpc = "run"
    /\ decode_done' = TRUE
    /\ dpc' = "wait"
    /\ \E good \in 0 .. waves[decoding].count :
          /\ decode_ok' = (good = waves[decoding].count)
          /\ rendered' = [rendered EXCEPT ![waves[decoding].slot] = @ + good]
    /\ UNCHANGED <<slots, waves, io, decoding, decode_pending, stopping,
                   committed, next_wave, pc, refs, slotOf>>

\* Mutant: the decode thread only leaves when nothing is pending.
DecodeExitWhenIdle ==
    /\ dpc = "wait"
    /\ stopping
    /\ ~decode_pending
    /\ dpc' = "exit"
    /\ UNCHANGED <<slots, waves, io, decoding, decode_pending, decode_done,
                   decode_ok, stopping, committed, next_wave, pc, refs, slotOf,
                   rendered>>

\* decode_main leaves, also when a wave is pending.
DecodeExit ==
    /\ dpc = "wait"
    /\ stopping
    /\ dpc' = "exit"
    /\ UNCHANGED <<slots, waves, io, decoding, decode_pending, decode_done,
                   decode_ok, stopping, committed, next_wave, pc, refs, slotOf,
                   rendered>>

-----------------------------------------------------------------------------
(* cpu_stop, called when the scheduler thread has left its last step.      *)

StopBegin ==
    /\ pc \in {"idle", "failed"}
    /\ stopping' = TRUE
    /\ pc' = "join"
    /\ UNCHANGED <<slots, waves, io, decoding, decode_pending, decode_done,
                   decode_ok, committed, next_wave, dpc, refs, slotOf, rendered>>

StopJoin ==
    /\ pc = "join"
    /\ dpc = "exit"
    /\ decoding' = NoWave
    /\ decode_pending' = FALSE
    /\ decode_done' = FALSE
    /\ stopping' = FALSE
    /\ pc' = "drain0"
    /\ UNCHANGED <<slots, waves, io, decode_ok, committed, next_wave, dpc,
                   refs, slotOf, rendered>>

DrainPc(w) == IF w = 0 THEN "drain0" ELSE "drain1"

\* Mutant: the buffer is freed without waiting for the reads.
StopWithoutDrain(w) ==
    /\ pc = DrainPc(w)
    /\ waves' = [waves EXCEPT ![w] = FreeWave]
    /\ pc' = IF w = 0 THEN "drain1" ELSE "release"
    /\ UNCHANGED <<slots, io, decoding, decode_pending, decode_done, decode_ok,
                   stopping, committed, next_wave, dpc, refs, slotOf, rendered>>

\* The input buffer of a wave is freed once its reads are over; an event
\* without reads is not waited for.
StopDrain(w) ==
    /\ pc = DrainPc(w)
    /\ io[w] # "pending"
    /\ io' = [io EXCEPT ![w] = "none"]
    /\ waves' = [waves EXCEPT ![w] = FreeWave]
    /\ pc' = IF w = 0 THEN "drain1" ELSE "release"
    /\ UNCHANGED <<slots, decoding, decode_pending, decode_done, decode_ok,
                   stopping, committed, next_wave, dpc, refs, slotOf, rendered>>

StopRelease ==
    /\ pc = "release"
    /\ slots' = [s \in Slot |-> FreeSlot]
    /\ committed' = 0
    /\ next_wave' = 0
    /\ pc' = "stopped"
    /\ UNCHANGED <<waves, io, decoding, decode_pending, decode_done, decode_ok,
                   stopping, dpc, refs, slotOf, rendered>>

-----------------------------------------------------------------------------
StepAct == \/ CollectNothing
           \/ CollectError
           \/ Collect
           \/ Reclaim
           \/ \E w \in Wave : DispatchNothing(w) \/ Dispatch(w) \/ DispatchError(w)
           \/ \E w \in Wave : Poll(w)
           \/ StartDecode

DecodeThread == DecodeBegin \/ DecodeEnd \/ DecodeExit

StopAct == \/ StopJoin
           \/ \E w \in Wave : StopDrain(w)
           \/ StopRelease

Done == pc = "stopped" /\ UNCHANGED vars

Next == \/ \E p \in Plans : Submit(p) \/ SubmitBudget(p)
        \/ SubmitRejected
        \/ Take
        \/ \E id \in DOMAIN refs : Retain(id) \/ Release(id)
        \/ StepAct
        \/ \E w \in Wave : IoDone(w)
        \/ DecodeThread
        \/ StopBegin
        \/ StopAct
        \/ Done

Spec == Init /\ [][Next]_vars

(* The scheduler thread keeps calling cpu_step, the decode thread runs,    *)
(* reads complete, cpu_stop goes on once called, and the store does not    *)
(* answer AGAIN for ever.                                                  *)
Fairness ==
    /\ WF_vars(StepAct)
    /\ WF_vars(DecodeThread)
    /\ WF_vars(StopAct)
    /\ \A w \in Wave : WF_vars(IoDone(w)) /\ SF_vars(Dispatch(w))

FairSpec == Spec /\ Fairness

-----------------------------------------------------------------------------
(* Properties.                                                             *)

WavesOf(s) == {w \in Wave : waves[w].state # "INPUT_FREE" /\ waves[w].slot = s}

\* A batch becomes ready, and is handed out, with every chunk of its plan
\* decoded and assembled, and nothing more is written to its buffer.
ReadyIsComplete ==
    \A s \in Slot : slots[s].state \in {"READY", "HELD"} =>
        /\ rendered[s] = TotalChunks(slots[s].plan)
        /\ WavesOf(s) = {}

\* While the decode thread runs it owns its wave: `decoding` still names it,
\* the scheduler thread has not reused it, and the batch it assembles into,
\* whose plan it reads, has not been completed or freed under it.  The store
\* writes only into the input buffer of a wave that is reading: neither
\* cpu_dispatch nor cpu_stop reuses or frees one under it.
ThreadsOwnTheirBuffers ==
    /\ dpc = "run" =>
          /\ decoding # NoWave
          /\ ~decode_done
          /\ waves[decoding].state = "DECODING"
          /\ slots[waves[decoding].slot].state = "RENDERING"
    /\ \A w \in Wave : io[w] # "none" => waves[w].state = "READING"

\* "The buffer is reusable after the last consumer releases it" (damacy.h): as
\* long as anybody holds a batch, the slot it was rendered in stays HELD for
\* that batch.
HeldBufferUntouched ==
    pc # "stopped" =>
        \A id \in DOMAIN refs : refs[id] > 0 =>
            /\ slots[slotOf[id]].state = "HELD"
            /\ slots[slotOf[id]].id = id

\* Read plans are charged once and given back once, so the memory limit holds.
MemoryAccounted == committed = ActivePlanBytes

\* Every batch that was accepted gets rendered, unless the executor fails or
\* is stopped.
EveryBatchRendered ==
    \A s \in Slot :
        slots[s].state = "RENDERING" ~>
            \/ slots[s].state # "RENDERING"
            \/ pc \in {"failed", "join"}

\* cpu_stop returns: the decode thread leaves although it may be in the middle
\* of a wave, and outstanding reads end.
StopReturns == pc = "join" ~> pc = "stopped"

-----------------------------------------------------------------------------
\* The executor the pipeline was modelled with, and the CPU executor as one.
Inflight ==
    LET order == SetToSortSeq(Untaken, LAMBDA s, t : slots[s].id < slots[t].id) IN
        [i \in DOMAIN order |-> [id |-> slots[order[i]].id,
                                 plan |-> slots[order[i]].plan,
                                 ready |-> slots[order[i]].state = "READY"]]
Held == {slots[s].id : s \in {t \in Slot : slots[t].state = "HELD"}}

E == INSTANCE ExecutorContract WITH
        Slots <- 2, inflight <- Inflight, held <- Held, execUp <- pc # "stopped"

\* The CPU executor keeps the contract that damacy_scheduler_step and
\* damacy_pop rely on: it accepts a plan only into a free slot, hands batches
\* out in the order of their ids whatever order their waves finish in, and
\* frees a slot only when its batch is released.
ImplementsExecutor == E!ExecutorSpec
=============================================================================
