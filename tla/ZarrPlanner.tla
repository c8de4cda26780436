---------------------------- MODULE ZarrPlanner ----------------------------
(***************************************************************************)
(* The planner of pipeline/zarr_planner.c on top of the prefetcher: next   *)
(* stages the samples the prefetcher has made ready, in push order, builds *)
(* the plan of a full batch from the cached metadata, then lets go of it   *)
(* by moving the watermark; stop tears everything down.                    *)
(*                                                                         *)
(* push and next are called one at a time (the pipeline's lock), and not   *)
(* any more once next has failed or stop has been called; the worker and   *)
(* the metadata reader run beside them.  This is what Planner abstracts.   *)
(***************************************************************************)
EXTENDS Prefetcher

CONSTANT SamplesPerBatch

\* The floors zarr_start demands of the caches.
MaxShards == Max({Len(ShardsOf[q]) : q \in Samples} \union {1})
ASSUME ZarrAssumption ==
    /\ SamplesPerBatch \in 1 .. Lookahead
    /\ ArrayEntries >= Lookahead + SamplesPerBatch
    /\ ShardEntries >= (Lookahead + SamplesPerBatch) * MaxShards

VARIABLES
    staged,    \* the samples of the next batch: [seq, meta, shards]
    planned,   \* samples counted as planned
    mark,      \* zarr_planner.watermark
    next,      \* "idle", or how far next is after the plan was built
    failed,    \* next has returned an error
    teardown   \* how far stop is

planVars == <<staged, planned, mark, next, failed, teardown>>
vars == <<prefetcherVars, planVars>>

Init ==
    /\ PrefetcherInit
    /\ staged = <<>>
    /\ planned = 0
    /\ mark = 0
    /\ next = "idle"
    /\ failed = FALSE
    /\ teardown = "up"

MayCall == next = "idle" /\ ~failed /\ teardown = "up"

\* zarr_push of one sample.
ZarrPush ==
    /\ MayCall
    /\ Push
    /\ UNCHANGED planVars

\* The loop of zarr_next: a ready sample is staged.
NextStage ==
    /\ MayCall
    /\ Len(staged) < SamplesPerBatch
    /\ \E i \in SlotIds :
        /\ PopReady(i)
        /\ slots[i].state = "ready"
        /\ staged' = Append(staged, [seq |-> slots[i].seq, meta |-> slots[i].meta,
                                     shards |-> slots[i].shards])
        /\ mark' = slots[i].seq + 1
    /\ UNCHANGED <<planned, next, failed, teardown>>

\* A failed sample is dropped and its status returned; the pipeline takes
\* DAMACY_AGAIN for "not yet".
NextDrop ==
    /\ MayCall
    /\ Len(staged) < SamplesPerBatch
    /\ \E i \in SlotIds :
        /\ PopReady(i)
        /\ slots[i].state = "error"
        /\ failed' = (slots[i].err # "again")
    /\ UNCHANGED <<staged, planned, mark, next, teardown>>

\* What prepared_plan_build makes of the handles of a sample.
Waiting(p) ==
    \/ Arrays!Query(p.meta) = "pending"
    \/ \E n \in DOMAIN p.shards : Shards!Query(p.shards[n]) = "pending"
Broken(p) ==
    \/ Arrays!Query(p.meta) = "error"
    \/ \E n \in DOMAIN p.shards : ShardFailed(p.shards[n])

\* A full batch whose metadata is all there is built; building may also fail
\* for reasons of its own (rank, dtype, limits, memory).
NextBuild ==
    /\ MayCall
    /\ Len(staged) = SamplesPerBatch
    /\ \A n \in DOMAIN staged : ~Waiting(staged[n])
    /\ failed' \in {TRUE} \union {\E n \in DOMAIN staged : Broken(staged[n])}
    /\ planned' = planned + Len(staged)
    /\ staged' = <<>>
    /\ next' = "arrays"
    /\ UNCHANGED <<prefetcherVars, mark, teardown>>

\* Mutant of NextMarkArrays: the mark passes one sample too many.
MarkArraysPastNext ==
    /\ next = "arrays"
    /\ AdvanceArrays(mark + 1)
    /\ next' = "shards"
    /\ UNCHANGED <<staged, planned, mark, failed, teardown>>

\* prefetcher_advance_watermark
NextMarkArrays ==
    /\ next = "arrays"
    /\ AdvanceArrays(mark)
    /\ next' = "shards"
    /\ UNCHANGED <<staged, planned, mark, failed, teardown>>

NextMarkShards ==
    /\ next = "shards"
    /\ AdvanceShards(mark)
    /\ next' = "idle"
    /\ UNCHANGED <<staged, planned, mark, failed, teardown>>

-----------------------------------------------------------------------------
(* zarr_stop: stop the prefetcher's worker and join it, let the metadata   *)
(* reader finish what it has, then free the prefetcher, the shard cache    *)
(* and the array cache.                                                    *)

TearDown(from, to) ==
    /\ teardown = from
    /\ teardown' = to
    /\ UNCHANGED <<planned, mark, next, failed>>

ZarrStop ==
    /\ next = "idle"
    /\ TearDown("up", "flagged")
    /\ StopFlag
    /\ UNCHANGED staged

StopWakes ==
    /\ TearDown("flagged", "signaled")
    /\ StopSignal
    /\ UNCHANGED staged

StopJoins ==
    /\ TearDown("signaled", "joined")
    /\ At("exited")
    /\ UNCHANGED <<prefetcherVars, staged>>

\* metadata_store_async_destroy returns when every operation has called back.
StopReader ==
    /\ TearDown("joined", "drained")
    /\ aFetching \union sFetching = {}
    /\ UNCHANGED <<prefetcherVars, staged>>

\* prefetcher_destroy: the slots and the owner entries, with their gates, go.
StopPrefetcher ==
    /\ TearDown("drained", "prefetcher_gone")
    /\ slots' = [i \in SlotIds |-> FreeSlot]
    /\ owners' = <<>>
    /\ stalled' = NoSample
    /\ UNCHANGED <<pushed, queue, stop, stop_signaled, in_transit, worker, consumed, gates,
                   arrayVars, shardVars, staged>>

\* prefetch_cache_destroy of the shards, then of the arrays.
StopShards ==
    /\ TearDown("prefetcher_gone", "shards_gone")
    /\ Shards!Destroy
    /\ UNCHANGED <<tableVars, arrayVars, staged>>
StopArrays ==
    /\ TearDown("shards_gone", "arrays_gone")
    /\ Arrays!Destroy
    /\ UNCHANGED <<tableVars, shardVars, staged>>

\* lookahead_destroy and clear_samples
StopFrees ==
    /\ TearDown("arrays_gone", "freed")
    /\ queue' = <<>>
    /\ staged' = <<>>
    /\ UNCHANGED <<pushed, stop, stop_signaled, slots, owners, stalled, in_transit, worker,
                   consumed, gates, arrayVars, shardVars>>

ZarrNext == NextStage \/ NextDrop \/ NextBuild \/ NextMarkArrays \/ NextMarkShards
Stopping ==
    \/ StopWakes \/ StopJoins \/ StopReader
    \/ StopPrefetcher \/ StopShards \/ StopArrays \/ StopFrees
GatesFreed == teardown \in {"prefetcher_gone", "shards_gone", "arrays_gone", "freed"}

Next ==
    \/ ZarrPush
    \/ ZarrNext
    \/ ZarrStop
    \/ Stopping
    \/ WorkerStep /\ UNCHANGED planVars
    \/ \E c \in aFetching : ArrayDone(c) /\ UNCHANGED planVars
    \/ \E c \in sFetching : ShardDone(c) /\ UNCHANGED planVars

\* The worker thread runs, what the reader was given completes, the scheduler
\* keeps calling next, and stop goes on once it has begun.  next needs the lock
\* that the worker takes again and again, but sleeps or waits without: a thread
\* that waits for it gets it in the end, hence strong fairness.
Fairness ==
    /\ WF_vars(WorkerStep /\ UNCHANGED planVars)
    /\ \A i \in 1 .. ArrayEntries, g \in 0 .. GenMod - 1 :
         WF_vars(ArrayDone([slot |-> i, generation |-> g]) /\ UNCHANGED planVars)
    /\ \A i \in 1 .. ShardEntries, g \in 0 .. GenMod - 1 :
         WF_vars(ShardDone([slot |-> i, generation |-> g]) /\ UNCHANGED planVars)
    /\ SF_vars(ZarrNext)
    /\ WF_vars(Stopping)

Spec == Init /\ [][Next]_vars
LiveSpec == Spec /\ Fairness

-----------------------------------------------------------------------------
\* The plan is built from handles whose entries are still there: however
\* entries were evicted and indices reused while the batch filled up, each
\* staged handle finds its own array, ready, and its own shards, ready or
\* missing.  So building neither waits nor fails for the sake of a handle.
StagedResolved ==
    ~GatesFreed => \A n \in DOMAIN staged : LET p == staged[n] IN
        /\ Arrays!Resolves(p.meta)
        /\ aActive[p.meta.slot].key = ArrayOf[p.seq]
        /\ Len(p.shards) = Len(ShardsOf[p.seq])
        /\ \A m \in DOMAIN p.shards :
             /\ Shards!Resolves(p.shards[m])
             /\ sActive[p.shards[m].slot].key = ShardsOf[p.seq][m]
        /\ ~Waiting(p)
        /\ ~Broken(p)

\* shard_index_async_start finds the array's metadata in the other cache,
\* though it holds no handle to it: its "array meta not ready" never happens.
ShardFetchFindsArray ==
    \A c \in sStarting : Arrays!Peek(ShardArray[sActive[c.slot].key])

\* Samples taken from the prefetcher and not given to a plan: they failed.
Lost == consumed - planned - Len(staged)

\* At the floors zarr_start demands, and with probe ranges that are not the
\* limit, no request is refused for saturation (prefetch_cache.h: "saturation should
\* not occur under a validated config") unless samples have failed before.
NoSaturation ==
    Lost = 0 /\ MaxProbe >= ArrayEntries /\ MaxProbe >= ShardEntries =>
        /\ At("admit") => \/ Arrays!IndexOf(ArrayOf[worker.popped]) # {}
                          \/ Cardinality(Arrays!Pinned) < Arrays!Crowd
        /\ Advancing("meta") /\ Cur.coords /\ Len(Cur.shards) < Len(ShardsOf[Cur.seq]) =>
             \/ Shards!IndexOf(ShardsOf[Cur.seq][Len(Cur.shards) + 1]) # {}
             \/ Cardinality(Shards!Pinned) < Shards!Crowd

\* Owner entries outlive their sample's slot while a fetch still counts in
\* their gate; the slack of the table covers as many failed samples.
OwnersSuffice == At("admit") /\ Lost <= OwnerSlack => ~OwnerFull(worker.popped)

\* A gate outlives its waiters.  One that some cache entry will still release
\* belongs to an owner entry in use, so it is not the gate of another sample
\* ("would alias it"); and when stop frees the prefetcher and with it the
\* gates, no cache entry and no fetch will release one any more.
GatesOutliveWaiters ==
    IF GatesFreed
    THEN /\ \A i \in Arrays!Live : aActive[i].n_waiters = 0
         /\ \A i \in Shards!Live : sActive[i].n_waiters = 0
         /\ aStarting \union aFetching \union sStarting \union sFetching = {}
    ELSE \A q \in Samples : gates[q].pending > 0 => q \in DOMAIN owners

\* This is a planner as the pipeline knows it: samples in push order, each in
\* at most one plan, under the lookahead limit.
Abstract == INSTANCE Planner WITH
    MaxLost <- MaxPushed,
    staged <- [n \in DOMAIN staged |-> staged[n].seq],
    plannerUp <- teardown # "freed"
ImplementsPlanner == Abstract!PlannerSpec

\* Every sample pushed is staged or reported as failed, unless the planner has
\* failed or is being stopped.
SamplesLeave ==
    \A q \in Samples :
        pushed > q ~> consumed > q \/ failed \/ teardown # "up" \/ Lost > 0

\* stop returns, whatever the worker was waiting for.
TeardownReturns == teardown = "flagged" ~> teardown = "freed"
=============================================================================
