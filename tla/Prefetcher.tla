----------------------------- MODULE Prefetcher -----------------------------
(***************************************************************************)
(* The prefetcher of prefetch/prefetcher.c with the queue it is fed from   *)
(* (lookahead/lookahead.c) and the two caches it works on (instances of    *)
(* PrefetchCache): one worker thread takes samples from the queue, asks    *)
(* for their array metadata, then for their shard indexes, and marks them  *)
(* ready or failed in a table of slots.                                    *)
(*                                                                         *)
(* A sample is its sequence number.  The worker holds the prefetcher's     *)
(* lock while it advances the slots and while it admits a sample; each     *)
(* query or request of a cache in between is a step, because fetches       *)
(* complete, and the planner moves the watermark, under the cache's own    *)
(* lock.  The planner passes no chunk_layout cache, so that state is left  *)
(* out.                                                                    *)
(***************************************************************************)
EXTENDS Integers, Sequences, FiniteSets, SequencesExt

CONSTANTS
    Lookahead,      \* slots of the table, and capacity of the queue
    MaxPushed,      \* bound of the model: samples pushed in a behaviour
    OwnerSlack,     \* 4 in zarr_start: owners beyond the slots
    ArrayKeys,      \* the arrays samples are taken from
    ShardKeys,      \* their shards
    ArrayOf,        \* the array of each sample
    ShardsOf,       \* the shards each sample intersects, in order
    ShardArray,     \* the array of each shard
    ArrayEntries,   \* capacity of the array metadata cache
    ShardEntries,   \* capacity of the shard index cache
    MaxProbe,       \* 16 in zarr_start
    GenMod          \* 2^32

Samples == 0 .. MaxPushed - 1
NoSample == -1

\* What the code tells apart: DAMACY_AGAIN, DAMACY_NOTFOUND, any other status.
Errors == {"again", "notfound", "fail"}

ASSUME PrefetcherAssumption ==
    /\ Lookahead \in Nat \ {0}
    /\ OwnerSlack \in Nat
    /\ ArrayOf \in [Samples -> ArrayKeys]
    /\ \A q \in Samples : ToSet(ShardsOf[q]) \subseteq {k \in ShardKeys : ShardArray[k] = ArrayOf[q]}

VARIABLES
    pushed,         \* samples pushed: the sequence number of the next one
    queue,          \* the lookahead ring: samples pushed, not yet taken
    stop,           \* the prefetcher's stop flag
    stop_signaled,  \* the lookahead's
    slots,          \* the table of samples being prefetched
    owners,         \* owner entries in use: refcount by sample
    stalled,        \* the sample whose admission is retried, or NoSample
    in_transit,     \* samples taken from the queue and not yet admitted
    worker,         \* where the worker is
    consumed,       \* next_consume_seq
    gates,          \* the gates of the owner entries
    aActive, aFree, aGen, aWm, aCounts, aStarting, aFetching, aHeld,
    sActive, sFree, sGen, sWm, sCounts, sStarting, sFetching, sHeld

Arrays == INSTANCE PrefetchCache WITH
    Keys <- ArrayKeys, Owners <- Samples, Capacity <- ArrayEntries,
    StartError <- "again", active <- aActive, free_list <- aFree, generation <- aGen,
    watermark <- aWm, counts <- aCounts, starting <- aStarting,
    fetching <- aFetching, held <- aHeld

Shards == INSTANCE PrefetchCache WITH
    Keys <- ShardKeys, Owners <- Samples, Capacity <- ShardEntries,
    StartError <- "again", active <- sActive, free_list <- sFree, generation <- sGen,
    watermark <- sWm, counts <- sCounts, starting <- sStarting,
    fetching <- sFetching, held <- sHeld

arrayVars == <<aActive, aFree, aGen, aWm, aCounts, aStarting, aFetching, aHeld>>
shardVars == <<sActive, sFree, sGen, sWm, sCounts, sStarting, sFetching, sHeld>>
tableVars == <<pushed, queue, stop, stop_signaled, slots, owners, stalled, in_transit,
               worker, consumed>>
prefetcherVars == <<tableVars, gates, arrayVars, shardVars>>

SlotIds == 1 .. Lookahead
FreeSlot == [state |-> "free", seq |-> NoSample, err |-> "none",
             meta |-> [slot |-> 0, generation |-> 0], shards |-> <<>>, coords |-> FALSE]

PrefetcherInit ==
    /\ pushed = 0
    /\ queue = <<>>
    /\ stop = FALSE
    /\ stop_signaled = FALSE
    /\ slots = [i \in SlotIds |-> FreeSlot]
    /\ owners = <<>>
    /\ stalled = NoSample
    /\ in_transit = 0
    /\ worker = [pc |-> "top", i |-> 0, slot |-> 0, popped |-> NoSample, timed |-> FALSE]
    /\ consumed = 0
    /\ gates = [o \in Samples |-> [pending |-> 0, error |-> FALSE]]
    /\ Arrays!CacheInit
    /\ Shards!CacheInit

\* slot_active, slot_terminal
IsActive(s) == s.state \in {"meta", "shards"}
IsTerminal(s) == s.state \in {"ready", "error"}

\* The worker is inside a start call of a request it just made, or holds the
\* prefetcher's lock for the slots.
Starting == aStarting \union sStarting # {}
Locked == worker.pc = "advance" \/ Starting

At(pc) == worker.pc = pc /\ ~Starting
Goto(pc) == worker' = [worker EXCEPT !.pc = pc]

\* The first active slot at i or after it, as advance_all comes to it.
ActiveFrom(i) ==
    LET js == {j \in i .. Lookahead : IsActive(slots[j])}
    IN  IF js = {} THEN Lookahead + 1 ELSE Min(js)
NextSlot == worker' = [worker EXCEPT !.i = ActiveFrom(@ + 1)]

-----------------------------------------------------------------------------
(* Owner entries: the domain of owners is the set in use.                  *)

OwnerCapacity == Lookahead + OwnerSlack
OwnerFull(q) == q \notin DOMAIN owners /\ Cardinality(DOMAIN owners) = OwnerCapacity
OwnerRef(q) == [o \in DOMAIN owners \union {q} |->
                  IF o = q THEN (IF q \in DOMAIN owners THEN owners[q] ELSE 0) + 1
                  ELSE owners[o]]

\* owner_sweep_locked: entries without a reference whose gate no cache entry
\* will touch again are free.
Swept(os) == Restrict(os, {o \in DOMAIN os : os[o] > 0 \/ gates[o].pending > 0})

\* Mutant of OwnerUnref: the entry is freed though its gate is pending.
OwnerFreedAtOnce(os, q) == Restrict(os, DOMAIN os \ {q})

\* owner_unref_locked: drop a reference, then try to free that entry.
OwnerUnref(os, q) ==
    IF q \notin DOMAIN os THEN os
    ELSE IF os[q] <= 1 /\ gates[q].pending = 0 THEN Restrict(os, DOMAIN os \ {q})
    ELSE [os EXCEPT ![q] = IF @ > 0 THEN @ - 1 ELSE @]

-----------------------------------------------------------------------------
inputVars == <<pushed, queue, stop, stop_signaled, in_transit, stalled, consumed>>

\* The loop of worker_fn: stop, or lock and look at the first slot.
WorkerTop ==
    /\ At("top")
    /\ worker' = IF stop THEN [worker EXCEPT !.pc = "exited"]
                 ELSE [worker EXCEPT !.pc = "advance", !.i = ActiveFrom(1)]
    /\ UNCHANGED <<inputVars, slots, owners, gates, arrayVars, shardVars>>

Cur == slots[worker.i]
Advancing(state) == At("advance") /\ worker.i <= Lookahead /\ Cur.state = state
SetSlot(s) == slots' = [slots EXCEPT ![worker.i] = s]

\* slot_fail, which also marks the owner's gate.
Fail(err) ==
    /\ SetSlot([Cur EXCEPT !.state = "error", !.err = err])
    /\ gates' = [gates EXCEPT ![Cur.seq].error = TRUE]
    /\ NextSlot

\* advance_from_meta before the shards are enumerated: the metadata is still
\* pending, has failed, or leads to the list of shards.  That list may be
\* empty, and making it may fail (bounds, the per-sample cap, memory).
MetaWait ==
    /\ Advancing("meta")
    /\ ~Cur.coords
    /\ Arrays!Query(Cur.meta) = "pending"
    /\ NextSlot
    /\ UNCHANGED <<inputVars, slots, owners, gates, arrayVars, shardVars>>

MetaFailed ==
    /\ Advancing("meta")
    /\ ~Cur.coords
    /\ \/ /\ Arrays!Query(Cur.meta) = "error"
          /\ Fail(aActive[Cur.meta.slot].err)
       \/ /\ Arrays!Query(Cur.meta) = "ready"
          /\ Fail("fail")
    /\ UNCHANGED <<inputVars, owners, arrayVars, shardVars>>

\* Mutant of MetaReady: the metadata is not awaited.
MetaNotAwaited ==
    /\ Advancing("meta")
    /\ ~Cur.coords
    /\ SetSlot([Cur EXCEPT !.coords = TRUE])
    /\ UNCHANGED <<worker, inputVars, owners, gates, arrayVars, shardVars>>

MetaReady ==
    /\ Advancing("meta")
    /\ ~Cur.coords
    /\ Arrays!Query(Cur.meta) = "ready"
    /\ IF ShardsOf[Cur.seq] = <<>>
       THEN /\ SetSlot([Cur EXCEPT !.state = "ready"])
            /\ NextSlot
       ELSE /\ SetSlot([Cur EXCEPT !.coords = TRUE])
            /\ UNCHANGED worker
    /\ UNCHANGED <<inputVars, owners, gates, arrayVars, shardVars>>

\* One round of request_remaining_shards: the next shard is requested, and its
\* handle kept.
RequestShard ==
    /\ Advancing("meta")
    /\ Cur.coords
    /\ Len(Cur.shards) < Len(ShardsOf[Cur.seq])
    /\ LET k == ShardsOf[Cur.seq][Len(Cur.shards) + 1] IN
          /\ Shards!RequestHit(Cur.seq, k) \/ Shards!RequestMiss(Cur.seq, k)
          /\ \E h \in sHeld'[Cur.seq] \ sHeld[Cur.seq] :
                SetSlot([Cur EXCEPT !.shards = Append(@, [slot |-> h.slot, generation |-> h.generation])])
    /\ UNCHANGED <<inputVars, worker, owners, arrayVars>>

\* The cache is saturated: the slot stays as it is and resumes at this shard
\* on the next round.
RequestShardAgain ==
    /\ Advancing("meta")
    /\ Cur.coords
    /\ Len(Cur.shards) < Len(ShardsOf[Cur.seq])
    /\ Shards!RequestSaturated(Cur.seq, ShardsOf[Cur.seq][Len(Cur.shards) + 1])
    /\ NextSlot
    /\ UNCHANGED <<inputVars, slots, owners, arrayVars>>

\* An allocation of the request fails, and with it the sample.
RequestShardOom ==
    /\ Advancing("meta")
    /\ Cur.coords
    /\ Len(Cur.shards) < Len(ShardsOf[Cur.seq])
    /\ Shards!RequestOom(Cur.seq, ShardsOf[Cur.seq][Len(Cur.shards) + 1])
    /\ Fail("fail")
    /\ UNCHANGED <<inputVars, owners, arrayVars>>

ShardsRequested ==
    /\ Advancing("meta")
    /\ Cur.coords
    /\ Len(Cur.shards) = Len(ShardsOf[Cur.seq])
    /\ SetSlot([Cur EXCEPT !.state = "shards"])
    /\ NextSlot
    /\ UNCHANGED <<inputVars, owners, gates, arrayVars, shardVars>>

\* advance_from_shard: the first shard that is pending makes the slot wait, the
\* first that failed makes it fail; a shard that does not exist is no failure.
ShardFailed(h) == Shards!Query(h) = "error" /\ sActive[h.slot].err # "notfound"
FirstStop(hs) ==
    LET stops == {n \in DOMAIN hs : Shards!Query(hs[n]) = "pending" \/ ShardFailed(hs[n])}
    IN  IF stops = {} THEN 0 ELSE Min(stops)

AdvanceFromShard ==
    /\ Advancing("shards")
    /\ LET n == FirstStop(Cur.shards) IN
          \/ /\ n = 0
             /\ SetSlot([Cur EXCEPT !.state = "ready"])
             /\ NextSlot
             /\ UNCHANGED gates
          \/ /\ n # 0 /\ Shards!Query(Cur.shards[n]) = "pending"
             /\ NextSlot
             /\ UNCHANGED <<slots, gates>>
          \/ /\ n # 0 /\ ShardFailed(Cur.shards[n])
             /\ Fail(sActive[Cur.shards[n].slot].err)
    /\ UNCHANGED <<inputVars, owners, arrayVars, shardVars>>

\* After the last slot: owner_sweep_locked, scan_slots_locked, unlock.
FreeSlots == {i \in SlotIds : slots[i].state = "free"}
SweepAndScan ==
    /\ At("advance")
    /\ worker.i > Lookahead
    /\ owners' = Swept(owners)
    /\ worker' = [worker EXCEPT
          !.pc = "take",
          !.slot = IF FreeSlots = {} THEN 0 ELSE Min(FreeSlots),
          !.timed = \E i \in SlotIds : IsActive(slots[i])]
    /\ UNCHANGED <<inputVars, slots, gates, arrayVars, shardVars>>

-----------------------------------------------------------------------------
\* A free slot was seen: replay a stalled sample, or count one in transit and
\* take it off the queue, or wait for one.  No free slot: sleep and look again.
TakeStalled ==
    /\ At("take")
    /\ worker.slot # 0
    /\ stalled # NoSample
    /\ worker' = [worker EXCEPT !.pc = "admit", !.popped = stalled]
    /\ UNCHANGED <<inputVars, slots, owners, gates, arrayVars, shardVars>>

TakeCount ==
    /\ At("take")
    /\ worker.slot # 0
    /\ stalled = NoSample
    /\ queue # <<>>
    /\ in_transit' = in_transit + 1
    /\ Goto("pop")
    /\ UNCHANGED <<pushed, queue, stop, stop_signaled, stalled, consumed, slots, owners,
                   gates, arrayVars, shardVars>>

\* lookahead_try_pop; nobody else pops, so the sample is still there.
TakePop ==
    /\ At("pop")
    /\ queue # <<>>
    /\ worker' = [worker EXCEPT !.pc = "admit", !.popped = Head(queue)]
    /\ queue' = Tail(queue)
    /\ UNCHANGED <<pushed, stop, stop_signaled, in_transit, stalled, consumed, slots,
                   owners, gates, arrayVars, shardVars>>

TakeNone ==
    /\ At("take")
    /\ IF worker.slot = 0 THEN Goto("top")
       ELSE stalled = NoSample /\ queue = <<>> /\ Goto("wait")
    /\ UNCHANGED <<inputVars, slots, owners, gates, arrayVars, shardVars>>

\* Mutant of WaitEnds: the wait has no timeout while slots are active.
WaitForPush ==
    /\ At("wait")
    /\ queue # <<>> \/ stop_signaled
    /\ Goto("top")
    /\ UNCHANGED <<inputVars, slots, owners, gates, arrayVars, shardVars>>

\* lookahead_wait_nonempty_timeout: without a timeout only a push or the stop
\* ends the wait.
WaitEnds ==
    /\ At("wait")
    /\ queue # <<>> \/ stop_signaled \/ worker.timed
    /\ Goto("top")
    /\ UNCHANGED <<inputVars, slots, owners, gates, arrayVars, shardVars>>

AdmitDone(s) ==
    /\ slots' = [slots EXCEPT ![worker.slot] = s]
    /\ Goto("settle")
    /\ UNCHANGED inputVars

NewSlot == [FreeSlot EXCEPT !.seq = worker.popped]

\* admit_locked: the sample gets an owner entry and its metadata is requested.
Admit ==
    /\ At("admit")
    /\ ~OwnerFull(worker.popped)
    /\ LET q == worker.popped IN
          /\ Arrays!RequestHit(q, ArrayOf[q]) \/ Arrays!RequestMiss(q, ArrayOf[q])
          /\ owners' = OwnerRef(q)
          /\ \E h \in aHeld'[q] :
                AdmitDone([NewSlot EXCEPT !.state = "meta",
                               !.meta = [slot |-> h.slot, generation |-> h.generation]])
    /\ UNCHANGED shardVars

\* The cache is saturated: the owner entry is given back and the sample held
\* for the next round.
AdmitAgain ==
    /\ At("admit")
    /\ ~OwnerFull(worker.popped)
    /\ Arrays!RequestSaturated(worker.popped, ArrayOf[worker.popped])
    /\ stalled' = worker.popped
    /\ worker' = [worker EXCEPT !.pc = "top", !.popped = NoSample]
    /\ UNCHANGED <<pushed, queue, stop, stop_signaled, in_transit, consumed, slots,
                   owners, shardVars>>

\* An allocation of the request fails (the error slot keeps the owner entry),
\* or there is no owner entry left (the error slot has none).
AdmitError ==
    /\ At("admit")
    /\ AdmitDone([NewSlot EXCEPT !.state = "error", !.err = "fail"])
    /\ LET q == worker.popped IN
          \/ /\ OwnerFull(q)
             /\ UNCHANGED <<owners, gates, arrayVars>>
          \/ /\ ~OwnerFull(q)
             /\ Arrays!RequestOom(q, ArrayOf[q])
             /\ owners' = OwnerRef(q)
             /\ gates' = [gates EXCEPT ![q].error = TRUE]
    /\ UNCHANGED shardVars

\* After the unlock the sample is no longer in transit.
Settle ==
    /\ At("settle")
    /\ stalled' = NoSample
    /\ in_transit' = in_transit - 1
    /\ worker' = [worker EXCEPT !.pc = "top", !.popped = NoSample]
    /\ UNCHANGED <<pushed, queue, stop, stop_signaled, consumed, slots, owners, gates,
                   arrayVars, shardVars>>

-----------------------------------------------------------------------------
\* array_meta_async_start: the read is submitted, or an allocation fails.
StartArray ==
    /\ \E c \in aStarting : Arrays!StartOk(c) \/ Arrays!StartRefused(c)
    /\ UNCHANGED <<tableVars, shardVars>>

\* shard_index_async_start reads the array's metadata, which must be there.
StartShard ==
    /\ \E c \in sStarting :
          IF Arrays!Peek(ShardArray[sActive[c.slot].key])
          THEN Shards!StartOk(c) \/ Shards!StartRefused(c)
          ELSE /\ sStarting' = sStarting \ {c}
               /\ Shards!Complete(c, "fail")
               /\ UNCHANGED <<sFree, sGen, sWm, sFetching, sHeld>>
    /\ UNCHANGED <<tableVars, arrayVars>>

\* The reader's callbacks: array_meta_read_done, and the end of the stat and
\* footer read of a shard.
ArrayDone(c) ==
    /\ \E err \in {"none", "fail"} : Arrays!FetchDone(c, err)
    /\ UNCHANGED <<tableVars, shardVars>>

ShardDone(c) ==
    /\ \E err \in {"none"} \union Errors : Shards!FetchDone(c, err)
    /\ UNCHANGED <<tableVars, arrayVars>>

WorkerStep ==
    \/ WorkerTop \/ MetaWait \/ MetaFailed \/ MetaReady
    \/ RequestShard \/ RequestShardAgain \/ RequestShardOom \/ ShardsRequested
    \/ AdvanceFromShard \/ SweepAndScan
    \/ TakeStalled \/ TakeCount \/ TakePop \/ TakeNone \/ WaitEnds
    \/ Admit \/ AdmitAgain \/ AdmitError \/ Settle
    \/ StartArray \/ StartShard

-----------------------------------------------------------------------------
\* lookahead_push_with_sample_seq, when prefetcher_unconsumed_count leaves room.
Push ==
    /\ ~Locked
    /\ pushed < MaxPushed
    /\ pushed - consumed < Lookahead
    /\ Len(queue) < Lookahead
    /\ queue' = Append(queue, pushed)
    /\ pushed' = pushed + 1
    /\ UNCHANGED <<stop, stop_signaled, slots, owners, stalled, in_transit, worker,
                   consumed, gates, arrayVars, shardVars>>

\* Mutants of PopReady: the owner keeps its reference; any sample is popped.
PopKeepsOwner(i) ==
    /\ ~Locked
    /\ IsTerminal(slots[i])
    /\ slots[i].seq = consumed
    /\ slots' = [slots EXCEPT ![i] = FreeSlot]
    /\ consumed' = consumed + 1
    /\ UNCHANGED <<pushed, queue, stop, stop_signaled, in_transit, stalled, owners, worker,
                   gates, arrayVars, shardVars>>

PopAnyReady(i) ==
    /\ ~Locked
    /\ IsTerminal(slots[i])
    /\ slots' = [slots EXCEPT ![i] = FreeSlot]
    /\ owners' = OwnerUnref(owners, slots[i].seq)
    /\ consumed' = consumed + 1
    /\ UNCHANGED <<pushed, queue, stop, stop_signaled, in_transit, stalled, worker, gates,
                   arrayVars, shardVars>>

\* prefetcher_pop_ready: the next sample in push order, if it is ready or
\* failed; its slot and its reference on the owner entry go.
PopReady(i) ==
    /\ ~Locked
    /\ IsTerminal(slots[i])
    /\ slots[i].seq = consumed
    /\ slots' = [slots EXCEPT ![i] = FreeSlot]
    /\ owners' = OwnerUnref(owners, consumed)
    /\ consumed' = consumed + 1
    /\ UNCHANGED <<pushed, queue, stop, stop_signaled, in_transit, stalled, worker, gates,
                   arrayVars, shardVars>>

\* prefetcher_advance_watermark, one cache after the other.
AdvanceArrays(w) == Arrays!AdvanceWatermark(w) /\ UNCHANGED <<tableVars, shardVars>>
AdvanceShards(w) == Shards!AdvanceWatermark(w) /\ UNCHANGED <<tableVars, arrayVars>>

\* prefetcher_stop: its own flag, then the lookahead's, which ends the wait.
StopFlag ==
    /\ stop' = TRUE
    /\ UNCHANGED <<pushed, queue, stop_signaled, slots, owners, stalled, in_transit, worker,
                   consumed, gates, arrayVars, shardVars>>

\* Mutant of StopSignal: the waiting worker is not told.
StopUnsignaled == UNCHANGED prefetcherVars
StopSignal ==
    /\ stop_signaled' = TRUE
    /\ UNCHANGED <<pushed, queue, stop, slots, owners, stalled, in_transit, worker,
                   consumed, gates, arrayVars, shardVars>>
=============================================================================
