--------------------------- MODULE PrefetchCache ---------------------------
(***************************************************************************)
(* The cache of prefetch/prefetch_cache.c: entries that are being fetched, *)
(* ready or failed, handed out as (slot, generation) handles, pinned for   *)
(* the samples (owners) at or above a watermark, and counted in the gate   *)
(* of every owner that waits for them.                                     *)
(*                                                                         *)
(* Every operation holds the cache's mutex and is one action; the request  *)
(* unlocks before it starts the fetch, so the start is an action of its    *)
(* own, and so is each completion.  The LRU index is used through what     *)
(* Lru.tla establishes: a put evicts unpinned entries only, and is refused *)
(* only when as many entries are pinned as fill the cache or a probe range.*)
(***************************************************************************)
EXTENDS Integers, Sequences, FiniteSets, FiniteSetsExt

CONSTANTS
    Keys,       \* array URIs, or (array, shard coordinate) pairs
    Owners,     \* sample sequence numbers: each has one gate
    Capacity,   \* prefetch_cache_config.capacity
    MaxProbe,   \* prefetch_cache_config.max_probe
    GenMod,     \* 2^32 in the code: generation_counter is a uint32_t
    Errors,     \* the damacy_status values a fetch can fail with
    StartError  \* DAMACY_AGAIN: the fetch could not be started

ASSUME CacheAssumption ==
    /\ Capacity \in Nat \ {0}
    /\ MaxProbe \in Nat \ {0}
    /\ GenMod \in Nat \ {0}
    /\ Owners \subseteq Nat
    /\ StartError \in Errors

VARIABLES
    active,      \* active[i]: the entry at stable index i, or NoEntry
    free_list,   \* the unused indices; taken from and returned to its end
    generation,  \* generation_counter
    watermark,   \* owners below it have no claim on an entry
    counts,      \* pending_count and errored_count
    gates,       \* each owner's prefetch_gate: [pending, error]
    starting,    \* completions of requests that have not called start yet
    fetching,    \* completions the asynchronous fetcher owns
    held         \* the handles each owner has been given

cacheVars == <<active, free_list, generation, watermark, counts, starting, fetching, held>>
vars == <<cacheVars, gates>>

Indices == 1 .. Capacity
NoEntry == [state |-> "none"]

CacheInit ==
    /\ active = [i \in Indices |-> NoEntry]
    /\ free_list = [i \in Indices |-> Capacity + 1 - i]
    /\ generation = 0
    /\ watermark = 0
    /\ counts = [pending |-> 0, errored |-> 0]
    /\ starting = {}
    /\ fetching = {}
    /\ held = [o \in Owners |-> {}]

Init ==
    /\ CacheInit
    /\ gates = [o \in Owners |-> [pending |-> 0, error |-> FALSE]]

Live == {i \in Indices : active[i] # NoEntry}
Pinned == {i \in Live : active[i].pinned}

\* lru_get, lru_peek: the entry of key k.
IndexOf(k) == {i \in Live : active[i].key = k}

\* make_handle and make_completion: an index and the generation of its entry.
Handle(i) == [slot |-> i, generation |-> active[i].generation]

\* resolve_handle: the entry the handle was made for, unless it is gone.
Resolves(h) ==
    /\ active[h.slot] # NoEntry
    /\ active[h.slot].generation = h.generation

\* prefetch_cache_query: a handle that does not resolve reads as pending.
Query(h) == IF Resolves(h) THEN active[h.slot].state ELSE "pending"

\* prefetch_cache_peek: the key is resident and ready.
Peek(k) == \E i \in IndexOf(k) : active[i].state = "ready"

\* slot_register_waiter grows its heap part when 2, 6, 10, 18, ... gates wait,
\* and may then fail for want of memory.
MayFailToRegister(e) ==
    \/ e.n_waiters = 2
    \/ \E j \in 0 .. e.n_waiters : e.n_waiters = 2 + 4 * 2 ^ j

Waits(e, o) == [e EXCEPT !.waiters[o] = @ + 1, !.n_waiters = @ + 1]

\* Mutant of Claimed: an entry that lost its pin does not get it back.
ClaimedNoPin(e, o) == [e EXCEPT !.max_owner = IF o > @ THEN o ELSE @]

\* A hit widens the owners of the entry and pins it again if need be.
Claimed(e, o) == [e EXCEPT !.max_owner = IF o > @ THEN o ELSE @,
                           !.pinned = @ \/ o >= watermark]

Give(o, k, h) ==
    held' = [held EXCEPT ![o] = @ \union {[key |-> k, slot |-> h.slot,
                                            generation |-> h.generation]}]

-----------------------------------------------------------------------------
\* prefetch_cache_request_result finds the key: the entry is claimed for the
\* owner, whose gate waits for it if it is pending and fails if it has failed.
RequestHit(o, k) ==
    \E i \in IndexOf(k) :
        LET e == Claimed(active[i], o) IN
        /\ active' = [active EXCEPT ![i] = IF e.state = "pending" THEN Waits(e, o) ELSE e]
        /\ gates' = [gates EXCEPT
              ![o].pending = IF e.state = "pending" THEN @ + 1 ELSE @,
              ![o].error = @ \/ e.state = "error"]
        /\ Give(o, k, Handle(i))
        /\ UNCHANGED <<free_list, generation, watermark, counts, starting, fetching>>

\* The same when the waiter cannot be registered: DAMACY_OOM, but the claim
\* stays.
RequestHitOom(o, k) ==
    \E i \in IndexOf(k) :
        /\ active[i].state = "pending"
        /\ MayFailToRegister(active[i])
        /\ active' = [active EXCEPT ![i] = Claimed(@, o)]
        /\ UNCHANGED <<free_list, generation, watermark, counts, starting, fetching, held>>

\* No memory for the new entry: DAMACY_OOM.
RequestMissOom(o, k) == IndexOf(k) = {} /\ UNCHANGED cacheVars

RequestOom(o, k) == RequestHitOom(o, k) \/ RequestMissOom(o, k)

\* lru_put as seen from here.  It evicts unpinned entries, in some order, when
\* the cache is full or as many entries are live as fill a probe range; it is
\* refused when as many as that are pinned.
Crowd == IF MaxProbe < Capacity THEN MaxProbe + 1 ELSE Capacity
Evictable == Live \ Pinned
Evictions == {es \in UNION {[1 .. n -> Evictable] : n \in 0 .. Cardinality(Evictable)} :
                 /\ \A m, n \in DOMAIN es : es[m] = es[n] => m = n
                 /\ es # <<>> => Cardinality(Live) >= Crowd}

\* Mutant of Without: the entry stays in active.
EvictedStay(evicted) == active
\* lru_slot_destroy of the evicted entries: their indices are free again, and
\* waiters they still have would be released as failed.
Without(evicted) == [i \in Indices |-> IF i \in evicted THEN NoEntry ELSE active[i]]
CountsWithout(evicted) ==
    [pending |-> counts.pending - Cardinality({i \in evicted : active[i].state = "pending"}),
     errored |-> counts.errored - Cardinality({i \in evicted : active[i].state = "error"})]
GatesWithout(evicted) ==
    [o \in Owners |->
       [pending |-> gates[o].pending
                      - MapThenSumSet(LAMBDA i : active[i].waiters[o], evicted),
        error |-> gates[o].error \/ \E i \in evicted : active[i].waiters[o] > 0]]
Set(es) == {es[n] : n \in DOMAIN es}

NextGeneration == (generation + 1) % GenMod
NewEntry(o, k) ==
    [state |-> "pending", key |-> k, err |-> "none", max_owner |-> o,
     generation |-> NextGeneration, pinned |-> TRUE,
     waiters |-> [p \in Owners |-> IF p = o THEN 1 ELSE 0], n_waiters |-> 1]

\* It misses: a new pending entry, pinned, with the owner as first waiter, at
\* the index that was freed last.
RequestMiss(o, k) ==
    /\ IndexOf(k) = {}
    /\ \E es \in Evictions :
        LET stack == free_list \o es
            i == stack[Len(stack)]
            c == [slot |-> i, generation |-> NextGeneration]
        IN
        /\ stack # <<>>
        /\ active' = [Without(Set(es)) EXCEPT ![i] = NewEntry(o, k)]
        /\ free_list' = SubSeq(stack, 1, Len(stack) - 1)
        /\ counts' = [CountsWithout(Set(es)) EXCEPT !.pending = @ + 1]
        /\ gates' = [GatesWithout(Set(es)) EXCEPT ![o].pending = @ + 1]
        /\ starting' = starting \union {c}
        /\ Give(o, k, c)
    /\ generation' = NextGeneration
    /\ UNCHANGED <<watermark, fetching>>

\* It misses and lru_put is refused: DAMACY_AGAIN, and every unpinned entry
\* has been evicted in vain.
RequestSaturated(o, k) ==
    /\ IndexOf(k) = {}
    /\ Cardinality(Pinned) >= Crowd
    /\ \E es \in Evictions :
        /\ Set(es) = Evictable
        /\ free_list' = free_list \o es
    /\ active' = Without(Evictable)
    /\ counts' = CountsWithout(Evictable)
    /\ gates' = GatesWithout(Evictable)
    /\ generation' = NextGeneration
    /\ UNCHANGED <<watermark, starting, fetching, held>>

-----------------------------------------------------------------------------
\* Mutant of Completed: n_waiters is not reset.
CompletedKeepsWaiters(e, err) ==
    [e EXCEPT !.state = IF err = "none" THEN "ready" ELSE "error", !.err = err]

\* slot_complete_locked: the entry is ready (err = "none") or failed, and its
\* waiters are released.
Completed(e, err) ==
    [e EXCEPT !.state = IF err = "none" THEN "ready" ELSE "error", !.err = err,
              !.waiters = [o \in Owners |-> 0], !.n_waiters = 0]
slot_complete_locked(i, err) ==
    /\ active' = [active EXCEPT ![i] = Completed(@, err)]
    /\ counts' = [pending |-> counts.pending - 1,
                  errored |-> IF err = "none" THEN counts.errored ELSE counts.errored + 1]
    /\ gates' = [o \in Owners |->
          [pending |-> gates[o].pending - active[i].waiters[o],
           error |-> gates[o].error \/ (err # "none" /\ active[i].waiters[o] > 0)]]

\* prefetch_cache_complete: a completion that is stale or comes twice only
\* destroys its value.
Complete(c, err) ==
    IF Resolves(c) /\ active[c.slot].state = "pending"
    THEN slot_complete_locked(c.slot, err)
    ELSE UNCHANGED <<active, counts, gates>>

\* The request goes on, unlocked: async_fetcher->start takes the completion,
\* or refuses it and the entry fails.
StartOk(c) ==
    /\ c \in starting
    /\ starting' = starting \ {c}
    /\ fetching' = fetching \union {c}
    /\ UNCHANGED <<active, free_list, generation, watermark, counts, gates, held>>

StartRefused(c) ==
    /\ c \in starting
    /\ starting' = starting \ {c}
    /\ Complete(c, StartError)
    /\ UNCHANGED <<free_list, generation, watermark, fetching, held>>

\* The fetcher, on a thread of its own, completes once.
FetchDone(c, err) ==
    /\ c \in fetching
    /\ fetching' = fetching \ {c}
    /\ Complete(c, err)
    /\ UNCHANGED <<free_list, generation, watermark, starting, held>>

\* Mutants of Unpinned: a running fetch does not keep the pin; pins stay.
UnpinnedPending(e, w) == e.max_owner < w
UnpinnedNever(e, w) == FALSE

\* prefetch_cache_advance_watermark: entries that no owner at or above the
\* watermark has claimed are unpinned, unless their fetch is still running.
\* The caller has let go of the handles of the owners it passes.
Unpinned(e, w) == e.state # "pending" /\ e.max_owner < w
AdvanceWatermark(w) ==
    /\ w > watermark
    /\ watermark' = w
    /\ active' = [i \in Indices |->
          IF active[i] # NoEntry /\ Unpinned(active[i], w)
          THEN [active[i] EXCEPT !.pinned = FALSE] ELSE active[i]]
    /\ held' = [o \in Owners |-> IF o < w THEN {} ELSE held[o]]
    /\ UNCHANGED <<free_list, generation, counts, gates, starting, fetching>>

\* prefetch_cache_destroy: every entry goes, as if evicted.
Destroy ==
    /\ active' = Without(Live)
    /\ counts' = CountsWithout(Live)
    /\ gates' = GatesWithout(Live)
    /\ free_list' = <<>>
    /\ held' = [o \in Owners |-> {}]
    /\ UNCHANGED <<generation, watermark, starting, fetching>>

\* The caller, the one thread of the prefetcher, finishes a request, start
\* included, before the next, requests a key once per owner, and only for
\* owners the watermark has not passed.
MayRequest(o, k) ==
    /\ starting = {}
    /\ o >= watermark
    /\ \A h \in held[o] : h.key # k

Request(o, k) ==
    /\ MayRequest(o, k)
    /\ \/ RequestHit(o, k)
       \/ RequestOom(o, k) /\ UNCHANGED gates
       \/ RequestMiss(o, k)
       \/ RequestSaturated(o, k)

Next ==
    \/ \E o \in Owners, k \in Keys : Request(o, k)
    \/ \E c \in starting : StartOk(c) \/ StartRefused(c)
    \/ \E c \in fetching, err \in Errors \union {"none"} : FetchDone(c, err)
    \/ \E o \in Owners : AdvanceWatermark(o + 1)

Spec == Init /\ [][Next]_vars

-----------------------------------------------------------------------------
\* Every variable has its type, and free indices are those without an entry.
TypeOK ==
    /\ \A i \in Live :
         /\ active[i].state \in {"pending", "ready", "error"}
         /\ active[i].key \in Keys
         /\ active[i].max_owner \in Owners
         /\ active[i].generation \in 0 .. GenMod - 1
         /\ active[i].pinned \in BOOLEAN
         /\ active[i].waiters \in [Owners -> Nat]
    /\ Set(free_list) = Indices \ Live
    /\ Len(free_list) = Cardinality(Indices \ Live)
    /\ \A o \in Owners : gates[o].pending \in Nat /\ gates[o].error \in BOOLEAN

\* A handle of an owner that the watermark has not passed resolves, to the key
\* it was requested for, whatever was evicted and reused meanwhile and however
\* often the 32-bit generation has wrapped: the entry is pinned.
HandlesResolve ==
    \A o \in Owners : \A h \in held[o] : o >= watermark =>
        /\ Resolves(h)
        /\ active[h.slot].key = h.key
        /\ active[h.slot].pinned

\* Pending entries and fetches correspond one to one: no entry waits without a
\* fetch to end the wait, and no completion is stale when it arrives, so the
\* slot pointer a fetch keeps is good.
FetchesMatchPending ==
    /\ starting \intersect fetching = {}
    /\ {Handle(i) : i \in {j \in Live : active[j].state = "pending"}}
         = starting \union fetching

\* A gate counts exactly the entries that will release it, and an open gate
\* means what the prefetcher reads into it: nothing its owner asked for is
\* still pending, and without the error bit all of it is ready.
GatesExact ==
    \A o \in Owners :
        /\ gates[o].pending = MapThenSumSet(LAMBDA i : active[i].waiters[o], Live)
        /\ o >= watermark /\ gates[o].pending = 0 =>
             \A h \in held[o] : /\ Query(h) # "pending"
                                 /\ ~gates[o].error => Query(h) = "ready"

=============================================================================
