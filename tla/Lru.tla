-------------------------------- MODULE Lru --------------------------------
(***************************************************************************)
(* The cache of util/lru.c: stable slots, a recency list, a free list and  *)
(* a robin-hood hash index that never moves a pinned entry.                *)
(*                                                                         *)
(* Every operation but lru_entry_release runs under the caller's mutex.    *)
(* lru_entry_release is lock-free, so a put is split at each of its reads  *)
(* of a refcount (one iteration of the loops of index_insert_robin,        *)
(* index_erase and evict_lru_tail), and releases happen between them.      *)
(***************************************************************************)
EXTENDS Integers, Sequences, FiniteSets, SequencesExt, FiniteSetsExt

CONSTANTS
    Keys,      \* what lru_ops.eq tells apart
    Hash,      \* the hash the caller computes for each key
    Capacity,  \* lru_create's capacity
    MaxProbe,  \* lru_create's max_probe
    MaxPins    \* bound of the model: pins held on one entry

\* lru_create refuses anything else; hashes are unsigned.
ASSUME LruAssumption ==
    /\ Capacity \in Nat \ {0}
    /\ MaxProbe \in Nat \ {0}
    /\ Hash \in [Keys -> Nat]
    /\ MaxPins \in Nat

Slots == 0 .. Capacity - 1
NIL == -1

\* next_pow2_ge(2 * capacity)
NCells == Min({n \in {2 ^ i : i \in 1 .. 16} : n >= 2 * Capacity})
Cells == 0 .. NCells - 1

VARIABLES
    key,    \* the key a slot holds, or NIL
    ref,    \* refcount of each slot
    order,  \* lru_order: the slots in use, most recently used first
    free,   \* freelist: the unused slots
    cells,  \* index.cells: a slot or NIL in each cell
    owned,  \* values handed to put and not yet destroyed, per key
    op,     \* the operation that holds the mutex
    ret     \* what the last put returned

vars == <<key, ref, order, free, cells, owned, op, ret>>

\* pc says where in lru_put the holder of the mutex is; k is the key put, new
\* its slot, carry the slot being placed, at the loop's cell or list position.
Idle == [pc |-> "idle", k |-> NIL, new |-> NIL, carry |-> NIL,
         at |-> 0, probe |-> 0, victim |-> NIL]

Init ==
    /\ key = [s \in Slots |-> NIL]
    /\ ref = [s \in Slots |-> 0]
    /\ order = <<>>
    /\ free = [i \in 1 .. Capacity |-> Capacity - i]
    /\ cells = [c \in Cells |-> NIL]
    /\ owned = [k \in Keys |-> 0]
    /\ op = Idle
    /\ ret = "none"

NextCell(c) == (c + 1) % NCells
IdealOf(k) == Hash[k] % NCells
ideal_cell(s) == IdealOf(key[s])
probe_dist(c, ideal) == (c - ideal) % NCells

\* index_lookup: the slots the full probe range of k holds under that key.
Found(k) ==
    {s \in Slots : /\ key[s] = k
                   /\ \E p \in 0 .. MaxProbe : cells[(IdealOf(k) + p) % NCells] = s}

\* index_locate: the cell of slot s within its probe range, or NIL.
index_locate(s) ==
    LET at == {c \in Cells : cells[c] = s /\ probe_dist(c, ideal_cell(s)) <= MaxProbe}
    IN  IF at = {} THEN NIL ELSE CHOOSE c \in at : TRUE

list_promote(s) == <<s>> \o Remove(order, s)

-----------------------------------------------------------------------------
\* lru_get on a hit; a miss (and lru_peek) changes nothing but counters.
Get(k) ==
    /\ op.pc = "idle"
    /\ \E s \in Found(k) : order' = list_promote(s)
    /\ UNCHANGED <<key, ref, free, cells, owned, op, ret>>

\* lru_entry_acquire_locked on an entry a get, peek or put just returned.
Acquire(s) ==
    /\ op.pc = "idle"
    /\ Contains(order, s)
    /\ ref[s] < MaxPins
    /\ ref' = [ref EXCEPT ![s] = @ + 1]
    /\ UNCHANGED <<key, order, free, cells, owned, op, ret>>

\* lru_entry_release, lock-free: at any moment, even in the middle of a put.
Release(s) ==
    /\ ref[s] > 0
    /\ ref' = [ref EXCEPT ![s] = @ - 1]
    /\ UNCHANGED <<key, order, free, cells, owned, op, ret>>

\* The start of lru_put: refuse to replace a pinned entry, replace an unpinned
\* one, or go on to allocate.  The value refused or replaced is destroyed.
PutReplace(k) ==
    /\ op.pc = "idle"
    /\ \E s \in Found(k) :
          IF ref[s] > 0
          THEN /\ ret' = "rejected"
               /\ UNCHANGED order
          ELSE /\ ret' = "ok"
               /\ order' = list_promote(s)
    /\ UNCHANGED <<key, ref, free, cells, owned, op>>

PutNew(k) ==
    /\ op.pc = "idle"
    /\ Found(k) = {}
    /\ owned' = [owned EXCEPT ![k] = @ + 1]
    /\ op' = [Idle EXCEPT !.pc = "alloc", !.k = k]
    /\ ret' = "none"
    /\ UNCHANGED <<key, ref, order, free, cells>>

\* The arguments with which index_insert_robin is (re)started, and
\* evict_lru_tail's walk begins.
StartInsert(s) == [op EXCEPT !.pc = "insert", !.new = s, !.carry = s,
                             !.at = IdealOf(op.k), !.probe = 0, !.victim = NIL]
StartEvict == [op EXCEPT !.pc = "evict", !.at = Len(order)]

\* freelist_pop, or evict when the pool is empty.
PutAlloc ==
    /\ op.pc = "alloc"
    /\ IF free = <<>>
       THEN /\ op' = StartEvict
            /\ UNCHANGED <<key, ref, free>>
       ELSE /\ free' = Tail(free)
            /\ key' = [key EXCEPT ![Head(free)] = op.k]
            /\ ref' = [ref EXCEPT ![Head(free)] = 0]
            /\ op' = StartInsert(Head(free))
    /\ UNCHANGED <<order, cells, owned, ret>>

-----------------------------------------------------------------------------
\* One iteration of index_insert_robin: take an empty cell, steal the cell of
\* an unpinned incumbent that is closer to its ideal than the carried slot is
\* to its own, or probe on.
InsertStep ==
    /\ op.pc = "insert"
    /\ op.probe <= MaxProbe
    /\ LET inc == cells[op.at]
           incProbe == probe_dist(op.at, ideal_cell(inc))
       IN  \/ /\ inc = NIL
              /\ cells' = [cells EXCEPT ![op.at] = op.carry]
              /\ op' = [op EXCEPT !.pc = "link"]
           \/ /\ inc # NIL
              /\ ref[inc] = 0 /\ op.probe > incProbe
              /\ cells' = [cells EXCEPT ![op.at] = op.carry]
              /\ op' = [op EXCEPT !.carry = inc, !.probe = incProbe + 1,
                                  !.at = NextCell(@)]
           \/ /\ inc # NIL
              /\ ~(ref[inc] = 0 /\ op.probe > incProbe)
              /\ op' = [op EXCEPT !.probe = @ + 1, !.at = NextCell(@)]
              /\ UNCHANGED cells
    /\ UNCHANGED <<key, ref, order, free, owned, ret>>

\* Mutant of InsertOrphan: the orphan's value is not destroyed.
OrphanLeaks ==
    /\ op.pc = "insert"
    /\ op.probe > MaxProbe
    /\ IF op.carry = op.new
       THEN /\ op' = StartEvict
            /\ UNCHANGED <<key, order, free>>
       ELSE /\ op' = [op EXCEPT !.pc = "link"]
            /\ order' = Remove(order, op.carry)
            /\ key' = [key EXCEPT ![op.carry] = NIL]
            /\ free' = <<op.carry>> \o free
    /\ UNCHANGED <<ref, cells, owned, ret>>

\* The probe limit is exceeded with the new slot unplaced: evict and retry.
\* Otherwise the orphan is an older entry, which is evicted in its place.
InsertOrphan ==
    /\ op.pc = "insert"
    /\ op.probe > MaxProbe
    /\ IF op.carry = op.new
       THEN /\ op' = StartEvict
            /\ UNCHANGED <<key, order, free, owned>>
       ELSE /\ op' = [op EXCEPT !.pc = "link"]
            /\ order' = Remove(order, op.carry)
            /\ key' = [key EXCEPT ![op.carry] = NIL]
            /\ free' = <<op.carry>> \o free
            /\ owned' = [owned EXCEPT ![key[op.carry]] = @ - 1]
    /\ UNCHANGED <<ref, cells, ret>>

\* Link the new slot at the front and return it.
PutLink ==
    /\ op.pc = "link"
    /\ order' = <<op.new>> \o order
    /\ op' = Idle
    /\ ret' = "ok"
    /\ UNCHANGED <<key, ref, free, cells, owned>>

-----------------------------------------------------------------------------
\* Mutant of EvictLook: the tail is evicted whether it is pinned or not.
EvictTailAlways ==
    /\ op.pc = "evict"
    /\ op.at > 0
    /\ LET s == order[op.at] IN
          op' = [op EXCEPT !.pc = "erase", !.victim = s, !.at = index_locate(s)]
    /\ UNCHANGED <<key, ref, order, free, cells, owned, ret>>

\* evict_lru_tail looks at one entry, from the tail: an unpinned one becomes
\* the victim of evict_slot, whose index cell is erased first.
EvictLook ==
    /\ op.pc = "evict"
    /\ op.at > 0
    /\ LET s == order[op.at] IN
          op' = IF ref[s] = 0
                THEN [op EXCEPT !.pc = "erase", !.victim = s, !.at = index_locate(s)]
                ELSE [op EXCEPT !.at = @ - 1]
    /\ UNCHANGED <<key, ref, order, free, cells, owned, ret>>

\* Every entry was pinned: lru_put destroys its value, returns its slot if it
\* has one, and returns NULL.
EvictNone ==
    /\ op.pc = "evict"
    /\ op.at = 0
    /\ owned' = [owned EXCEPT ![op.k] = @ - 1]
    /\ IF op.new = NIL
       THEN UNCHANGED <<key, free>>
       ELSE /\ key' = [key EXCEPT ![op.new] = NIL]
            /\ free' = <<op.new>> \o free
    /\ op' = Idle
    /\ ret' = "rejected"
    /\ UNCHANGED <<ref, order, cells>>

\* Mutant of CanShift: an entry at its ideal cell is shifted too.
ShiftPastIdeal(s, c) ==
    /\ s # NIL
    /\ ref[s] = 0

\* One iteration of index_erase that shifts the next entry back: it must be
\* there, unpinned and away from its ideal cell.
CanShift(s, c) ==
    /\ s # NIL
    /\ ref[s] = 0
    /\ probe_dist(c, ideal_cell(s)) # 0

EraseShift ==
    /\ op.pc = "erase"
    /\ op.at # NIL
    /\ LET next == NextCell(op.at) IN
          /\ CanShift(cells[next], next)
          /\ cells' = [cells EXCEPT ![op.at] = cells[next]]
          /\ op' = [op EXCEPT !.at = next]
    /\ UNCHANGED <<key, ref, order, free, owned, ret>>

\* The last one, and the rest of evict_slot: the victim leaves the list, its
\* slot is free, its value is destroyed.
EraseEnd ==
    /\ op.pc = "erase"
    /\ op.at # NIL => ~CanShift(cells[NextCell(op.at)], NextCell(op.at))
    /\ cells' = [c \in Cells |-> IF c = op.at THEN NIL ELSE cells[c]]
    /\ order' = Remove(order, op.victim)
    /\ key' = [key EXCEPT ![op.victim] = NIL]
    /\ free' = <<op.victim>> \o free
    /\ owned' = [owned EXCEPT ![key[op.victim]] = @ - 1]
    /\ op' = IF op.new = NIL
             THEN [op EXCEPT !.pc = "alloc", !.victim = NIL]
             ELSE StartInsert(op.new)
    /\ UNCHANGED <<ref, ret>>

\* lru_destroy: every value is destroyed, unless a pin is outstanding, in
\* which case everything leaks.
Destroy ==
    /\ op.pc = "idle"
    /\ IF \E s \in ToSet(order) : ref[s] > 0
       THEN /\ op' = [Idle EXCEPT !.pc = "leaked"]
            /\ UNCHANGED owned
       ELSE /\ op' = [Idle EXCEPT !.pc = "freed"]
            /\ owned' = [k \in Keys |->
                           owned[k] - Cardinality({s \in ToSet(order) : key[s] = k})]
    /\ UNCHANGED <<key, ref, order, free, cells, ret>>

PutStep ==
    \/ PutAlloc \/ InsertStep \/ InsertOrphan \/ PutLink
    \/ EvictLook \/ EvictNone \/ EraseShift \/ EraseEnd

Next ==
    \/ \E k \in Keys : Get(k) \/ PutReplace(k) \/ PutNew(k)
    \/ \E s \in Slots : Acquire(s) \/ Release(s)
    \/ PutStep
    \/ Destroy

Spec == Init /\ [][Next]_vars

-----------------------------------------------------------------------------
Resident == ToSet(order)

\* Once an operation is over, a lookup finds every entry in use and no other:
\* each is in exactly one cell, within the probe range of its hash, and no
\* cell names a free slot.  Steals and backshifts around immovable pinned
\* entries, and releases in the middle of them, lose or duplicate nothing.
ResidentFound ==
    op.pc = "idle" =>
        /\ \A s \in Resident : /\ Found(key[s]) = {s}
                                /\ Cardinality({c \in Cells : cells[c] = s}) = 1
        /\ \A c \in Cells : cells[c] # NIL => cells[c] \in Resident
        /\ Resident = Slots \ ToSet(free)

\* A value handed to lru_put is destroyed exactly once, when it is refused,
\* replaced, evicted, orphaned by an insertion, or when the cache is destroyed.
ValuesOwnedOnce ==
    /\ op.pc = "idle" =>
         \A k \in Keys : owned[k] = IF \E s \in Resident : key[s] = k THEN 1 ELSE 0
    /\ op.pc = "freed" => \A k \in Keys : owned[k] = 0

\* lru.h of lru_put: "If the cache is full and no non-pinned entry can be
\* evicted, returns NULL": a refused put of a new key found the cache full.
RejectedOnlyWhenFull ==
    [][op.pc = "evict" /\ ret' = "rejected" => Len(order) = Capacity]_vars

\* lru.c provides what lru.h promises.
Contract == INSTANCE LruContract WITH
    resident <- {key[s] : s \in Resident},
    pins <- [k \in Keys |-> IF \E s \in Resident : key[s] = k
                            THEN ref[CHOOSE s \in Resident : key[s] = k] ELSE 0]

\* Steals, backshifts and retries show to a caller as evictions of unpinned
\* entries and the insertion of one new entry, never beyond the capacity.
ImplementsContract == Contract!ContractSpec
=============================================================================
