---------------------------- MODULE LruContract ----------------------------
(***************************************************************************)
(* What util/lru.h promises its callers: at most Capacity keys are         *)
(* resident, a key enters by a put and leaves by an eviction, and an entry *)
(* that is pinned never leaves.  A put may evict several unpinned entries  *)
(* before it inserts its own, and may also give up.                        *)
(***************************************************************************)
EXTENDS Naturals, FiniteSets

CONSTANTS
    Keys,      \* what lru_ops.eq tells apart
    Capacity   \* lru_create's capacity

VARIABLES
    resident,  \* the keys an lru_get would find
    pins       \* lru_entry_acquire_locked calls not yet released, per key

contractVars == <<resident, pins>>

ContractInit ==
    /\ resident = {}
    /\ pins = [k \in Keys |-> 0]

ContractEvict(k) ==
    /\ k \in resident
    /\ pins[k] = 0
    /\ resident' = resident \ {k}
    /\ UNCHANGED pins

ContractInsert(k) ==
    /\ k \notin resident
    /\ Cardinality(resident) < Capacity
    /\ resident' = resident \union {k}
    /\ UNCHANGED pins

ContractAcquire(k) ==
    /\ k \in resident
    /\ pins' = [pins EXCEPT ![k] = @ + 1]
    /\ UNCHANGED resident

ContractRelease(k) ==
    /\ pins[k] > 0
    /\ pins' = [pins EXCEPT ![k] = @ - 1]
    /\ UNCHANGED resident

ContractNext ==
    \E k \in Keys :
        \/ ContractEvict(k)
        \/ ContractInsert(k)
        \/ ContractAcquire(k)
        \/ ContractRelease(k)

ContractSpec == ContractInit /\ [][ContractNext]_contractVars
=============================================================================
