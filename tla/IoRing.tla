------------------------------- MODULE IoRing -------------------------------
(***************************************************************************)
(* The I/O queue with its ring as the code has it: an array of a power-of- *)
(* two capacity, indexed by head and tail counters, that doubles when it   *)
(* is full and moves the queued jobs to its beginning (ring_grow).  It     *)
(* implements IoQueue, whose queue is the jobs between tail and head.      *)
(***************************************************************************)
EXTENDS Integers, Sequences

CONSTANTS
    Workers,
    Clients,
    MaxPosts,
    InitialCap   \* DAMACY_IO_QUEUE_INITIAL_CAP

\* slot = head & (ring_cap - 1) is head % ring_cap for a power of two.
ASSUME IoRingAssumption ==
    /\ InitialCap \in Nat
    /\ \E k \in 0 .. InitialCap : InitialCap = 2 ^ k

VARIABLES
    ring, ring_cap, head, tail,
    worker_seq, next_seq, retired_seq, shutdown, wpc, cpc, event, finished

ringVars == <<ring, ring_cap, head, tail>>
vars == <<ringVars, worker_seq, next_seq, retired_seq, shutdown, wpc, cpc,
          event, finished>>

\* calloc: sequence number 0 in every slot.
EmptyRing(cap) == [i \in 0 .. cap - 1 |-> 0]

\* The jobs in the ring, oldest first.
Queue == [i \in 1 .. head - tail |-> ring[(tail + i - 1) % ring_cap]]

Q == INSTANCE IoQueue WITH queue <- Queue

Init ==
    /\ ring = EmptyRing(InitialCap)
    /\ ring_cap = InitialCap
    /\ head = 0
    /\ tail = 0
    /\ Q!Init

-----------------------------------------------------------------------------
\* Mutant: ring_grow copies the slots where they are.
GrownInPlace ==
    [ring |-> [i \in 0 .. 2 * ring_cap - 1 |-> IF i < ring_cap THEN ring[i] ELSE 0],
     cap |-> 2 * ring_cap,
     head |-> head - tail,
     tail |-> 0]

\* ring_grow: the capacity doubles, queued jobs relocate to [0, count).
Grown ==
    LET count == head - tail IN
        [ring |-> [i \in 0 .. 2 * ring_cap - 1 |->
                      IF i < count THEN ring[(tail + i) % ring_cap] ELSE 0],
         cap |-> 2 * ring_cap,
         head |-> count,
         tail |-> 0]

\* The ring a post writes to: grown first if it is full.
PostTarget ==
    IF head - tail = ring_cap
    THEN Grown
    ELSE [ring |-> ring, cap |-> ring_cap, head |-> head, tail |-> tail]

\* io_queue_post
Post ==
    /\ ~shutdown
    /\ next_seq < MaxPosts
    /\ next_seq' = next_seq + 1
    /\ LET t == PostTarget IN
          /\ ring' = [t.ring EXCEPT ![t.head % t.cap] = next_seq + 1]
          /\ ring_cap' = t.cap
          /\ head' = t.head + 1
          /\ tail' = t.tail
    /\ Q!SignalOne
    /\ UNCHANGED <<worker_seq, retired_seq, shutdown, cpc, event, finished>>

\* ring_grow is out of memory: the post fails and nothing has changed.
PostFails ==
    /\ ~shutdown
    /\ next_seq < MaxPosts
    /\ head - tail = ring_cap
    /\ UNCHANGED vars

\* worker_thread takes a job.
WorkerTake(w) ==
    /\ wpc[w] = "check"
    /\ head # tail
    /\ worker_seq' = [worker_seq EXCEPT ![w] = ring[tail % ring_cap]]
    /\ tail' = tail + 1
    /\ wpc' = [wpc EXCEPT ![w] = "run"]
    /\ UNCHANGED <<ring, ring_cap, head, next_seq, retired_seq, shutdown, cpc,
                   event, finished>>

\* The other steps do not touch the ring and are those of IoQueue.
Elsewhere ==
    /\ UNCHANGED ringVars
    /\ \/ Q!Destroy
       \/ Q!Terminated
       \/ \E w \in Workers : \/ Q!WorkerWait(w)
                             \/ Q!WorkerExit(w)
                             \/ Q!WorkerRun(w)
                             \/ Q!WorkerFinish(w)
                             \/ Q!WorkerSpuriousWakeup(w)
       \/ \E c \in Clients : Q!Record(c) \/ Q!EventWait(c)

Next == \/ Post
        \/ PostFails
        \/ \E w \in Workers : WorkerTake(w)
        \/ Elsewhere

Spec == Init /\ [][Next]_vars

-----------------------------------------------------------------------------
\* The array, its wrap-around and its growth in the middle of a wrap behave
\* as the plain queue of IoQueue: no job is overwritten, lost, repeated or
\* taken out of order (io_queue_post, ring_grow, worker_thread).
ImplementsIoQueue == Q!Spec
=============================================================================
