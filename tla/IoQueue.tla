------------------------------ MODULE IoQueue ------------------------------
(***************************************************************************)
(* The I/O queue (io_queue.posix.c): jobs are posted with increasing       *)
(* sequence numbers, worker threads take them in that order and finish     *)
(* them in any order, and an event stands for "every job posted so far".   *)
(* An event is retired when retired_seq, the sequence number below which   *)
(* nothing is queued or running, has reached it.                           *)
(*                                                                         *)
(* A job is its sequence number; the ring is the sequence of the queued    *)
(* ones (IoRing refines it to the array that grows).  A critical section   *)
(* of the queue's mutex is one action.                                     *)
(***************************************************************************)
EXTENDS Integers, Sequences

CONSTANTS
    Workers,   \* the threads of the queue
    Clients,   \* threads that record an event and wait for it
    MaxPosts   \* bound of the model: jobs posted in a behaviour

\* io_queue_create rejects nthreads < 1.
ASSUME IoQueueAssumption == Workers # {} /\ MaxPosts \in Nat

VARIABLES
    queue,        \* ring[tail .. head): sequence numbers of the queued jobs
    worker_seq,   \* per worker: the job it is processing, or Idle
    next_seq,
    retired_seq,
    shutdown,
    wpc,          \* where each worker is
    cpc,          \* where each client is
    event,        \* per client: io_event.seq
    finished      \* history: jobs whose fn and ctx_free have returned

vars == <<queue, worker_seq, next_seq, retired_seq, shutdown, wpc, cpc, event,
          finished>>

\* UINT64_MAX in worker_seq.  Sequence numbers begin at 1.
Idle == 0

Init ==
    /\ queue = <<>>
    /\ worker_seq = [w \in Workers |-> Idle]
    /\ next_seq = 0
    /\ retired_seq = 0
    /\ shutdown = FALSE
    /\ wpc = [w \in Workers |-> "check"]
    /\ cpc = [c \in Clients |-> "out"]
    /\ event = [c \in Clients |-> 0]
    /\ finished = {}

-----------------------------------------------------------------------------
\* Mutant: the post does not signal.
SignalNone == UNCHANGED wpc

\* pthread_cond_signal(cond_not_empty): one waiting worker, if there is one,
\* goes back to test its condition.
SignalOne ==
    IF \E w \in Workers : wpc[w] = "wait"
    THEN \E w \in Workers : wpc[w] = "wait" /\ wpc' = [wpc EXCEPT ![w] = "check"]
    ELSE UNCHANGED wpc

\* io_queue_post.  A caller never posts to a queue that it has destroyed.
Post ==
    /\ ~shutdown
    /\ next_seq < MaxPosts
    /\ next_seq' = next_seq + 1
    /\ queue' = Append(queue, next_seq + 1)
    /\ SignalOne
    /\ UNCHANGED <<worker_seq, retired_seq, shutdown, cpc, event, finished>>

\* worker_thread finds nothing to do and sleeps, or ends.
WorkerWait(w) ==
    /\ wpc[w] = "check"
    /\ queue = <<>>
    /\ ~shutdown
    /\ wpc' = [wpc EXCEPT ![w] = "wait"]
    /\ UNCHANGED <<queue, worker_seq, next_seq, retired_seq, shutdown, cpc,
                   event, finished>>

\* Mutant: shutdown is tested before the queue.
WorkerExitAtOnce(w) ==
    /\ wpc[w] = "check"
    /\ shutdown
    /\ wpc' = [wpc EXCEPT ![w] = "exit"]
    /\ UNCHANGED <<queue, worker_seq, next_seq, retired_seq, shutdown, cpc,
                   event, finished>>

WorkerExit(w) ==
    /\ wpc[w] = "check"
    /\ queue = <<>>
    /\ shutdown
    /\ wpc' = [wpc EXCEPT ![w] = "exit"]
    /\ UNCHANGED <<queue, worker_seq, next_seq, retired_seq, shutdown, cpc,
                   event, finished>>

\* POSIX lets a condition wait return without a signal.
WorkerSpuriousWakeup(w) ==
    /\ wpc[w] = "wait"
    /\ wpc' = [wpc EXCEPT ![w] = "check"]
    /\ UNCHANGED <<queue, worker_seq, next_seq, retired_seq, shutdown, cpc,
                   event, finished>>

\* The worker takes the oldest job and publishes its number before it gives
\* the mutex back.
WorkerTake(w) ==
    /\ wpc[w] = "check"
    /\ queue # <<>>
    /\ worker_seq' = [worker_seq EXCEPT ![w] = Head(queue)]
    /\ queue' = Tail(queue)
    /\ wpc' = [wpc EXCEPT ![w] = "run"]
    /\ UNCHANGED <<next_seq, retired_seq, shutdown, cpc, event, finished>>

\* job.fn and job.ctx_free, outside the mutex.
WorkerRun(w) ==
    /\ wpc[w] = "run"
    /\ finished' = finished \union {worker_seq[w]}
    /\ wpc' = [wpc EXCEPT ![w] = "finish"]
    /\ UNCHANGED <<queue, worker_seq, next_seq, retired_seq, shutdown, cpc,
                   event>>

\* Mutant: only the queue is looked at.
UnretiredQueue(wseq) == IF queue = <<>> THEN {} ELSE {Head(queue)}

\* advance_retired looks at the head of the queue and at every worker.
Unretired(wseq) ==
    (IF queue = <<>> THEN {} ELSE {Head(queue)})
        \union ({wseq[w] : w \in Workers} \ {Idle})

\* One less than the lowest of them, or next_seq when there is none.
IsNewRetired(wseq, r) ==
    \/ Unretired(wseq) = {} /\ r = next_seq
    \/ /\ r + 1 \in Unretired(wseq)
       /\ \A s \in Unretired(wseq) : r + 1 <= s

\* Mutants: clients are not woken; an idle worker is taken for the oldest job.
AdvanceRetiredQuietly(wseq) ==
    \E r \in 0 .. next_seq :
        /\ IsNewRetired(wseq, r)
        /\ retired_seq' = IF r > retired_seq THEN r ELSE retired_seq
        /\ UNCHANGED cpc
AdvanceRetiredWithIdle(wseq) ==
    \E w \in Workers :
        /\ \A v \in Workers : wseq[w] <= wseq[v]
        /\ retired_seq' = wseq[w] - 1
        /\ UNCHANGED cpc
\* advance_retired: retired_seq only grows, and when it does every client
\* that sleeps on cond_retired is woken.
AdvanceRetired(wseq) ==
    \E r \in 0 .. next_seq :
        /\ IsNewRetired(wseq, r)
        /\ IF r > retired_seq
           THEN /\ retired_seq' = r
                /\ cpc' = [c \in Clients |->
                              IF cpc[c] = "wait" THEN "check" ELSE cpc[c]]
           ELSE UNCHANGED <<retired_seq, cpc>>

WorkerFinish(w) ==
    /\ wpc[w] = "finish"
    /\ worker_seq' = [worker_seq EXCEPT ![w] = Idle]
    /\ AdvanceRetired(worker_seq')
    /\ wpc' = [wpc EXCEPT ![w] = "check"]
    /\ UNCHANGED <<queue, next_seq, shutdown, event, finished>>

-----------------------------------------------------------------------------
\* io_queue_record.  Nobody starts anything on a queue that is destroyed.
Record(c) ==
    /\ ~shutdown
    /\ cpc[c] \in {"out", "returned"}
    /\ event' = [event EXCEPT ![c] = next_seq]
    /\ cpc' = [cpc EXCEPT ![c] = "check"]
    /\ UNCHANGED <<queue, worker_seq, next_seq, retired_seq, shutdown, wpc,
                   finished>>

\* Mutant: the wait ends one job early.
EventWaitOffByOne(c) ==
    /\ cpc[c] = "check"
    /\ cpc' = [cpc EXCEPT ![c] = IF retired_seq + 1 < event[c] /\ ~shutdown
                                 THEN "wait" ELSE "returned"]
    /\ UNCHANGED <<queue, worker_seq, next_seq, retired_seq, shutdown, wpc,
                   event, finished>>

\* One turn of the loop of io_event_wait.  (io_event_query is its test.)
EventWait(c) ==
    /\ cpc[c] = "check"
    /\ cpc' = [cpc EXCEPT ![c] = IF retired_seq < event[c] /\ ~shutdown
                                 THEN "wait" ELSE "returned"]
    /\ UNCHANGED <<queue, worker_seq, next_seq, retired_seq, shutdown, wpc,
                   event, finished>>

\* io_queue_destroy up to its joins.  It wakes the workers only.
Destroy ==
    /\ ~shutdown
    /\ shutdown' = TRUE
    /\ wpc' = [w \in Workers |-> IF wpc[w] = "wait" THEN "check" ELSE wpc[w]]
    /\ UNCHANGED <<queue, worker_seq, next_seq, retired_seq, cpc, event,
                   finished>>

WorkerStep(w) == \/ WorkerWait(w)
                 \/ WorkerExit(w)
                 \/ WorkerTake(w)
                 \/ WorkerRun(w)
                 \/ WorkerFinish(w)

\* The joins of io_queue_destroy have all returned and nobody waits.
Terminated ==
    /\ \A w \in Workers : wpc[w] = "exit"
    /\ UNCHANGED vars

Next == \/ Post
        \/ Destroy
        \/ \E w \in Workers : WorkerStep(w) \/ WorkerSpuriousWakeup(w)
        \/ \E c \in Clients : Record(c) \/ EventWait(c)
        \/ Terminated

Spec == Init /\ [][Next]_vars

(* Threads run: a worker that is awake takes its next step (jobs return),  *)
(* and so does a client inside io_event_wait.  A sleeping worker is owed   *)
(* nothing: only a signal brings it back.                                  *)
Fairness == /\ \A w \in Workers : WF_vars(WorkerStep(w))
            /\ \A c \in Clients : WF_vars(EventWait(c))

FairSpec == Spec /\ Fairness

-----------------------------------------------------------------------------
(* Properties.                                                             *)

\* Type invariant of struct io_queue and its threads.
TypeOK ==
    /\ queue \in Seq(Nat)
    /\ worker_seq \in [Workers -> Nat]
    /\ next_seq \in Nat
    /\ retired_seq \in Nat
    /\ shutdown \in BOOLEAN
    /\ wpc \in [Workers -> {"check", "wait", "run", "finish", "exit"}]
    /\ cpc \in [Clients -> {"out", "check", "wait", "returned"}]
    /\ event \in [Clients -> Nat]
    /\ finished \subseteq Nat

\* An event is reported retired only when every job posted before it has
\* returned, its ctx_free included, although jobs finish out of order: a
\* client may reuse the memory those jobs were given.
RetiredJobsFinished == \A s \in 1 .. retired_seq : s \in finished

\* io_event_wait gives the same guarantee to the client that called it,
\* unless the queue was shut down under it.
WaitMeansFinished ==
    \A c \in Clients :
        cpc[c] = "returned" =>
            shutdown \/ \A s \in 1 .. event[c] : s \in finished

\* Jobs run once: no job is queued, running and finished in two places, and
\* none that was posted is in neither.
EachJobOnePlace ==
    LET queued == {queue[i] : i \in DOMAIN queue}
        running == {worker_seq[w] : w \in {v \in Workers : wpc[v] = "run"}}
    IN  /\ queued \union running \union finished = 1 .. next_seq
        /\ queued \intersect running = {}
        /\ queued \intersect finished = {}
        /\ running \intersect finished = {}
        /\ \A v, w \in Workers :
              v # w /\ worker_seq[v] # Idle => worker_seq[v] # worker_seq[w]

\* io_queue_destroy "drains queued jobs, then joins workers" (io_queue.h): a
\* worker has left only if there was nothing more to take.
ExitMeansDrained ==
    (\E w \in Workers : wpc[w] = "exit") => shutdown /\ queue = <<>>

\* The queue is not left with work while every worker sleeps, although a post
\* signals only one of them.
NoLostSignal ==
    queue # <<>> => \E w \in Workers : wpc[w] \in {"check", "run", "finish"}

\* A client asleep in io_event_wait waits for an event that is not retired.
NoStaleWait == \A c \in Clients : cpc[c] = "wait" => retired_seq < event[c]

\* retired_seq never goes back, so an event once reported retired stays so.
RetiredOnlyGrows == [][retired_seq' >= retired_seq]_vars

\* Every io_event_wait returns, also when io_queue_destroy comes in between
\* and does not wake it.
EveryWaitReturns ==
    \A c \in Clients : cpc[c] \in {"check", "wait"} ~> cpc[c] = "returned"
=============================================================================
