--------------------------- MODULE IoQueueProofs ---------------------------
(***************************************************************************)
(* Proofs about IoQueue for any number of workers, clients and jobs.       *)
(***************************************************************************)
EXTENDS IoQueue, SequenceTheorems, TLAPS

\* Jobs that have left the queue: it always holds the youngest ones.
Taken == next_seq - Len(queue)

\* The queue holds consecutive sequence numbers that end with next_seq.
QueueInv ==
    /\ Len(queue) <= next_seq
    /\ \A i \in 1 .. Len(queue) : queue[i] = Taken + i

\* A worker publishes a number exactly while it has a job; the numbers are
\* taken, not retired, and different.
WorkerInv ==
    /\ \A w \in Workers : wpc[w] \in {"run", "finish"} <=> worker_seq[w] # Idle
    /\ \A w \in Workers : worker_seq[w] <= Taken
    /\ \A w \in Workers : worker_seq[w] # Idle => worker_seq[w] > retired_seq
    /\ \A v, w \in Workers :
          v # w /\ worker_seq[v] # Idle => worker_seq[v] # worker_seq[w]

\* A job that was taken is finished or is being run.
FinishedInv ==
    /\ finished \subseteq 1 .. Taken
    /\ \A s \in 1 .. Taken :
          s \in finished \/ \E w \in Workers : wpc[w] = "run" /\ worker_seq[w] = s
    /\ \A w \in Workers : wpc[w] = "run" => worker_seq[w] \notin finished

RetiredInv ==
    /\ retired_seq <= Taken
    /\ RetiredJobsFinished

ClientInv ==
    /\ \A c \in Clients : event[c] <= next_seq
    /\ \A c \in Clients : cpc[c] = "returned" => shutdown \/ event[c] <= retired_seq
    /\ NoStaleWait

\* The inductive invariant.
IInv == /\ TypeOK
        /\ QueueInv
        /\ WorkerInv
        /\ FinishedInv
        /\ RetiredInv
        /\ ClientInv
        /\ ExitMeansDrained

-----------------------------------------------------------------------------
\* Taking the oldest job off a non-empty queue and posting a new one.
LEMMA QueueTail ==
    ASSUME NEW q \in Seq(Nat), q # <<>>
    PROVE  /\ Len(q) \in Nat \ {0}
           /\ Head(q) = q[1]
           /\ Tail(q) \in Seq(Nat)
           /\ Len(Tail(q)) = Len(q) - 1
           /\ \A i \in 1 .. Len(q) - 1 : Tail(q)[i] = q[i + 1]
<1>1. Len(q) \in Nat /\ Len(q) # 0
  BY EmptySeq
<1> QED
  BY <1>1, HeadTailProperties

LEMMA QueueAppend ==
    ASSUME NEW q \in Seq(Nat), NEW n \in Nat
    PROVE  /\ Append(q, n) \in Seq(Nat)
           /\ Append(q, n) # <<>>
           /\ Len(Append(q, n)) = Len(q) + 1
           /\ \A i \in 1 .. Len(q) : Append(q, n)[i] = q[i]
           /\ Append(q, n)[Len(q) + 1] = n
  BY AppendProperties

\* What advance_retired computes: everything up to the new value is neither
\* queued nor being processed by a worker.
LEMMA NewRetiredIsFree ==
    ASSUME TypeOK, QueueInv,
           NEW wseq \in [Workers -> Nat],
           NEW r \in 0 .. next_seq, IsNewRetired(wseq, r)
    PROVE  /\ \A w \in Workers : wseq[w] # Idle => wseq[w] > r
           /\ (\A w \in Workers : wseq[w] <= Taken) => r <= Taken
<1> USE DEF TypeOK, Idle
<1>1. Len(queue) \in Nat
  BY LenProperties
<1>2. ASSUME NEW w \in Workers, wseq[w] # Idle
      PROVE  wseq[w] > r
  <2>1. wseq[w] \in Unretired(wseq)
    BY <1>2 DEF Unretired
  <2> QED
    BY <2>1 DEF IsNewRetired
<1>3. ASSUME \A w \in Workers : wseq[w] <= Taken
      PROVE  r <= Taken
  <2>1. CASE queue = <<>>
    <3>1. Len(queue) = 0
      BY <2>1, EmptySeq
    <3> QED
      BY <3>1 DEF Taken
  <2>2. CASE queue # <<>>
    <3>1. Len(queue) >= 1 /\ Head(queue) = Taken + 1
      BY <1>1, <2>2, QueueTail DEF QueueInv
    <3>2. Head(queue) \in Unretired(wseq)
      BY <2>2 DEF Unretired
    <3> QED
      BY <1>1, <3>1, <3>2 DEF IsNewRetired, Taken
  <2> QED
    BY <2>1, <2>2
<1> QED
  BY <1>2, <1>3

-----------------------------------------------------------------------------
LEMMA InitIInv == Init => IInv
<1> SUFFICES ASSUME Init
             PROVE  IInv
  OBVIOUS
<1> USE DEF Init, Idle
<1>1. queue \in Seq(Nat) /\ Len(queue) = 0
  BY EmptySeq
<1>2. TypeOK
  BY <1>1 DEF TypeOK
<1>3. QueueInv
  BY <1>1 DEF QueueInv, Taken
<1>4. WorkerInv
  BY <1>1 DEF WorkerInv, Taken
<1>5. FinishedInv
  BY <1>1 DEF FinishedInv, Taken
<1>6. RetiredInv
  BY <1>1 DEF RetiredInv, RetiredJobsFinished, Taken
<1>7. ClientInv
  BY DEF ClientInv, NoStaleWait
<1>8. ExitMeansDrained
  BY DEF ExitMeansDrained
<1> QED
  BY <1>2, <1>3, <1>4, <1>5, <1>6, <1>7, <1>8 DEF IInv

-----------------------------------------------------------------------------
\* The steps that move work.
LEMMA PostIInv == IInv /\ Post => IInv'
<1> SUFFICES ASSUME IInv, Post
             PROVE  IInv'
  OBVIOUS
<1> USE DEF IInv, TypeOK, Post
<1>1. /\ Len(queue) \in Nat
      /\ queue' \in Seq(Nat)
      /\ Len(queue') = Len(queue) + 1
      /\ \A i \in 1 .. Len(queue) : queue'[i] = queue[i]
      /\ queue'[Len(queue) + 1] = next_seq + 1
      /\ queue' # <<>>
  BY QueueAppend, LenProperties
<1>2. Taken' = Taken
  BY <1>1 DEF Taken
<1>3. /\ wpc' \in [Workers -> {"check", "wait", "run", "finish", "exit"}]
      /\ \A w \in Workers : wpc'[w] # wpc[w] => wpc[w] = "wait" /\ wpc'[w] = "check"
  BY DEF SignalOne
<1>4. TypeOK'
  BY <1>1, <1>3
<1>5. QueueInv'
  <2>1. Taken \in Int /\ Taken + Len(queue') = next_seq'
    BY <1>1 DEF Taken
  <2>2. Len(queue') <= next_seq'
    BY <1>1 DEF QueueInv
  <2>3. ASSUME NEW i \in 1 .. Len(queue')
        PROVE  queue'[i] = Taken' + i
    <3>1. CASE i \in 1 .. Len(queue)
      BY <1>1, <1>2, <3>1 DEF QueueInv
    <3>2. CASE i = Len(queue) + 1
      BY <1>1, <1>2, <2>1, <3>2
    <3> QED
      BY <1>1, <3>1, <3>2
  <2> QED
    BY <2>2, <2>3 DEF QueueInv
<1>6. WorkerInv'
  BY <1>2, <1>3 DEF WorkerInv
<1>7. FinishedInv'
  BY <1>2, <1>3 DEF FinishedInv
<1>8. RetiredInv'
  BY <1>2 DEF RetiredInv, RetiredJobsFinished
<1>9. ClientInv'
  BY DEF ClientInv, NoStaleWait
<1>10. ExitMeansDrained'
  BY <1>1, <1>3 DEF ExitMeansDrained
<1> QED
  BY <1>4, <1>5, <1>6, <1>7, <1>8, <1>9, <1>10

LEMMA TakeIInv ==
    ASSUME NEW w \in Workers, IInv, WorkerTake(w)
    PROVE  IInv'
<1> USE DEF IInv, TypeOK, WorkerTake, Idle
<1>1. /\ Len(queue) \in Nat \ {0}
      /\ Head(queue) = Taken + 1
      /\ queue' \in Seq(Nat)
      /\ Len(queue') = Len(queue) - 1
      /\ \A i \in 1 .. Len(queue') : queue'[i] = queue[i + 1]
  BY QueueTail DEF QueueInv
<1>2. Taken' = Taken + 1 /\ Taken \in Nat
  BY <1>1 DEF Taken, QueueInv
<1>3. TypeOK'
  BY <1>1, <1>2
<1>4. QueueInv'
  BY <1>1, <1>2 DEF QueueInv
<1>5. WorkerInv'
  BY <1>1, <1>2 DEF WorkerInv, RetiredInv
<1>6. FinishedInv'
  <2>1. finished' \subseteq 1 .. Taken'
    BY <1>2 DEF FinishedInv
  <2>2. ASSUME NEW s \in 1 .. Taken'
        PROVE  s \in finished' \/ \E v \in Workers : wpc'[v] = "run" /\ worker_seq'[v] = s
    <3>1. CASE s = Taken + 1
      BY <1>1, <3>1
    <3>2. CASE s \in 1 .. Taken
      <4>1. PICK v \in Workers : s \in finished \/ (wpc[v] = "run" /\ worker_seq[v] = s)
        BY <3>2 DEF FinishedInv
      <4> QED
        BY <4>1
    <3> QED
      BY <1>2, <3>1, <3>2
  <2>3. \A v \in Workers : wpc'[v] = "run" => worker_seq'[v] \notin finished'
    BY <1>1, <1>2 DEF FinishedInv
  <2> QED
    BY <2>1, <2>2, <2>3 DEF FinishedInv
<1>7. RetiredInv'
  BY <1>2 DEF RetiredInv, RetiredJobsFinished
<1>8. ClientInv'
  BY DEF ClientInv, NoStaleWait
<1>9. ExitMeansDrained'
  BY DEF ExitMeansDrained
<1> QED
  BY <1>3, <1>4, <1>5, <1>6, <1>7, <1>8, <1>9

LEMMA RunIInv ==
    ASSUME NEW w \in Workers, IInv, WorkerRun(w)
    PROVE  IInv'
<1> USE DEF IInv, TypeOK, WorkerRun, Idle
<1>1. Taken' = Taken /\ Taken \in Nat
  BY LenProperties DEF Taken, QueueInv
<1>2. worker_seq[w] \in 1 .. Taken
  BY <1>1 DEF WorkerInv
<1>3. TypeOK'
  OBVIOUS
<1>4. QueueInv'
  BY <1>1 DEF QueueInv
<1>5. WorkerInv'
  BY <1>1 DEF WorkerInv
<1>6. FinishedInv'
  <2>1. finished' \subseteq 1 .. Taken'
    BY <1>1, <1>2 DEF FinishedInv
  <2>2. ASSUME NEW s \in 1 .. Taken'
        PROVE  s \in finished' \/ \E v \in Workers : wpc'[v] = "run" /\ worker_seq'[v] = s
    <3>1. PICK v \in Workers : s \in finished \/ (wpc[v] = "run" /\ worker_seq[v] = s)
      BY <1>1 DEF FinishedInv
    <3>2. CASE v = w
      BY <3>1, <3>2
    <3>3. CASE v # w
      BY <3>1, <3>3
    <3> QED
      BY <3>2, <3>3
  <2>3. \A v \in Workers : wpc'[v] = "run" => worker_seq'[v] \notin finished'
    BY DEF FinishedInv, WorkerInv
  <2> QED
    BY <2>1, <2>2, <2>3 DEF FinishedInv
<1>7. RetiredInv'
  BY <1>1 DEF RetiredInv, RetiredJobsFinished
<1>8. ClientInv'
  BY DEF ClientInv, NoStaleWait
<1>9. ExitMeansDrained'
  BY DEF ExitMeansDrained
<1> QED
  BY <1>3, <1>4, <1>5, <1>6, <1>7, <1>8, <1>9

\* The step that retires.  Whatever is not above the new retired_seq has been
\* taken and no worker runs it, so it is finished.
LEMMA FinishIInv ==
    ASSUME NEW w \in Workers, IInv, WorkerFinish(w)
    PROVE  IInv'
<1> USE DEF IInv, TypeOK, WorkerFinish, Idle
<1>1. /\ Taken' = Taken
      /\ Taken \in Nat
      /\ Taken <= next_seq
  BY LenProperties DEF Taken, QueueInv
<1>2. worker_seq' \in [Workers -> Nat]
  OBVIOUS
<1>3. \A v \in Workers : worker_seq'[v] # Idle => v # w /\ worker_seq'[v] = worker_seq[v]
  OBVIOUS
<1>4. PICK r \in 0 .. next_seq :
         /\ IsNewRetired(worker_seq', r)
         /\ IF r > retired_seq
            THEN /\ retired_seq' = r
                 /\ cpc' = [c \in Clients |-> IF cpc[c] = "wait" THEN "check" ELSE cpc[c]]
            ELSE UNCHANGED <<retired_seq, cpc>>
  BY DEF AdvanceRetired
<1>5. \A v \in Workers : worker_seq'[v] <= Taken
  BY <1>1 DEF WorkerInv
<1>6. /\ \A v \in Workers : worker_seq'[v] # Idle => worker_seq'[v] > r
      /\ r <= Taken
  BY <1>2, <1>4, <1>5, NewRetiredIsFree
<1>7. retired_seq' \in {r, retired_seq} /\ retired_seq' >= retired_seq /\ retired_seq' \in Nat
  BY <1>4
<1>8. TypeOK'
  BY <1>2, <1>4, <1>7
<1>9. QueueInv'
  BY <1>1 DEF QueueInv
<1>10. WorkerInv'
  BY <1>1, <1>3, <1>5, <1>6, <1>7 DEF WorkerInv
<1>11. FinishedInv'
  <2>1. ASSUME NEW s \in 1 .. Taken', s \notin finished'
        PROVE  \E v \in Workers : wpc'[v] = "run" /\ worker_seq'[v] = s
    <3>1. PICK v \in Workers : wpc[v] = "run" /\ worker_seq[v] = s
      BY <1>1, <2>1 DEF FinishedInv
    <3> QED
      BY <3>1
  <2> QED
    BY <1>1, <2>1 DEF FinishedInv
<1>12. RetiredInv'
  <2>1. ASSUME NEW s \in 1 .. retired_seq'
        PROVE  s \in finished
    <3>1. CASE s <= retired_seq
      BY <1>7, <3>1 DEF RetiredInv, RetiredJobsFinished
    <3>2. CASE s > retired_seq
      <4>1. s <= r /\ s \in 1 .. Taken
        BY <1>1, <1>6, <1>7, <3>2
      <4>2. ASSUME NEW v \in Workers, wpc[v] = "run", worker_seq[v] = s
            PROVE  FALSE
        <5>1. v # w /\ worker_seq'[v] = s
          BY <4>2
        <5>2. s > r
          BY <1>6, <5>1
        <5> QED
          BY <4>1, <5>2
      <4> QED
        BY <4>1, <4>2 DEF FinishedInv
    <3> QED
      BY <1>7, <3>1, <3>2
  <2>2. retired_seq' <= Taken'
    BY <1>1, <1>6, <1>7 DEF RetiredInv
  <2> QED
    BY <2>1, <2>2 DEF RetiredInv, RetiredJobsFinished
<1>13. ClientInv'
  <2>1. \A c \in Clients : event'[c] <= next_seq'
    BY DEF ClientInv
  <2>2. ASSUME NEW c \in Clients, cpc'[c] = "returned", ~shutdown'
        PROVE  event'[c] <= retired_seq'
    <3>1. cpc[c] = "returned" /\ ~shutdown
      BY <1>4, <2>2
    <3>2. event[c] <= retired_seq
      BY <3>1 DEF ClientInv
    <3> QED
      BY <1>7, <3>2
  <2>3. NoStaleWait'
    BY <1>4, <1>7 DEF ClientInv, NoStaleWait
  <2> QED
    BY <2>1, <2>2, <2>3 DEF ClientInv
<1>14. ExitMeansDrained'
  BY DEF ExitMeansDrained
<1> QED
  BY <1>8, <1>9, <1>10, <1>11, <1>12, <1>13, <1>14

-----------------------------------------------------------------------------
\* The steps that only change where a thread is.
LEMMA ThreadIInv ==
    ASSUME NEW w \in Workers, IInv,
           WorkerWait(w) \/ WorkerExit(w) \/ WorkerSpuriousWakeup(w)
    PROVE  IInv'
<1> USE DEF IInv, TypeOK, WorkerWait, WorkerExit, WorkerSpuriousWakeup
<1>1. /\ UNCHANGED <<queue, worker_seq, next_seq, retired_seq, shutdown, cpc,
                     event, finished>>
      /\ wpc[w] \in {"check", "wait"}
      /\ wpc' = [wpc EXCEPT ![w] = wpc'[w]]
      /\ wpc'[w] \in {"check", "wait", "exit"}
      /\ wpc'[w] = "exit" => shutdown /\ queue = <<>>
  OBVIOUS
<1>2. Taken' = Taken
  BY <1>1 DEF Taken
<1>3. TypeOK'
  BY <1>1
<1>4. QueueInv'
  BY <1>1, <1>2 DEF QueueInv
<1>5. WorkerInv'
  BY <1>1, <1>2 DEF WorkerInv
<1>6. FinishedInv'
  BY <1>1, <1>2 DEF FinishedInv
<1>7. RetiredInv'
  BY <1>1, <1>2 DEF RetiredInv, RetiredJobsFinished
<1>8. ClientInv'
  BY <1>1 DEF ClientInv, NoStaleWait
<1>9. ExitMeansDrained'
  BY <1>1 DEF ExitMeansDrained
<1> QED
  BY <1>3, <1>4, <1>5, <1>6, <1>7, <1>8, <1>9

LEMMA DestroyIInv == IInv /\ Destroy => IInv'
<1> SUFFICES ASSUME IInv, Destroy
             PROVE  IInv'
  OBVIOUS
<1> USE DEF IInv, TypeOK, Destroy
<1>1. \A w \in Workers : wpc'[w] # wpc[w] => wpc[w] = "wait" /\ wpc'[w] = "check"
  OBVIOUS
<1>2. Taken' = Taken
  BY DEF Taken
<1>3. TypeOK'
  OBVIOUS
<1>4. QueueInv'
  BY <1>2 DEF QueueInv
<1>5. WorkerInv'
  BY <1>1, <1>2 DEF WorkerInv
<1>6. FinishedInv'
  BY <1>1, <1>2 DEF FinishedInv
<1>7. RetiredInv'
  BY <1>2 DEF RetiredInv, RetiredJobsFinished
<1>8. ClientInv'
  BY DEF ClientInv, NoStaleWait
<1>9. ExitMeansDrained'
  BY <1>1 DEF ExitMeansDrained
<1> QED
  BY <1>3, <1>4, <1>5, <1>6, <1>7, <1>8, <1>9

LEMMA ClientStepIInv ==
    ASSUME NEW c \in Clients, IInv, Record(c) \/ EventWait(c)
    PROVE  IInv'
<1> USE DEF IInv, TypeOK, Record, EventWait
<1>1. UNCHANGED <<queue, worker_seq, next_seq, retired_seq, shutdown, wpc, finished>>
  OBVIOUS
<1>2. Taken' = Taken
  BY <1>1 DEF Taken
<1>3. TypeOK'
  OBVIOUS
<1>4. QueueInv'
  BY <1>1, <1>2 DEF QueueInv
<1>5. WorkerInv'
  BY <1>1, <1>2 DEF WorkerInv
<1>6. FinishedInv'
  BY <1>1, <1>2 DEF FinishedInv
<1>7. RetiredInv'
  BY <1>1, <1>2 DEF RetiredInv, RetiredJobsFinished
<1>8. ClientInv'
  <2>1. CASE Record(c)
    BY <2>1 DEF ClientInv, NoStaleWait
  <2>2. CASE EventWait(c)
    <3>1. /\ cpc'[c] = "wait" => retired_seq < event[c]
          /\ cpc'[c] = "returned" => shutdown \/ event[c] <= retired_seq
      BY <2>2
    <3>2. \A d \in Clients : d # c => cpc'[d] = cpc[d]
      BY <2>2
    <3>3. event' = event
      BY <2>2
    <3> QED
      BY <1>1, <3>1, <3>2, <3>3 DEF ClientInv, NoStaleWait
  <2> QED
    BY <2>1, <2>2
<1>9. ExitMeansDrained'
  BY <1>1 DEF ExitMeansDrained
<1> QED
  BY <1>3, <1>4, <1>5, <1>6, <1>7, <1>8, <1>9

LEMMA NextIInv == IInv /\ [Next]_vars => IInv'
<1> SUFFICES ASSUME IInv, [Next]_vars
             PROVE  IInv'
  OBVIOUS
<1>1. CASE Post
  BY <1>1, PostIInv
<1>2. CASE Destroy
  BY <1>2, DestroyIInv
<1>3. ASSUME NEW w \in Workers, WorkerStep(w) \/ WorkerSpuriousWakeup(w)
      PROVE  IInv'
  BY <1>3, TakeIInv, RunIInv, FinishIInv, ThreadIInv DEF WorkerStep
<1>4. ASSUME NEW c \in Clients, Record(c) \/ EventWait(c)
      PROVE  IInv'
  BY <1>4, ClientStepIInv
<1>5. CASE UNCHANGED vars
  BY <1>5 DEF vars, IInv, TypeOK, QueueInv, WorkerInv, FinishedInv, RetiredInv,
              RetiredJobsFinished, ClientInv, NoStaleWait, ExitMeansDrained, Taken
<1> QED
  BY <1>1, <1>2, <1>3, <1>4, <1>5 DEF Next, Terminated

LEMMA AlwaysIInv == Spec => []IInv
  BY InitIInv, NextIInv, PTL DEF Spec

-----------------------------------------------------------------------------
\* The state of the queue keeps its type.
THEOREM QueueTypeCorrect == Spec => []TypeOK
<1>1. IInv => TypeOK
  BY DEF IInv
<1> QED
  BY <1>1, AlwaysIInv, PTL

\* A retired sequence number means that every job up to it has returned, for
\* any number of workers and jobs and any order in which they finish
\* (advance_retired).
THEOREM RetiredMeansFinished == Spec => []RetiredJobsFinished
<1>1. IInv => RetiredJobsFinished
  BY DEF IInv, RetiredInv
<1> QED
  BY <1>1, AlwaysIInv, PTL

\* A client whose io_event_wait has returned on a live queue finds every job
\* posted before its event finished.
THEOREM WaitIsSound == Spec => []WaitMeansFinished
<1>1. IInv => WaitMeansFinished
  <2> SUFFICES ASSUME IInv, NEW c \in Clients, cpc[c] = "returned", ~shutdown,
                      NEW s \in 1 .. event[c]
               PROVE  s \in finished
    BY DEF WaitMeansFinished
  <2>1. event[c] <= retired_seq
    BY DEF IInv, ClientInv
  <2>2. event[c] \in Nat /\ retired_seq \in Nat
    BY DEF IInv, TypeOK
  <2>3. s \in 1 .. retired_seq
    BY <2>1, <2>2
  <2> QED
    BY <2>3 DEF IInv, RetiredInv, RetiredJobsFinished
<1> QED
  BY <1>1, AlwaysIInv, PTL

\* No job is lost or run twice: at any time a posted job is in the queue, with
\* one worker, or finished (io_queue_post, worker_thread).
THEOREM JobsRunOnce == Spec => []EachJobOnePlace
<1>1. IInv => EachJobOnePlace
  <2> SUFFICES ASSUME IInv
               PROVE  EachJobOnePlace
    OBVIOUS
  <2> DEFINE queued == {queue[i] : i \in DOMAIN queue}
             running == {worker_seq[w] : w \in {v \in Workers : wpc[v] = "run"}}
  <2>1. /\ Len(queue) \in Nat
        /\ DOMAIN queue = 1 .. Len(queue)
        /\ Taken \in 0 .. next_seq
        /\ next_seq \in Nat
    BY LenProperties DEF IInv, TypeOK, QueueInv, Taken
  <2>2. queued = Taken + 1 .. next_seq
    <3>1. queued \subseteq Taken + 1 .. next_seq
      BY <2>1 DEF IInv, QueueInv, Taken
    <3>2. ASSUME NEW s \in Taken + 1 .. next_seq
          PROVE  s \in queued
      <4>1. s - Taken \in DOMAIN queue /\ queue[s - Taken] = s
        BY <2>1 DEF IInv, QueueInv, Taken
      <4> QED
        BY <4>1
    <3> QED
      BY <3>1, <3>2
  <2>3. running \subseteq 1 .. Taken
    BY <2>1 DEF IInv, TypeOK, WorkerInv, Idle
  <2>4. finished \subseteq 1 .. Taken
    BY DEF IInv, FinishedInv
  <2>5. 1 .. Taken \subseteq running \union finished
    BY DEF IInv, FinishedInv
  <2>6. running \intersect finished = {}
    BY DEF IInv, FinishedInv
  <2> HIDE DEF queued, running
  <2>7. queued \union running \union finished = 1 .. next_seq
    <3>1. 1 .. Taken \subseteq 1 .. next_seq
      BY <2>1
    <3>2. queued \subseteq 1 .. next_seq
      BY <2>1, <2>2
    <3>3. 1 .. next_seq \subseteq 1 .. Taken \union queued
      BY <2>1, <2>2
    <3> QED
      BY <2>3, <2>4, <2>5, <3>1, <3>2, <3>3
  <2>8. queued \intersect running = {} /\ queued \intersect finished = {}
    <3>1. queued \intersect (1 .. Taken) = {}
      BY <2>1, <2>2
    <3> QED
      BY <2>3, <2>4, <3>1
  <2>9. \A v, w \in Workers :
           v # w /\ worker_seq[v] # Idle => worker_seq[v] # worker_seq[w]
    BY DEF IInv, WorkerInv
  <2> QED
    BY <2>6, <2>7, <2>8, <2>9 DEF EachJobOnePlace, queued, running
<1> QED
  BY <1>1, AlwaysIInv, PTL

\* io_queue_destroy drains: a worker has left its loop only when the queue is
\* shut down and empty.
THEOREM DestroyDrains == Spec => []ExitMeansDrained
<1>1. IInv => ExitMeansDrained
  BY DEF IInv
<1> QED
  BY <1>1, AlwaysIInv, PTL

\* A client that sleeps in io_event_wait sleeps for a reason: no broadcast of
\* advance_retired was missed.
THEOREM NoClientOversleeps == Spec => []NoStaleWait
<1>1. IInv => NoStaleWait
  BY DEF IInv, ClientInv
<1> QED
  BY <1>1, AlwaysIInv, PTL

\* Posting wakes enough workers: the queue never holds a job while every
\* worker sleeps (the single pthread_cond_signal of io_queue_post).
THEOREM SignalSuffices == Spec => []NoLostSignal
<1> DEFINE Awake(w) == wpc[w] \in {"check", "run", "finish"}
<1>1. Init => NoLostSignal
  BY DEF Init, NoLostSignal
<1>2. IInv /\ NoLostSignal /\ [Next]_vars => NoLostSignal'
  <2> SUFFICES ASSUME IInv, NoLostSignal, [Next]_vars, queue' # <<>>
               PROVE  \E w \in Workers : Awake(w)'
    BY DEF NoLostSignal
  <2> USE DEF IInv, TypeOK
  <2>1. CASE Post
    <3>1. PICK w \in Workers : TRUE
      BY IoQueueAssumption
    <3>2. wpc[w] # "exit"
      BY <2>1 DEF Post, ExitMeansDrained
    <3> QED
      BY <2>1, <3>1, <3>2 DEF Post, SignalOne
  <2>2. CASE Destroy
    BY <2>2 DEF Destroy, NoLostSignal
  <2>3. ASSUME NEW w \in Workers, WorkerStep(w) \/ WorkerSpuriousWakeup(w)
        PROVE  \E v \in Workers : Awake(v)'
    BY <2>3 DEF WorkerStep, WorkerWait, WorkerExit, WorkerTake, WorkerRun,
                WorkerFinish, WorkerSpuriousWakeup, NoLostSignal
  <2>4. ASSUME NEW c \in Clients, Record(c) \/ EventWait(c)
        PROVE  \E w \in Workers : Awake(w)'
    BY <2>4 DEF Record, EventWait, NoLostSignal
  <2>5. CASE UNCHANGED vars
    BY <2>5 DEF vars, NoLostSignal
  <2> QED
    BY <2>1, <2>2, <2>3, <2>4, <2>5 DEF Next, Terminated
<1> QED
  BY <1>1, <1>2, AlwaysIInv, PTL DEF Spec

\* retired_seq never goes back: an event reported retired stays retired.
THEOREM RetiredIsMonotonic == Spec => RetiredOnlyGrows
<1>1. IInv /\ [Next]_vars => [retired_seq' >= retired_seq]_vars
  <2> SUFFICES ASSUME IInv, Next
               PROVE  retired_seq' >= retired_seq
    OBVIOUS
  <2>1. retired_seq \in Nat /\ next_seq \in Nat
    BY DEF IInv, TypeOK
  <2>2. ASSUME NEW w \in Workers, WorkerFinish(w)
        PROVE  retired_seq' >= retired_seq
    BY <2>1, <2>2 DEF WorkerFinish, AdvanceRetired
  <2>3. CASE UNCHANGED retired_seq
    BY <2>1, <2>3
  <2> QED
    BY <2>2, <2>3 DEF Next, Post, Destroy, WorkerStep, WorkerWait, WorkerExit,
       WorkerTake, WorkerRun, WorkerSpuriousWakeup, Record, EventWait, Terminated, vars
<1> QED
  BY <1>1, AlwaysIInv, PTL DEF Spec, RetiredOnlyGrows
=============================================================================
