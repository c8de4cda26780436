-------------------------- MODULE ExecutorContract --------------------------
(***************************************************************************)
(* The executor on its own, called the way damacy_scheduler_step and       *)
(* damacy_pop call it: batch ids count up from 0, and nothing is called    *)
(* once it has stopped.  This is the specification that an implementation  *)
(* of damacy_executor_ops has to meet; Pipeline uses the same actions.     *)
(***************************************************************************)
EXTENDS Executor

CONSTANT Plans   \* the plans a pipeline may submit

NextId == Cardinality(DOMAIN refs) + Len(inflight)

ExecutorNext ==
    \/ execUp /\ \/ \E plan \in Plans : ExecutorSubmit(plan, NextId)
                 \/ \E done \in SUBSET DOMAIN inflight, freed \in SUBSET held :
                        ExecutorStep(done, freed)
                 \/ ExecutorTake
                 \/ ExecutorStop
    \/ \E id \in DOMAIN refs : Retain(id) \/ Release(id)

ExecutorSpec == ExecutorInit /\ [][ExecutorNext]_executorVars
=============================================================================
