--------------------------- MODULE MCCpuExecutor ---------------------------
(* Model-checking instance of CpuExecutor.                                  *)
EXTENDS CpuExecutor

\* Plan 1 takes two waves, the second with a missing chunk; plan 2 is a
\* missing chunk alone; plan 3 needs more memory than there is.
SmallPlans == 1 .. 3
Read(n) == [chunks |-> n, transfers |-> TRUE]
Fill == [chunks |-> 1, transfers |-> FALSE]
SmallReads == <<
    <<Read(2), Read(1), Fill>>,
    <<Fill>>,
    <<Read(2), Read(2), Read(2)>> >>
=============================================================================
