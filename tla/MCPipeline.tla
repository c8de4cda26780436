----------------------------- MODULE MCPipeline -----------------------------
(* Model-checking instance of Pipeline.                                     *)
EXTENDS Pipeline

CONSTANTS p1, p2, c1, c2

TwoPoppers == {p1, p2}
OnePopper == {p1}
TwoClosers == {c1, c2}
OneCloser == {c1}
ThreadSymmetry == Permutations(TwoPoppers) \union Permutations(TwoClosers)
=============================================================================
