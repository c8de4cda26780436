------------------------------ MODULE MCIoRing ------------------------------
(* Model-checking instance of IoRing.                                      *)
EXTENDS IoRing

CONSTANTS w1, w2, c1

TwoWorkers == {w1, w2}
OneClient == {c1}
=============================================================================
