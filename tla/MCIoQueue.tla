----------------------------- MODULE MCIoQueue -----------------------------
(* Model-checking instance of IoQueue.                                     *)
EXTENDS IoQueue

CONSTANTS w1, w2, w3, c1, c2

ThreeWorkers == {w1, w2, w3}
TwoClients == {c1, c2}
=============================================================================
