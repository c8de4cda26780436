------------------------------- MODULE MCLru -------------------------------
(* Five keys that collide: three share the last cell, the others its         *)
(* neighbour, so that their probe ranges overlap and wrap around.            *)
EXTENDS Lru

CONSTANTS k1, k2, k3, k4, k5

MCHash == k1 :> 7 @@ k2 :> 7 @@ k3 :> 15 @@ k4 :> 0 @@ k5 :> 8
=============================================================================
