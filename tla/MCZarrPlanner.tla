--------------------------- MODULE MCZarrPlanner ---------------------------
(* Model-checking instances of ZarrPlanner.                                 *)
EXTENDS ZarrPlanner, TLC

CONSTANTS a1, a2, a3, s1, s2, s3

\* Two samples share an array and a shard, and one has two shards.
SharedArrayOf == 0 :> a1 @@ 1 :> a1
SharedShardsOf == 0 :> <<s1, s2>> @@ 1 :> <<s2>>

\* Each sample has an array and a shard of its own, and the last one those of
\* the first, which have been evicted when the caches are at their floor.
RoundArrayOf == 0 :> a1 @@ 1 :> a2 @@ 2 :> a3 @@ 3 :> a1
RoundShardsOf == 0 :> <<s1>> @@ 1 :> <<s2>> @@ 2 :> <<s3>> @@ 3 :> <<s1>>

SharedShardArray == s1 :> a1 @@ s2 :> a1 @@ s3 :> a2
RoundShardArray == s1 :> a1 @@ s2 :> a2 @@ s3 :> a3
=============================================================================
