-------------------------- MODULE MCPrefetchCache --------------------------
(* Keys are interchangeable; owners are ordered by the watermark.            *)
EXTENDS PrefetchCache, TLC

KeySymmetry == Permutations(Keys)
=============================================================================
