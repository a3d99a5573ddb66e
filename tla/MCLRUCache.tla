----------------------------- MODULE MCLRUCache -----------------------------
(* Bounds for LRUCache: keys of different lengths, and a limit that fits   *)
(* some pairs of entries, but neither every pair nor every single entry.   *)
EXTENDS LRUCache

MCKeyLen == [k \in Keys |-> IF k = "k1" THEN 1 ELSE 2]
=============================================================================
