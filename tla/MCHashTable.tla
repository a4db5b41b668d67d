---------------------------- MODULE MCHashTable ----------------------------
(* Four keys over four buckets: a chain of up to three nodes between two   *)
(* buckets that stay empty, and a chain of one in the last bucket.         *)
EXTENDS HashTable, TLC

CONSTANTS k1, k2, k3, k4

MCKeys == {k1, k2, k3, k4}
MCHash == k1 :> 1 @@ k2 :> 1 @@ k3 :> 1 @@ k4 :> 3
============================================================================
