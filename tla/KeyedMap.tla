----------------------------- MODULE KeyedMap -----------------------------
(***************************************************************************)
(* What dll/common_hashtable_dll.h promises its callers: a map from keys   *)
(* to values, and an iteration that visits every key that was there when   *)
(* it began exactly once.  A key put during an iteration may be visited    *)
(* too.  get() of an absent key is NULL.                                   *)
(***************************************************************************)
CONSTANTS Keys, Values, NULL, AtEnd, NoIter

VARIABLES
  map,      \* the contents
  cur,      \* the key an iteration stands at, AtEnd or NoIter
  pending,  \* the keys it has yet to come to
  result    \* what the last call returned, <<>> for nothing

vars == <<map, cur, pending, result>>

Init ==
  /\ map = [k \in {} |-> NULL]
  /\ cur = NoIter
  /\ pending = {}
  /\ result = <<>>

With(m, k, v) == [x \in DOMAIN m \cup {k} |-> IF x = k THEN v ELSE m[x]]

(* A new key is stored, and a running iteration comes to it or not. *)
Put(k, v) ==
  /\ map' = With(map, k, v)
  /\ pending' = pending \/ (k \notin DOMAIN map /\ pending' = pending \cup {k})
  /\ result' = <<>>
  /\ UNCHANGED cur

(* Out of memory: a new key is silently not stored. *)
PutLost(k) ==
  /\ k \notin DOMAIN map
  /\ result' = <<>>
  /\ UNCHANGED <<map, cur, pending>>

Get(k) ==
  /\ result' = <<IF k \in DOMAIN map THEN map[k] ELSE NULL>>
  /\ UNCHANGED <<map, cur, pending>>

GoTo(keys) ==
  \/ /\ keys = {}
     /\ cur' = AtEnd
     /\ pending' = {}
  \/ \E k \in keys :
       /\ cur' = k
       /\ pending' = keys \ {k}

Begin ==
  /\ cur = NoIter
  /\ GoTo(DOMAIN map)
  /\ result' = <<>>
  /\ UNCHANGED map

Advance ==
  /\ cur \in Keys
  /\ GoTo(pending)
  /\ result' = <<>>
  /\ UNCHANGED map

End ==
  /\ cur # NoIter
  /\ result' = <<IF cur = AtEnd THEN "end" ELSE "more">>
  /\ cur' = IF cur = AtEnd THEN NoIter ELSE cur
  /\ UNCHANGED <<map, pending>>

CurrentValue ==
  /\ cur \in Keys
  /\ result' = <<cur, map[cur]>>
  /\ UNCHANGED <<map, cur, pending>>

Next ==
  \/ \E k \in Keys : PutLost(k) \/ Get(k) \/ \E v \in Values : Put(k, v)
  \/ Begin \/ Advance \/ End \/ CurrentValue

Spec == Init /\ [][Next]_vars
============================================================================
