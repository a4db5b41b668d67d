----------------------------- MODULE HashTable -----------------------------
(***************************************************************************)
(* dll/common_hashtable_dll.c: HASH_SIZE buckets, each a chain of nodes    *)
(* (here a sequence), and an iterator that walks bucket by bucket.  The    *)
(* hash of a string is a constant function.  The pure operators take the   *)
(* buckets as a parameter, so that other modules can keep a table too.     *)
(***************************************************************************)
EXTENDS Integers, Sequences

CONSTANTS Keys, Values, NULL, AtEnd, NoIter, HASH_SIZE, Hash

ASSUME SizeAssumption == HASH_SIZE \in Nat \ {0}
ASSUME HashAssumption == Hash \in [Keys -> 0..(HASH_SIZE - 1)]
ASSUME NullAssumption == NULL \in Values
ASSUME MarkAssumption == AtEnd # NoIter /\ {AtEnd, NoIter} \cap Keys = {}

Buckets == 0..(HASH_SIZE - 1)
Node == [key : Keys, value : Values]

(* A context: the bucket and the index in its chain of the current node;   *)
(* at the end current_node is NULL and the bucket -1; no context is freed. *)
Ctx(b, n) == [bucket |-> b, node |-> n]
EndCtx == Ctx(-1, 0)
NoCtx == Ctx(-1, -1)

VARIABLES
  buckets,  \* table->buckets
  ctx,      \* the one iteration under way
  result    \* what the last call returned, <<>> for nothing

vars == <<buckets, ctx, result>>

-----------------------------------------------------------------------------
(* The chains.                                                             *)

FirstMatch(chain, k, i) ==
  /\ i \in DOMAIN chain
  /\ chain[i].key = k
  /\ \A j \in DOMAIN chain : chain[j].key = k => i <= j

Has(chain, k) == \E i \in DOMAIN chain : chain[i].key = k

(* hash_table_get: the first node of the chain with that key, or NULL. *)
GetFrom(t, k) ==
  LET chain == t[Hash[k]] IN
  IF Has(chain, k)
    THEN chain[CHOOSE i \in DOMAIN chain : FirstMatch(chain, k, i)].value
    ELSE NULL

(* hash_table_put: overwrite the first node with that key, or append one.  *)
PutIn(t, k, v) ==
  LET chain == t[Hash[k]] IN
  IF Has(chain, k)
    THEN LET i == CHOOSE n \in DOMAIN chain : FirstMatch(chain, k, n)
         IN [t EXCEPT ![Hash[k]] = [chain EXCEPT ![i] = [key |-> k, value |-> v]]]
    ELSE [t EXCEPT ![Hash[k]] = Append(chain, [key |-> k, value |-> v])]

NonEmptyFrom(t, b) == {i \in Buckets : i >= b /\ t[i] # <<>>}

(* hash_table_next_node: the first bucket from b on that is not empty, or  *)
(* -1, and the context that starts there.                                  *)
FirstCtx(t, b) ==
  IF NonEmptyFrom(t, b) = {} THEN EndCtx
  ELSE Ctx(CHOOSE i \in NonEmptyFrom(t, b) :
             \A j \in NonEmptyFrom(t, b) : i <= j, 1)

NextCtxSkipsChain(t, c) == FirstCtx(t, c.bucket + 1)

(* hash_table_next: along the chain, then to the next bucket in use. *)
NextCtx(t, c) ==
  IF c.node = Len(t[c.bucket]) THEN FirstCtx(t, c.bucket + 1)
  ELSE Ctx(c.bucket, c.node + 1)

-----------------------------------------------------------------------------
TypeOK ==
  /\ buckets \in [Buckets -> Seq(Node)]
  /\ ctx \in {EndCtx, NoCtx} \cup [bucket : Buckets, node : Nat \ {0}]
  /\ result \in Seq(Keys \cup Values \cup {"more", "end"})

(* hash_table_init *)
Init ==
  /\ buckets = [b \in Buckets |-> <<>>]
  /\ ctx = NoCtx
  /\ result = <<>>

Put(k, v) ==
  /\ buckets' = PutIn(buckets, k, v)
  /\ result' = <<>>
  /\ UNCHANGED ctx

(* malloc fails in hash_node_create: the NULL it returns is linked in. *)
PutNoMemory(k) ==
  /\ ~Has(buckets[Hash[k]], k)
  /\ result' = <<>>
  /\ UNCHANGED <<buckets, ctx>>

Get(k) ==
  /\ result' = <<GetFrom(buckets, k)>>
  /\ UNCHANGED <<buckets, ctx>>

Begin ==
  /\ ctx = NoCtx
  /\ ctx' = FirstCtx(buckets, 0)
  /\ result' = <<>>
  /\ UNCHANGED buckets

AtNode == ctx \notin {EndCtx, NoCtx}

Advance ==
  /\ AtNode
  /\ ctx' = NextCtx(buckets, ctx)
  /\ result' = <<>>
  /\ UNCHANGED buckets

(* hash_table_end frees the context when it answers TRUE. *)
End ==
  /\ ctx # NoCtx
  /\ result' = <<IF ctx = EndCtx THEN "end" ELSE "more">>
  /\ ctx' = IF ctx = EndCtx THEN NoCtx ELSE ctx
  /\ UNCHANGED buckets

CurrentValue ==
  LET node == buckets[ctx.bucket][ctx.node] IN
  /\ AtNode
  /\ result' = <<node.key, node.value>>
  /\ UNCHANGED <<buckets, ctx>>

Next ==
  \/ \E k \in Keys : PutNoMemory(k) \/ Get(k) \/ \E v \in Values : Put(k, v)
  \/ Begin \/ Advance \/ End \/ CurrentValue

Spec == Init /\ [][Next]_vars

-----------------------------------------------------------------------------
(* Properties.                                                             *)

SoundTable(t) ==
  \A b \in Buckets : \A i \in DOMAIN t[b] :
    /\ Hash[t[b][i].key] = b
    /\ \A j \in DOMAIN t[b] : t[b][i].key = t[b][j].key => i = j

(* A key is in the chain of its own bucket only, and once at most: put     *)
(* compares the last node of the chain as well (line 54).                  *)
ChainsSound == SoundTable(buckets)

(* A context that is not at the end stands at a node, whatever was put     *)
(* since: nodes are never removed and only ever appended.                  *)
CtxValid == AtNode => ctx.node \in DOMAIN buckets[ctx.bucket]

TableInv == TypeOK /\ ChainsSound /\ CtxValid

(* The contents of a table, and what an iteration at c has yet to visit. *)
Contents(t) ==
  [k \in {x \in Keys : Has(t[Hash[x]], x)} |-> GetFrom(t, k)]
After(t, c) ==
  {k \in Keys : \E b \in Buckets : \E i \in DOMAIN t[b] :
     t[b][i].key = k /\ (b > c.bucket \/ (b = c.bucket /\ i > c.node))}
KeyAt(t, c) ==
  IF c = NoCtx THEN NoIter ELSE IF c = EndCtx THEN AtEnd
  ELSE t[c.bucket][c.node].key

TheMap == INSTANCE KeyedMap WITH
  map <- Contents(buckets),
  cur <- KeyAt(buckets, ctx),
  pending <- IF AtNode THEN After(buckets, ctx) ELSE {}

(* The table is a map, and its iteration visits each key once, in whatever *)
(* order the buckets impose and whatever is put meanwhile.                 *)
ImplementsMap == TheMap!Spec
============================================================================
