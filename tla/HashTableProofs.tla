-------------------------- MODULE HashTableProofs --------------------------
(***************************************************************************)
(* The table of common_hashtable_dll.c keeps each key once, in its bucket, *)
(* and its iterator stands at a node, for any keys and any hash function.  *)
(***************************************************************************)
EXTENDS HashTable, WellFoundedInduction, TLAPS

Table == [Buckets -> Seq(Node)]

(* In a sound table a key is at one place, which is the first match. *)
LEMMA FirstMatchUnique ==
  ASSUME NEW t \in Table, SoundTable(t), NEW k \in Keys,
         NEW i \in DOMAIN t[Hash[k]], t[Hash[k]][i].key = k
  PROVE  (CHOOSE n \in DOMAIN t[Hash[k]] : FirstMatch(t[Hash[k]], k, n)) = i
<1> DEFINE chain == t[Hash[k]]
<1>1. Hash[k] \in Buckets /\ chain \in Seq(Node)
  BY HashAssumption DEF Table, Buckets
<1>2. \A n \in DOMAIN chain : chain[n].key = k => n = i
  BY <1>1 DEF SoundTable
<1>3. FirstMatch(chain, k, i)
  BY <1>1, <1>2 DEF FirstMatch
<1>4. \A n \in DOMAIN chain : FirstMatch(chain, k, n) => n = i
  BY <1>2 DEF FirstMatch
<1> HIDE DEF chain
<1> QED BY <1>3, <1>4 DEF chain

(* What put does to a sound table: one node of one chain changes its value *)
(* or one node is added at the end of one chain.                           *)
LEMMA PutInEffect ==
  ASSUME NEW t \in Table, SoundTable(t), NEW k \in Keys, NEW v \in Values
  PROVE  LET h == Hash[k]
             u == PutIn(t, k, v)
             node == [key |-> k, value |-> v]
         IN /\ h \in Buckets
            /\ \/ \E i \in DOMAIN t[h] :
                    /\ t[h][i].key = k
                    /\ u = [t EXCEPT ![h] = [t[h] EXCEPT ![i] = node]]
               \/ ~Has(t[h], k) /\ u = [t EXCEPT ![h] = Append(t[h], node)]
<1> DEFINE h == Hash[k]
<1>1. h \in Buckets
  BY HashAssumption DEF Buckets
<1>2. CASE Has(t[h], k)
  <2>1. PICK i \in DOMAIN t[h] : t[h][i].key = k
    BY <1>2 DEF Has
  <2>2. (CHOOSE n \in DOMAIN t[h] : FirstMatch(t[h], k, n)) = i
    BY <2>1, FirstMatchUnique
  <2> QED BY <1>1, <1>2, <2>1, <2>2 DEF PutIn
<1>3. CASE ~Has(t[h], k)
  BY <1>1, <1>3 DEF PutIn
<1> QED BY <1>2, <1>3

(* put yields a table, keeps it sound and removes no place. *)
LEMMA PutInSound ==
  ASSUME NEW t \in Table, SoundTable(t), NEW k \in Keys, NEW v \in Values
  PROVE  /\ PutIn(t, k, v) \in Table
         /\ SoundTable(PutIn(t, k, v))
         /\ \A b \in Buckets : DOMAIN t[b] \subseteq DOMAIN PutIn(t, k, v)[b]
<1> DEFINE h == Hash[k]
           u == PutIn(t, k, v)
           node == [key |-> k, value |-> v]
<1>1. h \in Buckets /\ node \in Node /\ t[h] \in Seq(Node)
  BY HashAssumption DEF Buckets, Node, Table
<1>2. CASE \E i \in DOMAIN t[h] :
             /\ t[h][i].key = k
             /\ u = [t EXCEPT ![h] = [t[h] EXCEPT ![i] = node]]
  <2>1. PICK i \in DOMAIN t[h] :
          /\ t[h][i].key = k
          /\ u = [t EXCEPT ![h] = [t[h] EXCEPT ![i] = node]]
    BY <1>2
  <2>2. [t[h] EXCEPT ![i] = node] \in Seq(Node)
    BY <1>1, <2>1
  <2>3. u \in Table
    BY <1>1, <2>1, <2>2 DEF Table
  <2>4. \A b \in Buckets : DOMAIN u[b] = DOMAIN t[b]
    BY <1>1, <2>1 DEF Table
  <2>5. \A b \in Buckets : \A n \in DOMAIN t[b] : u[b][n].key = t[b][n].key
    BY <1>1, <2>1 DEF Table
  <2>6. SoundTable(u)
    BY <2>4, <2>5 DEF SoundTable
  <2> QED BY <2>3, <2>4, <2>6
<1>3. CASE ~Has(t[h], k) /\ u = [t EXCEPT ![h] = Append(t[h], node)]
  <2>1. u \in Table /\ u[h] = Append(t[h], node)
    BY <1>1, <1>3 DEF Table
  <2>2. \A b \in Buckets \ {h} : u[b] = t[b]
    BY <1>3 DEF Table
  <2>3. \A n \in DOMAIN t[h] : n \in DOMAIN u[h] /\ u[h][n] = t[h][n]
    BY <1>1, <2>1
  <2>4. \A n \in DOMAIN u[h] : n \in DOMAIN t[h] \/ (n = Len(t[h]) + 1 /\ u[h][n] = node)
    BY <1>1, <2>1
  <2>5. \A n \in DOMAIN t[h] : t[h][n].key # k
    BY <1>3 DEF Has
  <2>6. SoundTable(u)
    <3>1. ASSUME NEW n \in DOMAIN u[h]
          PROVE  /\ Hash[u[h][n].key] = h
                 /\ \A m \in DOMAIN u[h] : u[h][n].key = u[h][m].key => n = m
      BY <1>1, <2>3, <2>4, <2>5 DEF SoundTable
    <3> QED BY <2>2, <3>1 DEF SoundTable
  <2> QED BY <2>1, <2>2, <2>3, <2>6
<1>4. \/ \E i \in DOMAIN t[h] :
             /\ t[h][i].key = k
             /\ u = [t EXCEPT ![h] = [t[h] EXCEPT ![i] = node]]
      \/ ~Has(t[h], k) /\ u = [t EXCEPT ![h] = Append(t[h], node)]
  BY PutInEffect
<1> QED BY <1>2, <1>3, <1>4

(* A set of naturals that is not empty has a least element. *)
LEMMA LeastNatural ==
  ASSUME NEW S, S \subseteq Nat, S # {}
  PROVE  \E m \in S : \A n \in S : m <= n
<1> DEFINE R == OpToRel(<, Nat)
<1>1. \A n, m \in Nat : n < m => <<n, m>> \in R
  BY DEF OpToRel
<1>2. IsWellFoundedOn(R, Nat)
  BY NatLessThanWellFounded
<1> HIDE DEF R
<1>3. PICK m \in S : \A n \in S : ~(<<n, m>> \in R)
  BY <1>2, WFMin
<1>4. \A n \in S : ~(n < m)
  BY <1>1, <1>3
<1>5. \A n \in S : m <= n
  BY <1>4
<1> QED BY <1>5

(* The context found from bucket b on: the first node of the first chain   *)
(* that has one, or the end when there is none.                            *)
LEMMA FirstCtxEffect ==
  ASSUME NEW t \in Table, NEW b \in Nat
  PROVE  \/ /\ FirstCtx(t, b) = EndCtx
            /\ \A i \in Buckets : i >= b => t[i] = <<>>
         \/ \E m \in Buckets :
              /\ FirstCtx(t, b) = Ctx(m, 1)
              /\ m >= b /\ t[m] # <<>>
              /\ \A i \in Buckets : i >= b /\ i < m => t[i] = <<>>
<1>1. CASE NonEmptyFrom(t, b) = {}
  BY <1>1 DEF FirstCtx, NonEmptyFrom
<1>2. CASE NonEmptyFrom(t, b) # {}
  <2>1. NonEmptyFrom(t, b) \subseteq Nat
    BY DEF NonEmptyFrom, Buckets
  <2>2. \E i \in NonEmptyFrom(t, b) : \A j \in NonEmptyFrom(t, b) : i <= j
    BY <1>2, <2>1, LeastNatural
  <2>3. PICK m \in NonEmptyFrom(t, b) :
          /\ FirstCtx(t, b) = Ctx(m, 1)
          /\ \A j \in NonEmptyFrom(t, b) : m <= j
    BY <1>2, <2>2 DEF FirstCtx
  <2>4. m \in Buckets /\ m >= b /\ t[m] # <<>>
    BY <2>3 DEF NonEmptyFrom
  <2>5. \A i \in Buckets : i >= b /\ i < m => t[i] = <<>>
    BY <2>3, <2>4, SizeAssumption DEF NonEmptyFrom, Buckets
  <2> QED BY <2>3, <2>4, <2>5
<1> QED BY <1>1, <1>2
-----------------------------------------------------------------------------
(* The invariant.                                                          *)

IsNode(t, c) ==
  /\ c \in [bucket : Buckets, node : Nat \ {0}]
  /\ c.node \in DOMAIN t[c.bucket]

(* A context found from some bucket on is the end or stands at a node.     *)
LEMMA FirstCtxValid ==
  ASSUME NEW t \in Table, NEW b \in Nat
  PROVE  FirstCtx(t, b) = EndCtx \/ IsNode(t, FirstCtx(t, b))
<1>1. CASE \E m \in Buckets : FirstCtx(t, b) = Ctx(m, 1) /\ t[m] # <<>>
  <2>1. PICK m \in Buckets : FirstCtx(t, b) = Ctx(m, 1) /\ t[m] # <<>>
    BY <1>1
  <2>2. 1 \in DOMAIN t[m]
    BY <2>1 DEF Table
  <2> QED BY <2>1, <2>2 DEF Ctx, IsNode
<1> QED BY <1>1, FirstCtxEffect

(* So is the one after a node. *)
LEMMA NextCtxValid ==
  ASSUME NEW t \in Table, NEW c, IsNode(t, c)
  PROVE  NextCtx(t, c) = EndCtx \/ IsNode(t, NextCtx(t, c))
<1>1. c.bucket \in Buckets /\ c.bucket + 1 \in Nat /\ c.node \in Nat \ {0}
  BY DEF IsNode, Buckets
<1>2. CASE c.node = Len(t[c.bucket])
  BY <1>1, <1>2, FirstCtxValid DEF NextCtx
<1>3. CASE c.node # Len(t[c.bucket])
  <2>1. c.node + 1 \in DOMAIN t[c.bucket]
    BY <1>1, <1>3 DEF IsNode, Table
  <2> QED BY <1>1, <1>3, <2>1 DEF NextCtx, IsNode, Ctx
<1> QED BY <1>2, <1>3

(* The empty table satisfies the invariant. *)
LEMMA InitTableInv == Init => TableInv
  BY DEF Init, TableInv, TypeOK, ChainsSound, SoundTable, CtxValid, AtNode

(* Under the invariant the context is free, at the end or at a node. *)
LEMMA CtxCases ==
  TypeOK /\ CtxValid <=>
    /\ buckets \in Table
    /\ result \in Seq(Keys \cup Values \cup {"more", "end"})
    /\ ctx = NoCtx \/ ctx = EndCtx \/ IsNode(buckets, ctx)
  BY DEF TypeOK, CtxValid, AtNode, IsNode, Table, EndCtx, NoCtx, Ctx, Buckets

(* Every call keeps the invariant. *)
LEMMA NextTableInv == TableInv /\ [Next]_vars => TableInv'
<1> SUFFICES ASSUME TableInv, [Next]_vars
             PROVE  TableInv'
  OBVIOUS
<1>t. /\ buckets \in Table /\ SoundTable(buckets)
      /\ result \in Seq(Keys \cup Values \cup {"more", "end"})
      /\ ctx = NoCtx \/ ctx = EndCtx \/ IsNode(buckets, ctx)
  BY CtxCases DEF TableInv, ChainsSound
<1>g. ASSUME buckets' \in Table, SoundTable(buckets'),
             result' \in Seq(Keys \cup Values \cup {"more", "end"}),
             ctx' = NoCtx \/ ctx' = EndCtx \/ IsNode(buckets', ctx')
      PROVE  TableInv'
  BY <1>g DEF TableInv, TypeOK, ChainsSound, CtxValid, AtNode, IsNode, Table
<1>1. ASSUME NEW k \in Keys, NEW v \in Values, Put(k, v)
      PROVE  TableInv'
  <2>1. /\ PutIn(buckets, k, v) \in Table /\ SoundTable(PutIn(buckets, k, v))
        /\ \A b \in Buckets : DOMAIN buckets[b] \subseteq DOMAIN PutIn(buckets, k, v)[b]
    BY <1>t, PutInSound
  <2>2. buckets' = PutIn(buckets, k, v) /\ ctx' = ctx /\ result' = <<>>
    BY <1>1 DEF Put
  <2>3. ctx' = NoCtx \/ ctx' = EndCtx \/ IsNode(buckets', ctx')
    BY <1>t, <2>1, <2>2 DEF IsNode
  <2> QED BY <1>g, <2>1, <2>2, <2>3
<1>2. ASSUME NEW k \in Keys, PutNoMemory(k)
      PROVE  TableInv'
  BY <1>2, <1>t, <1>g DEF PutNoMemory
<1>3. ASSUME NEW k \in Keys, Get(k)
      PROVE  TableInv'
  <2>1. GetFrom(buckets, k) \in Values
    <3>1. CASE Has(buckets[Hash[k]], k)
      <4>1. PICK i \in DOMAIN buckets[Hash[k]] : buckets[Hash[k]][i].key = k
        BY <3>1 DEF Has
      <4>2. GetFrom(buckets, k) = buckets[Hash[k]][i].value
        BY <1>t, <3>1, <4>1, FirstMatchUnique DEF GetFrom
      <4>3. buckets[Hash[k]] \in Seq(Node)
        BY <1>t, HashAssumption DEF Table, Buckets
      <4>4. buckets[Hash[k]][i] \in Node
        BY <4>1, <4>3
      <4> QED BY <4>2, <4>4 DEF Node
    <3>2. CASE ~Has(buckets[Hash[k]], k)
      BY <3>2, NullAssumption DEF GetFrom
    <3> QED BY <3>1, <3>2
  <2> QED BY <1>3, <1>t, <1>g, <2>1 DEF Get
<1>4. CASE Begin
  BY <1>4, <1>t, <1>g, FirstCtxValid DEF Begin
<1>5. CASE Advance
  BY <1>5, <1>t, <1>g, NextCtxValid DEF Advance, AtNode
<1>6. CASE End
  BY <1>6, <1>t, <1>g DEF End
<1>7. CASE CurrentValue
  <2>1. IsNode(buckets, ctx)
    BY <1>7, <1>t DEF CurrentValue, AtNode
  <2>2. buckets[ctx.bucket] \in Seq(Node)
    BY <1>t, <2>1 DEF Table, IsNode
  <2>3. buckets[ctx.bucket][ctx.node] \in Node
    BY <2>1, <2>2 DEF IsNode
  <2> QED BY <1>7, <1>t, <1>g, <2>3 DEF CurrentValue, Node
<1>8. CASE UNCHANGED vars
  BY <1>8, <1>t, <1>g DEF vars
<1> QED
  BY <1>1, <1>2, <1>3, <1>4, <1>5, <1>6, <1>7, <1>8 DEF Next

(* Types, one place per key and a valid iterator in every reachable state. *)
THEOREM TableInvariance == Spec => []TableInv
<1>1. Init => TableInv
  BY InitTableInv
<1>2. TableInv /\ [Next]_vars => TableInv'
  BY NextTableInv
<1> QED
  BY <1>1, <1>2, PTL DEF Spec

-----------------------------------------------------------------------------
(* Refinement of KeyedMap.                                                 *)

From(t, b) ==
  {k \in Keys : \E c \in Buckets : \E i \in DOMAIN t[c] : t[c][i].key = k /\ c >= b}

(* Whatever key a node of a table holds is a key. *)
LEMMA NodeKeys ==
  ASSUME NEW t \in Table, NEW b \in Buckets, NEW i \in DOMAIN t[b]
  PROVE  t[b][i].key \in Keys /\ t[b][i].value \in Values
<1>1. t[b] \in Seq(Node)
  BY DEF Table
<1>2. t[b][i] \in Node
  BY <1>1
<1> QED BY <1>2 DEF Node

(* In a sound table two nodes with one key are the same node. *)
LEMMA OnePlace ==
  ASSUME NEW t \in Table, SoundTable(t),
         NEW b \in Buckets, NEW i \in DOMAIN t[b],
         NEW c \in Buckets, NEW j \in DOMAIN t[c],
         t[b][i].key = t[c][j].key
  PROVE  b = c /\ i = j
  BY DEF SoundTable

(* The contents of a sound table, read off its nodes. *)
LEMMA ContentsOf ==
  ASSUME NEW t \in Table, SoundTable(t)
  PROVE  /\ DOMAIN Contents(t) = From(t, 0)
         /\ \A b \in Buckets : \A i \in DOMAIN t[b] :
              /\ t[b][i].key \in DOMAIN Contents(t)
              /\ Contents(t)[t[b][i].key] = t[b][i].value
<1>1. ASSUME NEW k \in Keys
      PROVE  Has(t[Hash[k]], k) <=> k \in From(t, 0)
  <2>1. Hash[k] \in Buckets /\ \A b \in Buckets : b >= 0
    BY HashAssumption DEF Buckets
  <2> QED BY <2>1 DEF Has, From, SoundTable
<1>2. DOMAIN Contents(t) = From(t, 0)
  BY <1>1 DEF Contents, From
<1>3. ASSUME NEW b \in Buckets, NEW i \in DOMAIN t[b]
      PROVE  /\ t[b][i].key \in DOMAIN Contents(t)
             /\ Contents(t)[t[b][i].key] = t[b][i].value
  <2> DEFINE k == t[b][i].key
  <2>1. k \in Keys /\ Hash[k] = b
    BY NodeKeys DEF SoundTable
  <2>2. Has(t[Hash[k]], k)
    BY <2>1 DEF Has
  <2>3. GetFrom(t, k) = t[b][i].value
    BY <2>1, <2>2, FirstMatchUnique DEF GetFrom
  <2> QED BY <2>1, <2>2, <2>3 DEF Contents
<1> QED BY <1>2, <1>3

(* The first node from a bucket on splits off the keys from there on. *)
LEMMA FirstSplits ==
  ASSUME NEW t \in Table, SoundTable(t), NEW b \in Nat
  PROVE  LET d == FirstCtx(t, b)
         IN \/ d = EndCtx /\ From(t, b) = {}
            \/ /\ IsNode(t, d)
               /\ KeyAt(t, d) \in From(t, b)
               /\ After(t, d) = From(t, b) \ {KeyAt(t, d)}
<1> DEFINE d == FirstCtx(t, b)
<1>1. CASE d = EndCtx /\ \A i \in Buckets : i >= b => t[i] = <<>>
  BY <1>1 DEF From
<1>2. CASE \E m \in Buckets :
             /\ d = Ctx(m, 1) /\ m >= b /\ t[m] # <<>>
             /\ \A i \in Buckets : i >= b /\ i < m => t[i] = <<>>
  <2>1. PICK m \in Buckets :
          /\ d = Ctx(m, 1) /\ m >= b /\ t[m] # <<>>
          /\ \A i \in Buckets : i >= b /\ i < m => t[i] = <<>>
    BY <1>2
  <2>2. t[m] \in Seq(Node) /\ 1 \in DOMAIN t[m]
    BY <2>1 DEF Table
  <2>3. IsNode(t, d) /\ d.bucket = m /\ d.node = 1
    BY <2>1, <2>2 DEF IsNode, Ctx
  <2>4. KeyAt(t, d) = t[m][1].key /\ t[m][1].key \in Keys
    BY <2>1, <2>2, <2>3, NodeKeys DEF KeyAt, Ctx, NoCtx, EndCtx, Buckets
  <2>5. KeyAt(t, d) \in From(t, b)
    BY <2>1, <2>2, <2>4 DEF From
  <2>6. ASSUME NEW k \in Keys, NEW c \in Buckets, NEW i \in DOMAIN t[c], t[c][i].key = k
        PROVE  (c > m \/ (c = m /\ i > 1)) <=> (c >= b /\ k # KeyAt(t, d))
    <3>1. c \in Nat /\ m \in Nat /\ i \in Nat \ {0}
      <4>1. t[c] \in Seq(Node)
        BY DEF Table
      <4> QED BY <4>1 DEF Buckets
    <3>2. c >= b => c >= m
      BY <2>1, <2>6, <3>1
    <3>3. k = KeyAt(t, d) <=> c = m /\ i = 1
      BY <2>2, <2>4, <2>6, OnePlace
    <3> QED BY <2>1, <3>1, <3>2, <3>3
  <2>7. After(t, d) = From(t, b) \ {KeyAt(t, d)}
    BY <2>3, <2>6 DEF After, From
  <2> QED BY <2>3, <2>5, <2>7
<1> QED BY <1>1, <1>2, FirstCtxEffect

(* Moving on from a node splits the key moved to off the ones to come. *)
LEMMA NextSplits ==
  ASSUME NEW t \in Table, SoundTable(t), NEW c, IsNode(t, c)
  PROVE  LET d == NextCtx(t, c)
         IN \/ d = EndCtx /\ After(t, c) = {}
            \/ /\ IsNode(t, d)
               /\ KeyAt(t, d) \in After(t, c)
               /\ After(t, d) = After(t, c) \ {KeyAt(t, d)}
<1> DEFINE d == NextCtx(t, c)
<1>1. /\ c.bucket \in Buckets /\ c.bucket \in Nat /\ c.node \in Nat \ {0}
      /\ t[c.bucket] \in Seq(Node) /\ c.node \in 1..Len(t[c.bucket])
      /\ \A b \in Buckets : \A i \in DOMAIN t[b] : b \in Nat /\ i \in 1..Len(t[b])
  BY DEF IsNode, Buckets, Table
<1>2. CASE c.node = Len(t[c.bucket])
  <2>1. After(t, c) = From(t, c.bucket + 1)
    <3>1. ASSUME NEW b \in Buckets, NEW i \in DOMAIN t[b]
          PROVE  (b > c.bucket \/ (b = c.bucket /\ i > c.node)) <=> b >= c.bucket + 1
      BY <1>1, <1>2
    <3> QED BY <3>1 DEF After, From
  <2> QED BY <1>1, <1>2, <2>1, FirstSplits DEF NextCtx
<1>3. CASE c.node # Len(t[c.bucket])
  <2>1. d = Ctx(c.bucket, c.node + 1) /\ c.node + 1 \in DOMAIN t[c.bucket]
    BY <1>1, <1>3 DEF NextCtx
  <2>2. IsNode(t, d) /\ d.bucket = c.bucket /\ d.node = c.node + 1
    BY <1>1, <2>1 DEF IsNode, Ctx
  <2>3. /\ KeyAt(t, d) = t[c.bucket][c.node + 1].key
        /\ KeyAt(t, d) \in Keys
    BY <1>1, <2>1, <2>2, NodeKeys DEF KeyAt, Ctx, NoCtx, EndCtx
  <2>4. KeyAt(t, d) \in After(t, c)
    BY <1>1, <2>1, <2>3 DEF After
  <2>5. ASSUME NEW k \in Keys, NEW b \in Buckets, NEW i \in DOMAIN t[b], t[b][i].key = k
        PROVE  (b > c.bucket \/ (b = c.bucket /\ i > c.node + 1)) <=>
                 /\ b > c.bucket \/ (b = c.bucket /\ i > c.node)
                 /\ k # KeyAt(t, d)
    <3>1. k = KeyAt(t, d) <=> b = c.bucket /\ i = c.node + 1
      BY <1>1, <2>1, <2>3, <2>5, OnePlace, SMTT(30)
    <3> QED BY <1>1, <3>1, SMTT(30)
  <2>6. After(t, d) = After(t, c) \ {KeyAt(t, d)}
    BY <2>2, <2>5, <2>3 DEF After
  <2> QED BY <2>2, <2>4, <2>6
<1> QED BY <1>2, <1>3

(* put changes the contents at its key and adds that key, if it is new, to *)
(* what an iteration has yet to visit or to what it has behind it.         *)
LEMMA PutContents ==
  ASSUME NEW t \in Table, SoundTable(t), NEW k \in Keys, NEW v \in Values
  PROVE  LET u == PutIn(t, k, v)
         IN /\ Contents(u) = TheMap!With(Contents(t), k, v)
            /\ \A c : IsNode(t, c) =>
                 /\ KeyAt(u, c) = KeyAt(t, c)
                 /\ \/ After(u, c) = After(t, c)
                    \/ /\ k \notin DOMAIN Contents(t)
                       /\ After(u, c) = After(t, c) \cup {k}
<1> DEFINE h == Hash[k]
           u == PutIn(t, k, v)
           node == [key |-> k, value |-> v]
<1>1. /\ h \in Buckets /\ t[h] \in Seq(Node)
      /\ u \in Table /\ SoundTable(u)
  BY PutInSound, HashAssumption DEF Table, Buckets
<1>2. k \in DOMAIN Contents(t) <=> Has(t[h], k)
  BY DEF Contents
<1>3. CASE \E i \in DOMAIN t[h] :
             /\ t[h][i].key = k
             /\ u = [t EXCEPT ![h] = [t[h] EXCEPT ![i] = node]]
  <2>1. PICK i \in DOMAIN t[h] :
          /\ t[h][i].key = k
          /\ u = [t EXCEPT ![h] = [t[h] EXCEPT ![i] = node]]
    BY <1>3
  <2>2. \A b \in Buckets : DOMAIN u[b] = DOMAIN t[b]
    BY <1>1, <2>1 DEF Table
  <2>3. \A b \in Buckets : \A n \in DOMAIN t[b] :
          /\ u[b][n].key = t[b][n].key
          /\ t[b][n].key # k => u[b][n].value = t[b][n].value
    BY <1>1, <2>1 DEF Table
  <2>4. u[h][i] = node
    BY <1>1, <2>1 DEF Table
  <2>5. From(u, 0) = From(t, 0) /\ k \in From(t, 0)
    BY <1>1, <2>1, <2>2, <2>3 DEF From, Buckets
  <2>6. Contents(u)[k] = v
    <3>1. i \in DOMAIN u[h] /\ u[h][i].key = k /\ u[h][i].value = v
      BY <1>1, <2>2, <2>4
    <3> HIDE DEF u, h
    <3> QED BY <1>1, <3>1, ContentsOf
  <2>7. ASSUME NEW x \in From(t, 0), x # k
        PROVE  Contents(u)[x] = Contents(t)[x]
    <3>0. PICK b \in Buckets : \E n \in DOMAIN t[b] : t[b][n].key = x
      BY DEF From
    <3>1. PICK n \in DOMAIN t[b] : t[b][n].key = x
      BY <3>0
    <3>2. Contents(t)[x] = t[b][n].value
      BY <3>1, ContentsOf
    <3>3. n \in DOMAIN u[b] /\ u[b][n].key = x /\ u[b][n].value = t[b][n].value
      BY <2>2, <2>3, <2>7, <3>1
    <3>4. Contents(u)[x] = u[b][n].value
      BY <1>1, <3>3, ContentsOf
    <3> QED BY <3>2, <3>3, <3>4
  <2>8. Contents(u) = TheMap!With(Contents(t), k, v)
    <3>1. DOMAIN Contents(u) = From(t, 0) /\ DOMAIN Contents(t) = From(t, 0)
      BY <1>1, <2>5, ContentsOf
    <3>2. Contents(u) = [x \in DOMAIN Contents(u) |-> Contents(u)[x]]
      BY DEF Contents
    <3>3. From(t, 0) \cup {k} = From(t, 0)
      BY <2>5
    <3> QED BY <2>6, <2>7, <3>1, <3>2, <3>3 DEF TheMap!With
  <2>9. ASSUME NEW c, IsNode(t, c)
        PROVE  KeyAt(u, c) = KeyAt(t, c) /\ After(u, c) = After(t, c)
    <3>1. After(u, c) = After(t, c)
      BY <2>2, <2>3 DEF After
    <3>2. KeyAt(u, c) = KeyAt(t, c)
      BY <2>3, <2>9 DEF KeyAt, IsNode
    <3> QED BY <3>1, <3>2
  <2> QED BY <2>8, <2>9
<1>4. CASE ~Has(t[h], k) /\ u = [t EXCEPT ![h] = Append(t[h], node)]
  <2> DEFINE last == Len(t[h]) + 1
  <2>1. /\ u[h] = Append(t[h], node) /\ last \in DOMAIN u[h] /\ u[h][last] = node
        /\ \A b \in Buckets : b # h => u[b] = t[b]
    BY <1>1, <1>4 DEF Table
  <2>2. \A b \in Buckets : \A n \in DOMAIN t[b] : n \in DOMAIN u[b] /\ u[b][n] = t[b][n]
    BY <1>1, <2>1, SMTT(30)
  <2>3. \A b \in Buckets : \A n \in DOMAIN u[b] :
          n \in DOMAIN t[b] \/ (b = h /\ n = last)
    BY <1>1, <2>1
  <2>4. k \notin DOMAIN Contents(t)
    BY <1>2, <1>4
  <2>5. From(u, 0) = From(t, 0) \cup {k}
    <3>1. h >= 0
      BY <1>1 DEF Buckets
    <3> HIDE DEF u, h, last
    <3> QED BY <1>1, <2>1, <2>2, <2>3, <3>1 DEF From
  <2>6. Contents(u)[k] = v
    BY <1>1, <2>1, ContentsOf
  <2>7. ASSUME NEW x \in From(t, 0)
        PROVE  Contents(u)[x] = Contents(t)[x]
    <3>0. PICK b \in Buckets : \E n \in DOMAIN t[b] : t[b][n].key = x
      BY DEF From
    <3>1. PICK n \in DOMAIN t[b] : t[b][n].key = x
      BY <3>0
    <3>2. Contents(t)[x] = t[b][n].value
      BY <3>1, ContentsOf
    <3>3. n \in DOMAIN u[b] /\ u[b][n] = t[b][n]
      BY <2>2, <3>1
    <3>4. Contents(u)[x] = u[b][n].value
      BY <1>1, <3>1, <3>3, ContentsOf
    <3> QED BY <3>2, <3>3, <3>4
  <2>8. Contents(u) = TheMap!With(Contents(t), k, v)
    <3>1. DOMAIN Contents(u) = From(t, 0) \cup {k} /\ DOMAIN Contents(t) = From(t, 0)
      BY <1>1, <2>5, ContentsOf
    <3>2. Contents(u) = [x \in DOMAIN Contents(u) |-> Contents(u)[x]]
      BY DEF Contents
    <3> QED BY <2>4, <2>6, <2>7, <3>1, <3>2 DEF TheMap!With
  <2>9. ASSUME NEW c, IsNode(t, c)
        PROVE  /\ KeyAt(u, c) = KeyAt(t, c)
               /\ After(u, c) = After(t, c) \/ After(u, c) = After(t, c) \cup {k}
    <3>1. KeyAt(u, c) = KeyAt(t, c)
      BY <2>2, <2>9 DEF KeyAt, IsNode
    <3>2. After(t, c) \subseteq After(u, c)
      BY <2>2 DEF After
    <3>3. After(u, c) \subseteq After(t, c) \cup {k}
      BY <2>1, <2>2, <2>3 DEF After
    <3> QED BY <3>1, <3>2, <3>3
  <2> QED BY <2>4, <2>8, <2>9
<1>5. \/ \E i \in DOMAIN t[h] :
             /\ t[h][i].key = k
             /\ u = [t EXCEPT ![h] = [t[h] EXCEPT ![i] = node]]
      \/ ~Has(t[h], k) /\ u = [t EXCEPT ![h] = Append(t[h], node)]
  BY PutInEffect
<1> QED BY <1>3, <1>4, <1>5

(* get after put: the value of the key that was put, and those of all      *)
(* others as they were.                                                    *)
LEMMA GetAfterPut ==
  ASSUME NEW t \in Table, SoundTable(t), NEW k \in Keys, NEW v \in Values
  PROVE  /\ GetFrom(PutIn(t, k, v), k) = v
         /\ \A x \in Keys \ {k} : GetFrom(PutIn(t, k, v), x) = GetFrom(t, x)
<1> DEFINE u == PutIn(t, k, v)
<1>1. Contents(u) = TheMap!With(Contents(t), k, v)  BY PutContents
<1> HIDE DEF u
<1>2. ASSUME NEW s, NEW x \in Keys
      PROVE  /\ x \in DOMAIN Contents(s) <=> Has(s[Hash[x]], x)
             /\ GetFrom(s, x) = IF x \in DOMAIN Contents(s) THEN Contents(s)[x] ELSE NULL
  BY DEF Contents, GetFrom
<1>3. /\ k \in DOMAIN Contents(u) /\ Contents(u)[k] = v
      /\ \A x \in Keys \ {k} :
           /\ x \in DOMAIN Contents(u) <=> x \in DOMAIN Contents(t)
           /\ x \in DOMAIN Contents(t) => Contents(u)[x] = Contents(t)[x]
  BY <1>1 DEF TheMap!With
<1> QED  BY <1>2, <1>3 DEF u

(* The empty table is the empty map. *)
LEMMA InitImplements == Init => TheMap!Init
<1> SUFFICES ASSUME Init PROVE TheMap!Init
  OBVIOUS
<1>1. \A k \in Keys : ~Has(buckets[Hash[k]], k)
  BY HashAssumption DEF Init, Has, Buckets
<1>2. Contents(buckets) = [k \in {} |-> NULL]
  BY <1>1 DEF Contents
<1> QED BY <1>2 DEF Init, TheMap!Init, KeyAt, AtNode

(* Every call is the call of the same name on the map. *)
LEMMA NextImplements ==
  TableInv /\ [Next]_vars => [TheMap!Next]_(TheMap!vars)
<1> SUFFICES ASSUME TableInv, [Next]_vars
             PROVE  [TheMap!Next]_(TheMap!vars)
  OBVIOUS
<1>t. /\ buckets \in Table /\ SoundTable(buckets)
      /\ ctx = NoCtx \/ ctx = EndCtx \/ IsNode(buckets, ctx)
  BY CtxCases DEF TableInv, ChainsSound
<1>m. NoCtx # EndCtx /\ \A t, c : IsNode(t, c) => c \notin {NoCtx, EndCtx}
  BY DEF IsNode, NoCtx, EndCtx, Ctx, Buckets
<1>k. IsNode(buckets, ctx) => KeyAt(buckets, ctx) \in Keys
  BY <1>t, <1>m, NodeKeys DEF KeyAt, IsNode
<1>1. ASSUME NEW k \in Keys, NEW v \in Values, Put(k, v)
      PROVE  TheMap!Put(k, v)
  <2>1. buckets' = PutIn(buckets, k, v) /\ ctx' = ctx /\ result' = <<>>
    BY <1>1 DEF Put
  <2>2. Contents(buckets)' = TheMap!With(Contents(buckets), k, v)
    BY <1>t, <2>1, PutContents
  <2>3. CASE IsNode(buckets, ctx)
    BY <1>t, <1>m, <2>1, <2>2, <2>3, PutContents DEF TheMap!Put, AtNode
  <2>4. CASE ctx \in {NoCtx, EndCtx}
    BY <2>1, <2>2, <2>4 DEF TheMap!Put, AtNode, KeyAt
  <2> QED BY <1>t, <2>3, <2>4
<1>2. ASSUME NEW k \in Keys, PutNoMemory(k)
      PROVE  TheMap!PutLost(k)
  <2>1. k \notin DOMAIN Contents(buckets)
    BY <1>2 DEF PutNoMemory, Contents
  <2> QED BY <1>2, <2>1 DEF PutNoMemory, TheMap!PutLost, AtNode
<1>3. ASSUME NEW k \in Keys, Get(k)
      PROVE  TheMap!Get(k)
  <2>1. GetFrom(buckets, k) =
          IF k \in DOMAIN Contents(buckets) THEN Contents(buckets)[k] ELSE NULL
    BY DEF Contents, GetFrom
  <2> QED BY <1>3, <2>1 DEF Get, TheMap!Get, AtNode
<1>4. ASSUME NEW d, ctx' = d, buckets' = buckets, NEW keys,
             \/ d = EndCtx /\ keys = {}
             \/ /\ IsNode(buckets, d)
                /\ KeyAt(buckets, d) \in keys
                /\ After(buckets, d) = keys \ {KeyAt(buckets, d)}
      PROVE  TheMap!GoTo(keys)
  BY <1>4, <1>m DEF TheMap!GoTo, AtNode, KeyAt
<1>5. CASE Begin
  <2>1. /\ ctx = NoCtx /\ ctx' = FirstCtx(buckets, 0)
        /\ buckets' = buckets /\ result' = <<>>
    BY <1>5 DEF Begin
  <2>2. TheMap!GoTo(DOMAIN Contents(buckets))
    BY <1>t, <1>4, <2>1, FirstSplits, ContentsOf
  <2>3. TheMap!Begin
    BY <2>1, <2>2 DEF TheMap!Begin, KeyAt
  <2> QED BY <2>3 DEF TheMap!Next
<1>6. CASE Advance
  <2>1. /\ IsNode(buckets, ctx) /\ ctx' = NextCtx(buckets, ctx)
        /\ buckets' = buckets /\ result' = <<>>
    BY <1>6, <1>t DEF Advance, AtNode
  <2>2. TheMap!GoTo(After(buckets, ctx))
    BY <1>t, <1>4, <2>1, NextSplits
  <2>3. TheMap!Advance
    BY <1>k, <1>m, <2>1, <2>2 DEF TheMap!Advance, AtNode
  <2> QED BY <2>3 DEF TheMap!Next
<1>7. CASE End
  <2>1. ctx # NoCtx /\ buckets' = buckets
    BY <1>7 DEF End
  <2>2. ctx = EndCtx <=> KeyAt(buckets, ctx) = AtEnd
    BY <1>t, <1>m, <1>k, <2>1, MarkAssumption DEF KeyAt
  <2>3. KeyAt(buckets, ctx) # NoIter
    BY <1>t, <1>m, <1>k, <2>1, MarkAssumption DEF KeyAt
  <2>4. TheMap!End
    BY <1>7, <1>m, <2>1, <2>2, <2>3 DEF End, TheMap!End, KeyAt, AtNode
  <2> QED BY <2>4 DEF TheMap!Next
<1>8. CASE CurrentValue
  <2>1. IsNode(buckets, ctx) /\ UNCHANGED <<buckets, ctx>>
    BY <1>8, <1>t DEF CurrentValue, AtNode
  <2>2. KeyAt(buckets, ctx) = buckets[ctx.bucket][ctx.node].key
    BY <2>1, <1>m DEF KeyAt
  <2>3. Contents(buckets)[KeyAt(buckets, ctx)] = buckets[ctx.bucket][ctx.node].value
    BY <1>t, <2>1, <2>2, ContentsOf DEF IsNode
  <2>4. TheMap!CurrentValue
    BY <1>8, <1>k, <2>1, <2>2, <2>3 DEF CurrentValue, TheMap!CurrentValue, AtNode
  <2> QED BY <2>4 DEF TheMap!Next
<1>9. CASE UNCHANGED vars
  BY <1>9 DEF vars, TheMap!vars, AtNode
<1> QED
  BY <1>1, <1>2, <1>3, <1>5, <1>6, <1>7, <1>8, <1>9 DEF Next, TheMap!Next

(* The table implements the map. *)
THEOREM TableRefinement == Spec => ImplementsMap
<1>1. Init => TheMap!Init
  BY InitImplements
<1>2. TableInv /\ [Next]_vars => [TheMap!Next]_(TheMap!vars)
  BY NextImplements
<1> QED
  BY <1>1, <1>2, TableInvariance, PTL DEF Spec, ImplementsMap, TheMap!Spec

=============================================================================
