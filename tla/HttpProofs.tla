----------------------------- MODULE HttpProofs -----------------------------
(***************************************************************************)
(* Proofs about HttpServer: every response is queued or was sent, once,    *)
(* and whose it is when it goes to another connection, for any number of   *)
(* connections and descriptors and requests in any number of pieces.  And  *)
(* about HttpText: what strip() and splitstr() make of any text, and that  *)
(* the parser reads out of any well-formed request what is written there.  *)
(***************************************************************************)
EXTENDS HttpServer, HttpText, FiniteSetTheorems, SequenceTheorems,
        WellFoundedInduction, TLAPS

(* What holds of 0 and of n + 1 after n holds of every n: a set of         *)
(* counterexamples would have a least one.                                 *)
LEMMA LeastCounterexample ==
  ASSUME NEW Bad, Bad \subseteq Nat, Bad # {}
  PROVE  \E n \in Bad : \A k \in Nat : k < n => k \notin Bad
<1> DEFINE R == OpToRel(<, Nat)
<1>1. \A k, n \in Nat : k < n => <<k, n>> \in R  BY DEF OpToRel
<1>2. IsWellFoundedOn(R, Nat)  BY NatLessThanWellFounded
<1> HIDE DEF R
<1>3. PICK n \in Bad : \A k \in Bad : ~(<<k, n>> \in R)  BY <1>2, WFMin
<1> QED  BY <1>1, <1>3

(* The lowest of a set of naturals, which Min chooses, exists.             *)
LEMMA MinOfNaturals ==
  ASSUME NEW S, S \subseteq Nat, S # {}
  PROVE  Min(S) \in S /\ \A n \in S : Min(S) <= n
<1>1. PICK m \in S : \A k \in Nat : k < m => k \notin S  BY LeastCounterexample
<1>2. \A n \in S : m =< n  BY <1>1
<1> QED  BY <1>2 DEF Min

LEMMA MinOfFds == ASSUME NEW S, S \subseteq Fds, S # {} PROVE Min(S) \in S
<1>1. S \subseteq Nat  BY HttpAssumption DEF Fds
<1> QED  BY <1>1, MinOfNaturals

(* A sequence without its i-th element.                                    *)
LEMMA RemoveAtEffect ==
  ASSUME NEW S, NEW s \in Seq(S), NEW i \in 1..Len(s)
  PROVE  /\ RemoveAt(s, i) \in Seq(S)
         /\ Len(RemoveAt(s, i)) = Len(s) - 1
         /\ \A j \in 1..(Len(s) - 1) :
              RemoveAt(s, i)[j] = s[IF j < i THEN j ELSE j + 1]
<1> DEFINE n == Len(s)
           a == SubSeq(s, 1, i - 1)
           b == SubSeq(s, i + 1, n)
<1>1. n \in Nat /\ i \in Nat /\ 1 <= i /\ i <= n /\ \A j \in 1..n : s[j] \in S
  BY LenProperties, ElementOfSeq
<1>2. a \in Seq(S) /\ Len(a) = i - 1 /\ \A j \in 1..(i - 1) : a[j] = s[j]
  <2>1. /\ a \in Seq(S)
        /\ Len(a) = IF 1 <= i - 1 THEN i - 1 - 1 + 1 ELSE 0
        /\ \A j \in 1..(i - 1 - 1 + 1) : a[j] = s[1 + j - 1]
    BY <1>1, SubSeqProperties
  <2> HIDE DEF a
  <2>2. i - 1 - 1 + 1 = i - 1 /\ Len(a) = i - 1  BY <1>1, <2>1
  <2>3. ASSUME NEW j \in 1..(i - 1) PROVE a[j] = s[j]
    <3>1. 1 + j - 1 = j  OBVIOUS
    <3> QED  BY <2>1, <2>2, <3>1
  <2> QED  BY <2>1, <2>2, <2>3
<1>3. b \in Seq(S) /\ Len(b) = n - i /\ \A j \in 1..(n - i) : b[j] = s[i + j]
  <2>1. /\ b \in Seq(S)
        /\ Len(b) = IF i + 1 <= n THEN n - (i + 1) + 1 ELSE 0
        /\ \A j \in 1..(n - (i + 1) + 1) : b[j] = s[i + 1 + j - 1]
    BY <1>1, SubSeqProperties
  <2> HIDE DEF b
  <2>2. n - (i + 1) + 1 = n - i /\ Len(b) = n - i  BY <1>1, <2>1
  <2>3. ASSUME NEW j \in 1..(n - i) PROVE b[j] = s[i + j]
    <3>1. i + 1 + j - 1 = i + j  BY <1>1
    <3> QED  BY <2>1, <2>2, <3>1
  <2> QED  BY <2>1, <2>2, <2>3
<1>4. RemoveAt(s, i) = a \o b  BY DEF RemoveAt
<1> HIDE DEF a, b
<1>5. /\ a \o b \in Seq(S) /\ Len(a \o b) = Len(a) + Len(b)
      /\ \A j \in 1..(Len(a) + Len(b)) :
           (a \o b)[j] = IF j <= Len(a) THEN a[j] ELSE b[j - Len(a)]
  BY <1>2, <1>3, ConcatProperties
<1>6. Len(a) + Len(b) = n - 1  BY <1>1, <1>2, <1>3
<1>7. ASSUME NEW j \in 1..(n - 1)
      PROVE  (a \o b)[j] = s[IF j < i THEN j ELSE j + 1]
  <2>1. CASE j < i
    <3>1. j \in 1..(i - 1) /\ j <= Len(a)  BY <1>1, <1>2, <2>1
    <3> QED  BY <1>2, <1>5, <1>6, <2>1, <3>1
  <2>2. CASE ~(j < i)
    <3>1. j - Len(a) \in 1..(n - i) /\ ~(j <= Len(a)) /\ i + (j - Len(a)) = j + 1
      BY <1>1, <1>2, <2>2
    <3> QED  BY <1>3, <1>5, <1>6, <2>2, <3>1
  <2> QED  BY <2>1, <2>2
<1> QED  BY <1>4, <1>5, <1>6, <1>7

-----------------------------------------------------------------------------
(* The set and the kernel's table, as in SelectServer: the descriptor in   *)
(* the main thread's hands is open, and in the set only if the worker is   *)
(* about to erase the connection that had the number before.               *)
DescriptorsOK ==
  /\ fds \subseteq Fds
  /\ mpc \in {"accept", "insert"}
  /\ conn \in [Fds -> Conns \cup {0}]
  /\ peer \in [Conns -> {"absent", "connected", "gone"}]
  /\ mpc = "insert" =>
       /\ mfd \in Fds /\ conn[mfd] # 0
       /\ mfd \in fds => wpc = "erase" /\ mfd = Min(todo)
  /\ \A fd \in fds : conn[fd] # 0 \/ (wpc = "erase" /\ fd = Min(todo))

ServesMembers ==
  /\ WorkerHoldsMutex => todo \subseteq fds
  /\ wpc \in {"close", "erase"} => todo # {}
  /\ wpc = "erase" /\ conn[Min(todo)] # 0 => mpc = "insert" /\ mfd = Min(todo)

(* Connections come in the order of their numbers, each to a descriptor.   *)
ConnectionsOK ==
  /\ \A f, g \in Fds : conn[f] = conn[g] /\ conn[f] # 0 => f = g
  /\ \A fd \in Fds : conn[fd] # 0 => peer[conn[fd]] # "absent"
  /\ \A c, d \in Conns : d < c /\ peer[c] # "absent" => peer[d] # "absent"

ResponsesOK ==
  /\ listMsgs \in Seq(Response)
  /\ answers \in [Conns -> Nat]
  /\ got \in [Conns -> Seq(Conns)]
  /\ \A i \in DOMAIN listMsgs : peer[listMsgs[i].to] # "absent"

(* A connection is closed when it was sent something or its client left.   *)
ClosedForAReason ==
  /\ bClosed \in BOOLEAN
  /\ bClosed => WorkerHoldsMutex
  /\ wpc = "close" => bClosed
  /\ wpc \in {"serve", "close"} /\ bClosed =>
       todo # {} /\ (got[conn[Min(todo)]] # <<>> \/ peer[conn[Min(todo)]] = "gone")

(* Disturbed, with a witness that has its descriptor no more: what it was  *)
(* sent remains as it is.                                                  *)
Settled(d) ==
  \E e \in 1..d : \/ answers[e] > 1
                  \/ peer[e] = "gone" /\ got[e] # <<e>> /\ ~Open(e)

Displaced(d, c) == Settled(d) /\ (c = 0 \/ d < c)

(* What is queued under a descriptor, or was sent, is the connection's own *)
(* or from before it.                                                      *)
QueuedExplained ==
  \A i \in DOMAIN listMsgs :
    LET r == listMsgs[i] IN conn[r.fd] # r.to => Displaced(r.to, conn[r.fd])

SentExplained ==
  \A c \in Conns : \A k \in DOMAIN got[c] :
    got[c][k] # c => Displaced(got[c][k], c)

Queued(d) == {i \in DOMAIN listMsgs : listMsgs[i].to = d}
Given(d) == {ck \in UNION {{c} \X DOMAIN got[c] : c \in Conns} : got[ck[1]][ck[2]] = d}

ResponsesCounted ==
  \A d \in Conns :
    /\ IsFiniteSet(Queued(d)) /\ IsFiniteSet(Given(d))
    /\ answers[d] = Cardinality(Queued(d)) + Cardinality(Given(d))

HttpInv ==
  /\ DescriptorsOK /\ ServesMembers /\ ConnectionsOK
  /\ ResponsesOK /\ ClosedForAReason /\ ResponsesCounted
  /\ QueuedExplained /\ SentExplained

-----------------------------------------------------------------------------
(* Counting responses.                                                     *)

LEMMA GivenMembers ==
  ASSUME NEW d, NEW ck
  PROVE  ck \in Given(d) <=> \E c \in Conns : \E k \in DOMAIN got[c] :
                               ck = <<c, k>> /\ got[c][k] = d
BY DEF Given

(* A response that is queued or was sent has been made.                    *)
LEMMA SomeQueuedOrGiven ==
  ASSUME ResponsesCounted, NEW d \in Conns
  PROVE  /\ Cardinality(Queued(d)) \in Nat /\ Cardinality(Given(d)) \in Nat
         /\ Queued(d) # {} => Cardinality(Queued(d)) >= 1
         /\ Given(d) # {} => Cardinality(Given(d)) >= 1
         /\ answers[d] = Cardinality(Queued(d)) + Cardinality(Given(d))
BY FS_CardinalityType, FS_EmptySet DEF ResponsesCounted

(* One response more at the end of the queue.                              *)
LEMMA QueuedMore ==
  ASSUME listMsgs \in Seq(Response), NEW r \in Response,
         listMsgs' = Append(listMsgs, r), NEW d
  PROVE  /\ Queued(d)' = IF r.to = d THEN Queued(d) \cup {Len(listMsgs) + 1} ELSE Queued(d)
         /\ Len(listMsgs) + 1 \notin Queued(d)
<1>1. /\ Len(listMsgs) \in Nat /\ DOMAIN listMsgs = 1..Len(listMsgs)
      /\ listMsgs' \in Seq(Response) /\ Len(listMsgs') = Len(listMsgs) + 1
      /\ \A j \in 1..Len(listMsgs) : listMsgs'[j] = listMsgs[j]
      /\ listMsgs'[Len(listMsgs) + 1] = r
  BY AppendProperties, LenProperties
<1>2. DOMAIN listMsgs' = 1..(Len(listMsgs) + 1)  BY <1>1, LenProperties
<1>3. \A j : j \in 1..(Len(listMsgs) + 1) <=> j \in 1..Len(listMsgs) \/ j = Len(listMsgs) + 1
  BY <1>1
<1> QED  BY <1>1, <1>2, <1>3 DEF Queued

(* One response less in the queue.                                         *)
LEMMA QueuedLess ==
  ASSUME listMsgs \in Seq(Response), NEW i \in DOMAIN listMsgs,
         listMsgs' = RemoveAt(listMsgs, i), NEW d, IsFiniteSet(Queued(d))
  PROVE  /\ IsFiniteSet(Queued(d)')
         /\ Cardinality(Queued(d)') =
              IF listMsgs[i].to = d THEN Cardinality(Queued(d)) - 1 ELSE Cardinality(Queued(d))
<1> DEFINE n == Len(listMsgs)
           later(j) == IF j < i THEN j ELSE j + 1
           S == Queued(d)'
           T == Queued(d) \ {i}
           f == [j \in S |-> later(j)]
<1>1. n \in Nat /\ DOMAIN listMsgs = 1..n  BY LenProperties
<1>2. /\ listMsgs' \in Seq(Response) /\ Len(listMsgs') = n - 1
      /\ \A j \in 1..(n - 1) : listMsgs'[j] = listMsgs[later(j)]
  BY <1>1, RemoveAtEffect
<1>3. DOMAIN listMsgs' = 1..(n - 1)  BY <1>2, LenProperties
<1>4. \A j : j \in S <=> j \in 1..(n - 1) /\ listMsgs[later(j)].to = d
  BY <1>2, <1>3 DEF Queued
<1>5. \A j : j \in T <=> j \in 1..n /\ j # i /\ listMsgs[j].to = d
  BY <1>1 DEF Queued
<1>6. i \in 1..n  BY <1>1
<1> HIDE DEF S, T, n
<1>7. \A j \in S : later(j) \in T
  BY <1>1, <1>4, <1>5, <1>6
<1>8. \A j, k \in S : later(j) = later(k) => j = k
  BY <1>1, <1>4, <1>6
<1>9. ASSUME NEW t \in T PROVE \E j \in S : later(j) = t
  <2>1. CASE t < i
    <3>1. t \in 1..(n - 1) /\ later(t) = t  BY <1>1, <1>5, <1>6, <2>1
    <3>2. t \in S  BY <1>4, <1>5, <3>1
    <3> QED  BY <3>1, <3>2
  <2>2. CASE t > i
    <3>1. t - 1 \in 1..(n - 1) /\ later(t - 1) = t  BY <1>1, <1>5, <1>6, <2>2
    <3>2. t - 1 \in S  BY <1>4, <1>5, <3>1
    <3> QED  BY <3>1, <3>2
  <2> QED  BY <1>1, <1>5, <1>6, <2>1, <2>2
<1>10. f \in Bijection(S, T)
  <2>1. f \in [S -> T] /\ \A j \in S : f[j] = later(j)  BY <1>7
  <2> HIDE DEF f
  <2>2. \A j, k \in S : f[j] = f[k] => j = k  BY <1>8, <2>1
  <2>3. \A t \in T : \E j \in S : f[j] = t  BY <1>9, <2>1
  <2> QED  BY <2>1, <2>2, <2>3 DEF Bijection, Injection, Surjection, IsInjective
<1>11. /\ IsFiniteSet(T)
       /\ Cardinality(T) = IF i \in Queued(d) THEN Cardinality(Queued(d)) - 1
                                              ELSE Cardinality(Queued(d))
  BY FS_RemoveElement DEF T
<1>12. f \in Injection(S, T) /\ f \in Surjection(S, T)  BY <1>10 DEF Bijection
<1>13. IsFiniteSet(S) /\ Cardinality(S) = Cardinality(T)
  BY <1>11, <1>12, FS_Injection
<1>14. i \in Queued(d) <=> listMsgs[i].to = d  BY DEF Queued
<1> QED  BY <1>11, <1>13, <1>14 DEF S

(* One response more that a connection was sent.                           *)
LEMMA GivenMore ==
  ASSUME got \in [Conns -> Seq(Conns)], NEW c \in Conns, NEW x \in Conns,
         got' = [got EXCEPT ![c] = Append(@, x)], NEW d
  PROVE  LET new == <<c, Len(got[c]) + 1>> IN
         /\ Given(d)' = IF x = d THEN Given(d) \cup {new} ELSE Given(d)
         /\ new \notin Given(d)
<1> DEFINE n == Len(got[c])
           new == <<c, n + 1>>
<1>1. /\ got[c] \in Seq(Conns) /\ n \in Nat /\ DOMAIN got[c] = 1..n
      /\ got'[c] = Append(got[c], x) /\ \A e \in Conns : e # c => got'[e] = got[e]
  BY LenProperties
<1>2. /\ DOMAIN got'[c] = 1..(n + 1)
      /\ \A k \in 1..n : got'[c][k] = got[c][k]
      /\ got'[c][n + 1] = x
  BY <1>1, AppendProperties, LenProperties
<1>3. \A k : k \in 1..(n + 1) <=> k \in 1..n \/ k = n + 1  BY <1>1
<1>4. \A ck : ck \in Given(d) <=> \E e \in Conns : \E k \in DOMAIN got[e] :
                                    ck = <<e, k>> /\ got[e][k] = d
  BY GivenMembers
<1>5. \A ck : ck \in Given(d)' <=> \E e \in Conns : \E k \in DOMAIN got'[e] :
                                     ck = <<e, k>> /\ got'[e][k] = d
  BY DEF Given
<1> HIDE DEF n
<1>6. new \notin Given(d)
  <2>1. n + 1 \notin DOMAIN got[c]  BY <1>1
  <2> QED  BY <1>4, <2>1
<1>7. ASSUME NEW ck, ck \in Given(d)' PROVE ck \in Given(d) \/ (x = d /\ ck = new)
  <2>1. PICK e \in Conns : \E k \in DOMAIN got'[e] : ck = <<e, k>> /\ got'[e][k] = d
    BY <1>5, <1>7
  <2>2. PICK k \in DOMAIN got'[e] : ck = <<e, k>> /\ got'[e][k] = d  BY <2>1
  <2>3. CASE e # c  BY <1>1, <1>4, <2>2, <2>3
  <2>4. CASE e = c /\ k \in 1..n  BY <1>1, <1>2, <1>4, <2>2, <2>4
  <2>5. CASE e = c /\ k = n + 1  BY <1>2, <2>2, <2>5
  <2> QED  BY <1>2, <1>3, <2>2, <2>3, <2>4, <2>5
<1>8. ASSUME NEW ck, ck \in Given(d) PROVE ck \in Given(d)'
  <2>1. PICK e \in Conns : \E k \in DOMAIN got[e] : ck = <<e, k>> /\ got[e][k] = d
    BY <1>4, <1>8
  <2>2. PICK k \in DOMAIN got[e] : ck = <<e, k>> /\ got[e][k] = d  BY <2>1
  <2>3. k \in DOMAIN got'[e] /\ got'[e][k] = got[e][k]  BY <1>1, <1>2, <1>3, <2>2
  <2> QED  BY <1>5, <2>2, <2>3
<1>9. x = d => new \in Given(d)'
  <2>1. n + 1 \in DOMAIN got'[c]  BY <1>1, <1>2, <1>3
  <2> QED  BY <1>2, <1>5, <2>1
<1>10. Given(d)' = IF x = d THEN Given(d) \cup {new} ELSE Given(d)
  <2> HIDE DEF new
  <2> QED  BY <1>7, <1>8, <1>9
<1> QED  BY <1>6, <1>10 DEF n

-----------------------------------------------------------------------------
(* Who is settled stays so, and so is everyone after.                      *)

LEMMA SettledMonotone ==
  ASSUME NEW d \in Conns, NEW c \in Conns, d <= c, Settled(d) PROVE Settled(c)
<1>1. 1..d \subseteq 1..c  BY HttpAssumption DEF Conns
<1> QED  BY <1>1 DEF Settled

LEMMA SettledKept ==
  ASSUME HttpInv, ResponsesOK',
         \A e \in Conns : answers'[e] >= answers[e],
         \A e \in Conns : peer[e] = "gone" => peer'[e] = "gone",
         \A e \in Conns : peer[e] = "gone" /\ ~Open(e) => ~Open(e)' /\ got'[e] = got[e],
         NEW d \in Conns, Settled(d)
  PROVE  Settled(d)'
<1>1. PICK e \in 1..d : \/ answers[e] > 1
                        \/ peer[e] = "gone" /\ got[e] # <<e>> /\ ~Open(e)
  BY DEF Settled
<1>2. e \in Conns  BY HttpAssumption DEF Conns
<1>3. CASE answers[e] > 1
  <2>1. answers[e] \in Nat /\ answers'[e] \in Nat /\ answers'[e] >= answers[e]
    BY <1>2 DEF HttpInv, ResponsesOK
  <2>2. answers'[e] > 1  BY <1>3, <2>1
  <2> QED  BY <2>2 DEF Settled
<1>4. CASE peer[e] = "gone" /\ got[e] # <<e>> /\ ~Open(e)
  <2>1. peer'[e] = "gone" /\ got'[e] # <<e>> /\ ~Open(e)'  BY <1>2, <1>4
  <2> QED  BY <2>1 DEF Settled
<1> QED  BY <1>1, <1>3, <1>4

(* What an entry of the queue is.                                          *)
LEMMA QueueEntries ==
  ASSUME ResponsesOK
  PROVE  /\ Len(listMsgs) \in Nat /\ DOMAIN listMsgs = 1..Len(listMsgs)
         /\ \A i \in DOMAIN listMsgs : listMsgs[i] \in Response
         /\ \A i \in DOMAIN listMsgs : listMsgs[i].fd \in Fds /\ listMsgs[i].to \in Conns
         /\ \A c \in Conns : /\ Len(got[c]) \in Nat /\ DOMAIN got[c] = 1..Len(got[c])
                             /\ \A k \in DOMAIN got[c] : got[c][k] \in Conns
<1>1. /\ Len(listMsgs) \in Nat /\ DOMAIN listMsgs = 1..Len(listMsgs)
      /\ \A i \in DOMAIN listMsgs : listMsgs[i] \in Response
  BY LenProperties, ElementOfSeq DEF ResponsesOK
<1>2. ASSUME NEW c \in Conns
      PROVE  /\ Len(got[c]) \in Nat /\ DOMAIN got[c] = 1..Len(got[c])
             /\ \A k \in DOMAIN got[c] : got[c][k] \in Conns
  <2>1. got[c] \in Seq(Conns)  BY DEF ResponsesOK
  <2> QED  BY <2>1, LenProperties, ElementOfSeq
<1> QED  BY <1>1, <1>2 DEF Response

(* Steps that change neither the queue nor what was sent nor whose a       *)
(* descriptor is.                                                          *)
LEMMA ResponsesKept ==
  ASSUME HttpInv, UNCHANGED <<listMsgs, answers, got, conn>>,
         \A c \in Conns : /\ peer'[c] = "absent" <=> peer[c] = "absent"
                          /\ peer[c] = "gone" => peer'[c] = "gone"
  PROVE  /\ ConnectionsOK' /\ ResponsesOK' /\ ResponsesCounted'
         /\ QueuedExplained' /\ SentExplained'
<1>1. conn \in [Fds -> Conns \cup {0}] /\ ConnectionsOK /\ ResponsesOK
  BY DEF HttpInv, DescriptorsOK
<1>2. ConnectionsOK'
  <2>1. \A fd \in Fds : conn[fd] # 0 => peer'[conn[fd]] # "absent"
    BY <1>1 DEF ConnectionsOK
  <2> QED  BY <1>1, <2>1 DEF ConnectionsOK
<1>3. ResponsesOK'  BY <1>1, QueueEntries DEF ResponsesOK
<1>4. ResponsesCounted'
  BY DEF HttpInv, ResponsesCounted, Queued, Given
<1>5. ASSUME NEW d \in Conns, Settled(d) PROVE Settled(d)'
  <2>1. \A e \in Conns : answers'[e] >= answers[e]
    BY <1>1 DEF ResponsesOK
  <2> QED  BY <1>3, <1>5, <2>1, SettledKept DEF Open
<1>6. QueuedExplained'
  BY <1>1, <1>5, QueueEntries DEF HttpInv, QueuedExplained, Displaced
<1>7. SentExplained'
  BY <1>1, <1>5, QueueEntries DEF HttpInv, SentExplained, Displaced
<1> QED  BY <1>2, <1>3, <1>4, <1>6, <1>7

LEMMA InitHttpInv == Init => HttpInv
<1> SUFFICES ASSUME Init PROVE HttpInv
  OBVIOUS
<1>1. DescriptorsOK /\ ServesMembers /\ ConnectionsOK /\ ClosedForAReason
  BY DEF Init, DescriptorsOK, ServesMembers, ConnectionsOK, ClosedForAReason,
         WorkerHoldsMutex
<1>2. /\ listMsgs = <<>> /\ listMsgs \in Seq(Response) /\ DOMAIN listMsgs = {}
      /\ \A c \in Conns : got[c] = <<>> /\ DOMAIN got[c] = {}
      /\ got \in [Conns -> Seq(Conns)]
  BY EmptySeq DEF Init
<1>3. ResponsesOK  BY <1>2 DEF Init, ResponsesOK
<1>4. QueuedExplained /\ SentExplained  BY <1>2 DEF QueuedExplained, SentExplained
<1>5. ASSUME NEW d \in Conns PROVE Queued(d) = {} /\ Given(d) = {}
  <2>1. \A ck : ck \notin Given(d)  BY <1>2, GivenMembers
  <2> QED  BY <1>2, <2>1 DEF Queued
<1>6. ResponsesCounted
  <2>1. \A d \in Conns : answers[d] = 0  BY DEF Init
  <2>2. IsFiniteSet({}) /\ Cardinality({}) = 0  BY FS_EmptySet
  <2>3. ASSUME NEW d \in Conns
        PROVE  /\ IsFiniteSet(Queued(d)) /\ IsFiniteSet(Given(d))
               /\ answers[d] = Cardinality(Queued(d)) + Cardinality(Given(d))
    BY <1>5, <2>1, <2>2
  <2> QED  BY <2>3 DEF ResponsesCounted
<1> QED  BY <1>1, <1>3, <1>4, <1>6 DEF HttpInv

-----------------------------------------------------------------------------
(* One lemma for each kind of step.                                        *)

LEMMA ClientKeeps ==
  ASSUME HttpInv,
         \/ \E c \in Conns : ClientSends(c) \/ ClientLeaves(c)
         \/ Idle \/ UNCHANGED vars
  PROVE  HttpInv'
<1>1. /\ UNCHANGED <<fds, mpc, mfd, wpc, todo, bClosed, listMsgs, conn, answers, got>>
      /\ \/ peer' = peer
         \/ \E c \in Conns : peer[c] = "connected" /\ peer' = [peer EXCEPT ![c] = "gone"]
  BY DEF ClientSends, ClientLeaves, Idle, vars, mainVars, queueVars, clientVars, histVars
<1>2. /\ peer' \in [Conns -> {"absent", "connected", "gone"}]
      /\ \A c \in Conns : /\ peer'[c] = "absent" <=> peer[c] = "absent"
                          /\ peer[c] = "gone" => peer'[c] = "gone"
  BY <1>1 DEF HttpInv, DescriptorsOK
<1>3. DescriptorsOK' /\ ServesMembers'
  BY <1>1, <1>2 DEF HttpInv, DescriptorsOK, ServesMembers, WorkerHoldsMutex
<1>4. ClosedForAReason'
  <2> SUFFICES ASSUME wpc \in {"serve", "close"}, bClosed
               PROVE  got[conn[Min(todo)]] # <<>> \/ peer'[conn[Min(todo)]] = "gone"
    BY <1>1 DEF HttpInv, ClosedForAReason, WorkerHoldsMutex
  <2>1. todo # {} /\ (got[conn[Min(todo)]] # <<>> \/ peer[conn[Min(todo)]] = "gone")
    BY DEF HttpInv, ClosedForAReason
  <2>2. Min(todo) \in fds
    BY <2>1, MinOfFds DEF HttpInv, ServesMembers, DescriptorsOK, WorkerHoldsMutex
  <2>3. conn[Min(todo)] \in Conns
    BY <2>2 DEF HttpInv, DescriptorsOK
  <2> QED  BY <1>2, <2>1, <2>3
<1> QED  BY <1>1, <1>2, <1>3, <1>4, ResponsesKept DEF HttpInv

LEMMA MainInsertKeeps == ASSUME HttpInv, MainInsert PROVE HttpInv'
<1>1. /\ mpc = "insert" /\ mpc' = "accept" /\ wpc \notin {"serve", "close", "erase"}
      /\ fds' = fds \cup {mfd}
      /\ UNCHANGED <<wpc, todo, bClosed, listMsgs, conn, peer, answers, got>>
  BY DEF MainInsert, WorkerHoldsMutex, queueVars, clientVars, histVars
<1>2. mfd \in Fds /\ conn[mfd] # 0  BY <1>1 DEF HttpInv, DescriptorsOK
<1>3. DescriptorsOK' /\ ServesMembers'
  BY <1>1, <1>2 DEF HttpInv, DescriptorsOK, ServesMembers, WorkerHoldsMutex
<1>4. ClosedForAReason'
  BY <1>1 DEF HttpInv, ClosedForAReason, WorkerHoldsMutex
<1> QED  BY <1>1, <1>3, <1>4, ResponsesKept DEF HttpInv

(* The steps of the worker outside its serving pass.                       *)
LEMMA WorkerWaitsKeeps ==
  ASSUME HttpInv,
         \/ WorkerStart \/ WorkerScan \/ WorkerSelect \/ WorkerLock \/ WorkerUnlock
  PROVE  HttpInv'
<1>1. /\ wpc \in {"top", "scan", "select", "lock"} \/ (wpc = "serve" /\ todo = {})
      /\ wpc' \notin {"close", "erase"}
      /\ (wpc = "lock" /\ todo' = fds) \/ (wpc' # "serve" /\ todo' = todo)
      /\ UNCHANGED <<fds, mpc, mfd, bClosed, listMsgs, conn, peer, answers, got>>
  BY DEF WorkerStart, WorkerScan, WorkerSelect, WorkerLock, WorkerUnlock,
         mainVars, queueVars, clientVars, histVars
<1>2. DescriptorsOK' /\ ServesMembers'
  BY <1>1 DEF HttpInv, DescriptorsOK, ServesMembers, WorkerHoldsMutex
<1>3. ~bClosed
  BY <1>1 DEF HttpInv, ClosedForAReason, WorkerHoldsMutex
<1>4. ClosedForAReason'
  BY <1>1, <1>3 DEF HttpInv, ClosedForAReason
<1> QED  BY <1>1, <1>2, <1>4, ResponsesKept DEF HttpInv

LEMMA WorkerEraseKeeps == ASSUME HttpInv, WorkerErase PROVE HttpInv'
<1> DEFINE old == Min(todo)
<1>1. old \in fds /\ old \in Fds
  BY MinOfFds DEF HttpInv, WorkerErase, ServesMembers, DescriptorsOK, WorkerHoldsMutex
<1> HIDE DEF old
<1>2. /\ wpc = "erase" /\ wpc' = "serve" /\ old = Min(todo)
      /\ fds' = fds \ {old} /\ todo' = todo \ {old} /\ ~bClosed'
      /\ bClosed' \in BOOLEAN
      /\ UNCHANGED <<mpc, mfd, listMsgs, conn, peer, answers, got>>
  BY DEF WorkerErase, mainVars, clientVars, histVars, old
<1>3. DescriptorsOK' /\ ServesMembers'
  BY <1>2 DEF HttpInv, DescriptorsOK, ServesMembers, WorkerHoldsMutex
<1>4. ClosedForAReason'  BY <1>2 DEF ClosedForAReason
<1> QED  BY <1>2, <1>3, <1>4, ResponsesKept DEF HttpInv

(* The new connection comes after all others: whatever is left under its   *)
(* descriptor is from before it.                                           *)
LEMMA MainAcceptKeeps ==
  ASSUME HttpInv, NEW c \in Conns, MainAccept(c) PROVE HttpInv'
<1> DEFINE free == {fd \in Fds : conn[fd] = 0}
           new == Min(free)
<1>1. new \in Fds /\ conn[new] = 0
  <2>1. free \subseteq Fds /\ free # {}  BY DEF MainAccept
  <2>2. new \in free  BY <2>1, MinOfFds
  <2> QED  BY <2>2
<1>2. /\ mpc = "accept" /\ mpc' = "insert" /\ mfd' = new
      /\ peer[c] = "absent" /\ \A d \in 1..(c - 1) : peer[d] # "absent"
      /\ conn' = [conn EXCEPT ![new] = c]
      /\ peer' = [peer EXCEPT ![c] = "connected"]
      /\ UNCHANGED <<fds, wpc, todo, bClosed, listMsgs, answers, got>>
  BY DEF MainAccept, queueVars, histVars
<1> HIDE DEF new
<1>3. /\ conn'[new] = c /\ c # 0 /\ c \in Nat
      /\ \A fd \in Fds : fd # new => conn'[fd] = conn[fd]
      /\ peer'[c] = "connected" /\ \A d \in Conns : d # c => peer'[d] = peer[d]
  BY <1>1, <1>2 DEF HttpInv, DescriptorsOK, Conns
<1>4. ASSUME NEW d \in Conns, peer[d] # "absent" PROVE d < c
  <2>1. d # c /\ ~(c < d)  BY <1>2, <1>4 DEF HttpInv, ConnectionsOK
  <2> QED  BY <2>1 DEF Conns
<1>5. new \in fds => wpc = "erase" /\ new = Min(todo)
  BY <1>1 DEF HttpInv, DescriptorsOK
<1>6. wpc = "erase" => Min(todo) \in Fds /\ conn[Min(todo)] = 0
  <2> SUFFICES ASSUME wpc = "erase" PROVE Min(todo) \in Fds /\ conn[Min(todo)] = 0
    OBVIOUS
  <2>1. Min(todo) \in Fds
    BY MinOfFds DEF HttpInv, ServesMembers, DescriptorsOK, WorkerHoldsMutex
  <2> QED  BY <1>2, <2>1 DEF HttpInv, ServesMembers
<1>7. DescriptorsOK'
  <2>1. /\ conn' \in [Fds -> Conns \cup {0}]
        /\ peer' \in [Conns -> {"absent", "connected", "gone"}]
    BY <1>1, <1>2 DEF HttpInv, DescriptorsOK
  <2>2. \A fd \in fds : conn'[fd] # 0 \/ (wpc = "erase" /\ fd = Min(todo))
    BY <1>3 DEF HttpInv, DescriptorsOK
  <2> QED  BY <1>1, <1>2, <1>3, <1>5, <2>1, <2>2 DEF HttpInv, DescriptorsOK
<1>8. ServesMembers'
  BY <1>2, <1>3, <1>6 DEF HttpInv, ServesMembers, WorkerHoldsMutex
<1>9. \A fd \in Fds : conn[fd] # c
  BY <1>2, <1>3 DEF HttpInv, ConnectionsOK
<1>10. ConnectionsOK'
  <2>1. \A f, g \in Fds : conn'[f] = conn'[g] /\ conn'[f] # 0 => f = g
    BY <1>3, <1>9 DEF HttpInv, ConnectionsOK
  <2>2. ASSUME NEW fd \in Fds, conn'[fd] # 0 PROVE peer'[conn'[fd]] # "absent"
    <3>1. CASE fd = new  BY <1>3, <3>1
    <3>2. CASE fd # new
      <4>1. conn'[fd] = conn[fd] /\ conn[fd] \in Conns
        BY <1>3, <2>2, <3>2 DEF HttpInv, DescriptorsOK
      <4>2. peer[conn[fd]] # "absent"
        BY <2>2, <4>1 DEF HttpInv, ConnectionsOK
      <4> QED  BY <1>3, <4>1, <4>2
    <3> QED  BY <3>1, <3>2
  <2>3. ASSUME NEW e \in Conns, NEW d \in Conns, d < e, peer'[e] # "absent"
        PROVE  peer'[d] # "absent"
    <3>1. CASE d = c  BY <1>3, <3>1
    <3>2. CASE d # c /\ e = c
      <4>1. d \in 1..(c - 1)  BY <2>3, <3>2 DEF Conns
      <4> QED  BY <1>2, <1>3, <3>2, <4>1
    <3>3. CASE d # c /\ e # c
      BY <1>3, <2>3, <3>3 DEF HttpInv, ConnectionsOK
    <3> QED  BY <3>1, <3>2, <3>3
  <2> QED  BY <2>1, <2>2, <2>3 DEF ConnectionsOK
<1>11. ResponsesOK'
  BY <1>2, <1>3, QueueEntries DEF HttpInv, ResponsesOK
<1>12. ResponsesCounted'
  BY <1>2 DEF HttpInv, ResponsesCounted, Queued, Given
<1>13. ASSUME NEW d \in Conns, Settled(d) PROVE Settled(d)'
  <2>1. \A e \in Conns : answers'[e] >= answers[e]
    BY <1>2 DEF HttpInv, ResponsesOK
  <2>2. \A e \in Conns : peer[e] = "gone" => peer'[e] = "gone" /\ e # c
    BY <1>2, <1>3
  <2>3. \A e \in Conns : e # c /\ ~Open(e) => ~Open(e)'
    BY <1>3 DEF Open
  <2> QED  BY <1>2, <1>11, <1>13, <2>1, <2>2, <2>3, SettledKept
<1>14. QueuedExplained'
  <2> SUFFICES ASSUME NEW i \in DOMAIN listMsgs, conn'[listMsgs[i].fd] # listMsgs[i].to
               PROVE  Displaced(listMsgs[i].to, conn[listMsgs[i].fd])'
    BY <1>2 DEF QueuedExplained
  <2> DEFINE r == listMsgs[i]
  <2>1. r.fd \in Fds /\ r.to \in Conns /\ peer[r.to] # "absent"
    BY QueueEntries DEF HttpInv, ResponsesOK
  <2>2. CASE r.fd = new
    <3>1. conn[r.fd] # r.to  BY <1>1, <2>1, <2>2 DEF Conns
    <3>2. Settled(r.to)  BY <3>1 DEF HttpInv, QueuedExplained, Displaced
    <3>3. Settled(r.to)'  BY <1>2, <1>13, <2>1, <3>2
    <3>4. r.to < conn'[r.fd]  BY <1>3, <1>4, <2>1, <2>2
    <3> QED  BY <1>2, <3>3, <3>4 DEF Displaced
  <2>3. CASE r.fd # new
    <3>1. conn'[r.fd] = conn[r.fd]  BY <1>3, <2>1, <2>3
    <3>2. Displaced(r.to, conn[r.fd])  BY <3>1 DEF HttpInv, QueuedExplained
    <3> QED  BY <1>2, <1>13, <2>1, <3>1, <3>2 DEF Displaced
  <2> QED  BY <2>2, <2>3
<1>15. SentExplained'
  BY <1>2, <1>13, QueueEntries DEF HttpInv, SentExplained, Displaced
<1>16. ClosedForAReason'
  <2> SUFFICES ASSUME wpc \in {"serve", "close"}, bClosed
               PROVE  got[conn'[Min(todo)]] # <<>> \/ peer'[conn'[Min(todo)]] = "gone"
    BY <1>2 DEF HttpInv, ClosedForAReason, WorkerHoldsMutex
  <2>1. todo # {} /\ (got[conn[Min(todo)]] # <<>> \/ peer[conn[Min(todo)]] = "gone")
    BY DEF HttpInv, ClosedForAReason
  <2>2. Min(todo) \in fds /\ Min(todo) \in Fds
    BY <2>1, MinOfFds DEF HttpInv, ServesMembers, DescriptorsOK, WorkerHoldsMutex
  <2>3. conn[Min(todo)] # 0  BY <2>2 DEF HttpInv, DescriptorsOK
  <2>4. conn'[Min(todo)] = conn[Min(todo)] /\ conn[Min(todo)] \in Conns
    BY <1>1, <1>3, <2>2, <2>3 DEF HttpInv, DescriptorsOK
  <2>5. conn[Min(todo)] # c  BY <1>9, <2>2
  <2> QED  BY <1>3, <2>1, <2>4, <2>5
<1> QED
  BY <1>7, <1>8, <1>10, <1>11, <1>12, <1>14, <1>15, <1>16 DEF HttpInv

(* The descriptor that is served is open, and its connection closes for a  *)
(* reason.                                                                 *)
LEMMA ServedIsOpen ==
  ASSUME HttpInv, wpc \in {"serve", "close"}, todo # {}
  PROVE  /\ Min(todo) \in fds /\ Min(todo) \in Fds /\ Min(todo) \in todo
         /\ conn[Min(todo)] \in Conns /\ conn[Min(todo)] # 0
         /\ peer[conn[Min(todo)]] # "absent"
<1>1. Min(todo) \in todo /\ Min(todo) \in fds /\ Min(todo) \in Fds
  BY MinOfFds DEF HttpInv, ServesMembers, DescriptorsOK, WorkerHoldsMutex
<1>2. conn[Min(todo)] # 0  BY <1>1 DEF HttpInv, DescriptorsOK
<1> QED  BY <1>1, <1>2 DEF HttpInv, DescriptorsOK, ConnectionsOK

(* A connection that closes with a response of its own left in the queue   *)
(* was sent another one of its own, or somebody else's, or its client has  *)
(* left without.                                                           *)
LEMMA LeftBehindExplained ==
  ASSUME HttpInv, NEW c \in Conns, Queued(c) # {}, peer[c] # "absent",
         got[c] # <<>> \/ peer[c] = "gone"
  PROVE  \/ answers[c] > 1
         \/ Settled(c)
         \/ peer[c] = "gone" /\ got[c] # <<c>>
<1>1. CASE got[c] = <<>>  BY <1>1
<1>2. CASE got[c] # <<>>
  <2> DEFINE d == got[c][1]
  <2>1. got[c] \in Seq(Conns) /\ Len(got[c]) \in Nat /\ Len(got[c]) > 0
    <3>1. got[c] \in Seq(Conns)  BY DEF HttpInv, ResponsesOK
    <3> QED  BY <1>2, <3>1, EmptySeq, LenProperties
  <2>2. 1 \in DOMAIN got[c] /\ d \in Conns
    BY <2>1, QueueEntries DEF HttpInv
  <2>3. CASE d = c
    <3>1. <<c, 1>> \in Given(c)  BY <2>2, <2>3, GivenMembers
    <3>2. /\ Cardinality(Queued(c)) \in Nat /\ Cardinality(Given(c)) \in Nat
          /\ Cardinality(Queued(c)) >= 1 /\ Cardinality(Given(c)) >= 1
          /\ answers[c] = Cardinality(Queued(c)) + Cardinality(Given(c))
      BY <3>1, SomeQueuedOrGiven DEF HttpInv
    <3> QED  BY <3>2
  <2>4. CASE d # c
    <3>1. Settled(d) /\ d < c
      BY <2>2, <2>4 DEF HttpInv, SentExplained, Displaced, Conns
    <3>2. d <= c  BY <2>2, <3>1 DEF Conns
    <3> QED  BY <2>2, <3>1, <3>2, SettledMonotone
  <2> QED  BY <2>3, <2>4
<1> QED  BY <1>1, <1>2

LEMMA WorkerCloseKeeps == ASSUME HttpInv, WorkerClose PROVE HttpInv'
<1>0. PICK old, c : old = Min(todo) /\ c = conn[old]
  OBVIOUS
<1>1. /\ wpc = "close" /\ wpc' = "erase" /\ old = Min(todo')
      /\ conn' = [conn EXCEPT ![old] = 0]
      /\ UNCHANGED <<fds, mpc, mfd, todo, bClosed, listMsgs, peer, answers, got>>
  BY <1>0 DEF WorkerClose, mainVars, queueVars, clientVars, histVars
<1>2. todo # {} /\ (got[c] # <<>> \/ peer[c] = "gone")
  BY <1>0, <1>1 DEF HttpInv, ClosedForAReason, ServesMembers
<1>3. old \in fds /\ old \in Fds /\ c \in Conns /\ c # 0 /\ peer[c] # "absent"
  BY <1>0, <1>1, <1>2, ServedIsOpen
<1>4. conn'[old] = 0 /\ \A fd \in Fds : fd # old => conn'[fd] = conn[fd]
  BY <1>1, <1>3 DEF HttpInv, DescriptorsOK
<1>5. DescriptorsOK'
  <2>1. conn' \in [Fds -> Conns \cup {0}]
    BY <1>1, <1>3 DEF HttpInv, DescriptorsOK
  <2>2. \A fd \in fds : conn'[fd] # 0 \/ fd = old
    BY <1>1, <1>4 DEF HttpInv, DescriptorsOK
  <2>3. mpc = "insert" => /\ mfd \in Fds /\ conn'[mfd] # 0 /\ mfd \notin fds
    BY <1>1, <1>3, <1>4 DEF HttpInv, DescriptorsOK
  <2> QED  BY <1>0, <1>1, <2>1, <2>2, <2>3 DEF HttpInv, DescriptorsOK
<1>6. ServesMembers'
  BY <1>0, <1>1, <1>4 DEF HttpInv, ServesMembers, WorkerHoldsMutex
<1>7. ConnectionsOK'
  BY <1>1, <1>4 DEF HttpInv, ConnectionsOK
<1>8. ResponsesOK'  BY <1>1, QueueEntries DEF HttpInv, ResponsesOK
<1>9. ResponsesCounted'
  BY <1>1 DEF HttpInv, ResponsesCounted, Queued, Given
<1>10. ASSUME NEW d \in Conns, Settled(d) PROVE Settled(d)'
  <2>1. \A e \in Conns : answers'[e] >= answers[e]
    BY <1>1 DEF HttpInv, ResponsesOK
  <2>2. \A e \in Conns : ~Open(e) => ~Open(e)'
    BY <1>4 DEF Open, Conns
  <2> QED  BY <1>1, <1>8, <1>10, <2>1, <2>2, SettledKept
(* What it leaves behind of its own is displaced from now on.              *)
<1>11. Queued(c) # {} => Settled(c)'
  <2> SUFFICES ASSUME Queued(c) # {} PROVE Settled(c)'
    OBVIOUS
  <2>1. ~Open(c)'
    <3>1. \A fd \in Fds : conn[fd] = c => fd = old
      BY <1>0, <1>3 DEF HttpInv, ConnectionsOK
    <3> QED  BY <1>3, <1>4, <3>1 DEF Open
  <2>2. c \in 1..c  BY <1>3 DEF Conns
  <2>3. \/ answers[c] > 1
        \/ Settled(c)
        \/ peer[c] = "gone" /\ got[c] # <<c>>
    BY <1>2, <1>3, LeftBehindExplained
  <2>4. CASE answers[c] > 1  BY <1>1, <2>2, <2>4 DEF Settled
  <2>5. CASE Settled(c)  BY <1>3, <1>10, <2>5
  <2>6. CASE peer[c] = "gone" /\ got[c] # <<c>>
    BY <1>1, <2>1, <2>2, <2>6 DEF Settled
  <2> QED  BY <2>3, <2>4, <2>5, <2>6
<1>12. QueuedExplained'
  <2> SUFFICES ASSUME NEW i \in DOMAIN listMsgs, conn'[listMsgs[i].fd] # listMsgs[i].to
               PROVE  Displaced(listMsgs[i].to, conn[listMsgs[i].fd])'
    BY <1>1 DEF QueuedExplained
  <2> DEFINE r == listMsgs[i]
  <2>1. r.fd \in Fds /\ r.to \in Conns
    BY QueueEntries DEF HttpInv
  <2>2. CASE r.fd = old /\ r.to = c
    <3>1. i \in Queued(c)  BY <2>2 DEF Queued
    <3>2. Settled(r.to)'  BY <1>1, <1>11, <2>2, <3>1
    <3> QED  BY <1>1, <1>4, <2>2, <3>2 DEF Displaced
  <2>3. CASE r.fd = old /\ r.to # c
    <3>1. Settled(r.to)
      BY <1>0, <2>3 DEF HttpInv, QueuedExplained, Displaced
    <3>2. Settled(r.to)'  BY <1>1, <1>10, <2>1, <3>1
    <3> QED  BY <1>1, <1>4, <2>3, <3>2 DEF Displaced
  <2>4. CASE r.fd # old
    <3>1. conn'[r.fd] = conn[r.fd]  BY <1>4, <2>1, <2>4
    <3>2. Displaced(r.to, conn[r.fd])  BY <3>1 DEF HttpInv, QueuedExplained
    <3> QED  BY <1>1, <1>10, <2>1, <3>1, <3>2 DEF Displaced
  <2> QED  BY <2>2, <2>3, <2>4
<1>13. SentExplained'
  BY <1>1, <1>10, QueueEntries DEF HttpInv, SentExplained, Displaced
<1>14. ClosedForAReason'
  BY <1>1 DEF HttpInv, ClosedForAReason, WorkerHoldsMutex
<1> QED
  BY <1>5, <1>6, <1>7, <1>8, <1>9, <1>12, <1>13, <1>14 DEF HttpInv

(* A response changes hands: from the queue to the connection that has the *)
(* descriptor now.                                                         *)
LEMMA WorkerSendKeeps == ASSUME HttpInv, WorkerSend PROVE HttpInv'
<1>0. PICK fd, c, i, x :
        fd = Min(todo) /\ c = conn[fd] /\ i = Min(QueuedFor(fd)) /\ x = listMsgs[i].to
  OBVIOUS
<1>1. /\ wpc = "serve" /\ wpc' = "serve" /\ todo # {} /\ QueuedFor(fd) # {}
      /\ got' = [got EXCEPT ![c] = Append(@, x)]
      /\ listMsgs' = RemoveAt(listMsgs, i)
      /\ bClosed' = TRUE
      /\ UNCHANGED <<fds, mpc, mfd, todo, conn, peer, answers>>
  BY <1>0 DEF WorkerSend, Sent, mainVars, clientVars
<1>2. c \in Conns /\ c # 0 /\ fd \in Fds  BY <1>0, <1>1, ServedIsOpen
<1>3. i \in DOMAIN listMsgs /\ listMsgs[i].fd = fd
  <2>1. QueuedFor(fd) \subseteq Nat
    BY QueueEntries DEF HttpInv, QueuedFor
  <2>2. i \in QueuedFor(fd)  BY <1>0, <1>1, <2>1, MinOfNaturals
  <2> QED  BY <2>2 DEF QueuedFor
<1>4. x \in Conns /\ peer[x] # "absent"
  BY <1>0, <1>3, QueueEntries DEF HttpInv, ResponsesOK
<1>5. x # c => Displaced(x, c)
  BY <1>0, <1>3 DEF HttpInv, QueuedExplained
<1>6. /\ Len(listMsgs) \in Nat /\ DOMAIN listMsgs = 1..Len(listMsgs)
      /\ listMsgs \in Seq(Response) /\ got \in [Conns -> Seq(Conns)]
  BY QueueEntries DEF HttpInv, ResponsesOK
<1>7. /\ listMsgs' \in Seq(Response) /\ DOMAIN listMsgs' = 1..(Len(listMsgs) - 1)
      /\ \A j \in DOMAIN listMsgs' : \E k \in DOMAIN listMsgs : listMsgs'[j] = listMsgs[k]
  <2>1. /\ listMsgs' \in Seq(Response) /\ Len(listMsgs') = Len(listMsgs) - 1
        /\ \A j \in 1..(Len(listMsgs) - 1) :
             listMsgs'[j] = listMsgs[IF j < i THEN j ELSE j + 1]
    BY <1>1, <1>3, <1>6, RemoveAtEffect
  <2>2. DOMAIN listMsgs' = 1..(Len(listMsgs) - 1)  BY <2>1, LenProperties
  <2>3. ASSUME NEW j \in 1..(Len(listMsgs) - 1)
        PROVE  (IF j < i THEN j ELSE j + 1) \in 1..Len(listMsgs)
    BY <1>6, <2>3
  <2> QED  BY <1>6, <2>1, <2>2, <2>3
<1>8. /\ got' \in [Conns -> Seq(Conns)]
      /\ got'[c] = Append(got[c], x) /\ \A e \in Conns : e # c => got'[e] = got[e]
  <2>1. got[c] \in Seq(Conns)  BY <1>2, <1>6
  <2>2. Append(got[c], x) \in Seq(Conns)  BY <1>4, <2>1, AppendProperties
  <2> QED  BY <1>1, <1>2, <1>6, <2>2
<1>9. /\ Len(got[c]) \in Nat /\ DOMAIN got'[c] = 1..(Len(got[c]) + 1)
      /\ \A k \in 1..Len(got[c]) : got'[c][k] = got[c][k]
      /\ got'[c][Len(got[c]) + 1] = x /\ got'[c] # <<>>
  <2>1. got[c] \in Seq(Conns)  BY <1>2, <1>6
  <2>2. /\ Append(got[c], x) \in Seq(Conns) /\ Append(got[c], x) # <<>>
        /\ Len(Append(got[c], x)) = Len(got[c]) + 1
        /\ \A k \in 1..Len(got[c]) : Append(got[c], x)[k] = got[c][k]
        /\ Append(got[c], x)[Len(got[c]) + 1] = x
    BY <1>4, <2>1, AppendProperties
  <2>3. Len(got[c]) \in Nat /\ DOMAIN Append(got[c], x) = 1..Len(Append(got[c], x))
    BY <2>1, <2>2, LenProperties
  <2> QED  BY <1>8, <2>2, <2>3
<1>10. DescriptorsOK' /\ ServesMembers' /\ ConnectionsOK'
  BY <1>1 DEF HttpInv, DescriptorsOK, ServesMembers, ConnectionsOK, WorkerHoldsMutex
<1>11. ResponsesOK'
  <2>1. \A j \in DOMAIN listMsgs' : peer[listMsgs'[j].to] # "absent"
    BY <1>7 DEF HttpInv, ResponsesOK
  <2> QED  BY <1>1, <1>7, <1>8, <2>1 DEF HttpInv, ResponsesOK
<1>12. ClosedForAReason'
  BY <1>0, <1>1, <1>9 DEF ClosedForAReason, WorkerHoldsMutex
<1>13. ASSUME NEW d \in Conns
       PROVE  /\ IsFiniteSet(Queued(d)') /\ IsFiniteSet(Given(d)')
              /\ answers[d] = Cardinality(Queued(d)') + Cardinality(Given(d)')
  <2>1. /\ IsFiniteSet(Queued(d)) /\ IsFiniteSet(Given(d))
        /\ answers[d] = Cardinality(Queued(d)) + Cardinality(Given(d))
    BY DEF HttpInv, ResponsesCounted
  <2>2. /\ IsFiniteSet(Queued(d)')
        /\ Cardinality(Queued(d)') =
             IF x = d THEN Cardinality(Queued(d)) - 1 ELSE Cardinality(Queued(d))
    BY <1>0, <1>1, <1>3, <1>6, <2>1, QueuedLess
  <2> DEFINE new == <<c, Len(got[c]) + 1>>
  <2>3. /\ Given(d)' = IF x = d THEN Given(d) \cup {new} ELSE Given(d)
        /\ new \notin Given(d)
    BY <1>1, <1>2, <1>4, <1>6, GivenMore
  <2> HIDE DEF new
  <2>4. /\ IsFiniteSet(Given(d)')
        /\ Cardinality(Given(d)') =
             IF x = d THEN Cardinality(Given(d)) + 1 ELSE Cardinality(Given(d))
    BY <2>1, <2>3, FS_AddElement
  <2>5. Cardinality(Queued(d)) \in Nat /\ Cardinality(Given(d)) \in Nat
    BY <2>1, FS_CardinalityType
  <2> QED  BY <2>1, <2>2, <2>4, <2>5
<1>14. ResponsesCounted'
  BY <1>1, <1>13 DEF ResponsesCounted
<1>15. ASSUME NEW d \in Conns, Settled(d) PROVE Settled(d)'
  <2>1. \A e \in Conns : answers'[e] >= answers[e]
    BY <1>1 DEF HttpInv, ResponsesOK
  <2>2. \A e \in Conns : ~Open(e) => ~Open(e)' /\ got'[e] = got[e]
    BY <1>0, <1>1, <1>2, <1>8 DEF Open
  <2> QED  BY <1>1, <1>11, <1>15, <2>1, <2>2, SettledKept
<1>16. QueuedExplained'
  <2> SUFFICES ASSUME NEW j \in DOMAIN listMsgs', conn[listMsgs'[j].fd] # listMsgs'[j].to
               PROVE  Displaced(listMsgs[j].to, conn[listMsgs[j].fd])'
    BY <1>1 DEF QueuedExplained
  <2>1. PICK k \in DOMAIN listMsgs : listMsgs'[j] = listMsgs[k]  BY <1>7
  <2>2. Displaced(listMsgs[k].to, conn[listMsgs[k].fd])
    BY <2>1 DEF HttpInv, QueuedExplained
  <2>3. listMsgs[k].to \in Conns  BY QueueEntries DEF HttpInv
  <2> QED  BY <1>1, <1>15, <2>1, <2>2, <2>3 DEF Displaced
<1>17. SentExplained'
  <2> SUFFICES ASSUME NEW e \in Conns, NEW k \in DOMAIN got'[e], got'[e][k] # e
               PROVE  Displaced(got[e][k], e)'
    BY DEF SentExplained
  <2>1. CASE e # c \/ k # Len(got[c]) + 1
    <3>1. k \in DOMAIN got[e] /\ got'[e][k] = got[e][k]
      <4>1. CASE e # c  BY <1>8, <4>1
      <4>2. CASE e = c
        <5>1. k \in 1..Len(got[c])  BY <1>9, <2>1, <4>2
        <5> QED  BY <1>9, <4>2, <5>1, QueueEntries DEF HttpInv
      <4> QED  BY <4>1, <4>2
    <3>2. Displaced(got[e][k], e) /\ got[e][k] \in Conns
      BY <3>1, QueueEntries DEF HttpInv, SentExplained
    <3> QED  BY <1>15, <3>1, <3>2 DEF Displaced
  <2>2. CASE e = c /\ k = Len(got[c]) + 1
    <3>1. got'[e][k] = x  BY <1>9, <2>2
    <3> QED  BY <1>4, <1>5, <1>15, <2>2, <3>1 DEF Displaced
  <2> QED  BY <2>1, <2>2
<1> QED
  BY <1>10, <1>11, <1>12, <1>14, <1>16, <1>17 DEF HttpInv

(* What recv() returns is queued under its own descriptor; a connection    *)
(* that goes on to its close has been sent something or lost its client.   *)
LEMMA WorkerReceiveKeeps == ASSUME HttpInv, WorkerReceive PROVE HttpInv'
<1>0. PICK fd, c : fd = Min(todo) /\ c = conn[fd]
  OBVIOUS
<1> DEFINE r == [fd |-> fd, to |-> c]
<1>1. /\ wpc = "serve" /\ todo # {}
      /\ UNCHANGED <<fds, mpc, mfd, conn, peer, got>>
      /\ \/ /\ listMsgs' = Append(listMsgs, r)
            /\ answers' = [answers EXCEPT ![c] = @ + 1]
            /\ bClosed' = bClosed
         \/ /\ peer[c] = "gone" /\ bClosed' = TRUE
            /\ UNCHANGED <<listMsgs, answers>>
         \/ UNCHANGED <<listMsgs, answers, bClosed>>
      /\ \/ bClosed' /\ wpc' = "close" /\ todo' = todo
         \/ ~bClosed' /\ wpc' = "serve" /\ todo' = todo \ {fd}
  BY <1>0 DEF WorkerReceive, mainVars, clientVars
<1>2. /\ c \in Conns /\ c # 0 /\ fd \in Fds /\ peer[c] # "absent"
      /\ fd \in todo /\ todo \subseteq fds
  BY <1>0, <1>1, ServedIsOpen DEF HttpInv, ServesMembers, WorkerHoldsMutex
<1>3. r \in Response /\ r.fd = fd /\ r.to = c  BY <1>2 DEF Response
<1> HIDE DEF r
<1>4. DescriptorsOK' /\ ServesMembers' /\ ConnectionsOK'
  BY <1>1, <1>2 DEF HttpInv, DescriptorsOK, ServesMembers, ConnectionsOK, WorkerHoldsMutex
<1>5. ClosedForAReason'
  <2>1. bClosed \in BOOLEAN /\ bClosed' \in BOOLEAN
    BY <1>1 DEF HttpInv, ClosedForAReason
  <2>2. bClosed => got[c] # <<>> \/ peer[c] = "gone"
    BY <1>0, <1>1 DEF HttpInv, ClosedForAReason
  <2>3. CASE ~bClosed'
    BY <1>1, <2>1, <2>3 DEF ClosedForAReason
  <2>4. CASE bClosed'
    <3>1. wpc' = "close" /\ todo' = todo /\ (got[c] # <<>> \/ peer[c] = "gone")
      BY <1>1, <2>2, <2>4
    <3> QED  BY <1>0, <1>1, <2>1, <3>1 DEF ClosedForAReason, WorkerHoldsMutex
  <2> QED  BY <2>3, <2>4
<1>6. CASE UNCHANGED <<listMsgs, answers>>
  <2>1. UNCHANGED <<listMsgs, answers, got, conn, peer>>  BY <1>1, <1>6
  <2>2. ResponsesOK' /\ ResponsesCounted' /\ QueuedExplained' /\ SentExplained'
    BY <2>1, ResponsesKept
  <2> QED  BY <1>4, <1>5, <2>2 DEF HttpInv
<1>7. CASE listMsgs' = Append(listMsgs, r) /\ answers' = [answers EXCEPT ![c] = @ + 1]
  <2>1. /\ listMsgs \in Seq(Response) /\ answers \in [Conns -> Nat]
        /\ Len(listMsgs) \in Nat /\ DOMAIN listMsgs = 1..Len(listMsgs)
    BY QueueEntries DEF HttpInv, ResponsesOK
  <2>2. /\ listMsgs' \in Seq(Response) /\ Len(listMsgs') = Len(listMsgs) + 1
        /\ \A j \in 1..Len(listMsgs) : listMsgs'[j] = listMsgs[j]
        /\ listMsgs'[Len(listMsgs) + 1] = r
    BY <1>3, <1>7, <2>1, AppendProperties
  <2>3. DOMAIN listMsgs' = 1..(Len(listMsgs) + 1)  BY <2>2, LenProperties
  <2>4. ASSUME NEW j \in DOMAIN listMsgs'
        PROVE  listMsgs'[j] = r \/ (j \in DOMAIN listMsgs /\ listMsgs'[j] = listMsgs[j])
    <3>1. j \in 1..Len(listMsgs) \/ j = Len(listMsgs) + 1  BY <2>1, <2>3
    <3> QED  BY <2>1, <2>2, <3>1
  <2>5. /\ answers' \in [Conns -> Nat] /\ answers'[c] = answers[c] + 1
        /\ \A e \in Conns : e # c => answers'[e] = answers[e]
    BY <1>2, <1>7, <2>1
  <2>6. ResponsesOK'
    <3>1. \A j \in DOMAIN listMsgs' : peer[listMsgs'[j].to] # "absent"
      BY <1>2, <1>3, <2>4 DEF HttpInv, ResponsesOK
    <3> QED  BY <1>1, <2>2, <2>5, <3>1 DEF HttpInv, ResponsesOK
  <2>7. ASSUME NEW d \in Conns
        PROVE  /\ IsFiniteSet(Queued(d)') /\ IsFiniteSet(Given(d))
               /\ answers'[d] = Cardinality(Queued(d)') + Cardinality(Given(d))
    <3>1. /\ IsFiniteSet(Queued(d)) /\ IsFiniteSet(Given(d))
          /\ answers[d] = Cardinality(Queued(d)) + Cardinality(Given(d))
      BY DEF HttpInv, ResponsesCounted
    <3> DEFINE n == Len(listMsgs) + 1
    <3>2. /\ Queued(d)' = IF c = d THEN Queued(d) \cup {n} ELSE Queued(d)
          /\ n \notin Queued(d)
      BY <1>3, <1>7, <2>1, QueuedMore
    <3> HIDE DEF n
    <3>3. /\ IsFiniteSet(Queued(d)')
          /\ Cardinality(Queued(d)') =
               IF c = d THEN Cardinality(Queued(d)) + 1 ELSE Cardinality(Queued(d))
      BY <3>1, <3>2, FS_AddElement
    <3>4. Cardinality(Queued(d)) \in Nat /\ Cardinality(Given(d)) \in Nat
      BY <3>1, FS_CardinalityType
    <3> QED  BY <2>5, <3>1, <3>3, <3>4
  <2>8. ResponsesCounted'
    <3>1. \A d : Given(d)' = Given(d)  BY <1>1 DEF Given
    <3> QED  BY <2>7, <3>1 DEF ResponsesCounted
  <2>9. ASSUME NEW d \in Conns, Settled(d) PROVE Settled(d)'
    <3>1. \A e \in Conns : answers[e] \in Nat  BY <2>1
    <3>2. \A e \in Conns : answers'[e] >= answers[e]  BY <2>5, <3>1
    <3>3. \A e \in Conns : ~Open(e) => ~Open(e)'  BY <1>1 DEF Open
    <3> QED  BY <1>1, <2>6, <2>9, <3>2, <3>3, SettledKept
  <2>10. QueuedExplained'
    <3> SUFFICES ASSUME NEW j \in DOMAIN listMsgs', conn[listMsgs'[j].fd] # listMsgs'[j].to
                 PROVE  Displaced(listMsgs[j].to, conn[listMsgs[j].fd])'
      BY <1>1 DEF QueuedExplained
    <3>1. listMsgs'[j] # r  BY <1>0, <1>3
    <3>2. j \in DOMAIN listMsgs /\ listMsgs'[j] = listMsgs[j]  BY <2>4, <3>1
    <3>3. Displaced(listMsgs[j].to, conn[listMsgs[j].fd]) /\ listMsgs[j].to \in Conns
      BY <3>2, QueueEntries DEF HttpInv, QueuedExplained
    <3> QED  BY <1>1, <2>9, <3>2, <3>3 DEF Displaced
  <2>11. SentExplained'
    BY <1>1, <2>9, QueueEntries DEF HttpInv, SentExplained, Displaced
  <2> QED  BY <1>4, <1>5, <2>6, <2>8, <2>10, <2>11 DEF HttpInv
<1> QED  BY <1>1, <1>6, <1>7

-----------------------------------------------------------------------------
(* The inductive invariant: who has a descriptor, why connections close,   *)
(* and whose every response is.                                            *)
THEOREM HttpInvariance == Spec => []HttpInv
<1>1. HttpInv /\ [Next]_vars => HttpInv'
  <2> SUFFICES ASSUME HttpInv, [Next]_vars PROVE HttpInv'
    OBVIOUS
  <2>1. ASSUME NEW c \in Conns, MainAccept(c) PROVE HttpInv'
    BY <2>1, MainAcceptKeeps
  <2>2. CASE \/ \E c \in Conns : ClientSends(c) \/ ClientLeaves(c)
             \/ Idle \/ UNCHANGED vars
    BY <2>2, ClientKeeps
  <2>3. CASE MainInsert  BY <2>3, MainInsertKeeps
  <2>4. CASE Worker
    BY <2>4, WorkerWaitsKeeps, WorkerSendKeeps, WorkerReceiveKeeps, WorkerCloseKeeps,
       WorkerEraseKeeps DEF Worker
  <2> QED  BY <2>1, <2>2, <2>3, <2>4 DEF Next
<1> QED  BY <1>1, InitHttpInv, PTL DEF Spec

(* Each response that was made has been sent once or is still queued,      *)
(* however often the number of its descriptor was given out again.         *)
THEOREM NothingLostOrSentTwice == Spec => []ResponsesConserved
<1>1. HttpInv => ResponsesConserved
  BY DEF HttpInv, ResponsesCounted, ResponsesConserved, Queued, Given
<1> QED  BY <1>1, HttpInvariance, PTL

(* What a connection is sent and did not ask for was asked for by one      *)
(* before it, and there is one that left without its response, or whose    *)
(* request came in pieces, no later than that.                             *)
THEOREM StraysAreExplained == Spec => []StrayResponse
<1>1. HttpInv => StrayResponse
  <2> SUFFICES ASSUME HttpInv, NEW c \in Conns, NEW k \in DOMAIN got[c], got[c][k] # c
               PROVE  got[c][k] < c /\ Disturbed(got[c][k])
    BY DEF StrayResponse
  <2>1. Displaced(got[c][k], c)  BY DEF HttpInv, SentExplained
  <2>2. c # 0  BY DEF Conns
  <2> QED  BY <2>1, <2>2 DEF Displaced, Settled, Disturbed
<1> QED  BY <1>1, HttpInvariance, PTL

-----------------------------------------------------------------------------
(* Texts: pieces of a sequence.                                            *)

LEMMA PieceEffect ==
  ASSUME NEW S, NEW s \in Seq(S), NEW a \in Nat \ {0}, NEW e \in Int,
         a - 1 <= e, e <= Len(s)
  PROVE  /\ SubSeq(s, a, e) \in Seq(S)
         /\ Len(SubSeq(s, a, e)) = e - a + 1
         /\ \A j \in 1..(e - a + 1) : SubSeq(s, a, e)[j] = s[a + j - 1]
<1>1. Len(s) \in Nat /\ \A j \in 1..Len(s) : s[j] \in S  BY LenProperties, ElementOfSeq
<1>2. \A j \in a..e : s[j] \in S  BY <1>1
<1>3. /\ SubSeq(s, a, e) \in Seq(S)
      /\ Len(SubSeq(s, a, e)) = IF a <= e THEN e - a + 1 ELSE 0
      /\ \A j \in 1..(e - a + 1) : SubSeq(s, a, e)[j] = s[a + j - 1]
  BY <1>2, SubSeqProperties
<1> QED  BY <1>3

(* The ends of a nonempty set of naturals up to some bound.                *)
LEMMA EndsOfSet ==
  ASSUME NEW n \in Int, NEW T, T \subseteq 1..n, T # {}
  PROVE  /\ Min(T) \in T /\ Max(T) \in T
         /\ \A i \in T : Min(T) <= i /\ i <= Max(T)
<1>1. Min(T) \in T /\ \A i \in T : Min(T) <= i
  <2>1. T \subseteq Nat  OBVIOUS
  <2> QED  BY <2>1, MinOfNaturals
<1>2. PICK hi \in T : \A i \in T : i <= hi
  <2> DEFINE Back == {n - i : i \in T}
  <2>0. \A i \in T : i \in 1..n  OBVIOUS
  <2>1. Back \subseteq Nat /\ Back # {}
    <3>1. \A i \in T : n - i \in Nat  BY <2>0
    <3> QED  BY <3>1
  <2>2. PICK b \in Back : \A k \in Nat : k < b => k \notin Back
    <3> HIDE DEF Back
    <3> QED  BY <2>1, LeastCounterexample
  <2>3. PICK hi \in T : b = n - hi  OBVIOUS
  <2>4. ASSUME NEW i \in T PROVE i <= hi
    <3>1. n - i \in Nat /\ n - i \in Back  BY <2>0
    <3>2. ~(n - i < n - hi)  BY <2>2, <2>3, <3>1
    <3>3. i \in Int /\ hi \in Int
      <4>1. i \in 1..n /\ hi \in 1..n  BY <2>0
      <4> QED  BY <4>1
    <3> QED  BY <3>2, <3>3
  <2> QED  BY <2>4
<1>3. Max(T) \in T /\ \A i \in T : i <= Max(T)
  <2>1. \A i \in T : hi >= i  BY <1>2
  <2>2. PICK x \in T : x = Max(T) /\ \A i \in T : x >= i  BY <2>1 DEF Max
  <2> QED  BY <2>2
<1> QED  BY <1>1, <1>3

(* A least element is the one that is.                                     *)
LEMMA MinIs ==
  ASSUME NEW T, T \subseteq Int, NEW m \in T, \A i \in T : m <= i
  PROVE  Min(T) = m
<1>1. \A i \in T : i \in Int  OBVIOUS
<1>2. PICK x \in T : x = Min(T) /\ \A i \in T : x <= i  BY DEF Min
<1>3. x <= m /\ m <= x /\ x \in Int /\ m \in Int  BY <1>1, <1>2
<1> QED  BY <1>2, <1>3

LEMMA MaxIs ==
  ASSUME NEW T, T \subseteq Int, NEW m \in T, \A i \in T : i <= m
  PROVE  Max(T) = m
<1>1. \A i \in T : i \in Int /\ m >= i  OBVIOUS
<1>2. PICK x \in T : x = Max(T) /\ \A i \in T : x >= i  BY <1>1 DEF Max
<1>3. x <= m /\ m <= x /\ x \in Int /\ m \in Int  BY <1>1, <1>2
<1> QED  BY <1>2, <1>3

(* Pieces of pieces.                                                       *)
LEMMA PieceOfPiece ==
  ASSUME NEW S, NEW s \in Seq(S), NEW a \in Nat \ {0}, NEW e \in Int,
         a - 1 <= e, e <= Len(s), NEW p \in Nat \ {0}, NEW q \in Int,
         p - 1 <= q, q <= e - a + 1
  PROVE  SubSeq(SubSeq(s, a, e), p, q) = SubSeq(s, a + p - 1, a + q - 1)
<1> DEFINE x == SubSeq(s, a, e)
           y == SubSeq(x, p, q)
           b == a + p - 1
           f == a + q - 1
           z == SubSeq(s, b, f)
<1>1. x \in Seq(S) /\ Len(x) = e - a + 1 /\ \A j \in 1..(e - a + 1) : x[j] = s[a + j - 1]
  BY PieceEffect
<1> HIDE DEF x
<1>2. y \in Seq(S) /\ Len(y) = q - p + 1 /\ \A j \in 1..(q - p + 1) : y[j] = x[p + j - 1]
  BY <1>1, PieceEffect
<1>3. b \in Nat \ {0} /\ f \in Int /\ b - 1 <= f /\ f <= Len(s) /\ f - b + 1 = q - p + 1
  <2>1. Len(s) \in Nat  BY LenProperties
  <2> QED  BY <2>1
<1> HIDE DEF y
<1>4. z \in Seq(S) /\ Len(z) = q - p + 1 /\ \A j \in 1..(q - p + 1) : z[j] = s[b + j - 1]
  <2> HIDE DEF b, f
  <2>1. z \in Seq(S) /\ Len(z) = f - b + 1 /\ \A j \in 1..(f - b + 1) : z[j] = s[b + j - 1]
    BY <1>3, PieceEffect
  <2> QED  BY <1>3, <2>1
<1> HIDE DEF z
<1>5. ASSUME NEW j \in 1..(q - p + 1) PROVE y[j] = z[j]
  <2>1. p + j - 1 \in 1..(e - a + 1) /\ a + (p + j - 1) - 1 = b + j - 1  OBVIOUS
  <2>2. x[p + j - 1] = s[a + (p + j - 1) - 1]  BY <1>1, <2>1
  <2> HIDE DEF b
  <2> QED  BY <1>2, <1>4, <2>1, <2>2
<1>6. y = z  BY <1>2, <1>4, <1>5, SeqEqual
<1> QED  BY <1>6 DEF y, x, z, b, f

(* The characters of a piece, by their places in the text.                 *)
LEMMA PlacesInPiece ==
  ASSUME NEW S, NEW s \in Seq(S), NEW a \in Nat \ {0}, NEW e \in Int,
         a - 1 <= e, e <= Len(s), NEW c
  PROVE  /\ Marks(c, SubSeq(s, a, e)) = {i \in 1..(e - a + 1) : a + i - 1 \in Marks(c, s)}
         /\ Solid(SubSeq(s, a, e)) = {i \in 1..(e - a + 1) : a + i - 1 \in Solid(s)}
<1> DEFINE x == SubSeq(s, a, e)
<1>1. x \in Seq(S) /\ Len(x) = e - a + 1 /\ \A j \in 1..(e - a + 1) : x[j] = s[a + j - 1]
  BY PieceEffect
<1>2. DOMAIN s = 1..Len(s) /\ DOMAIN x = 1..(e - a + 1) /\ Len(s) \in Nat
  BY <1>1, LenProperties
<1>3. \A i \in 1..(e - a + 1) : a + i - 1 \in 1..Len(s)  BY <1>2
<1> HIDE DEF x
<1>4. Marks(c, x) = {i \in 1..(e - a + 1) : a + i - 1 \in Marks(c, s)}
  BY <1>1, <1>2, <1>3 DEF Marks
<1>5. Solid(x) = {i \in 1..(e - a + 1) : a + i - 1 \in Solid(s)}
  BY <1>1, <1>2, <1>3 DEF Solid
<1> QED  BY <1>4, <1>5 DEF x

-----------------------------------------------------------------------------
(* strip().                                                                *)

LEMMA SolidEnds ==
  ASSUME NEW S, NEW s \in Seq(S), Solid(s) # {}
  PROVE  /\ Min(Solid(s)) \in Solid(s) /\ Max(Solid(s)) \in Solid(s)
         /\ \A i \in Solid(s) : Min(Solid(s)) <= i /\ i <= Max(Solid(s))
<1>1. Len(s) \in Int /\ Solid(s) \subseteq 1..Len(s)  BY LenProperties DEF Solid
<1> QED  BY <1>1, EndsOfSet

(* strip() of any text but those with a single solid character takes the   *)
(* blanks off both ends and nothing else; and what it does of those.       *)
THEOREM StripTrimsAnyText ==
  ASSUME NEW S, NEW s \in Seq(S)
  PROVE  StripTrimsWords(s)
<1> DEFINE T == Solid(s)
           n == Len(s)
<1>1. n \in Nat /\ T \subseteq 1..n /\ IsFiniteSet(T)
  <2>1. n \in Nat /\ T \subseteq 1..n  BY LenProperties DEF Solid
  <2> HIDE DEF T, n
  <2>2. IsFiniteSet(1..n)  BY <2>1, FS_Interval
  <2> QED  BY <2>1, <2>2, FS_Subset
<1>2. Cardinality(T) \in Nat /\ (Cardinality(T) = 0 <=> T = {})
  BY <1>1, FS_CardinalityType, FS_EmptySet
<1>3. CASE T = {}
  <2>1. Strip(s) = SubSeq(s, 1, 0)  BY <1>2, <1>3 DEF Strip, Substr
  <2>2. SubSeq(s, 1, 0) = <<>>  BY SubSeqEmpty
  <2> QED  BY <1>2, <1>3, <2>1, <2>2 DEF StripTrimsWords, Trim
<1>4. CASE T # {}
  <2> DEFINE lo == Min(T)
             hi == Max(T)
  <2>1. lo \in T /\ hi \in T /\ lo <= hi /\ lo \in 1..n /\ hi \in 1..n
    BY <1>1, <1>4, SolidEnds
  <2>2. CASE Cardinality(T) = 1
    <3>1. T = {lo}
      <4>1. \E x : T = {x}  BY <1>1, <2>2, FS_Singleton
      <4> HIDE DEF lo
      <4> QED  BY <2>1, <4>1
    <3>2. Strip(s) = Substr(s, lo, 0 - lo + 1)
      BY <1>4, <2>2 DEF Strip
    <3> HIDE DEF lo, hi, T
    <3>3. CASE lo = 1
      <4>1. Strip(s) = SubSeq(s, 1, 0)  BY <3>2, <3>3 DEF Substr
      <4>2. Strip(s) = <<>>  BY <4>1, SubSeqEmpty
      <4> QED  BY <2>2, <3>1, <3>3, <4>2 DEF StripTrimsWords, T, lo
    <3>4. CASE lo # 1
      <4>1. Strip(s) = SubSeq(s, lo, n)  BY <2>1, <3>2, <3>4 DEF Substr
      <4>2. T # {1}  BY <3>1, <3>4
      <4> QED  BY <2>2, <4>1, <4>2 DEF StripTrimsWords, T, lo
    <3> QED  BY <3>3, <3>4
  <2>3. CASE Cardinality(T) # 1
    <3>1. Strip(s) = Substr(s, lo, hi - lo + 1)
      BY <1>2, <1>4, <2>3 DEF Strip
    <3>2. Trim(s) = SubSeq(s, lo, hi)  BY <1>4 DEF Trim
    <3> HIDE DEF lo, hi, T
    <3>3. ~(hi - lo + 1 < 0) /\ lo + (hi - lo + 1) - 1 = hi  BY <1>1, <2>1
    <3>4. Strip(s) = Trim(s)  BY <3>1, <3>2, <3>3 DEF Substr
    <3> QED  BY <2>3, <3>4 DEF StripTrimsWords, T
  <2> QED  BY <2>2, <2>3
<1> QED  BY <1>3, <1>4

-----------------------------------------------------------------------------
(* The loops: their states turn by turn.  A function that satisfies such   *)
(* equations up to n exists for every n, and two of them agree.            *)

Turns(s, sep, n, m, g) ==
  /\ g[0] = SplitStart(n)
  /\ \A i \in 1..m : g[i] = SplitTurn(s, sep, g[i - 1], i)

LEMMA TurnsExist ==
  ASSUME NEW s, NEW sep, NEW n
  PROVE  \A m \in Nat : \E g : Turns(s, sep, n, m, g)
<1> DEFINE Bad == {m \in Nat : ~(\E g : Turns(s, sep, n, m, g))}
<1> SUFFICES ASSUME Bad # {} PROVE FALSE
  OBVIOUS
<1>1. PICK m \in Bad : \A k \in Nat : k < m => k \notin Bad
  <2> HIDE DEF Bad
  <2>1. Bad \subseteq Nat  BY DEF Bad
  <2> QED  BY <2>1, LeastCounterexample
<1>2. m # 0
  <2> DEFINE h == [k \in {0} |-> SplitStart(n)]
  <2>1. h[0] = SplitStart(n)  OBVIOUS
  <2> HIDE DEF h
  <2>2. Turns(s, sep, n, 0, h)  BY <2>1 DEF Turns
  <2> QED  BY <2>2, <1>1
<1>3. m \in Nat /\ m - 1 \in Nat /\ m - 1 \notin Bad  BY <1>1, <1>2
<1>4. PICK g : Turns(s, sep, n, m - 1, g)  BY <1>3
<1> DEFINE h == [k \in 0..m |-> IF k = m THEN SplitTurn(s, sep, g[m - 1], m) ELSE g[k]]
<1>5. h[0] = g[0] /\ \A k \in 1..m : h[k - 1] = g[k - 1]  BY <1>2, <1>3
<1>6. /\ h[m] = SplitTurn(s, sep, g[m - 1], m)
      /\ \A k \in 1..m : k # m => h[k] = g[k] /\ k \in 1..(m - 1)
  BY <1>3
<1> HIDE DEF h
<1>7. Turns(s, sep, n, m, h)
  <2>1. ASSUME NEW k \in 1..m PROVE h[k] = SplitTurn(s, sep, h[k - 1], k)
    <3>1. CASE k = m  BY <1>5, <1>6, <3>1
    <3>2. CASE k # m  BY <1>4, <1>5, <1>6, <3>2 DEF Turns
    <3> QED  BY <3>1, <3>2
  <2> QED  BY <1>4, <1>5, <2>1 DEF Turns
<1> QED  BY <1>1, <1>7

LEMMA TurnsAgree ==
  ASSUME NEW s, NEW sep, NEW n, NEW m \in Nat, NEW p \in Nat, NEW g, NEW h,
         Turns(s, sep, n, m, g), Turns(s, sep, n, p, h)
  PROVE  \A k \in Nat : k <= m /\ k <= p => g[k] = h[k]
<1> DEFINE Bad == {k \in Nat : k <= m /\ k <= p /\ g[k] # h[k]}
<1> SUFFICES ASSUME Bad # {} PROVE FALSE
  OBVIOUS
<1>1. PICK k \in Bad : \A j \in Nat : j < k => j \notin Bad
  <2> HIDE DEF Bad
  <2>1. Bad \subseteq Nat  BY DEF Bad
  <2> QED  BY <2>1, LeastCounterexample
<1>2. k # 0  BY <1>1 DEF Turns
<1>3. k \in Nat /\ k - 1 \in Nat /\ k \in 1..m /\ k \in 1..p /\ k - 1 \notin Bad
  BY <1>1, <1>2
<1>4. g[k - 1] = h[k - 1]  BY <1>3
<1>5. g[k] = SplitTurn(s, sep, g[k - 1], k) /\ h[k] = SplitTurn(s, sep, h[k - 1], k)
  BY <1>3 DEF Turns
<1> QED  BY <1>1, <1>4, <1>5

LEMMA SplitLoopTurns ==
  ASSUME NEW s, NEW sep, NEW n, Len(s) \in Nat
  PROVE  Turns(s, sep, n, Len(s), SplitLoop(s, sep, n))
<1> DEFINE W(m) == CHOOSE g : Turns(s, sep, n, m, g)
           F == [m \in 0..Len(s) |-> W(m)[m]]
           Turned(f) == [i \in 0..Len(s) |->
                           IF i = 0 THEN SplitStart(n) ELSE SplitTurn(s, sep, f[i - 1], i)]
<1>1. \A m \in Nat : Turns(s, sep, n, m, W(m))  BY TurnsExist
<1> HIDE DEF W
<1>2. F[0] = SplitStart(n)  BY <1>1 DEF Turns
<1>3. ASSUME NEW m \in 1..Len(s) PROVE F[m] = SplitTurn(s, sep, F[m - 1], m)
  <2>1. m \in Nat /\ m - 1 \in Nat /\ m \in 1..m /\ m - 1 <= m /\ m - 1 <= m - 1
        /\ m \in 0..Len(s) /\ m - 1 \in 0..Len(s)
    OBVIOUS
  <2>2. W(m)[m] = SplitTurn(s, sep, W(m)[m - 1], m)  BY <1>1, <2>1 DEF Turns
  <2>3. Turns(s, sep, n, m, W(m)) /\ Turns(s, sep, n, m - 1, W(m - 1))  BY <1>1, <2>1
  <2>4. W(m)[m - 1] = W(m - 1)[m - 1]  BY <2>1, <2>3, TurnsAgree
  <2>5. F[m] = W(m)[m] /\ F[m - 1] = W(m - 1)[m - 1]  BY <2>1
  <2> QED  BY <2>2, <2>4, <2>5
<1>4. F = Turned(F)
  <2>1. ASSUME NEW m \in 0..Len(s) PROVE F[m] = Turned(F)[m]
    <3>1. CASE m = 0  BY <1>2, <3>1
    <3>2. CASE m # 0
      <4>1. m \in 1..Len(s)  BY <3>2
      <4>2. F[m] = SplitTurn(s, sep, F[m - 1], m)  BY <1>3, <4>1
      <4>3. Turned(F)[m] = SplitTurn(s, sep, F[m - 1], m)  BY <3>2
      <4> QED  BY <4>2, <4>3
    <3> QED  BY <3>1, <3>2
  <2> QED  BY <2>1
<1> HIDE DEF F
<1>5. SplitLoop(s, sep, n) = CHOOSE f : f = Turned(f)  BY DEF SplitLoop
<1> DEFINE l == SplitLoop(s, sep, n)
<1>6. l = Turned(l)  BY <1>4, <1>5
<1> HIDE DEF l
<1>7. l[0] = SplitStart(n) /\ \A i \in 1..Len(s) : l[i] = SplitTurn(s, sep, l[i - 1], i)
  BY <1>6
<1> QED  BY <1>7 DEF Turns, l

-----------------------------------------------------------------------------
(* splitstr(): what the loop has done after i turns.                       *)

SplitStates(S) == [window : Seq(S), last : Nat \ {0}, fields : Seq(Seq(S)), left : Int]

(* Each field ends before the first separator not before its start, and    *)
(* the next one starts behind that.                                        *)
Places(s, sep, fields, last, at) ==
  /\ at \in [1..(Len(fields) + 1) -> Nat \ {0}]
  /\ at[1] = 1 /\ at[Len(fields) + 1] = last
  /\ \A k \in 1..Len(fields) :
       /\ at[k] + Len(sep) <= at[k + 1]
       /\ fields[k] = SubSeq(s, at[k], at[k + 1] - Len(sep) - 1)
       /\ at[k + 1] - Len(sep) \in Occurrences(sep, s)
       /\ \A q \in Occurrences(sep, s) : at[k] <= q => at[k + 1] - Len(sep) <= q

Counted(n, st) ==
  IF n < 0 THEN st.left = n ELSE st.left >= 0 /\ st.left + Len(st.fields) = n

(* The last characters of the first i, as many as the separator has.       *)
InWindow(S, s, sep, i, w) ==
  /\ w \in Seq(S)
  /\ Len(w) = IF i < Len(sep) THEN i ELSE Len(sep)
  /\ \A j \in 1..Len(w) : w[j] = s[i - Len(w) + j]

(* While it goes on splitting, the window is what precedes, and no         *)
(* separator lies wholly behind the last cut and before the window's last. *)
Watching(S, s, sep, i, st) ==
  /\ InWindow(S, s, sep, i, st.window)
  /\ \A q \in Occurrences(sep, s) : st.last <= q => i < q + Len(sep)

SplitInv(S, s, sep, n, i, st) ==
  /\ st \in SplitStates(S)
  /\ st.last = 1 \/ st.last <= i
  /\ \E at : Places(s, sep, st.fields, st.last, at)
  /\ Counted(n, st)
  /\ st.left # 0 => Watching(S, s, sep, i, st)

(* The window is the separator when there is one at that place.            *)
LEMMA WindowIsSeparator ==
  ASSUME NEW S, NEW s \in Seq(S), NEW sep \in Seq(S), Len(sep) > 0,
         NEW i \in 1..Len(s), Len(sep) < i, NEW w \in Seq(S),
         Len(w) = Len(sep), \A j \in 1..Len(w) : w[j] = s[i - 1 - Len(w) + j]
  PROVE  w = sep <=> i - Len(sep) \in Occurrences(sep, s)
<1> DEFINE l == Len(sep)
           p == i - l
           x == SubSeq(s, p, p + l - 1)
<1>1. Len(s) \in Nat /\ l \in Nat  BY LenProperties
<1>2. /\ p \in Nat \ {0} /\ p + l - 1 \in Int /\ p - 1 <= p + l - 1 /\ p + l - 1 <= Len(s)
      /\ p \in 1..(Len(s) - l + 1) /\ p + l - 1 - p + 1 = l
  BY <1>1
<1>3. x \in Seq(S) /\ Len(x) = l /\ \A j \in 1..l : x[j] = s[p + j - 1]
  <2>1. /\ x \in Seq(S) /\ Len(x) = p + l - 1 - p + 1
        /\ \A j \in 1..(p + l - 1 - p + 1) : x[j] = s[p + j - 1]
    BY <1>2, PieceEffect
  <2> HIDE DEF x, p
  <2> QED  BY <1>2, <2>1
<1>4. x = w
  <2>1. ASSUME NEW j \in 1..l PROVE x[j] = w[j]
    <3>1. i - 1 - l + j = p + j - 1  BY <1>1
    <3> HIDE DEF x, p
    <3> QED  BY <1>3, <2>1, <3>1
  <2> HIDE DEF x
  <2> QED  BY <1>3, <2>1, SeqEqual
<1> HIDE DEF x
<1>5. p \in Occurrences(sep, s) <=> x = sep  BY <1>2 DEF Occurrences, x
<1> QED  BY <1>4, <1>5

(* A turn takes a character into the window.                               *)
Slid(s, sep, w, i) ==
  IF Len(w) < Len(sep) THEN Append(w, s[i]) ELSE Append(Tail(w), s[i])

LEMMA WindowMoves ==
  ASSUME NEW S, NEW s \in Seq(S), NEW sep \in Seq(S), Len(sep) > 0,
         NEW i \in 1..Len(s), NEW w, InWindow(S, s, sep, i - 1, w)
  PROVE  InWindow(S, s, sep, i, Slid(s, sep, w, i))
<1> DEFINE l == Len(sep)
           c == s[i]
           v == Slid(s, sep, w, i)
<1>0. v = IF Len(w) < l THEN Append(w, c) ELSE Append(Tail(w), c)  BY DEF Slid
<1> HIDE DEF v
<1>w. /\ w \in Seq(S) /\ Len(w) = IF i - 1 < l THEN i - 1 ELSE l
      /\ \A j \in 1..Len(w) : w[j] = s[i - 1 - Len(w) + j]
  BY DEF InWindow
<1>1. Len(s) \in Nat /\ l \in Nat /\ Len(w) \in Nat /\ c \in S
  BY <1>w, LenProperties, ElementOfSeq
<1>2. CASE Len(w) < l
  <2>1. Len(w) = i - 1 /\ i - 1 < l /\ v = Append(w, c)  BY <1>w, <1>0, <1>1, <1>2
  <2>2. /\ v \in Seq(S) /\ Len(v) = i /\ v[i] = c
        /\ \A j \in 1..(i - 1) : v[j] = w[j]
    <3>1. /\ v \in Seq(S) /\ Len(v) = Len(w) + 1 /\ v[Len(w) + 1] = c
          /\ \A j \in 1..Len(w) : v[j] = w[j]
      BY <1>w, <1>1, <2>1, AppendProperties
    <3> QED  BY <2>1, <3>1
  <2>3. ASSUME NEW j \in 1..i PROVE v[j] = s[j]
    <3>1. CASE j = i  BY <2>2, <3>1
    <3>2. CASE j # i
      <4>1. j \in 1..(i - 1) /\ i - 1 - (i - 1) + j = j  BY <3>2
      <4> QED  BY <1>w, <2>1, <2>2, <4>1
    <3> QED  BY <3>1, <3>2
  <2>4. \A j \in 1..i : i - i + j = j  OBVIOUS
  <2>5. Len(v) = IF i < l THEN i ELSE l  BY <1>1, <2>1, <2>2
  <2>6. \A j \in 1..Len(v) : v[j] = s[i - Len(v) + j]  BY <2>2, <2>3, <2>4
  <2>7. InWindow(S, s, sep, i, v)  BY <2>2, <2>5, <2>6 DEF InWindow
  <2> QED  BY <2>7 DEF v
<1>3. CASE ~(Len(w) < l)
  <2>1. Len(w) = l /\ l <= i - 1 /\ w # <<>> /\ v = Append(Tail(w), c)
    <3>1. Len(w) = l /\ l <= i - 1  BY <1>w, <1>1, <1>3
    <3>2. w # <<>>  BY <1>1, <3>1, EmptySeq
    <3> QED  BY <1>0, <1>3, <3>1, <3>2
  <2>2. /\ Tail(w) \in Seq(S) /\ Len(Tail(w)) = l - 1
        /\ \A j \in 1..(l - 1) : Tail(w)[j] = w[j + 1]
    BY <1>w, <2>1, HeadTailProperties
  <2>3. /\ v \in Seq(S) /\ Len(v) = l /\ v[l] = c
        /\ \A j \in 1..(l - 1) : v[j] = w[j + 1]
    <3> DEFINE t == Tail(w)
    <3> HIDE DEF t
    <3>1. /\ v \in Seq(S) /\ Len(v) = Len(t) + 1 /\ v[Len(t) + 1] = c
          /\ \A j \in 1..Len(t) : v[j] = t[j]
      BY <1>1, <2>1, <2>2, AppendProperties DEF t
    <3>2. Len(t) + 1 = l /\ Len(t) = l - 1  BY <1>1, <2>2 DEF t
    <3> QED  BY <2>2, <3>1, <3>2 DEF t
  <2>4. ASSUME NEW j \in 1..l PROVE v[j] = s[i - l + j]
    <3>1. CASE j = l
      <4>1. i - l + j = i  BY <1>1, <3>1
      <4> QED  BY <2>3, <3>1, <4>1
    <3>2. CASE j # l
      <4>1. j \in 1..(l - 1) /\ j + 1 \in 1..l /\ i - 1 - l + (j + 1) = i - l + j
        BY <1>1, <3>2
      <4>2. w[j + 1] = s[i - 1 - l + (j + 1)]  BY <1>w, <2>1, <4>1
      <4> QED  BY <2>3, <4>1, <4>2
    <3> QED  BY <3>1, <3>2
  <2>5. Len(v) = IF i < l THEN i ELSE l  BY <1>1, <2>1, <2>3
  <2>6. InWindow(S, s, sep, i, v)  BY <2>3, <2>4, <2>5 DEF InWindow
  <2> QED  BY <2>6 DEF v
<1> QED  BY <1>2, <1>3

LEMMA TurnWithoutCut ==
  ASSUME NEW S, NEW s, NEW sep, NEW st \in SplitStates(S), NEW i, st.left # 0,
         Len(st.window) < Len(sep) \/ st.window # sep
  PROVE  SplitTurn(s, sep, st, i) =
           [window |-> Slid(s, sep, st.window, i), last |-> st.last,
            fields |-> st.fields, left |-> st.left]
BY DEF SplitTurn, SplitStates, Slid

(* A turn that cuts nothing.                                               *)
LEMMA TurnSlides ==
  ASSUME NEW S, NEW s \in Seq(S), NEW sep \in Seq(S), Len(sep) > 0, NEW n \in Int,
         NEW i \in 1..Len(s), NEW st, SplitInv(S, s, sep, n, i - 1, st),
         st.left # 0, Len(st.window) < Len(sep) \/ st.window # sep
  PROVE  SplitInv(S, s, sep, n, i, SplitTurn(s, sep, st, i))
<1> DEFINE t == SplitTurn(s, sep, st, i)
           v == Slid(s, sep, st.window, i)
           w == st.window
           l == Len(sep)
<1>1. st \in SplitStates(S) /\ Watching(S, s, sep, i - 1, st)  BY DEF SplitInv
<1>2. t = [window |-> v, last |-> st.last, fields |-> st.fields, left |-> st.left]
  BY <1>1, TurnWithoutCut
<1>3. Len(s) \in Nat /\ l \in Nat /\ w \in Seq(S)  BY <1>1, LenProperties DEF SplitStates
<1>4. InWindow(S, s, sep, i, v) /\ v \in Seq(S)
  <2>1. InWindow(S, s, sep, i - 1, st.window)  BY <1>1 DEF Watching
  <2>2. InWindow(S, s, sep, i, Slid(s, sep, st.window, i))  BY <2>1, WindowMoves
  <2> QED  BY <2>2 DEF InWindow
<1>w. /\ Len(w) = IF i - 1 < l THEN i - 1 ELSE l
      /\ \A j \in 1..Len(w) : w[j] = s[i - 1 - Len(w) + j]
  BY <1>1 DEF Watching, InWindow
<1>5. ASSUME NEW q \in Occurrences(sep, s), st.last <= q PROVE i < q + l
  <2>1. i - 1 < q + l /\ q \in Nat /\ q >= 1
    BY <1>1, <1>3, <1>5 DEF Watching, Occurrences
  <2>2. CASE i <= l  BY <1>3, <2>1, <2>2
  <2>3. CASE ~(i <= l)
    <3>1. Len(w) = l  BY <1>w, <1>3, <2>3
    <3>2. w # sep  BY <1>3, <3>1
    <3>3. \A j \in 1..Len(w) : w[j] = s[i - 1 - Len(w) + j]  BY <1>w
    <3>6. Len(sep) < i /\ w \in Seq(S) /\ Len(w) = Len(sep)  BY <1>3, <2>3, <3>1
    <3> HIDE DEF w
    <3>4. w = sep <=> i - Len(sep) \in Occurrences(sep, s)
      BY <3>3, <3>6, WindowIsSeparator
    <3>5. q # i - l  BY <3>2, <3>4
    <3> QED  BY <1>3, <2>1, <3>5
  <2> QED  BY <2>2, <2>3
<1> HIDE DEF t, v
<1>6. Watching(S, s, sep, i, t)  BY <1>2, <1>4, <1>5 DEF Watching
<1>7. t \in SplitStates(S)  BY <1>1, <1>2, <1>4 DEF SplitStates
<1>8. /\ t.last = 1 \/ t.last <= i
      /\ \E at : Places(s, sep, t.fields, t.last, at)
      /\ Counted(n, t)
  <2>1. t.last = st.last /\ t.fields = st.fields /\ t.left = st.left  BY <1>2
  <2>2. st.last \in Nat  BY <1>1 DEF SplitStates
  <2> QED  BY <2>1, <2>2 DEF SplitInv, Counted
<1>9. SplitInv(S, s, sep, n, i, t)  BY <1>6, <1>7, <1>8 DEF SplitInv
<1> QED  BY <1>9 DEF t

(* A turn that cuts a field off.  The separator found lies behind the last *)
(* cut, because it does not overlap the one before.                        *)
LEMMA TurnCuts ==
  ASSUME NEW S, NEW s \in Seq(S), NEW sep \in Seq(S), Len(sep) > 0, NEW n \in Int,
         ~Overlaps(sep, s),
         NEW i \in 1..Len(s), NEW st, SplitInv(S, s, sep, n, i - 1, st),
         st.left # 0, ~(Len(st.window) < Len(sep)), st.window = sep
  PROVE  SplitInv(S, s, sep, n, i, SplitTurn(s, sep, st, i))
<1> DEFINE t == SplitTurn(s, sep, st, i)
           v == Slid(s, sep, st.window, i)
           l == Len(sep)
           a == st.last
           p == i - l
           f == Substr(s, a, i - a - l)
           m == Len(st.fields)
<1>1. st \in SplitStates(S) /\ Watching(S, s, sep, i - 1, st)  BY DEF SplitInv
<1>2. t = [window |-> v, last |-> i, fields |-> Append(st.fields, f),
           left |-> IF st.left > 0 THEN st.left - 1 ELSE st.left]
  <2>1. SplitTurn(s, sep, st, i) =
          [window |-> Slid(s, sep, st.window, i), last |-> i,
           fields |-> Append(st.fields, Substr(s, st.last, i - st.last - Len(sep))),
           left |-> IF st.left > 0 THEN st.left - 1 ELSE st.left]
    BY <1>1 DEF SplitTurn, SplitStates, Slid
  <2> QED  BY <2>1
<1>3. /\ Len(s) \in Nat /\ l \in Nat /\ st.window \in Seq(S) /\ a \in Nat \ {0}
      /\ st.fields \in Seq(Seq(S)) /\ m \in Nat /\ st.left \in Int
  BY <1>1, LenProperties DEF SplitStates
<1>4. l < i
  <2>1. l = IF i - 1 < l THEN i - 1 ELSE l  BY <1>1 DEF Watching, InWindow
  <2> QED  BY <1>3, <2>1
<1>5. InWindow(S, s, sep, i, v) /\ v \in Seq(S)
  <2>1. InWindow(S, s, sep, i - 1, st.window)  BY <1>1 DEF Watching
  <2>2. InWindow(S, s, sep, i, Slid(s, sep, st.window, i))  BY <2>1, WindowMoves
  <2> QED  BY <2>2 DEF InWindow
<1>6. p \in Occurrences(sep, s) /\ p \in Nat \ {0}
  <2>1. \A j \in 1..l : st.window[j] = s[i - 1 - l + j]
    BY <1>1 DEF Watching, InWindow
  <2>2. p \in Occurrences(sep, s)
    BY <1>3, <1>4, <2>1, WindowIsSeparator
  <2> QED  BY <1>3, <1>4, <2>2
<1>7. PICK at : Places(s, sep, st.fields, a, at)  BY DEF SplitInv
<1>8. a <= p
  <2>1. CASE m = 0  BY <1>6, <1>7, <2>1 DEF Places
  <2>2. CASE m # 0
    <3>1. a - l \in Occurrences(sep, s)
      <4>1. m \in 1..m  BY <1>3, <2>2
      <4> QED  BY <1>7, <4>1 DEF Places
    <3>2. a = 1 \/ a <= i - 1  BY DEF SplitInv
    <3>3. a # 1  BY <1>3, <3>1 DEF Occurrences
    <3>4. a - l \in 1..(Len(s) - l + 1) /\ p \in 1..(Len(s) - l + 1)
      BY <1>6, <3>1 DEF Occurrences
    <3>5. ~(p < a - l + l /\ a - l < p)
      BY <1>6, <3>1 DEF Overlaps
    <3>6. a - l < p  BY <1>3, <1>4, <3>2, <3>3
    <3> QED  BY <1>3, <3>5, <3>6
  <2> QED  BY <2>1, <2>2
<1>9. f = SubSeq(s, a, i - l - 1) /\ f \in Seq(S)
  <2>1. ~(i - a - l < 0) /\ a + (i - a - l) - 1 = i - l - 1
        /\ a - 1 <= i - l - 1 /\ i - l - 1 <= Len(s) /\ i - l - 1 \in Int
    BY <1>3, <1>8
  <2>2. f = SubSeq(s, a, i - l - 1)
    <3> DEFINE x == i - a - l
    <3>1. ~(x < 0) /\ a + x - 1 = i - l - 1 /\ f = Substr(s, a, x)  BY <2>1
    <3>2. Substr(s, a, x) = SubSeq(s, a, a + x - 1)
      <4> HIDE DEF x
      <4> QED  BY <3>1 DEF Substr
    <3> HIDE DEF x, f
    <3> QED  BY <3>1, <3>2
  <2>3. SubSeq(s, a, i - l - 1) \in Seq(S)  BY <1>3, <2>1, PieceEffect
  <2> QED  BY <2>2, <2>3
<1> HIDE DEF t, v, f, p
<1>10. /\ t.window = v /\ t.last = i /\ t.fields = Append(st.fields, f)
       /\ t.left = IF st.left > 0 THEN st.left - 1 ELSE st.left
  BY <1>2
<1>11. /\ t.fields \in Seq(Seq(S)) /\ Len(t.fields) = m + 1 /\ t.fields[m + 1] = f
       /\ \A k \in 1..m : t.fields[k] = st.fields[k]
  <2> DEFINE fs == st.fields
  <2>1. fs \in Seq(Seq(S)) /\ t.fields = Append(fs, f)  BY <1>3, <1>10
  <2> HIDE DEF fs
  <2>2. /\ t.fields \in Seq(Seq(S)) /\ Len(t.fields) = Len(fs) + 1
        /\ t.fields[Len(fs) + 1] = f /\ \A k \in 1..Len(fs) : t.fields[k] = fs[k]
    <3>1. f \in Seq(S)  BY <1>9
    <3> QED  BY <2>1, <3>1, AppendProperties
  <2> QED  BY <2>2 DEF fs
<1>12. t \in SplitStates(S)
  BY <1>2, <1>3, <1>5, <1>10, <1>11 DEF SplitStates
<1>13. Counted(n, t)
  <2> DEFINE lf == st.left
  <2>1. IF n < 0 THEN lf = n ELSE lf >= 0 /\ lf + m = n  BY DEF SplitInv, Counted
  <2>2. m \in Nat /\ lf \in Int /\ lf # 0  BY <1>3
  <2>3. t.left = (IF lf > 0 THEN lf - 1 ELSE lf) /\ Len(t.fields) = m + 1  BY <1>10, <1>11
  <2> HIDE DEF m, lf
  <2>4. IF n < 0 THEN t.left = n ELSE t.left >= 0 /\ t.left + (m + 1) = n
    BY <2>1, <2>2, <2>3
  <2> QED  BY <2>3, <2>4 DEF Counted
<1>14. Watching(S, s, sep, i, t)
  <2>1. ASSUME NEW q \in Occurrences(sep, s), i <= q PROVE i < q + l
    BY <1>3, <2>1 DEF Occurrences
  <2> QED  BY <1>5, <1>10, <2>1 DEF Watching
<1>15. \E new : Places(s, sep, t.fields, t.last, new)
  <2> DEFINE new == [k \in 1..(m + 1 + 1) |-> IF k = m + 1 + 1 THEN i ELSE at[k]]
  <2>1. /\ at \in [1..(m + 1) -> Nat \ {0}] /\ at[1] = 1 /\ at[m + 1] = a
        /\ \A k \in 1..m :
             /\ at[k] + l <= at[k + 1]
             /\ st.fields[k] = SubSeq(s, at[k], at[k + 1] - l - 1)
             /\ at[k + 1] - l \in Occurrences(sep, s)
             /\ \A q \in Occurrences(sep, s) : at[k] <= q => at[k + 1] - l <= q
    BY <1>7 DEF Places
  <2>2. /\ new \in [1..(m + 1 + 1) -> Nat \ {0}]
        /\ new[m + 1 + 1] = i /\ new[m + 1] = a /\ new[1] = 1
        /\ \A k \in 1..m : new[k] = at[k] /\ new[k + 1] = at[k + 1]
    <3>1. \A k \in 1..(m + 1) : k \in 1..(m + 1 + 1) /\ k # m + 1 + 1
      <4>1. m \in Nat  BY <1>3
      <4> HIDE DEF m
      <4> QED  BY <4>1
    <3>2. \A k \in 1..(m + 1) : new[k] = at[k]  BY <3>1
    <3>3. m + 1 + 1 \in 1..(m + 1 + 1) /\ m + 1 \in 1..(m + 1) /\ 1 \in 1..(m + 1)
          /\ \A k \in 1..m : k \in 1..(m + 1) /\ k + 1 \in 1..(m + 1)
      <4>1. m \in Nat  BY <1>3
      <4> HIDE DEF m
      <4> QED  BY <4>1
    <3>4. new \in [1..(m + 1 + 1) -> Nat \ {0}]
      <4>1. \A k \in 1..(m + 1 + 1) : k # m + 1 + 1 => k \in 1..(m + 1)
        <5>1. m \in Nat  BY <1>3
        <5> HIDE DEF m
        <5> QED  BY <5>1
      <4>2. i \in Nat \ {0}  OBVIOUS
      <4> HIDE DEF m
      <4> QED  BY <2>1, <4>1, <4>2
    <3>5. new[m + 1 + 1] = i  BY <3>3
    <3> HIDE DEF new
    <3> QED  BY <2>1, <3>2, <3>3, <3>4, <3>5
  <2> HIDE DEF new
  <2>3. ASSUME NEW k \in 1..(m + 1)
        PROVE  /\ new[k] + l <= new[k + 1]
               /\ t.fields[k] = SubSeq(s, new[k], new[k + 1] - l - 1)
               /\ new[k + 1] - l \in Occurrences(sep, s)
               /\ \A q \in Occurrences(sep, s) : new[k] <= q => new[k + 1] - l <= q
    <3>1. CASE k = m + 1
      <4>1. new[k] = a /\ new[k + 1] = i /\ t.fields[k] = f  BY <1>11, <2>2, <3>1
      <4>2. a + l <= i  BY <1>3, <1>8 DEF p
      <4>3. \A q \in Occurrences(sep, s) : a <= q => i - l <= q
        <5> TAKE q \in Occurrences(sep, s)
        <5>1. q \in Int  BY <1>3 DEF Occurrences
        <5>2. a <= q => i - 1 < q + l  BY <1>1 DEF Watching
        <5> QED  BY <1>3, <5>1, <5>2
      <4> QED  BY <1>6, <1>9, <4>1, <4>2, <4>3 DEF p
    <3>2. CASE k # m + 1
      <4>1. k \in 1..m  BY <1>3, <3>2
      <4> QED  BY <1>11, <2>1, <2>2, <4>1
    <3> QED  BY <3>1, <3>2
  <2>4. Places(s, sep, t.fields, t.last, new)
    BY <1>10, <1>11, <2>2, <2>3 DEF Places
  <2> QED  BY <2>4
<1>16. SplitInv(S, s, sep, n, i, t)
  BY <1>10, <1>12, <1>13, <1>14, <1>15 DEF SplitInv
<1> QED  BY <1>16 DEF t

-----------------------------------------------------------------------------
(* splitstr(): the whole loop, and what it promises.                       *)

LEMMA SplitInvStart ==
  ASSUME NEW S, NEW s, NEW sep \in Seq(S), Len(sep) > 0, NEW n \in Int
  PROVE  SplitInv(S, s, sep, n, 0, SplitStart(n))
<1> DEFINE st == SplitStart(n)
           at == [k \in 1..1 |-> 1]
<1>1. st = [window |-> <<>>, last |-> 1, fields |-> <<>>, left |-> n]  BY DEF SplitStart
<1>2. /\ <<>> \in Seq(S) /\ <<>> \in Seq(Seq(S))
      /\ Len(<<>>) = 0 /\ Len(sep) \in Nat
  BY EmptySeq, LenProperties
<1> HIDE DEF st
<1>3. st \in SplitStates(S)  BY <1>1, <1>2 DEF SplitStates
<1>4. Places(s, sep, st.fields, st.last, at)
  <2>1. at \in [1..(0 + 1) -> Nat \ {0}] /\ at[1] = 1 /\ at[0 + 1] = 1  OBVIOUS
  <2> HIDE DEF at
  <2>2. st.fields = <<>> /\ st.last = 1  BY <1>1
  <2>3. Places(s, sep, <<>>, 1, at)  BY <1>2, <2>1 DEF Places
  <2> QED  BY <2>2, <2>3
<1>5. Counted(n, st)  BY <1>1, <1>2 DEF Counted
<1>6. Watching(S, s, sep, 0, st)
  <2>1. InWindow(S, s, sep, 0, st.window)  BY <1>1, <1>2 DEF InWindow
  <2>2. \A q \in Occurrences(sep, s) : 0 < q + Len(sep)
    BY <1>2 DEF Occurrences
  <2> QED  BY <2>1, <2>2 DEF Watching
<1>7. st.last = 1  BY <1>1
<1>8. SplitInv(S, s, sep, n, 0, st)  BY <1>3, <1>4, <1>5, <1>6, <1>7 DEF SplitInv
<1> QED  BY <1>8 DEF st

(* After the last split the loop only runs on.                             *)
LEMMA TurnIdles ==
  ASSUME NEW S, NEW s, NEW sep, NEW n, NEW i \in Nat \ {0}, NEW st,
         SplitInv(S, s, sep, n, i - 1, st), st.left = 0
  PROVE  SplitInv(S, s, sep, n, i, SplitTurn(s, sep, st, i))
<1>1. SplitTurn(s, sep, st, i) = st  BY DEF SplitTurn
<1>2. st.last \in Nat  BY DEF SplitInv, SplitStates
<1>3. SplitInv(S, s, sep, n, i, st)  BY <1>2 DEF SplitInv
<1> QED  BY <1>1, <1>3

LEMMA SplitInvAtEnd ==
  ASSUME NEW S, NEW s \in Seq(S), NEW sep \in Seq(S), Len(sep) > 0, NEW n \in Int,
         ~Overlaps(sep, s)
  PROVE  SplitInv(S, s, sep, n, Len(s), SplitLoop(s, sep, n)[Len(s)])
<1> DEFINE l == SplitLoop(s, sep, n)
           Bad == {i \in 0..Len(s) : ~SplitInv(S, s, sep, n, i, l[i])}
<1>1. Len(s) \in Nat  BY LenProperties
<1>2. l[0] = SplitStart(n) /\ \A i \in 1..Len(s) : l[i] = SplitTurn(s, sep, l[i - 1], i)
  BY <1>1, SplitLoopTurns DEF Turns
<1> HIDE DEF l
<1> SUFFICES ASSUME Bad # {} PROVE FALSE
  <2>1. Len(s) \in 0..Len(s)  BY <1>1
  <2>2. Bad = {} => SplitInv(S, s, sep, n, Len(s), l[Len(s)])  BY <2>1
  <2> QED  BY <2>2 DEF l
<1>3. PICK i \in Bad : \A k \in Nat : k < i => k \notin Bad
  <2>1. Bad \subseteq Nat  BY <1>1
  <2> HIDE DEF Bad
  <2> QED  BY <2>1, LeastCounterexample
<1>4. i # 0  BY <1>2, <1>3, SplitInvStart
<1>5. i \in 1..Len(s) /\ i \in Nat \ {0} /\ i - 1 \in 0..Len(s) /\ i - 1 \in Nat
      /\ i - 1 < i /\ i - 1 \notin Bad
  BY <1>1, <1>3, <1>4
<1> DEFINE st == l[i - 1]
<1>6. SplitInv(S, s, sep, n, i - 1, st)  BY <1>5
<1>7. l[i] = SplitTurn(s, sep, st, i)  BY <1>2, <1>5
<1>8. ~SplitInv(S, s, sep, n, i, l[i])  BY <1>3
<1> HIDE DEF st, Bad
<1>9. CASE st.left = 0  BY <1>5, <1>6, <1>7, <1>8, <1>9, TurnIdles
<1>10. CASE st.left # 0 /\ (Len(st.window) < Len(sep) \/ st.window # sep)
  BY <1>5, <1>6, <1>7, <1>8, <1>10, TurnSlides
<1>11. CASE st.left # 0 /\ ~(Len(st.window) < Len(sep)) /\ st.window = sep
  BY <1>5, <1>6, <1>7, <1>8, <1>11, TurnCuts
<1> QED  BY <1>9, <1>10, <1>11

(* The fields of s, named by the places they start at: where a field ends  *)
(* is the first separator not before its start.  When there are splits     *)
(* left, what is behind the last one holds no separator but at its end.    *)
Cuts(s, sep, n, fields, at) ==
  /\ Len(fields) \in Nat \ {0} /\ at \in [1..Len(fields) -> Nat \ {0}] /\ at[1] = 1
  /\ \A j, k \in 1..Len(fields) : j < k => at[j] + Len(sep) <= at[k]
  /\ \A k \in 1..(Len(fields) - 1) :
       /\ fields[k] = SubSeq(s, at[k], at[k + 1] - Len(sep) - 1)
       /\ at[k + 1] - Len(sep) \in Occurrences(sep, s) /\ at[k + 1] <= Len(s)
       /\ \A q \in Occurrences(sep, s) : at[k] <= q => at[k + 1] - Len(sep) <= q
  /\ fields[Len(fields)] = SubSeq(s, at[Len(fields)], Len(s))
  /\ n >= 0 => Len(fields) <= n + 1
  /\ n < 0 \/ Len(fields) <= n =>
       \A q \in Occurrences(sep, s) : at[Len(fields)] <= q => Len(s) < q + Len(sep)

LEMMA SplitCuts ==
  ASSUME NEW S, NEW s \in Seq(S), NEW sep \in Seq(S), Len(sep) > 0, NEW n \in Int,
         ~Overlaps(sep, s)
  PROVE  \E at : Cuts(s, sep, n, Split(s, sep, n), at)
<1> DEFINE end == SplitLoop(s, sep, n)[Len(s)]
           m == Len(end.fields)
           l == Len(sep)
           fields == Split(s, sep, n)
           N == Len(s)
<1>1. SplitInv(S, s, sep, n, N, end)  BY SplitInvAtEnd
<1>2. fields = Append(end.fields, SubSeq(s, end.last, N))  BY DEF Split, Substr
<1> HIDE DEF end, fields
<1>3. /\ N \in Nat /\ l \in Nat \ {0} /\ m \in Nat
      /\ end.last \in Nat \ {0} /\ end.left \in Int /\ end.fields \in Seq(Seq(S))
      /\ end.last = 1 \/ end.last <= N
  <2>1. end \in SplitStates(S) /\ (end.last = 1 \/ end.last <= N)  BY <1>1 DEF SplitInv
  <2> QED  BY <2>1, LenProperties DEF SplitStates
<1>4. PICK at : Places(s, sep, end.fields, end.last, at)  BY <1>1 DEF SplitInv
<1>5. /\ at \in [1..(m + 1) -> Nat \ {0}] /\ at[1] = 1 /\ at[m + 1] = end.last
      /\ \A k \in 1..m :
           /\ at[k] + l <= at[k + 1]
           /\ end.fields[k] = SubSeq(s, at[k], at[k + 1] - l - 1)
           /\ at[k + 1] - l \in Occurrences(sep, s)
           /\ \A q \in Occurrences(sep, s) : at[k] <= q => at[k + 1] - l <= q
  BY <1>4 DEF Places
<1>6. /\ Len(fields) = m + 1 /\ fields[m + 1] = SubSeq(s, end.last, N)
      /\ \A k \in 1..m : fields[k] = end.fields[k]
  <2> DEFINE z == SubSeq(s, end.last, N)
  <2>1. z \in Seq(S)  BY <1>3, PieceEffect
  <2> HIDE DEF z
  <2>2. fields = Append(end.fields, z)  BY <1>2 DEF z
  <2>3. /\ Len(fields) = Len(end.fields) + 1 /\ fields[Len(end.fields) + 1] = z
        /\ \A k \in 1..Len(end.fields) : fields[k] = end.fields[k]
    BY <1>3, <2>1, <2>2, AppendProperties
  <2> QED  BY <2>3 DEF z
<1>c. Counted(n, end) /\ (end.left # 0 => Watching(S, s, sep, N, end))
  BY <1>1 DEF SplitInv
<1>w. /\ n >= 0 => m <= n
      /\ n < 0 \/ m + 1 <= n =>
           \A q \in Occurrences(sep, s) : at[m + 1] <= q => N < q + l
  <2>1. n >= 0 => end.left >= 0 /\ end.left + m = n  BY <1>c DEF Counted
  <2>2. n < 0 \/ m + 1 <= n => end.left # 0  BY <1>3, <1>c, <2>1 DEF Counted
  <2>3. end.left # 0 => \A q \in Occurrences(sep, s) : end.last <= q => N < q + l
    BY <1>c DEF Watching
  <2> QED  BY <1>3, <1>5, <2>1, <2>2, <2>3
<1> HIDE DEF m, l, N
<1>7. \A j, k \in 1..(m + 1) : j < k => at[j] + l <= at[k]
  <2> DEFINE Bad == {k \in 1..(m + 1) : \E j \in 1..(m + 1) : j < k /\ ~(at[j] + l <= at[k])}
  <2> SUFFICES ASSUME Bad # {} PROVE FALSE
    OBVIOUS
  <2>1. PICK k \in Bad : \A i \in Nat : i < k => i \notin Bad
    <3>1. Bad \subseteq Nat  BY <1>3
    <3> HIDE DEF Bad
    <3> QED  BY <3>1, LeastCounterexample
  <2>2. PICK j \in 1..(m + 1) : j < k /\ ~(at[j] + l <= at[k])  BY <2>1
  <2>3. /\ k - 1 \in 1..m /\ k - 1 \in 1..(m + 1) /\ k \in 1..(m + 1) /\ k - 1 + 1 = k
        /\ k - 1 \in Nat /\ k - 1 < k
    BY <1>3, <2>1, <2>2
  <2>4. at[k - 1] + l <= at[k]
    <3>1. at[k - 1] + l <= at[k - 1 + 1]  BY <1>5, <2>3
    <3> QED  BY <2>3, <3>1
  <2>5. at[j] \in Nat /\ at[k] \in Nat /\ at[k - 1] \in Nat  BY <1>5, <2>3
  <2>6. j # k - 1  BY <2>2, <2>4
  <2>7. j < k - 1  BY <1>3, <2>2, <2>3, <2>6
  <2>8. at[j] + l <= at[k - 1]  BY <2>1, <2>3, <2>7
  <2> DEFINE x == at[j]
             y == at[k - 1]
             z == at[k]
  <2>9. /\ x \in Nat /\ y \in Nat /\ z \in Nat /\ l \in Nat
        /\ x + l <= y /\ y + l <= z /\ ~(x + l <= z)
    BY <1>3, <2>2, <2>4, <2>5, <2>8
  <2> HIDE DEF x, y, z
  <2> QED  BY <2>9
<1>8. \A k \in 1..m : at[k + 1] <= N
  <2> TAKE k \in 1..m
  <2>1. k \in 1..(m + 1) /\ k + 1 \in 1..(m + 1) /\ 1 \in 1..(m + 1) /\ m + 1 \in 1..(m + 1)
        /\ 1 < k + 1
    BY <1>3
  <2>2. at[k + 1] \in Nat /\ at[m + 1] \in Nat /\ at[1] + l <= at[k + 1]  BY <1>5, <1>7, <2>1
  <2>3. at[k + 1] <= at[m + 1]
    <3>1. k + 1 = m + 1 \/ at[k + 1] + l <= at[m + 1]  BY <1>3, <1>7, <2>1
    <3> QED  BY <1>3, <2>2, <3>1
  <2>4. end.last # 1  BY <1>3, <1>5, <2>2, <2>3
  <2> QED  BY <1>3, <1>5, <2>2, <2>3, <2>4
<1>9. Cuts(s, sep, n, fields, at)
  <2>1. Len(fields) = m + 1 /\ Len(fields) - 1 = m /\ Len(fields) \in Nat \ {0}
    BY <1>3, <1>6
  <2>2. n >= 0 => Len(fields) <= n + 1  BY <1>3, <1>w, <2>1
  <2> QED  BY <1>5, <1>6, <1>7, <1>8, <1>w, <2>1, <2>2 DEF Cuts, l, N
<1> QED  BY <1>9 DEF fields

(* A separator within a piece is one of the text.                          *)
LEMMA OccurrenceInPiece ==
  ASSUME NEW S, NEW s \in Seq(S), NEW sep \in Seq(S), Len(sep) > 0,
         NEW a \in Nat \ {0}, NEW e \in Int, a - 1 <= e, e <= Len(s),
         NEW p \in Occurrences(sep, SubSeq(s, a, e))
  PROVE  /\ p \in Nat \ {0} /\ p <= e - a + 1 - Len(sep) + 1
         /\ a + p - 1 \in Occurrences(sep, s)
<1> DEFINE x == SubSeq(s, a, e)
           l == Len(sep)
<1>1. Len(s) \in Nat /\ l \in Nat  BY LenProperties
<1>2. Len(x) = e - a + 1 /\ x \in Seq(S)  BY PieceEffect
<1>3. p \in 1..(Len(x) - l + 1) /\ SubSeq(x, p, p + l - 1) = sep  BY DEF Occurrences
<1>4. SubSeq(x, p, p + l - 1) = SubSeq(s, a + p - 1, a + (p + l - 1) - 1)
  <2>1. /\ a \in 1..Len(s) /\ e \in 1..Len(s)
        /\ p \in 1..(e - a + 1) /\ p + l - 1 \in 1..(e - a + 1)
    <3> HIDE DEF x, l
    <3> QED  BY <1>1, <1>2, <1>3 DEF l
  <2> QED  BY <2>1, SubSeqOfSubSeq
<1> HIDE DEF x
<1>5. a + (p + l - 1) - 1 = a + p - 1 + l - 1  BY <1>1, <1>3
<1>6. a + p - 1 \in 1..(Len(s) - l + 1)  BY <1>1, <1>2, <1>3
<1>7. SubSeq(s, a + p - 1, a + p - 1 + l - 1) = sep  BY <1>3, <1>4, <1>5
<1>8. a + p - 1 \in Occurrences(sep, s)  BY <1>6, <1>7 DEF Occurrences
<1> QED  BY <1>1, <1>2, <1>3, <1>8

(* The function of fields that Join folds with is the one that solves its  *)
(* equations.                                                              *)
Joins(fields, sep, f) ==
  /\ f[1] = fields[1]
  /\ \A k \in 2..Len(fields) : f[k] = f[k - 1] \o sep \o fields[k]

LEMMA JoinsGiveJoin ==
  ASSUME NEW fields, NEW sep, NEW f, Len(fields) \in Nat \ {0}, Joins(fields, sep, f)
  PROVE  Join(fields, sep) = f[Len(fields)]
<1> DEFINE m == Len(fields)
           Joined(g) == [k \in 1..m |->
                           IF k = 1 THEN fields[1] ELSE g[k - 1] \o sep \o fields[k]]
           F == [k \in 1..m |-> f[k]]
           j == CHOOSE g : g = Joined(g)
<1>1. F = Joined(F)
  <2>1. ASSUME NEW k \in 1..m PROVE F[k] = Joined(F)[k]
    <3>1. CASE k = 1  BY <3>1 DEF Joins
    <3>2. CASE k # 1
      <4>1. k \in 2..m /\ k - 1 \in 1..m  BY <3>2
      <4>2. f[k] = f[k - 1] \o sep \o fields[k]  BY <4>1 DEF Joins
      <4>3. F[k] = f[k] /\ F[k - 1] = f[k - 1]  BY <4>1
      <4>4. Joined(F)[k] = F[k - 1] \o sep \o fields[k]  BY <3>2
      <4> QED  BY <4>2, <4>3, <4>4
    <3> QED  BY <3>1, <3>2
  <2> QED  BY <2>1
<1> HIDE DEF F
<1>2. j = Joined(j)  BY <1>1
<1> HIDE DEF j
<1>3. j[1] = fields[1]  BY <1>2
<1>4. \A k \in 2..m : j[k] = j[k - 1] \o sep \o fields[k]
  <2> TAKE k \in 2..m
  <2>1. k \in 1..m /\ k # 1  OBVIOUS
  <2>2. Joined(j)[k] = j[k - 1] \o sep \o fields[k]  BY <2>1
  <2> QED  BY <1>2, <2>2
<1>5. j[m] = f[m]
  <2> DEFINE Bad == {k \in 1..m : j[k] # f[k]}
  <2> SUFFICES ASSUME Bad # {} PROVE FALSE
    OBVIOUS
  <2>1. PICK k \in Bad : \A i \in Nat : i < k => i \notin Bad
    <3>1. Bad \subseteq Nat  OBVIOUS
    <3> HIDE DEF Bad
    <3> QED  BY <3>1, LeastCounterexample
  <2>2. k # 1  BY <1>3, <2>1 DEF Joins
  <2>3. k \in 2..m /\ k - 1 \in 1..m /\ k - 1 \in Nat /\ k - 1 < k  BY <2>1, <2>2
  <2>4. j[k - 1] = f[k - 1]  BY <2>1, <2>3
  <2>5. f[k] = f[k - 1] \o sep \o fields[k]  BY <2>3 DEF Joins
  <2>6. j[k] = j[k - 1] \o sep \o fields[k]  BY <1>4, <2>3
  <2> QED  BY <2>1, <2>4, <2>5, <2>6
<1>6. Join(fields, sep) = j[m]  BY DEF Join, j
<1> QED  BY <1>5, <1>6

(* splitstr() of any text at any separator that does not overlap itself in *)
(* it: see SplitRejoins.                                                   *)
THEOREM SplitRejoinsAnyText ==
  ASSUME NEW S, NEW s \in Seq(S), NEW sep \in Seq(S), Len(sep) > 0, NEW n \in Int
  PROVE  SplitRejoins(s, sep, n)
<1> SUFFICES ASSUME ~Overlaps(sep, s) PROVE SplitRejoins(s, sep, n)
  BY DEF SplitRejoins
<1> DEFINE fields == Split(s, sep, n)
           m == Len(fields) - 1
           l == Len(sep)
<1>1. PICK at : Cuts(s, sep, n, fields, at)  BY SplitCuts
<1> HIDE DEF fields
<1>4. /\ Len(s) \in Nat /\ l \in Nat \ {0} /\ m \in Nat /\ Len(fields) = m + 1
      /\ at[m + 1] \in Nat \ {0} /\ at[m + 1] <= Len(s) + 1
  <2>1. Len(fields) \in Nat \ {0}  BY <1>1 DEF Cuts
  <2>2. Len(s) \in Nat /\ l \in Nat \ {0}  BY LenProperties
  <2>3. m \in Nat /\ Len(fields) = m + 1  BY <2>1
  <2>4. at[m + 1] \in Nat \ {0}  BY <1>1, <2>1, <2>3 DEF Cuts
  <2>5. at[m + 1] <= Len(s) + 1
    <3>1. CASE m = 0
      <4>a. at[1] = 1  BY <1>1 DEF Cuts
      <4>b. m + 1 = 1  BY <3>1
      <4>1. at[m + 1] = 1  BY <4>a, <4>b
      <4> QED  BY <2>2, <4>1
    <3>2. CASE m # 0
      <4>1. m \in 1..(Len(fields) - 1)  BY <2>3, <3>2
      <4>2. at[m + 1] <= Len(s)  BY <1>1, <4>1 DEF Cuts
      <4> QED  BY <2>2, <2>4, <4>2
    <3> QED  BY <3>1, <3>2
  <2> QED  BY <2>2, <2>3, <2>4, <2>5
<1>5. /\ at \in [1..(m + 1) -> Nat \ {0}] /\ at[1] = 1
      /\ \A k \in 1..m :
           /\ at[k] + l <= at[k + 1]
           /\ fields[k] = SubSeq(s, at[k], at[k + 1] - l - 1)
           /\ at[k + 1] - l \in Occurrences(sep, s)
           /\ \A q \in Occurrences(sep, s) : at[k] <= q => at[k + 1] - l <= q
  <2>1. \A k \in 1..m : k \in 1..(m + 1) /\ k + 1 \in 1..(m + 1) /\ k < k + 1
    <3>1. m \in Nat  BY <1>4
    <3> HIDE DEF m
    <3> QED  BY <3>1
  <2>2. at \in [1..(m + 1) -> Nat \ {0}] /\ at[1] = 1  BY <1>1, <1>4 DEF Cuts
  <2>3. \A j, k \in 1..(m + 1) : j < k => at[j] + l <= at[k]  BY <1>1, <1>4 DEF Cuts
  <2> QED  BY <1>1, <2>1, <2>2, <2>3 DEF Cuts
<1>7. fields[m + 1] = SubSeq(s, at[m + 1], Len(s))  BY <1>1, <1>4 DEF Cuts
<1> HIDE DEF m
<1> DEFINE e(k) == IF k = m + 1 THEN Len(s) ELSE at[k + 1] - l - 1
<1>k. ASSUME NEW k \in 1..(m + 1) PROVE fields[k] = SubSeq(s, at[k], e(k))
  <2>1. CASE k = m + 1  BY <1>7, <2>1
  <2>2. CASE k # m + 1
    <3>1. k \in 1..m  BY <1>4, <2>2
    <3> QED  BY <1>5, <2>2, <3>1
  <2> QED  BY <2>1, <2>2
<1>6. ASSUME NEW k \in 1..(m + 1)
      PROVE  at[k] \in Nat \ {0} /\ e(k) \in Int /\ at[k] - 1 <= e(k) /\ e(k) <= Len(s)
  <2>1. at[k] \in Nat \ {0}  BY <1>5
  <2>2. CASE k = m + 1  BY <1>4, <1>5, <2>2
  <2>3. CASE k # m + 1
    <3>1. k \in 1..m /\ k + 1 \in 1..(m + 1)  BY <1>4, <2>3
    <3>2. /\ at[k + 1] \in Nat \ {0} /\ at[k] + l <= at[k + 1]
          /\ at[k + 1] - l \in 1..(Len(s) - l + 1)
      BY <1>5, <3>1 DEF Occurrences
    <3>3. e(k) = at[k + 1] - l - 1  BY <2>3
    <3> DEFINE b == at[k]
               x == e(k)
               y == at[k + 1]
    <3>4. /\ b \in Nat \ {0} /\ y \in Nat \ {0} /\ b + l <= y
          /\ y - l \in 1..(Len(s) - l + 1) /\ x = y - l - 1
      BY <2>1, <3>2, <3>3
    <3> HIDE DEF b, x, y
    <3>5. x \in Int /\ b - 1 <= x /\ x <= Len(s)  BY <1>4, <3>4
    <3> QED  BY <2>1, <3>5 DEF b, x
  <2> QED  BY <2>2, <2>3
<1>8. Join(fields, sep) = s
  <2> DEFINE F == [k \in 1..(m + 1) |-> SubSeq(s, 1, e(k))]
  <2>1. F[1] = fields[1]
    <3>1. 1 \in 1..(m + 1)  BY <1>4
    <3>2. F[1] = SubSeq(s, 1, e(1)) /\ fields[1] = SubSeq(s, at[1], e(1))
      <4> HIDE DEF e
      <4> QED  BY <1>k, <3>1
    <3> QED  BY <1>5, <3>2
  <2>2. ASSUME NEW k \in 2..(m + 1) PROVE F[k] = F[k - 1] \o sep \o fields[k]
    <3> DEFINE b == at[k]
               x == e(k)
    <3>1. k \in 1..(m + 1) /\ k - 1 \in 1..m /\ k - 1 \in 1..(m + 1) /\ k - 1 + 1 = k
          /\ k - 1 # m + 1
      BY <1>4
    <3>2. /\ b \in Nat \ {0} /\ x \in Int /\ b - 1 <= x /\ x <= Len(s)
          /\ fields[k] = SubSeq(s, b, x)
      BY <1>6, <1>k, <3>1
    <3>3. b - l \in Occurrences(sep, s)  BY <1>5, <3>1
    <3>4. e(k - 1) = b - l - 1  BY <3>1
    <3>5. F[k] = SubSeq(s, 1, x) /\ F[k - 1] = SubSeq(s, 1, b - l - 1)  BY <3>1, <3>4
    <3> HIDE DEF b, x, F, e
    <3>6. b - l \in 1..(Len(s) - l + 1) /\ SubSeq(s, b - l, b - 1) = sep
      <4>1. b - l + l - 1 = b - 1  BY <1>4, <3>2
      <4> QED  BY <3>3, <4>1 DEF Occurrences
    <3>7. SubSeq(s, 1, b - l - 1) \o SubSeq(s, b - l, b - 1) = SubSeq(s, 1, b - 1)
      <4> DEFINE c == b - l - 1
      <4>1. /\ 1 \in 1..(Len(s) + 1) /\ c \in 1 - 1..Len(s) /\ b - 1 \in c..Len(s)
            /\ c + 1 = b - l
        BY <1>4, <3>2, <3>6
      <4> HIDE DEF c
      <4>2. SubSeq(s, 1, c) \o SubSeq(s, c + 1, b - 1) = SubSeq(s, 1, b - 1)
        BY <4>1, ConcatAdjacentSubSeq
      <4> QED  BY <4>1, <4>2 DEF c
    <3>8. SubSeq(s, 1, b - 1) \o SubSeq(s, b, x) = SubSeq(s, 1, x)
      <4> DEFINE c == b - 1
      <4>1. 1 \in 1..(Len(s) + 1) /\ c \in 1 - 1..Len(s) /\ x \in c..Len(s) /\ c + 1 = b
        BY <1>4, <3>2
      <4> HIDE DEF c
      <4>2. SubSeq(s, 1, c) \o SubSeq(s, c + 1, x) = SubSeq(s, 1, x)
        BY <4>1, ConcatAdjacentSubSeq
      <4> QED  BY <4>1, <4>2 DEF c
    <3> QED  BY <3>2, <3>5, <3>6, <3>7, <3>8
  <2>3. F[m + 1] = s
    <3>1. m + 1 \in 1..(m + 1)  BY <1>4
    <3> QED  BY <3>1, SubSeqFull
  <2> HIDE DEF F
  <2>4. Joins(fields, sep, F)  BY <1>4, <2>1, <2>2 DEF Joins
  <2>5. Len(fields) \in Nat \ {0}  BY <1>4
  <2>6. Join(fields, sep) = F[Len(fields)]  BY <2>4, <2>5, JoinsGiveJoin
  <2> QED  BY <1>4, <2>3, <2>6
<1>9. n > 0 => Len(fields) <= n + 1  BY <1>1 DEF Cuts
<1>10. ASSUME NEW k \in 1..(m + 1), NEW p \in Occurrences(sep, fields[k])
       PROVE  /\ p \in Nat \ {0} /\ p <= e(k) - at[k] + 1 - l + 1
              /\ at[k] + p - 1 \in Occurrences(sep, s)
  <2> DEFINE b == at[k]
             x == e(k)
  <2>1. b \in Nat \ {0} /\ x \in Int /\ b - 1 <= x /\ x <= Len(s)  BY <1>6
  <2>2. p \in Occurrences(sep, SubSeq(s, b, x))  BY <1>k
  <2> HIDE DEF b, x
  <2>3. /\ p \in Nat \ {0} /\ p <= x - b + 1 - Len(sep) + 1
        /\ b + p - 1 \in Occurrences(sep, s)
    BY <2>1, <2>2, OccurrenceInPiece
  <2> QED  BY <2>3 DEF b, x
<1>11. ASSUME NEW k \in 1..(Len(fields) - 1) PROVE Occurrences(sep, fields[k]) = {}
  <2> SUFFICES ASSUME NEW p \in Occurrences(sep, fields[k]) PROVE FALSE
    OBVIOUS
  <2>1. k \in 1..m /\ k \in 1..(m + 1) /\ k + 1 \in 1..(m + 1) /\ k # m + 1
    <3>1. Len(fields) - 1 = m  BY <1>4
    <3> QED  BY <1>4, <3>1
  <2> DEFINE q == at[k] + p - 1
  <2>2. p \in Nat \ {0} /\ p <= at[k + 1] - l - 1 - at[k] + 1 - l + 1
        /\ q \in Occurrences(sep, s)
    BY <1>10, <2>1
  <2>3. at[k] \in Nat /\ at[k + 1] \in Nat  BY <1>5, <2>1
  <2>4. at[k] <= q  BY <2>2, <2>3
  <2>5. at[k + 1] - l <= q  BY <1>5, <2>1, <2>2, <2>4
  <2> DEFINE b == at[k]
             c == at[k + 1]
  <2>6. /\ p <= c - l - 1 - b + 1 - l + 1 /\ c - l <= b + p - 1
        /\ p \in Nat /\ b \in Nat /\ c \in Nat /\ l \in Nat \ {0}
    BY <1>4, <2>2, <2>3, <2>5
  <2> HIDE DEF b, c, l
  <2> QED  BY <2>6
<1>12. ASSUME n < 0
       PROVE  Occurrences(sep, Last(fields)) \subseteq {Len(Last(fields)) - l + 1}
  <2>1. Last(fields) = fields[m + 1] /\ m + 1 \in 1..(m + 1)  BY <1>4 DEF Last
  <2>2. Len(fields[m + 1]) = Len(s) - at[m + 1] + 1  BY <1>4, <1>7, PieceEffect
  <2>3. \A q \in Occurrences(sep, s) : at[m + 1] <= q => Len(s) < q + l
    BY <1>1, <1>4, <1>12 DEF Cuts
  <2>4. ASSUME NEW p \in Occurrences(sep, Last(fields))
        PROVE  p = Len(Last(fields)) - l + 1
    <3>0. p \in Occurrences(sep, fields[m + 1])  BY <2>1
    <3> DEFINE q == at[m + 1] + p - 1
    <3>1. p \in Nat \ {0} /\ p <= Len(s) - at[m + 1] + 1 - l + 1
          /\ q \in Occurrences(sep, s)
      BY <1>10, <2>1, <3>0
    <3>2. at[m + 1] <= q  BY <1>4, <3>1
    <3>3. Len(s) < q + l  BY <2>3, <3>1, <3>2
    <3>4. Len(Last(fields)) = Len(s) - at[m + 1] + 1  BY <2>1, <2>2
    <3> DEFINE c == Len(s)
               a == at[m + 1]
               o == Len(Last(fields))
    <3>5. /\ p <= c - a + 1 - l + 1 /\ c < a + p - 1 + l /\ o = c - a + 1
          /\ p \in Nat /\ c \in Nat /\ a \in Nat /\ l \in Nat
      BY <1>4, <3>1, <3>3, <3>4
    <3> HIDE DEF a, c, l, o
    <3>6. p = o - l + 1  BY <3>5
    <3> QED  BY <3>6 DEF l, o
  <2> QED  BY <2>4
<1>13. SplitRejoins(s, sep, n)  BY <1>8, <1>9, <1>11, <1>12 DEF SplitRejoins, fields
<1> QED  BY <1>13

-----------------------------------------------------------------------------
(* Where the separators of a request are.                                  *)

(* Characters that are told apart.                                         *)
LEMMA Characters ==
  /\ CR # LF
  /\ ":" \notin Blank /\ "H" \notin Blank /\ "o" \notin Blank /\ CR \in Blank /\ LF \in Blank
  /\ "H" # "o"
BY DEF CR, LF, Blank

(* Where the separators are: a single character, a line end, an empty line.*)
LEMMA SingleCharacter ==
  ASSUME NEW S, NEW s \in Seq(S), NEW c \in S
  PROVE  /\ <<c>> \in Seq(S) /\ Len(<<c>>) = 1
         /\ Occurrences(<<c>>, s) = Marks(c, s) /\ Marks(c, s) \subseteq 1..Len(s)
         /\ ~Overlaps(<<c>>, s)
<1>1. <<c>> \in Seq(S) /\ Len(<<c>>) = 1 /\ <<c>>[1] = c /\ Len(s) \in Nat
      /\ DOMAIN s = 1..Len(s)
  BY LenProperties
<1>2. ASSUME NEW i \in 1..Len(s) PROVE SubSeq(s, i, i) = <<c>> <=> s[i] = c
  <2> DEFINE x == SubSeq(s, i, i)
  <2>1. /\ x \in Seq(S) /\ Len(x) = i - i + 1
        /\ \A j \in 1..(i - i + 1) : x[j] = s[i + j - 1]
    <3>1. i \in Nat \ {0} /\ i \in Int /\ i - 1 <= i /\ i <= Len(s)  BY <1>1
    <3> QED  BY <3>1, PieceEffect
  <2>2. Len(x) = 1 /\ x[1] = s[i]
    <3>1. i - i + 1 = 1 /\ i + 1 - 1 = i  OBVIOUS
    <3> QED  BY <2>1, <3>1
  <2> HIDE DEF x
  <2>3. s[i] = c => x = <<c>>
    <3> SUFFICES ASSUME s[i] = c PROVE x = <<c>>
      OBVIOUS
    <3> DEFINE y == <<c>>
    <3>1. y \in Seq(S) /\ Len(y) = 1 /\ y[1] = c  BY <1>1
    <3> HIDE DEF y
    <3>2. \A j \in 1..1 : x[j] = y[j]  BY <2>2, <3>1
    <3>3. x = y  BY <2>1, <2>2, <3>1, <3>2, SeqEqual
    <3> QED  BY <3>3 DEF y
  <2> QED  BY <1>1, <2>2, <2>3 DEF x
<1>3. Occurrences(<<c>>, s) = Marks(c, s)
  <2>1. Occurrences(<<c>>, s) = {i \in 1..Len(s) : SubSeq(s, i, i) = <<c>>}
    <3>1. Len(s) - 1 + 1 = Len(s) /\ \A i \in 1..Len(s) : i + 1 - 1 = i  BY <1>1
    <3> QED  BY <1>1, <3>1 DEF Occurrences
  <2> QED  BY <1>1, <1>2, <2>1 DEF Marks
<1>4. Marks(c, s) \subseteq 1..Len(s)  BY <1>1 DEF Marks
<1>5. ~Overlaps(<<c>>, s)
  <2>1. Occurrences(<<c>>, s) \subseteq 1..Len(s)  BY <1>3, <1>4
  <2>2. \A i, j \in 1..Len(s) : ~(i < j /\ j < i + 1)  BY <1>1
  <2> QED  BY <1>1, <2>1, <2>2 DEF Overlaps
<1> QED  BY <1>1, <1>3, <1>4, <1>5

LEMMA LineEnds ==
  ASSUME NEW S, NEW s \in Seq(S), CR \in S, LF \in S
  PROVE  /\ CRLF \in Seq(S) /\ Len(CRLF) = 2
         /\ Occurrences(CRLF, s) = {i \in 1..(Len(s) - 1) : s[i] = CR /\ s[i + 1] = LF}
         /\ ~Overlaps(CRLF, s)
<1>1. CRLF \in Seq(S) /\ Len(CRLF) = 2 /\ CRLF[1] = CR /\ CRLF[2] = LF /\ Len(s) \in Nat
  <2>1. \A c, d \in S : /\ <<c, d>> \in Seq(S) /\ Len(<<c, d>>) = 2
                        /\ <<c, d>>[1] = c /\ <<c, d>>[2] = d
    OBVIOUS
  <2> QED  BY <2>1, LenProperties, Zenon DEF CRLF
<1>2. ASSUME NEW i \in 1..(Len(s) - 1)
      PROVE  SubSeq(s, i, i + 1) = CRLF <=> s[i] = CR /\ s[i + 1] = LF
  <2> DEFINE x == SubSeq(s, i, i + 1)
  <2>1. /\ x \in Seq(S) /\ Len(x) = i + 1 - i + 1
        /\ \A j \in 1..(i + 1 - i + 1) : x[j] = s[i + j - 1]
    <3>1. i \in Nat \ {0} /\ i + 1 \in Int /\ i - 1 <= i + 1 /\ i + 1 <= Len(s)  BY <1>1
    <3> QED  BY <3>1, PieceEffect
  <2>2. Len(x) = 2 /\ x[1] = s[i] /\ x[2] = s[i + 1]
    <3>1. i + 1 - i + 1 = 2 /\ i + 1 - 1 = i /\ i + 2 - 1 = i + 1  OBVIOUS
    <3> HIDE DEF x
    <3>2. Len(x) = 2 /\ \A j \in 1..2 : x[j] = s[i + j - 1]  BY <2>1, <3>1
    <3>3. 1 \in 1..2 /\ 2 \in 1..2  OBVIOUS
    <3> QED  BY <3>1, <3>2, <3>3
  <2> HIDE DEF x
  <2>3. s[i] = CR /\ s[i + 1] = LF => x = CRLF
    <3> SUFFICES ASSUME s[i] = CR, s[i + 1] = LF PROVE x = CRLF
      OBVIOUS
    <3>1. \A j \in 1..2 : x[j] = CRLF[j]
      <4>1. \A j \in 1..2 : j = 1 \/ j = 2  OBVIOUS
      <4> QED  BY <1>1, <2>2, <4>1
    <3> QED  BY <1>1, <2>1, <2>2, <3>1, SeqEqual
  <2> QED  BY <1>1, <2>2, <2>3 DEF x
<1>3. Occurrences(CRLF, s) = {i \in 1..(Len(s) - 1) : s[i] = CR /\ s[i + 1] = LF}
  <2>1. Occurrences(CRLF, s) = {i \in 1..(Len(s) - 1) : SubSeq(s, i, i + 1) = CRLF}
    <3>1. Len(s) - 2 + 1 = Len(s) - 1 /\ \A i \in 1..(Len(s) - 1) : i + 2 - 1 = i + 1
      BY <1>1
    <3> QED  BY <1>1, <3>1 DEF Occurrences
  <2> QED  BY <1>2, <2>1
<1>4. ~Overlaps(CRLF, s)
  <2> SUFFICES ASSUME NEW i \in Occurrences(CRLF, s), NEW j \in Occurrences(CRLF, s),
                      i < j, j < i + 2
               PROVE  FALSE
    BY <1>1 DEF Overlaps
  <2>1. i \in Int /\ j \in Int /\ s[i + 1] = LF /\ s[j] = CR  BY <1>3
  <2>2. j = i + 1  BY <2>1
  <2> QED  BY <2>1, <2>2, Characters
<1> QED  BY <1>1, <1>3, <1>4

LEMMA EmptyLineEnds ==
  ASSUME NEW S, NEW s \in Seq(S), CR \in S, LF \in S
  PROVE  /\ CRLF \o CRLF \in Seq(S) /\ Len(CRLF \o CRLF) = 4
         /\ EmptyLines(s) = {i \in Occurrences(CRLF, s) : i + 2 \in Occurrences(CRLF, s)}
<1> DEFINE E == CRLF \o CRLF
           O == Occurrences(CRLF, s)
           n == Len(s)
<1>1. CRLF \in Seq(S) /\ Len(CRLF) = 2 /\ n \in Nat  BY LineEnds, LenProperties
<1>c. CRLF[1] = CR /\ CRLF[2] = LF  BY Zenon DEF CRLF
<1>2. E \in Seq(S) /\ Len(E) = 4
  <2>1. E \in Seq(S) /\ Len(E) = Len(CRLF) + Len(CRLF)  BY <1>1, ConcatProperties
  <2> HIDE DEF E
  <2> QED  BY <1>1, <2>1
<1>3. E[1] = CR /\ E[2] = LF /\ E[3] = CR /\ E[4] = LF
  <2>1. \A i \in 1..(Len(CRLF) + Len(CRLF)) :
          E[i] = IF i <= Len(CRLF) THEN CRLF[i] ELSE CRLF[i - Len(CRLF)]
    BY <1>1, ConcatProperties
  <2> HIDE DEF E
  <2> QED  BY <1>1, <1>c, <2>1
<1>4. O = {i \in 1..(n - 1) : s[i] = CR /\ s[i + 1] = LF}  BY LineEnds
<1> HIDE DEF E, O
<1>5. ASSUME NEW i \in 1..(n - 3)
      PROVE  SubSeq(s, i, i + 3) = E <=> i \in O /\ i + 2 \in O
  <2> DEFINE x == SubSeq(s, i, i + 3)
  <2>1. /\ x \in Seq(S) /\ Len(x) = i + 3 - i + 1
        /\ \A j \in 1..(i + 3 - i + 1) : x[j] = s[i + j - 1]
    <3>1. i \in Nat \ {0} /\ i + 3 \in Int /\ i - 1 <= i + 3 /\ i + 3 <= Len(s)  BY <1>1
    <3> QED  BY <3>1, PieceEffect
  <2>2. Len(x) = 4 /\ x[1] = s[i] /\ x[2] = s[i + 1] /\ x[3] = s[i + 2] /\ x[4] = s[i + 3]
    <3>1. /\ i + 3 - i + 1 = 4 /\ i + 1 - 1 = i /\ i + 2 - 1 = i + 1
          /\ i + 3 - 1 = i + 2 /\ i + 4 - 1 = i + 3
      OBVIOUS
    <3> HIDE DEF x
    <3>2. Len(x) = 4 /\ \A j \in 1..4 : x[j] = s[i + j - 1]  BY <2>1, <3>1
    <3>3. 1 \in 1..4 /\ 2 \in 1..4 /\ 3 \in 1..4 /\ 4 \in 1..4  OBVIOUS
    <3> QED  BY <3>1, <3>2, <3>3
  <2> HIDE DEF x
  <2>3. i \in O /\ i + 2 \in O <=> s[i] = CR /\ s[i + 1] = LF /\ s[i + 2] = CR /\ s[i + 3] = LF
    <3>1. i \in 1..(n - 1) /\ i + 2 \in 1..(n - 1) /\ i + 2 + 1 = i + 3  BY <1>1
    <3> QED  BY <1>4, <3>1
  <2>4. s[i] = CR /\ s[i + 1] = LF /\ s[i + 2] = CR /\ s[i + 3] = LF => x = E
    <3> SUFFICES ASSUME s[i] = CR, s[i + 1] = LF, s[i + 2] = CR, s[i + 3] = LF PROVE x = E
      OBVIOUS
    <3>1. \A j \in 1..4 : x[j] = E[j]
      <4>1. \A j \in 1..4 : j = 1 \/ j = 2 \/ j = 3 \/ j = 4  OBVIOUS
      <4> QED  BY <1>3, <2>2, <4>1
    <3> QED  BY <1>2, <2>1, <2>2, <3>1, SeqEqual
  <2> QED  BY <1>3, <2>2, <2>3, <2>4 DEF x
<1>6. EmptyLines(s) = {i \in 1..(n - 3) : SubSeq(s, i, i + 3) = E}
  <2>1. n - 4 + 1 = n - 3 /\ \A i \in 1..(n - 3) : i + 4 - 1 = i + 3  BY <1>1
  <2> QED  BY <1>2, <2>1 DEF EmptyLines, Occurrences, E
<1>7. \A i \in O : i + 2 \in O => i \in 1..(n - 3)  BY <1>1, <1>4
<1>8. EmptyLines(s) = {i \in O : i + 2 \in O}  BY <1>5, <1>6, <1>7
<1> QED  BY <1>2, <1>8 DEF E, O

-----------------------------------------------------------------------------
(* A text split once, or at a character it holds twice.                    *)

(* What is before and behind the first of a character.                     *)
LEMMA BeforeAndBehind ==
  ASSUME NEW S, NEW s \in Seq(S), NEW c \in S, Marks(c, s) # {}
  PROVE  /\ Min(Marks(c, s)) \in 1..Len(s)
         /\ Before(c, s) = SubSeq(s, 1, Min(Marks(c, s)) - 1)
         /\ Behind(c, s) = SubSeq(s, Min(Marks(c, s)) + 1, Len(s))
         /\ Before(c, s) \in Seq(S) /\ Behind(c, s) \in Seq(S)
<1> DEFINE M == Marks(c, s)
           m == Min(M)
           n == Len(s)
<1>1. M \subseteq 1..n /\ n \in Nat  BY SingleCharacter, LenProperties
<1>2. m \in 1..n
  <2>1. n \in Int  BY <1>1
  <2> HIDE DEF M
  <2>2. m \in M  BY <1>1, <2>1, EndsOfSet DEF M
  <2> QED  BY <1>1, <2>2
<1>3. Before(c, s) = SubSeq(s, 1, m - 1) /\ Behind(c, s) = SubSeq(s, m + 1, n)
  BY DEF Before, Behind
<1> HIDE DEF m
<1>4. SubSeq(s, 1, m - 1) \in Seq(S) /\ SubSeq(s, m + 1, n) \in Seq(S)
  <2>1. /\ 1 \in Nat \ {0} /\ m - 1 \in Int /\ 1 - 1 <= m - 1 /\ m - 1 <= n
        /\ m + 1 \in Nat \ {0} /\ n \in Int /\ m + 1 - 1 <= n
    BY <1>1, <1>2
  <2> QED  BY <2>1, PieceEffect
<1> QED  BY <1>2, <1>3, <1>4 DEF m

(* A text split once at a character, not its last one.                     *)
LEMMA SplitAtFirst ==
  ASSUME NEW S, NEW s \in Seq(S), NEW c \in S,
         Marks(c, s) # {} => Min(Marks(c, s)) < Len(s)
  PROVE  LET fields == Split(s, <<c>>, 1) IN
         /\ Len(fields) = IF Marks(c, s) = {} THEN 1 ELSE 2
         /\ fields[1] = Before(c, s)
         /\ Marks(c, s) # {} => fields[2] = Behind(c, s)
<1> DEFINE M == Marks(c, s)
           fields == Split(s, <<c>>, 1)
           n == Len(s)
           z == Len(fields)
<1>1. /\ <<c>> \in Seq(S) /\ Len(<<c>>) = 1 /\ Occurrences(<<c>>, s) = M /\ M \subseteq 1..n
      /\ ~Overlaps(<<c>>, s) /\ n \in Nat
  BY SingleCharacter, LenProperties
<1>2. PICK at : Cuts(s, <<c>>, 1, fields, at)
  <2>1. Len(<<c>>) > 0 /\ 1 \in Int  BY <1>1
  <2> QED  BY <1>1, <2>1, SplitCuts
<1> HIDE DEF M, fields
<1>3. /\ z \in Nat \ {0} /\ at \in [1..z -> Nat \ {0}] /\ at[1] = 1
      /\ \A k \in 1..(z - 1) :
           /\ fields[k] = SubSeq(s, at[k], at[k + 1] - 1 - 1)
           /\ at[k + 1] - 1 \in M /\ at[k + 1] <= n
           /\ \A q \in M : at[k] <= q => at[k + 1] - 1 <= q
      /\ fields[z] = SubSeq(s, at[z], n)
      /\ z <= 2
      /\ z <= 1 => \A q \in M : at[z] <= q => n < q + 1
  <2>1. 1 + 1 = 2 /\ 1 >= 0  OBVIOUS
  <2> QED  BY <1>1, <1>2, <2>1 DEF Cuts, z
<1> HIDE DEF z
<1>4. CASE z = 1
  <2>1. M = {}
    <3> SUFFICES ASSUME M # {} PROVE FALSE
      OBVIOUS
    <3>1. Min(M) \in M /\ Min(M) \in 1..n
      <4>1. n \in Int  BY <1>1
      <4>2. Min(M) \in M  BY <1>1, <4>1, EndsOfSet
      <4> QED  BY <1>1, <4>2
    <3>2. n < Min(M) + 1  BY <1>3, <1>4, <3>1
    <3>3. Min(M) < n  BY DEF M
    <3> QED  BY <1>1, <3>1, <3>2, <3>3
  <2>2. fields[1] = s
    <3>1. fields[1] = SubSeq(s, 1, n)  BY <1>3, <1>4
    <3> QED  BY <3>1, SubSeqFull
  <2>3. Before(c, s) = s  BY <2>1 DEF Before, M
  <2> QED  BY <1>4, <2>1, <2>2, <2>3 DEF M, fields, z
<1>5. CASE z = 2
  <2>1. /\ fields[1] = SubSeq(s, 1, at[2] - 1 - 1) /\ at[2] - 1 \in M
        /\ \A q \in M : 1 <= q => at[2] - 1 <= q
        /\ fields[2] = SubSeq(s, at[2], n) /\ at[2] \in Nat
    <3>1. 1 \in 1..(z - 1) /\ 1 + 1 = 2 /\ 2 \in 1..z  BY <1>5
    <3> QED  BY <1>3, <1>5, <3>1
  <2>2. Min(M) = at[2] - 1
    <3>1. \A q \in M : at[2] - 1 <= q  BY <1>1, <2>1
    <3>2. M \subseteq Int  BY <1>1
    <3> QED  BY <2>1, <3>1, <3>2, MinIs
  <2>3. M # {} /\ at[2] = at[2] - 1 + 1  BY <2>1
  <2>4. Before(c, s) = SubSeq(s, 1, at[2] - 1 - 1) /\ Behind(c, s) = SubSeq(s, at[2], n)
    BY <2>2, <2>3 DEF Before, Behind, M
  <2> QED  BY <1>5, <2>1, <2>3, <2>4 DEF M, fields, z
<1>6. z = 1 \/ z = 2  BY <1>3
<1> QED  BY <1>4, <1>5, <1>6

(* A line split at a character that it holds twice, and not as its last.   *)
LEMMA SplitAtTwo ==
  ASSUME NEW S, NEW s \in Seq(S), NEW c \in S, Cardinality(Marks(c, s)) = 2, Last(s) # c
  PROVE  LET fields == Split(s, <<c>>, -1) IN
         /\ Len(fields) = 3
         /\ fields[1] = Before(c, s)
         /\ fields[2] = Before(c, Behind(c, s))
<1> DEFINE M == Marks(c, s)
           fields == Split(s, <<c>>, -1)
           n == Len(s)
           z == Len(fields)
<1>1. /\ <<c>> \in Seq(S) /\ Len(<<c>>) = 1 /\ Occurrences(<<c>>, s) = M /\ M \subseteq 1..n
      /\ ~Overlaps(<<c>>, s) /\ n \in Nat
  BY SingleCharacter, LenProperties
<1>2. PICK at : Cuts(s, <<c>>, -1, fields, at)
  <2>1. Len(<<c>>) > 0 /\ -1 \in Int  BY <1>1
  <2> QED  BY <1>1, <2>1, SplitCuts
<1>a. PICK a, b \in M : a < b /\ M = {a, b}
  <2>1. IsFiniteSet(M)
    <3> HIDE DEF M
    <3>1. IsFiniteSet(1..n)  BY <1>1, FS_Interval
    <3> QED  BY <1>1, <3>1, FS_Subset
  <2> HIDE DEF M
  <2>2. Cardinality(M) = 2 BY DEF M
  <2>3. M # {}  BY <2>1, <2>2, FS_EmptySet
  <2>4. PICK x \in M : TRUE  BY <2>3
  <2>5. Cardinality(M \ {x}) = 1 /\ IsFiniteSet(M \ {x})
    <3>1. /\ IsFiniteSet(M \ {x})
          /\ Cardinality(M \ {x}) = IF x \in M THEN Cardinality(M) - 1 ELSE Cardinality(M)
      BY <2>1, FS_RemoveElement
    <3> QED  BY <2>2, <2>4, <3>1
  <2>6. PICK y : M \ {x} = {y}  BY <2>5, FS_Singleton
  <2>7. M = {x, y} /\ x # y /\ x \in Int /\ y \in Int /\ y \in M
    <3>1. M = {x, y} /\ x # y /\ y \in M  BY <2>4, <2>6
    <3>2. x \in 1..n /\ y \in 1..n  BY <1>1, <2>4, <3>1
    <3> QED  BY <3>1, <3>2
  <2>8. CASE x < y  BY <2>7, <2>8
  <2>9. CASE y < x  BY <2>7, <2>9
  <2> QED  BY <2>7, <2>8, <2>9
<1> HIDE DEF M, fields
<1>b. a \in 1..n /\ b \in 1..n /\ a < b /\ b < n
  <2>1. a \in 1..n /\ b \in 1..n  BY <1>1
  <2>2. s[b] = c  BY DEF M, Marks
  <2>3. Last(s) = s[n]  BY DEF Last
  <2>4. b # n  BY <2>2, <2>3
  <2> QED  BY <1>a, <2>1, <2>4
<1>3. /\ z \in Nat \ {0} /\ at \in [1..z -> Nat \ {0}] /\ at[1] = 1
      /\ \A j, k \in 1..z : j < k => at[j] + 1 <= at[k]
      /\ \A k \in 1..(z - 1) :
           /\ fields[k] = SubSeq(s, at[k], at[k + 1] - 1 - 1)
           /\ at[k + 1] - 1 \in M
           /\ \A q \in M : at[k] <= q => at[k + 1] - 1 <= q
      /\ \A q \in M : at[z] <= q => n < q + 1
  <2>1. -1 < 0  OBVIOUS
  <2> QED  BY <1>1, <1>2, <2>1 DEF Cuts, z
<1> HIDE DEF z
<1>4. /\ z # 1 /\ at[2] = a + 1
      /\ fields[1] = SubSeq(s, 1, a - 1)
  <2>1. z # 1
    <3> SUFFICES ASSUME z = 1 PROVE FALSE
      OBVIOUS
    <3>1. n < a + 1  BY <1>3, <1>b
    <3> QED  BY <1>1, <1>b, <3>1
  <2>2. 1 \in 1..(z - 1) /\ 1 + 1 = 2 /\ 2 \in 1..z  BY <1>3, <2>1
  <2>3. at[2] \in Nat /\ at[2] - 1 \in M /\ (1 <= a => at[2] - 1 <= a)
        /\ fields[1] = SubSeq(s, 1, at[2] - 1 - 1)
    BY <1>3, <2>2
  <2>4. at[2] - 1 = a /\ at[2] = a + 1  BY <1>a, <1>b, <2>3
  <2> QED  BY <2>1, <2>3, <2>4
<1>5. /\ z # 2 /\ at[3] = b + 1
      /\ fields[2] = SubSeq(s, a + 1, b - 1)
  <2>1. z # 2
    <3> SUFFICES ASSUME z = 2 PROVE FALSE
      OBVIOUS
    <3>1. a + 1 <= b => n < b + 1  BY <1>3, <1>4
    <3> QED  BY <1>1, <1>b, <3>1
  <2>2. /\ 2 \in 1..(z - 1) /\ 2 + 1 = 3 /\ 3 \in 1..z
        /\ 2 \in 1..z /\ 2 < 3
    BY <1>3, <1>4, <2>1
  <2>3. at[3] \in Nat /\ at[3] - 1 \in M /\ a + 1 + 1 <= at[3]
        /\ fields[2] = SubSeq(s, a + 1, at[3] - 1 - 1)
    BY <1>3, <1>4, <2>2
  <2> DEFINE q == at[3]
  <2>4. q \in Nat /\ (q - 1 = a \/ q - 1 = b) /\ a + 1 + 1 <= q  BY <1>a, <2>3
  <2> HIDE DEF q
  <2>5. q - 1 = b /\ q = b + 1  BY <1>b, <2>4
  <2> QED  BY <2>1, <2>3, <2>5 DEF q
<1>6. z = 3
  <2> SUFFICES ASSUME z # 3 PROVE FALSE
    OBVIOUS
  <2>2. /\ 3 \in 1..(z - 1) /\ 3 + 1 = 4 /\ 3 \in 1..z
        /\ 4 \in 1..z /\ 3 < 4
    BY <1>3, <1>4, <1>5
  <2>3. at[4] \in Nat /\ at[4] - 1 \in M /\ b + 1 + 1 <= at[4]
    BY <1>3, <1>5, <2>2
  <2> QED  BY <1>a, <1>b, <2>3
<1>7. Before(c, s) = SubSeq(s, 1, a - 1) /\ Behind(c, s) = SubSeq(s, a + 1, n)
  <2>1. M \subseteq Int /\ \A i \in M : a <= i  BY <1>1, <1>a, <1>b
  <2>2. Min(M) = a  BY <2>1, MinIs
  <2> QED  BY <2>2 DEF Before, Behind, M
<1>8. Before(c, Behind(c, s)) = SubSeq(s, a + 1, b - 1)
  <2> DEFINE d == a + 1
             t == SubSeq(s, d, n)
             m == b - a
  <2>1. /\ d \in Nat \ {0} /\ n \in Int /\ d - 1 <= n /\ n <= Len(s)
        /\ m \in Int /\ m \in 1..(n - d + 1) /\ b = d + m - 1
        /\ m - 1 \in Int /\ 1 - 1 <= m - 1 /\ m - 1 <= n - d + 1 /\ d + 1 - 1 = d
        /\ d + (m - 1) - 1 = b - 1 /\ a < d
    BY <1>1, <1>b
  <2>a. a \in Int /\ b \in Int /\ n \in Nat  BY <1>1, <1>b
  <2> HIDE DEF d, m
  <2>2. Marks(c, t) = {i \in 1..(n - d + 1) : d + i - 1 \in M}
    BY <2>1, PlacesInPiece DEF M
  <2>3. \A i \in 1..(n - d + 1) : d + i - 1 \in M <=> i = m
    <3> TAKE i \in 1..(n - d + 1)
    <3>1. d + i - 1 # a  BY <2>1, <2>a
    <3>2. d + i - 1 = b <=> i = m  BY <2>1, <2>a
    <3> QED  BY <1>a, <3>1, <3>2
  <2> HIDE DEF t
  <2>5. Marks(c, t) = {m}  BY <2>1, <2>2, <2>3
  <2>6. Min(Marks(c, t)) = m
    <3> DEFINE T == {m}
    <3>1. T \subseteq Int /\ m \in T /\ \A i \in T : m <= i  BY <2>1
    <3> HIDE DEF T
    <3>2. Min(T) = m  BY <3>1, MinIs
    <3> QED  BY <2>5, <3>2 DEF T
  <2>7. Before(c, t) = SubSeq(t, 1, m - 1)  BY <2>5, <2>6 DEF Before
  <2>8. SubSeq(t, 1, m - 1) = SubSeq(s, d + 1 - 1, d + (m - 1) - 1)
    <3>1. 1 \in Nat \ {0}  OBVIOUS
    <3> QED  BY <2>1, <3>1, PieceOfPiece DEF t
  <2> QED  BY <1>7, <2>1, <2>7, <2>8 DEF t, d
<1> QED  BY <1>4, <1>5, <1>6, <1>7, <1>8 DEF fields, z

-----------------------------------------------------------------------------
(* A request: its head and body, and the lines of its head.                *)

LEMMA OneEmptyLine ==
  ASSUME NEW S, NEW s \in Seq(S), CR \in S, LF \in S, Cardinality(EmptyLines(s)) = 1
  PROVE  LET e == Min(EmptyLines(s))
             O == Occurrences(CRLF, s)
         IN /\ EmptyLines(s) = {e} /\ e \in Nat \ {0} /\ e + 3 <= Len(s)
            /\ e \in O /\ e + 2 \in O /\ e - 2 \notin O /\ e - 1 \notin O /\ e + 1 \notin O
            /\ ~Overlaps(CRLF \o CRLF, s)
            /\ Lines(s) = {b \in O : b <= e} /\ e \in Lines(s) /\ Lines(s) \subseteq 1..e
<1> DEFINE E == EmptyLines(s)
           e == Min(E)
           O == Occurrences(CRLF, s)
           n == Len(s)
<1>1. /\ CRLF \in Seq(S) /\ Len(CRLF) = 2 /\ n \in Nat
      /\ O = {i \in 1..(n - 1) : s[i] = CR /\ s[i + 1] = LF} /\ ~Overlaps(CRLF, s)
  BY LineEnds, LenProperties
<1>2. E = {i \in O : i + 2 \in O} /\ Len(CRLF \o CRLF) = 4  BY EmptyLineEnds
<1> HIDE DEF O, E
<1>3. PICK x : E = {x}
  <2>1. IsFiniteSet(E)
    <3>1. 1 \in Int /\ n - 1 \in Int /\ E \subseteq 1..(n - 1)  BY <1>1, <1>2
    <3>2. IsFiniteSet(1..(n - 1))
      <4> DEFINE m == n - 1
      <4> HIDE DEF m
      <4>1. IsFiniteSet(1..m)  BY <3>1, FS_Interval DEF m
      <4> QED  BY <4>1 DEF m
    <3> QED  BY <3>1, <3>2, FS_Subset
  <2>2. Cardinality(E) = 1  BY DEF E
  <2> QED  BY <2>1, <2>2, FS_Singleton
<1>4. e = x /\ e \in E /\ E = {e}
  <2>1. x \in Int  BY <1>1, <1>2, <1>3
  <2>2. Min(E) \in E
    <3>1. E \subseteq Int /\ x \in E /\ \A i \in E : x <= i  BY <1>3, <2>1
    <3>2. Min(E) = x  BY <3>1, MinIs
    <3> QED  BY <3>1, <3>2
  <2> QED  BY <1>3, <2>2
<1> HIDE DEF e
<1>5. e \in O /\ e + 2 \in O  BY <1>2, <1>4
<1>6. e \in Nat \ {0} /\ e + 3 <= n  BY <1>1, <1>5
<1>7. e - 2 \notin O
  <2> SUFFICES ASSUME e - 2 \in O PROVE FALSE
    OBVIOUS
  <2>1. e - 2 + 2 = e /\ e - 2 # e  BY <1>6
  <2>2. e - 2 \in E  BY <1>2, <1>5, <2>1
  <2> QED  BY <1>4, <2>1, <2>2
<1>8. e - 1 \notin O /\ e + 1 \notin O
  <2>1. \A i, j \in O : ~(i < j /\ j < i + 2)  BY <1>1 DEF Overlaps, O
  <2>2. e - 1 < e /\ e < e - 1 + 2 /\ e < e + 1 /\ e + 1 < e + 2  BY <1>6
  <2> QED  BY <1>5, <2>1, <2>2
<1>9. ~Overlaps(CRLF \o CRLF, s)
  <2>1. Occurrences(CRLF \o CRLF, s) = {e}  BY <1>4 DEF E, EmptyLines
  <2>2. ~(e < e)  BY <1>6
  <2> QED  BY <2>1, <2>2 DEF Overlaps
<1>10. Lines(s) = {b \in O : b <= e}  BY DEF Lines, O, e, E
<1>11. e \in Lines(s) /\ Lines(s) \subseteq 1..e  BY <1>1, <1>5, <1>6, <1>10
<1> QED  BY <1>4, <1>5, <1>6, <1>7, <1>8, <1>9, <1>10, <1>11 DEF O, e, E

(* A request has two parts, or one when its body is empty.                 *)
LEMMA PartsOfRequest ==
  ASSUME NEW S, NEW s \in Seq(S), CR \in S, LF \in S, Cardinality(EmptyLines(s)) = 1
  PROVE  LET e == Min(EmptyLines(s))
             parts == Split(s, CRLF \o CRLF, -1)
         IN /\ e + 3 = Len(s) => Len(parts) = 1 /\ parts[1] = s /\ Body(s) = <<>>
            /\ e + 3 # Len(s) =>
                 /\ Len(parts) = 2 /\ parts[1] = SubSeq(s, 1, e - 1) /\ parts[2] = Body(s)
                 /\ Body(s) # <<>>
<1> DEFINE e == Min(EmptyLines(s))
           E == CRLF \o CRLF
           parts == Split(s, E, -1)
           n == Len(s)
           z == Len(parts)
<1>1. /\ EmptyLines(s) = {e} /\ e \in Nat \ {0} /\ e + 3 <= n /\ ~Overlaps(E, s)
      /\ E \in Seq(S) /\ Len(E) = 4 /\ n \in Nat
  BY OneEmptyLine, EmptyLineEnds, LenProperties
<1>2. PICK at : Cuts(s, E, -1, parts, at)
  <2>1. Len(E) > 0 /\ -1 \in Int  BY <1>1
  <2> QED  BY <1>1, <2>1, SplitCuts
<1>b. Body(s) = SubSeq(s, e + 4, n)  BY DEF Body
<1> HIDE DEF parts, e
<1>3. /\ z \in Nat \ {0} /\ at \in [1..z -> Nat \ {0}] /\ at[1] = 1
      /\ \A j, k \in 1..z : j < k => at[j] + 4 <= at[k]
      /\ \A k \in 1..(z - 1) :
           /\ parts[k] = SubSeq(s, at[k], at[k + 1] - 4 - 1)
           /\ at[k + 1] - 4 = e /\ at[k + 1] <= n
      /\ parts[z] = SubSeq(s, at[z], n)
      /\ at[z] <= e => n < e + 4
  <2>1. -1 < 0 /\ Occurrences(E, s) = {e}  BY <1>1 DEF EmptyLines
  <2> HIDE DEF E
  <2> QED  BY <1>1, <1>2, <2>1 DEF Cuts
<1> HIDE DEF z, E, n
<1>4. CASE e + 3 = n
  <2>1. z = 1
    <3> SUFFICES ASSUME z # 1 PROVE FALSE
      OBVIOUS
    <3>1. 1 \in 1..(z - 1) /\ 1 + 1 = 2 /\ 2 \in 1..z  BY <1>3
    <3>2. at[2] \in Nat /\ at[2] - 4 = e /\ at[2] <= n  BY <1>3, <3>1
    <3> QED  BY <1>1, <1>4, <3>2
  <2>2. parts[1] = s
    <3>1. parts[1] = SubSeq(s, 1, n)  BY <1>3, <2>1
    <3> QED  BY <3>1, SubSeqFull DEF n
  <2>3. Body(s) = <<>>
    <3>1. n < e + 4  BY <1>1, <1>4
    <3>2. n \in Int /\ e + 4 \in Int  BY <1>1
    <3> QED  BY <1>b, <3>1, <3>2, SubSeqEmpty
  <2> QED  BY <1>4, <2>1, <2>2, <2>3 DEF n, z, parts, E, e
<1>5. CASE e + 3 # n
  <2>1. z # 1
    <3> SUFFICES ASSUME z = 1 PROVE FALSE
      OBVIOUS
    <3>1. n < e + 4  BY <1>1, <1>3
    <3> QED  BY <1>1, <1>5, <3>1
  <2>2. 1 \in 1..(z - 1) /\ 1 + 1 = 2 /\ 2 \in 1..z  BY <1>3, <2>1
  <2>3. at[2] = e + 4 /\ parts[1] = SubSeq(s, 1, e - 1)
    <3>1. at[2] \in Nat /\ at[2] - 4 = e /\ parts[1] = SubSeq(s, 1, at[2] - 4 - 1)
      BY <1>3, <2>2
    <3>2. at[2] = e + 4  BY <1>1, <3>1
    <3> QED  BY <3>1, <3>2
  <2>4. z = 2
    <3> SUFFICES ASSUME z # 2 PROVE FALSE
      OBVIOUS
    <3>1. /\ 2 \in 1..(z - 1) /\ 2 + 1 = 3 /\ 3 \in 1..z /\ 2 < 3
      BY <1>3, <2>1
    <3>2. at[3] \in Nat /\ at[3] - 4 = e /\ at[2] + 4 <= at[3]  BY <1>3, <2>2, <3>1
    <3> QED  BY <1>1, <2>3, <3>2
  <2>5. parts[2] = Body(s)  BY <1>3, <1>b, <2>3, <2>4
  <2>6. Body(s) # <<>>
    <3>1. e + 4 \in Nat \ {0} /\ n \in Int /\ e + 4 - 1 <= n /\ n <= Len(s)  BY <1>1 DEF n
    <3>2. Len(Body(s)) = n - (e + 4) + 1
      <4> DEFINE d == e + 4
      <4>1. d \in Nat \ {0} /\ n \in Int /\ d - 1 <= n /\ n <= Len(s)  BY <1>1, <3>1
      <4> HIDE DEF d
      <4>2. Len(SubSeq(s, d, n)) = n - d + 1  BY <4>1, PieceEffect
      <4>3. n - d + 1 = n - (e + 4) + 1  BY <1>1 DEF d
      <4> QED  BY <1>b, <4>2, <4>3 DEF d
    <3>3. n - (e + 4) + 1 # 0  BY <1>1, <1>5
    <3> QED  BY <3>2, <3>3
  <2> QED  BY <1>5, <2>3, <2>4, <2>5, <2>6 DEF n, z, parts, E, e
<1> QED  BY <1>4, <1>5

(* How the head of a request is cut at the line ends: every line but the   *)
(* last up to its line end.  The last one is the line before the empty one *)
(* when there is a body, and else the line end of the empty one.           *)
HeadCuts(s, lines, z, e, at) ==
  /\ z \in Nat \ {0} /\ at \in [1..z -> Nat \ {0}] /\ at[1] = 1
  /\ \A j, k \in 1..z : j < k => at[j] + 2 <= at[k]
  /\ \A k \in 1..(z - 1) :
       /\ lines[k] = SubSeq(s, at[k], at[k + 1] - 2 - 1)
       /\ at[k + 1] - 2 \in Lines(s)
       /\ \A b \in Lines(s) : at[k] <= b => at[k + 1] - 2 <= b
  /\ lines[z] = SubSeq(s, at[z], IF e + 3 = Len(s) THEN Len(s) ELSE e - 1)
  /\ \A b \in Lines(s) : at[z] <= b => b = e /\ e + 3 # Len(s)
  /\ e + 3 # Len(s) => at[z] <= e

LEMMA HeadWithoutBody ==
  ASSUME NEW S, NEW s \in Seq(S), CR \in S, LF \in S, Cardinality(EmptyLines(s)) = 1,
         Min(EmptyLines(s)) + 3 = Len(s)
  PROVE  LET lines == Split(s, CRLF, -1)
         IN \E at : HeadCuts(s, lines, Len(lines), Min(EmptyLines(s)), at)
<1> DEFINE e == Min(EmptyLines(s))
           lines == Split(s, CRLF, -1)
           z == Len(lines)
           n == Len(s)
           O == Occurrences(CRLF, s)
<1>1. CRLF \in Seq(S) /\ Len(CRLF) = 2 /\ ~Overlaps(CRLF, s) /\ n \in Nat
  BY LineEnds, LenProperties
<1>2. /\ e \in Nat \ {0} /\ e + 1 \notin O /\ Lines(s) = {b \in O : b <= e}
      /\ Lines(s) \subseteq 1..e
  BY OneEmptyLine
<1>3. PICK at : Cuts(s, CRLF, -1, lines, at)
  <2>1. Len(CRLF) > 0 /\ -1 \in Int  BY <1>1
  <2> QED  BY <1>1, <2>1, SplitCuts
<1> HIDE DEF lines, e
<1>4. /\ z \in Nat \ {0} /\ at \in [1..z -> Nat \ {0}] /\ at[1] = 1
      /\ \A j, k \in 1..z : j < k => at[j] + 2 <= at[k]
      /\ \A k \in 1..(z - 1) :
           /\ lines[k] = SubSeq(s, at[k], at[k + 1] - 2 - 1)
           /\ at[k + 1] - 2 \in O /\ at[k + 1] <= n
           /\ \A q \in O : at[k] <= q => at[k + 1] - 2 <= q
      /\ lines[z] = SubSeq(s, at[z], n)
      /\ \A q \in O : at[z] <= q => n < q + 2
  <2>1. -1 < 0  OBVIOUS
  <2> QED  BY <1>1, <1>3, <2>1 DEF Cuts
<1> HIDE DEF z, n, O
<1>5. e + 3 = n  BY DEF n, e
<1>6. ASSUME NEW k \in 1..(z - 1) PROVE at[k + 1] - 2 \in Lines(s)
  <2> DEFINE b == at[k + 1]
  <2>1. b \in Nat /\ b - 2 \in O /\ b <= n
    <3>1. k + 1 \in 1..z  BY <1>4
    <3> QED  BY <1>4, <3>1
  <2>2. b - 2 # e + 1  BY <1>2, <2>1
  <2> HIDE DEF b
  <2>3. b - 2 <= e  BY <1>2, <1>5, <2>1, <2>2
  <2>4. b - 2 \in Lines(s)  BY <1>2, <2>1, <2>3
  <2> QED  BY <2>4 DEF b
<1>7. ASSUME NEW b \in Lines(s), at[z] <= b PROVE FALSE
  <2>1. n < b + 2 /\ b \in 1..e  BY <1>2, <1>4, <1>7
  <2> QED  BY <1>2, <1>5, <2>1
<1>8. Lines(s) \subseteq O  BY <1>2
<1>9. HeadCuts(s, lines, z, e, at)
  BY <1>4, <1>5, <1>6, <1>7, <1>8 DEF HeadCuts, n
<1> QED  BY <1>9 DEF lines, z, e

LEMMA HeadBeforeBody ==
  ASSUME NEW S, NEW s \in Seq(S), CR \in S, LF \in S, Cardinality(EmptyLines(s)) = 1,
         Min(EmptyLines(s)) + 3 # Len(s)
  PROVE  LET lines == Split(SubSeq(s, 1, Min(EmptyLines(s)) - 1), CRLF, -1)
         IN \E at : HeadCuts(s, lines, Len(lines), Min(EmptyLines(s)), at)
<1> DEFINE e == Min(EmptyLines(s))
           h == SubSeq(s, 1, e - 1)
           lines == Split(h, CRLF, -1)
           z == Len(lines)
           n == Len(s)
           O == Occurrences(CRLF, s)
           Oh == Occurrences(CRLF, h)
<1>1. /\ CRLF \in Seq(S) /\ Len(CRLF) = 2 /\ n \in Nat
      /\ O = {i \in 1..(n - 1) : s[i] = CR /\ s[i + 1] = LF}
  BY LineEnds, LenProperties
<1>2. /\ e \in Nat \ {0} /\ e + 3 <= n /\ e - 2 \notin O /\ e - 1 \notin O
      /\ e \in Lines(s) /\ Lines(s) = {b \in O : b <= e} /\ Lines(s) \subseteq 1..e
  BY OneEmptyLine
<1> HIDE DEF e
<1>3. h \in Seq(S) /\ Len(h) = e - 1 /\ \A j \in 1..(e - 1) : h[j] = s[j]
  <2>1. /\ 1 \in Nat \ {0} /\ e - 1 \in Int /\ 1 - 1 <= e - 1 /\ e - 1 <= Len(s)
        /\ e - 1 - 1 + 1 = e - 1
    BY <1>1, <1>2
  <2>2. /\ h \in Seq(S) /\ Len(h) = e - 1 - 1 + 1
        /\ \A j \in 1..(e - 1 - 1 + 1) : h[j] = s[1 + j - 1]
    BY <2>1, PieceEffect
  <2>3. \A j \in 1..(e - 1) : 1 + j - 1 = j  BY <1>2
  <2> HIDE DEF h
  <2> QED  BY <2>1, <2>2, <2>3
<1> HIDE DEF h
<1>4. Oh = {i \in 1..(e - 2) : s[i] = CR /\ s[i + 1] = LF} /\ ~Overlaps(CRLF, h)
  <2>1. /\ Oh = {i \in 1..(Len(h) - 1) : h[i] = CR /\ h[i + 1] = LF}
        /\ ~Overlaps(CRLF, h)
    BY <1>3, LineEnds
  <2>2. /\ Len(h) - 1 = e - 2
        /\ \A i \in 1..(e - 2) : i \in 1..(e - 1) /\ i + 1 \in 1..(e - 1)
    BY <1>2, <1>3
  <2> HIDE DEF Oh
  <2> QED  BY <1>3, <2>1, <2>2
<1>5. PICK at : Cuts(h, CRLF, -1, lines, at)
  <2>1. Len(CRLF) > 0 /\ -1 \in Int  BY <1>1
  <2> QED  BY <1>1, <1>3, <1>4, <2>1, SplitCuts
<1> HIDE DEF lines, O
<1>6. /\ z \in Nat \ {0} /\ at \in [1..z -> Nat \ {0}] /\ at[1] = 1
      /\ \A j, k \in 1..z : j < k => at[j] + 2 <= at[k]
      /\ \A k \in 1..(z - 1) :
           /\ lines[k] = SubSeq(h, at[k], at[k + 1] - 2 - 1)
           /\ at[k + 1] - 2 \in Oh /\ at[k + 1] <= e - 1
           /\ \A q \in Oh : at[k] <= q => at[k + 1] - 2 <= q
      /\ lines[z] = SubSeq(h, at[z], e - 1)
      /\ \A q \in Oh : at[z] <= q => e - 1 < q + 2
  <2>1. -1 < 0  OBVIOUS
  <2> QED  BY <1>1, <1>3, <1>5, <2>1 DEF Cuts
<1> HIDE DEF z, Oh
<1>7. Oh = {b \in Lines(s) : b # e}
  <2>1. \A b \in O : b <= e /\ b # e => b \in 1..(e - 2)  BY <1>1, <1>2
  <2>2. \A b \in 1..(e - 2) : b \in 1..(n - 1) /\ b <= e /\ b # e  BY <1>1, <1>2
  <2>3. \A b \in Oh : b \in 1..(e - 2) /\ b \in O  BY <1>1, <1>4, <2>2
  <2>4. \A b \in O : b \in 1..(e - 2) => b \in Oh  BY <1>1, <1>4
  <2> QED  BY <1>2, <2>1, <2>2, <2>3, <2>4
<1>8. \A b \in Oh : b <= e - 3
  <2> TAKE b \in Oh
  <2>1. b \in 1..(e - 2) /\ b \in O  BY <1>2, <1>4, <1>7
  <2>2. b # e - 2  BY <1>2, <2>1
  <2> QED  BY <1>2, <2>1, <2>2
<1>9. at[z] \in Nat \ {0} /\ at[z] <= e
  <2>1. at[z] \in Nat \ {0}  BY <1>6
  <2>2. CASE z = 1  BY <1>2, <1>6, <2>2
  <2>3. CASE z # 1
    <3>1. z - 1 \in 1..(z - 1) /\ z - 1 + 1 = z  BY <1>6, <2>3
    <3>2. at[z] <= e - 1
      <4>1. at[z - 1 + 1] <= e - 1  BY <1>6, <3>1
      <4> QED  BY <3>1, <4>1
    <3> QED  BY <1>2, <2>1, <3>2
  <2> QED  BY <2>1, <2>2, <2>3
<1>10. ASSUME NEW a \in Nat \ {0}, NEW f \in Int, a - 1 <= f, f <= e - 1
       PROVE  SubSeq(h, a, f) = SubSeq(s, a, f)
  <2>1. /\ 1 \in Nat \ {0} /\ e - 1 \in Int /\ 1 - 1 <= e - 1 /\ e - 1 <= Len(s)
        /\ f <= e - 1 - 1 + 1 /\ 1 + a - 1 = a /\ 1 + f - 1 = f
    BY <1>1, <1>2, <1>10
  <2>2. SubSeq(SubSeq(s, 1, e - 1), a, f) = SubSeq(s, 1 + a - 1, 1 + f - 1)
    BY <1>10, <2>1, PieceOfPiece
  <2> QED  BY <2>1, <2>2 DEF h
<1>11. ASSUME NEW k \in 1..(z - 1) PROVE lines[k] = SubSeq(s, at[k], at[k + 1] - 2 - 1)
  <2> DEFINE a == at[k]
             b == at[k + 1]
             f == b - 2 - 1
  <2>1. /\ a \in Nat \ {0} /\ b \in Nat \ {0} /\ a + 2 <= b /\ b <= e - 1
        /\ lines[k] = SubSeq(h, a, f)
    <3>1. k \in 1..z /\ k + 1 \in 1..z /\ k < k + 1  BY <1>6
    <3> QED  BY <1>6, <3>1
  <2>2. f \in Int /\ a - 1 <= f /\ f <= e - 1
    <3> HIDE DEF a, b
    <3> QED  BY <1>2, <2>1
  <2> HIDE DEF a, f
  <2>3. lines[k] = SubSeq(s, a, f)  BY <1>10, <2>1, <2>2
  <2> QED  BY <2>3 DEF a, f
<1>12. lines[z] = SubSeq(s, at[z], e - 1)
  <2> DEFINE a == at[z]
  <2>1. a \in Nat \ {0} /\ e - 1 \in Int /\ a - 1 <= e - 1 /\ e - 1 <= e - 1  BY <1>2, <1>9
  <2>2. lines[z] = SubSeq(h, a, e - 1)  BY <1>6
  <2> HIDE DEF a
  <2>3. lines[z] = SubSeq(s, a, e - 1)  BY <1>10, <2>1, <2>2
  <2> QED  BY <2>3 DEF a
<1>13. ASSUME NEW k \in 1..(z - 1)
       PROVE  /\ at[k + 1] - 2 \in Lines(s)
              /\ \A b \in Lines(s) : at[k] <= b => at[k + 1] - 2 <= b
  <2>1. at[k + 1] - 2 \in Oh /\ \A q \in Oh : at[k] <= q => at[k + 1] - 2 <= q
    BY <1>6
  <2>2. at[k + 1] - 2 <= e
    <3> DEFINE b == at[k + 1] - 2
    <3>1. b \in Oh  BY <2>1
    <3> HIDE DEF b
    <3>2. b <= e - 3 /\ b \in Int  BY <1>4, <1>8, <3>1
    <3>3. b <= e  BY <1>2, <3>2
    <3> QED  BY <3>3 DEF b
  <2> QED  BY <1>7, <2>1, <2>2
<1>14. ASSUME NEW b \in Lines(s), at[z] <= b PROVE b = e
  <2> SUFFICES ASSUME b # e PROVE FALSE
    OBVIOUS
  <2>1. b \in Oh /\ b \in 1..e  BY <1>2, <1>7
  <2>2. e - 1 < b + 2 /\ b <= e - 3  BY <1>6, <1>8, <1>14, <2>1
  <2> QED  BY <1>2, <2>1, <2>2
<1>15. e + 3 # n  BY DEF e
<1>16. HeadCuts(s, lines, z, e, at)
  <2>1. lines[z] = SubSeq(s, at[z], IF e + 3 = Len(s) THEN Len(s) ELSE e - 1)
    BY <1>12, <1>15
  <2> QED  BY <1>6, <1>9, <1>11, <1>13, <1>14, <1>15, <2>1 DEF HeadCuts
<1> QED  BY <1>16 DEF lines, z, e, h

(* The lines of the head are those the line ends name, in their order.     *)
(* Without a body there is one more, which is blank.                       *)
HeadLines(s, lines, g, d) ==
  /\ g \in Nat \ {0} /\ d \in [1..g -> Lines(s)]
  /\ Len(lines) = IF Min(EmptyLines(s)) + 3 = Len(s) THEN g + 1 ELSE g
  /\ \A j, k \in 1..g : j < k => d[j] < d[k]
  /\ \A b \in Lines(s) : \E k \in 1..g : d[k] = b
  /\ \A k \in 1..g : lines[k] = LineAt(s, d[k])
  /\ \A k \in 1..Len(lines) : k > g => Solid(lines[k]) = {}

LEMMA CutsGiveLines ==
  ASSUME NEW S, NEW s \in Seq(S), CR \in S, LF \in S, Cardinality(EmptyLines(s)) = 1,
         NEW lines, NEW at,
         HeadCuts(s, lines, Len(lines), Min(EmptyLines(s)), at)
  PROVE  \E g, d : HeadLines(s, lines, g, d)
<1> DEFINE e == Min(EmptyLines(s))
           z == Len(lines)
           n == Len(s)
           O == Occurrences(CRLF, s)
           L == Lines(s)
           g == IF e + 3 = n THEN z - 1 ELSE z
           d == [k \in 1..g |-> IF k = z THEN e ELSE at[k + 1] - 2]
<1>1. /\ n \in Nat /\ O = {i \in 1..(n - 1) : s[i] = CR /\ s[i + 1] = LF}
      /\ \A i, j \in O : ~(i < j /\ j < i + 2)
  <2>1. Len(CRLF) = 2 /\ ~Overlaps(CRLF, s)  BY LineEnds
  <2> QED  BY <2>1, LineEnds, LenProperties DEF Overlaps
<1>2. /\ e \in Nat \ {0} /\ e + 3 <= n /\ e + 2 \in O
      /\ e \in L /\ L = {b \in O : b <= e} /\ L \subseteq 1..e
  BY OneEmptyLine
<1>3. /\ z \in Nat \ {0} /\ at \in [1..z -> Nat \ {0}] /\ at[1] = 1
      /\ \A j, k \in 1..z : j < k => at[j] + 2 <= at[k]
      /\ \A k \in 1..(z - 1) :
           /\ lines[k] = SubSeq(s, at[k], at[k + 1] - 2 - 1)
           /\ at[k + 1] - 2 \in L
           /\ \A b \in L : at[k] <= b => at[k + 1] - 2 <= b
      /\ lines[z] = SubSeq(s, at[z], IF e + 3 = n THEN n ELSE e - 1)
      /\ \A b \in L : at[z] <= b => b = e /\ e + 3 # n
      /\ e + 3 # n => at[z] <= e
  BY DEF HeadCuts
<1> HIDE DEF e, z, n, O, L
<1>4. g \in Nat \ {0} /\ g <= z /\ z - 1 <= g
  <2>1. e + 3 = n => z # 1
    <3> SUFFICES ASSUME e + 3 = n, z = 1 PROVE FALSE
      OBVIOUS
    <3>1. at[z] <= e  BY <1>2, <1>3
    <3> QED  BY <1>2, <1>3, <3>1
  <2> QED  BY <1>3, <2>1
<1>5. ASSUME NEW k \in 1..g
      PROVE  /\ k \in 1..z /\ at[k] \in Nat \ {0}
             /\ d[k] \in L /\ at[k] <= d[k]
             /\ k + 1 \in 1..z => d[k] = at[k + 1] - 2
             /\ k = z => d[k] = e
  <2>1. k \in 1..z  BY <1>3, <1>4
  <2>2. at[k] \in Nat \ {0}  BY <1>3, <2>1
  <2>3. CASE k = z
    <3>1. d[k] = e /\ ~(k + 1 \in 1..z) /\ e + 3 # n  BY <1>3, <2>3
    <3> QED  BY <1>2, <1>3, <2>1, <2>2, <2>3, <3>1
  <2>4. CASE k # z
    <3>1. d[k] = at[k + 1] - 2 /\ k \in 1..(z - 1) /\ k + 1 \in 1..z /\ k < k + 1
      BY <1>3, <2>1, <2>4
    <3>2. at[k + 1] - 2 \in L /\ at[k] + 2 <= at[k + 1] /\ at[k + 1] \in Nat
      BY <1>3, <2>1, <3>1
    <3>3. at[k] <= at[k + 1] - 2  BY <2>2, <3>2
    <3> QED  BY <2>1, <2>2, <2>4, <3>1, <3>2, <3>3
  <2> QED  BY <2>3, <2>4
<1>6. d \in [1..g -> L]  BY <1>5
<1>g. e + 3 = n <=> g = z - 1  BY <1>3
<1> HIDE DEF d
<1>7. ASSUME NEW j \in 1..g, NEW k \in 1..g, j < k PROVE d[j] < d[k] /\ d[j] + 2 <= at[k]
  <2>1. j \in 1..z /\ k \in 1..z /\ j + 1 \in 1..z /\ j + 1 <= k
    <3>1. j \in 1..z /\ k \in 1..z  BY <1>5
    <3> QED  BY <1>3, <1>7, <3>1
  <2>2. d[j] = at[j + 1] - 2 /\ at[j + 1] \in Nat /\ at[k] \in Nat  BY <1>3, <1>5, <2>1
  <2>3. at[j + 1] <= at[k]
    <3>1. j + 1 = k \/ at[j + 1] + 2 <= at[k]  BY <1>3, <2>1
    <3> QED  BY <2>2, <3>1
  <2>4. at[k] <= d[k] /\ d[k] \in Int
    <3>1. d[k] \in 1..e  BY <1>2, <1>5
    <3> QED  BY <1>5, <3>1
  <2> DEFINE dj == d[j]  dk == d[k]  aj == at[j + 1]  ak == at[k]
  <2>5. /\ dj = aj - 2 /\ aj \in Nat /\ ak \in Nat /\ aj <= ak /\ ak <= dk /\ dk \in Int
    BY <2>2, <2>3, <2>4
  <2> HIDE DEF dj, dk, aj, ak
  <2>6. dj < dk /\ dj + 2 <= ak  BY <2>5
  <2> QED  BY <2>6 DEF dj, dk, ak
<1>8. ASSUME NEW b \in L PROVE \E k \in 1..g : d[k] = b
  <2>b. b \in Int /\ b \in O /\ 1 <= b  BY <1>1, <1>2
  <2> DEFINE T == {k \in 1..z : at[k] <= b}
  <2>1. Max(T) \in T /\ \A k \in T : k <= Max(T)
    <3>1. T \subseteq 1..z /\ z \in Int /\ 1 \in T  BY <1>3, <2>b
    <3> HIDE DEF T
    <3> QED  BY <3>1, EndsOfSet
  <2>2. PICK k \in T : k = Max(T)  BY <2>1
  <2>3. k \in 1..z /\ at[k] <= b  OBVIOUS
  <2>4. CASE k = z
    <3>1. b = e /\ e + 3 # n  BY <1>3, <2>3, <2>4
    <3>2. z \in 1..g  BY <1>3, <3>1
    <3>3. d[z] = e  BY <1>5, <3>2
    <3> QED  BY <3>1, <3>2, <3>3
  <2>5. CASE k # z
    <3>1. k \in 1..(z - 1) /\ k + 1 \in 1..z /\ k \in 1..g
      <4>1. k \in 1..(z - 1) /\ k + 1 \in 1..z  BY <1>3, <2>3, <2>5
      <4> QED  BY <1>3, <1>4, <4>1
    <3>2. at[k + 1] - 2 <= b /\ at[k + 1] - 2 \in L  BY <1>3, <2>3, <3>1
    <3>3. ~(at[k + 1] <= b)
      <4>1. k + 1 \notin T  BY <2>1, <2>2, <2>3
      <4> QED  BY <3>1, <4>1
    <3> DEFINE q == at[k + 1]
    <3>4. q - 2 \in O /\ q - 2 <= b /\ ~(q <= b) /\ q \in Nat  BY <1>2, <1>3, <3>1, <3>2, <3>3
    <3> HIDE DEF q
    <3>5. q - 2 = b
      <4>1. ~(q - 2 < b /\ b < q - 2 + 2)  BY <1>1, <2>b, <3>4
      <4> QED  BY <2>b, <3>4, <4>1
    <3>6. d[k] = b  BY <1>5, <3>1, <3>5 DEF q
    <3> QED  BY <3>1, <3>6
  <2> QED  BY <2>4, <2>5
<1>9. ASSUME NEW k \in 1..g PROVE at[k] = LineStart(s, d[k])
  <2> DEFINE T == {1} \cup {a + 2 : a \in {a \in L : a < d[k]}}
  <2>0. LineStart(s, d[k]) = Max(T)  BY DEF LineStart, L
  <2>1. T \subseteq Int
    <3>1. \A a \in L : a + 2 \in Int  BY <1>2
    <3> QED  BY <3>1
  <2>2. at[k] \in T
    <3>1. CASE k = 1  BY <1>3, <3>1
    <3>2. CASE k # 1
      <4>1. k - 1 \in 1..g /\ k - 1 + 1 = k /\ k - 1 < k  BY <1>4, <3>2
      <4>2. k \in 1..z /\ at[k] \in Nat  BY <1>5
      <4>3. d[k - 1] = at[k] - 2 /\ d[k - 1] < d[k] /\ d[k - 1] \in L
        <5>1. k - 1 + 1 \in 1..z => d[k - 1] = at[k - 1 + 1] - 2  BY <1>5, <4>1
        <5> QED  BY <1>5, <1>7, <4>1, <4>2, <5>1
      <4>4. at[k] = d[k - 1] + 2  BY <4>2, <4>3
      <4> QED  BY <4>3, <4>4
    <3> QED  BY <3>1, <3>2
  <2>3. ASSUME NEW t \in T PROVE t <= at[k]
    <3>0. at[k] \in Nat \ {0}  BY <1>5
    <3>1. CASE t = 1  BY <3>0, <3>1
    <3>2. CASE t # 1
      <4>1. PICK a \in L : a < d[k] /\ t = a + 2  BY <3>2
      <4>2. PICK j \in 1..g : d[j] = a  BY <1>8
      <4>3. j < k
        <5>1. ~(k < j)
          <6>1. k < j => d[k] < d[j]  BY <1>7
          <6>2. d[k] \in 1..e /\ a \in 1..e  BY <1>2, <1>5
          <6> QED  BY <4>1, <4>2, <6>1, <6>2
        <5>2. j # k
          <6>1. d[k] \in 1..e  BY <1>2, <1>5
          <6> QED  BY <4>1, <4>2, <6>1
        <5>3. j \in Int /\ k \in Int  BY <1>4
        <5> QED  BY <5>1, <5>2, <5>3
      <4> QED  BY <1>7, <4>1, <4>2, <4>3
    <3> QED  BY <3>1, <3>2
  <2> HIDE DEF T
  <2>4. Max(T) = at[k]  BY <2>1, <2>2, <2>3, MaxIs
  <2> QED  BY <2>0, <2>4
<1>10. ASSUME NEW k \in 1..g PROVE lines[k] = LineAt(s, d[k])
  <2>1. LineAt(s, d[k]) = SubSeq(s, at[k], d[k] - 1)  BY <1>9 DEF LineAt
  <2>2. CASE k = z
    <3>1. d[k] = e /\ e + 3 # n  BY <1>3, <1>5, <2>2
    <3> QED  BY <1>3, <2>1, <2>2, <3>1
  <2>3. CASE k # z
    <3>1. k \in 1..(z - 1) /\ k + 1 \in 1..z  BY <1>3, <1>5, <2>3
    <3>2. lines[k] = SubSeq(s, at[k], at[k + 1] - 2 - 1) /\ d[k] = at[k + 1] - 2
      BY <1>3, <1>5, <3>1
    <3> QED  BY <2>1, <3>2
  <2> QED  BY <2>2, <2>3
<1>11. ASSUME NEW k \in 1..z, k > g PROVE Solid(lines[k]) = {}
  <2>1. k = z /\ e + 3 = n /\ g = z - 1  BY <1>3, <1>11
  <2>2. g \in 1..g /\ g + 1 = z /\ g + 1 \in 1..z  BY <1>3, <1>4, <2>1
  <2>3. d[g] = e
    <3>1. PICK j \in 1..g : d[j] = e  BY <1>2, <1>8
    <3>2. j = g \/ d[j] < d[g]  BY <1>4, <1>7, <2>2
    <3>3. d[g] \in 1..e  BY <1>2, <1>5, <2>2
    <3> QED  BY <1>2, <3>1, <3>2, <3>3
  <2>4. at[z] = e + 2
    <3>1. d[g] = at[g + 1] - 2  BY <1>5, <2>2
    <3>2. at[z] \in Nat  BY <1>3
    <3>3. d[g] = at[z] - 2  BY <2>2, <3>1
    <3> DEFINE q == at[z]
    <3>4. q \in Nat /\ e = q - 2 /\ e \in Nat  BY <1>2, <2>3, <3>2, <3>3
    <3> HIDE DEF q
    <3>5. q = e + 2  BY <3>4
    <3> QED  BY <3>5 DEF q
  <2> DEFINE a == e + 2
             x == SubSeq(s, a, n)
  <2>5. lines[k] = x  BY <1>3, <2>1, <2>4
  <2>6. /\ a \in Nat \ {0} /\ n \in Int /\ a - 1 <= n /\ n <= Len(s) /\ n - a + 1 = 2
        /\ n = a + 1
    BY <1>1, <1>2, <2>1 DEF n
  <2>7. s[a] = CR /\ s[a + 1] = LF  BY <1>1, <1>2
  <2>c. DOMAIN s = 1..n  BY LenProperties DEF n
  <2> HIDE DEF a
  <2>8. Solid(x) = {i \in 1..(n - a + 1) : a + i - 1 \in Solid(s)}
    <3>1. a \in Nat \ {0} /\ n \in Int /\ a - 1 <= n /\ n <= Len(s)  BY <2>6
    <3> HIDE DEF n
    <3> QED  BY <3>1, PlacesInPiece
  <2>9. \A i \in 1..(n - a + 1) : a + i - 1 = a \/ a + i - 1 = a + 1  BY <2>6
  <2>10. a \notin Solid(s) /\ a + 1 \notin Solid(s)  BY <2>7, Characters DEF Solid
  <2>11. Solid(x) = {}  BY <2>8, <2>9, <2>10
  <2> QED  BY <2>5, <2>11
<1>12. z = IF e + 3 = n THEN g + 1 ELSE g  BY <1>3
<1>13. HeadLines(s, lines, g, d)
  <2> HIDE DEF g
  <2> QED  BY <1>4, <1>6, <1>7, <1>8, <1>10, <1>11, <1>12 DEF HeadLines, e, n, z, L
<1> QED  BY <1>13

-----------------------------------------------------------------------------
(* A field of a request: its name and its value.                           *)

LEMMA SolidIsFinite ==
  ASSUME NEW S, NEW s \in Seq(S)
  PROVE  /\ Len(s) \in Nat /\ Solid(s) \subseteq 1..Len(s) /\ IsFiniteSet(Solid(s))
         /\ Cardinality(Solid(s)) \in Nat
<1>1. Len(s) \in Nat /\ Solid(s) \subseteq 1..Len(s)  BY LenProperties DEF Solid
<1> DEFINE n == Len(s)
           T == Solid(s)
<1> HIDE DEF n, T
<1>2. n \in Nat /\ T \subseteq 1..n  BY <1>1 DEF n, T
<1>3. IsFiniteSet(1..n)  BY <1>2, FS_Interval
<1>4. IsFiniteSet(T) /\ Cardinality(T) \in Nat  BY <1>2, <1>3, FS_Subset, FS_CardinalityType
<1> QED  BY <1>2, <1>4 DEF n, T

LEMMA TwoSolids ==
  ASSUME NEW S, NEW s \in Seq(S), NEW i \in Solid(s), NEW j \in Solid(s), i # j
  PROVE  Cardinality(Solid(s)) > 1
<1> DEFINE T == Solid(s)
<1>1. IsFiniteSet(T) /\ Cardinality(T) \in Nat  BY SolidIsFinite
<1>2. i \in T /\ j \in T  OBVIOUS
<1> HIDE DEF T
<1>3. Cardinality(T) # 0  BY <1>1, <1>2, FS_EmptySet
<1>4. Cardinality(T) # 1
  <2> SUFFICES ASSUME Cardinality(T) = 1 PROVE FALSE
    OBVIOUS
  <2>1. \E x : T = {x}  BY <1>1, FS_Singleton
  <2> QED  BY <1>2, <2>1
<1>5. Cardinality(T) > 1  BY <1>1, <1>3, <1>4
<1> QED  BY <1>5 DEF T

LEMMA StripOfWords ==
  ASSUME NEW S, NEW s \in Seq(S), Cardinality(Solid(s)) > 1
  PROVE  Strip(s) = Trim(s) /\ Strip(s) # <<>>
<1>1. Len(s) \in Nat /\ Cardinality(Solid(s)) \in Nat /\ Solid(s) \subseteq 1..Len(s)
  BY SolidIsFinite
<1>2. Strip(s) = Trim(s)
  <2>1. Cardinality(Solid(s)) # 1  BY <1>1
  <2> QED  BY <2>1, StripTrimsAnyText DEF StripTrimsWords
<1>3. Solid(s) # {}
  <2> SUFFICES ASSUME Solid(s) = {} PROVE FALSE
    OBVIOUS
  <2>1. Cardinality(Solid(s)) = 0  BY FS_EmptySet
  <2> QED  BY <2>1
<1> DEFINE lo == Min(Solid(s))
           hi == Max(Solid(s))
<1>4. lo \in Solid(s) /\ hi \in Solid(s) /\ lo <= hi  BY <1>3, SolidEnds
<1>5. Trim(s) = SubSeq(s, lo, hi)  BY <1>3 DEF Trim
<1> HIDE DEF lo, hi
<1>6. lo \in Nat \ {0} /\ hi \in Int /\ lo - 1 <= hi /\ hi <= Len(s) /\ hi - lo + 1 # 0
  BY <1>1, <1>4
<1>7. Len(Trim(s)) # 0  BY <1>5, <1>6, PieceEffect
<1>8. Trim(s) # <<>>  BY <1>7
<1> QED  BY <1>2, <1>8

LEMMA StripOfBlanks == ASSUME NEW s, Solid(s) = {} PROVE Strip(s) = <<>>
<1>1. Cardinality({}) = 0  BY FS_EmptySet
<1>2. Strip(s) = SubSeq(s, 1, 0)  BY <1>1 DEF Strip, Substr
<1> QED  BY <1>2, SubSeqEmpty

(* What is left of a piece without the blanks of its ends.                 *)
SolidIn(s, a, e) == {i \in Solid(s) : a <= i /\ i <= e}

LEMMA TrimOfPiece ==
  ASSUME NEW S, NEW s \in Seq(S), NEW a \in Nat \ {0}, NEW e \in Int,
         a - 1 <= e, e <= Len(s)
  PROVE  LET Q == SolidIn(s, a, e) IN
         Trim(SubSeq(s, a, e)) = IF Q = {} THEN <<>> ELSE SubSeq(s, Min(Q), Max(Q))
<1> DEFINE Q == SolidIn(s, a, e)
           x == SubSeq(s, a, e)
           T == Solid(x)
           lo == Min(Q)
           hi == Max(Q)
           p == lo - a + 1
           q == hi - a + 1
<1>1. T = {i \in 1..(e - a + 1) : a + i - 1 \in Solid(s)}  BY PlacesInPiece
<1>2. Q \subseteq a..e /\ Q \subseteq 1..e
  <2>1. Solid(s) \subseteq 1..Len(s)  BY SolidIsFinite
  <2> QED  BY <2>1 DEF SolidIn
<1>3. \A i \in Q : i - a + 1 \in T
  <2> TAKE i \in Q
  <2>1. i \in a..e  BY <1>2
  <2>2. i - a + 1 \in 1..(e - a + 1) /\ a + (i - a + 1) - 1 = i  BY <2>1
  <2>3. i \in Solid(s)  BY DEF SolidIn
  <2> QED  BY <1>1, <2>2, <2>3
<1>4. \A i \in T : i \in 1..(e - a + 1) /\ a + i - 1 \in Q
  <2> TAKE i \in T
  <2>1. i \in 1..(e - a + 1) /\ a + i - 1 \in Solid(s)  BY <1>1
  <2> QED  BY <2>1 DEF SolidIn
<1> HIDE DEF Q, T, x
<1>5. CASE Q = {}
  <2>1. T = {}  BY <1>4, <1>5
  <2> QED  BY <1>5, <2>1 DEF Trim, T, x, Q
<1>6. CASE Q # {}
  <2>1. lo \in Q /\ hi \in Q /\ \A i \in Q : lo <= i /\ i <= hi  BY <1>2, <1>6, EndsOfSet
  <2> HIDE DEF lo, hi
  <2>2. lo \in a..e /\ hi \in a..e /\ lo <= hi  BY <1>2, <2>1
  <2>3. T # {} /\ T \subseteq Int  BY <1>3, <1>4, <2>1
  <2>4. Min(T) = p
    <3>1. p \in T  BY <1>3, <2>1
    <3>2. \A i \in T : p <= i
      <4> TAKE i \in T
      <4>1. i \in Int /\ lo <= a + i - 1  BY <1>4, <2>1
      <4> QED  BY <2>2, <4>1
    <3> HIDE DEF p
    <3> QED  BY <2>3, <3>1, <3>2, MinIs
  <2>5. Max(T) = q
    <3>1. q \in T  BY <1>3, <2>1
    <3>2. \A i \in T : i <= q
      <4> TAKE i \in T
      <4>1. i \in Int /\ a + i - 1 <= hi  BY <1>4, <2>1
      <4> QED  BY <2>2, <4>1
    <3> HIDE DEF q
    <3> QED  BY <2>3, <3>1, <3>2, MaxIs
  <2>6. Trim(x) = SubSeq(x, p, q)  BY <2>3, <2>4, <2>5 DEF Trim, T
  <2>7. /\ p \in Nat \ {0} /\ q \in Int /\ p - 1 <= q /\ q <= e - a + 1
        /\ a + p - 1 = lo /\ a + q - 1 = hi
    BY <2>2
  <2> HIDE DEF p, q
  <2>8. SubSeq(x, p, q) = SubSeq(s, a + p - 1, a + q - 1)  BY <2>7, PieceOfPiece DEF x
  <2>9. Trim(x) = SubSeq(s, lo, hi)  BY <2>6, <2>7, <2>8
  <2> QED  BY <1>6, <2>9 DEF x, Q, lo, hi
<1> QED  BY <1>5, <1>6

(* A name is taken for Host when it is: strip() errs only about those of a *)
(* single character.                                                       *)
LEMMA StripIsHost ==
  ASSUME NEW S, NEW s \in Seq(S)
  PROVE  Strip(s) = Host <=> Trim(s) = Host
<1>1. Len(Host) = 2 /\ Host[1] = "H" /\ Host[2] = "o"  BY DEF Host
<1>2. Len(s) \in Nat /\ DOMAIN s = 1..Len(s) /\ Solid(s) \subseteq 1..Len(s)
      /\ IsFiniteSet(Solid(s))
  BY SolidIsFinite, LenProperties
<1>3. CASE Cardinality(Solid(s)) # 1
  BY <1>3, StripTrimsAnyText DEF StripTrimsWords
<1>4. CASE Cardinality(Solid(s)) = 1
  <2>1. PICK p : Solid(s) = {p}  BY <1>2, <1>4, FS_Singleton
  <2>2. p \in 1..Len(s) /\ p \in Nat \ {0}  BY <1>2, <2>1
  <2>3. Min(Solid(s)) = p /\ Max(Solid(s)) = p
    <3>1. Solid(s) \subseteq Int /\ p \in Solid(s)
          /\ \A i \in Solid(s) : p <= i /\ i <= p
      BY <2>1, <2>2
    <3> QED  BY <3>1, MinIs, MaxIs
  <2>4. Trim(s) # Host
    <3>1. Trim(s) = SubSeq(s, p, p)  BY <2>1, <2>3 DEF Trim
    <3>2. p - 1 <= p /\ p <= Len(s) /\ p - p + 1 = 1 /\ p \in Int  BY <2>2
    <3>3. Len(Trim(s)) = 1  BY <2>2, <3>1, <3>2, PieceEffect
    <3> QED  BY <1>1, <3>3
  <2>5. Strip(s) # Host
    <3>1. Strip(s) = IF Solid(s) = {1} THEN <<>> ELSE SubSeq(s, p, Len(s))
      BY <1>4, <2>3, StripTrimsAnyText DEF StripTrimsWords
    <3>2. CASE Solid(s) = {1}
      <4>1. Len(Strip(s)) = 0  BY <3>1, <3>2, EmptySeq
      <4> QED  BY <1>1, <4>1
    <3>3. CASE Solid(s) # {1}
      <4> SUFFICES ASSUME Strip(s) = Host PROVE FALSE
        OBVIOUS
      <4> DEFINE n == Len(s)
                 x == SubSeq(s, p, n)
      <4>1. x = Host  BY <3>1, <3>3
      <4>2. Len(x) = n - p + 1 /\ \A j \in 1..(n - p + 1) : x[j] = s[p + j - 1]
        <5>1. p - 1 <= n /\ n <= Len(s) /\ n \in Int  BY <1>2, <2>2
        <5> QED  BY <2>2, <5>1, PieceEffect
      <4> HIDE DEF x, n
      <4>a. Len(x) = 2  BY <1>1, <4>1
      <4>b. n - p + 1 = 2  BY <4>2, <4>a
      <4>3. n - p + 1 = 2 /\ 2 \in 1..2  BY <4>b
      <4>4. s[p + 2 - 1] = "o"  BY <1>1, <4>1, <4>2, <4>3
      <4>5. p + 2 - 1 = p + 1 /\ p + 1 \in 1..n /\ p + 1 # p  BY <1>2, <2>2, <4>3 DEF n
      <4>6. s[p + 1] = "o"  BY <4>4, <4>5
      <4>7. p + 1 \in Solid(s)  BY <1>2, <4>5, <4>6, Characters DEF Solid, n
      <4> QED  BY <2>1, <4>5, <4>7
    <3> QED  BY <3>2, <3>3
  <2> QED  BY <2>4, <2>5
<1> QED  BY <1>3, <1>4

(* What the parser makes of a field: its name, and all behind the colon.   *)
LEMMA PairOfField ==
  ASSUME NEW S, NEW s \in Seq(S), ":" \in S, IsField(s)
  PROVE  /\ Strip(s) # <<>>
         /\ Len(Pair(s)) = 2
         /\ Strip(Pair(s)[1]) = Host <=> Trim(Before(":", s)) = Host
         /\ Strip(Pair(s)[2]) = Trim(Behind(":", s))
<1> DEFINE n == Len(s)
           T == Solid(s)
           M == Marks(":", s)
           c == Min(M)
           lo == Min(T)
           hi == Max(T)
           v == SubSeq(s, c + 1, n)
<1>1. n \in Nat /\ T \subseteq 1..n /\ DOMAIN s = 1..n  BY SolidIsFinite, LenProperties
<1>2. M \subseteq T /\ M # {}  BY Characters DEF Marks, Solid, IsField
<1>3. c \in M /\ c \in 1..n /\ \A i \in M : c <= i
  <2>1. M \subseteq 1..n /\ n \in Int  BY <1>1, <1>2
  <2> HIDE DEF M
  <2> QED  BY <1>2, <2>1, EndsOfSet
<1>4. /\ Before(":", s) = SubSeq(s, 1, c - 1) /\ Behind(":", s) = v
  BY <1>2 DEF Before, Behind
<1>5. Cardinality(Solid(v)) > 1  BY <1>4 DEF IsField
<1> HIDE DEF c
<1>6. /\ c + 1 \in Nat \ {0} /\ n \in Int /\ c + 1 - 1 <= n /\ n <= Len(s)
      /\ \A i \in 1..(n - (c + 1) + 1) : c + 1 + i - 1 = c + i
      /\ n - (c + 1) + 1 = n - c
  BY <1>1, <1>3
<1>7. v \in Seq(S) /\ Solid(v) = {i \in 1..(n - c) : c + i \in T}
  <2> DEFINE d == c + 1
  <2>1. d \in Nat \ {0} /\ d - 1 <= n /\ \A i \in 1..(n - d + 1) : d + i - 1 = c + i
    BY <1>1, <1>3
  <2>2. n - d + 1 = n - c  BY <1>1, <1>3
  <2> HIDE DEF d
  <2>3. /\ SubSeq(s, d, n) \in Seq(S)
        /\ Solid(SubSeq(s, d, n)) = {i \in 1..(n - d + 1) : d + i - 1 \in T}
    <3>1. d \in Nat \ {0} /\ n \in Int /\ d - 1 <= n /\ n <= Len(s)  BY <1>6, <2>1
    <3> HIDE DEF n
    <3>2. SubSeq(s, d, n) \in Seq(S)  BY <3>1, PieceEffect
    <3>3. Solid(SubSeq(s, d, n)) = {i \in 1..(n - d + 1) : d + i - 1 \in Solid(s)}
      BY <3>1, PlacesInPiece
    <3> QED  BY <3>2, <3>3
  <2>4. Solid(SubSeq(s, d, n)) = {i \in 1..(n - c) : c + i \in T}  BY <2>1, <2>2, <2>3
  <2> QED  BY <2>3, <2>4 DEF d
<1>8. PICK i \in Solid(v) : TRUE
  <2>1. Cardinality({}) = 0  BY FS_EmptySet
  <2>2. Solid(v) # {}
    <3> SUFFICES ASSUME Solid(v) = {} PROVE FALSE
      OBVIOUS
    <3>1. Cardinality(Solid(v)) = 0  BY <2>1
    <3> HIDE DEF v
    <3> QED  BY <1>5, <3>1
  <2> QED  BY <2>2
<1> HIDE DEF v
<1>9. /\ lo \in T /\ hi \in T /\ lo <= c /\ c + 1 <= hi /\ lo \in 1..n /\ hi \in 1..n
      /\ \A j \in T : lo <= j /\ j <= hi
  <2>1. lo \in T /\ hi \in T /\ \A j \in T : lo <= j /\ j <= hi
    <3>1. Solid(s) # {}  BY <1>2
    <3> QED  BY <3>1, SolidEnds
  <2>2. c \in T  BY <1>2, <1>3
  <2>3. c + i \in T /\ i \in 1..(n - c)  BY <1>7, <1>8
  <2> HIDE DEF lo, hi, T
  <2>4. hi \in 1..n /\ lo \in 1..n /\ c + i <= hi /\ lo <= c  BY <1>1, <2>1, <2>2, <2>3
  <2> QED  BY <1>3, <2>1, <2>3, <2>4
<1>10. Strip(s) # <<>> /\ Strip(s) = SubSeq(s, lo, hi)
  <2>1. Cardinality(Solid(s)) > 1
    <3>1. lo # hi  BY <1>3, <1>9
    <3> QED  BY <1>9, <3>1, TwoSolids
  <2>2. Strip(s) = Trim(s) /\ Strip(s) # <<>>  BY <2>1, StripOfWords
  <2>3. Trim(s) = SubSeq(s, lo, hi)  BY <1>2 DEF Trim
  <2> QED  BY <2>2, <2>3
<1> HIDE DEF lo, hi, T
<1> DEFINE t == SubSeq(s, lo, hi)
           m == c - lo + 1
           k == hi - lo + 1
<1>11. /\ lo \in Nat \ {0} /\ hi \in Int /\ lo - 1 <= hi /\ hi <= Len(s) /\ k \in Nat
       /\ m \in 1..k /\ m < k /\ lo + m - 1 = c /\ lo + 1 - 1 = lo
       /\ lo + (m - 1) - 1 = c - 1 /\ lo + (m + 1) - 1 = c + 1 /\ lo + k - 1 = hi
  BY <1>1, <1>3, <1>9
<1> HIDE DEF k
<1>12. t \in Seq(S) /\ Len(t) = k /\ Marks(":", t) = {j \in 1..k : lo + j - 1 \in M}
  BY <1>11, PieceEffect, PlacesInPiece DEF k
<1> HIDE DEF t
<1>13. Marks(":", t) # {} /\ Min(Marks(":", t)) = m
  <2> DEFINE X == Marks(":", t)
  <2>1. m \in X /\ X \subseteq Int  BY <1>3, <1>11, <1>12
  <2>2. \A j \in X : m <= j
    <3> TAKE j \in X
    <3>1. j \in 1..k /\ lo + j - 1 \in M  BY <1>12
    <3>2. j \in Int /\ c <= lo + j - 1
      <4> HIDE DEF M
      <4>1. c <= lo + j - 1  BY <1>3, <3>1
      <4> QED  BY <1>11, <3>1, <4>1
    <3> QED  BY <1>3, <1>9, <3>2
  <2> HIDE DEF X, m
  <2>3. X # {} /\ Min(X) = m  BY <2>1, <2>2, MinIs
  <2> QED  BY <2>3 DEF X
<1> HIDE DEF m
<1>14. /\ Len(Pair(s)) = 2 /\ Pair(s)[1] = SubSeq(s, lo, c - 1)
       /\ Pair(s)[2] = SubSeq(s, c + 1, hi)
  <2>1. Pair(s) = Split(t, <<":">>, 1)  BY <1>10 DEF Pair, t
  <2>2. /\ Len(Pair(s)) = 2 /\ Pair(s)[1] = Before(":", t) /\ Pair(s)[2] = Behind(":", t)
    <3>1. Min(Marks(":", t)) < Len(t)  BY <1>11, <1>12, <1>13
    <3>2. t \in Seq(S) /\ Marks(":", t) # {}  BY <1>12, <1>13
    <3>3. LET fields == Split(t, <<":">>, 1) IN
          Len(fields) = 2 /\ fields[1] = Before(":", t) /\ fields[2] = Behind(":", t)
      BY <3>1, <3>2, SplitAtFirst
    <3> QED  BY <2>1, <3>3
  <2>3. Before(":", t) = SubSeq(t, 1, m - 1) /\ Behind(":", t) = SubSeq(t, m + 1, k)
    BY <1>12, <1>13 DEF Before, Behind
  <2>4. SubSeq(t, 1, m - 1) = SubSeq(s, lo + 1 - 1, lo + (m - 1) - 1)
    <3>1. 1 \in Nat \ {0} /\ m - 1 \in Int /\ 1 - 1 <= m - 1 /\ m - 1 <= k  BY <1>11
    <3> QED  BY <1>11, <3>1, PieceOfPiece DEF t, k
  <2>5. SubSeq(t, m + 1, k) = SubSeq(s, lo + (m + 1) - 1, lo + k - 1)
    <3> DEFINE p == m + 1
    <3>1. p \in Nat \ {0} /\ k \in Int /\ p - 1 <= k /\ k <= k  BY <1>11
    <3> HIDE DEF p
    <3>2. SubSeq(t, p, k) = SubSeq(s, lo + p - 1, lo + k - 1)
      BY <1>11, <3>1, PieceOfPiece DEF t, k
    <3> QED  BY <3>2 DEF p
  <2> QED  BY <1>11, <2>2, <2>3, <2>4, <2>5
<1>15. Strip(Pair(s)[1]) = Host <=> Trim(Before(":", s)) = Host
  <2> DEFINE f == c - 1
             x == SubSeq(s, lo, f)
             y == SubSeq(s, 1, f)
             Q == SolidIn(s, lo, f)
             R == SolidIn(s, 1, f)
  <2>1. f \in Int /\ lo - 1 <= f /\ f <= Len(s) /\ 1 - 1 <= f /\ 1 \in Nat \ {0}
    BY <1>1, <1>3, <1>9 DEF n
  <2>2. Q = R
    <3>1. \A j \in Solid(s) : lo <= j /\ 1 <= j  BY <1>1, <1>9 DEF T
    <3> QED  BY <3>1 DEF SolidIn
  <2>3. Pair(s)[1] = x /\ Before(":", s) = y  BY <1>4, <1>14
  <2> HIDE DEF f
  <2>4. x \in Seq(S)  BY <1>11, <2>1, PieceEffect
  <2>5. Trim(x) = IF Q = {} THEN <<>> ELSE SubSeq(s, Min(Q), Max(Q))
    BY <1>11, <2>1, TrimOfPiece
  <2>6. Trim(y) = IF R = {} THEN <<>> ELSE SubSeq(s, Min(R), Max(R))
    BY <2>1, TrimOfPiece
  <2> HIDE DEF x, y, Q, R
  <2>7. Trim(x) = Trim(y)  BY <2>2, <2>5, <2>6
  <2>8. Strip(x) = Host <=> Trim(x) = Host  BY <2>4, StripIsHost
  <2> QED  BY <2>3, <2>7, <2>8
<1>16. Strip(Pair(s)[2]) = Trim(Behind(":", s))
  <2> DEFINE d == c + 1
             x == SubSeq(s, d, hi)
             y == SubSeq(s, d, n)
             Q == SolidIn(s, d, hi)
             R == SolidIn(s, d, n)
  <2>1. /\ d \in Nat \ {0} /\ d - 1 <= hi /\ hi <= Len(s) /\ hi \in Int
        /\ d - 1 <= n /\ n <= Len(s) /\ n \in Int
    BY <1>1, <1>3, <1>9
  <2>d. \A j \in Int : d + j - 1 = c + j  BY <1>3
  <2>h. hi - d + 1 = hi - c  BY <1>3, <1>9
  <2>2. Q = R
    <3>1. \A j \in Solid(s) : j <= hi /\ j <= n  BY <1>1, <1>9 DEF T
    <3> QED  BY <3>1 DEF SolidIn
  <2>3. Pair(s)[2] = x /\ Behind(":", s) = y  BY <1>4, <1>14 DEF v
  <2> HIDE DEF d, n
  <2>4. x \in Seq(S) /\ Solid(x) = {j \in 1..(hi - d + 1) : d + j - 1 \in Solid(s)}
    <3>0. d \in Nat \ {0} /\ hi \in Int /\ d - 1 <= hi /\ hi <= Len(s)  BY <2>1
    <3>1. x \in Seq(S)  BY <3>0, PieceEffect
    <3>2. Solid(x) = {j \in 1..(hi - d + 1) : d + j - 1 \in Solid(s)}
      BY <3>0, PlacesInPiece
    <3> QED  BY <3>1, <3>2
  <2>5. Trim(x) = IF Q = {} THEN <<>> ELSE SubSeq(s, Min(Q), Max(Q))
    BY <2>1, TrimOfPiece
  <2>6. Trim(y) = IF R = {} THEN <<>> ELSE SubSeq(s, Min(R), Max(R))
    <3>1. d \in Nat \ {0} /\ n \in Int /\ d - 1 <= n /\ n <= Len(s)  BY <2>1
    <3> QED  BY <3>1, TrimOfPiece
  <2> HIDE DEF x, y, Q, R
  <2>7. Trim(x) = Trim(y)  BY <2>2, <2>5, <2>6
  <2>8. Solid(x) = Solid(v)
    <3>1. Solid(x) = {j \in 1..(hi - c) : c + j \in T}
      <4>1. Solid(x) = {j \in 1..(hi - c) : d + j - 1 \in T}  BY <2>4, <2>h DEF T
      <4>2. \A j \in 1..(hi - c) : d + j - 1 = c + j  BY <2>d
      <4> QED  BY <4>1, <4>2
    <3>2. \A j \in 1..(n - c) : c + j \in T => j \in 1..(hi - c)  BY <1>1, <1>3, <1>9
    <3>3. \A j \in 1..(hi - c) : j \in 1..(n - c)  BY <1>1, <1>3, <1>9
    <3> QED  BY <1>7, <3>1, <3>2, <3>3
  <2>9. Strip(x) = Trim(x)
    <3>1. Cardinality(Solid(x)) > 1  BY <1>5, <2>8
    <3> QED  BY <2>4, <3>1, StripOfWords
  <2> QED  BY <2>3, <2>7, <2>9
<1> QED  BY <1>10, <1>14, <1>15, <1>16

-----------------------------------------------------------------------------
(* A well-formed request.                                                  *)

LEMMA LineIsText ==
  ASSUME NEW S, NEW s \in Seq(S), CR \in S, LF \in S, Cardinality(EmptyLines(s)) = 1,
         NEW b \in Lines(s)
  PROVE  LineAt(s, b) \in Seq(S)
<1> DEFINE n == Len(s)
           O == Occurrences(CRLF, s)
           T == {1} \cup {a + 2 : a \in {a \in Lines(s) : a < b}}
<1>1. /\ n \in Nat /\ O = {i \in 1..(n - 1) : s[i] = CR /\ s[i + 1] = LF}
      /\ \A i, j \in O : ~(i < j /\ j < i + 2)
  <2>1. Len(CRLF) = 2 /\ ~Overlaps(CRLF, s)  BY LineEnds
  <2> QED  BY <2>1, LineEnds, LenProperties DEF Overlaps
<1>2. Lines(s) \subseteq O  BY OneEmptyLine
<1> HIDE DEF O, n
<1>3. b \in 1..(n - 1) /\ T \subseteq 1..b /\ T # {}
  <2>1. b \in 1..(n - 1)  BY <1>1, <1>2
  <2>2. ASSUME NEW a \in Lines(s), a < b PROVE a + 2 \in 1..b
    <3>1. a \in 1..(n - 1) /\ ~(b < a + 2)  BY <1>1, <1>2, <2>2
    <3> QED  BY <2>1, <3>1
  <2>3. 1 \in 1..b  BY <1>1, <2>1
  <2> QED  BY <2>1, <2>2, <2>3
<1> DEFINE a == LineStart(s, b)
<1>4. a \in 1..b
  <2> HIDE DEF T
  <2>1. b \in Int  BY <1>3
  <2>2. Max(T) \in T  BY <1>3, <2>1, EndsOfSet
  <2>3. a = Max(T)  BY DEF LineStart, T
  <2> QED  BY <1>3, <2>2, <2>3
<1> HIDE DEF a
<1>5. a \in Nat \ {0} /\ b - 1 \in Int /\ a - 1 <= b - 1 /\ b - 1 <= Len(s)
  BY <1>1, <1>3, <1>4 DEF n
<1>6. SubSeq(s, a, b - 1) \in Seq(S)  BY <1>5, PieceEffect
<1> QED  BY <1>6 DEF LineAt, a

LEMMA PartsAreTexts ==
  ASSUME NEW S, NEW s \in Seq(S), NEW c \in S
  PROVE  Before(c, s) \in Seq(S) /\ Behind(c, s) \in Seq(S)
<1>1. CASE Marks(c, s) = {}
  <2>1. Before(c, s) = s /\ Behind(c, s) = <<>>  BY <1>1 DEF Before, Behind
  <2> QED  BY <2>1, EmptySeq
<1>2. CASE Marks(c, s) # {}  BY <1>2, BeforeAndBehind
<1> QED  BY <1>1, <1>2

(* A text split once at a character that it does not end with.             *)
LEMMA SplitOnce ==
  ASSUME NEW S, NEW s \in Seq(S), NEW c \in S, s # <<>> => Last(s) # c
  PROVE  LET fields == Split(s, <<c>>, 1) IN
         /\ fields[1] = Before(c, s)
         /\ (IF Len(fields) > 1 THEN fields[2] ELSE <<>>) = Behind(c, s)
<1> DEFINE M == Marks(c, s)
           n == Len(s)
           fields == Split(s, <<c>>, 1)
           z == Len(fields)
<1>1. n \in Nat /\ M \subseteq 1..n /\ \A i \in M : s[i] = c
  <2>1. n \in Nat /\ DOMAIN s = 1..n  BY LenProperties
  <2> QED  BY <2>1 DEF Marks
<1>2. M # {} => Min(M) < n
  <2> HIDE DEF M, n
  <2> SUFFICES ASSUME M # {} PROVE Min(M) < n
    OBVIOUS
  <2>1. n \in Int  BY <1>1
  <2>2. Min(M) \in M /\ Min(M) \in 1..n  BY <1>1, <2>1, EndsOfSet
  <2>3. s # <<>>
    <3>1. n # 0  BY <2>2
    <3> QED  BY <3>1, EmptySeq DEF n
  <2>4. s[n] # c  BY <2>3 DEF Last, n
  <2>5. Min(M) # n  BY <1>1, <2>2, <2>4
  <2> QED  BY <1>1, <2>2, <2>5
<1>3. /\ z = IF M = {} THEN 1 ELSE 2
      /\ fields[1] = Before(c, s)
      /\ M # {} => fields[2] = Behind(c, s)
  BY <1>2, SplitAtFirst
<1>4. M = {} => Behind(c, s) = <<>>  BY DEF Behind
<1> HIDE DEF z, M, fields
<1>5. (IF z > 1 THEN fields[2] ELSE <<>>) = Behind(c, s)
  <2>1. CASE M = {}
    <3>1. ~(z > 1)  BY <1>3, <2>1
    <3> QED  BY <1>4, <2>1, <3>1
  <2>2. CASE M # {}
    <3>1. z > 1  BY <1>3, <2>2
    <3> QED  BY <1>3, <2>2, <3>1
  <2> QED  BY <2>1, <2>2
<1> QED  BY <1>3, <1>5 DEF z, fields

(* The start line: its target, and what is before and behind its question  *)
(* mark.                                                                   *)
LEMMA StartLineParses ==
  ASSUME NEW S, NEW l \in Seq(S), " " \in S, "?" \in S, IsStartLine(l)
  PROVE  LET words == Split(l, <<" ">>, -1)
             target == Split(words[2], <<"?">>, 1)
         IN /\ Len(words) = 3 /\ words[1] = Before(" ", l)
            /\ target[1] = Before("?", Target(l))
            /\ (IF Len(target) > 1 THEN target[2] ELSE <<>>) = Behind("?", Target(l))
<1> DEFINE words == Split(l, <<" ">>, -1)
           t == Target(l)
<1>1. Len(words) = 3 /\ words[1] = Before(" ", l) /\ words[2] = t
  <2>1. Cardinality(Marks(" ", l)) = 2 /\ Last(l) # " "  BY DEF IsStartLine
  <2>2. \A c \in S : Cardinality(Marks(c, l)) = 2 /\ Last(l) # c =>
          /\ Len(Split(l, <<c>>, -1)) = 3 /\ Split(l, <<c>>, -1)[1] = Before(c, l)
          /\ Split(l, <<c>>, -1)[2] = Before(c, Behind(c, l))
    BY SplitAtTwo
  <2> QED  BY <2>1, <2>2 DEF Target
<1>2. t \in Seq(S)
  <2>1. \A c \in S : Before(c, Behind(c, l)) \in Seq(S)
    <3> TAKE c \in S
    <3>1. Behind(c, l) \in Seq(S)  BY PartsAreTexts
    <3> QED  BY <3>1, PartsAreTexts
  <2> QED  BY <2>1 DEF Target
<1>3. t # <<>> => Last(t) # "?"  BY DEF IsStartLine
<1> HIDE DEF words, t
<1>4. \A c \in S : (t # <<>> => Last(t) # c) =>
        /\ Split(t, <<c>>, 1)[1] = Before(c, t)
        /\ (IF Len(Split(t, <<c>>, 1)) > 1 THEN Split(t, <<c>>, 1)[2] ELSE <<>>) = Behind(c, t)
  BY <1>2, SplitOnce
<1>5. /\ Split(t, <<"?">>, 1)[1] = Before("?", t)
      /\ (IF Len(Split(t, <<"?">>, 1)) > 1 THEN Split(t, <<"?">>, 1)[2] ELSE <<>>)
           = Behind("?", t)
  BY <1>3, <1>4, Zenon
<1> QED  BY <1>1, <1>5 DEF words, t

LEMMA LinesOfRequest ==
  ASSUME NEW S, NEW s \in Seq(S), CR \in S, LF \in S, Cardinality(EmptyLines(s)) = 1
  PROVE  \E g, d : HeadLines(s, Split(Split(s, CRLF \o CRLF, -1)[1], CRLF, -1), g, d)
<1> DEFINE e == Min(EmptyLines(s))
           head == Split(s, CRLF \o CRLF, -1)[1]
           lines == Split(head, CRLF, -1)
<1>1. \E at : HeadCuts(s, lines, Len(lines), e, at)
  <2>1. CASE e + 3 = Len(s)
    <3>1. head = s  BY <2>1, PartsOfRequest
    <3>2. \E at : HeadCuts(s, Split(s, CRLF, -1), Len(Split(s, CRLF, -1)), e, at)
      BY <2>1, HeadWithoutBody
    <3> QED  BY <3>1, <3>2
  <2>2. CASE e + 3 # Len(s)
    <3>1. head = SubSeq(s, 1, e - 1)  BY <2>2, PartsOfRequest
    <3> DEFINE h == SubSeq(s, 1, e - 1)
    <3>2. \E at : HeadCuts(s, Split(h, CRLF, -1), Len(Split(h, CRLF, -1)), e, at)
      BY <2>2, HeadBeforeBody
    <3> QED  BY <3>1, <3>2
  <2> QED  BY <2>1, <2>2
<1>2. PICK at : HeadCuts(s, lines, Len(lines), e, at)  BY <1>1
<1> HIDE DEF lines
<1>3. \E g, d : HeadLines(s, lines, g, d)  BY <1>2, CutsGiveLines
<1> QED  BY <1>3 DEF lines

(* The first line is the start line, the others are the fields; with the   *)
(* fields a request must have, there are three lines.                      *)
LEMMA FieldsAreLines ==
  ASSUME NEW S, NEW s \in Seq(S), CR \in S, LF \in S, Cardinality(EmptyLines(s)) = 1,
         NEW lines, NEW g, NEW d, HeadLines(s, lines, g, d)
  PROVE  /\ d[1] = Min(Lines(s)) /\ lines[1] = StartLine(s)
         /\ Fields(s) = {d[k] : k \in 2..g}
         /\ Len(lines) \in Nat /\ g <= Len(lines)
<1> DEFINE L == Lines(s)
<1>1. L \subseteq Int
  <2>1. L \subseteq 1..Min(EmptyLines(s))  BY OneEmptyLine
  <2> QED  BY <2>1
<1>2. /\ g \in Nat \ {0} /\ d \in [1..g -> L]
      /\ \A j, k \in 1..g : j < k => d[j] < d[k]
      /\ \A b \in L : \E k \in 1..g : d[k] = b
      /\ \A k \in 1..g : lines[k] = LineAt(s, d[k])
  BY DEF HeadLines
<1>3. Len(lines) \in Nat /\ g <= Len(lines)
  <2> DEFINE z == Len(lines)
             p == Min(EmptyLines(s)) + 3 = Len(s)
  <2>1. z = IF p THEN g + 1 ELSE g  BY DEF HeadLines
  <2> HIDE DEF z, p
  <2>2. z = g \/ z = g + 1  BY <2>1
  <2>3. z \in Nat /\ g <= z  BY <1>2, <2>2
  <2> QED  BY <2>3 DEF z
<1> HIDE DEF L
<1>4. 1 \in 1..g /\ \A k \in 1..g : k = 1 \/ 1 < k  BY <1>2
<1>5. d[1] = Min(L)
  <2>1. d[1] \in L  BY <1>2, <1>4
  <2>2. ASSUME NEW b \in L PROVE d[1] <= b
    <3>1. PICK k \in 1..g : d[k] = b  BY <1>2
    <3>2. k = 1 \/ d[1] < d[k]  BY <1>2, <1>4
    <3>3. b \in Int /\ d[1] \in Int  BY <1>1, <2>1
    <3> QED  BY <3>1, <3>2, <3>3
  <2> QED  BY <1>1, <2>1, <2>2, MinIs
<1>6. lines[1] = StartLine(s)  BY <1>2, <1>4, <1>5 DEF StartLine, L
<1>7. Fields(s) = {d[k] : k \in 2..g}
  <2>1. Fields(s) = L \ {d[1]}  BY <1>5 DEF Fields, L
  <2>2. ASSUME NEW b \in L, b # d[1] PROVE b \in {d[k] : k \in 2..g}
    <3>1. PICK k \in 1..g : d[k] = b  BY <1>2
    <3>2. k # 1  BY <2>2, <3>1
    <3>3. k \in 2..g  BY <1>2, <3>2
    <3> QED  BY <3>1, <3>3
  <2>3. ASSUME NEW k \in 2..g PROVE d[k] \in L /\ d[k] # d[1]
    <3>1. k \in 1..g /\ 1 < k  BY <1>2
    <3>2. d[k] \in L /\ d[1] < d[k]  BY <1>2, <1>4, <3>1
    <3>3. d[k] \in Int /\ d[1] \in Int  BY <1>1, <1>2, <1>4, <3>2
    <3> QED  BY <3>2, <3>3
  <2> QED  BY <2>1, <2>2, <2>3
<1> QED  BY <1>3, <1>5, <1>6, <1>7 DEF L

LEMMA ThreeLines ==
  ASSUME NEW S, NEW s \in Seq(S), CR \in S, LF \in S, Cardinality(EmptyLines(s)) = 1,
         NEW lines, NEW g, NEW d, HeadLines(s, lines, g, d),
         Cardinality(Fields(s)) >= IF Body(s) = <<>> THEN 1 ELSE 2
  PROVE  Len(lines) >= 3
<1> DEFINE z == Len(lines)
           F == Fields(s)
           whole == Min(EmptyLines(s)) + 3 = Len(s)
           bare == Body(s) = <<>>
<1>1. F = {d[k] : k \in 2..g}  BY FieldsAreLines
<1>2. whole => bare /\ z = g + 1  BY PartsOfRequest DEF HeadLines
<1>3. ~whole => ~bare /\ z = g  BY PartsOfRequest DEF HeadLines
<1>4. g \in Nat \ {0}  BY DEF HeadLines
<1>5. Cardinality(F) >= IF bare THEN 1 ELSE 2  OBVIOUS
<1> HIDE DEF z, F, whole, bare
<1>6. g # 1
  <2> SUFFICES ASSUME g = 1 PROVE FALSE
    OBVIOUS
  <2>1. F = {}  BY <1>1
  <2>2. Cardinality(F) = 0  BY <2>1, FS_EmptySet
  <2> QED  BY <1>5, <2>2
<1>7. bare \/ g # 2
  <2> SUFFICES ASSUME ~bare, g = 2 PROVE FALSE
    OBVIOUS
  <2>1. F = {d[2]}
    <3>1. \A k \in 2..g : k = 2  OBVIOUS
    <3>2. 2 \in 2..g  OBVIOUS
    <3> QED  BY <1>1, <3>1, <3>2
  <2>2. Cardinality(F) = 1  BY <2>1, FS_Singleton
  <2> QED  BY <1>5, <2>2
<1>8. z >= 3  BY <1>2, <1>3, <1>4, <1>6, <1>7
<1> QED  BY <1>8 DEF z

(* The lines the parser takes for fields are those that are, it refuses    *)
(* none of them, and reads their names and values.                         *)
LEMMA FieldsParse ==
  ASSUME NEW S, NEW s \in Seq(S), CR \in S, LF \in S, ":" \in S,
         Cardinality(EmptyLines(s)) = 1,
         NEW lines, NEW g, NEW d, HeadLines(s, lines, g, d),
         \A b \in Fields(s) : IsField(LineAt(s, b))
  PROVE  /\ {i \in 2..Len(lines) : Strip(lines[i]) # <<>>} = 2..g
         /\ \A i \in 2..g :
              LET pair == Pair(lines[i])
                  line == LineAt(s, d[i])
              IN /\ Len(pair) = 2
                 /\ Strip(pair[1]) = Host <=> Trim(Before(":", line)) = Host
                 /\ Strip(pair[2]) = Trim(Behind(":", line))
<1>1. /\ Fields(s) = {d[k] : k \in 2..g} /\ Len(lines) \in Nat /\ g <= Len(lines)
      /\ g \in Nat
  <2>1. /\ Fields(s) = {d[k] : k \in 2..g} /\ Len(lines) \in Nat /\ g <= Len(lines)
    BY FieldsAreLines
  <2>2. g \in Nat  BY DEF HeadLines
  <2> QED  BY <2>1, <2>2
<1>2. ASSUME NEW i \in 2..g
      PROVE  /\ lines[i] = LineAt(s, d[i]) /\ lines[i] \in Seq(S) /\ IsField(lines[i])
  <2>1. i \in 1..g  BY <1>1
  <2>2. lines[i] = LineAt(s, d[i]) /\ d[i] \in Lines(s)  BY <2>1 DEF HeadLines
  <2>3. IsField(LineAt(s, d[i]))  BY <1>1
  <2>4. LineAt(s, d[i]) \in Seq(S)  BY <2>2, LineIsText
  <2> QED  BY <2>2, <2>3, <2>4
<1>3. ASSUME NEW i \in 2..g
      PROVE  /\ Strip(lines[i]) # <<>>
             /\ Len(Pair(lines[i])) = 2
             /\ Strip(Pair(lines[i])[1]) = Host <=> Trim(Before(":", lines[i])) = Host
             /\ Strip(Pair(lines[i])[2]) = Trim(Behind(":", lines[i]))
  <2>1. lines[i] \in Seq(S) /\ IsField(lines[i])  BY <1>2
  <2> QED  BY <2>1, PairOfField
<1>4. \A i \in 1..Len(lines) : i > g => Strip(lines[i]) = <<>>
  BY StripOfBlanks DEF HeadLines
<1> DEFINE z == Len(lines)
<1> HIDE DEF z
<1>5. {i \in 2..z : Strip(lines[i]) # <<>>} = 2..g
  <2>1. z \in Nat /\ g <= z /\ \A i \in 1..z : i > g => Strip(lines[i]) = <<>>
    BY <1>1, <1>4 DEF z
  <2>2. \A i \in 2..z : i \in 1..z /\ (i > g \/ i \in 2..g)  BY <1>1, <2>1
  <2>3. \A i \in 2..g : i \in 2..z  BY <1>1, <2>1
  <2> QED  BY <1>3, <2>1, <2>2, <2>3
<1> QED  BY <1>2, <1>3, <1>5 DEF z

(* The first of some fields is the first of their lines.                   *)
AmongLines(g, d, B) == {i \in 2..g : d[i] \in B}

LEMMA FirstOfFields ==
  ASSUME NEW S, NEW s \in Seq(S), CR \in S, LF \in S, Cardinality(EmptyLines(s)) = 1,
         NEW lines, NEW g, NEW d, HeadLines(s, lines, g, d),
         NEW B, B \subseteq Fields(s)
  PROVE  LET H == AmongLines(g, d, B) IN
         /\ H = {} <=> B = {}
         /\ H # {} => Min(H) \in H /\ d[Min(H)] = Min(B)
<1> DEFINE H == AmongLines(g, d, B)
<1>1. /\ Fields(s) = {d[k] : k \in 2..g} /\ g \in Nat
      /\ \A j, k \in 1..g : j < k => d[j] < d[k]
  <2>1. Fields(s) = {d[k] : k \in 2..g}  BY FieldsAreLines
  <2>2. g \in Nat /\ \A j, k \in 1..g : j < k => d[j] < d[k]  BY DEF HeadLines
  <2> QED  BY <2>1, <2>2
<1>2. B \subseteq Int
  <2>1. Lines(s) \subseteq 1..Min(EmptyLines(s)) /\ Fields(s) \subseteq Lines(s)
    BY OneEmptyLine DEF Fields
  <2> QED  BY <2>1
<1>3. \A b \in B : \E i \in H : d[i] = b  BY <1>1 DEF AmongLines
<1>4. H \subseteq 1..g /\ \A i \in H : d[i] \in B  BY <1>1 DEF AmongLines
<1> HIDE DEF H
<1>5. H = {} <=> B = {}  BY <1>3, <1>4
<1>6. ASSUME H # {} PROVE Min(H) \in H /\ d[Min(H)] = Min(B)
  <2>1. Min(H) \in H /\ \A i \in H : Min(H) <= i
    <3>1. g \in Int  BY <1>1
    <3> QED  BY <1>4, <1>6, <3>1, EndsOfSet
  <2> DEFINE m == Min(H)
  <2>2. m \in H /\ d[m] \in B /\ m \in 1..g  BY <1>4, <2>1
  <2>3. ASSUME NEW b \in B PROVE d[m] <= b
    <3>1. PICK i \in H : d[i] = b  BY <1>3
    <3>2. m = i \/ m < i
      <4>1. m <= i /\ i \in 1..g  BY <1>4, <2>1
      <4> HIDE DEF m
      <4> QED  BY <2>2, <4>1
    <3>3. i \in 1..g /\ (m = i \/ d[m] < d[i])  BY <1>1, <1>4, <2>2, <3>2
    <3>4. d[m] \in Int /\ b \in Int  BY <1>2, <2>2
    <3> HIDE DEF m
    <3> QED  BY <3>1, <3>3, <3>4
  <2> HIDE DEF m
  <2>4. Min(B) = d[m]  BY <1>2, <2>2, <2>3, MinIs
  <2> QED  BY <2>2, <2>4 DEF m
<1> QED  BY <1>5, <1>6 DEF H

(* The characters the parser knows.                                        *)
Letters == {CR, LF, ":", " ", "?"}

(* The parser takes every well-formed request for what it is.              *)
THEOREM ParsesAnyText ==
  ASSUME NEW S, NEW s \in Seq(S), Letters \subseteq S, WellFormed(s)
  PROVE  ParsesFaithfully(s)
<1> DEFINE parts == Split(s, CRLF \o CRLF, -1)
           head == parts[1]
           lines == Split(head, CRLF, -1)
           words == Split(lines[1], <<" ">>, -1)
           started == Len(lines) >= 3 /\ Len(words) >= 3
           target == Split(words[2], <<"?">>, 1)
           fields == {i \in 2..Len(lines) : Strip(lines[i]) # <<>>}
           hosts == {i \in fields : Strip(Pair(lines[i])[1]) = Host}
           ok == started /\ \A i \in fields : Len(Pair(lines[i])) >= 2
           query == IF Len(target) > 1 THEN target[2] ELSE <<>>
           req == ParseRequest(s)
           start == StartLine(s)
           named == {b \in Fields(s) : Trim(Before(":", LineAt(s, b))) = Host}
<1>1. /\ Cardinality(EmptyLines(s)) = 1 /\ IsStartLine(start)
      /\ \A b \in Fields(s) : IsField(LineAt(s, b))
      /\ Cardinality(Fields(s)) >= IF Body(s) = <<>> THEN 1 ELSE 2
  BY DEF WellFormed
<1>2. CR \in S /\ LF \in S /\ ":" \in S /\ " " \in S /\ "?" \in S
  BY Zenon DEF Letters
<1>a. CR \in S /\ LF \in S /\ ":" \in S  BY <1>2, Zenon
<1>3. PICK g, d : HeadLines(s, lines, g, d)  BY <1>1, <1>2, LinesOfRequest, Zenon
<1>4. /\ req.header.ok = ok
      /\ req.header.methods = IF started THEN {words[1]} ELSE {<<"G">>, <<"P">>, <<"X">>}
      /\ req.header.resource = IF started THEN target[1] ELSE <<>>
      /\ req.header.querystring = IF started /\ Len(target) > 1 THEN target[2] ELSE <<>>
      /\ req.header.host = IF ok /\ hosts # {}
                             THEN Strip(Pair(lines[Min(hosts)])[2]) ELSE <<>>
      /\ req.body = IF Len(parts) = 2 THEN parts[2] ELSE <<>>
  BY DEF ParseRequest, ParseHeader
<1>5. Len(lines) >= 3  BY <1>1, <1>2, <1>3, ThreeLines, Zenon
<1>6. d[1] = Min(Lines(s)) /\ lines[1] = start
  BY <1>1, <1>2, <1>3, FieldsAreLines, Zenon
<1>7. /\ fields = 2..g
      /\ \A i \in 2..g :
           /\ Len(Pair(lines[i])) = 2
           /\ Strip(Pair(lines[i])[1]) = Host <=> Trim(Before(":", LineAt(s, d[i]))) = Host
           /\ Strip(Pair(lines[i])[2]) = Trim(Behind(":", LineAt(s, d[i])))
  <2> HIDE DEF lines
  <2>1. HeadLines(s, lines, g, d)  BY <1>3
  <2> QED  BY <1>1, <1>a, <2>1, FieldsParse
<1>9. start \in Seq(S)
  <2>1. Min(Lines(s)) \in Lines(s)
    <3>1. 1 \in 1..g /\ d[1] \in Lines(s)
      <4>1. g \in Nat \ {0} /\ d \in [1..g -> Lines(s)]
        <5> HIDE DEF lines
        <5> QED  BY <1>3 DEF HeadLines
      <4>2. 1 \in 1..g  BY ONLY <4>1
      <4> QED  BY <4>1, <4>2, Zenon
    <3> QED  BY <1>6, <3>1, Zenon
  <2> QED  BY <1>1, <1>2, <2>1, LineIsText, Zenon DEF StartLine
<1>10. /\ Len(words) = 3 /\ words[1] = Before(" ", start)
       /\ target[1] = Before("?", Target(start)) /\ query = Behind("?", Target(start))
  BY <1>1, <1>2, <1>6, <1>9, StartLineParses, Zenon
<1>11. started
  <2>1. Len(words) >= 3
    <3> DEFINE z == Len(words)
    <3>1. z = 3  BY <1>10
    <3> HIDE DEF z
    <3>2. z >= 3  BY ONLY <3>1
    <3> QED  BY <3>2, Zenon DEF z
  <2> QED  BY <1>5, <2>1, Zenon
<1>12. ok
  <2>1. ASSUME NEW i \in fields PROVE Len(Pair(lines[i])) >= 2
    <3> DEFINE z == Len(Pair(lines[i]))
    <3>1. z = 2  BY <1>7, Zenon
    <3> HIDE DEF z
    <3>2. z >= 2  BY ONLY <3>1
    <3> QED  BY <3>2, Zenon DEF z
  <2> QED  BY <1>11, <2>1, Zenon
<1>13. hosts = {i \in 2..g : d[i] \in named}
  <2>1. \A i \in 2..g : d[i] \in Fields(s)
    <3>1. Fields(s) = {d[k] : k \in 2..g}  BY <1>1, <1>2, <1>3, FieldsAreLines, Zenon
    <3> QED  BY <3>1, Zenon
  <2>2. \A i \in 2..g : d[i] \in named <=> Strip(Pair(lines[i])[1]) = Host
    BY <1>7, <2>1, Zenon
  <2> HIDE DEF fields, lines, named
  <2> QED  BY <1>7, <2>2, Zenon
<1>8. /\ hosts = {} <=> named = {}
      /\ hosts # {} => Min(hosts) \in hosts /\ d[Min(hosts)] = Min(named)
  <2>1. named \subseteq Fields(s)  OBVIOUS
  <2> HIDE DEF named, lines, hosts
  <2>2. HeadLines(s, lines, g, d)  BY <1>3
  <2>3. hosts = AmongLines(g, d, named)  BY <1>13 DEF AmongLines
  <2>4. Cardinality(EmptyLines(s)) = 1 /\ CR \in S /\ LF \in S  BY <1>1, <1>a
  <2> DEFINE H == AmongLines(g, d, named)
  <2> HIDE DEF H
  <2>5. /\ H = {} <=> named = {}
        /\ H # {} => Min(H) \in H /\ d[Min(H)] = Min(named)
    BY <2>1, <2>2, <2>4, FirstOfFields DEF H
  <2> QED  BY <2>3, <2>5 DEF H
<1>14. req.header.host = IF named = {} THEN <<>>
                         ELSE Trim(Behind(":", LineAt(s, Min(named))))
  <2>1. hosts \subseteq 2..g  BY <1>13, Zenon
  <2>2. Min(hosts) \in 2..g =>
          Strip(Pair(lines[Min(hosts)])[2]) = Trim(Behind(":", LineAt(s, d[Min(hosts)])))
    BY <1>7, Zenon
  <2>3. req.header.host = IF ok /\ hosts # {}
                            THEN Strip(Pair(lines[Min(hosts)])[2]) ELSE <<>>
    BY <1>4, Zenon
  <2> HIDE DEF hosts, named, lines, ok, req
  <2>4. CASE named = {}  BY <1>8, <2>3, <2>4, Zenon
  <2>5. CASE named # {}  BY <1>8, <1>12, <2>1, <2>2, <2>3, <2>5, Zenon
  <2> QED  BY <2>4, <2>5, Zenon
<1>15. /\ req.header.ok /\ req.header.methods = {Before(" ", start)}
       /\ req.header.resource = Before("?", Target(start))
  <2> HIDE DEF started, ok, words, target, req, lines
  <2> QED  BY <1>4, <1>10, <1>11, <1>12, Zenon
<1>16. req.header.querystring = Behind("?", Target(start))
  <2>1. req.header.querystring = IF started /\ Len(target) > 1 THEN target[2] ELSE <<>>
    BY <1>4, Zenon
  <2> DEFINE more == Len(target) > 1
  <2>2. (IF more THEN target[2] ELSE <<>>) = Behind("?", Target(start))  BY <1>10, Zenon
  <2> HIDE DEF started, more, target, req
  <2>3. req.header.querystring = IF started /\ more THEN target[2] ELSE <<>>
    BY <2>1, Zenon DEF more
  <2>4. req.header.querystring = IF more THEN target[2] ELSE <<>>  BY <1>11, <2>3, Zenon
  <2>5. CASE more  BY <2>2, <2>4, <2>5, Zenon
  <2>6. CASE ~more  BY <2>2, <2>4, <2>6, Zenon
  <2> QED  BY <2>5, <2>6, Zenon
<1>17. req.body = Body(s)
  <2>1. req.body = IF Len(parts) = 2 THEN parts[2] ELSE <<>>  BY <1>4, Zenon
  <2> DEFINE whole == Min(EmptyLines(s)) + 3 = Len(s)
             z == Len(parts)
  <2>2. (whole => z = 1 /\ Body(s) = <<>>) /\ (~whole => z = 2 /\ parts[2] = Body(s))
    BY <1>1, <1>2, PartsOfRequest, Zenon
  <2> HIDE DEF whole, z, parts, req
  <2>3. req.body = IF z = 2 THEN parts[2] ELSE <<>>  BY <2>1, Zenon DEF z
  <2>4. 1 # 2  OBVIOUS
  <2> QED  BY <2>2, <2>3, <2>4, Zenon
<1>18. Cardinality(StatusCodes(req)) = 1
  <2> DEFINE code(m) ==
        CASE m = <<"G">> -> IF req.header.resource \in Files \cup {<<"/">>} THEN 200 ELSE 404
          [] m = <<"P">> -> 200
          [] OTHER -> 501
  <2>1. StatusCodes(req) = {code(m) : m \in req.header.methods}  BY DEF StatusCodes
  <2> HIDE DEF code, req
  <2>2. StatusCodes(req) = {code(Before(" ", start))}  BY <1>15, <2>1, Zenon
  <2> QED  BY <2>2, FS_Singleton, Zenon
<1> HIDE DEF req, start, named
<1>19. ParsesFaithfully(s)
  BY <1>14, <1>15, <1>16, <1>17, <1>18, Zenon DEF ParsesFaithfully, req, start, named
<1> QED  BY <1>19

-----------------------------------------------------------------------------
(* The texts that come together are sequences of characters, so both hold  *)
(* of them.                                                                *)

TextInv == alphabet \in Alphabets /\ text \in Seq(Chars)

THEOREM TextInvariance == TextSpec => []TextInv
<1>1. TextInit => TextInv
  BY EmptySeq DEF TextInit, TextInv
<1>2. TextInv /\ [TextNext]_textVars => TextInv'
  <2> SUFFICES ASSUME TextInv, [TextNext]_textVars PROVE TextInv'
    OBVIOUS
  <2>1. CASE TextNext
    <3>1. PICK k \in alphabet.chunks : text' = text \o k  BY <2>1 DEF TextNext
    <3>2. k \in Seq(Chars)  BY AlphabetsAssumption DEF TextInv
    <3>3. text \o k \in Seq(Chars)  BY <3>2, ConcatProperties DEF TextInv
    <3> QED  BY <2>1, <3>1, <3>3 DEF TextInv, TextNext
  <2>2. CASE UNCHANGED textVars  BY <2>2 DEF TextInv, textVars
  <2> QED  BY <2>1, <2>2
<1> QED  BY <1>1, <1>2, PTL DEF TextSpec

(* strip() and splitstr() do what they promise of every text there is, for *)
(* every separator the server splits at.                                   *)
THEOREM StringsAreFaithful == TextSpec => []StringsFaithful
<1>1. TextInv => StringsFaithful
  <2> SUFFICES ASSUME TextInv PROVE StringsFaithful
    OBVIOUS
  <2> DEFINE S == Chars \cup {":", " ", CR, LF}
  <2>1. text \in Seq(S)
    <3>1. Chars \subseteq S /\ text \in Seq(Chars)  BY DEF TextInv
    <3> HIDE DEF S
    <3> QED  BY <3>1, SeqMonotonic
  <2>2. ASSUME NEW sep \in Separators PROVE sep \in Seq(S) /\ Len(sep) > 0
    <3>1. ":" \in S /\ " " \in S /\ CR \in S /\ LF \in S  OBVIOUS
    <3> HIDE DEF S
    <3>2. \A c \in S : <<c>> \in Seq(S) /\ Len(<<c>>) > 0  OBVIOUS
    <3>3. \A c, d \in S : <<c, d>> \in Seq(S) /\ Len(<<c, d>>) = 2  OBVIOUS
    <3>4. CRLF \in Seq(S) /\ Len(CRLF) = 2  BY <3>1, <3>3, Zenon DEF CRLF
    <3>5. CASE sep \in {<<":">>, <<" ">>}  BY <3>1, <3>2, <3>5, Zenon
    <3>6. CASE sep = CRLF  BY <3>4, <3>6
    <3>7. CASE sep = CRLF \o CRLF
      <4>1. CRLF \o CRLF \in Seq(S) /\ Len(CRLF \o CRLF) = Len(CRLF) + Len(CRLF)
        BY <3>4, ConcatProperties
      <4> QED  BY <3>4, <3>7, <4>1
    <3> QED  BY <3>5, <3>6, <3>7 DEF Separators
  <2> HIDE DEF S
  <2>3. StripTrimsWords(text)  BY <2>1, StripTrimsAnyText
  <2>4. ASSUME NEW sep \in Separators, NEW n \in {-1, 1, 2}
        PROVE  SplitRejoins(text, sep, n)
    <3>1. n \in Int  OBVIOUS
    <3> QED  BY <2>1, <2>2, <3>1, SplitRejoinsAnyText
  <2> QED  BY <2>3, <2>4 DEF StringsFaithful
<1> QED  BY <1>1, TextInvariance, PTL

(* A well-formed request is taken for what it is, whatever the alphabet it *)
(* is put together from, however many lines it has and however long its    *)
(* body is.                                                                *)
THEOREM RequestsAreParsedFaithfully == TextSpec => []ParsedFaithfully
<1>1. TextInv => ParsedFaithfully
  <2> SUFFICES ASSUME TextInv, WellFormed(text) PROVE ParsesFaithfully(text)
    BY DEF ParsedFaithfully
  <2> DEFINE S == Chars \cup Letters
  <2>1. Letters \subseteq S /\ Chars \subseteq S /\ text \in Seq(Chars)  BY DEF TextInv
  <2> HIDE DEF S
  <2>2. text \in Seq(S)  BY <2>1, SeqMonotonic
  <2> QED  BY <2>1, <2>2, ParsesAnyText
<1> QED  BY <1>1, TextInvariance, PTL
=============================================================================
