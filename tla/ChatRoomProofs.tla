--------------------------- MODULE ChatRoomProofs ---------------------------
(***************************************************************************)
(* Proofs about ChatRoom: the table and the array of sockets agree, for    *)
(* any number of clients, any room and any hash function.  What put and    *)
(* get do is taken from the proofs about the table.                        *)
(***************************************************************************)
EXTENDS ChatRoom, SequenceTheorems, TLAPS

Sockets == 1..MAX_CLIENTS \cup {NULL}

TheTable == INSTANCE HashTableProofs WITH
  Keys <- Clients, Values <- Sockets,
  buckets <- table, ctx <- iter, result <- <<>>

(* The table of ChatRoom is the one of those proofs.                       *)
LEMMA SameTable ==
  /\ [T!Buckets -> Seq(T!Node)] = TheTable!Table
  /\ \A t : T!SoundTable(t) <=> TheTable!SoundTable(t)
  /\ \A t, k : T!GetFrom(t, k) = TheTable!GetFrom(t, k)
  /\ \A t, k, v : T!PutIn(t, k, v) = TheTable!PutIn(t, k, v)
<1>1. T!Buckets = TheTable!Buckets /\ T!Node = TheTable!Node
  BY DEF T!Buckets, TheTable!Buckets, T!Node, TheTable!Node, Sockets
<1>2. [T!Buckets -> Seq(T!Node)] = TheTable!Table
  BY <1>1 DEF TheTable!Table
<1>3. \A t : T!SoundTable(t) <=> TheTable!SoundTable(t)
  BY <1>1 DEF T!SoundTable, TheTable!SoundTable
<1>4. ASSUME NEW t, NEW k PROVE T!GetFrom(t, k) = TheTable!GetFrom(t, k)
  BY DEF T!GetFrom, TheTable!GetFrom, T!Has, TheTable!Has,
         T!FirstMatch, TheTable!FirstMatch
<1>5. ASSUME NEW t, NEW k, NEW v PROVE T!PutIn(t, k, v) = TheTable!PutIn(t, k, v)
  BY DEF T!PutIn, TheTable!PutIn, T!Has, TheTable!Has,
         T!FirstMatch, TheTable!FirstMatch
<1> QED  BY <1>2, <1>3, <1>4, <1>5

(* What the server relies on when it puts a client in the table.           *)
LEMMA PutThenGet ==
  ASSUME NEW t \in [T!Buckets -> Seq(T!Node)], T!SoundTable(t),
         NEW c \in Clients, NEW v \in 1..MAX_CLIENTS
  PROVE  /\ T!PutIn(t, c, v) \in [T!Buckets -> Seq(T!Node)]
         /\ T!SoundTable(T!PutIn(t, c, v))
         /\ T!GetFrom(T!PutIn(t, c, v), c) = v
         /\ \A d \in Clients \ {c} :
              T!GetFrom(T!PutIn(t, c, v), d) = T!GetFrom(t, d)
<1>1. t \in TheTable!Table /\ TheTable!SoundTable(t)  BY SameTable
<1>2. v \in Sockets /\ NULL \in Sockets  BY DEF Sockets
<1>3. /\ TheTable!PutIn(t, c, v) \in TheTable!Table
      /\ TheTable!SoundTable(TheTable!PutIn(t, c, v))
  BY <1>1, <1>2, TheTable!PutInSound, RoomAssumption
<1>4. /\ TheTable!GetFrom(TheTable!PutIn(t, c, v), c) = v
      /\ \A d \in Clients \ {c} :
           TheTable!GetFrom(TheTable!PutIn(t, c, v), d) = TheTable!GetFrom(t, d)
  BY <1>1, <1>2, TheTable!GetAfterPut, RoomAssumption
<1> QED  BY <1>3, <1>4, SameTable

LEMMA InitRoom == Init => RoomInv
<1> SUFFICES ASSUME Init PROVE RoomInv
  OBVIOUS
<1>1. <<>> \in Seq(T!Node) /\ sockets \in Seq(Clients) /\ Len(sockets) = 0
  BY EmptySeq DEF Init
<1>2. table \in [T!Buckets -> Seq(T!Node)] /\ T!SoundTable(table)
  BY <1>1 DEF Init, T!SoundTable
<1>3. \A c \in Clients : T!GetFrom(table, c) = NULL
  <2> SUFFICES ASSUME NEW c \in Clients PROVE T!GetFrom(table, c) = NULL
    OBVIOUS
  <2>1. Hash[c] \in T!Buckets  BY RoomAssumption DEF T!Buckets
  <2>2. table[Hash[c]] = <<>>  BY <2>1 DEF Init
  <2> QED  BY <2>2 DEF T!GetFrom, T!Has
<1>4. Registered = {} /\ DOMAIN sockets = {} /\ lost = {}
  BY DEF Init, Registered
<1>5. OneSocketEach
  BY <1>1, <1>3, <1>4, RoomAssumption DEF OneSocketEach
<1> QED  BY <1>1, <1>2, <1>5 DEF Init, RoomInv

(* A new socket comes after those there are.                               *)
LEMMA NewSocket ==
  ASSUME RoomInv, NEW c \in Clients, Registers(c), sockets' = Append(sockets, c)
  PROVE  LET n == Len(sockets) IN
         /\ n \in Nat /\ n + 1 \in 1..MAX_CLIENTS /\ n + 1 \notin lost
         /\ DOMAIN sockets = 1..n
         /\ sockets' \in Seq(Clients) /\ Len(sockets') = n + 1
         /\ DOMAIN sockets' = DOMAIN sockets \cup {n + 1}
         /\ sockets'[n + 1] = c
         /\ \A i \in DOMAIN sockets : sockets'[i] = sockets[i] /\ sockets[i] \in Clients
<1> DEFINE n == Len(sockets)
<1>1. sockets \in Seq(Clients) /\ n \in Nat /\ DOMAIN sockets = 1..n
  BY LenProperties DEF RoomInv
<1>2. n + 1 \in 1..MAX_CLIENTS  BY <1>1, RoomAssumption DEF Registers
<1>3. /\ sockets' \in Seq(Clients) /\ Len(sockets') = n + 1
      /\ DOMAIN sockets' = 1..(n + 1) /\ sockets'[n + 1] = c
      /\ \A i \in 1..n : sockets'[i] = sockets[i]
  BY <1>1, AppendProperties, LenProperties
<1>4. \A i \in 1..n : sockets[i] \in Clients  BY <1>1
<1> HIDE DEF n
<1>5. 1..(n + 1) = 1..n \cup {n + 1} /\ n + 1 \notin 1..n  BY <1>1
<1>6. n + 1 \notin lost  BY <1>1, <1>5 DEF RoomInv
<1> QED  BY <1>1, <1>2, <1>3, <1>4, <1>5, <1>6 DEF n

(* A client that is registered was not in the table, so none of the        *)
(* sockets in the table is its own.                                        *)
LEMMA RegistrationKeeps ==
  ASSUME RoomInv, NEW c \in Clients, Registers(c),
         table' = T!PutIn(table, c, Len(sockets) + 1),
         sockets' = Append(sockets, c), lost' = lost
  PROVE  /\ table' \in [T!Buckets -> Seq(T!Node)] /\ T!SoundTable(table)'
         /\ sockets' \in Seq(Clients) /\ lost' \subseteq DOMAIN sockets'
         /\ OneSocketEach'
         /\ Registered' = Registered \cup {c}
<1> DEFINE n == Len(sockets)
<1>1. /\ n \in Nat /\ n + 1 \in 1..MAX_CLIENTS /\ n + 1 \notin lost
      /\ DOMAIN sockets = 1..n
      /\ sockets' \in Seq(Clients) /\ Len(sockets') = n + 1
      /\ DOMAIN sockets' = DOMAIN sockets \cup {n + 1}
      /\ sockets'[n + 1] = c
      /\ \A i \in DOMAIN sockets : sockets'[i] = sockets[i] /\ sockets[i] \in Clients
  BY NewSocket
<1>2. /\ table' \in [T!Buckets -> Seq(T!Node)] /\ T!SoundTable(table')
      /\ T!GetFrom(table', c) = n + 1
      /\ \A d \in Clients \ {c} : T!GetFrom(table', d) = T!GetFrom(table, d)
  BY <1>1, PutThenGet DEF RoomInv
<1>3. T!GetFrom(table, c) = NULL  BY DEF Registers
<1> HIDE DEF n
<1>4. n + 1 # NULL /\ n + 1 <= MAX_CLIENTS  BY <1>1, RoomAssumption
<1>5. \A d \in Clients : T!GetFrom(table, d) # NULL <=> d \in Registered
  BY DEF RoomInv, OneSocketEach
<1>6. \A i \in DOMAIN sockets \ lost : sockets[i] # c /\ T!GetFrom(table, sockets[i]) = i
  <2>1. c \notin Registered  BY <1>3, <1>5
  <2> QED  BY <2>1 DEF RoomInv, OneSocketEach, Registered
<1>7. Registered' = Registered \cup {c}
  BY <1>1 DEF Registered
<1>8. \A d \in Clients : T!GetFrom(table', d) # NULL <=> d \in Registered'
  BY <1>2, <1>4, <1>5, <1>7
<1>9. \A i \in DOMAIN sockets' \ lost' : T!GetFrom(table', sockets'[i]) = i
  BY <1>1, <1>2, <1>6
<1>10. OneSocketEach'  BY <1>1, <1>4, <1>8, <1>9 DEF OneSocketEach
<1> QED  BY <1>1, <1>2, <1>7, <1>10 DEF RoomInv

(* One that could not be put in the table is not registered.               *)
LEMMA LossKeeps ==
  ASSUME RoomInv, NEW c \in Clients, Registers(c), table' = table,
         sockets' = Append(sockets, c), lost' = lost \cup {Len(sockets) + 1}
  PROVE  /\ sockets' \in Seq(Clients) /\ lost' \subseteq DOMAIN sockets'
         /\ OneSocketEach'
         /\ Registered' = Registered
<1> DEFINE n == Len(sockets)
<1>1. /\ n \in Nat /\ n + 1 \in 1..MAX_CLIENTS /\ n + 1 \notin DOMAIN sockets
      /\ sockets' \in Seq(Clients) /\ Len(sockets') = n + 1
      /\ DOMAIN sockets' = DOMAIN sockets \cup {n + 1}
      /\ \A i \in DOMAIN sockets : sockets'[i] = sockets[i] /\ sockets[i] \in Clients
  BY NewSocket
<1> HIDE DEF n
<1>2. n + 1 <= MAX_CLIENTS  BY <1>1, RoomAssumption
<1>3. DOMAIN sockets' \ lost' = DOMAIN sockets \ lost
  BY <1>1 DEF n
<1>4. Registered' = Registered  BY <1>1, <1>3 DEF Registered
<1>5. OneSocketEach'
  BY <1>1, <1>2, <1>3, <1>4 DEF OneSocketEach, RoomInv
<1> QED  BY <1>1, <1>4, <1>5 DEF RoomInv, n

(* Only a datagram that registers its sender changes either.               *)
LEMMA RoomKept == RoomInv /\ [Next]_vars => RoomInv'
<1> SUFFICES ASSUME RoomInv, [Next]_vars PROVE RoomInv'
  OBVIOUS
<1>1. ASSUME UNCHANGED roomVars, \A d \in inbox' : d.from \in Clients
      PROVE  RoomInv'
  BY <1>1 DEF RoomInv, OneSocketEach, Registered, roomVars
<1>2. ASSUME NEW c \in Clients, ClientSays(c) \/ ClientLeaves(c) \/ ErrorArrives(c)
      PROVE  RoomInv'
  BY <1>1, <1>2 DEF ClientSays, ClientLeaves, ErrorArrives, netVars, RoomInv
<1>3. CASE Receive
  <2>1. PICK d \in inbox :
          /\ inbox' = inbox \ {d}
          /\ \/ /\ Registers(d.from)
                /\ sockets' = Append(sockets, d.from)
                /\ \/ table' = T!PutIn(table, d.from, Len(sockets) + 1) /\ UNCHANGED lost
                   \/ lost' = lost \cup {Len(sockets) + 1} /\ UNCHANGED table
             \/ ~Registers(d.from) /\ UNCHANGED roomVars
    BY <1>3 DEF Receive
  <2>2. d.from \in Clients /\ \A e \in inbox' : e.from \in Clients
    BY <2>1 DEF RoomInv
  <2>3. CASE UNCHANGED roomVars  BY <1>1, <2>2, <2>3
  <2>4. CASE ~UNCHANGED roomVars
    BY <2>1, <2>2, <2>4, RegistrationKeeps, LossKeeps DEF RoomInv
  <2> QED  BY <2>3, <2>4
<1>4. CASE ReceiveFails  BY <1>1, <1>4 DEF ReceiveFails, RoomInv
<1>5. CASE Select \/ Send \/ EndOfBroadcast \/ Poll \/ Silence \/ UNCHANGED vars
  BY <1>1, <1>5 DEF Select, Send, EndOfBroadcast, Poll, Silence, vars, netVars, RoomInv
<1> QED  BY <1>2, <1>3, <1>4, <1>5 DEF Next, Server

(* The table and the sockets agree: one socket for each client that is     *)
(* registered, the one its entry names, and never more than there is room. *)
THEOREM TableMatchesSockets == Spec => []OneSocketEach
<1>1. RoomInv => OneSocketEach  BY DEF RoomInv
<1> QED  BY <1>1, InitRoom, RoomKept, PTL DEF Spec
-----------------------------------------------------------------------------
(* Suffixes.                                                               *)

LEMMA SuffixByElement ==
  ASSUME NEW S, NEW s \in Seq(S), NEW t \in Seq(S)
  PROVE  IsSuffix(s, t) <=>
           /\ Len(s) <= Len(t)
           /\ \A i \in 1..Len(s) : s[i] = t[Len(t) - Len(s) + i]
<1> DEFINE m == Len(s)
           n == Len(t)
           r == Reverse(s)
           u == Reverse(t)
<1>1. /\ m \in Nat /\ n \in Nat
      /\ \A i \in 1..m : s[i] \in S
      /\ \A i \in 1..n : t[i] \in S
  BY LenProperties, ElementOfSeq
<1> HIDE DEF m, n
<1>2. /\ r \in Seq(S) /\ Len(r) = m
      /\ \A i \in 1..m : r[i] = s[(m - i) + 1]
  BY <1>1, IsASeq DEF Reverse, m
<1>3. /\ u \in Seq(S) /\ Len(u) = n
      /\ \A i \in 1..n : u[i] = t[(n - i) + 1]
  BY <1>1, IsASeq DEF Reverse, n
<1>4. SubSeq(r, 1, m) = r  BY <1>2, SubSeqFull
<1> HIDE DEF r, u
<1>5. CASE m <= n
  <2>1. /\ SubSeq(u, 1, m) \in Seq(S) /\ Len(SubSeq(u, 1, m)) = m
        /\ \A i \in 1..m : SubSeq(u, 1, m)[i] = u[i]
    <3>1. \A i \in 1..m : u[i] \in S  BY <1>1, <1>3, <1>5, ElementOfSeq
    <3>2. /\ SubSeq(u, 1, m) \in Seq(S)
          /\ Len(SubSeq(u, 1, m)) = IF 1 <= m THEN m - 1 + 1 ELSE 0
          /\ \A i \in 1..(m - 1 + 1) : SubSeq(u, 1, m)[i] = u[1 + i - 1]
      BY <1>1, <3>1, SubSeqProperties
    <3>3. m - 1 + 1 = m /\ Len(SubSeq(u, 1, m)) = m  BY <1>1, <3>2
    <3>4. \A i \in 1..m : 1 + i - 1 = i  BY <1>1
    <3> QED  BY <3>2, <3>3, <3>4
  <2>2. r = SubSeq(u, 1, m) <=> \A i \in 1..m : r[i] = u[i]
    BY <1>2, <2>1, SeqEqual
  <2>3. (\A i \in 1..m : r[i] = u[i]) <=> \A i \in 1..m : s[i] = t[n - m + i]
    <3>1. \A i \in 1..m : /\ (m - i) + 1 \in 1..m /\ i \in 1..n
                          /\ (n - i) + 1 = n - m + ((m - i) + 1)
                          /\ (m - ((m - i) + 1)) + 1 = i
      BY <1>1, <1>5
    <3>2. ASSUME NEW i \in 1..m
          PROVE  r[i] = s[(m - i) + 1] /\ u[i] = t[n - m + ((m - i) + 1)]
      <4>1. i \in 1..n /\ (n - i) + 1 = n - m + ((m - i) + 1)  BY <3>1
      <4>2. u[i] = t[(n - i) + 1]  BY <1>3, <4>1
      <4> QED  BY <1>2, <4>1, <4>2
    <3>3. ASSUME \A i \in 1..m : r[i] = u[i], NEW i \in 1..m
          PROVE  s[i] = t[n - m + i]
      <4> DEFINE j == (m - i) + 1
      <4>1. j \in 1..m /\ (m - j) + 1 = i  BY <3>1
      <4>2. r[j] = u[j]  BY <3>3, <4>1
      <4> HIDE DEF j
      <4> QED  BY <3>2, <4>1, <4>2
    <3>4. ASSUME \A i \in 1..m : s[i] = t[n - m + i], NEW i \in 1..m
          PROVE  r[i] = u[i]
      <4>1. (m - i) + 1 \in 1..m /\ (m - ((m - i) + 1)) + 1 = i  BY <3>1
      <4>2. s[(m - i) + 1] = t[n - m + ((m - i) + 1)]  BY <3>4, <4>1
      <4> QED  BY <3>2, <4>2
    <3> QED  BY <3>3, <3>4
  <2>4. IsSuffix(s, t) <=> r = SubSeq(u, 1, m)
    BY <1>2, <1>3, <1>4, <1>5 DEF IsSuffix, IsPrefix, r, u
  <2> QED  BY <1>5, <2>2, <2>3, <2>4 DEF m, n
<1>6. CASE ~(m <= n)
  BY <1>2, <1>3, <1>6 DEF IsSuffix, IsPrefix, r, u, m, n
<1> QED  BY <1>5, <1>6

LEMMA EmptySuffix ==
  ASSUME NEW S, NEW t \in Seq(S) PROVE IsSuffix(<<>>, t)
<1> DEFINE s == <<>>
<1>1. s \in Seq(S) /\ Len(s) = 0 /\ Len(t) \in Nat  BY EmptySeq, LenProperties
<1> HIDE DEF s
<1>2. Len(s) <= Len(t) /\ \A i \in 1..Len(s) : s[i] = t[Len(t) - Len(s) + i]
  BY <1>1
<1>3. IsSuffix(s, t)  BY <1>1, <1>2, SuffixByElement
<1> QED  BY <1>3 DEF s

LEMMA AppendSuffix ==
  ASSUME NEW S, NEW s \in Seq(S), NEW t \in Seq(S), NEW x \in S, IsSuffix(s, t)
  PROVE  IsSuffix(Append(s, x), Append(t, x))
<1> DEFINE m == Len(s)
           n == Len(t)
           v == Append(s, x)
           w == Append(t, x)
<1>1. m \in Nat /\ n \in Nat  BY LenProperties
<1>2. m <= n /\ \A i \in 1..m : s[i] = t[n - m + i]  BY SuffixByElement
<1>3. /\ v \in Seq(S) /\ Len(v) = m + 1 /\ v[m + 1] = x
      /\ \A i \in 1..m : v[i] = s[i]
  BY AppendProperties
<1>4. /\ w \in Seq(S) /\ Len(w) = n + 1 /\ w[n + 1] = x
      /\ \A i \in 1..n : w[i] = t[i]
  BY AppendProperties
<1> HIDE DEF m, n, v, w
<1>5. Len(v) <= Len(w)  BY <1>1, <1>2, <1>3, <1>4
<1>6. ASSUME NEW i \in 1..(m + 1) PROVE v[i] = w[(n + 1) - (m + 1) + i]
  <2>1. (n + 1) - (m + 1) + i = n - m + i  BY <1>1
  <2>2. CASE i = m + 1
    <3>1. n - m + i = n + 1  BY <1>1, <2>2
    <3> QED  BY <1>3, <1>4, <2>1, <2>2, <3>1
  <2>3. CASE i # m + 1
    <3>1. i \in 1..m /\ n - m + i \in 1..n  BY <1>1, <1>2, <2>3
    <3> QED  BY <1>2, <1>3, <1>4, <2>1, <3>1
  <2> QED  BY <2>2, <2>3
<1>7. \A i \in 1..Len(v) : v[i] = w[Len(w) - Len(v) + i]
  BY <1>3, <1>4, <1>6
<1> QED  BY <1>3, <1>4, <1>5, <1>7, SuffixByElement DEF v, w

LEMMA FrontOfAppend ==
  ASSUME NEW S, NEW s \in Seq(S), NEW x \in S
  PROVE  Front(Append(s, x)) = s /\ Last(Append(s, x)) = x /\ Append(s, x) # <<>>
<1> DEFINE n == Len(s)
           v == Append(s, x)
<1>1. /\ n \in Nat /\ v \in Seq(S) /\ Len(v) = n + 1 /\ v[n + 1] = x
      /\ \A i \in 1..n : v[i] = s[i] /\ s[i] \in S
      /\ v # <<>>
  BY AppendProperties, LenProperties, ElementOfSeq
<1> HIDE DEF n, v
<1>2. Last(v) = x  BY <1>1 DEF Last
<1>3. Front(v) = SubSeq(v, 1, n)
  <2>1. Len(v) - 1 = n  BY <1>1
  <2> QED  BY <2>1 DEF Front
<1>4. /\ SubSeq(v, 1, n) \in Seq(S)
      /\ Len(SubSeq(v, 1, n)) = IF 1 <= n THEN n - 1 + 1 ELSE 0
      /\ \A i \in 1..(n - 1 + 1) : SubSeq(v, 1, n)[i] = v[1 + i - 1]
  BY <1>1, SubSeqProperties
<1>5. n - 1 + 1 = n /\ Len(SubSeq(v, 1, n)) = n /\ \A i \in 1..n : 1 + i - 1 = i
  BY <1>1, <1>4
<1>6. \A i \in 1..n : SubSeq(v, 1, n)[i] = s[i]  BY <1>1, <1>4, <1>5
<1>7. SubSeq(v, 1, n) = s  BY <1>4, <1>5, <1>6, SeqEqual DEF n
<1> QED  BY <1>1, <1>2, <1>3, <1>7 DEF v

LEMMA AppendOfFront ==
  ASSUME NEW S, NEW s \in Seq(S), s # <<>>
  PROVE  /\ Front(s) \in Seq(S) /\ Last(s) \in S
         /\ s = Append(Front(s), Last(s))
<1>1. PICK t \in Seq(S), x \in S : s = Append(t, x)
  BY SequenceEmptyOrAppend
<1> QED  BY <1>1, FrontOfAppend
-----------------------------------------------------------------------------
(* The lines everybody is sent.                                            *)

(* Whom the broadcast under way has yet to come to: the client the         *)
(* iteration stands at and those after it.                                 *)
Stands == TheTable!IsNode(table, iter)
AtClient == TheTable!KeyAt(table, iter)
Ahead == TheTable!After(table, iter)
ToCome == IF Stands THEN {AtClient} \cup Ahead ELSE {}

Datagram == [from : Clients, n : Nat \ {0}]

Resting == line = NoLine /\ pc # "send" /\ iter = T!NoCtx

Repeating ==
  /\ line \in Datagram /\ pc \in {"send", "dead"}
  /\ begun # <<>> /\ Last(begun) = line
  /\ iter = T!EndCtx \/ (Stands /\ AtClient \notin Ahead)

(* Who is registered is in the table; each client was sent all up to the   *)
(* last line or, if that has yet to come to it, up to the one before.      *)
LinesInv ==
  /\ \A c \in Clients : said[c] \in Nat
  /\ inbox \subseteq Datagram
  /\ begun \in Seq(Datagram)
  /\ out \in [Clients -> Seq(Datagram)]
  /\ Registered = TheTable!From(table, 0)
  /\ Resting \/ Repeating
  /\ \A c \in Clients :
       /\ IF c \in ToCome THEN IsSuffix(out[c], Front(begun)) ELSE IsSuffix(out[c], begun)
       /\ c \notin Registered => out[c] = <<>>
       /\ c \in Registered \ ToCome => out[c] # <<>> /\ Last(out[c]) = Last(begun)

LEMMA SameIteration ==
  /\ T!EndCtx = TheTable!EndCtx /\ T!NoCtx = TheTable!NoCtx
  /\ \A t, b : T!FirstCtx(t, b) = TheTable!FirstCtx(t, b)
  /\ \A t, c : T!NextCtx(t, c) = TheTable!NextCtx(t, c)
<1>1. T!EndCtx = TheTable!EndCtx /\ T!NoCtx = TheTable!NoCtx
  BY DEF T!EndCtx, TheTable!EndCtx, T!NoCtx, TheTable!NoCtx, T!Ctx, TheTable!Ctx
<1>2. ASSUME NEW t, NEW b PROVE T!FirstCtx(t, b) = TheTable!FirstCtx(t, b)
  BY <1>1 DEF T!FirstCtx, TheTable!FirstCtx, T!NonEmptyFrom, TheTable!NonEmptyFrom,
              T!Buckets, TheTable!Buckets, T!Ctx, TheTable!Ctx
<1>3. ASSUME NEW t, NEW c PROVE T!NextCtx(t, c) = TheTable!NextCtx(t, c)
  BY <1>2 DEF T!NextCtx, TheTable!NextCtx, T!Ctx, TheTable!Ctx
<1> QED  BY <1>1, <1>2, <1>3

(* Neither mark of an iteration is a node.                                 *)
LEMMA MarksAreNoNodes ==
  ASSUME NEW t, NEW d, TheTable!IsNode(t, d)
  PROVE  d # T!EndCtx /\ d # T!NoCtx
         /\ TheTable!KeyAt(t, d) = t[d.bucket][d.node].key
BY DEF TheTable!IsNode, TheTable!KeyAt, TheTable!Buckets, TheTable!EndCtx, TheTable!NoCtx,
       TheTable!Ctx, T!EndCtx, T!NoCtx, T!Ctx

(* An iteration begins with everybody who is in the table.                 *)
LEMMA BeginsWithAll ==
  ASSUME table' \in [T!Buckets -> Seq(T!Node)], T!SoundTable(table'),
         iter' = T!FirstCtx(table', 0)
  PROVE  /\ iter' = T!EndCtx \/ (Stands' /\ AtClient' \notin Ahead')
         /\ ToCome' = TheTable!From(table', 0)
<1>1. table' \in TheTable!Table /\ TheTable!SoundTable(table')  BY SameTable
<1>2. iter' = TheTable!FirstCtx(table', 0)  BY SameIteration
<1>3. \/ iter' = TheTable!EndCtx /\ TheTable!From(table', 0) = {}
      \/ /\ Stands' /\ AtClient' \in TheTable!From(table', 0)
         /\ Ahead' = TheTable!From(table', 0) \ {AtClient'}
  BY <1>1, <1>2, TheTable!FirstSplits, RoomAssumption DEF Stands, AtClient, Ahead, Sockets
<1>4. Stands' => iter' # T!EndCtx  BY MarksAreNoNodes DEF Stands
<1> QED  BY <1>3, <1>4, SameIteration DEF ToCome

(* Each step of it leaves behind the client it stood at, and no other.     *)
LEMMA MovesPastOne ==
  ASSUME table' = table, table \in [T!Buckets -> Seq(T!Node)], T!SoundTable(table),
         Stands, AtClient \notin Ahead, iter' = T!NextCtx(table, iter)
  PROVE  /\ iter' = T!EndCtx \/ (Stands' /\ AtClient' \notin Ahead')
         /\ ToCome' = ToCome \ {AtClient}
<1>1. table \in TheTable!Table /\ TheTable!SoundTable(table)  BY SameTable
<1>2. iter' = TheTable!NextCtx(table, iter)  BY SameIteration
<1>3. \/ iter' = TheTable!EndCtx /\ Ahead = {}
      \/ /\ Stands' /\ AtClient' \in Ahead
         /\ Ahead' = Ahead \ {AtClient'}
  BY <1>1, <1>2, TheTable!NextSplits, RoomAssumption DEF Stands, AtClient, Ahead, Sockets
<1>4. Stands' => iter' # T!EndCtx  BY MarksAreNoNodes DEF Stands
<1> QED  BY <1>3, <1>4, SameIteration DEF ToCome

LEMMA InitLines == Init => LinesInv
<1> SUFFICES ASSUME Init PROVE LinesInv
  OBVIOUS
<1>1. /\ begun = <<>> /\ begun \in Seq(Datagram) /\ Len(begun) = 0
      /\ out = [c \in Clients |-> <<>>] /\ out \in [Clients -> Seq(Datagram)]
  BY EmptySeq DEF Init
<1>2. Registered = {} /\ TheTable!From(table, 0) = {}
  <2>1. Registered = {}  BY DEF Init, Registered
  <2>2. \A b \in TheTable!Buckets : table[b] = <<>>
    BY DEF Init, T!Buckets, TheTable!Buckets
  <2> QED  BY <2>1, <2>2 DEF TheTable!From
<1>3. Resting /\ ToCome = {}
  <2>1. Resting  BY DEF Init, Resting
  <2>2. ~Stands  BY <2>1, MarksAreNoNodes DEF Stands, Resting
  <2> QED  BY <2>1, <2>2 DEF ToCome
<1>4. \A c \in Clients : out[c] = <<>> /\ IsSuffix(out[c], begun)
  BY <1>1, EmptySuffix
<1> QED  BY <1>1, <1>2, <1>3, <1>4 DEF LinesInv, Init

(* Registering adds the client to the table and to nothing else.           *)
LEMMA RegistersOne ==
  ASSUME RoomInv, NEW c \in Clients, Registers(c),
         table' = T!PutIn(table, c, Len(sockets) + 1),
         sockets' = Append(sockets, c), lost' = lost,
         Registered = TheTable!From(table, 0)
  PROVE  Registered' = Registered \cup {c} /\ Registered' = TheTable!From(table', 0)
<1>1. sockets \in Seq(Clients) /\ Len(sockets) \in Nat  BY LenProperties DEF RoomInv
<1>2. Registered' = Registered \cup {c}  BY RegistrationKeeps
<1>3. table \in TheTable!Table /\ TheTable!SoundTable(table)  BY SameTable DEF RoomInv
<1>4. Len(sockets) + 1 \in Sockets /\ NULL \in Sockets
  BY <1>1, RoomAssumption DEF Registers, Sockets
<1>5. table' = TheTable!PutIn(table, c, Len(sockets) + 1)  BY SameTable
<1>6. table' \in TheTable!Table /\ TheTable!SoundTable(table')
  BY <1>3, <1>4, <1>5, TheTable!PutInSound, RoomAssumption
<1>7. DOMAIN TheTable!Contents(table') = DOMAIN TheTable!Contents(table) \cup {c}
  <2>1. TheTable!Contents(table') =
          TheTable!TheMap!With(TheTable!Contents(table), c, Len(sockets) + 1)
    BY <1>3, <1>4, <1>5, TheTable!PutContents, RoomAssumption
  <2> QED  BY <2>1 DEF TheTable!TheMap!With
<1>8. /\ DOMAIN TheTable!Contents(table) = TheTable!From(table, 0)
      /\ DOMAIN TheTable!Contents(table') = TheTable!From(table', 0)
  BY <1>3, <1>4, <1>6, TheTable!ContentsOf, RoomAssumption
<1> QED  BY <1>2, <1>7, <1>8
(* A step outside the broadcast changes none of what it depends on.        *)
LEMMA LinesUntouched ==
  ASSUME LinesInv, UNCHANGED <<roomVars, line, iter, begun, out>>,
         pc' = pc \/ (pc # "send" /\ pc' # "send" /\ (pc' = "dead" \/ line = NoLine))
           \/ (pc = "send" /\ pc' = "dead"),
         \A c \in Clients : said'[c] \in Nat, inbox' \subseteq Datagram
  PROVE  LinesInv'
<1> USE DEF roomVars
<1>1. Registered' = Registered  BY DEF Registered
<1>2. Stands' = Stands /\ AtClient' = AtClient /\ Ahead' = Ahead /\ ToCome' = ToCome
  BY DEF Stands, AtClient, Ahead, ToCome
<1>3. Resting' \/ Repeating'
  <2>1. CASE Resting  BY <2>1 DEF Resting
  <2>2. CASE Repeating
    <3>1. line # NoLine  BY <2>2 DEF Repeating, NoLine, Datagram
    <3> QED  BY <1>2, <2>2, <3>1 DEF Repeating
  <2> QED  BY <2>1, <2>2 DEF LinesInv
<1> QED  BY <1>1, <1>2, <1>3 DEF LinesInv

LEMMA LinesKept == RoomInv /\ LinesInv /\ [Next]_vars => LinesInv'
<1> SUFFICES ASSUME RoomInv, LinesInv, [Next]_vars PROVE LinesInv'
  OBVIOUS
<1>1. /\ (\A c \in Clients : said[c] \in Nat) /\ inbox \subseteq Datagram
      /\ begun \in Seq(Datagram) /\ out \in [Clients -> Seq(Datagram)]
      /\ Registered = TheTable!From(table, 0)
      /\ Resting \/ Repeating
      /\ table \in [T!Buckets -> Seq(T!Node)] /\ T!SoundTable(table)
  BY DEF LinesInv, RoomInv
<1>2. ASSUME NEW c \in Clients, ClientSays(c) \/ ClientLeaves(c) \/ ErrorArrives(c)
      PROVE  LinesInv'
  <2>1. UNCHANGED <<roomVars, line, iter, begun, out, pc>>
    BY <1>2 DEF ClientSays, ClientLeaves, ErrorArrives, histVars, netVars
  <2>2. (\A d \in Clients : said'[d] \in Nat) /\ inbox' \subseteq Datagram
    <3>1. CASE ClientSays(c)
      <4>1. [from |-> c, n |-> said[c] + 1] \in Datagram  BY <1>1 DEF Datagram
      <4>2. \A d \in Clients : said'[d] \in {said[d], said[d] + 1} 
        BY <3>1 DEF ClientSays
      <4> QED  BY <1>1, <3>1, <4>1, <4>2 DEF ClientSays
    <3>2. CASE ClientLeaves(c) \/ ErrorArrives(c)
      BY <1>1, <3>2 DEF ClientLeaves, ErrorArrives, netVars
    <3> QED  BY <1>2, <3>1, <3>2
  <2> QED  BY <2>1, <2>2, LinesUntouched
<1>3. CASE Select \/ ReceiveFails \/ Poll \/ Silence \/ UNCHANGED vars
  <2>1. /\ UNCHANGED <<roomVars, line, iter, begun, out, said>> /\ inbox' \subseteq inbox
        /\ pc' = pc \/ (/\ pc \in {"select", "receive", "poll"}
                        /\ pc' \in {"receive", "poll", "dead", "failed", "select"})
    BY <1>3 DEF Select, ReceiveFails, Poll, Silence, vars, histVars, netVars
  <2>2. pc \in {"select", "receive", "poll"} => line = NoLine
    BY <1>1 DEF Resting, Repeating
  <2> QED  BY <1>1, <2>1, <2>2, LinesUntouched
<1>4. CASE Receive
  <2>1. PICK d \in inbox :
          /\ inbox' = inbox \ {d} /\ line' = d /\ begun' = Append(begun, d)
          /\ \/ /\ Registers(d.from)
                /\ sockets' = Append(sockets, d.from)
                /\ \/ table' = T!PutIn(table, d.from, Len(sockets) + 1) /\ UNCHANGED lost
                   \/ lost' = lost \cup {Len(sockets) + 1} /\ UNCHANGED table
             \/ ~Registers(d.from) /\ UNCHANGED roomVars
    BY <1>4 DEF Receive
  <2>2. /\ pc = "receive" /\ pc' = "send" /\ iter' = T!FirstCtx(table', 0)
        /\ UNCHANGED <<said, out>> /\ d \in Datagram /\ d.from \in Clients
    BY <1>1, <1>4 DEF Receive, Datagram
  <2>3. ToCome = {}
    <3>1. Resting  BY <1>1, <2>2 DEF Repeating
    <3>2. ~Stands  BY <3>1, MarksAreNoNodes DEF Stands, Resting
    <3> QED  BY <3>2 DEF ToCome
  <2>4. /\ table' \in [T!Buckets -> Seq(T!Node)] /\ T!SoundTable(table')
        /\ Registered \subseteq Registered' /\ Registered' = TheTable!From(table', 0)
    <3>1. CASE /\ Registers(d.from) /\ lost' = lost
               /\ table' = T!PutIn(table, d.from, Len(sockets) + 1)
      BY <1>1, <2>1, <2>2, <3>1, RegistersOne, RegistrationKeeps DEF roomVars
    <3>2. CASE /\ Registers(d.from) /\ table' = table
               /\ lost' = lost \cup {Len(sockets) + 1}
      BY <1>1, <2>1, <2>2, <3>2, LossKeeps, RegistrationKeeps, RegistersOne DEF roomVars
    <3>3. CASE ~Registers(d.from)
      BY <1>1, <2>1, <3>3 DEF Registered, roomVars
    <3> QED  BY <2>1, <3>1, <3>2, <3>3
  <2>5. /\ iter' = T!EndCtx \/ (Stands' /\ AtClient' \notin Ahead')
        /\ ToCome' = Registered'
    BY <2>2, <2>4, BeginsWithAll
  <2>6. /\ begun' \in Seq(Datagram) /\ begun' # <<>>
        /\ Front(begun') = begun /\ Last(begun') = d
    BY <1>1, <2>1, <2>2, AppendProperties, FrontOfAppend
  <2>7. Repeating'  BY <2>1, <2>2, <2>5, <2>6 DEF Repeating
  <2>8. ASSUME NEW c \in Clients
        PROVE  /\ IF c \in ToCome' THEN IsSuffix(out'[c], Front(begun'))
                                   ELSE IsSuffix(out'[c], begun')
               /\ c \notin Registered' => out'[c] = <<>>
    <3>1. IsSuffix(out[c], begun) /\ (c \notin Registered => out[c] = <<>>)
      BY <2>3 DEF LinesInv
    <3>2. out[c] = <<>> => IsSuffix(out[c], begun')  BY <2>6, EmptySuffix
    <3> QED  BY <2>2, <2>4, <2>5, <2>6, <3>1, <3>2
  <2> QED  BY <1>1, <2>1, <2>2, <2>4, <2>5, <2>6, <2>7, <2>8 DEF LinesInv
<1>5. CASE Send
  <2>1. /\ pc = "send" /\ iter # T!EndCtx
        /\ UNCHANGED <<said, inbox, roomVars, line, begun>>
        /\ \/ pc' = "dead" /\ UNCHANGED <<iter, out>>
           \/ /\ out' = [out EXCEPT ![table[iter.bucket][iter.node].key] = Append(@, line)]
              /\ iter' = T!NextCtx(table, iter)
              /\ UNCHANGED pc
    BY <1>5 DEF Send
  <2>2. Repeating /\ Stands /\ AtClient \notin Ahead /\ line \in Datagram
        /\ begun # <<>> /\ Last(begun) = line
    BY <1>1, <2>1 DEF Resting, Repeating
  <2>3. CASE pc' = "dead" /\ UNCHANGED <<iter, out>>
    BY <1>1, <2>1, <2>3, LinesUntouched
  <2>4. CASE /\ out' = [out EXCEPT ![table[iter.bucket][iter.node].key] = Append(@, line)]
             /\ iter' = T!NextCtx(table, iter)
             /\ UNCHANGED pc
    <3>1. table[iter.bucket][iter.node].key = AtClient
      BY <2>2, MarksAreNoNodes DEF Stands, AtClient
    <3>2. AtClient \in Clients
      <4>1. iter.bucket \in TheTable!Buckets /\ iter.node \in DOMAIN table[iter.bucket]
        BY <2>2 DEF Stands, TheTable!IsNode
      <4>2. table \in TheTable!Table  BY <1>1, SameTable
      <4> QED  BY <3>1, <4>1, <4>2, TheTable!NodeKeys, RoomAssumption DEF Sockets
    <3>3. /\ iter' = T!EndCtx \/ (Stands' /\ AtClient' \notin Ahead')
          /\ ToCome' = ToCome \ {AtClient}
      BY <1>1, <2>1, <2>2, <2>4, MovesPastOne DEF roomVars
    <3>4. Repeating'  BY <2>1, <2>2, <2>4, <3>3 DEF Repeating
    <3>5. Registered' = Registered  BY <2>1 DEF Registered, roomVars
    <3>6. /\ out'[AtClient] = Append(out[AtClient], line)
          /\ \A c \in Clients \ {AtClient} : out'[c] = out[c]
          /\ out' \in [Clients -> Seq(Datagram)]
      <4>1. Append(out[AtClient], line) \in Seq(Datagram)
        BY <1>1, <2>2, <3>2, AppendProperties
      <4> QED  BY <1>1, <2>4, <3>1, <3>2, <4>1
    <3>7. /\ IsSuffix(out'[AtClient], begun)
          /\ out'[AtClient] # <<>> /\ Last(out'[AtClient]) = line
      <4>1. IsSuffix(out[AtClient], Front(begun))
        BY <2>2, <3>2 DEF LinesInv, ToCome
      <4>2. Front(begun) \in Seq(Datagram) /\ begun = Append(Front(begun), line)
        BY <1>1, <2>2, AppendOfFront
      <4>3. out[AtClient] \in Seq(Datagram)  BY <1>1, <3>2
      <4>4. IsSuffix(Append(out[AtClient], line), Append(Front(begun), line))
        BY <2>2, <4>1, <4>2, <4>3, AppendSuffix
      <4>5. IsSuffix(out'[AtClient], begun)  BY <3>6, <4>2, <4>4
      <4> QED  BY <2>2, <3>6, <4>3, <4>5, FrontOfAppend
    <3>8. AtClient \in Registered
      <4>1. iter.bucket \in TheTable!Buckets /\ iter.node \in DOMAIN table[iter.bucket]
        BY <2>2 DEF Stands, TheTable!IsNode
      <4>2. iter.bucket >= 0  BY <4>1 DEF TheTable!Buckets
      <4> QED  BY <1>1, <3>1, <3>2, <4>1, <4>2 DEF TheTable!From
    <3>9. ASSUME NEW c \in Clients
          PROVE  /\ IF c \in ToCome' THEN IsSuffix(out'[c], Front(begun'))
                                     ELSE IsSuffix(out'[c], begun')
                 /\ c \notin Registered' => out'[c] = <<>>
                 /\ c \in Registered' \ ToCome' => out'[c] # <<>> /\ Last(out'[c]) = Last(begun')
      <4>1. CASE c = AtClient
        BY <2>1, <2>2, <3>3, <3>5, <3>7, <3>8, <4>1
      <4>2. CASE c # AtClient
        <5>1. /\ IF c \in ToCome THEN IsSuffix(out[c], Front(begun))
                                 ELSE IsSuffix(out[c], begun)
              /\ c \notin Registered => out[c] = <<>>
              /\ c \in Registered \ ToCome => out[c] # <<>> /\ Last(out[c]) = Last(begun)
          BY DEF LinesInv
        <5> QED  BY <2>1, <3>3, <3>5, <3>6, <4>2, <5>1
      <4> QED  BY <4>1, <4>2
    <3> QED  BY <1>1, <2>1, <3>4, <3>5, <3>6, <3>9 DEF LinesInv, roomVars
  <2> QED  BY <2>1, <2>3, <2>4
<1>6. CASE EndOfBroadcast
  <2>1. /\ pc = "send" /\ pc' = "poll" /\ iter = T!EndCtx /\ iter' = T!NoCtx /\ line' = NoLine
        /\ UNCHANGED <<said, inbox, roomVars, begun, out>>
    BY <1>6 DEF EndOfBroadcast, netVars, histVars
  <2>2. ~Stands /\ ~Stands'  BY <2>1, MarksAreNoNodes DEF Stands, roomVars
  <2>3. ToCome = {} /\ ToCome' = {}  BY <2>2 DEF ToCome
  <2>4. Resting' /\ Registered' = Registered  BY <2>1 DEF Resting, Registered, roomVars
  <2> QED  BY <2>1, <2>3, <2>4 DEF LinesInv, roomVars
<1> QED  BY <1>2, <1>3, <1>4, <1>5, <1>6 DEF Next, Server

(* Everybody in the room is sent the same lines in the same order, however *)
(* many there are, whoever comes and goes and whatever is lost.            *)
THEOREM EverybodyHearsTheSame == Spec => []SameLinesSameOrder
<1>1. RoomInv /\ LinesInv => SameLinesSameOrder
  <2> SUFFICES ASSUME RoomInv, LinesInv PROVE SameLinesSameOrder
    OBVIOUS
  <2>1. ASSUME NEW c \in Clients
        PROVE  \/ IsSuffix(out[c], begun)
               \/ line # NoLine /\ IsSuffix(out[c], Front(begun))
    <3>1. CASE c \in ToCome
      <4>1. ~Resting  BY <3>1, MarksAreNoNodes DEF Resting, ToCome, Stands
      <4>2. line # NoLine  BY <4>1 DEF LinesInv, Repeating, Datagram, NoLine
      <4> QED  BY <3>1, <4>2 DEF LinesInv
    <3>2. CASE c \notin ToCome  BY <3>2 DEF LinesInv
    <3> QED  BY <3>1, <3>2
  <2>2. ASSUME pc \in {"poll", "select"}, NEW c \in Registered
        PROVE  out[c] # <<>> /\ Last(out[c]) = Last(begun)
    <3>1. Resting  BY <2>2 DEF LinesInv, Repeating
    <3>2. ToCome = {}  BY <3>1, MarksAreNoNodes DEF Resting, ToCome, Stands
    <3>3. c \in Clients  BY <2>2 DEF LinesInv, TheTable!From
    <3> QED  BY <3>2, <3>3 DEF LinesInv
  <2> QED  BY <2>1, <2>2 DEF SameLinesSameOrder
<1> QED  BY <1>1, InitRoom, InitLines, RoomKept, LinesKept, PTL DEF Spec
=============================================================================
