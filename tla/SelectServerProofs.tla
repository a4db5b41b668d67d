------------------------- MODULE SelectServerProofs -------------------------
(***************************************************************************)
(* Proofs about SelectServer: the set of descriptors and the kernel's      *)
(* table agree, for any number of connections, descriptors and lines.      *)
(***************************************************************************)
EXTENDS SelectServer, FiniteSetTheorems, WellFoundedInduction, TLAPS

(* The descriptor accept() returns and the one the worker serves are       *)
(* members of the sets they are taken from.                                *)
LEMMA MinOfFds ==
  ASSUME NEW S, S \subseteq Fds, S # {}
  PROVE  Min(S) \in S
<1> DEFINE R == OpToRel(<, Nat)
<1>1. S \subseteq Nat  BY SelectAssumption DEF Fds, FirstFd
<1>2. \A n, m \in Nat : n < m => <<n, m>> \in R  BY DEF OpToRel
<1>3. IsWellFoundedOn(R, Nat)  BY NatLessThanWellFounded
<1> HIDE DEF R
<1>4. PICK m \in S : \A n \in S : ~(<<n, m>> \in R)  BY <1>1, <1>3, WFMin
<1>5. \A n \in S : ~(n < m)  BY <1>1, <1>2, <1>4
<1>6. \A n \in S : m =< n  BY <1>1, <1>5
<1> QED  BY <1>6 DEF Min

LEMMA InitTrackInv == Init => TrackInv
BY DEF Init, TrackInv, DescriptorsOK, InHand, ServesMembers, WorkerHoldsMutex,
       EveryConnectionTracked

LEMMA MainAcceptKeeps ==
  ASSUME TrackInv, NEW c \in Conns, MainAccept(c) PROVE TrackInv'
<1> USE DEF TrackInv
<1> DEFINE free == {fd \in Fds : conn[fd] = 0}
           new == Min(free)
<1>1. new \in Fds /\ conn[new] = 0
  <2>1. free \subseteq Fds /\ free # {}  BY DEF MainAccept
  <2>2. new \in free  BY <2>1, MinOfFds
  <2> QED  BY <2>2
<1> HIDE DEF new
<1>2. /\ mpc = "accept" /\ mpc' = "insert" /\ mfd' = new
      /\ conn' = [conn EXCEPT ![new] = c]
      /\ UNCHANGED <<fds, wpc, todo>>
  BY DEF MainAccept, new, workerVars
<1>3. /\ conn'[new] = c /\ c # 0
      /\ \A fd \in Fds : fd # new => conn'[fd] = conn[fd]
  BY <1>1, <1>2 DEF DescriptorsOK, Conns
<1>4. new \in fds => wpc = "erase" /\ new = Min(todo)
  BY <1>1 DEF EveryConnectionTracked
<1>5. wpc = "erase" => Min(todo) \in Fds /\ conn[Min(todo)] = 0
  <2> SUFFICES ASSUME wpc = "erase" PROVE Min(todo) \in Fds /\ conn[Min(todo)] = 0
    OBVIOUS
  <2>1. Min(todo) \in Fds  BY MinOfFds DEF ServesMembers, DescriptorsOK
  <2> QED  BY <1>2, <2>1 DEF ServesMembers
<1>6. DescriptorsOK'  BY <1>1, <1>2 DEF DescriptorsOK
<1>7. InHand'  BY <1>1, <1>2, <1>3, <1>4 DEF InHand
<1>8. ServesMembers'
  BY <1>2, <1>3, <1>5 DEF ServesMembers, WorkerHoldsMutex
<1>9. EveryConnectionTracked'
  <2> SUFFICES ASSUME NEW fd \in Fds
               PROVE  /\ conn'[fd] # 0 => fd \in fds' \/ (mpc' = "insert" /\ mfd' = fd)
                      /\ fd \in fds' => conn'[fd] # 0 \/ (wpc' = "erase" /\ fd = Min(todo'))
    BY DEF EveryConnectionTracked
  <2>1. CASE fd = new  BY <1>2, <1>3, <2>1
  <2>2. CASE fd # new  BY <1>2, <1>3, <2>2 DEF EveryConnectionTracked
  <2> QED  BY <2>1, <2>2
<1> QED  BY <1>6, <1>7, <1>8, <1>9

(* The mutex keeps the insert out of the window of close and erase, so     *)
(* that what is inserted was not there.                                    *)
LEMMA MainInsertKeeps == ASSUME TrackInv, MainInsert PROVE TrackInv'
<1> USE DEF TrackInv
<1>1. /\ mpc = "insert" /\ mpc' = "accept" /\ wpc \notin {"serve", "close", "erase"}
      /\ fds' = fds \cup {mfd}
      /\ UNCHANGED <<wpc, todo, conn>>
  BY DEF MainInsert, WorkerHoldsMutex
<1>2. mfd \in Fds /\ conn[mfd] # 0  BY <1>1 DEF InHand
<1>3. DescriptorsOK' /\ InHand' /\ ServesMembers'
  BY <1>1, <1>2 DEF DescriptorsOK, InHand, ServesMembers, WorkerHoldsMutex
<1>4. EveryConnectionTracked'  BY <1>1, <1>2 DEF EveryConnectionTracked
<1> QED  BY <1>3, <1>4

LEMMA WorkerCloseKeeps == ASSUME TrackInv, WorkerClose PROVE TrackInv'
<1> USE DEF TrackInv
<1> DEFINE old == Min(todo)
<1>1. old \in fds /\ old \in Fds
  BY MinOfFds DEF WorkerClose, ServesMembers, DescriptorsOK, WorkerHoldsMutex
<1> HIDE DEF old
<1>2. /\ wpc = "close" /\ wpc' = "erase" /\ old = Min(todo) /\ old = Min(todo')
      /\ conn' = [conn EXCEPT ![old] = 0]
      /\ UNCHANGED <<fds, mpc, mfd, todo>>
  BY DEF WorkerClose, mainVars, old
<1>3. conn'[old] = 0 /\ \A fd \in Fds : fd # old => conn'[fd] = conn[fd]
  BY <1>1, <1>2 DEF DescriptorsOK
<1>4. DescriptorsOK'  BY <1>1, <1>2 DEF DescriptorsOK
<1>5. InHand'  BY <1>1, <1>2, <1>3 DEF InHand
<1>6. ServesMembers'  BY <1>2, <1>3 DEF ServesMembers, WorkerHoldsMutex
<1>7. EveryConnectionTracked'
  BY <1>1, <1>2, <1>3 DEF EveryConnectionTracked
<1> QED  BY <1>4, <1>5, <1>6, <1>7

LEMMA WorkerEraseKeeps == ASSUME TrackInv, WorkerErase PROVE TrackInv'
<1> USE DEF TrackInv
<1> DEFINE old == Min(todo)
<1>1. old \in fds /\ old \in Fds
  BY MinOfFds DEF WorkerErase, ServesMembers, DescriptorsOK, WorkerHoldsMutex
<1> HIDE DEF old
<1>2. /\ wpc = "erase" /\ wpc' = "serve" /\ old = Min(todo)
      /\ fds' = fds \ {old} /\ todo' = todo \ {old}
      /\ UNCHANGED <<mpc, mfd, conn>>
  BY DEF WorkerErase, mainVars, old
<1>3. DescriptorsOK'  BY <1>2 DEF DescriptorsOK
<1>4. InHand'  BY <1>2 DEF InHand
<1>5. ServesMembers'  BY <1>2 DEF ServesMembers, WorkerHoldsMutex
<1>6. EveryConnectionTracked'
  <2>1. conn[old] # 0 => mpc = "insert" /\ mfd = old  BY <1>2 DEF ServesMembers
  <2> QED  BY <1>2, <2>1 DEF EveryConnectionTracked
<1> QED  BY <1>3, <1>4, <1>5, <1>6

(* The other steps of the worker change no descriptor.                     *)
LEMMA WorkerWaitsKeeps ==
  ASSUME TrackInv,
         \/ WorkerStart \/ WorkerScan \/ WorkerSelect \/ WorkerReadStdin
         \/ WorkerLock \/ WorkerUnlock
  PROVE  TrackInv'
<1> USE DEF TrackInv
<1>1. /\ wpc # "erase" /\ wpc' \notin {"close", "erase"}
      /\ todo' = fds \/ (wpc' # "serve" /\ todo' = todo)
      /\ UNCHANGED <<fds, mpc, mfd, conn>>
  BY DEF WorkerStart, WorkerScan, WorkerSelect, WorkerReadStdin, WorkerLock,
         WorkerUnlock, mainVars
<1>2. DescriptorsOK'  BY <1>1 DEF DescriptorsOK
<1>3. InHand' /\ ServesMembers'
  BY <1>1 DEF InHand, ServesMembers, WorkerHoldsMutex
<1>4. EveryConnectionTracked'  BY <1>1 DEF EveryConnectionTracked
<1> QED  BY <1>2, <1>3, <1>4

LEMMA WorkerServeKeeps == ASSUME TrackInv, WorkerServe PROVE TrackInv'
<1> USE DEF TrackInv
<1>1. /\ wpc = "serve" /\ todo # {} /\ UNCHANGED <<fds, mpc, mfd, conn>>
      /\ \/ wpc' = "close" /\ todo' = todo
         \/ wpc' = "serve" /\ todo' = todo \ {Min(todo)}
  BY DEF WorkerServe, mainVars
<1>2. DescriptorsOK'  BY <1>1 DEF DescriptorsOK
<1>3. InHand' /\ ServesMembers'
  BY <1>1 DEF InHand, ServesMembers, WorkerHoldsMutex
<1>4. EveryConnectionTracked'  BY <1>1 DEF EveryConnectionTracked
<1> QED  BY <1>2, <1>3, <1>4

-----------------------------------------------------------------------------
(* The mutex keeps TrackInv true whoever is scheduled.                     *)
THEOREM TrackInvariance == Spec => []TrackInv
<1>1. TrackInv /\ [Next]_vars => TrackInv'
  <2> SUFFICES ASSUME TrackInv, [Next]_vars PROVE TrackInv'
    OBVIOUS
  <2>1. ASSUME UNCHANGED <<fds, mpc, mfd, wpc, todo, conn>> PROVE TrackInv'
    BY <2>1 DEF TrackInv, DescriptorsOK, InHand, ServesMembers,
                WorkerHoldsMutex, EveryConnectionTracked
  <2>2. CASE UNCHANGED vars \/ Idle \/ \E c \in Conns : PeerLeaves(c) \/ PeerReads(c)
    BY <2>1, <2>2 DEF vars, mainVars, workerVars, Idle, PeerLeaves, PeerReads
  <2>3. CASE \E c \in Conns : MainAccept(c)  BY <2>3, MainAcceptKeeps
  <2>4. CASE MainInsert  BY <2>4, MainInsertKeeps
  <2>5. CASE Worker
    BY <2>5, WorkerWaitsKeeps, WorkerServeKeeps, WorkerCloseKeeps, WorkerEraseKeeps
       DEF Worker
  <2> QED  BY <2>2, <2>3, <2>4, <2>5 DEF Next
<1> QED  BY <1>1, InitTrackInv, PTL DEF Spec

(* An open connection is in the set or in the main thread's hands, and the *)
(* set holds no closed one but between its close and its erase: whatever   *)
(* numbers the kernel gives out again, and whenever.                       *)
THEOREM SetMatchesKernel == Spec => []EveryConnectionTracked
<1>1. TrackInv => EveryConnectionTracked  BY DEF TrackInv
<1> QED  BY <1>1, TrackInvariance, PTL

-----------------------------------------------------------------------------
(* What the loop over the descriptors computes.  There is no induction     *)
(* here: the least number at which a statement fails serves as well.       *)
LEMMA LeastCounterexample ==
  ASSUME NEW Bad, Bad \subseteq Nat, Bad # {}
  PROVE  \E n \in Bad : \A k \in Nat : k < n => k \notin Bad
<1> DEFINE R == OpToRel(<, Nat)
<1>1. \A k, n \in Nat : k < n => <<k, n>> \in R  BY DEF OpToRel
<1>2. IsWellFoundedOn(R, Nat)  BY NatLessThanWellFounded
<1> HIDE DEF R
<1>3. PICK n \in Bad : \A k \in Bad : ~(<<k, n>> \in R)  BY <1>2, WFMin
<1> QED  BY <1>1, <1>3

(* One turn of the loop, and the values of maxfd up to a descriptor.       *)
Turn(S, m, fd) == IF fd \in S /\ fd > m THEN fd + 1 ELSE m
Walk(S, n, g) ==
  g \in [0..n -> Nat] /\ g[0] = 0 /\ \A k \in 1..n : g[k] = Turn(S, g[k - 1], k)

LEMMA WalkExists == ASSUME NEW S PROVE \A n \in Nat : \E g : Walk(S, n, g)
<1> DEFINE Bad == {n \in Nat : ~(\E g : Walk(S, n, g))}
<1> SUFFICES ASSUME Bad # {} PROVE FALSE
  OBVIOUS
<1>1. PICK n \in Bad : \A k \in Nat : k < n => k \notin Bad
  <2> HIDE DEF Bad
  <2>1. Bad \subseteq Nat  BY DEF Bad
  <2> QED  BY <2>1, LeastCounterexample
<1>2. n # 0
  <2>1. Walk(S, 0, [k \in 0..0 |-> 0])  BY DEF Walk
  <2> QED  BY <2>1, <1>1
<1>3. n \in Nat /\ n - 1 \in Nat /\ n - 1 \notin Bad  BY <1>1, <1>2
<1>4. PICK g : Walk(S, n - 1, g)  BY <1>3
<1> DEFINE h == [k \in 0..n |-> IF k = n THEN Turn(S, g[n - 1], n) ELSE g[k]]
<1>5. Walk(S, n, h)
  <2>1. g[n - 1] \in Nat  BY <1>3, <1>4 DEF Walk
  <2>2. Turn(S, g[n - 1], n) \in Nat  BY <1>3, <2>1 DEF Turn
  <2>3. h \in [0..n -> Nat]  BY <1>3, <1>4, <2>2 DEF Walk
  <2>4. h[0] = 0  BY <1>2, <1>3, <1>4 DEF Walk
  <2>5. ASSUME NEW k \in 1..n PROVE h[k] = Turn(S, h[k - 1], k)
    <3>1. h[k - 1] = g[k - 1]  BY <1>3
    <3>2. CASE k = n  BY <1>3, <3>1, <3>2
    <3>3. CASE k # n
      <4>1. k \in 1..(n - 1) /\ h[k] = g[k]  BY <1>3, <3>3
      <4> QED  BY <1>4, <3>1, <4>1 DEF Walk
    <3> QED  BY <3>2, <3>3
  <2> HIDE DEF h
  <2> QED  BY <2>3, <2>4, <2>5 DEF Walk
<1> QED  BY <1>1, <1>5

LEMMA WalkUnique ==
  ASSUME NEW S, NEW n \in Nat, NEW p \in Nat, NEW g, NEW h,
         Walk(S, n, g), Walk(S, p, h)
  PROVE  \A k \in Nat : k <= n /\ k <= p => g[k] = h[k]
<1> DEFINE Bad == {k \in Nat : k <= n /\ k <= p /\ g[k] # h[k]}
<1> SUFFICES ASSUME Bad # {} PROVE FALSE
  OBVIOUS
<1>1. PICK k \in Bad : \A j \in Nat : j < k => j \notin Bad
  <2> HIDE DEF Bad
  <2>1. Bad \subseteq Nat  BY DEF Bad
  <2> QED  BY <2>1, LeastCounterexample
<1>2. k # 0  BY <1>1 DEF Walk
<1>3. k \in Nat /\ k - 1 \in Nat /\ k \in 1..n /\ k \in 1..p /\ k - 1 \notin Bad
  BY <1>1, <1>2
<1>4. g[k - 1] = h[k - 1]  BY <1>3
<1>5. g[k] = Turn(S, g[k - 1], k) /\ h[k] = Turn(S, h[k - 1], k)
  BY <1>3 DEF Walk
<1> QED  BY <1>1, <1>4, <1>5

(* maxfd is what the loop makes it, turn by turn.                          *)
LEMMA MaxfdTurns ==
  ASSUME NEW S
  PROVE  /\ \A n \in Nat : MaxfdAt(S)[n] \in Nat
         /\ MaxfdAt(S)[0] = 0
         /\ \A n \in Nat : n # 0 => MaxfdAt(S)[n] = Turn(S, MaxfdAt(S)[n - 1], n)
<1> DEFINE W(n) == CHOOSE g : Walk(S, n, g)
           F == [n \in Nat |-> W(n)[n]]
           Turned(f) == [n \in Nat |-> IF n = 0 THEN 0 ELSE Turn(S, f[n - 1], n)]
<1>1. \A n \in Nat : Walk(S, n, W(n))  BY WalkExists
<1> HIDE DEF W
<1>2. F[0] = 0  BY <1>1 DEF Walk
<1>3. ASSUME NEW n \in Nat, n # 0 PROVE F[n] = Turn(S, F[n - 1], n)
  <2>1. n - 1 \in Nat /\ n \in 1..n /\ n - 1 <= n /\ n - 1 <= n - 1  BY <1>3
  <2>2. W(n)[n] = Turn(S, W(n)[n - 1], n)  BY <1>1, <2>1 DEF Walk
  <2>3. Walk(S, n, W(n)) /\ Walk(S, n - 1, W(n - 1))  BY <1>1, <2>1
  <2>4. W(n)[n - 1] = W(n - 1)[n - 1]  BY <2>1, <2>3, WalkUnique
  <2> QED  BY <2>1, <2>2, <2>4
<1>4. F = Turned(F)
  <2>1. \A n \in Nat : F[n] = Turned(F)[n]  BY <1>2, <1>3
  <2> QED  BY <2>1
<1> HIDE DEF F
<1>5. MaxfdAt(S) = CHOOSE f : f = Turned(f)
  BY DEF MaxfdAt, Turn
<1>6. MaxfdAt(S) = Turned(MaxfdAt(S))
  BY <1>4, <1>5
<1> DEFINE m == MaxfdAt(S)
<1> HIDE DEF m
<1>7. m[0] = 0 /\ \A n \in Nat : n # 0 => m[n] = Turn(S, m[n - 1], n)
  BY <1>6 DEF m
<1>8. \A n \in Nat : m[n] \in Nat
  <2> DEFINE Bad == {n \in Nat : m[n] \notin Nat}
  <2> SUFFICES ASSUME Bad # {} PROVE FALSE
    OBVIOUS
  <2>1. PICK n \in Bad : \A k \in Nat : k < n => k \notin Bad
    <3> HIDE DEF Bad
    <3>1. Bad \subseteq Nat  BY DEF Bad
    <3> QED  BY <3>1, LeastCounterexample
  <2>2. n # 0  BY <1>7, <2>1
  <2>3. n - 1 \in Nat /\ m[n - 1] \in Nat  BY <2>1, <2>2
  <2> QED  BY <1>7, <2>1, <2>2, <2>3 DEF Turn
<1> QED  BY <1>7, <1>8 DEF m

LEMMA MaxfdGrows ==
  ASSUME NEW S, NEW a \in Nat, NEW b \in Nat, a <= b
  PROVE  MaxfdAt(S)[a] <= MaxfdAt(S)[b]
<1> DEFINE m == MaxfdAt(S)
           Bad == {n \in Nat : a <= n /\ ~(m[a] <= m[n])}
<1>1. /\ \A n \in Nat : m[n] \in Nat
      /\ \A n \in Nat : n # 0 => m[n] = Turn(S, m[n - 1], n)
  BY MaxfdTurns
<1> HIDE DEF m
<1> SUFFICES ASSUME Bad # {} PROVE FALSE
  BY DEF m
<1>2. PICK n \in Bad : \A k \in Nat : k < n => k \notin Bad
  <2> HIDE DEF Bad
  <2>1. Bad \subseteq Nat  BY DEF Bad
  <2> QED  BY <2>1, LeastCounterexample
<1>3. n # a /\ n \in Nat /\ a <= n  BY <1>1, <1>2
<1>4. n # 0 /\ n - 1 \in Nat /\ a <= n - 1 /\ m[a] <= m[n - 1]  BY <1>2, <1>3
<1>5. m[n - 1] <= m[n]  BY <1>1, <1>3, <1>4 DEF Turn
<1> QED  BY <1>1, <1>2, <1>3, <1>4, <1>5

(* maxfd is at most one more than a descriptor that was seen.              *)
LEMMA MaxfdSeen ==
  ASSUME NEW S, NEW n \in Nat
  PROVE  LET m == MaxfdAt(S) IN m[n] = 0 \/ (m[n] - 1 \in S /\ m[n] <= n + 1)
<1> DEFINE m == MaxfdAt(S)
           Bad == {k \in Nat : ~(m[k] = 0 \/ (m[k] - 1 \in S /\ m[k] <= k + 1))}
<1>1. /\ m[0] = 0 /\ \A k \in Nat : m[k] \in Nat
      /\ \A k \in Nat : k # 0 => m[k] = Turn(S, m[k - 1], k)
  BY MaxfdTurns
<1> HIDE DEF m
<1> SUFFICES ASSUME Bad # {} PROVE FALSE
  BY DEF m
<1>2. PICK k \in Bad : \A j \in Nat : j < k => j \notin Bad
  <2> HIDE DEF Bad
  <2>1. Bad \subseteq Nat  BY DEF Bad
  <2> QED  BY <2>1, LeastCounterexample
<1>3. k \in Nat /\ k # 0 /\ k - 1 \in Nat  BY <1>1, <1>2
<1>4. m[k - 1] = 0 \/ (m[k - 1] - 1 \in S /\ m[k - 1] <= k - 1 + 1)  BY <1>2, <1>3
<1>5. CASE k \in S /\ k > m[k - 1]
  <2>1. m[k] = k + 1 /\ m[k] - 1 = k  BY <1>1, <1>3, <1>5 DEF Turn
  <2> QED  BY <1>2, <1>3, <1>5, <2>1
<1>6. CASE ~(k \in S /\ k > m[k - 1])
  <2>1. m[k] = m[k - 1]  BY <1>1, <1>3, <1>6 DEF Turn
  <2> QED  BY <1>1, <1>2, <1>3, <1>4, <2>1
<1> QED  BY <1>5, <1>6

(* A descriptor of the set that maxfd was raised past, or else its         *)
(* predecessor is in the set and maxfd ended on it.                        *)
LEMMA MaxfdAtMember ==
  ASSUME NEW S, NEW d \in S, d \in Nat, d # 0
  PROVE  MaxfdAt(S)[d] = d + 1 \/ (MaxfdAt(S)[d] = d /\ d - 1 \in S)
<1> DEFINE m == MaxfdAt(S)
<1>1. d - 1 \in Nat /\ m[d - 1] \in Nat /\ m[d] = Turn(S, m[d - 1], d)
  BY MaxfdTurns
<1>2. m[d - 1] = 0 \/ (m[d - 1] - 1 \in S /\ m[d - 1] <= d - 1 + 1)
  BY <1>1, MaxfdSeen
<1> HIDE DEF m
<1>3. CASE d > m[d - 1]  BY <1>1, <1>3 DEF Turn, m
<1>4. CASE ~(d > m[d - 1])
  <2>1. m[d - 1] = d /\ m[d] = d  BY <1>1, <1>2, <1>4 DEF Turn
  <2> QED  BY <1>2, <2>1 DEF m
<1> QED  BY <1>3, <1>4

(* What nfds leaves out is the highest descriptor, after its predecessor.  *)
LEMMA OnlyTheLastIsMissed ==
  ASSUME NEW S, S \subseteq Fds, NEW d \in S, d \notin Polled(S)
  PROVE  d = Max(S) /\ d - 1 \in S
<1> DEFINE m == MaxfdAt(S)
<1>1. /\ LastFd \in Nat /\ S \subseteq Nat
      /\ \A e \in S : e \in Nat /\ e # 0 /\ e <= LastFd
  BY SelectAssumption DEF Fds, FirstFd, LastFd
<1>2. ~(d < m[LastFd])  BY DEF Polled, Nfds
<1>3. \A e \in S : /\ m[e] \in Nat /\ m[LastFd] \in Nat /\ m[e] <= m[LastFd]
                   /\ m[e] = e + 1 \/ (m[e] = e /\ e - 1 \in S)
  <2> TAKE e \in S
  <2>1. m[e] \in Nat /\ m[LastFd] \in Nat  BY <1>1, MaxfdTurns
  <2>2. m[e] <= m[LastFd]  BY <1>1, MaxfdGrows
  <2>3. m[e] = e + 1 \/ (m[e] = e /\ e - 1 \in S)  BY <1>1, MaxfdAtMember
  <2> QED  BY <2>1, <2>2, <2>3
<1> HIDE DEF m
<1>4. \A e \in S : d >= e  BY <1>1, <1>2, <1>3
<1>5. d - 1 \in S  BY <1>1, <1>2, <1>3
<1>6. Max(S) = d
  <2>1. \A x \in S : (\A y \in S : x >= y) => x = d  BY <1>1, <1>4
  <2> QED  BY <1>4, <2>1 DEF Max
<1> QED  BY <1>5, <1>6

-----------------------------------------------------------------------------
(* The lines.                                                              *)

LEMMA InitLinesInv == Init => LinesInv
BY SelectAssumption DEF Init, LinesInv, SendsAccountedFor, Msgs

(* What select() reports of stdin is a line that was not read yet.         *)
LEMMA WorkerSelectKeepsLines ==
  ASSUME TrackInv, LinesInv, WorkerSelect PROVE LinesInv'
<1>1. 0 \notin Polled(watched)
  BY SelectAssumption DEF LinesInv, Polled, Fds, FirstFd, LastFd
<1>2. watched' = {} /\ UNCHANGED <<typed, queue, count, sent>>
  BY DEF WorkerSelect, msgVars
<1>3. 0 \in setrd' => typed < MaxMsgs
  BY <1>1 DEF WorkerSelect
<1> QED  BY <1>2, <1>3 DEF LinesInv, SendsAccountedFor

LEMMA WorkerReadStdinKeepsLines ==
  ASSUME TrackInv, LinesInv, WorkerReadStdin PROVE LinesInv'
<1> DEFINE n == Cardinality(fds)
           t == typed + 1
<1>1. n \in Nat
  <2>1. IsFiniteSet(Fds)
    BY SelectAssumption, FS_Interval DEF Fds, FirstFd, LastFd
  <2>2. IsFiniteSet(fds)  BY <2>1, FS_Subset DEF TrackInv, DescriptorsOK
  <2> QED  BY <2>2, FS_CardinalityType
<1> HIDE DEF n
<1>2. wpc = "stdin" /\ wpc' = "lock" /\ UNCHANGED <<watched, setrd, sent>>
  BY DEF WorkerReadStdin
<1>3. CASE 0 \in setrd
  <2>1. /\ typed' = t /\ count' = [count EXCEPT ![t] = n]
        /\ queue' = [m \in DOMAIN queue \cup {t} |-> IF m = t THEN n ELSE queue[m]]
    BY <1>3 DEF WorkerReadStdin, n
  <2>2. /\ t \in Msgs /\ t \in 1..MaxMsgs /\ t \notin 1..typed /\ sent[t] = 0
        /\ 1..t = 1..typed \cup {t} /\ t \notin DOMAIN queue
    BY <1>2, <1>3, SelectAssumption DEF LinesInv, Msgs
  <2> HIDE DEF t
  <2>3. count' \in [Msgs -> Nat]  BY <1>1, <2>1 DEF LinesInv
  <2>4. DOMAIN queue' \subseteq 1..t /\ \A m \in DOMAIN queue' : queue'[m] \in Nat
    BY <1>1, <2>1, <2>2 DEF LinesInv
  <2>5. ASSUME NEW m \in 1..t
        PROVE  sent[m] + (IF m \in DOMAIN queue' THEN queue'[m] ELSE 0) = count'[m]
    <3>1. CASE m = t
      <4>1. m \in DOMAIN queue' /\ queue'[m] = n  BY <2>1, <3>1
      <4>2. count'[m] = n  BY <2>1, <2>2, <3>1 DEF LinesInv
      <4> QED  BY <1>1, <2>2, <3>1, <4>1, <4>2
    <3>2. CASE m # t
      <4>1. m \in 1..typed  BY <2>2, <3>2
      <4>2. /\ m \in DOMAIN queue' <=> m \in DOMAIN queue
            /\ m \in DOMAIN queue => queue'[m] = queue[m]
        BY <2>1, <3>2
      <4>3. count'[m] = count[m]  BY <2>1, <3>2 DEF LinesInv
      <4> QED  BY <4>1, <4>2, <4>3 DEF LinesInv, SendsAccountedFor
    <3> QED  BY <3>1, <3>2
  <2>6. t \in 0..MaxMsgs  BY <2>2, SelectAssumption
  <2> QED  BY <1>2, <2>1, <2>2, <2>3, <2>4, <2>5, <2>6 DEF LinesInv, SendsAccountedFor
<1>4. CASE 0 \notin setrd
  BY <1>2, <1>4 DEF WorkerReadStdin, LinesInv, SendsAccountedFor
<1> QED  BY <1>3, <1>4

(* Each send is counted, and only what is still due is sent.               *)
LEMMA WorkerServeKeepsLines ==
  ASSUME TrackInv, LinesInv, WorkerServe PROVE LinesInv'
<1>1. PICK now \in SUBSET DOMAIN queue :
        /\ SentTo(Min(todo), now)
        /\ queue' = [m \in DOMAIN queue |-> IF m \in now THEN queue[m] - 1 ELSE queue[m]]
        /\ sent' = [m \in Msgs |-> IF m \in now THEN sent[m] + 1 ELSE sent[m]]
  BY DEF WorkerServe
<1>2. \A m \in now : m \in DOMAIN queue /\ queue[m] > 0  BY <1>1 DEF SentTo
<1>3. wpc' # "stdin" /\ UNCHANGED <<watched, setrd, typed, count>>
  BY DEF WorkerServe
<1>4. DOMAIN queue' = DOMAIN queue /\ \A m \in DOMAIN queue' : queue'[m] \in Nat
  BY <1>1, <1>2 DEF LinesInv
<1>5. sent' \in [Msgs -> Nat]  BY <1>1 DEF LinesInv
<1>6. 1..typed \subseteq Msgs  BY SelectAssumption DEF LinesInv, Msgs
<1>7. \A m \in Msgs \ (1..typed) : sent'[m] = 0  BY <1>1, <1>2 DEF LinesInv
<1>8. SendsAccountedFor'
  <2> SUFFICES ASSUME NEW m \in 1..typed
               PROVE  sent'[m] + (IF m \in DOMAIN queue' THEN queue'[m] ELSE 0) = count[m]
    BY <1>3 DEF SendsAccountedFor
  <2>1. /\ sent[m] \in Nat /\ m \in Msgs
        /\ sent[m] + (IF m \in DOMAIN queue THEN queue[m] ELSE 0) = count[m]
    BY <1>6 DEF LinesInv, SendsAccountedFor
  <2>2. CASE m \in now
    <3>1. m \in DOMAIN queue /\ queue[m] \in Nat  BY <1>2, <2>2 DEF LinesInv
    <3>2. sent'[m] = sent[m] + 1 /\ queue'[m] = queue[m] - 1  BY <1>1, <2>1, <2>2, <3>1
    <3> QED  BY <1>4, <2>1, <3>1, <3>2
  <2>3. CASE m \notin now
    <3>1. sent'[m] = sent[m] /\ (m \in DOMAIN queue => queue'[m] = queue[m])
      BY <1>1, <2>1, <2>3
    <3> QED  BY <1>4, <2>1, <3>1
  <2> QED  BY <2>2, <2>3
<1> QED  BY <1>3, <1>4, <1>5, <1>7, <1>8 DEF LinesInv

(* Nothing is dropped that was not sent as often as it was to be.          *)
LEMMA WorkerUnlockKeepsLines ==
  ASSUME TrackInv, LinesInv, WorkerUnlock PROVE LinesInv'
<1>1. /\ wpc' = "top" /\ UNCHANGED <<watched, typed, count, sent>>
      /\ queue' = [m \in {k \in DOMAIN queue : queue[k] > 0} |-> queue[m]]
  BY DEF WorkerUnlock
<1>2. \A m \in DOMAIN queue : IF queue[m] > 0 THEN m \in DOMAIN queue' /\ queue'[m] = queue[m]
                                             ELSE m \notin DOMAIN queue' /\ queue[m] = 0
  BY <1>1 DEF LinesInv
<1>3. DOMAIN queue' \subseteq DOMAIN queue  BY <1>1
<1>4. SendsAccountedFor'
  <2> SUFFICES ASSUME NEW m \in 1..typed
               PROVE  sent[m] + (IF m \in DOMAIN queue' THEN queue'[m] ELSE 0) = count[m]
    BY <1>1 DEF SendsAccountedFor
  <2>1. sent[m] + (IF m \in DOMAIN queue THEN queue[m] ELSE 0) = count[m]
    BY DEF LinesInv, SendsAccountedFor
  <2> QED  BY <1>2, <1>3, <2>1
<1> QED  BY <1>1, <1>2, <1>3, <1>4 DEF LinesInv

LEMMA OtherStepsKeepLines ==
  ASSUME TrackInv, LinesInv,
         \/ MainInsert \/ WorkerStart \/ WorkerScan \/ WorkerLock
         \/ WorkerClose \/ WorkerErase \/ Idle \/ UNCHANGED vars
         \/ \E c \in Conns : MainAccept(c) \/ PeerLeaves(c) \/ PeerReads(c)
  PROVE  LinesInv'
<1>1. /\ watched' = watched \/ watched' \subseteq fds
      /\ wpc' = "stdin" => wpc = "stdin"
      /\ UNCHANGED <<setrd, typed, queue, count, sent>>
  BY DEF MainInsert, WorkerStart, WorkerScan, WorkerLock, WorkerClose, WorkerErase,
         Idle, MainAccept, PeerLeaves, PeerReads, vars, mainVars, workerVars, msgVars
<1>2. watched' \subseteq Fds  BY <1>1 DEF TrackInv, DescriptorsOK, LinesInv
<1> QED  BY <1>1, <1>2 DEF LinesInv, SendsAccountedFor

THEOREM LinesInvariance == Spec => []LinesInv
<1>1. TrackInv /\ LinesInv /\ [Next]_vars => LinesInv'
  BY WorkerSelectKeepsLines, WorkerReadStdinKeepsLines, WorkerServeKeepsLines,
     WorkerUnlockKeepsLines, OtherStepsKeepLines DEF Next, Worker
<1> QED  BY <1>1, InitLinesInv, TrackInvariance, PTL DEF Spec

(* Each line goes out as often as there were clients when it was read, and *)
(* until it has it stays in the queue.                                     *)
THEOREM LinesAccountedFor == Spec => []SendsAccountedFor
<1>1. LinesInv => SendsAccountedFor  BY DEF LinesInv
<1> QED  BY <1>1, LinesInvariance, PTL

(* Whatever the descriptors, the loop leaves out one at most: the highest, *)
(* when the one before it is in the set.                                   *)
THEOREM OnlyTheLastIsBlind == Spec => []BlindSpotIsLast
<1>1. LinesInv => BlindSpotIsLast
  <2> SUFFICES ASSUME LinesInv, NEW fd \in watched \ Polled(watched)
               PROVE  fd = Max(watched) /\ fd - 1 \in watched
    BY DEF BlindSpotIsLast
  <2> QED  BY OnlyTheLastIsMissed DEF LinesInv
<1> QED  BY <1>1, LinesInvariance, PTL
=============================================================================
