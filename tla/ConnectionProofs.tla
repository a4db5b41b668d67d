-------------------------- MODULE ConnectionProofs --------------------------
(***************************************************************************)
(* Proofs about the two servers that give each connection a thread or a    *)
(* process of its own.                                                     *)
(* ThreadServer: as long as no thread missed its slot, every thread works  *)
(* on its own connection and answers whom it heard, and a connection       *)
(* without a thread is that of one that missed its slot or could not be    *)
(* created, for any number of connections, descriptors, messages, lines.   *)
(* ProcessServer: who holds which connection, for any number of callers,   *)
(* any number of descriptors and all failures of fork().                   *)
(***************************************************************************)
EXTENDS ThreadServer, ProcessServer, FiniteSetTheorems, WellFoundedInduction, TLAPS

-----------------------------------------------------------------------------
(* ThreadServer.                                                           *)

(* A set of naturals that is not empty has a lowest element. *)
LEMMA LowestOfNaturals ==
  ASSUME NEW S, S \subseteq Nat, S # {}
  PROVE  Lowest(S) \in S /\ \A n \in S : Lowest(S) <= n
<1> DEFINE R == OpToRel(<, Nat)
<1>1. \A n, m \in Nat : n < m => <<n, m>> \in R  BY DEF OpToRel
<1>2. IsWellFoundedOn(R, Nat)  BY NatLessThanWellFounded
<1> HIDE DEF R
<1>3. PICK m \in S : \A n \in S : ~(<<n, m>> \in R)  BY <1>2, WFMin
<1>4. \A n \in S : ~(n < m)  BY <1>1, <1>3
<1>5. \A n \in S : m <= n  BY <1>4
<1> QED  BY <1>5 DEF Lowest

(* The descriptor accept() returns is free.                                *)
LEMMA LowestIsFree ==
  ASSUME Free # {} PROVE Lowest(Free) \in Fds /\ conn[Lowest(Free)] = None
<1>1. Free \subseteq Nat  BY ThreadAssumption DEF Free, Fds
<1>2. Lowest(Free) \in Free  BY <1>1, LowestOfNaturals
<1> QED  BY <1>2 DEF Free

LEMMA InitThreadInv == Init => ThreadInv
<1> SUFFICES ASSUME Init PROVE ThreadInv
  OBVIOUS
<1>1. TypeOK  BY ThreadAssumption DEF Init, TypeOK, Threads
<1>2. ThreadForEach  BY DEF Init, ThreadForEach, Threads
<1>3. NoRaceYet  BY DEF Init, NoRaceYet, KeepsToItsOwn, Live, Threads
<1> QED  BY <1>1, <1>2, <1>3 DEF ThreadInv

-----------------------------------------------------------------------------
(* One lemma for each kind of step.                                        *)

LEMMA ClientKeeps ==
  ASSUME ThreadInv, NEW c \in Conns, ClientSays(c) \/ ClientLeaves(c)
  PROVE  ThreadInv'
<1> USE DEF ThreadInv
<1>1. UNCHANGED <<mpc, slot, conn, tpc, sock, on, heard, typed, histVars>>
  BY DEF ClientSays, ClientLeaves
<1>2. \A d \in Conns : peer'[d] = "absent" <=> peer[d] = "absent"
  BY DEF ClientSays, ClientLeaves, TypeOK
<1>3. TypeOK'
  <2>1. CASE ClientSays(c)
    <3>1. said[c] + 1 \in 0..MaxSaid
      BY <2>1, ThreadAssumption DEF ClientSays, TypeOK
    <3> QED  BY <2>1, <3>1 DEF ClientSays, TypeOK, histVars
  <2>2. CASE ClientLeaves(c)  BY <2>2 DEF ClientLeaves, TypeOK, histVars
  <2> QED  BY <2>1, <2>2
<1>4. ThreadForEach'  BY <1>1, <1>2 DEF ThreadForEach, Threads, histVars
<1>5. NoRaceYet'  BY <1>1 DEF NoRaceYet, KeepsToItsOwn, Live, histVars
<1> QED  BY <1>3, <1>4, <1>5

LEMMA MainAcceptKeeps ==
  ASSUME ThreadInv, NEW c \in Conns, MainAccept(c) PROVE ThreadInv'
<1> USE DEF ThreadInv
<1> DEFINE fd == Lowest(Free)
<1>1. fd \in Fds /\ conn[fd] = None  BY LowestIsFree DEF MainAccept
<1> HIDE DEF fd
<1>2. /\ mpc = "accept" /\ mpc' = "create"
      /\ peer[c] = "absent" /\ \A d \in 1..(c - 1) : peer[d] # "absent"
      /\ slot' = fd
      /\ conn' = [conn EXCEPT ![fd] = c]
      /\ peer' = [peer EXCEPT ![c] = "connected"]
      /\ missed' = missed \cup Unstarted
      /\ UNCHANGED <<said, unread, tpc, sock, on, heard, typed, mixups>>
  BY DEF MainAccept, fd
<1>3. conn'[fd] = c /\ \A g \in Fds : g # fd => conn'[g] = conn[g]
  BY <1>1, <1>2 DEF TypeOK
<1>4. TypeOK'
  BY <1>1, <1>2 DEF TypeOK, Unstarted
<1>5. ThreadForEach'
  <2>1. \A t \in Threads : tpc[t] = "none" <=> peer[t] = "absent"
    BY <1>2 DEF ThreadForEach
  <2>2. c \in Threads /\ tpc'[c] = "none" /\ peer'[c] # "absent"
    BY <1>2, <2>1 DEF Threads, TypeOK
  <2>3. \A t \in Threads \ {c} : tpc'[t] = "none" <=> peer'[t] = "absent"
    BY <1>2, <2>1 DEF Threads, TypeOK
  <2>4. ASSUME NEW t \in Threads, tpc'[t] = "none" PROVE c <= t
    <3>1. peer[t] = "absent"  BY <1>2, <2>1, <2>4
    <3>2. t \notin 1..(c - 1)  BY <1>2, <3>1
    <3> QED  BY <3>2, ThreadAssumption DEF Threads, Conns
  <2> QED  BY <1>1, <1>2, <1>3, <2>2, <2>3, <2>4 DEF ThreadForEach
<1>6. NoRaceYet'
  <2> SUFFICES ASSUME missed' = {}
               PROVE  mixups' = {} /\ \A t \in Threads : KeepsToItsOwn(t)'
    BY DEF NoRaceYet
  <2>1. missed = {} /\ Unstarted = {}  BY <1>2
  <2>2. ASSUME NEW t \in Threads PROVE KeepsToItsOwn(t)'
    <3>1. KeepsToItsOwn(t) /\ tpc[t] # "start"
      BY <2>1 DEF NoRaceYet, Unstarted
    <3>2. Live(t)' => sock'[t] \in Fds /\ conn'[sock'[t]] = t
      <4> SUFFICES ASSUME Live(t)' PROVE sock[t] \in Fds /\ conn'[sock[t]] = t
        BY <1>2
      <4>1. Live(t)  BY <1>2 DEF Live
      <4>2. sock[t] \in Fds /\ conn[sock[t]] = t  BY <3>1, <4>1 DEF KeepsToItsOwn
      <4>3. t # None  BY DEF Threads, Conns, None
      <4> QED  BY <1>1, <1>3, <4>2, <4>3
    <3> QED  BY <1>2, <3>1, <3>2 DEF KeepsToItsOwn
  <2> QED  BY <1>2, <2>1, <2>2 DEF NoRaceYet
<1> QED  BY <1>4, <1>5, <1>6

LEMMA MainAcceptFailsKeeps ==
  ASSUME ThreadInv, MainAcceptFails PROVE ThreadInv'
<1> USE DEF ThreadInv, MainAcceptFails
<1>1. TypeOK'  BY DEF TypeOK, Unstarted, clientVars
<1>2. ThreadForEach'  BY DEF ThreadForEach, clientVars
<1>3. NoRaceYet'
  <2> SUFFICES ASSUME missed' = {}, NEW t \in Threads
               PROVE  mixups' = {} /\ KeepsToItsOwn(t)'
    BY DEF NoRaceYet
  <2>1. missed = {} /\ tpc[t] # "start"  BY DEF Unstarted
  <2>2. mixups = {} /\ KeepsToItsOwn(t)  BY <2>1 DEF NoRaceYet
  <2> QED  BY <2>1, <2>2 DEF KeepsToItsOwn, Live
<1> QED  BY <1>1, <1>2, <1>3

LEMMA MainCreateKeeps ==
  ASSUME ThreadInv, MainCreate \/ MainCreateFails PROVE ThreadInv'
<1> USE DEF ThreadInv
<1> DEFINE Fresh == {u \in Threads : tpc[u] = "none"}
<1>1. mpc = "create" /\ mpc' = "accept"  BY DEF MainCreate, MainCreateFails
<1>2. PICK n \in Threads :
        /\ tpc[n] = "none" /\ peer[n] # "absent"
        /\ slot \in Fds /\ (missed = {} => conn[slot] = n)
        /\ \A t \in Threads \ {n} : tpc[t] = "none" <=> peer[t] = "absent"
        /\ \A t \in Threads : tpc[t] = "none" => n <= t
  BY <1>1 DEF ThreadForEach
<1>3. Lowest(Fresh) = n
  <2>1. Fresh \subseteq Nat /\ n \in Fresh
    BY <1>2, ThreadAssumption DEF Threads, Conns
  <2>2. Lowest(Fresh) \in Fresh /\ Lowest(Fresh) <= n
    BY <2>1, LowestOfNaturals
  <2>3. n <= Lowest(Fresh)  BY <1>2, <2>2
  <2> QED  BY <2>1, <2>2, <2>3
<1>4. /\ \/ tpc' = [tpc EXCEPT ![n] = "start"]
         \/ tpc' = [tpc EXCEPT ![n] = "failed"]
      /\ UNCHANGED <<slot, conn, peer, said, unread, sock, on, heard, typed, mixups, missed>>
  BY <1>3 DEF MainCreate, MainCreateFails, clientVars, histVars
<1>5. /\ tpc'[n] \in {"start", "failed"}
      /\ \A t \in Threads : t # n => tpc'[t] = tpc[t]
  BY <1>2, <1>4 DEF TypeOK
<1>6. TypeOK'
  <2>1. on[n] = None  BY <1>2 DEF TypeOK
  <2>2. \A t \in Threads : tpc'[t] = "blocked" <=> on'[t] # None
    BY <1>4, <1>5, <2>1 DEF TypeOK
  <2> QED  BY <1>1, <1>4, <2>2 DEF TypeOK
<1>7. ThreadForEach'  BY <1>1, <1>2, <1>4, <1>5 DEF ThreadForEach
<1>8. NoRaceYet'
  <2> SUFFICES ASSUME missed = {}, NEW t \in Threads
               PROVE  mixups = {} /\ KeepsToItsOwn(t)'
    BY <1>4 DEF NoRaceYet
  <2>1. mixups = {} /\ KeepsToItsOwn(t)  BY DEF NoRaceYet
  <2>2. CASE t = n
    BY <1>1, <1>2, <1>4, <1>5, <2>1, <2>2 DEF KeepsToItsOwn, Live
  <2>3. CASE t # n
    BY <1>1, <1>4, <1>5, <2>1, <2>3 DEF KeepsToItsOwn, Live
  <2> QED  BY <2>1, <2>2, <2>3
<1> QED  BY <1>6, <1>7, <1>8

LEMMA MainDetachFaultsKeeps ==
  ASSUME ThreadInv, MainDetachFaults PROVE ThreadInv'
<1> USE DEF ThreadInv
<1>1. /\ mpc' = "dead" /\ \A t \in Threads : tpc'[t] \in {"none", "done"} /\ on'[t] = None
      /\ UNCHANGED <<mixups, missed>>
  BY DEF MainDetachFaults, histVars
<1>2. TypeOK'  BY <1>1 DEF MainDetachFaults, TypeOK, clientVars, histVars
<1>3. ThreadForEach'  BY <1>1 DEF ThreadForEach
<1>4. NoRaceYet'  BY <1>1 DEF NoRaceYet, KeepsToItsOwn, Live
<1> QED  BY <1>2, <1>3, <1>4

(* A step of thread t changes its own control point; what another thread   *)
(* has is only ever touched through a descriptor they share.               *)
LEMMA ThreadKeepsForEach ==
  ASSUME ThreadInv, NEW t \in Threads, tpc[t] # "none", tpc'[t] # "none",
         \A u \in Threads : u # t => tpc'[u] = tpc[u],
         UNCHANGED <<mpc, slot, peer, missed>>,
         missed = {} /\ mpc = "create" /\ slot \in Fds =>
           \A n \in Threads : n # t /\ conn[slot] = n => conn'[slot] = n
  PROVE  ThreadForEach'
<1>1. \A u \in Threads : tpc'[u] = "none" <=> tpc[u] = "none"  OBVIOUS
<1>2. CASE mpc = "accept"  BY <1>1, <1>2 DEF ThreadInv, ThreadForEach
<1>3. CASE mpc = "create"
  <2>1. PICK n \in Threads :
          /\ tpc[n] = "none" /\ peer[n] # "absent"
          /\ slot \in Fds /\ (missed = {} => conn[slot] = n)
          /\ \A u \in Threads \ {n} : tpc[u] = "none" <=> peer[u] = "absent"
          /\ \A u \in Threads : tpc[u] = "none" => n <= u
    BY <1>3 DEF ThreadInv, ThreadForEach
  <2>2. n # t  BY <2>1
  <2>3. missed = {} => conn'[slot] = n  BY <1>3, <2>1, <2>2
  <2>4. tpc'[n] = "none"  BY <1>1, <2>1
  <2>5. \A u \in Threads \ {n} : tpc'[u] = "none" <=> peer'[u] = "absent"
    BY <1>1, <2>1
  <2>6. \A u \in Threads : tpc'[u] = "none" => n <= u  BY <1>1, <2>1
  <2> QED  BY <1>3, <2>1, <2>3, <2>4, <2>5, <2>6 DEF ThreadForEach
<1>4. CASE mpc = "dead"  BY <1>4 DEF ThreadForEach
<1> QED  BY <1>2, <1>3, <1>4 DEF ThreadInv, TypeOK

LEMMA ThreadStartKeeps ==
  ASSUME ThreadInv, NEW t \in Threads, ThreadStart(t) PROVE ThreadInv'
<1> USE DEF ThreadInv
<1>1. /\ tpc[t] = "start" /\ tpc'[t] = "recv" /\ sock'[t] = slot
      /\ \A u \in Threads : u # t => tpc'[u] = tpc[u] /\ sock'[u] = sock[u]
      /\ UNCHANGED <<mpc, slot, conn, peer, said, unread, on, heard, typed, mixups, missed>>
  BY DEF ThreadStart, TypeOK, clientVars, histVars
<1>2. TypeOK'
  <2>1. \A u \in Threads : tpc'[u] = "blocked" <=> on'[u] # None
    BY <1>1 DEF TypeOK
  <2> QED  BY <1>1, <2>1 DEF TypeOK, ThreadStart
<1>3. ThreadForEach'  BY <1>1, ThreadKeepsForEach
<1>4. NoRaceYet'
  <2> SUFFICES ASSUME missed = {}, NEW u \in Threads
               PROVE  mixups = {} /\ KeepsToItsOwn(u)'
    BY <1>1 DEF NoRaceYet
  <2>1. mixups = {} /\ KeepsToItsOwn(u)  BY DEF NoRaceYet
  <2>2. CASE u = t  BY <1>1, <2>1, <2>2 DEF KeepsToItsOwn, Live
  <2>3. CASE u # t  BY <1>1, <2>1, <2>3 DEF KeepsToItsOwn, Live
  <2> QED  BY <2>1, <2>2, <2>3
<1> QED  BY <1>2, <1>3, <1>4

(* The steps of a running thread that leave all descriptors alone.         *)
LEMMA ThreadRunsKeeps ==
  ASSUME ThreadInv, NEW t \in Threads,
         \/ ThreadCallRecv(t) \/ ThreadRecv(t) \/ ThreadLock(t)
         \/ ThreadReadLine(t) \/ ThreadSend(t)
  PROVE  ThreadInv'
<1> USE DEF ThreadInv
<1>1. /\ Live(t) /\ Live(t)'
      /\ \A u \in Threads : u # t => /\ tpc'[u] = tpc[u] /\ on'[u] = on[u]
                                     /\ heard'[u] = heard[u]
      /\ UNCHANGED <<mpc, slot, conn, peer, said, sock, missed>>
  BY DEF ThreadCallRecv, ThreadRecv, ThreadLock, ThreadReadLine, ThreadSend,
         Live, TypeOK, clientVars, histVars
<1>2. on[t] \in Conns \/ tpc[t] # "blocked"  BY DEF TypeOK
<1>3. ConnOf(sock[t]) \in Conns \cup {None}
  BY DEF TypeOK, ConnOf, NoFd, None
<1>4. TypeOK'
  <2>1. CASE ThreadCallRecv(t)  BY <1>3, <2>1 DEF ThreadCallRecv, TypeOK, clientVars, histVars
  <2>2. CASE ThreadRecv(t)  BY <1>2, <2>2 DEF ThreadRecv, TypeOK, clientVars, histVars
  <2>3. CASE ThreadLock(t)  BY <2>3 DEF ThreadLock, TypeOK, clientVars, histVars
  <2>4. CASE ThreadReadLine(t)
    <3>1. typed' \in 0..MaxLines
      BY <2>4, ThreadAssumption DEF ThreadReadLine, TypeOK
    <3> QED  BY <2>4, <3>1 DEF ThreadReadLine, TypeOK, clientVars, histVars
  <2>5. CASE ThreadSend(t)
    <3>1. mixups' \subseteq Conns \X Conns
      <4>1. CASE mixups' = mixups  BY <4>1 DEF TypeOK
      <4>2. CASE /\ ConnOf(sock[t]) # None
                 /\ mixups' = mixups \cup ({<<heard[t], ConnOf(sock[t])>>}
                                 \ {<<ConnOf(sock[t]), ConnOf(sock[t])>>})
        <5>1. heard[t] \in Conns  BY <2>5 DEF ThreadSend, TypeOK
        <5> QED  BY <1>3, <4>2, <5>1 DEF TypeOK
      <4> QED  BY <2>5, <4>1, <4>2 DEF ThreadSend
    <3> QED  BY <2>5, <3>1 DEF ThreadSend, TypeOK, clientVars, histVars
  <2> QED  BY <2>1, <2>2, <2>3, <2>4, <2>5
<1>5. ThreadForEach'  BY <1>1, ThreadKeepsForEach DEF Live
<1>6. NoRaceYet'
  <2> SUFFICES ASSUME missed = {}
               PROVE  mixups' = {} /\ \A u \in Threads : KeepsToItsOwn(u)'
    BY <1>1 DEF NoRaceYet
  <2>1. mixups = {} /\ \A u \in Threads : KeepsToItsOwn(u)  BY DEF NoRaceYet
  <2>2. sock[t] \in Fds /\ ConnOf(sock[t]) = t /\ t # None
    BY <1>1, <2>1, ThreadAssumption DEF KeepsToItsOwn, ConnOf, Fds, NoFd, None, Threads, Conns
  <2>3. KeepsToItsOwn(t)'
    <3>1. on'[t] \in {None, t}
      BY <2>1, <2>2 DEF ThreadCallRecv, ThreadRecv, ThreadLock, ThreadReadLine,
                        ThreadSend, KeepsToItsOwn, TypeOK
    <3>2. tpc'[t] \in {"lock", "stdin", "send"} => heard'[t] = t
      <4>1. tpc[t] = "blocked" => on[t] = t
        BY <1>2, <2>1 DEF KeepsToItsOwn, TypeOK
      <4> QED
        BY <2>1, <4>1 DEF ThreadCallRecv, ThreadRecv, ThreadLock, ThreadReadLine,
                          ThreadSend, KeepsToItsOwn, TypeOK
    <3> QED  BY <1>1, <2>1, <3>1, <3>2 DEF KeepsToItsOwn, Live
  <2>4. \A u \in Threads \ {t} : KeepsToItsOwn(u)'
    BY <1>1, <2>1 DEF KeepsToItsOwn, Live
  <2>5. mixups' = {}
    <3>1. CASE ThreadSend(t)
      <4>1. heard[t] = t  BY <2>1, <3>1 DEF ThreadSend, KeepsToItsOwn
      <4> QED  BY <2>1, <2>2, <3>1, <4>1 DEF ThreadSend, histVars
    <3>2. CASE ~ThreadSend(t)
      BY <2>1, <3>2 DEF ThreadCallRecv, ThreadRecv, ThreadLock, ThreadReadLine, histVars
    <3> QED  BY <3>1, <3>2
  <2> QED  BY <2>3, <2>4, <2>5
<1> QED  BY <1>4, <1>5, <1>6

(* A thread that closes what is its own takes it from nobody.              *)
LEMMA ThreadCloseKeeps ==
  ASSUME ThreadInv, NEW t \in Threads, ThreadClose(t) PROVE ThreadInv'
<1> USE DEF ThreadInv
<1>1. /\ Live(t) /\ tpc[t] # "none" /\ tpc[t] # "start" /\ tpc'[t] = "done"
      /\ \A u \in Threads : u # t => tpc'[u] = tpc[u]
      /\ conn' = [fd \in Fds |-> IF fd = sock[t] THEN None ELSE conn[fd]]
      /\ UNCHANGED <<mpc, slot, peer, said, unread, sock, on, heard, typed, mixups, missed>>
  BY DEF ThreadClose, Live, TypeOK, clientVars, histVars
<1>2. TypeOK'  BY <1>1 DEF ThreadClose, TypeOK
<1>3. ASSUME missed = {}, NEW fd \in Fds, NEW u \in Threads, u # t, conn[fd] = u
      PROVE  conn'[fd] = u
  <2>1. sock[t] \in Fds /\ conn[sock[t]] = t
    BY <1>1, <1>3 DEF NoRaceYet, KeepsToItsOwn
  <2> QED  BY <1>1, <1>3, <2>1
<1>4. ThreadForEach'  BY <1>1, <1>3, ThreadKeepsForEach
<1>5. NoRaceYet'
  <2> SUFFICES ASSUME missed = {}, NEW u \in Threads
               PROVE  mixups = {} /\ KeepsToItsOwn(u)'
    BY <1>1 DEF NoRaceYet
  <2>1. mixups = {} /\ KeepsToItsOwn(u)  BY DEF NoRaceYet
  <2>2. CASE u = t  BY <1>1, <2>1, <2>2 DEF KeepsToItsOwn, Live
  <2>3. CASE u # t  BY <1>1, <1>3, <2>1, <2>3 DEF KeepsToItsOwn, Live
  <2> QED  BY <2>1, <2>2, <2>3
<1> QED  BY <1>2, <1>4, <1>5

-----------------------------------------------------------------------------
(* The inductive invariant: every accepted connection has its thread or    *)
(* one that could not be created, and each thread has the connection it    *)
(* was created for, as long as none has missed its slot.                               *)
THEOREM ThreadInvariance == Spec => []ThreadInv
<1>1. ThreadInv /\ [Next]_vars => ThreadInv'
  <2> SUFFICES ASSUME ThreadInv, [Next]_vars PROVE ThreadInv'
    OBVIOUS
  <2>1. ASSUME UNCHANGED vars PROVE ThreadInv'
    BY <2>1 DEF vars, clientVars, histVars, ThreadInv, TypeOK, ThreadForEach,
                NoRaceYet, KeepsToItsOwn, Live
  <2>2. CASE \E c \in Conns : ClientSays(c) \/ ClientLeaves(c)
    BY <2>2, ClientKeeps
  <2>3. CASE \E c \in Conns : MainAccept(c)  BY <2>3, MainAcceptKeeps
  <2>4. CASE MainAcceptFails \/ MainCreate \/ MainCreateFails \/ MainDetachFaults
    BY <2>4, MainAcceptFailsKeeps, MainCreateKeeps, MainDetachFaultsKeeps
  <2>5. CASE \E t \in Threads : Thread(t)
    BY <2>5, ThreadStartKeeps, ThreadRunsKeeps, ThreadCloseKeeps DEF Thread
  <2>6. CASE Idle  BY <2>1, <2>6 DEF Idle
  <2> QED  BY <2>1, <2>2, <2>3, <2>4, <2>5, <2>6 DEF Next
<1> QED  BY <1>1, InitThreadInv, PTL DEF Spec

(* Unless a thread read its slot too late, no descriptor number that is    *)
(* used again confuses anybody: a running thread has its own connection    *)
(* and answers the client it heard.                                        *)
THEOREM OnlyTheRaceMixes == Spec => []NoRaceNoMixup
<1>1. ThreadInv => NoRaceNoMixup
  <2> SUFFICES ASSUME ThreadInv, missed = {}, NEW t \in Threads
               PROVE  /\ Live(t) => ConnOf(sock[t]) = t
                      /\ on[t] \in {None, t}
                      /\ mixups = {}
    BY DEF NoRaceNoMixup, ThreadInv, NoRaceYet
  <2>1. mixups = {} /\ KeepsToItsOwn(t)  BY DEF ThreadInv, NoRaceYet
  <2>2. \A fd \in Fds : fd # NoFd  BY ThreadAssumption DEF Fds, NoFd
  <2> QED  BY <2>1, <2>2 DEF KeepsToItsOwn, ConnOf
<1> QED  BY <1>1, ThreadInvariance, PTL

-----------------------------------------------------------------------------
(* Connections without a thread.                                           *)

(* Who has an open connection: its own thread, which is going to read or   *)
(* has read its descriptor, unless that missed it or could not be created. *)
(* The connection whose thread is about to be created is open in the slot  *)
(* only.                                                                   *)
Owned ==
  /\ \A fd \in Fds : conn[fd] # None => peer[conn[fd]] # "absent"
  /\ \A n \in Threads : \A fd \in Fds :
       tpc[n] = "none" /\ conn[fd] = n => mpc = "create" /\ fd = slot
  /\ \A t \in Threads \ missed : \A fd \in Fds :
       conn[fd] = t /\ tpc[t] # "none" =>
         \/ tpc[t] = "failed"
         \/ tpc[t] = "start" /\ slot = fd
         \/ Live(t) /\ sock[t] = fd

LEMMA InitOwned == Init => Owned
BY DEF Init, Owned, None, Threads, Conns

LEMMA MainOwned ==
  ASSUME ThreadInv, Owned,
         \/ \E c \in Conns : MainAccept(c)
         \/ MainAcceptFails \/ MainCreate \/ MainCreateFails \/ MainDetachFaults
  PROVE  Owned'
<1> USE DEF Owned
<1>0. None \notin Threads  BY DEF None, Threads, Conns
<1>1. CASE \E c \in Conns : MainAccept(c)
  <2>1. PICK c \in Conns : MainAccept(c)  BY <1>1
  <2> DEFINE fd == Lowest(Free)
  <2>2. fd \in Fds /\ conn[fd] = None  BY <2>1, LowestIsFree DEF MainAccept
  <2> HIDE DEF fd
  <2>3. /\ mpc = "accept" /\ mpc' = "create" /\ peer[c] = "absent"
        /\ slot' = fd /\ conn' = [conn EXCEPT ![fd] = c]
        /\ peer' = [peer EXCEPT ![c] = "connected"]
        /\ missed' = missed \cup Unstarted
        /\ UNCHANGED <<tpc, sock>>
    BY <2>1 DEF MainAccept, fd
  <2>4. conn'[fd] = c /\ \A g \in Fds : g # fd => conn'[g] = conn[g]
    BY <2>2, <2>3 DEF ThreadInv, TypeOK
  <2>5. \A t \in Threads : tpc[t] = "none" <=> peer[t] = "absent"
    BY <2>3 DEF ThreadInv, ThreadForEach
  <2>6. c \in Threads /\ tpc[c] = "none" /\ c # None
    BY <1>0, <2>3, <2>5 DEF Threads
  <2>7. \A g \in Fds : conn[g] # c  BY <2>3, <2>6
  <2>8. \A g \in Fds : conn'[g] # None => peer'[conn'[g]] # "absent"
    BY <2>3, <2>4 DEF ThreadInv, TypeOK
  <2>9. ASSUME NEW n \in Threads, NEW g \in Fds, tpc'[n] = "none", conn'[g] = n
        PROVE  mpc' = "create" /\ g = slot'
    <3>1. n # c => g # fd  BY <2>4, <2>9
    <3>2. conn[g] # n  BY <2>3, <2>9
    <3> QED  BY <2>3, <2>4, <2>9, <3>2
  <2>10. ASSUME NEW t \in Threads \ missed', NEW g \in Fds, conn'[g] = t, tpc'[t] # "none"
         PROVE  tpc'[t] = "failed" \/ (Live(t)' /\ sock'[t] = g)
    <3>1. t # c /\ tpc[t] # "start" /\ t \notin missed
      BY <2>3, <2>6, <2>10 DEF Unstarted
    <3>2. conn[g] = t  BY <2>4, <2>10, <3>1
    <3>3. tpc[t] = "failed" \/ (Live(t) /\ sock[t] = g)  BY <2>3, <2>10, <3>1, <3>2
    <3> QED  BY <2>3, <3>3 DEF Live
  <2> QED  BY <2>8, <2>9, <2>10
<1>2. CASE MainAcceptFails
  <2>1. /\ mpc = "accept" /\ UNCHANGED <<mpc, conn, peer, tpc, sock>>
        /\ missed' = missed \cup Unstarted
    BY <1>2 DEF MainAcceptFails, clientVars
  <2>2. \A t \in Threads \ missed' : tpc[t] # "start" /\ t \notin missed
    BY <2>1 DEF Unstarted
  <2> QED  BY <2>1, <2>2 DEF Live
<1>3. CASE MainCreate \/ MainCreateFails
  <2> DEFINE Fresh == {u \in Threads : tpc[u] = "none"}
  <2>1. mpc = "create" /\ mpc' = "accept"  BY <1>3 DEF MainCreate, MainCreateFails
  <2>2. PICK n \in Threads :
          /\ tpc[n] = "none"
          /\ \A t \in Threads \ {n} : tpc[t] = "none" <=> peer[t] = "absent"
          /\ \A t \in Threads : tpc[t] = "none" => n <= t
    BY <2>1 DEF ThreadInv, ThreadForEach
  <2>3. Lowest(Fresh) = n
    <3>1. Fresh \subseteq Nat /\ n \in Fresh
      BY <2>2, ThreadAssumption DEF Threads, Conns
    <3>2. Lowest(Fresh) \in Fresh /\ Lowest(Fresh) <= n
      BY <3>1, LowestOfNaturals
    <3>3. n <= Lowest(Fresh)  BY <2>2, <3>2
    <3> QED  BY <3>1, <3>2, <3>3
  <2>4. /\ \/ tpc' = [tpc EXCEPT ![n] = "start"]
           \/ tpc' = [tpc EXCEPT ![n] = "failed"]
        /\ UNCHANGED <<slot, conn, peer, sock, missed>>
    BY <1>3, <2>3 DEF MainCreate, MainCreateFails, clientVars, histVars
  <2>5. tpc'[n] \in {"start", "failed"} /\ \A t \in Threads : t # n => tpc'[t] = tpc[t]
    BY <2>2, <2>4 DEF ThreadInv, TypeOK
  <2>6. ASSUME NEW m \in Threads, NEW g \in Fds, tpc'[m] = "none"
        PROVE  conn[g] # m
    <3>1. m # n /\ tpc[m] = "none"  BY <2>5, <2>6
    <3>2. peer[m] = "absent" /\ m # None  BY <1>0, <2>2, <3>1
    <3> QED  BY <3>2
  <2>7. ASSUME NEW t \in Threads \ missed, NEW g \in Fds, conn[g] = t, tpc'[t] # "none"
        PROVE  \/ tpc'[t] = "failed"
               \/ tpc'[t] = "start" /\ slot = g
               \/ Live(t)' /\ sock[t] = g
    <3>1. CASE t = n  BY <2>2, <2>5, <2>7, <3>1
    <3>2. CASE t # n  BY <2>4, <2>5, <2>7, <3>2 DEF Live
    <3> QED  BY <3>1, <3>2
  <2> QED  BY <2>4, <2>6, <2>7
<1>4. CASE MainDetachFaults
  BY <1>0, <1>4 DEF MainDetachFaults
<1> QED  BY <1>1, <1>2, <1>3, <1>4

LEMMA ThreadOwned ==
  ASSUME ThreadInv, Owned, NEW t \in Threads, Thread(t)
  PROVE  Owned'
<1> USE DEF Owned
<1>1. /\ \A u \in Threads : u # t => tpc'[u] = tpc[u] /\ sock'[u] = sock[u]
      /\ tpc[t] \notin {"none", "failed"} /\ tpc'[t] \notin {"none", "start"}
      /\ UNCHANGED <<mpc, slot, peer, missed>>
  BY DEF Thread, ThreadStart, ThreadCallRecv, ThreadRecv, ThreadLock, ThreadReadLine,
         ThreadSend, ThreadClose, ThreadInv, TypeOK, clientVars, histVars
<1>2. CASE ThreadClose(t)
  <2>1. conn' = [fd \in Fds |-> IF fd = sock[t] THEN None ELSE conn[fd]]
    BY <1>2 DEF ThreadClose
  <2>2. \A fd \in Fds : conn'[fd] # None => conn'[fd] = conn[fd] /\ fd # sock[t]
    BY <2>1
  <2>3. \A u \in Threads : u # None  BY DEF None, Threads, Conns
  <2>4. tpc[t] = "close" /\ Live(t)  BY <1>2 DEF ThreadClose, Live
  <2>5. ASSUME NEW u \in Threads \ missed, NEW g \in Fds, conn'[g] = u, tpc'[u] # "none"
        PROVE  \/ tpc'[u] = "failed"
               \/ tpc'[u] = "start" /\ slot = g
               \/ Live(u)' /\ sock'[u] = g
    <3>1. conn[g] = u /\ g # sock[t]  BY <2>2, <2>3, <2>5
    <3>2. u # t  BY <2>4, <3>1
    <3> QED  BY <1>1, <2>5, <3>1, <3>2 DEF Live
  <2>6. \A fd \in Fds : conn'[fd] # None => peer'[conn'[fd]] # "absent"
    BY <1>1, <2>2
  <2>7. ASSUME NEW m \in Threads, NEW g \in Fds, tpc'[m] = "none", conn'[g] = m
        PROVE  mpc' = "create" /\ g = slot'
    <3>1. conn[g] = m /\ tpc[m] = "none"  BY <1>1, <2>2, <2>3, <2>7
    <3> QED  BY <1>1, <3>1
  <2> QED  BY <1>1, <2>5, <2>6, <2>7
<1>3. CASE ~ThreadClose(t)
  <2>1. /\ UNCHANGED conn /\ tpc'[t] # "done"
        /\ sock'[t] = IF tpc[t] = "start" THEN slot ELSE sock[t]
        /\ tpc[t] # "done"
    BY <1>3 DEF Thread, ThreadStart, ThreadCallRecv, ThreadRecv, ThreadLock,
         ThreadReadLine, ThreadSend, ThreadInv, TypeOK, clientVars, histVars
  <2>2. ASSUME NEW u \in Threads \ missed, NEW g \in Fds, conn[g] = u, tpc'[u] # "none"
        PROVE  \/ tpc'[u] = "failed"
               \/ tpc'[u] = "start" /\ slot = g
               \/ Live(u)' /\ sock'[u] = g
    <3>1. CASE u = t
      <4>1. \/ tpc[t] = "start" /\ slot = g
            \/ Live(t) /\ sock[t] = g
        BY <1>1, <2>2, <3>1
      <4> QED  BY <1>1, <2>1, <3>1, <4>1 DEF Live
    <3>2. CASE u # t  BY <1>1, <2>2, <3>2 DEF Live
    <3> QED  BY <3>1, <3>2
  <2> QED  BY <1>1, <2>1, <2>2
<1> QED  BY <1>2, <1>3

LEMMA OwnedInvariance == Spec => []Owned
<1>1. ThreadInv /\ Owned /\ [Next]_vars => Owned'
  <2> SUFFICES ASSUME ThreadInv, Owned, [Next]_vars PROVE Owned'
    OBVIOUS
  <2>1. ASSUME UNCHANGED vars PROVE Owned'
    BY <2>1 DEF vars, clientVars, histVars, Owned, Live
  <2>2. CASE \E c \in Conns : ClientSays(c) \/ ClientLeaves(c)
    <3>1. /\ UNCHANGED <<mpc, slot, conn, tpc, sock, missed>>
          /\ \A c \in Conns : peer[c] # "absent" => peer'[c] # "absent"
      BY <2>2 DEF ClientSays, ClientLeaves, ThreadInv, TypeOK, histVars
    <3>2. \A fd \in Fds : conn[fd] \in Conns \cup {None}
      BY DEF ThreadInv, TypeOK
    <3> QED  BY <3>1, <3>2 DEF Owned, Live
  <2>3. CASE \E t \in Threads : Thread(t)  BY <2>3, ThreadOwned
  <2>4. CASE Idle  BY <2>1, <2>4 DEF Idle
  <2> QED  BY <2>1, <2>2, <2>3, <2>4, MainOwned DEF Next
<1> QED  BY <1>1, InitOwned, ThreadInvariance, PTL DEF Spec

(* Every open connection that no thread has or is going to have is that of *)
(* a thread that missed its slot or could not be created.                  *)
THEOREM OrphansAreExplained == Spec => []OrphansExplained
<1>1. Owned => OrphansExplained
  BY DEF Orphans, Owned, OrphansExplained, Threads
<1> QED  BY <1>1, OwnedInvariance, PTL

-----------------------------------------------------------------------------
(* ProcessServer.                                                          *)

LEMMA InitForkInv == ForkInit => ForkInv
<1> SUFFICES ASSUME ForkInit PROVE ForkInv
  OBVIOUS
<1>1. Accepted = {}  BY DEF ForkInit, Accepted
<1>2. Accepted = 1..0  BY <1>1
<1>3. InOrder  BY <1>2, ProcessAssumption DEF InOrder
<1>4. ForkTypeOK
  BY ProcessAssumption DEF ForkInit, ForkTypeOK, Over
<1>5. ParentHasAll  BY <1>1 DEF ForkInit, ParentHasAll, Procs
<1>6. ForksOne /\ ChildHasOlder  BY DEF ForkInit, ForksOne, ChildHasOlder
<1> QED  BY <1>3, <1>4, <1>5, <1>6 DEF ForkInv

(* The newest connection is the number of those accepted. *)
LEMMA NewestIsCount ==
  ASSUME InOrder
  PROVE  /\ Cardinality(Accepted) \in 0..Callers
         /\ Accepted = 1..Cardinality(Accepted)
<1>1. PICK n \in 0..Callers : Accepted = 1..n  BY DEF InOrder
<1>2. n \in Nat /\ 1 \in Int /\ n \in Int  BY ProcessAssumption
<1>3. Cardinality(1..n) = n
  <2>1. Cardinality(1..n) = IF 1 > n THEN 0 ELSE n - 1 + 1  BY <1>2, FS_Interval
  <2> QED  BY <2>1, <1>2
<1> QED  BY <1>1, <1>3

(* A step of a client or a child that takes nothing from anybody else.     *)
LEMMA ClientStepKeeps ==
  ASSUME ForkInv, NEW k \in Kids, ClientWrites(k) \/ ClientQuits(k)
  PROVE  ForkInv'
<1> USE DEF ForkInv
<1>1. Accepted' = Accepted
  BY DEF ClientWrites, ClientQuits, Accepted, ForkTypeOK
<1>2. ForkTypeOK'
  <2>1. CASE ClientWrites(k)
    <3>1. wrote[k] + 1 \in 0..MaxWrites
      BY <2>1, ProcessAssumption DEF ClientWrites, ForkTypeOK
    <3> QED  BY <2>1, <3>1 DEF ClientWrites, ForkTypeOK
  <2>2. CASE ClientQuits(k)  BY <2>2 DEF ClientQuits, ForkTypeOK
  <2> QED  BY <2>1, <2>2
<1>3. UNCHANGED <<master, kid, holds>>  BY DEF ClientWrites, ClientQuits
<1>4. InOrder' /\ ParentHasAll' /\ ForksOne'
  BY <1>1, <1>3 DEF InOrder, ParentHasAll, ForksOne
<1>5. ChildHasOlder'  BY <1>3 DEF ChildHasOlder
<1> QED  BY <1>2, <1>4, <1>5

LEMMA MasterAcceptKeeps == ASSUME ForkInv, MasterAccept PROVE ForkInv'
<1> USE DEF ForkInv
<1> DEFINE n == Cardinality(Accepted)
<1>1. n \in 0..Callers /\ Accepted = 1..n  BY NewestIsCount
<1> HIDE DEF n
<1>2. /\ n + 1 \in Kids /\ master = "accept" /\ master' = "fork"
      /\ client' = [client EXCEPT ![n + 1] = "connected"]
      /\ holds' = [holds EXCEPT ![Master] = @ \cup {n + 1}]
      /\ UNCHANGED <<kid, wrote, inbox, lines>>
  BY DEF MasterAccept, n
<1>3. Accepted' = Accepted \cup {n + 1}
  BY <1>2 DEF Accepted, ForkTypeOK
<1>4. n \in Nat /\ n + 1 \in 0..Callers
  BY <1>1, <1>2, ProcessAssumption DEF Kids
<1>5. Accepted' = 1..(n + 1)  BY <1>1, <1>3, <1>4
<1>6. InOrder'  BY <1>4, <1>5 DEF InOrder
<1>7. ForkTypeOK'
  BY <1>2, ProcessAssumption DEF ForkTypeOK, Procs, Master, Kids
<1>8. ParentHasAll' /\ ForksOne'
  BY <1>2, <1>3 DEF ParentHasAll, ForksOne, ForkTypeOK, Procs
<1>9. ChildHasOlder'
  BY <1>2, ProcessAssumption DEF ChildHasOlder, ForkTypeOK, Procs, Master, Kids
<1> QED  BY <1>6, <1>7, <1>8, <1>9

LEMMA MasterForkKeeps == ASSUME ForkInv, MasterFork PROVE ForkInv'
<1> USE DEF ForkInv
<1> DEFINE n == Cardinality(Accepted)
<1>1. n \in 0..Callers /\ Accepted = 1..n  BY NewestIsCount
<1> HIDE DEF n
<1>2. /\ master = "fork" /\ master' = "accept"
      /\ kid' = [kid EXCEPT ![n] = "recv"]
      /\ holds' = [holds EXCEPT ![n] = holds[Master]]
      /\ UNCHANGED <<client, wrote, inbox, lines>>
  BY DEF MasterFork, n
<1>3. n \in Kids
  BY <1>1, <1>2, ProcessAssumption DEF ForksOne, Kids
<1>4. Accepted' = Accepted  BY <1>2 DEF Accepted
<1>5. n # Master /\ n \in Procs /\ Master \in Procs
  BY <1>3, ProcessAssumption DEF Master, Procs, Kids
<1>6. holds[Master] = 1..n  BY <1>1, <1>2 DEF ParentHasAll
<1>7. ForkTypeOK'  BY <1>2, <1>3, <1>5 DEF ForkTypeOK
<1>8. InOrder' /\ ParentHasAll' /\ ForksOne'
  BY <1>2, <1>4, <1>5 DEF InOrder, ParentHasAll, ForksOne, ForkTypeOK
<1>9. ChildHasOlder'
  <2> SUFFICES ASSUME NEW j \in Kids
               PROVE  /\ kid'[j] \notin {"none", "ended"} =>
                           \A k \in Kids : k < j => k \in holds'[j]
                      /\ kid'[j] \notin {"none"} \cup Over => j \in holds'[j]
    BY DEF ChildHasOlder
  <2>1. CASE j = n
    <3>1. holds'[n] = 1..n  BY <1>2, <1>5, <1>6 DEF ForkTypeOK
    <3> QED  BY <2>1, <3>1, <1>3, ProcessAssumption DEF Kids
  <2>2. CASE j # n
    <3>1. kid'[j] = kid[j] /\ holds'[j] = holds[j]
      BY <2>2, <1>2 DEF ForkTypeOK, Procs
    <3> QED  BY <3>1 DEF ChildHasOlder
  <2> QED  BY <2>1, <2>2
<1> QED  BY <1>7, <1>8, <1>9

LEMMA MasterRestKeeps ==
  ASSUME ForkInv, MasterForkFails \/ MasterKilled PROVE ForkInv'
<1> USE DEF ForkInv
<1>1. UNCHANGED <<kid, client, wrote, inbox, lines>>
  BY DEF MasterForkFails, MasterKilled
<1>2. Accepted' = Accepted  BY <1>1 DEF Accepted
<1>3. \A j \in Kids : holds'[j] = holds[j]
  <2>1. CASE MasterForkFails  BY <2>1 DEF MasterForkFails
  <2>2. CASE MasterKilled
    <3>1. \A j \in Kids : j # Master /\ j \in Procs
      BY ProcessAssumption DEF Procs, Master, Kids
    <3>2. holds' = [holds EXCEPT ![Master] = {}]  BY <2>2 DEF MasterKilled
    <3> QED  BY <3>1, <3>2 DEF ForkTypeOK
  <2> QED  BY <2>1, <2>2
<1>4. ForkTypeOK'
  BY <1>1 DEF MasterForkFails, MasterKilled, ForkTypeOK, Procs
<1>5. InOrder' /\ ForksOne' /\ ParentHasAll'
  BY <1>2 DEF MasterForkFails, MasterKilled, InOrder, ForksOne, ParentHasAll
<1>6. ChildHasOlder'  BY <1>1, <1>3 DEF ChildHasOlder
<1> QED  BY <1>4, <1>5, <1>6

LEMMA KidKeeps ==
  ASSUME ForkInv, NEW k \in Kids, Kid(k) \/ KidReadLine(k) \/ KidKilled(k)
  PROVE  ForkInv'
<1> USE DEF ForkInv
<1>0. k # Master /\ k \in Procs
  BY ProcessAssumption DEF Kids, Master, Procs
<1>1. UNCHANGED <<master, client, wrote>>
  BY DEF Kid, KidRecv, KidSend, KidClose, KidExit, KidReadLine, KidKilled
<1>2. Accepted' = Accepted  BY <1>1 DEF Accepted
<1>3. /\ holds' \in [Procs -> SUBSET Kids]
      /\ holds'[Master] = holds[Master]
      /\ \A j \in Kids : j # k => kid'[j] = kid[j] /\ holds'[j] = holds[j]
  BY <1>0 DEF Kid, KidRecv, KidSend, KidClose, KidExit, KidReadLine, KidKilled,
              ForkTypeOK, Procs, Master
<1>4. ForkTypeOK'
  <2>1. inbox' \in [Kids -> BOOLEAN]
    BY DEF Kid, KidRecv, KidSend, KidClose, KidExit, KidReadLine, KidKilled, ForkTypeOK
  <2>2. lines' \in 0..MaxTyped
    BY ProcessAssumption
    DEF Kid, KidRecv, KidSend, KidClose, KidExit, KidReadLine, KidKilled, ForkTypeOK
  <2>3. kid' \in [Kids -> {"none", "recv", "prompt", "send", "close"} \cup Over]
    BY DEF Kid, KidRecv, KidSend, KidClose, KidExit, KidReadLine, KidKilled, ForkTypeOK, Over
  <2> QED  BY <2>1, <2>2, <2>3, <1>1, <1>3 DEF ForkTypeOK
<1>5. InOrder' /\ ForksOne' /\ ParentHasAll'
  BY <1>1, <1>2, <1>3 DEF InOrder, ForksOne, ParentHasAll
<1>6. ChildHasOlder'
  <2>1. /\ kid'[k] \notin {"none", "ended"} => \A i \in Kids : i < k => i \in holds'[k]
        /\ kid'[k] \notin {"none"} \cup Over => k \in holds'[k]
    <3>1. CASE KidRecv(k) \/ KidSend(k) \/ KidReadLine(k)
      BY <3>1 DEF KidRecv, KidSend, KidReadLine, ChildHasOlder, Over
    <3>2. CASE KidClose(k)
      <4>1. holds'[k] = holds[k] \ {k} /\ kid'[k] = "closed"
        BY <3>2, <1>0 DEF KidClose, ForkTypeOK
      <4>2. \A i \in Kids : i < k => i \in holds[k]
        BY <3>2 DEF KidClose, ChildHasOlder
      <4>3. \A i \in Kids : i < k => i # k  BY DEF Kids
      <4> QED  BY <4>1, <4>2, <4>3 DEF Over
    <3>3. CASE KidExit(k) \/ KidKilled(k)
      BY <3>3 DEF KidExit, KidKilled, ForkTypeOK, Over
    <3> QED  BY <3>1, <3>2, <3>3 DEF Kid
  <2> QED  BY <2>1, <1>3 DEF ChildHasOlder
<1> QED  BY <1>4, <1>5, <1>6

(* The inductive invariant: the parent has every connection accepted, and  *)
(* a child every one that came before its own.                             *)
THEOREM ForkInvariance == ForkSpec => []ForkInv
<1>1. ForkInv /\ [ForkNext]_forkVars => ForkInv'
  <2> SUFFICES ASSUME ForkInv, [ForkNext]_forkVars PROVE ForkInv'
    OBVIOUS
  <2>1. ASSUME UNCHANGED forkVars PROVE ForkInv'
    BY <2>1 DEF forkVars, ForkInv, ForkTypeOK, InOrder, Accepted, ParentHasAll,
                ForksOne, ChildHasOlder
  <2>2. CASE MasterAccept \/ MasterFork \/ MasterForkFails \/ MasterKilled
    BY <2>2, MasterAcceptKeeps, MasterForkKeeps, MasterRestKeeps
  <2>3. CASE MasterAcceptFails \/ NobodyLeft
    BY <2>1, <2>3 DEF MasterAcceptFails, NobodyLeft
  <2>4. CASE \E k \in Kids : ClientWrites(k) \/ ClientQuits(k)
    BY <2>4, ClientStepKeeps
  <2>5. CASE \E k \in Kids : Kid(k) \/ KidReadLine(k) \/ KidKilled(k)
    BY <2>5, KidKeeps
  <2> QED  BY <2>1, <2>2, <2>3, <2>4, <2>5 DEF ForkNext
<1> QED  BY <1>1, InitForkInv, PTL DEF ForkSpec

(* The types, for every value of the constants. *)
THEOREM ForkTypes == ForkSpec => []ForkTypeOK
<1>1. ForkInv => ForkTypeOK  BY DEF ForkInv
<1> QED  BY <1>1, ForkInvariance, PTL

(* A connection ends only with the parent killed and every child forked    *)
(* after it ended, for any number of callers.                              *)
THEOREM ConnectionOutlivesItsChild == ForkSpec => []EndsOnlyWithAll
<1>1. ForkInv => EndsOnlyWithAll
  <2> SUFFICES ASSUME ForkInv, NEW k \in Accepted, \A p \in Procs : k \notin holds[p]
               PROVE  /\ master = "killed"
                      /\ \A j \in Kids : j > k => kid[j] \in {"none", "ended"}
                      /\ kid[k] \in {"none"} \cup Over
    BY DEF EndsOnlyWithAll
  <2>1. k \in Kids  BY DEF Accepted
  <2>2. \A j \in Kids : k \notin holds[j]  BY DEF Procs
  <2>3. master = "killed"  BY DEF ForkInv, ParentHasAll, Procs
  <2>4. \A j \in Kids : j > k => kid[j] \in {"none", "ended"}
    <3> SUFFICES ASSUME NEW j \in Kids, j > k PROVE kid[j] \in {"none", "ended"}
      OBVIOUS
    <3>1. k < j  BY <2>1 DEF Kids
    <3> QED  BY <2>1, <2>2, <3>1 DEF ForkInv, ChildHasOlder
  <2>5. kid[k] \in {"none"} \cup Over  BY <2>1, <2>2 DEF ForkInv, ChildHasOlder
  <2> QED  BY <2>3, <2>4, <2>5
<1> QED  BY <1>1, ForkInvariance, PTL
=============================================================================
