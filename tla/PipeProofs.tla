----------------------------- MODULE PipeProofs -----------------------------
(***************************************************************************)
(* The programs of ipc-pipe/ that meet at a pipe.                          *)
(*                                                                         *)
(* The barrier of multiprocess-sync.cpp is safe for any number of children *)
(* and whichever of them are killed, and it implements Barrier.            *)
(*                                                                         *)
(* Two children with a pipe between them, as PipeFilter has them: who      *)
(* reads to the end has read all, whatever the pipe holds at a time.       *)
(*                                                                         *)
(* The FIFO service, for any clients, pids used again any number of times, *)
(* kills and server crashes: the server never reads end-of-file, answers   *)
(* reach those who asked, but for the successors of killed clients, and no *)
(* request is lost.                                                        *)
(***************************************************************************)
EXTENDS PipeSync, PipeFilter, FifoRpc, SequenceTheorems, TLAPS

-----------------------------------------------------------------------------
(* The barrier.                                                            *)

(* Parent is not a child: the reference counts do not mix the two up. *)
LEMMA ParentIsNoChild == Parent \notin Children
  BY NAssumption DEF Parent, Children

(* The initial state of the program satisfies the inductive invariant. *)
LEMMA InitBarrierInv == PipeInit => BarrierInv
  BY NAssumption DEF PipeInit, BarrierInv, PipeTypeOK, WriteEndHolders, ForkedSoFar,
     ReadyAfterAll, Parent, Children, Processes, ParentPoints, ChildPoints, Gone

(* Every step keeps the inductive invariant: the fork loop hands out the   *)
(* write end, each child gives its own back, and end-of-file is seen only  *)
(* when all have.                                                          *)
LEMMA NextBarrierInv == BarrierInv /\ [PipeNext]_pipeVars => BarrierInv'
<1> SUFFICES ASSUME BarrierInv, [PipeNext]_pipeVars
             PROVE  BarrierInv'
  OBVIOUS
<1> USE NAssumption, MortalAssumption, ParentIsNoChild
    DEF BarrierInv, PipeTypeOK, WriteEndHolders, ForkedSoFar, ReadyAfterAll,
        Children, Processes, ParentPoints, ChildPoints, Gone, PastWork
<1>1. CASE Fork
  <2>1. /\ turn \in Children /\ kpc[turn] = "none" /\ ppc = "fork" /\ turn' = turn + 1
        /\ writeEnds' = writeEnds \cup {turn} /\ readEnds' \subseteq Processes
    BY <1>1 DEF Fork, Inherit
  <2>2. \A c \in Children : kpc'[c] = IF c = turn THEN "closeRead" ELSE kpc[c]
    BY <1>1 DEF Fork
  <2>3. PipeTypeOK'
    BY <1>1, <2>1 DEF Fork
  <2>4. WriteEndHolders'
    BY <1>1, <2>1, <2>2 DEF Fork
  <2>5. ForkedSoFar' /\ ReadyAfterAll'
    BY <1>1, <2>1, <2>2 DEF Fork
  <2> QED BY <2>3, <2>4, <2>5
<1>2. CASE ForkFails
  BY <1>2 DEF ForkFails
<1>3. CASE ParentCloseWrite
  BY <1>3 DEF ParentCloseWrite
<1>4. CASE ParentReadEOF
  <2>1. \A c \in Children : kpc[c] # "none"
    BY <1>4 DEF ParentReadEOF
  <2>2. \A c \in Children : kpc[c] \in PastWork \cup {"killed"}
    BY <1>4, <2>1 DEF ParentReadEOF
  <2> QED BY <1>4, <2>2 DEF ParentReadEOF
<1>5. CASE ParentCloseRead
  BY <1>5 DEF ParentCloseRead
<1>6. ASSUME NEW c \in Children, ChildCloseRead(c)
      PROVE  BarrierInv'
  BY <1>6 DEF ChildCloseRead
<1>7. ASSUME NEW c \in Children, ChildWork(c)
      PROVE  BarrierInv'
  BY <1>7 DEF ChildWork
<1>8. ASSUME NEW c \in Children, ChildCloseWrite(c)
      PROVE  BarrierInv'
  BY <1>8 DEF ChildCloseWrite
<1>9. ASSUME NEW c \in Children, ChildExit(c)
      PROVE  BarrierInv'
  BY <1>9 DEF ChildExit
<1>10. ASSUME NEW c \in Children, ChildKilled(c)
       PROVE  BarrierInv'
  BY <1>10 DEF ChildKilled
<1>11. CASE UNCHANGED pipeVars
  BY <1>11 DEF pipeVars
<1> QED
  BY <1>1, <1>2, <1>3, <1>4, <1>5, <1>6, <1>7, <1>8, <1>9, <1>10, <1>11
     DEF PipeNext, ParentStep, ChildStep, Terminated

(* The inductive invariant holds in every reachable state. *)
THEOREM BarrierInvariance == PipeSpec => []BarrierInv
<1>1. PipeInit => BarrierInv
  BY InitBarrierInv
<1>2. BarrierInv /\ [PipeNext]_pipeVars => BarrierInv'
  BY NextBarrierInv
<1> QED
  BY <1>1, <1>2, PTL DEF PipeSpec

(* Variables keep their types. *)
THEOREM TypeCorrectness == PipeSpec => []PipeTypeOK
<1>1. BarrierInv => PipeTypeOK
  BY DEF BarrierInv
<1> QED
  BY <1>1, BarrierInvariance, PTL

(* "Ready to go" only after every child is past its work or dead. *)
THEOREM BarrierSafety == PipeSpec => []ReadyAfterAll
<1>1. BarrierInv => ReadyAfterAll
  BY DEF BarrierInv
<1> QED
  BY <1>1, BarrierInvariance, PTL

-----------------------------------------------------------------------------
(* Refinement.                                                             *)

(* The program starts where the abstract barrier starts. *)
LEMMA InitRefines == PipeInit => TheBarrier!Init
  BY NAssumption
     DEF PipeInit, TheBarrier!Init, Phase, Recruited, Arrived, Lost, PastWork,
         Children

(* Every step of the program is a step of the barrier or leaves it alone:  *)
(* seeing end-of-file is the release, a child's own close its arrival.     *)
LEMMA NextRefines ==
  BarrierInv /\ BarrierInv' /\ [PipeNext]_pipeVars => [TheBarrier!Next]_(TheBarrier!vars)
<1> SUFFICES ASSUME BarrierInv, BarrierInv', [PipeNext]_pipeVars
             PROVE  [TheBarrier!Next]_(TheBarrier!vars)
  OBVIOUS
<1>t. /\ PipeTypeOK /\ ForkedSoFar /\ ReadyAfterAll /\ ReadyAfterAll'
      /\ kpc' \in [Children -> ChildPoints]
  BY DEF BarrierInv, PipeTypeOK
<1>1. CASE Fork
  <2>1. turn \in Children /\ kpc[turn] = "none" /\ ppc = "fork" /\ ppc' = "fork"
    BY <1>1, <1>t, NAssumption DEF Fork, PipeTypeOK, ForkedSoFar, Children
  <2>2. kpc' = [kpc EXCEPT ![turn] = "closeRead"]
    BY <1>1 DEF Fork
  <2>3. /\ turn \notin Recruited /\ Recruited' = Recruited \cup {turn}
        /\ Arrived' = Arrived /\ Lost' = Lost
    BY <2>1, <2>2, <1>t DEF Recruited, Arrived, Lost, PastWork, PipeTypeOK
  <2>4. TheBarrier!Recruit(turn)
    BY <2>1, <2>3 DEF TheBarrier!Recruit, Phase
  <2> QED BY <2>1, <2>4 DEF TheBarrier!Next
<1>2. CASE ForkFails
  <2>1. ppc = "fork" /\ ppc' = "failed" /\ UNCHANGED kpc
    BY <1>2 DEF ForkFails
  <2>2. Recruited # Children
    BY <1>2, <1>t, NAssumption DEF ForkFails, Recruited, ForkedSoFar, PipeTypeOK, Children
  <2>3. UNCHANGED <<Recruited, Arrived, Lost>>
    BY <2>1 DEF Recruited, Arrived, Lost
  <2>4. TheBarrier!GiveUp
    BY <2>1, <2>2, <2>3 DEF TheBarrier!GiveUp, Phase
  <2> QED BY <2>4 DEF TheBarrier!Next
<1>3. CASE ParentCloseWrite
  BY <1>3 DEF ParentCloseWrite, TheBarrier!vars, Phase, Recruited, Arrived, Lost
<1>4. CASE ParentReadEOF
  <2>1. ppc = "read" /\ ppc' = "closeRead" /\ UNCHANGED kpc
    BY <1>4 DEF ParentReadEOF
  <2>2. \A c \in Children : kpc[c] \in PastWork \cup {"killed"}
    BY <2>1, <1>t DEF ReadyAfterAll, PastWork
  <2>3. Recruited = Children /\ Children \subseteq Arrived \cup Lost
    BY <2>2 DEF Recruited, Arrived, Lost, PastWork
  <2>4. UNCHANGED <<Recruited, Arrived, Lost>>
    BY <2>1 DEF Recruited, Arrived, Lost
  <2>5. TheBarrier!Release
    BY <2>1, <2>3, <2>4 DEF TheBarrier!Release, Phase
  <2> QED BY <2>5 DEF TheBarrier!Next
<1>5. CASE ParentCloseRead
  BY <1>5 DEF ParentCloseRead, TheBarrier!vars, Phase, Recruited, Arrived, Lost
<1>6. ASSUME NEW c \in Children, ChildCloseRead(c) \/ ChildWork(c) \/ ChildExit(c)
      PROVE  UNCHANGED TheBarrier!vars
  <2>1. ppc' = ppc
    BY <1>6 DEF ChildCloseRead, ChildWork, ChildExit
  <2>2. UNCHANGED <<Recruited, Arrived, Lost>>
    BY <1>6, <1>t DEF ChildCloseRead, ChildWork, ChildExit, Recruited, Arrived,
       Lost, PastWork, PipeTypeOK
  <2> QED BY <2>1, <2>2 DEF TheBarrier!vars, Phase
<1>7. ASSUME NEW c \in Children, ChildCloseWrite(c)
      PROVE  TheBarrier!Arrive(c)
  <2>1. /\ ppc' = ppc /\ kpc[c] = "closeWrite"
        /\ kpc' = [kpc EXCEPT ![c] = "done"]
    BY <1>7 DEF ChildCloseWrite
  <2>2. /\ c \in Recruited \ (Arrived \cup Lost)
        /\ Arrived' = Arrived \cup {c}
        /\ UNCHANGED <<Recruited, Lost>>
    BY <2>1, <1>t DEF Recruited, Arrived, Lost, PastWork, PipeTypeOK
  <2> QED BY <2>1, <2>2 DEF TheBarrier!Arrive, Phase
<1>8. ASSUME NEW c \in Children, ChildKilled(c)
      PROVE  TheBarrier!Lose(c) \/ UNCHANGED TheBarrier!vars
  <2>1. /\ ppc' = ppc /\ kpc[c] \notin Gone \cup {"none"}
        /\ kpc' = [kpc EXCEPT ![c] = IF kpc[c] = "done" THEN "exited" ELSE "killed"]
    BY <1>8 DEF ChildKilled
  <2>2. CASE kpc[c] = "done"
    <3>1. UNCHANGED <<Recruited, Arrived, Lost>>
      BY <2>1, <2>2, <1>t DEF Recruited, Arrived, Lost, PastWork, PipeTypeOK
    <3> QED BY <2>1, <3>1 DEF TheBarrier!vars, Phase
  <2>3. CASE kpc[c] # "done"
    <3>1. /\ c \in Recruited \ (Arrived \cup Lost)
          /\ Lost' = Lost \cup {c}
          /\ UNCHANGED <<Recruited, Arrived>>
      BY <2>1, <2>3, <1>t DEF Recruited, Arrived, Lost, PastWork, Gone, PipeTypeOK
    <3> QED BY <2>1, <3>1 DEF TheBarrier!Lose, Phase
  <2> QED BY <2>2, <2>3
<1>9. CASE UNCHANGED pipeVars
  BY <1>9 DEF pipeVars, TheBarrier!vars, Phase, Recruited, Arrived, Lost
<1> QED
  BY <1>1, <1>2, <1>3, <1>4, <1>5, <1>6, <1>7, <1>8, <1>9
     DEF PipeNext, ParentStep, ChildStep, Terminated, TheBarrier!Next

(* The program implements the abstract barrier. *)
THEOREM Refinement == PipeSpec => ImplementsBarrier
<1>1. PipeInit => TheBarrier!Init
  BY InitRefines
<1>2. BarrierInv /\ BarrierInv' /\ [PipeNext]_pipeVars
        => [TheBarrier!Next]_(TheBarrier!vars)
  BY NextRefines
<1> QED
  BY <1>1, <1>2, BarrierInvariance, PTL
     DEF PipeSpec, ImplementsBarrier, TheBarrier!Spec

-----------------------------------------------------------------------------
(* The FIFO service.                                                       *)

(* A step that brings nothing new for pid q: what is queued or buffered    *)
(* for it can only go, and the server takes up nothing of its.             *)
FewerQueued(q) ==
  \E d \in {0, 1} : \A i \in Queued(q)' : i + d \in Queued(q) /\ fifo'[i] = fifo[i + d]

(* Control points at which an orderly client has nothing under way. *)
Early == {"openServer", "waitServer", "request"}
Done == {"closeOwn", "exit"}

SameProcess(q) ==
  /\ run'[q] = run[q] /\ answer'[q] = answer[q] /\ killed'[q] = killed[q]
  /\ \/ cpc'[q] = cpc[q]
     \/ cpc[q] \in Early
     \/ cpc[q] \in Done /\ (cpc'[q] = "exit" \/ sfd' # q)
     \/ AwaitsServer(q) /\ AwaitsServer(q)'
  /\ resp'[q] = resp[q] \/ resp'[q] = <<>>

NothingNew(q) ==
  /\ Handled(q)' => /\ Handled(q) /\ sreq' = sreq /\ spc' = spc
                    /\ sfd' = sfd \/ cpc[q] = "exit"
  /\ spc' = "close" /\ sfd' = q => spc = "close" /\ sfd = q

LEMMA KeptQueue ==
  ASSUME TypeOK, NEW q \in Pids, fifo' = fifo \/ fifo' = <<>>
  PROVE  fifo' \in Seq(Request) /\ FewerQueued(q)
<1>1. \A i \in Queued(q) : i + 0 \in Queued(q) /\ fifo[i] = fifo[i + 0]
  BY LenProperties DEF Queued, TypeOK
<1>2. \A i \in Queued(q)' : i + 0 \in Queued(q) /\ fifo'[i] = fifo[i + 0]
  <2>1. CASE fifo' = fifo  BY <1>1, <2>1 DEF Queued
  <2>2. CASE fifo' = <<>>  BY <2>2 DEF Queued
  <2> QED  BY <2>1, <2>2
<1>3. fifo' \in Seq(Request)  BY EmptySeq DEF TypeOK
<1> QED  BY <1>2, <1>3 DEF FewerQueued

LEMMA ShorterQueue ==
  ASSUME TypeOK, NEW q \in Pids, fifo # <<>>, fifo' = Tail(fifo)
  PROVE  fifo' \in Seq(Request) /\ FewerQueued(q)
<1>1. /\ fifo' \in Seq(Request) /\ Len(fifo') = Len(fifo) - 1
      /\ \A i \in 1..Len(fifo') : fifo'[i] = fifo[i + 1]
  BY HeadTailProperties DEF TypeOK
<1>2. /\ DOMAIN fifo = 1..Len(fifo) /\ DOMAIN fifo' = 1..Len(fifo')
      /\ Len(fifo) \in Nat /\ Len(fifo') \in Nat
  BY <1>1, LenProperties DEF TypeOK
<1>3. \A i \in Queued(q)' : i + 1 \in Queued(q) /\ fifo'[i] = fifo[i + 1]
  BY <1>1, <1>2 DEF Queued
<1> QED  BY <1>1, <1>3 DEF FewerQueued

LEMMA LongerQueue ==
  ASSUME TypeOK, NEW p \in Pids, NEW r \in Runs,
         fifo' = Append(fifo, [pid |-> p, run |-> r])
  PROVE  /\ fifo' \in Seq(Request)
         /\ \A q \in Pids \ {p} : FewerQueued(q)
         /\ Queued(p)' = Queued(p) \cup {Len(fifo) + 1}
         /\ fifo'[Len(fifo) + 1].run = r
         /\ \A i \in Queued(p) : fifo'[i] = fifo[i]
<1> DEFINE e == [pid |-> p, run |-> r]
<1>1. e \in Request  BY DEF Request
<1>2. /\ fifo' \in Seq(Request) /\ Len(fifo') = Len(fifo) + 1
      /\ \A i \in 1..Len(fifo) : fifo'[i] = fifo[i]
      /\ fifo'[Len(fifo) + 1] = e
  BY <1>1, AppendProperties DEF TypeOK
<1>3. /\ DOMAIN fifo = 1..Len(fifo) /\ DOMAIN fifo' = 1..Len(fifo')
      /\ Len(fifo) \in Nat /\ Len(fifo') \in Nat
  BY <1>2, LenProperties DEF TypeOK
<1>4. e.pid = p /\ e.run = r  OBVIOUS
<1> HIDE DEF e
<1>5. \A i \in DOMAIN fifo' : i = Len(fifo) + 1 \/ i \in DOMAIN fifo
  BY <1>2, <1>3
<1>6. ASSUME NEW q \in Pids \ {p} PROVE FewerQueued(q)
  <2>1. \A i \in Queued(q)' : i + 0 \in Queued(q) /\ fifo'[i] = fifo[i + 0]
    BY <1>2, <1>3, <1>4, <1>5 DEF Queued
  <2> QED  BY <2>1 DEF FewerQueued
<1>7. Queued(p)' = Queued(p) \cup {Len(fifo) + 1}
  BY <1>2, <1>3, <1>4, <1>5 DEF Queued
<1>8. \A i \in Queued(p) : fifo'[i] = fifo[i]
  BY <1>2, <1>3 DEF Queued
<1> QED  BY <1>2, <1>4, <1>6, <1>7, <1>8

LEMMA QuietStep ==
  ASSUME NEW q \in Pids, PidSound(q), fifo' \in Seq(Request),
         FewerQueued(q), SameProcess(q), NothingNew(q)
  PROVE  PidSound(q)'
<1>1. killed'[q] \subseteq 1..run'[q] /\ (cpc'[q] # "idle" => run'[q] \in Runs)
  BY DEF SameProcess, PidSound, AwaitsServer, Early, Done
<1>2. PICK d \in {0, 1} :
        \A i \in Queued(q)' : i + d \in Queued(q) /\ fifo'[i] = fifo[i + d]
  BY DEF FewerQueued
<1>3. \A i \in Queued(q)' : i \in Nat
  BY LenProperties DEF Queued
<1>4. ASSUME killed[q] = {} PROVE Orderly(q)'
  <2>1. Orderly(q)  BY <1>4 DEF PidSound
  <2>2. answer'[q] \in {0, run'[q]}  BY <2>1 DEF Orderly, SameProcess
  <2>3. \A i \in Queued(q)' : fifo'[i].run = run'[q]
    BY <2>1, <1>2 DEF Orderly, SameProcess
  <2>4. \A i, j \in Queued(q)' : i = j
    <3> SUFFICES ASSUME NEW i \in Queued(q)', NEW j \in Queued(q)'  PROVE i = j
      OBVIOUS
    <3>1. i + d = j + d  BY <2>1, <1>2 DEF Orderly
    <3> QED  BY <3>1, <1>3
  <2>5. Queued(q)' # {} => AwaitsServer(q)' /\ ~Handled(q)'
    BY <2>1, <1>2 DEF Orderly, SameProcess, NothingNew, AwaitsServer, Early, Done
  <2>6. Handled(q)' =>
          /\ sreq'.run = run'[q]
          /\ IF spc' = "write" THEN cpc'[q] = "readResp" /\ sfd' = q ELSE AwaitsServer(q)'
    BY <2>1 DEF Orderly, SameProcess, NothingNew, AwaitsServer, Early, Done
  <2>7. /\ resp'[q] # <<>> => cpc'[q] = "readResp" /\ ~Handled(q)'
        /\ \A i \in DOMAIN resp'[q] : i = 1 /\ resp'[q][i] = run'[q]
    BY <2>1 DEF Orderly, SameProcess, NothingNew, AwaitsServer, Early, Done
  <2>8. spc' = "close" /\ sfd' = q => cpc'[q] \in {"readResp", "closeOwn", "exit"}
    BY <2>1 DEF Orderly, SameProcess, NothingNew, AwaitsServer, Early, Done
  <2> QED  BY <2>2, <2>3, <2>4, <2>5, <2>6, <2>7, <2>8 DEF Orderly
<1>5. ASSUME NEW k \in killed[q], NotBefore(q, k) PROVE NotBefore(q, k)'
  <2>1. \A i \in Queued(q)' : k <= fifo'[i].run  BY <1>2, <1>5 DEF NotBefore
  <2>2. Handled(q)' => k <= sreq'.run  BY <1>5 DEF NotBefore, NothingNew
  <2>3. \A i \in DOMAIN resp'[q] : k <= resp'[q][i]
    BY <1>5 DEF NotBefore, SameProcess
  <2> QED  BY <1>5, <2>1, <2>2, <2>3 DEF NotBefore, SameProcess
<1>6. killed'[q] = killed[q]  BY DEF SameProcess
<1> QED  BY <1>1, <1>4, <1>5, <1>6 DEF PidSound

LEMMA ServerStartKeeps ==
  ASSUME FifoInv, ServerStart PROVE FifoInv'
<1> USE FifoAssumption DEF FifoInv, clientVars, bounds
<1>1. TypeOK'  BY DEF ServerStart, TypeOK, ServerPoints
<1>2. ServerSound'  BY DEF ServerStart, TypeOK, ServerSound
<1>3. ASSUME NEW q \in Pids PROVE PidSound(q)'
  <2>1. SameProcess(q)  BY DEF ServerStart, SameProcess
  <2>2. NothingNew(q)  BY DEF ServerStart, NothingNew, Handled
  <2> QED  BY <2>1, <2>2, KeptQueue, QuietStep DEF ServerStart
<1> QED  BY <1>1, <1>2, <1>3

LEMMA ServerOpenReadKeeps ==
  ASSUME FifoInv, ServerOpenRead PROVE FifoInv'
<1> USE FifoAssumption DEF FifoInv, clientVars, bounds
<1>1. TypeOK'  BY DEF ServerOpenRead, TypeOK, ServerPoints, ClientPoints
<1>2. ServerSound'  BY DEF ServerOpenRead, TypeOK, ServerSound
<1>3. ASSUME NEW q \in Pids PROVE PidSound(q)'
  <2>1. SameProcess(q)  BY DEF ServerOpenRead, SameProcess, TypeOK, Early, Done
  <2>2. NothingNew(q)  BY DEF ServerOpenRead, NothingNew, Handled
  <2> QED  BY <2>1, <2>2, KeptQueue, QuietStep DEF ServerOpenRead
<1> QED  BY <1>1, <1>2, <1>3

LEMMA ServerOpenWriteKeeps ==
  ASSUME FifoInv, ServerOpenWrite PROVE FifoInv'
<1> USE FifoAssumption DEF FifoInv, clientVars, bounds
<1>1. TypeOK'  BY DEF ServerOpenWrite, TypeOK, ServerPoints
<1>2. ServerSound'  BY DEF ServerOpenWrite, TypeOK, ServerSound
<1>3. ASSUME NEW q \in Pids PROVE PidSound(q)'
  <2>1. SameProcess(q)  BY DEF ServerOpenWrite, SameProcess
  <2>2. NothingNew(q)  BY DEF ServerOpenWrite, NothingNew, Handled
  <2> QED  BY <2>1, <2>2, KeptQueue, QuietStep DEF ServerOpenWrite
<1> QED  BY <1>1, <1>2, <1>3

LEMMA ServerReadKeeps ==
  ASSUME FifoInv, ServerRead PROVE FifoInv'
<1> USE FifoAssumption DEF FifoInv, clientVars, bounds
<1> DEFINE h == Head(fifo)
<1>1. h \in Request /\ h = fifo[1] /\ 1 \in DOMAIN fifo /\ fifo' \in Seq(Request)
  BY HeadTailProperties, LenProperties DEF ServerRead, TypeOK
<1>2. TypeOK'  BY <1>1 DEF ServerRead, TypeOK, ServerPoints
<1>3. ServerSound'  BY <1>1 DEF ServerRead, TypeOK, ServerSound
<1>4. ASSUME NEW q \in Pids PROVE PidSound(q)'
  <2>1. SameProcess(q) /\ sreq' = h /\ spc' = "openClient" /\ spc = "read"
    BY DEF ServerRead, SameProcess
  <2>2. FewerQueued(q)  BY ShorterQueue DEF ServerRead
  <2> HIDE DEF h
  <2>3. CASE q # h.pid
    <3>1. NothingNew(q)  BY <2>1, <2>3 DEF NothingNew, Handled
    <3> QED  BY <2>1, <2>2, <3>1, <1>1, QuietStep
  <2>4. CASE q = h.pid
    <3>1. 1 \in Queued(q)  BY <1>1, <2>4 DEF Queued
    <3>2. ASSUME killed[q] = {} PROVE Orderly(q)'
      <4>1. Orderly(q)  BY <3>2 DEF PidSound
      <4>2. \A i \in Queued(q) : i = 1  BY <3>1, <4>1 DEF Orderly
      <4>3. \A i \in Queued(q)' : i + 1 \in Queued(q)
        BY HeadTailProperties, LenProperties DEF Queued, TypeOK, ServerRead
      <4>4. Queued(q)' = {}
        BY <4>2, <4>3, <1>1, LenProperties DEF Queued
      <4>5. h.run = run[q] /\ AwaitsServer(q)
        BY <1>1, <3>1, <4>1 DEF Orderly
      <4> QED
        BY <2>1, <4>1, <4>4, <4>5 DEF Orderly, SameProcess, Handled, ServerRead, AwaitsServer
    <3>3. ASSUME NEW k \in killed[q], NotBefore(q, k) PROVE NotBefore(q, k)'
      <4>1. k <= h.run  BY <1>1, <3>1, <3>3 DEF NotBefore
      <4>2. \A i \in Queued(q)' : k <= fifo'[i].run
        BY <2>2, <3>3 DEF FewerQueued, NotBefore
      <4> QED
        BY <2>1, <4>1, <4>2, <3>3 DEF NotBefore, SameProcess, Handled, ServerRead
    <3> QED  BY <2>1, <3>2, <3>3 DEF PidSound, SameProcess, ServerRead
  <2> QED  BY <2>3, <2>4
<1> QED  BY <1>2, <1>3, <1>4

LEMMA ServerOpenClientKeeps ==
  ASSUME FifoInv, ServerOpenClient PROVE FifoInv'
<1> USE FifoAssumption DEF FifoInv, clientVars, bounds
<1>1. sreq \in Request /\ sreq.pid \in Pids
  BY DEF ServerOpenClient, ServerSound, Request
<1>2. TypeOK'
  BY <1>1 DEF ServerOpenClient, TypeOK, ServerPoints, ClientPoints
<1>3. ServerSound'  BY <1>1 DEF ServerOpenClient, TypeOK, ServerSound, NoRequest
<1>4. ASSUME NEW q \in Pids PROVE PidSound(q)'
  <2>1. /\ FewerQueued(q) /\ fifo' = fifo /\ fifo' \in Seq(Request)
    BY KeptQueue DEF ServerOpenClient
  <2>2. CASE q # sreq.pid
    <3>1. SameProcess(q)  BY <1>1, <2>2 DEF ServerOpenClient, SameProcess, TypeOK
    <3>2. NothingNew(q)
      BY <1>1, <2>2 DEF ServerOpenClient, NothingNew, Handled, NoRequest
    <3> QED  BY <2>1, <3>1, <3>2, QuietStep
  <2>3. CASE q = sreq.pid /\ spc' = "read"
    <3>1. SameProcess(q)
      BY <2>3 DEF ServerOpenClient, SameProcess
    <3>2. NothingNew(q)  BY <2>3 DEF NothingNew, Handled
    <3> QED  BY <2>1, <3>1, <3>2, QuietStep
  <2>4. CASE q = sreq.pid /\ spc' # "read"
    <3>1. /\ spc = "openClient" /\ Handled(q) /\ Handled(q)' /\ sfd' = q /\ sreq' = sreq
          /\ Queued(q)' = Queued(q)
          /\ spc' = IF ClientReads(q) THEN "write" ELSE "waitClient"
          /\ cpc'[q] = IF cpc[q] = "waitResp" THEN "readResp" ELSE cpc[q]
          /\ UNCHANGED <<run, answer, killed, resp>>
      BY <2>4, <1>1 DEF ServerOpenClient, Handled, Queued, TypeOK
    <3>2. ASSUME killed[q] = {} PROVE Orderly(q)'
      <4>1. Orderly(q)  BY <3>2 DEF PidSound
      <4>2. /\ Queued(q)' = {} /\ sreq'.run = run[q] /\ resp'[q] = <<>>
        BY <3>1, <4>1 DEF Orderly
      <4>3. IF spc' = "write" THEN cpc'[q] = "readResp" /\ sfd' = q ELSE AwaitsServer(q)'
        BY <3>1, <4>1 DEF Orderly, AwaitsServer, ClientReads
      <4> QED  BY <3>1, <4>1, <4>2, <4>3 DEF Orderly
    <3>3. ASSUME NEW k \in killed[q], NotBefore(q, k) PROVE NotBefore(q, k)'
      BY <2>1, <3>1, <3>3 DEF NotBefore
    <3>4. cpc'[q] # "idle" => cpc[q] # "idle"  BY <3>1
    <3> QED  BY <3>1, <3>2, <3>3, <3>4 DEF PidSound
  <2> QED  BY <2>2, <2>3, <2>4
<1> QED  BY <1>2, <1>3, <1>4

LEMMA ServerWriteKeeps ==
  ASSUME FifoInv, ServerWrite PROVE FifoInv'
<1> USE FifoAssumption DEF FifoInv, clientVars, bounds
<1>1. sreq \in Request /\ sreq.pid \in Pids /\ sreq.run \in Runs
  BY DEF ServerWrite, ServerSound, Request
<1>2. ASSUME NEW q \in Pids
      PROVE  \/ resp'[q] = resp[q]
             \/ /\ q = sreq.pid /\ resp'[q] = Append(resp[q], sreq.run)
                /\ resp'[q] \in Seq(Runs)
  <2>1. resp[q] \in Seq(Runs)  BY DEF TypeOK
  <2>2. Append(resp[q], sreq.run) \in Seq(Runs)  BY <1>1, <2>1, AppendProperties
  <2> QED  BY <2>1, <2>2, <1>1 DEF ServerWrite, TypeOK
<1>3. TypeOK'
  <2>1. resp' \in [Pids -> Seq(Runs)]
    <3>1. \A q \in Pids : resp'[q] \in Seq(Runs)  BY <1>2 DEF TypeOK
    <3>2. resp' = [q \in Pids |-> resp'[q]]  BY DEF ServerWrite, TypeOK
    <3> QED  BY <3>1, <3>2
  <2> QED  BY <2>1 DEF ServerWrite, TypeOK, ServerPoints
<1>4. ServerSound'  BY DEF ServerWrite, TypeOK, ServerSound
<1>5. ASSUME NEW q \in Pids PROVE PidSound(q)'
  <2>1. FewerQueued(q) /\ fifo' \in Seq(Request)
    BY KeptQueue DEF ServerWrite
  <2>2. CASE q # sreq.pid
    <3>1. SameProcess(q)  BY <1>2, <2>2 DEF ServerWrite, SameProcess
    <3>2. NothingNew(q)
      BY <2>2 DEF ServerWrite, NothingNew, Handled, ServerSound
    <3> QED  BY <2>1, <3>1, <3>2, QuietStep
  <2>3. CASE q = sreq.pid
    <3>1. /\ Handled(q) /\ spc = "write" /\ spc' = "close" /\ sfd' = sfd
          /\ ~Handled(q)' /\ Queued(q)' = Queued(q) /\ fifo' = fifo
          /\ UNCHANGED <<run, answer, killed, cpc>>
      BY <2>3 DEF ServerWrite, Handled, Queued
    <3>2. ASSUME killed[q] = {} PROVE Orderly(q)'
      <4>1. Orderly(q)  BY <3>2 DEF PidSound
      <4>2. resp[q] = <<>> /\ Queued(q) = {} /\ sreq.run = run[q] /\ cpc[q] = "readResp"
        BY <3>1, <4>1 DEF Orderly
      <4>3. \A i \in DOMAIN resp'[q] : i = 1 /\ resp'[q][i] = run[q]
        BY <1>1, <1>2, <4>2, EmptySeq, AppendProperties, LenProperties
      <4> QED  BY <3>1, <4>1, <4>2, <4>3 DEF Orderly
    <3>3. ASSUME NEW k \in killed[q], NotBefore(q, k) PROVE NotBefore(q, k)'
      <4>1. k <= sreq.run /\ \A i \in DOMAIN resp[q] : k <= resp[q][i]
        BY <3>1, <3>3 DEF NotBefore
      <4>2. \A i \in DOMAIN resp'[q] : k <= resp'[q][i]
        <5>1. resp[q] \in Seq(Runs)  BY DEF TypeOK
        <5>2. CASE resp'[q] = resp[q]  BY <4>1, <5>2
        <5>3. CASE resp'[q] = Append(resp[q], sreq.run)
          <6>1. /\ DOMAIN resp'[q] = 1..(Len(resp[q]) + 1)
                /\ DOMAIN resp[q] = 1..Len(resp[q]) /\ Len(resp[q]) \in Nat
                /\ \A i \in 1..Len(resp[q]) : resp'[q][i] = resp[q][i]
                /\ resp'[q][Len(resp[q]) + 1] = sreq.run
            BY <1>1, <1>2, <5>1, <5>3, AppendProperties, LenProperties
          <6> QED  BY <4>1, <6>1
        <5> QED  BY <1>2, <5>2, <5>3
      <4> QED  BY <3>1, <3>3, <4>2 DEF NotBefore
    <3> QED  BY <3>1, <3>2, <3>3 DEF PidSound
  <2> QED  BY <2>2, <2>3
<1> QED  BY <1>3, <1>4, <1>5

LEMMA ServerCloseKeeps ==
  ASSUME FifoInv, ServerClose PROVE FifoInv'
<1> USE FifoAssumption DEF FifoInv, clientVars, bounds
<1>1. sreq \in Request /\ sreq.pid \in Pids
  BY DEF ServerClose, ServerSound, Request
<1>2. \A q \in Pids : resp'[q] = resp[q] \/ resp'[q] = <<>>
  BY <1>1 DEF ServerClose, TypeOK
<1>3. TypeOK'
  <2>1. resp' \in [Pids -> Seq(Runs)]
    <3>1. ASSUME NEW q \in Pids PROVE resp'[q] \in Seq(Runs)
      <4>1. resp[q] \in Seq(Runs)  BY DEF TypeOK
      <4>2. CASE resp'[q] = resp[q]  BY <4>1, <4>2
      <4>3. CASE resp'[q] = <<>>  BY <4>3, EmptySeq
      <4> QED  BY <1>2, <4>2, <4>3
    <3>2. resp' = [q \in Pids |-> resp'[q]]  BY DEF ServerClose, TypeOK
    <3> QED  BY <3>1, <3>2
  <2> QED  BY <2>1 DEF ServerClose, TypeOK, ServerPoints
<1>4. ServerSound'  BY DEF ServerClose, TypeOK, ServerSound
<1>5. ASSUME NEW q \in Pids PROVE PidSound(q)'
  <2>1. SameProcess(q)  BY <1>2 DEF ServerClose, SameProcess
  <2>2. NothingNew(q)  BY DEF ServerClose, NothingNew, Handled
  <2> QED  BY <2>1, <2>2, KeptQueue, QuietStep DEF ServerClose
<1> QED  BY <1>3, <1>4, <1>5

LEMMA ServerCrashKeeps ==
  ASSUME FifoInv, ServerCrash PROVE FifoInv'
<1> USE FifoAssumption DEF FifoInv, clientVars, bounds
<1>1. /\ \A q \in Pids : resp'[q] = resp[q] \/ resp'[q] = <<>>
      /\ fifo' = fifo \/ fifo' = <<>>
  BY DEF ServerCrash, TypeOK
<1>2. TypeOK'
  <2>1. resp' \in [Pids -> Seq(Runs)]
    <3>1. ASSUME NEW q \in Pids PROVE resp'[q] \in Seq(Runs)
      <4>1. resp[q] \in Seq(Runs)  BY DEF TypeOK
      <4>2. CASE resp'[q] = resp[q]  BY <4>1, <4>2
      <4>3. CASE resp'[q] = <<>>  BY <4>3, EmptySeq
      <4> QED  BY <1>1, <4>2, <4>3
    <3>2. resp' = [q \in Pids |-> resp'[q]]  BY DEF ServerCrash
    <3> QED  BY <3>1, <3>2
  <2>2. fifo' \in Seq(Request)
    <3>1. <<>> \in Seq(Request) /\ fifo \in Seq(Request)  BY EmptySeq DEF TypeOK
    <3> QED  BY <1>1, <3>1
  <2>3. crashes' \in 0..MaxCrashes  BY DEF ServerCrash, TypeOK
  <2>4. /\ spc' = "off" /\ sreq' = NoRequest /\ sfd' = NoFifo /\ swrite' = FALSE
        /\ UNCHANGED <<sexists, cpc, run, exists, answer, killed, kills>>
    BY DEF ServerCrash
  <2> QED  BY <2>1, <2>2, <2>3, <2>4 DEF TypeOK, ServerPoints
<1>3. ServerSound'  BY DEF ServerCrash, TypeOK, ServerSound
<1>4. ASSUME NEW q \in Pids PROVE PidSound(q)'
  <2>1. SameProcess(q)  BY <1>1 DEF ServerCrash, SameProcess
  <2>2. NothingNew(q)  BY DEF ServerCrash, NothingNew, Handled
  <2> QED  BY <1>1, <2>1, <2>2, KeptQueue, QuietStep
<1> QED  BY <1>2, <1>3, <1>4

LEMMA ClientStartKeeps ==
  ASSUME FifoInv, NEW p \in Pids, ClientStart(p) PROVE FifoInv'
<1> USE FifoAssumption DEF FifoInv, serverVars, bounds
<1>1. TypeOK'  BY DEF ClientStart, TypeOK, ClientPoints
<1>2. ServerSound'  BY DEF ClientStart, ServerSound
<1>3. ASSUME NEW q \in Pids PROVE PidSound(q)'
  <2>1. NothingNew(q)  BY DEF ClientStart, NothingNew, Handled
  <2>2. CASE q # p
    <3>1. SameProcess(q)  BY <2>2 DEF ClientStart, SameProcess, TypeOK
    <3> QED  BY <2>1, <3>1, KeptQueue, QuietStep DEF ClientStart
  <2>3. CASE q = p
    <3>1. /\ cpc[p] = "idle" /\ cpc'[p] = "openServer" /\ answer'[p] = 0
          /\ run'[p] = run[p] + 1 /\ run[p] \in Nat /\ run'[p] \in Runs
          /\ UNCHANGED <<fifo, killed, resp, spc, sreq, sfd>>
          /\ Queued(p)' = Queued(p) /\ (Handled(p)' <=> Handled(p))
      BY SMTT(30) DEF ClientStart, TypeOK, Runs, Queued, Handled
    <3>2. killed'[p] \subseteq 1..run'[p]  BY <3>1 DEF PidSound
    <3>3. ASSUME killed[p] = {} PROVE Orderly(p)'
      <4>1. Orderly(p)  BY <3>3 DEF PidSound
      <4>2. Queued(p) = {} /\ ~Handled(p) /\ resp[p] = <<>> /\ ~(spc = "close" /\ sfd = p)
        BY <3>1, <4>1 DEF Orderly, AwaitsServer
      <4> QED  BY <3>1, <4>2 DEF Orderly
    <3>4. ASSUME NEW k \in killed[p], NotBefore(p, k) PROVE NotBefore(p, k)'
      BY <3>1, <3>4 DEF NotBefore
    <3> QED  BY <2>3, <3>1, <3>2, <3>3, <3>4 DEF PidSound
  <2> QED  BY <2>2, <2>3
<1> QED  BY <1>1, <1>2, <1>3

LEMMA ClientOpenServerKeeps ==
  ASSUME FifoInv, NEW p \in Pids, ClientOpenServer(p) PROVE FifoInv'
<1> USE FifoAssumption DEF FifoInv, clientVars, bounds
<1>1. TypeOK'  BY DEF ClientOpenServer, TypeOK, ClientPoints, ServerPoints
<1>2. ServerSound'  BY DEF ClientOpenServer, ServerSound
<1>3. ASSUME NEW q \in Pids PROVE PidSound(q)'
  <2>1. NothingNew(q)  BY DEF ClientOpenServer, NothingNew, Handled
  <2>2. SameProcess(q)  BY DEF ClientOpenServer, SameProcess, TypeOK, Early
  <2> QED  BY <2>1, <2>2, KeptQueue, QuietStep DEF ClientOpenServer
<1> QED  BY <1>1, <1>2, <1>3

LEMMA ClientRequestKeeps ==
  ASSUME FifoInv, NEW p \in Pids, ClientRequest(p) PROVE FifoInv'
<1> USE FifoAssumption DEF FifoInv, clientVars, serverVars, bounds
<1>1. /\ run[p] \in Runs /\ fifo' = Append(fifo, [pid |-> p, run |-> run[p]])
      /\ cpc[p] = "request" /\ cpc'[p] = "closeServer"
      /\ UNCHANGED <<run, answer, killed, resp, spc, sreq, sfd>>
  BY DEF ClientRequest, PidSound, TypeOK
<1>2. /\ fifo' \in Seq(Request)
      /\ \A q \in Pids \ {p} : FewerQueued(q)
      /\ Queued(p)' = Queued(p) \cup {Len(fifo) + 1}
      /\ fifo'[Len(fifo) + 1].run = run[p]
      /\ \A i \in Queued(p) : fifo'[i] = fifo[i]
  BY <1>1, LongerQueue
<1>3. TypeOK'  BY <1>2 DEF ClientRequest, TypeOK, ClientPoints
<1>4. ServerSound'  BY DEF ClientRequest, ServerSound
<1>5. ASSUME NEW q \in Pids PROVE PidSound(q)'
  <2>1. CASE q # p
    <3>1. SameProcess(q)  BY <2>1 DEF ClientRequest, SameProcess, TypeOK
    <3>2. NothingNew(q)  BY DEF ClientRequest, NothingNew, Handled
    <3> QED  BY <1>2, <2>1, <3>1, <3>2, QuietStep
  <2>2. CASE q = p
    <3>1. Handled(p)' <=> Handled(p)  BY <1>1 DEF Handled
    <3>2. ASSUME killed[p] = {} PROVE Orderly(p)'
      <4>1. Orderly(p)  BY <3>2 DEF PidSound
      <4>2. Queued(p) = {} /\ ~Handled(p) /\ resp[p] = <<>> /\ ~(spc = "close" /\ sfd = p)
        BY <1>1, <4>1 DEF Orderly, AwaitsServer
      <4> QED  BY <1>1, <1>2, <3>1, <4>1, <4>2 DEF Orderly, AwaitsServer
    <3>3. ASSUME NEW k \in killed[p], NotBefore(p, k) PROVE NotBefore(p, k)'
      <4>1. k <= run[p]  BY DEF PidSound, TypeOK, Runs
      <4>2. \A i \in Queued(p)' : k <= fifo'[i].run
        BY <1>2, <3>3, <4>1 DEF NotBefore
      <4> QED  BY <1>1, <3>1, <3>3, <4>2 DEF NotBefore
    <3> QED  BY <1>1, <2>2, <3>2, <3>3 DEF PidSound
  <2> QED  BY <2>1, <2>2
<1> QED  BY <1>3, <1>4, <1>5

LEMMA ClientSigpipeKeeps ==
  ASSUME FifoInv, NEW p \in Pids, ClientSigpipe(p) PROVE FifoInv'
<1> USE FifoAssumption DEF FifoInv, clientVars, serverVars, bounds
<1>1. fifo' = fifo \/ fifo' = <<>>  BY DEF ClientSigpipe, Kept
<1>2. fifo' \in Seq(Request)  BY <1>1, KeptQueue
<1>3. TypeOK'  BY <1>2 DEF ClientSigpipe, TypeOK, ClientPoints
<1>4. ServerSound'  BY DEF ClientSigpipe, ServerSound
<1>5. ASSUME NEW q \in Pids PROVE PidSound(q)'
  <2>1. NothingNew(q)  BY DEF ClientSigpipe, NothingNew, Handled
  <2>2. SameProcess(q)  BY DEF ClientSigpipe, SameProcess, TypeOK, Early
  <2> QED  BY <1>1, <2>1, <2>2, KeptQueue, QuietStep
<1> QED  BY <1>3, <1>4, <1>5

LEMMA ClientCloseServerKeeps ==
  ASSUME FifoInv, NEW p \in Pids, ClientCloseServer(p) PROVE FifoInv'
<1> USE FifoAssumption DEF FifoInv, clientVars, serverVars, bounds
<1>1. fifo' = fifo \/ fifo' = <<>>  BY DEF ClientCloseServer, Kept
<1>2. fifo' \in Seq(Request)  BY <1>1, KeptQueue
<1>3. TypeOK'  BY <1>2 DEF ClientCloseServer, TypeOK, ClientPoints
<1>4. ServerSound'  BY DEF ClientCloseServer, ServerSound
<1>5. ASSUME NEW q \in Pids PROVE PidSound(q)'
  <2>1. NothingNew(q)  BY DEF ClientCloseServer, NothingNew, Handled
  <2>2. SameProcess(q)  BY DEF ClientCloseServer, SameProcess, TypeOK, AwaitsServer
  <2> QED  BY <1>1, <2>1, <2>2, KeptQueue, QuietStep
<1> QED  BY <1>3, <1>4, <1>5

LEMMA ClientOpenOwnKeeps ==
  ASSUME FifoInv, NEW p \in Pids, ClientOpenOwn(p) PROVE FifoInv'
<1> USE FifoAssumption DEF FifoInv, clientVars, bounds
<1>1. TypeOK'  BY DEF ClientOpenOwn, TypeOK, ClientPoints, ServerPoints
<1>2. ServerSound'  BY DEF ClientOpenOwn, ServerSound
<1>3. ASSUME NEW q \in Pids PROVE PidSound(q)'
  <2>1. FewerQueued(q) /\ fifo' \in Seq(Request)
    BY KeptQueue DEF ClientOpenOwn
  <2>2. CASE q # p
    <3>1. SameProcess(q)  BY <2>2 DEF ClientOpenOwn, SameProcess, TypeOK
    <3>2. NothingNew(q)
      BY <2>2 DEF ClientOpenOwn, NothingNew, Handled, ServerWrites, ServerSound
    <3> QED  BY <2>1, <3>1, <3>2, QuietStep
  <2>3. CASE q = p /\ sfd # p
    <3>1. cpc[p] = "openOwn" /\ cpc'[p] = "waitResp" /\ spc' = spc
      BY <2>3 DEF ClientOpenOwn, ServerWrites, TypeOK
    <3>2. SameProcess(q)
      BY <2>3, <3>1 DEF ClientOpenOwn, SameProcess, AwaitsServer
    <3>3. NothingNew(q)  BY <3>1 DEF ClientOpenOwn, NothingNew, Handled
    <3> QED  BY <2>1, <3>2, <3>3, QuietStep
  <2>4. CASE q = p /\ sfd = p
    <3>1. /\ cpc[p] = "openOwn" /\ cpc'[p] = "readResp" /\ sfd' = p
          /\ spc' = IF spc = "waitClient" THEN "write" ELSE spc
          /\ UNCHANGED <<fifo, run, answer, killed, resp, sreq>>
          /\ Queued(p)' = Queued(p) /\ (Handled(p)' <=> Handled(p))
      BY <2>4 DEF ClientOpenOwn, ServerWrites, TypeOK, Queued, Handled
    <3>2. sreq.pid = p /\ spc \in {"waitClient", "write", "close"} /\ p # NoFifo
      BY <2>4 DEF ServerSound
    <3>3. ASSUME killed[p] = {} PROVE Orderly(p)'
      <4>1. Orderly(p)  BY <3>3 DEF PidSound
      <4>2. spc = "waitClient"  BY <2>4, <3>1, <3>2, <4>1 DEF Orderly, Handled
      <4>3. Handled(p)  BY <3>2, <4>2 DEF Handled
      <4>4. Queued(p) = {} /\ sreq.run = run[p] /\ resp[p] = <<>>
        BY <4>1, <4>3 DEF Orderly
      <4> QED  BY <3>1, <4>1, <4>2, <4>4 DEF Orderly
    <3>4. ASSUME NEW k \in killed[p], NotBefore(p, k) PROVE NotBefore(p, k)'
      BY <3>1, <3>4 DEF NotBefore
    <3> QED  BY <2>4, <3>1, <3>3, <3>4 DEF PidSound
  <2> QED  BY <2>2, <2>3, <2>4
<1> QED  BY <1>1, <1>2, <1>3

LEMMA ClientReadKeeps ==
  ASSUME FifoInv, NEW p \in Pids, ClientRead(p) PROVE FifoInv'
<1> USE FifoAssumption DEF FifoInv, serverVars, bounds
<1>1. /\ cpc[p] = "readResp" /\ cpc'[p] = "closeOwn"
      /\ UNCHANGED <<fifo, run, killed, spc, sreq, sfd>>
      /\ resp \in [Pids -> Seq(Runs)] /\ resp[p] \in Seq(Runs)
  BY DEF ClientRead, TypeOK
<1>2. \/ resp[p] = <<>> /\ resp' = resp /\ answer' = answer /\ sfd # p
      \/ /\ resp[p] # <<>>
         /\ answer' = [answer EXCEPT ![p] = Head(resp[p])]
         /\ resp' = [resp EXCEPT ![p] = Tail(resp[p])]
  BY DEF ClientRead, ServerWrites
<1>3. ASSUME resp[p] # <<>>
      PROVE  /\ Head(resp[p]) \in Runs /\ Tail(resp[p]) \in Seq(Runs)
             /\ Head(resp[p]) = resp[p][1] /\ 1 \in DOMAIN resp[p]
             /\ \A i \in DOMAIN Tail(resp[p]) :
                  i + 1 \in DOMAIN resp[p] /\ Tail(resp[p])[i] = resp[p][i + 1]
  BY <1>1, <1>3, HeadTailProperties, LenProperties
<1>4. TypeOK'
  <2>1. answer' \in [Pids -> 0..MaxRuns] /\ resp' \in [Pids -> Seq(Runs)]
    <3>1. answer \in [Pids -> 0..MaxRuns]  BY DEF TypeOK
    <3>2. Runs \subseteq 0..MaxRuns  BY DEF Runs
    <3> QED  BY <1>1, <1>2, <1>3, <3>1, <3>2
  <2> QED  BY <2>1 DEF ClientRead, TypeOK, ClientPoints
<1>5. ServerSound'  BY DEF ClientRead, ServerSound
<1>6. ASSUME NEW q \in Pids PROVE PidSound(q)'
  <2>1. Queued(q)' = Queued(q) /\ (Handled(q)' <=> Handled(q))
    BY <1>1 DEF Queued, Handled
  <2>2. CASE q # p
    <3>1. SameProcess(q)
      BY <1>1, <1>2, <2>2 DEF ClientRead, SameProcess, TypeOK
    <3>2. NothingNew(q)  BY <1>1 DEF NothingNew, Handled
    <3> QED  BY <1>1, <3>1, <3>2, KeptQueue, QuietStep
  <2>3. CASE q = p
    <3>1. ASSUME killed[p] = {} PROVE Orderly(p)'
      <4>1. Orderly(p)  BY <3>1 DEF PidSound
      <4>2. Queued(p) = {}  BY <1>1, <4>1 DEF Orderly, AwaitsServer
      <4>3. CASE resp[p] = <<>>
        <5>1. resp' = resp /\ answer' = answer /\ sfd # p  BY <1>2, <4>3
        <5>2. ~Handled(p)
          BY <1>1, <5>1, <4>1 DEF Orderly, AwaitsServer, Handled
        <5>3. /\ Queued(p)' = {} /\ ~Handled(p)' /\ resp'[p] = <<>>
              /\ answer'[p] = answer[p] /\ run'[p] = run[p] /\ sfd' # p
              /\ answer[p] \in {0, run[p]}
          BY <1>1, <2>1, <2>3, <4>1, <4>2, <4>3, <5>1, <5>2 DEF Orderly
        <5>4. \A i \in DOMAIN resp'[p] : FALSE  BY <5>3
        <5> QED  BY <5>3, <5>4 DEF Orderly
      <4>4. CASE resp[p] # <<>>
        <5>1. answer'[p] = Head(resp[p]) /\ resp'[p] = Tail(resp[p])
          BY <1>1, <1>2, <4>4 DEF TypeOK
        <5>2. answer'[p] = run[p] /\ ~Handled(p)
          BY <1>3, <4>1, <4>4, <5>1 DEF Orderly
        <5>3. \A i \in DOMAIN resp'[p] : i \in Nat /\ i > 0 /\ i + 1 = 1
          BY <1>3, <4>1, <4>4, <5>1, LenProperties DEF Orderly
        <5>4. resp'[p] = <<>>
          BY <1>3, <4>4, <5>1, <5>3, EmptySeq, LenProperties
        <5>5. /\ Queued(p)' = {} /\ ~Handled(p)' /\ resp'[p] = <<>>
              /\ answer'[p] = run'[p] /\ cpc'[p] = "closeOwn"
          BY <1>1, <2>1, <2>3, <4>2, <5>2, <5>4
        <5>6. \A i \in DOMAIN resp'[p] : FALSE  BY <5>3
        <5> QED  BY <5>5, <5>6 DEF Orderly
      <4> QED  BY <4>3, <4>4
    <3>2. ASSUME NEW k \in killed[p], NotBefore(p, k) PROVE NotBefore(p, k)'
      <4>1. CASE resp[p] = <<>>
        BY <1>1, <1>2, <2>1, <2>3, <3>2, <4>1 DEF NotBefore
      <4>2. CASE resp[p] # <<>>
        <5>1. answer'[p] = Head(resp[p]) /\ resp'[p] = Tail(resp[p])
          BY <1>1, <1>2, <4>2 DEF TypeOK
        <5>2. k <= answer'[p] /\ \A i \in DOMAIN resp'[p] : k <= resp'[p][i]
          BY <1>3, <3>2, <4>2, <5>1 DEF NotBefore
        <5> QED  BY <1>1, <2>1, <2>3, <3>2, <5>2 DEF NotBefore
      <4> QED  BY <4>1, <4>2
    <3> QED  BY <1>1, <2>3, <3>1, <3>2 DEF PidSound
  <2> QED  BY <2>2, <2>3
<1> QED  BY <1>4, <1>5, <1>6

LEMMA ClientCloseOwnKeeps ==
  ASSUME FifoInv, NEW p \in Pids, ClientCloseOwn(p) PROVE FifoInv'
<1> USE FifoAssumption DEF FifoInv, clientVars, serverVars, bounds
<1>1. <<>> \in Seq(Runs)  BY EmptySeq
<1>2. TypeOK'  BY <1>1 DEF ClientCloseOwn, TypeOK, ClientPoints
<1>3. ServerSound'  BY DEF ClientCloseOwn, ServerSound
<1>4. ASSUME NEW q \in Pids PROVE PidSound(q)'
  <2>1. NothingNew(q)  BY DEF ClientCloseOwn, NothingNew, Handled
  <2>2. SameProcess(q)  BY DEF ClientCloseOwn, SameProcess, TypeOK, Done
  <2> QED  BY <2>1, <2>2, KeptQueue, QuietStep DEF ClientCloseOwn
<1> QED  BY <1>2, <1>3, <1>4

LEMMA ClientExitKeeps ==
  ASSUME FifoInv, NEW p \in Pids, ClientExit(p) PROVE FifoInv'
<1> USE FifoAssumption DEF FifoInv, bounds
<1>1. <<>> \in Seq(Runs)  BY EmptySeq
<1>2. TypeOK'  BY <1>1 DEF ClientExit, TypeOK, ClientPoints
<1>3. ServerSound'  BY DEF ClientExit, ServerSound
<1>4. ASSUME NEW q \in Pids PROVE PidSound(q)'
  <2>1. NothingNew(q)
    BY DEF ClientExit, NothingNew, Handled, ServerSound, TypeOK
  <2>2. SameProcess(q)  BY DEF ClientExit, SameProcess, TypeOK, Done
  <2> QED  BY <2>1, <2>2, KeptQueue, QuietStep DEF ClientExit
<1> QED  BY <1>2, <1>3, <1>4

LEMMA ClientKilledKeeps ==
  ASSUME FifoInv, NEW p \in Pids, ClientKilled(p) PROVE FifoInv'
<1> USE FifoAssumption DEF FifoInv, serverVars, bounds
<1>1. fifo' = fifo \/ fifo' = <<>>  BY DEF ClientKilled, Kept
<1>2. fifo' \in Seq(Request)  BY <1>1, KeptQueue
<1>3. /\ cpc[p] # "idle" /\ cpc'[p] = "idle" /\ run[p] \in Runs
      /\ UNCHANGED <<run, answer, spc, sreq, sfd>>
      /\ killed'[p] = killed[p] \cup {run[p]}
      /\ resp'[p] = resp[p] \/ resp'[p] = <<>>
  BY DEF ClientKilled, PidSound, TypeOK
<1>4. TypeOK'
  <2>1. <<>> \in Seq(Runs)  BY EmptySeq
  <2> QED  BY <1>2, <1>3, <2>1 DEF ClientKilled, TypeOK, ClientPoints
<1>5. ServerSound'  BY DEF ClientKilled, ServerSound
<1>6. ASSUME NEW q \in Pids PROVE PidSound(q)'
  <2>1. FewerQueued(q)  BY <1>1, KeptQueue
  <2>2. CASE q # p
    <3>1. SameProcess(q)  BY <2>2 DEF ClientKilled, SameProcess, TypeOK
    <3>2. NothingNew(q)  BY <1>3 DEF NothingNew, Handled
    <3> QED  BY <1>2, <2>1, <3>1, <3>2, QuietStep
  <2>3. CASE q = p
    <3>1. ASSUME NEW k \in Nat, NotBefore(p, k) PROVE NotBefore(p, k)'
      <4>1. \A i \in Queued(p)' : k <= fifo'[i].run
        BY <2>1, <2>3, <3>1 DEF FewerQueued, NotBefore
      <4>2. Handled(p)' => k <= sreq'.run  BY <1>3, <3>1 DEF NotBefore, Handled
      <4>3. \A i \in DOMAIN resp'[p] : k <= resp'[p][i]
        BY <1>3, <3>1 DEF NotBefore
      <4> QED  BY <1>3, <3>1, <4>1, <4>2, <4>3 DEF NotBefore
    <3>2. killed'[p] \subseteq 1..run'[p]
      BY <1>3 DEF PidSound, Runs
    <3>3. CASE killed[p] = {}
      <4>1. Orderly(p)  BY <3>3 DEF PidSound
      <4>2. NotBefore(p, run[p])
        BY <1>3, <4>1 DEF Orderly, NotBefore, Runs
      <4>3. NotBefore(p, run[p])'
        <5>1. run[p] \in Nat  BY <1>3 DEF Runs
        <5> QED  BY <1>3, <3>1, <4>2, <5>1
      <4>4. run[p] \in killed'[p]  BY <1>3
      <4> QED  BY <1>3, <2>3, <3>2, <4>3, <4>4 DEF PidSound
    <3>4. CASE killed[p] # {}
      <4>1. PICK k \in killed[p] : NotBefore(p, k)  BY <3>4 DEF PidSound
      <4>2. k \in Nat  BY <4>1 DEF TypeOK, Runs
      <4>3. NotBefore(p, k)'  BY <3>1, <4>1, <4>2
      <4>4. k \in killed'[p]  BY <1>3, <4>1
      <4> QED  BY <1>3, <2>3, <3>2, <4>3, <4>4 DEF PidSound
    <3> QED  BY <3>3, <3>4
  <2> QED  BY <2>2, <2>3
<1> QED  BY <1>4, <1>5, <1>6

-----------------------------------------------------------------------------
LEMMA FifoStutters ==
  ASSUME FifoInv, UNCHANGED vars PROVE FifoInv'
<1> USE DEF vars, FifoInv
<1>1. TypeOK' /\ ServerSound'  BY DEF TypeOK, ServerSound
<1>2. ASSUME NEW q \in Pids PROVE PidSound(q)'
  <2>1. SameProcess(q) /\ NothingNew(q)  BY DEF SameProcess, NothingNew, Handled
  <2> QED  BY <2>1, KeptQueue, QuietStep
<1> QED  BY <1>1, <1>2

LEMMA ServerKeeps ==
  ASSUME FifoInv, ServerStart \/ ServerStep \/ ServerCrash PROVE FifoInv'
BY ServerStartKeeps, ServerOpenReadKeeps, ServerOpenWriteKeeps, ServerReadKeeps,
   ServerOpenClientKeeps, ServerWriteKeeps, ServerCloseKeeps, ServerCrashKeeps,
   FifoStutters DEF ServerStep, ServerReadsEOF

LEMMA ClientKeeps ==
  ASSUME FifoInv, NEW p \in Pids,
         ClientStart(p) \/ ClientStep(p) \/ ClientKilled(p)
  PROVE  FifoInv'
BY ClientStartKeeps, ClientOpenServerKeeps, ClientRequestKeeps, ClientSigpipeKeeps,
   ClientCloseServerKeeps, ClientOpenOwnKeeps, ClientReadKeeps, ClientCloseOwnKeeps,
   ClientExitKeeps, ClientKilledKeeps
   DEF ClientStep

LEMMA InitSound == Init => FifoInv
<1> SUFFICES ASSUME Init PROVE FifoInv
  OBVIOUS
<1> USE FifoAssumption DEF Init
<1>1. TypeOK
  <2>1. <<>> \in Seq(Request) /\ <<>> \in Seq(Runs)  BY EmptySeq
  <2>2. resp \in [Pids -> Seq(Runs)] /\ fifo \in Seq(Request)  BY <2>1
  <2>3. cpc \in [Pids -> ClientPoints]  BY DEF ClientPoints
  <2>4. /\ run \in [Pids -> 0..MaxRuns] /\ answer \in [Pids -> 0..MaxRuns]
        /\ kills \in 0..MaxKills /\ crashes \in 0..MaxCrashes
    OBVIOUS
  <2>5. exists \in [Pids -> BOOLEAN] /\ killed \in [Pids -> SUBSET Runs]
    OBVIOUS
  <2>6. /\ spc \in ServerPoints /\ swrite \in BOOLEAN /\ sexists \in BOOLEAN
        /\ sreq = NoRequest /\ sfd = NoFifo
    BY DEF ServerPoints
  <2> HIDE DEF Init
  <2> QED  BY <2>2, <2>3, <2>4, <2>5, <2>6 DEF TypeOK
<1>2. ServerSound  BY DEF ServerSound
<1>3. ASSUME NEW p \in Pids PROVE PidSound(p)
  <2>1. Orderly(p)  BY DEF Orderly, Queued, Handled
  <2> QED  BY <2>1 DEF PidSound
<1> QED  BY <1>1, <1>2, <1>3 DEF FifoInv

(* While nobody of a pid has been killed, what is queued, handled, buffered *)
(* or printed for it belongs to its present process; afterwards none of it  *)
(* is older than the first process killed.                                  *)
THEOREM FifoInvariance == Spec => []FifoInv
<1>1. FifoInv /\ [Next]_vars => FifoInv'
  <2> SUFFICES ASSUME FifoInv, [Next]_vars PROVE FifoInv'
    OBVIOUS
  <2>1. CASE UNCHANGED vars  BY <2>1, FifoStutters
  <2>2. CASE AtRest  BY <2>2, FifoStutters DEF AtRest
  <2> QED  BY <2>1, <2>2, ServerKeeps, ClientKeeps DEF Next
<1> QED  BY <1>1, InitSound, PTL DEF Spec

(* A client prints the answer to its own request, or to one of an earlier *)
(* process of its pid that is not older than a killed one.                *)
THEOREM AnswersReachTheirAskers == Spec => []AnswerIsOwn
<1>1. FifoInv => AnswerIsOwn
  <2> SUFFICES ASSUME FifoInv, NEW p \in Pids
               PROVE  answer[p] \in {0, run[p]} \/ \E k \in killed[p] : k <= answer[p]
    BY DEF AnswerIsOwn
  <2>1. CASE killed[p] = {}  BY <2>1 DEF FifoInv, PidSound, Orderly
  <2>2. CASE killed[p] # {}  BY <2>2 DEF FifoInv, PidSound, NotBefore
  <2> QED  BY <2>1, <2>2
<1> QED  BY <1>1, FifoInvariance, PTL

-----------------------------------------------------------------------------
(* Requests are neither lost nor dropped.                                  *)

Conserved(p) ==
  AwaitsServer(p) /\ crashes = 0 =>
    LET r == [pid |-> p, run |-> run[p]] IN r = sreq \/ Contains(fifo, r)

LEMMA ConservedEach == RequestConserved <=> \A p \in Pids : Conserved(p)
BY DEF RequestConserved, Conserved, AwaitsServer

(* What a step that leaves the queue alone has to show.                    *)
LEMMA SameQueueKeeps ==
  ASSUME ConservedInv, fifo' = fifo, sreq' = sreq, run' = run, exists' = exists,
         crashes' = crashes,
         \A p \in Pids :
           /\ cpc'[p] # "idle" => cpc[p] # "idle"
           /\ AwaitsServer(p)' => AwaitsServer(p),
         KeepsReading', OneAtATime', NotAwaitedOnceOpen'
  PROVE  ConservedInv'
<1> USE DEF ConservedInv
<1>1. KeepsOwnFifo' /\ NoneFromLater'  BY DEF KeepsOwnFifo, NoneFromLater
<1>2. \A p \in Pids : Conserved(p)'
  <2>1. \A p \in Pids : Conserved(p)  BY ConservedEach
  <2> QED  BY <2>1 DEF Conserved
<1>3. RequestConserved'  BY <1>2 DEF RequestConserved, Conserved, AwaitsServer
<1> QED  BY <1>1, <1>3

LEMMA ServerOpensKeep ==
  ASSUME TypeOK, ConservedInv, ServerStart \/ ServerOpenRead \/ ServerOpenWrite
  PROVE  ConservedInv'
<1> USE DEF ConservedInv
<1>1. /\ UNCHANGED <<fifo, sreq, run, exists, crashes>>
      /\ ServerReads => ServerReads'
      /\ spc \in {"off", "openRead", "openWrite"}
      /\ spc' \in {"openRead", "opening", "openWrite", "read"}
  BY DEF ServerStart, ServerOpenRead, ServerOpenWrite, ServerReads, clientVars, bounds
<1>2. \A p \in Pids :
        /\ cpc'[p] # "idle" => cpc[p] # "idle"
        /\ AwaitsServer(p)' => AwaitsServer(p)
        /\ cpc'[p] = "request" => cpc[p] = "request" \/ ServerReads'
  BY DEF ServerStart, ServerOpenRead, ServerOpenWrite, AwaitsServer, ServerReads
<1>3. KeepsReading'  BY <1>1, <1>2 DEF KeepsReading
<1>4. OneAtATime' /\ NotAwaitedOnceOpen'
  BY <1>1 DEF OneAtATime, NotAwaitedOnceOpen
<1> QED  BY <1>1, <1>2, <1>3, <1>4, SameQueueKeeps

LEMMA ServerReadConserves ==
  ASSUME TypeOK, ConservedInv, ServerRead PROVE ConservedInv'
<1> USE DEF ConservedInv
<1>1. /\ spc = "read" /\ spc' = "openClient" /\ sreq = NoRequest
      /\ fifo # <<>> /\ fifo' = Tail(fifo) /\ sreq' = Head(fifo)
      /\ UNCHANGED <<cpc, run, exists, crashes>>
  BY DEF ServerRead, OneAtATime, clientVars, bounds
<1>2. /\ Head(fifo) = fifo[1] /\ Tail(fifo) \in Seq(Request)
      /\ Len(Tail(fifo)) = Len(fifo) - 1
      /\ \A i \in 1..Len(Tail(fifo)) : Tail(fifo)[i] = fifo[i + 1]
      /\ Len(fifo) \in Nat /\ Len(fifo) > 0 /\ DOMAIN fifo = 1..Len(fifo)
      /\ DOMAIN Tail(fifo) = 1..Len(Tail(fifo)) /\ Len(Tail(fifo)) \in Nat
  <2>1. fifo \in Seq(Request)  BY DEF TypeOK
  <2>2. Tail(fifo) \in Seq(Request)  BY <1>1, <2>1, HeadTailProperties
  <2>3. Len(fifo) # 0  BY <1>1, <2>1, EmptySeq
  <2> QED  BY <1>1, <2>1, <2>2, <2>3, HeadTailProperties, LenProperties
<1>3. KeepsReading' /\ KeepsOwnFifo' /\ OneAtATime' /\ NotAwaitedOnceOpen'
  BY <1>1 DEF KeepsReading, KeepsOwnFifo, OneAtATime, NotAwaitedOnceOpen,
              ServerReads, AwaitsServer
<1>4. NoneFromLater'
  <2>1. sreq'.run <= run'[sreq'.pid]  BY <1>1, <1>2 DEF NoneFromLater
  <2>2. ASSUME NEW i \in DOMAIN fifo' PROVE fifo'[i].run <= run'[fifo'[i].pid]
    <3>1. i + 1 \in DOMAIN fifo /\ fifo'[i] = fifo[i + 1]  BY <1>1, <1>2
    <3> QED  BY <1>1, <3>1 DEF NoneFromLater
  <2> QED  BY <2>1, <2>2 DEF NoneFromLater
<1>5. ASSUME NEW p \in Pids PROVE Conserved(p)'
  <2> DEFINE r == [pid |-> p, run |-> run[p]]
  <2> SUFFICES ASSUME AwaitsServer(p), crashes = 0
               PROVE  r = sreq' \/ Contains(fifo', r)
    BY <1>1 DEF Conserved, AwaitsServer
  <2>1. r # sreq  BY <1>1, FifoAssumption DEF NoRequest
  <2>2. Contains(fifo, r)  BY <2>1, ConservedEach DEF Conserved
  <2> HIDE DEF r
  <2>3. PICK i \in 1..Len(fifo) : fifo[i] = r  BY <2>2 DEF Contains
  <2>4. CASE i = 1  BY <1>1, <1>2, <2>3, <2>4
  <2>5. CASE i # 1
    <3>1. i - 1 \in 1..Len(fifo') /\ fifo'[i - 1] = fifo[(i - 1) + 1] /\ (i - 1) + 1 = i
      BY <1>1, <1>2, <2>5
    <3> QED  BY <2>3, <3>1 DEF Contains
  <2> QED  BY <2>4, <2>5
<1>6. RequestConserved'  BY <1>5 DEF RequestConserved, Conserved, AwaitsServer
<1> QED  BY <1>3, <1>4, <1>6

LEMMA ServerOpenClientConserves ==
  ASSUME TypeOK, ServerSound, ConservedInv, ServerOpenClient PROVE ConservedInv'
<1> USE DEF ConservedInv
<1> DEFINE p == sreq.pid
<1>1. spc = "openClient" /\ sreq \in Request /\ p \in Pids
  BY DEF ServerOpenClient, ServerSound, Request
<1>2. UNCHANGED <<fifo, run, exists, crashes>>
  BY DEF ServerOpenClient, clientVars, bounds
(* Without the client's FIFO: the client has exited. *)
<1>3. CASE ~exists[p] /\ spc' = "read" /\ sreq' = NoRequest /\ cpc' = cpc
  <2>1. cpc[p] = "idle"  BY <1>1, <1>3 DEF KeepsOwnFifo
  <2>2. KeepsReading' /\ KeepsOwnFifo' /\ OneAtATime' /\ NotAwaitedOnceOpen'
    BY <1>1, <1>2, <1>3 DEF KeepsReading, KeepsOwnFifo, OneAtATime,
       NotAwaitedOnceOpen, ServerReads, AwaitsServer
  <2>3. NoneFromLater'
    BY <1>2, <1>3, FifoAssumption DEF NoneFromLater, Request, NoRequest
  <2>4. ASSUME NEW q \in Pids PROVE Conserved(q)'
    <3>1. Conserved(q)  BY ConservedEach
    <3>2. CASE q = p  BY <1>3, <2>1, <3>2 DEF Conserved, AwaitsServer
    <3>3. CASE q # p
      <4>1. [pid |-> q, run |-> run[q]] # sreq  BY <3>3
      <4> QED  BY <1>2, <1>3, <3>1, <4>1 DEF Conserved, AwaitsServer
    <3> QED  BY <3>2, <3>3
  <2>5. RequestConserved'  BY <2>4 DEF RequestConserved, Conserved, AwaitsServer
  <2> QED  BY <2>2, <2>3, <2>5
(* With it: a client that had it open for reading, or was opening it, has. *)
<1>4. CASE /\ spc' = IF ClientReads(p) THEN "write" ELSE "waitClient"
           /\ cpc' = [cpc EXCEPT ![p] = IF @ = "waitResp" THEN "readResp" ELSE @]
           /\ sreq' = sreq
  <2>1. \A q \in Pids : cpc'[q] = cpc[q] \/ (cpc[q] = "waitResp" /\ cpc'[q] = "readResp")
    BY <1>1, <1>4 DEF TypeOK
  <2>2. \A q \in Pids : /\ cpc'[q] # "idle" => cpc[q] # "idle"
                        /\ AwaitsServer(q)' => AwaitsServer(q)
    BY <2>1 DEF AwaitsServer
  <2>3. KeepsReading'
    BY <1>1, <1>2, <1>4, <2>1 DEF KeepsReading, ServerReads, AwaitsServer
  <2>4. OneAtATime'  BY <1>4 DEF OneAtATime
  <2>5. NotAwaitedOnceOpen'
    <3>1. spc' \in {"write", "close"} => cpc'[p] \in {"readResp", "closeOwn"}
      BY <1>1, <1>4 DEF ClientReads, TypeOK
    <3>2. \A q \in Pids : sreq' = [pid |-> q, run |-> run'[q]] => q = p
      BY <1>4
    <3> HIDE DEF p
    <3> QED  BY <3>1, <3>2 DEF NotAwaitedOnceOpen
  <2> QED  BY <1>2, <1>4, <2>2, <2>3, <2>4, <2>5, SameQueueKeeps
<1> QED  BY <1>3, <1>4 DEF ServerOpenClient

LEMMA ServerWriteConserves ==
  ASSUME ConservedInv, ServerWrite PROVE ConservedInv'
<1>1. /\ spc = "write" /\ spc' = "close"
      /\ UNCHANGED <<fifo, sreq, cpc, run, exists, crashes>>
  BY DEF ServerWrite, clientVars, bounds
<1>2. KeepsReading' /\ OneAtATime' /\ NotAwaitedOnceOpen'
  BY <1>1 DEF ConservedInv, KeepsReading, OneAtATime, NotAwaitedOnceOpen,
              ServerReads, AwaitsServer
<1>3. \A p \in Pids : /\ cpc'[p] # "idle" => cpc[p] # "idle"
                      /\ AwaitsServer(p)' => AwaitsServer(p)
  BY <1>1 DEF AwaitsServer
<1> QED  BY <1>1, <1>2, <1>3, SameQueueKeeps

(* The request that is forgotten is that of a client which no longer waits. *)
LEMMA ServerCloseConserves ==
  ASSUME ConservedInv, ServerClose PROVE ConservedInv'
<1> USE DEF ConservedInv
<1>1. /\ spc = "close" /\ spc' = "read" /\ sreq' = NoRequest
      /\ UNCHANGED <<fifo, cpc, run, exists, crashes>>
  BY DEF ServerClose, clientVars, bounds
<1>2. KeepsReading' /\ KeepsOwnFifo' /\ OneAtATime' /\ NotAwaitedOnceOpen'
  BY <1>1 DEF KeepsReading, KeepsOwnFifo, OneAtATime, NotAwaitedOnceOpen,
              ServerReads, AwaitsServer
<1>3. NoneFromLater'
  BY <1>1, FifoAssumption DEF NoneFromLater, Request, NoRequest
<1>4. ASSUME NEW q \in Pids PROVE Conserved(q)'
  <2>1. Conserved(q)  BY ConservedEach
  <2>2. AwaitsServer(q) => sreq # [pid |-> q, run |-> run[q]]
    BY <1>1 DEF NotAwaitedOnceOpen, AwaitsServer
  <2> QED  BY <1>1, <2>1, <2>2 DEF Conserved, AwaitsServer
<1>5. RequestConserved'  BY <1>4 DEF RequestConserved, Conserved, AwaitsServer
<1> QED  BY <1>2, <1>3, <1>5

LEMMA ServerCrashConserves ==
  ASSUME TypeOK, ConservedInv, ServerCrash PROVE ConservedInv'
<1> USE DEF ConservedInv
<1>1. /\ spc' = "off" /\ sreq' = NoRequest /\ crashes' # 0
      /\ fifo' = fifo \/ fifo' = <<>>
      /\ UNCHANGED <<cpc, run, exists>>
  BY DEF ServerCrash, clientVars, TypeOK
<1>2. KeepsReading' /\ KeepsOwnFifo' /\ OneAtATime' /\ NotAwaitedOnceOpen'
  BY <1>1 DEF KeepsReading, KeepsOwnFifo, OneAtATime, NotAwaitedOnceOpen
<1>3. NoneFromLater'
  BY <1>1, FifoAssumption DEF NoneFromLater, Request, NoRequest
<1>4. RequestConserved'  BY <1>1 DEF RequestConserved
<1> QED  BY <1>2, <1>3, <1>4

(* A step of the client of pid p, or its end, that asks for nothing new.   *)
Past == {"readResp", "closeOwn", "exit", "idle"}

LEMMA QuietClientConserves ==
  ASSUME TypeOK, ConservedInv, NEW p \in Pids,
         fifo' = fifo \/ (fifo' = <<>> /\ ~ServerReads),
         sreq' = sreq, run' = run, crashes' = crashes,
         \A q \in Pids \ {p} : cpc'[q] = cpc[q] /\ exists'[q] = exists[q],
         cpc'[p] # "idle" => exists'[p],
         AwaitsServer(p)' => AwaitsServer(p),
         cpc'[p] = "request" => ServerReads',
         cpc[p] \in Past => cpc'[p] \in Past,
         ServerReads => ServerReads',
         \/ spc' = spc
         \/ spc = "opening" /\ spc' = "openWrite"
         \/ spc = "waitClient" /\ spc' = "write" /\ sreq.pid = p /\ cpc'[p] \in Past
  PROVE  ConservedInv'
<1> USE DEF ConservedInv
<1>1. KeepsReading'
  BY DEF KeepsReading, AwaitsServer
<1>2. KeepsOwnFifo'  BY DEF KeepsOwnFifo
<1>3. NoneFromLater'  BY DEF NoneFromLater
<1>4. OneAtATime'  BY DEF OneAtATime
<1>5. NotAwaitedOnceOpen'
  <2> SUFFICES ASSUME spc' \in {"write", "close"}, NEW q \in Pids,
                      sreq = [pid |-> q, run |-> run[q]]
               PROVE  cpc'[q] \in Past
    BY DEF NotAwaitedOnceOpen, Past
  <2>1. sreq.pid = q  OBVIOUS
  <2>2. CASE spc' = spc
    <3>1. cpc[q] \in Past  BY <2>2 DEF NotAwaitedOnceOpen, Past
    <3> QED  BY <3>1
  <2>3. CASE spc' # spc  BY <2>1, <2>3
  <2> QED  BY <2>2, <2>3
<1>6. ASSUME NEW q \in Pids PROVE Conserved(q)'
  <2>1. Conserved(q)  BY ConservedEach
  <2>2. AwaitsServer(q) /\ crashes = 0 => ServerReads  BY DEF KeepsReading
  <2>3. AwaitsServer(q)' => AwaitsServer(q)  BY DEF AwaitsServer
  <2> QED  BY <2>1, <2>2, <2>3 DEF Conserved
<1>7. RequestConserved'  BY <1>6 DEF RequestConserved, Conserved, AwaitsServer
<1> QED  BY <1>1, <1>2, <1>3, <1>4, <1>5, <1>7

LEMMA ClientStartConserves ==
  ASSUME TypeOK, ConservedInv, NEW p \in Pids, ClientStart(p) PROVE ConservedInv'
<1> USE DEF ConservedInv
<1>1. /\ cpc[p] = "idle" /\ run[p] \in Nat /\ run[p] < MaxRuns
      /\ UNCHANGED <<spc, sreq, fifo, crashes>>
  BY FifoAssumption DEF ClientStart, serverVars, bounds, TypeOK
<1>2. /\ cpc'[p] = "openServer" /\ run'[p] = run[p] + 1 /\ exists'[p]
      /\ \A q \in Pids \ {p} :
           cpc'[q] = cpc[q] /\ run'[q] = run[q] /\ exists'[q] = exists[q]
  BY DEF ClientStart, TypeOK
<1>3. KeepsReading' /\ KeepsOwnFifo' /\ OneAtATime'
  BY <1>1, <1>2 DEF KeepsReading, KeepsOwnFifo, OneAtATime, ServerReads, AwaitsServer
<1>4. \A q \in Pids, n \in Nat : n <= run[q] => n <= run'[q]
  <2>1. \A q \in Pids : run[q] \in Nat  BY FifoAssumption DEF TypeOK
  <2> QED  BY <1>1, <1>2, <2>1
<1>5. NoneFromLater'
  <2>1. \A r \in Request : r.pid \in Pids /\ r.run \in Nat  BY DEF Request, Runs
  <2>2. \A i \in DOMAIN fifo : fifo[i] \in Request
    BY LenProperties DEF TypeOK
  <2> QED  BY <1>1, <1>4, <2>1, <2>2 DEF NoneFromLater
<1>6. NotAwaitedOnceOpen'
  <2> SUFFICES ASSUME spc \in {"write", "close"}, NEW q \in Pids,
                      sreq = [pid |-> q, run |-> run'[q]]
               PROVE  cpc'[q] \in Past
    BY <1>1 DEF NotAwaitedOnceOpen, Past
  <2>1. q # p
    <3> SUFFICES ASSUME q = p PROVE FALSE
      OBVIOUS
    <3>1. sreq.pid = p /\ sreq.run = run[p] + 1  BY <1>2
    <3>2. sreq \in Request  BY <1>1, <1>2, FifoAssumption DEF Request, Runs
    <3> QED  BY <1>1, <3>1, <3>2 DEF NoneFromLater
  <2> QED  BY <1>2, <2>1 DEF NotAwaitedOnceOpen, Past
<1>7. ASSUME NEW q \in Pids PROVE Conserved(q)'
  <2>1. Conserved(q)  BY ConservedEach
  <2>2. CASE q = p  BY <1>2, <2>2 DEF Conserved, AwaitsServer
  <2>3. CASE q # p  BY <1>1, <1>2, <2>1, <2>3 DEF Conserved, AwaitsServer
  <2> QED  BY <2>2, <2>3
<1>8. RequestConserved'  BY <1>7 DEF RequestConserved, Conserved, AwaitsServer
<1> QED  BY <1>3, <1>5, <1>6, <1>8

LEMMA ClientRequestConserves ==
  ASSUME TypeOK, ConservedInv, NEW p \in Pids, run[p] \in Runs, ClientRequest(p)
  PROVE  ConservedInv'
<1> USE DEF ConservedInv
<1> DEFINE r == [pid |-> p, run |-> run[p]]
<1>1. /\ cpc[p] = "request" /\ ServerReads /\ cpc'[p] = "closeServer"
      /\ \A q \in Pids \ {p} : cpc'[q] = cpc[q]
      /\ fifo' = Append(fifo, r)
      /\ UNCHANGED <<spc, sreq, run, exists, crashes>>
  BY DEF ClientRequest, serverVars, clientVars, bounds, TypeOK
<1>2. r \in Request /\ r.pid = p /\ r.run = run[p] /\ run[p] \in Nat
  BY DEF Request, Runs
<1> HIDE DEF r
<1>3. /\ Len(fifo) \in Nat /\ DOMAIN fifo = 1..Len(fifo)
      /\ Len(fifo') = Len(fifo) + 1 /\ DOMAIN fifo' = 1..(Len(fifo) + 1)
      /\ \A i \in 1..Len(fifo) : fifo'[i] = fifo[i]
      /\ fifo'[Len(fifo) + 1] = r
  <2>1. fifo \in Seq(Request)  BY DEF TypeOK
  <2>2. fifo' \in Seq(Request)  BY <1>1, <1>2, <2>1, AppendProperties
  <2> QED  BY <1>1, <1>2, <2>1, <2>2, AppendProperties, LenProperties
<1>4. KeepsReading' /\ KeepsOwnFifo' /\ OneAtATime'
  BY <1>1 DEF KeepsReading, KeepsOwnFifo, OneAtATime, ServerReads, AwaitsServer
<1>5. NoneFromLater'
  <2>1. \A i \in DOMAIN fifo' : i \in 1..Len(fifo) \/ i = Len(fifo) + 1  BY <1>3
  <2>2. \A i \in DOMAIN fifo' : fifo'[i].run <= run[fifo'[i].pid]
    BY <1>2, <1>3, <2>1 DEF NoneFromLater
  <2> QED  BY <1>1, <2>2 DEF NoneFromLater
<1>6. NotAwaitedOnceOpen'
  <2>1. spc \in {"write", "close"} => sreq # [pid |-> p, run |-> run[p]]
    BY <1>1 DEF NotAwaitedOnceOpen
  <2> QED  BY <1>1, <2>1 DEF NotAwaitedOnceOpen
<1>7. ASSUME NEW q \in Pids PROVE Conserved(q)'
  <2>1. CASE q = p
    <3>1. Contains(fifo', r)  BY <1>3 DEF Contains
    <3> QED  BY <1>1, <2>1, <3>1 DEF Conserved, r
  <2>2. CASE q # p
    <3>1. Conserved(q)  BY ConservedEach
    <3>2. \A e : Contains(fifo, e) => Contains(fifo', e)  BY <1>3 DEF Contains
    <3> QED  BY <1>1, <2>2, <3>1, <3>2 DEF Conserved, AwaitsServer
  <2> QED  BY <2>1, <2>2
<1>8. RequestConserved'  BY <1>7 DEF RequestConserved, Conserved, AwaitsServer
<1> QED  BY <1>4, <1>5, <1>6, <1>8

LEMMA ClientOpenServerConserves ==
  ASSUME TypeOK, ConservedInv, NEW p \in Pids, ClientOpenServer(p) PROVE ConservedInv'
<1>1. /\ cpc[p] = "openServer" /\ cpc'[p] \in {"exit", "request", "waitServer"}
      /\ UNCHANGED <<fifo, sreq, run, exists, crashes>>
      /\ \A q \in Pids \ {p} : cpc'[q] = cpc[q]
      /\ cpc'[p] = "request" => ServerReads
      /\ spc' = spc \/ (spc = "opening" /\ spc' = "openWrite")
  BY DEF ClientOpenServer, clientVars, bounds, TypeOK
<1>2. ServerReads => ServerReads'  BY <1>1 DEF ServerReads
<1>3. exists[p]  BY <1>1 DEF ConservedInv, KeepsOwnFifo
<1> QED  BY <1>1, <1>2, <1>3, QuietClientConserves DEF AwaitsServer, Past

LEMMA ClientLeavesServerConserves ==
  ASSUME TypeOK, ConservedInv, NEW p \in Pids, ClientSigpipe(p) \/ ClientCloseServer(p)
  PROVE  ConservedInv'
<1>1. /\ cpc[p] = "request" \/ AwaitsServer(p)
      /\ fifo' = Kept(ClientWriters \ {p})
      /\ UNCHANGED <<spc, sreq, run, exists, crashes>>
      /\ \A q \in Pids \ {p} : cpc'[q] = cpc[q]
      /\ cpc'[p] = "idle" \/ (AwaitsServer(p) /\ cpc'[p] = "openOwn")
      /\ cpc[p] \notin Past
  BY DEF ClientSigpipe, ClientCloseServer, serverVars, clientVars, bounds, TypeOK,
         AwaitsServer, Past
<1>2. fifo' = fifo \/ (fifo' = <<>> /\ ~ServerReads)  BY <1>1 DEF Kept
<1>3. cpc[p] # "idle" => exists[p]  BY DEF ConservedInv, KeepsOwnFifo
<1>4. ServerReads' = ServerReads  BY <1>1 DEF ServerReads
<1> QED  BY <1>1, <1>2, <1>3, <1>4, QuietClientConserves DEF AwaitsServer, Past

LEMMA ClientOpenOwnConserves ==
  ASSUME TypeOK, ServerSound, ConservedInv, NEW p \in Pids, ClientOpenOwn(p)
  PROVE  ConservedInv'
<1>1. /\ cpc[p] = "openOwn"
      /\ UNCHANGED <<fifo, sreq, run, exists, crashes>>
      /\ \A q \in Pids \ {p} : cpc'[q] = cpc[q]
      /\ \/ cpc'[p] = "waitResp" /\ spc' = spc
         \/ cpc'[p] = "readResp" /\ spc' = spc
         \/ cpc'[p] = "readResp" /\ spc = "waitClient" /\ spc' = "write" /\ sfd = p
  BY DEF ClientOpenOwn, ServerWrites, clientVars, bounds, TypeOK
<1>2. sfd = p => sreq.pid = p  BY FifoAssumption DEF ServerSound
<1>3. exists[p]  BY <1>1 DEF ConservedInv, KeepsOwnFifo
<1>4. ServerReads => ServerReads'  BY <1>1 DEF ServerReads
<1> QED  BY <1>1, <1>2, <1>3, <1>4, QuietClientConserves DEF AwaitsServer, Past

LEMMA ClientEndsConserve ==
  ASSUME TypeOK, ConservedInv, NEW p \in Pids,
         ClientRead(p) \/ ClientCloseOwn(p) \/ ClientExit(p)
  PROVE  ConservedInv'
<1>1. /\ cpc[p] # "idle" /\ cpc[p] \in Past /\ cpc'[p] \in Past
      /\ cpc'[p] # "idle" => exists' = exists
      /\ UNCHANGED <<spc, sreq, fifo, run, crashes>>
      /\ \A q \in Pids \ {p} : cpc'[q] = cpc[q] /\ exists'[q] = exists[q]
  BY DEF ClientRead, ClientCloseOwn, ClientExit, serverVars, clientVars, bounds,
         TypeOK, Past
<1>2. exists[p]  BY <1>1 DEF ConservedInv, KeepsOwnFifo
<1>3. ServerReads' = ServerReads  BY <1>1 DEF ServerReads
<1> QED  BY <1>1, <1>2, <1>3, QuietClientConserves DEF AwaitsServer, Past

LEMMA ClientKilledConserves ==
  ASSUME TypeOK, ConservedInv, NEW p \in Pids, ClientKilled(p) PROVE ConservedInv'
<1>1. /\ cpc'[p] = "idle" /\ fifo' = Kept(ClientWriters \ {p})
      /\ UNCHANGED <<spc, sreq, run, exists, crashes>>
      /\ \A q \in Pids \ {p} : cpc'[q] = cpc[q]
  BY DEF ClientKilled, serverVars, TypeOK
<1>2. fifo' = fifo \/ (fifo' = <<>> /\ ~ServerReads)  BY <1>1 DEF Kept
<1>3. ServerReads' = ServerReads  BY <1>1 DEF ServerReads
<1> QED  BY <1>1, <1>2, <1>3, QuietClientConserves DEF AwaitsServer, Past

LEMMA InitConserved == Init => ConservedInv
<1> SUFFICES ASSUME Init PROVE ConservedInv
  OBVIOUS
<1>1. KeepsReading /\ KeepsOwnFifo /\ OneAtATime /\ NotAwaitedOnceOpen /\ RequestConserved
  BY DEF Init, KeepsReading, KeepsOwnFifo, OneAtATime, NotAwaitedOnceOpen,
         RequestConserved, AwaitsServer
<1>2. NoneFromLater
  BY FifoAssumption DEF Init, NoneFromLater, Request, NoRequest
<1> QED  BY <1>1, <1>2 DEF ConservedInv

(* A request is in the FIFO or in the server's hands for as long as its    *)
(* client waits, whatever other clients and the signals that kill them do; *)
(* only a crash of the server loses one.                                   *)
THEOREM RequestsAreNotLost == Spec => []RequestConserved
<1>1. FifoInv /\ ConservedInv /\ [Next]_vars => ConservedInv'
  <2> SUFFICES ASSUME FifoInv, ConservedInv, [Next]_vars PROVE ConservedInv'
    OBVIOUS
  <2>0. /\ TypeOK /\ ServerSound
        /\ \A p \in Pids : cpc[p] = "request" => run[p] \in Runs
    BY DEF FifoInv, PidSound
  <2>1. ASSUME UNCHANGED vars PROVE ConservedInv'
    BY <2>1 DEF vars, ConservedInv, KeepsReading, KeepsOwnFifo, NoneFromLater,
                OneAtATime, NotAwaitedOnceOpen, RequestConserved, ServerReads,
                AwaitsServer
  <2>2. CASE ServerStart \/ ServerStep \/ ServerCrash
    BY <2>0, <2>1, <2>2, ServerOpensKeep, ServerReadConserves, ServerOpenClientConserves,
       ServerWriteConserves, ServerCloseConserves, ServerCrashConserves
       DEF ServerStep, ServerReadsEOF
  <2>3. ASSUME NEW p \in Pids, ClientStart(p) \/ ClientStep(p) \/ ClientKilled(p)
        PROVE  ConservedInv'
    <3>1. CASE ClientRequest(p)
      BY <2>0, <3>1, ClientRequestConserves DEF ClientRequest
    <3> QED
      BY <2>0, <2>3, <3>1, ClientStartConserves, ClientOpenServerConserves,
         ClientLeavesServerConserves, ClientOpenOwnConserves, ClientEndsConserve,
         ClientKilledConserves DEF ClientStep
  <2>4. CASE AtRest  BY <2>1, <2>4 DEF AtRest
  <2> QED  BY <2>1, <2>2, <2>3, <2>4 DEF Next
<1>2. ConservedInv => RequestConserved  BY DEF ConservedInv
<1> QED  BY <1>1, <1>2, InitConserved, FifoInvariance, PTL DEF Spec
-----------------------------------------------------------------------------
(* Data through a pipe.                                                    *)

FilterPoints ==
  {"none", "forkLs", "forkReader", "closeRead", "closeWrite", "wait", "closeOther",
   "move", "exec", "read", "write", "ended", "failed"}

FilterTypeOK ==
  /\ job \in {"filter", "primer"}
  /\ pfd[1] \in Numbers /\ pfd[2] \in Numbers
  /\ at \in [Family -> FilterPoints]
  /\ table \in [Family -> [Numbers -> {"none", "read", "write", "tty"}]]
  /\ inPipe \in 0..PipeSize /\ written \in 0..Volume /\ counted \in Nat

(* What was written is in the pipe or was counted, but for what a reader   *)
(* that could not write it out took with it.                               *)
DataKept == at[Sink] # "failed" => counted + inPipe = written

WriteEndHeld == Held("write")

(* The reader's end: the pipe is empty and nobody writes to it any more.   *)
EndIsFinal == at[Sink] = "ended" => inPipe = 0 /\ ~WriteEndHeld

(* A writer that got past its writing has written everything. *)
WroteAll ==
  /\ job = "filter" /\ at[Source] = "ended" => written = Volume
  /\ job = "primer" /\ at[Boss] \in {"closeWrite", "wait", "ended"} => written = Volume

(* Until it is forked the reader is nowhere. *)
ForkedOnce == at[Boss] \in {"forkLs", "forkReader"} => at[Sink] = "none"

FilterInv == FilterTypeOK /\ DataKept /\ EndIsFinal /\ WroteAll /\ ForkedOnce

(* A number that pipe() takes is one of the numbers. *)
LEMMA LeastIsMember ==
  ASSUME NEW S \in SUBSET Numbers, S # {}
  PROVE  (CHOOSE n \in S : \A k \in S : n <= k) \in S
<1>1. \E n \in S : \A k \in S : n <= k
  <2>1. CASE 0 \in S  BY <2>1 DEF Numbers
  <2>2. CASE 0 \notin S /\ 1 \in S  BY <2>2 DEF Numbers
  <2>3. CASE 0 \notin S /\ 1 \notin S /\ 3 \in S  BY <2>3 DEF Numbers
  <2>4. CASE 0 \notin S /\ 1 \notin S /\ 3 \notin S
    <3>1. 4 \in S /\ \A k \in S : k = 4  BY <2>4 DEF Numbers
    <3> QED  BY <3>1
  <2> QED  BY <2>1, <2>2, <2>3, <2>4
<1> QED  BY <1>1

LEMMA InitFilterInv == FilterInit => FilterInv
<1> SUFFICES ASSUME FilterInit PROVE FilterInv
  OBVIOUS
<1>1. PICK closed \in SUBSET {0, 1} :
        /\ pfd = PipeNumbers(closed)
        /\ table = [p \in Family |-> [n \in Numbers |->
                      CASE p # Boss -> "none"
                        [] n = pfd[1] -> "read"
                        [] n = pfd[2] -> "write"
                        [] OTHER -> IF n \in {0, 1} THEN "tty" ELSE "none"]]
  BY DEF FilterInit
<1>2. pfd[1] \in Numbers /\ pfd[2] \in Numbers
  <2> DEFINE free == closed \cup {3, 4}
             a == CHOOSE n \in free : \A k \in free : n <= k
             b == CHOOSE n \in free \ {a} : \A k \in free \ {a} : n <= k
  <2>1. pfd = <<a, b>>  BY <1>1 DEF PipeNumbers
  <2>2. /\ free \in SUBSET Numbers /\ free # {}
        /\ free \ {a} \in SUBSET Numbers /\ free \ {a} # {}
    <3>1. 3 \in free /\ 4 \in free /\ free \subseteq Numbers  BY DEF Numbers
    <3> HIDE DEF free, a
    <3>2. \E k \in free : k # a
      <4>1. 3 # a \/ 4 # a  OBVIOUS
      <4> QED  BY <3>1, <4>1
    <3> QED  BY <3>1, <3>2
  <2>3. a \in free  BY <2>2, LeastIsMember
  <2>4. b \in free \ {a}  BY <2>2, LeastIsMember
  <2> HIDE DEF a, b
  <2> QED  BY <2>1, <2>2, <2>3, <2>4
<1>3. table \in [Family -> [Numbers -> {"none", "read", "write", "tty"}]]
  <2>1. \A p \in Family : \A n \in Numbers :
          (CASE p # Boss -> "none"
             [] n = pfd[1] -> "read"
             [] n = pfd[2] -> "write"
             [] OTHER -> IF n \in {0, 1} THEN "tty" ELSE "none")
          \in {"none", "read", "write", "tty"}
    OBVIOUS
  <2> QED  BY <1>1, <2>1
<1>4. /\ job \in {"filter", "primer"} /\ inPipe = 0 /\ written = 0 /\ counted = 0
      /\ at = [p \in Family |-> IF p # Boss THEN "none"
                                ELSE IF job = "filter" THEN "forkLs" ELSE "forkReader"]
  BY DEF FilterInit
<1>5. at \in [Family -> FilterPoints]  BY <1>4 DEF FilterPoints
<1>6. at[Sink] = "none" /\ at[Source] = "none" /\ at[Boss] \in {"forkLs", "forkReader"}
  BY <1>4 DEF Family, Boss, Source, Sink
<1>7. FilterTypeOK  BY <1>2, <1>3, <1>4, <1>5, FilterAssumption DEF FilterTypeOK
<1> QED  BY <1>4, <1>6, <1>7
  DEF FilterInv, DataKept, EndIsFinal, WroteAll, ForkedOnce

(* What a step that moves no data has to look after: the control points,   *)
(* and that nobody gets the write end from nowhere.                        *)
LEMMA NoDataMoves ==
  ASSUME FilterInv, UNCHANGED <<job, pfd, inPipe, written, counted>>,
         at' \in [Family -> FilterPoints],
         table' \in [Family -> [Numbers -> {"none", "read", "write", "tty"}]],
         WriteEndHeld' => WriteEndHeld,
         at'[Sink] # "failed" => at[Sink] # "failed",
         at'[Sink] = "ended" => at[Sink] = "ended",
         WroteAll', ForkedOnce'
  PROVE  FilterInv'
<1>1. FilterTypeOK'  BY DEF FilterInv, FilterTypeOK
<1>2. DataKept'  BY DEF FilterInv, DataKept
<1>3. EndIsFinal'  BY DEF FilterInv, EndIsFinal
<1> QED  BY <1>1, <1>2, <1>3 DEF FilterInv

(* A process ends: it holds nothing any more. *)
LEMMA LeavesHolds ==
  ASSUME FilterInv, NEW p \in Family, NEW how \in {"ended", "failed"}, Leaves(p, how)
  PROVE  /\ UNCHANGED <<job, pfd, inPipe, written, counted>>
         /\ at' \in [Family -> FilterPoints] /\ at'[p] = how
         /\ \A q \in Family : q # p => at'[q] = at[q]
         /\ table' \in [Family -> [Numbers -> {"none", "read", "write", "tty"}]]
         /\ WriteEndHeld' => WriteEndHeld
<1> USE DEF FilterInv, FilterTypeOK
<1>1. /\ at' = [at EXCEPT ![p] = how]
      /\ table' = [table EXCEPT ![p] = [n \in Numbers |-> "none"]]
      /\ UNCHANGED <<job, pfd, inPipe, written, counted>>
  BY DEF Leaves, Goto
<1>2. how \in FilterPoints  BY DEF FilterPoints
<1>3. at' \in [Family -> FilterPoints] /\ at'[p] = how
      /\ \A q \in Family : q # p => at'[q] = at[q]
  BY <1>1, <1>2
<1>4. [n \in Numbers |-> "none"] \in [Numbers -> {"none", "read", "write", "tty"}]
  OBVIOUS
<1>5. table' \in [Family -> [Numbers -> {"none", "read", "write", "tty"}]]
  BY <1>1, <1>4
<1>6. \A q \in Family : \A n \in Numbers : table'[q][n] \in {"none", table[q][n]}
  BY <1>1
<1>7. WriteEndHeld' => WriteEndHeld  BY <1>6 DEF WriteEndHeld, Held
<1> QED  BY <1>1, <1>3, <1>5, <1>7

(* A process closes a descriptor. *)
LEMMA CloseHolds ==
  ASSUME FilterInv, NEW p \in Family, NEW n \in Numbers, NEW point \in FilterPoints,
         CloseAndGoto(p, n, point)
  PROVE  /\ UNCHANGED <<job, pfd, inPipe, written, counted>>
         /\ at' \in [Family -> FilterPoints] /\ at'[p] = point
         /\ \A q \in Family : q # p => at'[q] = at[q]
         /\ table' \in [Family -> [Numbers -> {"none", "read", "write", "tty"}]]
         /\ WriteEndHeld' => WriteEndHeld
<1> USE DEF FilterInv, FilterTypeOK
<1>1. /\ at' = [at EXCEPT ![p] = point]
      /\ table' = [table EXCEPT ![p] = [table[p] EXCEPT ![n] = "none"]]
      /\ UNCHANGED <<job, pfd, inPipe, written, counted>>
  BY DEF CloseAndGoto, Goto
<1>2. at' \in [Family -> FilterPoints] /\ at'[p] = point
      /\ \A q \in Family : q # p => at'[q] = at[q]
  BY <1>1
<1>3. [table[p] EXCEPT ![n] = "none"] \in [Numbers -> {"none", "read", "write", "tty"}]
  OBVIOUS
<1>4. table' \in [Family -> [Numbers -> {"none", "read", "write", "tty"}]]
  BY <1>1, <1>3
<1>5. \A q \in Family : \A k \in Numbers : table'[q][k] \in {"none", table[q][k]}
  BY <1>1
<1>6. WriteEndHeld' => WriteEndHeld  BY <1>5 DEF WriteEndHeld, Held
<1> QED  BY <1>1, <1>2, <1>4, <1>6

(* A fork gives the child what the parent has, or the parent gives up. *)
LEMMA ForkHolds ==
  ASSUME FilterInv, NEW kid \in {Source, Sink}, NEW next \in {"forkReader", "closeRead"},
         ForkOf(kid, next), at[Boss] \in {"forkLs", "forkReader"},
         kid = Sink => next = "closeRead"
  PROVE  FilterInv'
<1> USE DEF FilterInv, FilterTypeOK
<1>b. Boss \in Family /\ kid \in Family /\ kid # Boss /\ Sink \in Family /\ Sink # Boss
      /\ Source \in Family /\ Source # Boss /\ Source # Sink
  BY DEF Family, Boss, Source, Sink
<1>n. at[Sink] = "none"  BY DEF ForkedOnce
<1>1. CASE Leaves(Boss, "failed")
  <2>1. /\ UNCHANGED <<job, pfd, inPipe, written, counted>>
        /\ at' \in [Family -> FilterPoints] /\ at'[Boss] = "failed"
        /\ at'[Sink] = at[Sink] /\ at'[Source] = at[Source]
        /\ table' \in [Family -> [Numbers -> {"none", "read", "write", "tty"}]]
        /\ WriteEndHeld' => WriteEndHeld
    BY <1>1, <1>b, LeavesHolds
  <2>2. WroteAll' /\ ForkedOnce'  BY <2>1 DEF WroteAll, ForkedOnce
  <2> QED  BY <2>1, <2>2, NoDataMoves
<1>2. CASE ~Leaves(Boss, "failed")
  <2>1. /\ at' = [at EXCEPT ![Boss] = next, ![kid] = "closeOther"]
        /\ table' = [table EXCEPT ![kid] = table[Boss]]
        /\ UNCHANGED <<job, pfd, inPipe, written, counted>>
    BY <1>2 DEF ForkOf
  <2>2. next \in FilterPoints /\ "closeOther" \in FilterPoints  BY DEF FilterPoints
  <2>3. /\ at' \in [Family -> FilterPoints] /\ at'[Boss] = next /\ at'[kid] = "closeOther"
        /\ \A p \in Family : p \notin {Boss, kid} => at'[p] = at[p]
    BY <1>b, <2>1, <2>2
  <2>4. table' \in [Family -> [Numbers -> {"none", "read", "write", "tty"}]]
    BY <1>b, <2>1
  <2>5. \A p \in Family : \A n \in Numbers : table'[p][n] \in {table[p][n], table[Boss][n]}
    BY <1>b, <2>1
  <2>6. WriteEndHeld' => WriteEndHeld  BY <1>b, <2>5 DEF WriteEndHeld, Held
  <2>7. at'[Sink] \in {"none", "closeOther"}  BY <1>b, <1>n, <2>3
  <2>8. ForkedOnce'
    <3>1. CASE kid = Sink  BY <2>3, <3>1 DEF ForkedOnce
    <3>2. CASE kid # Sink  BY <1>b, <1>n, <2>3, <3>2 DEF ForkedOnce
    <3> QED  BY <3>1, <3>2
  <2>9. WroteAll'
    <3>1. at'[Source] \in {at[Source], "closeOther"}  BY <1>b, <2>3
    <3> QED  BY <2>1, <2>3, <3>1 DEF WroteAll
  <2> QED  BY <1>n, <2>1, <2>3, <2>4, <2>6, <2>7, <2>8, <2>9, NoDataMoves
<1> QED  BY <1>1, <1>2

(* What is written is in the pipe; and the reader, if it ended, left       *)
(* nobody behind who could write.                                          *)
LEMMA WriteHolds ==
  ASSUME FilterInv, Write, job = "filter" \/ job = "primer"
  PROVE  FilterInv'
<1> USE DEF FilterInv, FilterTypeOK
<1> DEFINE n == IF job = "filter" THEN 1 ELSE pfd[2]
<1>w. /\ Writer \in Family /\ Writer # Sink /\ Writer \in {Source, Boss}
      /\ job = "filter" => Writer = Source
      /\ job = "primer" => Writer = Boss
      /\ Boss # Source /\ Boss \in Family /\ Source \in Family /\ Sink \in Family
      /\ Boss # Sink /\ Source # Sink
  BY DEF Writer, Family, Boss, Source, Sink
<1>0. at[Writer] = "write" /\ n \in Numbers  BY DEF Write, Numbers
<1>f. at[Boss] \in {"forkLs", "forkReader"} => Writer = Source  BY <1>0, <1>w
<1>1. CASE /\ written < Volume /\ table[Writer][n] = "write" /\ Held("read")
           /\ inPipe < PipeSize
           /\ inPipe' = inPipe + 1 /\ written' = written + 1
           /\ UNCHANGED <<job, pfd, at, table, counted>>
  <2>1. WriteEndHeld  BY <1>0, <1>1, <1>w DEF WriteEndHeld, Held
  <2>2. at[Sink] # "ended"  BY <2>1 DEF EndIsFinal
  <2>3. FilterTypeOK'  BY <1>1, FilterAssumption
  <2>4. DataKept'  BY <1>1 DEF DataKept
  <2>5. EndIsFinal' /\ ForkedOnce'  BY <1>1, <2>2 DEF EndIsFinal, ForkedOnce
  <2>6. WroteAll'
    <3>1. ~(job = "filter" /\ at[Source] = "ended")  BY <1>0, <1>w
    <3>2. ~(job = "primer" /\ at[Boss] \in {"closeWrite", "wait", "ended"})  BY <1>0, <1>w
    <3> QED  BY <1>1, <3>1, <3>2 DEF WroteAll
  <2> QED  BY <2>3, <2>4, <2>5, <2>6
<1>2. CASE Leaves(Writer, "failed")
  <2>1. /\ UNCHANGED <<job, pfd, inPipe, written, counted>>
        /\ at' \in [Family -> FilterPoints] /\ at'[Writer] = "failed"
        /\ \A q \in Family : q # Writer => at'[q] = at[q]
        /\ table' \in [Family -> [Numbers -> {"none", "read", "write", "tty"}]]
        /\ WriteEndHeld' => WriteEndHeld
    BY <1>2, <1>w, LeavesHolds
  <2>2. WroteAll' /\ ForkedOnce'  BY <1>w, <2>1 DEF WroteAll, ForkedOnce
  <2> QED  BY <1>w, <2>1, <2>2, NoDataMoves
<1>3. CASE written = Volume /\ job = "filter" /\ Leaves(Writer, "ended")
  <2>1. /\ UNCHANGED <<job, pfd, inPipe, written, counted>>
        /\ at' \in [Family -> FilterPoints] /\ at'[Writer] = "ended"
        /\ \A q \in Family : q # Writer => at'[q] = at[q]
        /\ table' \in [Family -> [Numbers -> {"none", "read", "write", "tty"}]]
        /\ WriteEndHeld' => WriteEndHeld
    BY <1>3, <1>w, LeavesHolds
  <2>2. WroteAll' /\ ForkedOnce'  BY <1>3, <1>w, <2>1 DEF WroteAll, ForkedOnce
  <2> QED  BY <1>w, <2>1, <2>2, NoDataMoves
<1>4. CASE /\ written = Volume /\ job # "filter" /\ Goto(Boss, "closeWrite")
           /\ UNCHANGED <<job, pfd, table, inPipe, written, counted>>
  <2>1. at' = [at EXCEPT ![Boss] = "closeWrite"]  BY <1>4 DEF Goto
  <2>2. "closeWrite" \in FilterPoints  BY DEF FilterPoints
  <2>3. /\ at' \in [Family -> FilterPoints] /\ at'[Boss] = "closeWrite"
        /\ at'[Sink] = at[Sink] /\ at'[Source] = at[Source]
    BY <1>w, <2>1, <2>2
  <2>4. WriteEndHeld' => WriteEndHeld  BY <1>4 DEF WriteEndHeld, Held
  <2>5. WroteAll' /\ ForkedOnce'  BY <1>4, <2>3 DEF WroteAll, ForkedOnce
  <2>6. table' \in [Family -> [Numbers -> {"none", "read", "write", "tty"}]]  BY <1>4
  <2> QED  BY <1>4, <2>3, <2>4, <2>5, <2>6, NoDataMoves
<1> QED  BY <1>1, <1>2, <1>3, <1>4 DEF Write

(* The reader ends at the end of the pipe: it is empty, and nobody writes. *)
LEMMA ReadHolds ==
  ASSUME FilterInv, Read
  PROVE  FilterInv'
<1> USE DEF FilterInv, FilterTypeOK
<1> DEFINE n == IF job = "filter" THEN 0 ELSE pfd[1]
<1>w. /\ Boss # Source /\ Boss \in Family /\ Source \in Family /\ Sink \in Family
      /\ Boss # Sink /\ Source # Sink
  BY DEF Family, Boss, Source, Sink
<1>0. at[Sink] = "read"  BY DEF Read
<1>1. CASE /\ inPipe > 0 /\ inPipe' = inPipe - 1
           /\ at' = [at EXCEPT ![Sink] = "failed"]
           /\ table' = [table EXCEPT ![Sink] = [k \in Numbers |-> "none"]]
           /\ UNCHANGED <<counted, job, pfd, written>>
  <2>1. "failed" \in FilterPoints  BY DEF FilterPoints
  <2>2. /\ at' \in [Family -> FilterPoints] /\ at'[Sink] = "failed"
        /\ at'[Boss] = at[Boss] /\ at'[Source] = at[Source]
    BY <1>1, <1>w, <2>1
  <2>3. [k \in Numbers |-> "none"] \in [Numbers -> {"none", "read", "write", "tty"}]
    OBVIOUS
  <2>4. table' \in [Family -> [Numbers -> {"none", "read", "write", "tty"}]]
    BY <1>1, <2>3
  <2>5. inPipe' \in 0..PipeSize  BY <1>1, FilterAssumption
  <2>6. FilterTypeOK'  BY <1>1, <2>2, <2>4, <2>5
  <2>7. DataKept' /\ EndIsFinal'  BY <2>2 DEF DataKept, EndIsFinal
  <2>8. WroteAll'  BY <1>1, <2>2 DEF WroteAll
  <2>9. ForkedOnce'  BY <1>0, <2>2 DEF ForkedOnce
  <2> QED  BY <2>6, <2>7, <2>8, <2>9
<1>2. CASE /\ inPipe > 0 /\ inPipe' = inPipe - 1
           /\ counted' = counted + 1 /\ UNCHANGED <<at, table, job, pfd, written>>
  <2>1. FilterTypeOK'  BY <1>2, FilterAssumption
  <2>2. DataKept'  BY <1>2 DEF DataKept
  <2>3. EndIsFinal' /\ WroteAll' /\ ForkedOnce'
    BY <1>0, <1>2 DEF EndIsFinal, WroteAll, ForkedOnce
  <2> QED  BY <2>1, <2>2, <2>3
<1>3. CASE inPipe = 0 /\ ~Held("write") /\ Leaves(Sink, "ended")
  <2>1. /\ UNCHANGED <<job, pfd, inPipe, written, counted>>
        /\ at' \in [Family -> FilterPoints] /\ at'[Sink] = "ended"
        /\ at'[Boss] = at[Boss] /\ at'[Source] = at[Source]
        /\ table' \in [Family -> [Numbers -> {"none", "read", "write", "tty"}]]
        /\ WriteEndHeld' => WriteEndHeld
    BY <1>3, <1>w, LeavesHolds
  <2>2. FilterTypeOK'  BY <2>1
  <2>3. DataKept'  BY <1>0, <2>1 DEF DataKept
  <2>4. EndIsFinal'  BY <1>3, <2>1 DEF EndIsFinal, WriteEndHeld
  <2>5. WroteAll'  BY <2>1 DEF WroteAll
  <2>6. ForkedOnce'  BY <1>0, <2>1 DEF ForkedOnce
  <2> QED  BY <2>2, <2>3, <2>4, <2>5, <2>6
<1> QED  BY <1>1, <1>2, <1>3 DEF Read, Goto

LEMMA NextFilterInv == FilterInv /\ [FilterNext]_filterVars => FilterInv'
<1> SUFFICES ASSUME FilterInv, [FilterNext]_filterVars PROVE FilterInv'
  OBVIOUS
<1>t. /\ pfd[1] \in Numbers /\ pfd[2] \in Numbers /\ at \in [Family -> FilterPoints]
      /\ table \in [Family -> [Numbers -> {"none", "read", "write", "tty"}]]
      /\ job \in {"filter", "primer"} /\ WroteAll /\ ForkedOnce
  BY DEF FilterInv, FilterTypeOK
<1>w. /\ Boss # Source /\ Boss \in Family /\ Source \in Family /\ Sink \in Family
      /\ Boss # Sink /\ Source # Sink
  BY DEF Family, Boss, Source, Sink
<1>1. CASE BossForkLs \/ BossForkReader
  <2>1. CASE BossForkLs  BY <1>w, <2>1, ForkHolds DEF BossForkLs
  <2>2. CASE BossForkReader  BY <1>w, <2>2, ForkHolds DEF BossForkReader
  <2> QED  BY <1>1, <2>1, <2>2
<1>2. CASE BossCloseRead
  <2> DEFINE point == IF job = "filter" THEN "closeWrite" ELSE "write"
  <2>1. point \in FilterPoints  BY DEF FilterPoints
  <2>2. /\ UNCHANGED <<job, pfd, inPipe, written, counted>>
        /\ at' \in [Family -> FilterPoints] /\ at'[Boss] = point
        /\ at'[Sink] = at[Sink] /\ at'[Source] = at[Source]
        /\ table' \in [Family -> [Numbers -> {"none", "read", "write", "tty"}]]
        /\ WriteEndHeld' => WriteEndHeld
    BY <1>2, <1>t, <1>w, <2>1, CloseHolds DEF BossCloseRead
  <2>3. WroteAll' /\ ForkedOnce'  BY <1>t, <2>2 DEF WroteAll, ForkedOnce
  <2> QED  BY <2>2, <2>3, NoDataMoves
<1>3. CASE BossCloseWrite
  <2>1. "wait" \in FilterPoints /\ at[Boss] = "closeWrite"  BY <1>3 DEF FilterPoints, BossCloseWrite
  <2>2. /\ UNCHANGED <<job, pfd, inPipe, written, counted>>
        /\ at' \in [Family -> FilterPoints] /\ at'[Boss] = "wait"
        /\ at'[Sink] = at[Sink] /\ at'[Source] = at[Source]
        /\ table' \in [Family -> [Numbers -> {"none", "read", "write", "tty"}]]
        /\ WriteEndHeld' => WriteEndHeld
    BY <1>3, <1>t, <1>w, <2>1, CloseHolds DEF BossCloseWrite
  <2>3. WroteAll' /\ ForkedOnce'  BY <1>t, <2>1, <2>2 DEF WroteAll, ForkedOnce
  <2> QED  BY <2>2, <2>3, NoDataMoves
<1>4. CASE BossWait
  <2>1. at[Boss] = "wait" /\ Leaves(Boss, "ended")  BY <1>4 DEF BossWait
  <2>2. /\ UNCHANGED <<job, pfd, inPipe, written, counted>>
        /\ at' \in [Family -> FilterPoints] /\ at'[Boss] = "ended"
        /\ at'[Sink] = at[Sink] /\ at'[Source] = at[Source]
        /\ table' \in [Family -> [Numbers -> {"none", "read", "write", "tty"}]]
        /\ WriteEndHeld' => WriteEndHeld
    BY <1>w, <2>1, LeavesHolds
  <2>3. WroteAll' /\ ForkedOnce'  BY <1>t, <2>1, <2>2 DEF WroteAll, ForkedOnce
  <2> QED  BY <2>2, <2>3, NoDataMoves
<1>5. CASE Write  BY <1>5, <1>t, WriteHolds
<1>6. CASE Read  BY <1>6, ReadHolds
<1>7. ASSUME NEW p \in {Source, Sink}, KidCloseOther(p) PROVE FilterInv'
  <2> DEFINE point == IF job = "filter" THEN "move" ELSE "read"
  <2>1. point \in FilterPoints /\ pfd[IF p = Sink THEN 2 ELSE 1] \in Numbers
        /\ at[p] = "closeOther"
    BY <1>7, <1>t DEF FilterPoints, KidCloseOther
  <2>2. /\ UNCHANGED <<job, pfd, inPipe, written, counted>>
        /\ at' \in [Family -> FilterPoints] /\ at'[p] = point
        /\ \A q \in Family : q # p => at'[q] = at[q]
        /\ table' \in [Family -> [Numbers -> {"none", "read", "write", "tty"}]]
        /\ WriteEndHeld' => WriteEndHeld
    BY <1>7, <1>w, <2>1, CloseHolds DEF KidCloseOther
  <2>3. WroteAll'  BY <1>t, <1>w, <2>2 DEF WroteAll
  <2>4. ForkedOnce'  BY <1>t, <1>w, <2>1, <2>2 DEF ForkedOnce
  <2>5. at'[Sink] = at[Sink] \/ (at[Sink] = "closeOther" /\ at'[Sink] = point)
    BY <1>w, <2>1, <2>2
  <2> QED  BY <2>2, <2>3, <2>4, <2>5, NoDataMoves
<1>8. ASSUME NEW p \in {Source, Sink}, KidMove(p) PROVE FilterInv'
  <2> DEFINE own == pfd[IF p = Sink THEN 1 ELSE 2]
             std == IF p = Sink THEN 0 ELSE 1
  <2>1. /\ at[p] = "move" /\ at' = [at EXCEPT ![p] = "exec"] /\ "exec" \in FilterPoints
        /\ UNCHANGED <<job, pfd, inPipe, written, counted>>
        /\ table' = IF own = std THEN table
                    ELSE [table EXCEPT ![p] =
                            [table[p] EXCEPT ![std] = table[p][own], ![own] = "none"]]
    BY <1>8 DEF KidMove, Goto, FilterPoints
  <2>2. own \in Numbers /\ std \in Numbers /\ p \in Family
    BY <1>t, <1>w DEF Numbers
  <2> HIDE DEF own, std
  <2>3. /\ table' \in [Family -> [Numbers -> {"none", "read", "write", "tty"}]]
        /\ \A q \in Family : \A n \in Numbers :
             table'[q][n] \in {"none", table[q][n], table[q][own]}
    <3>1. CASE own = std  BY <1>t, <2>1, <3>1
    <3>2. CASE own # std
      <4> DEFINE mine == [table[p] EXCEPT ![std] = table[p][own], ![own] = "none"]
      <4>1. mine \in [Numbers -> {"none", "read", "write", "tty"}]  BY <1>t, <2>2
      <4>2. \A n \in Numbers : mine[n] \in {"none", table[p][n], table[p][own]}
        BY <1>t, <2>2
      <4>3. table' = [table EXCEPT ![p] = mine]  BY <2>1, <3>2
      <4> HIDE DEF mine
      <4> QED  BY <1>t, <2>2, <4>1, <4>2, <4>3
    <3> QED  BY <3>1, <3>2
  <2>4. WriteEndHeld' => WriteEndHeld  BY <2>2, <2>3 DEF WriteEndHeld, Held
  <2>5. /\ at' \in [Family -> FilterPoints] /\ at'[p] = "exec"
        /\ \A q \in Family : q # p => at'[q] = at[q]
    BY <1>t, <2>1, <2>2
  <2>6. WroteAll'  BY <1>t, <1>w, <2>1, <2>5 DEF WroteAll
  <2>7. ForkedOnce'  BY <1>t, <1>w, <2>1, <2>5 DEF ForkedOnce
  <2>8. at'[Sink] = at[Sink] \/ (at[Sink] = "move" /\ at'[Sink] = "exec")
    BY <1>w, <2>1, <2>5
  <2> QED  BY <2>1, <2>3, <2>4, <2>5, <2>6, <2>7, <2>8, NoDataMoves
<1>9. ASSUME NEW p \in {Source, Sink}, KidExec(p) PROVE FilterInv'
  <2>0. at[p] = "exec" /\ p \in Family  BY <1>9, <1>w DEF KidExec
  <2>1. CASE Leaves(p, "failed")
    <3>1. /\ UNCHANGED <<job, pfd, inPipe, written, counted>>
          /\ at' \in [Family -> FilterPoints] /\ at'[p] = "failed"
          /\ \A q \in Family : q # p => at'[q] = at[q]
          /\ table' \in [Family -> [Numbers -> {"none", "read", "write", "tty"}]]
          /\ WriteEndHeld' => WriteEndHeld
      BY <2>0, <2>1, LeavesHolds
    <3>2. WroteAll'  BY <1>t, <1>w, <3>1 DEF WroteAll
    <3>3. ForkedOnce'  BY <1>t, <1>w, <2>0, <3>1 DEF ForkedOnce
    <3>4. at'[Sink] = at[Sink] \/ (at[Sink] = "exec" /\ at'[Sink] = "failed")
      BY <1>w, <2>0, <3>1
    <3> QED  BY <3>1, <3>2, <3>3, <3>4, NoDataMoves
  <2>2. CASE ~Leaves(p, "failed")
    <3> DEFINE point == IF p = Sink THEN "read" ELSE "write"
    <3>1. /\ at' = [at EXCEPT ![p] = point] /\ point \in FilterPoints
          /\ UNCHANGED <<job, pfd, table, inPipe, written, counted>>
      BY <1>9, <2>2 DEF KidExec, Goto, FilterPoints
    <3>2. /\ at' \in [Family -> FilterPoints] /\ at'[p] = point
          /\ \A q \in Family : q # p => at'[q] = at[q]
      BY <1>t, <2>0, <3>1
    <3>3. WriteEndHeld' => WriteEndHeld  BY <3>1 DEF WriteEndHeld, Held
    <3>4. WroteAll'  BY <1>t, <1>w, <3>1, <3>2 DEF WroteAll
    <3>5. ForkedOnce'  BY <1>t, <1>w, <2>0, <3>2 DEF ForkedOnce
    <3>6. at'[Sink] = at[Sink] \/ (at[Sink] = "exec" /\ at'[Sink] = "read")
      BY <1>w, <2>0, <3>2
    <3> QED  BY <1>t, <3>1, <3>2, <3>3, <3>4, <3>5, <3>6, NoDataMoves
  <2> QED  BY <2>1, <2>2
<1>10. CASE UNCHANGED filterVars
  <2>1. UNCHANGED <<job, pfd, at, table, inPipe, written, counted>>  BY <1>10 DEF filterVars
  <2>2. WriteEndHeld' => WriteEndHeld  BY <2>1 DEF WriteEndHeld, Held
  <2>3. WroteAll' /\ ForkedOnce'  BY <1>t, <2>1 DEF WroteAll, ForkedOnce
  <2> QED  BY <1>t, <2>1, <2>2, <2>3, NoDataMoves
<1> QED
  BY <1>1, <1>2, <1>3, <1>4, <1>5, <1>6, <1>7, <1>8, <1>9, <1>10
  DEF FilterNext, BossStep, KidStep, FilterOver

(* Whatever fails, and whichever numbers the pipe got: a reader that came  *)
(* to its end has read all that was written, and all there was to write    *)
(* if the writer was not stopped.  It is the part of FilterCompletes that  *)
(* does not depend on fairness.                                            *)
THEOREM ReaderReadsAll == FilterSpec => []ReadsAll
<1>1. FilterInv => ReadsAll
  <2> SUFFICES ASSUME FilterInv, at[Sink] = "ended" PROVE counted = written
                      /\ (at[Writer] = "ended" => counted = Volume)
    BY DEF ReadsAll
  <2>1. counted = written
    <3>1. counted + inPipe = written /\ inPipe = 0  BY DEF FilterInv, DataKept, EndIsFinal
    <3>2. counted \in Nat  BY DEF FilterInv, FilterTypeOK
    <3> QED  BY <3>1, <3>2
  <2>2. at[Writer] = "ended" => written = Volume
    BY DEF FilterInv, FilterTypeOK, WroteAll, Writer
  <2> QED  BY <2>1, <2>2
<1> QED  BY <1>1, InitFilterInv, NextFilterInv, PTL DEF FilterSpec
==============================================================================
