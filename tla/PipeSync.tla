------------------------------ MODULE PipeSync ------------------------------
(***************************************************************************)
(* ipc-pipe/multiprocess-sync.cpp: a parent forks N children and uses the  *)
(* end-of-file of a pipe nobody writes to as a barrier.  The kernel's part *)
(* is a reference count: the set of processes that hold a descriptor of    *)
(* each end.  read() returns 0 exactly when no process holds the write     *)
(* end.  pipe-multiprocess-sync.cpp is the same program line for line.     *)
(***************************************************************************)
EXTENDS Naturals

CONSTANTS
  N,      \* number of sleep-time arguments, hence of children
  Mortal  \* the children that a signal may kill at any moment

(* argc < 2 prints the usage and stops. *)
ASSUME NAssumption == N \in Nat \ {0}
ASSUME MortalAssumption == Mortal \subseteq 1..N

VARIABLES
  turn,       \* the loop counter i of the parent
  ppc,        \* control point of the parent
  kpc,        \* control point of each child
  writeEnds,  \* processes holding a descriptor of the write end, pfd[1]
  readEnds    \* processes holding a descriptor of the read end, pfd[0]

pipeVars == <<turn, ppc, kpc, writeEnds, readEnds>>

Parent == 0
Children == 1..N
Processes == {Parent} \cup Children

Gone == {"exited", "killed"}
ParentPoints == {"fork", "read", "closeRead", "ready", "failed"}
ChildPoints == {"none", "closeRead", "sleep", "closeWrite", "done"} \cup Gone

PipeTypeOK ==
  /\ turn \in 1..(N + 1)
  /\ ppc \in ParentPoints
  /\ kpc \in [Children -> ChildPoints]
  /\ writeEnds \subseteq Processes
  /\ readEnds \subseteq Processes

(* pipe() has just succeeded; the first fork is next. *)
PipeInit ==
  /\ turn = 1
  /\ ppc = "fork"
  /\ kpc = [c \in Children |-> "none"]
  /\ writeEnds = {Parent}
  /\ readEnds = {Parent}

-----------------------------------------------------------------------------
(* The parent.  A forked child starts with a copy of every descriptor.     *)

Inherit(ends, c) == IF Parent \in ends THEN ends \cup {c} ELSE ends

Fork ==
  /\ ppc = "fork"
  /\ turn <= N
  /\ kpc' = [kpc EXCEPT ![turn] = "closeRead"]
  /\ writeEnds' = Inherit(writeEnds, turn)
  /\ readEnds' = Inherit(readEnds, turn)
  /\ turn' = turn + 1
  /\ UNCHANGED ppc

(* fork() == -1: the parent returns at once, and exit closes its ends; the *)
(* children forked before stay behind.                                     *)
ForkFails ==
  /\ ppc = "fork"
  /\ turn <= N
  /\ ppc' = "failed"
  /\ writeEnds' = writeEnds \ {Parent}
  /\ readEnds' = readEnds \ {Parent}
  /\ UNCHANGED <<turn, kpc>>

ParentKeepsWrite ==
  /\ ppc = "fork"
  /\ turn = N + 1
  /\ ppc' = "read"
  /\ UNCHANGED <<turn, kpc, writeEnds, readEnds>>

ParentCloseWrite ==
  /\ ppc = "fork"
  /\ turn = N + 1
  /\ ppc' = "read"
  /\ writeEnds' = writeEnds \ {Parent}
  /\ UNCHANGED <<turn, kpc, readEnds>>

ParentReadNonBlocking ==
  /\ ppc = "read"
  /\ ppc' = "closeRead"
  /\ UNCHANGED <<turn, kpc, writeEnds, readEnds>>

(* read(pfd[0], &dummy, 1) blocks while anybody may still write; nobody    *)
(* ever does, so it can only return 0.                                     *)
ParentReadEOF ==
  /\ ppc = "read"
  /\ writeEnds = {}
  /\ ppc' = "closeRead"
  /\ UNCHANGED <<turn, kpc, writeEnds, readEnds>>

(* Nothing is left for the exit that follows to close. *)
ParentCloseRead ==
  /\ ppc = "closeRead"
  /\ ppc' = "ready"
  /\ readEnds' = readEnds \ {Parent}
  /\ UNCHANGED <<turn, kpc, writeEnds>>

-----------------------------------------------------------------------------
(* The children.                                                           *)

ChildCloseRead(c) ==
  /\ kpc[c] = "closeRead"
  /\ kpc' = [kpc EXCEPT ![c] = "sleep"]
  /\ readEnds' = readEnds \ {c}
  /\ UNCHANGED <<turn, ppc, writeEnds>>

(* sleep(atoi(argv[i])) stands for the work the parent waits for. *)
ChildWork(c) ==
  /\ kpc[c] = "sleep"
  /\ kpc' = [kpc EXCEPT ![c] = "closeWrite"]
  /\ UNCHANGED <<turn, ppc, writeEnds, readEnds>>

ChildCloseWrite(c) ==
  /\ kpc[c] = "closeWrite"
  /\ kpc' = [kpc EXCEPT ![c] = "done"]
  /\ writeEnds' = writeEnds \ {c}
  /\ UNCHANGED <<turn, ppc, readEnds>>

(* exit() closes whatever is still open. *)
ChildExit(c) ==
  /\ kpc[c] = "done"
  /\ kpc' = [kpc EXCEPT ![c] = "exited"]
  /\ writeEnds' = writeEnds \ {c}
  /\ readEnds' = readEnds \ {c}
  /\ UNCHANGED <<turn, ppc>>

(* A child that a signal kills loses its descriptors like one that exits:  *)
(* the parent cannot tell the two apart.  "killed" is a child that died    *)
(* before its own close; one that dies after it has merely exited.         *)
ChildKilled(c) ==
  /\ c \in Mortal
  /\ kpc[c] \notin Gone \cup {"none"}
  /\ kpc' = [kpc EXCEPT ![c] = IF @ = "done" THEN "exited" ELSE "killed"]
  /\ writeEnds' = writeEnds \ {c}
  /\ readEnds' = readEnds \ {c}
  /\ UNCHANGED <<turn, ppc>>

-----------------------------------------------------------------------------
ParentStep ==
  \/ Fork \/ ForkFails
  \/ ParentCloseWrite \/ ParentReadEOF \/ ParentCloseRead

ChildStep(c) ==
  ChildCloseRead(c) \/ ChildWork(c) \/ ChildCloseWrite(c) \/ ChildExit(c)

(* Both sides have returned; any other state without a step is a hang.     *)
AllReturned ==
  /\ ppc \in {"ready", "failed"}
  /\ \A c \in Children : kpc[c] \in Gone \cup {"none"}

Terminated == AllReturned /\ UNCHANGED pipeVars

PipeNext ==
  \/ ParentStep
  \/ \E c \in Children : ChildStep(c) \/ ChildKilled(c)
  \/ Terminated

(* The scheduler runs every runnable process and every sleep() ends; no    *)
(* fairness is asked of fork failures or of the signals that kill.         *)
PipeFairness ==
  /\ WF_pipeVars(ParentStep)
  /\ \A c \in Children : WF_pipeVars(ChildStep(c))

PipeSpec == PipeInit /\ [][PipeNext]_pipeVars /\ PipeFairness

-----------------------------------------------------------------------------
(* Properties.                                                             *)

PastWork == {"done", "exited"}
Recruited == {c \in Children : kpc[c] # "none"}

(* Safety of the barrier (the "ready to go" of line 99): when the parent   *)
(* has seen end-of-file, all N children were forked and each of them is    *)
(* past its work or was killed.                                            *)
ReadyAfterAll ==
  ppc \in {"closeRead", "ready"} =>
    \A c \in Children : kpc[c] \in PastWork \cup {"killed"}

(* Why that holds, and the reference count a leak would break: the write   *)
(* end is held by the parent until it starts to read, and by every child   *)
(* exactly while it is alive and before its own close of line 67.          *)
WriteEndHolders ==
  writeEnds =
    (IF ppc = "fork" THEN {Parent} ELSE {})
      \cup {c \in Children : kpc[c] \in {"closeRead", "sleep", "closeWrite"}}

(* The loop of line 50 has forked the children below it and no other, and  *)
(* the parent goes on to wait only when the loop has ended.                *)
ForkedSoFar ==
  /\ \A c \in Children : kpc[c] # "none" <=> c < turn
  /\ ppc \notin {"fork", "failed"} => turn = N + 1

(* The inductive invariant. *)
BarrierInv == PipeTypeOK /\ WriteEndHolders /\ ForkedSoFar /\ ReadyAfterAll

(* The parent does not wait for ever and nobody pins the pipe: once it has *)
(* begun to fork, whatever fails and whoever is killed, in the end no      *)
(* process holds either end and the kernel can free it                     *)
(* (ipc-pipe/README.md, notes 1 and 3).                                    *)
PipeReclaimed ==
  turn > 1 \/ ppc # "fork" ~> [](writeEnds = {} /\ readEnds = {})

(* The program implements the barrier it is meant to be, a fork failure    *)
(* being the one way to give up and a killed child a worker that is lost.  *)
Phase == IF ppc \in {"fork", "read"} THEN "recruiting"
         ELSE IF ppc = "failed" THEN "abandoned" ELSE "released"
Arrived == {c \in Children : kpc[c] \in PastWork}
Lost == {c \in Children : kpc[c] = "killed"}

TheBarrier == INSTANCE Barrier WITH
  Workers <- Children, phase <- Phase,
  recruited <- Recruited, arrived <- Arrived, lost <- Lost

ImplementsBarrier == TheBarrier!Spec
============================================================================
