----------------------------- MODULE PipeFilter -----------------------------
(***************************************************************************)
(* Data that goes through a pipe from one process to another until its     *)
(* end.  ipc-pipe/pipe-filter.cpp ("filter"): the parent forks ls, whose   *)
(* standard output becomes the pipe, and wc, whose standard input does.    *)
(* ipc-pipe/pipe-primer.c ("primer"): the parent itself writes a string to *)
(* its child.  The reader is done when nobody has the write end any more.  *)
(*                                                                         *)
(* Every process has a table of what its descriptors are.  The program may *)
(* be started with 0 or 1 closed: the pipe then gets those numbers.        *)
(***************************************************************************)
EXTENDS Integers

CONSTANTS
  Volume,  \* what the writer writes: the lines of ls, the bytes of a string
  PipeSize \* of that, what the pipe holds

ASSUME FilterAssumption == Volume \in Nat /\ PipeSize \in Nat \ {0}

Boss == "parent"
Source == "ls"
Sink == "reader"    \* wc, or the primer's child
Family == {Boss, Source, Sink}
Numbers == {0, 1, 3, 4}  \* 2 is the terminal throughout

VARIABLES
  job,      \* which of the two programs runs
  pfd,      \* the numbers pipe() gave its read end and its write end
  at,       \* control point of each process
  table,    \* what each of its descriptors is
  inPipe,   \* what is in the pipe
  written,  \* what has been written to it
  counted   \* what was read from it

filterVars == <<job, pfd, at, table, inPipe, written, counted>>

Writer == IF job = "filter" THEN Source ELSE Boss
Held(end) == \E p \in Family : \E n \in Numbers : table[p][n] = end

(* The two lowest free numbers. *)
PipeNumbers(closed) ==
  LET free == closed \cup {3, 4}
      Least(S) == CHOOSE n \in S : \A k \in S : n <= k
  IN <<Least(free), Least(free \ {Least(free)})>>

FilterInit ==
  /\ job \in {"filter", "primer"}
  /\ at = [p \in Family |-> IF p # Boss THEN "none"
                            ELSE IF job = "filter" THEN "forkLs" ELSE "forkReader"]
  /\ \E closed \in SUBSET {0, 1} :
       /\ pfd = PipeNumbers(closed)
       /\ table = [p \in Family |-> [n \in Numbers |->
                     CASE p # Boss -> "none"
                       [] n = pfd[1] -> "read"
                       [] n = pfd[2] -> "write"
                       [] OTHER -> IF n \in {0, 1} THEN "tty" ELSE "none"]]
  /\ inPipe = 0 /\ written = 0 /\ counted = 0

-----------------------------------------------------------------------------
Goto(p, point) == at' = [at EXCEPT ![p] = point]

Leaves(p, how) ==
  /\ Goto(p, how)
  /\ table' = [table EXCEPT ![p] = [n \in Numbers |-> "none"]]
  /\ UNCHANGED <<job, pfd, inPipe, written, counted>>

CloseAndGoto(p, n, point) ==
  /\ table' = [table EXCEPT ![p][n] = "none"]
  /\ Goto(p, point)
  /\ UNCHANGED <<job, pfd, inPipe, written, counted>>

(* The parent. *)

ForkOf(kid, next) ==
  \/ /\ at' = [at EXCEPT ![Boss] = next, ![kid] = "closeOther"]
     /\ table' = [table EXCEPT ![kid] = table[Boss]]
     /\ UNCHANGED <<job, pfd, inPipe, written, counted>>
  \/ Leaves(Boss, "failed")

BossForkLs == at[Boss] = "forkLs" /\ ForkOf(Source, "forkReader")
BossForkReader == at[Boss] = "forkReader" /\ ForkOf(Sink, "closeRead")

BossCloseRead ==
  /\ at[Boss] = "closeRead"
  /\ CloseAndGoto(Boss, pfd[1], IF job = "filter" THEN "closeWrite" ELSE "write")

BossSkipsClose == at[Boss] = "closeWrite" /\ Goto(Boss, "wait")
                  /\ UNCHANGED <<job, pfd, table, inPipe, written, counted>>

BossCloseWrite ==
  /\ at[Boss] = "closeWrite"
  /\ CloseAndGoto(Boss, pfd[2], "wait")

(* One wait(): of two children it awaits the first to end. *)
BossWait ==
  /\ at[Boss] = "wait"
  /\ \E p \in {Source, Sink} : at[p] \in {"ended", "failed"}
  /\ Leaves(Boss, "ended")

(* The children. *)

KidCloseOther(p) ==
  /\ at[p] = "closeOther"
  /\ CloseAndGoto(p, pfd[IF p = Sink THEN 2 ELSE 1],
                  IF job = "filter" THEN "move" ELSE "read")

(* dup2() and close(), unless the pipe has the standard number already. *)
KidMove(p) ==
  LET own == pfd[IF p = Sink THEN 1 ELSE 2]
      std == IF p = Sink THEN 0 ELSE 1
  IN /\ at[p] = "move"
     /\ table' = IF own = std THEN table
                 ELSE [table EXCEPT ![p] = [@ EXCEPT ![std] = table[p][own], ![own] = "none"]]
     /\ Goto(p, "exec")
     /\ UNCHANGED <<job, pfd, inPipe, written, counted>>

KidExec(p) ==
  /\ at[p] = "exec"
  /\ \/ /\ Goto(p, IF p = Sink THEN "read" ELSE "write")
        /\ UNCHANGED <<job, pfd, table, inPipe, written, counted>>
     \/ Leaves(p, "failed")

(* ls, or the parent of the primer: SIGPIPE if nobody can read. *)
Write ==
  LET n == IF job = "filter" THEN 1 ELSE pfd[2] IN
  /\ at[Writer] = "write"
  /\ \/ /\ written < Volume /\ table[Writer][n] = "write" /\ Held("read")
        /\ inPipe < PipeSize
        /\ inPipe' = inPipe + 1 /\ written' = written + 1
        /\ UNCHANGED <<job, pfd, at, table, counted>>
     \/ /\ written < Volume /\ ~(table[Writer][n] = "write" /\ Held("read"))
        /\ Leaves(Writer, "failed")
     \/ /\ written = Volume
        /\ IF job = "filter" THEN Leaves(Writer, "ended")
           ELSE Goto(Boss, "closeWrite")
                /\ UNCHANGED <<job, pfd, table, inPipe, written, counted>>

(* wc counts; the primer's child copies to descriptor 1. *)
Read ==
  LET n == IF job = "filter" THEN 0 ELSE pfd[1] IN
  /\ at[Sink] = "read"
  /\ \/ /\ table[Sink][n] = "read" /\ inPipe > 0
        /\ inPipe' = inPipe - 1
        /\ IF job = "primer" /\ table[Sink][1] # "tty"
             THEN /\ Goto(Sink, "failed")
                  /\ table' = [table EXCEPT ![Sink] = [k \in Numbers |-> "none"]]
                  /\ UNCHANGED counted
             ELSE counted' = counted + 1 /\ UNCHANGED <<at, table>>
        /\ UNCHANGED <<job, pfd, written>>
     \/ /\ table[Sink][n] = "read" /\ inPipe = 0 /\ ~Held("write")
        /\ Leaves(Sink, "ended")

-----------------------------------------------------------------------------
BossStep ==
  \/ BossForkLs \/ BossForkReader \/ BossCloseRead \/ BossCloseWrite \/ BossWait
  \/ job = "primer" /\ Write
KidStep(p) ==
  \/ KidCloseOther(p) \/ KidMove(p) \/ KidExec(p)
  \/ p = Sink /\ Read
  \/ p = Source /\ job = "filter" /\ Write

EverybodyOver == \A p \in Family : at[p] \in {"none", "ended", "failed"}
FilterOver == EverybodyOver /\ UNCHANGED filterVars

FilterNext == BossStep \/ (\E p \in {Source, Sink} : KidStep(p)) \/ FilterOver

(* The processes are scheduled. *)
FilterFairness ==
  WF_filterVars(BossStep) /\ \A p \in {Source, Sink} : WF_filterVars(KidStep(p))

FilterSpec == FilterInit /\ [][FilterNext]_filterVars /\ FilterFairness

-----------------------------------------------------------------------------
(* Properties.                                                             *)

(* A reader that came to its end has read all that was written, which is   *)
(* everything if the writer was not stopped.                               *)
ReadsAll ==
  at[Sink] = "ended" =>
    /\ counted = written
    /\ at[Writer] = "ended" => counted = Volume

(* Once it forks, whatever fails and whichever numbers the pipe got,       *)
(* everybody ends, and for good, and the reader has read all it should.    *)
FilterCompletes ==
  at[Boss] \notin {"forkLs", "forkReader"} ~> [](EverybodyOver /\ ReadsAll)
=============================================================================
