----------------------------- MODULE EpollEdge ------------------------------
(***************************************************************************)
(* io-model/terminal-io-epoll-et.c: a child copies what is typed on the    *)
(* terminal into a pipe; the parent echoes the pipe, told of new data by   *)
(* an edge-triggered epoll.  An edge is reported once, however much has    *)
(* come, and the parent reads a little of it at a time; so it keeps a list *)
(* of descriptors that may still have data, takes one off when read()      *)
(* answers EAGAIN, and waits for an edge only when the list is empty.      *)
(*                                                                         *)
(* One descriptor is registered, the pipe's, so the list holds it or is    *)
(* empty.  Data is counted in units of one read() of the parent's.         *)
(***************************************************************************)
EXTENDS Integers

CONSTANTS
  Capacity,  \* units the pipe holds
  MaxTyped   \* units that are typed

ASSUME EdgeAssumption == Capacity \in Nat \ {0} /\ MaxTyped \in Nat

VARIABLES
  typed,    \* units typed so far
  tty,      \* of those, the ones the child has not read
  cpc,      \* control point of the child
  msg,      \* units in its buffer
  pipe,     \* units in the pipe
  writer,   \* the child has the write end open
  edge,     \* kernel: an event the next epoll_wait() returns
  ppc,      \* control point of the parent
  timeout,  \* its variable: -1 is "forever", 0 is "none"
  listed,   \* the descriptor is in ready_fds
  numread,  \* what its last read() returned: EAGAIN, or a number of units
  echoed    \* history: units written to stderr

childVars == <<tty, cpc, msg, writer>>
parentVars == <<ppc, timeout, listed, numread, echoed>>
vars == <<typed, childVars, pipe, edge, parentVars>>

EAGAIN == -1

TypeOK ==
  /\ typed \in 0..MaxTyped /\ tty \in 0..MaxTyped /\ msg \in 0..MaxTyped
  /\ cpc \in {"select", "read", "write", "killed"}
  /\ pipe \in 0..Capacity
  /\ writer \in BOOLEAN /\ edge \in BOOLEAN /\ listed \in BOOLEAN
  /\ ppc \in {"wait", "read", "echo", "turn"}
  /\ timeout \in {"forever", "none"}
  /\ numread \in EAGAIN..1
  /\ echoed \in 0..MaxTyped

Init ==
  /\ typed = 0 /\ tty = 0
  /\ cpc = "select" /\ msg = 0 /\ writer = TRUE
  /\ pipe = 0 /\ edge = FALSE
  /\ ppc = "wait" /\ timeout = "forever" /\ listed = FALSE
  /\ numread = 0 /\ echoed = 0

-----------------------------------------------------------------------------
(* The terminal and the child.                                             *)

UserTypes ==
  /\ typed < MaxTyped
  /\ typed' = typed + 1 /\ tty' = tty + 1
  /\ UNCHANGED <<cpc, msg, writer, pipe, edge, parentVars>>

ChildSelect ==
  /\ cpc = "select"
  /\ tty > 0
  /\ cpc' = "read"
  /\ UNCHANGED <<typed, tty, msg, writer, pipe, edge, parentVars>>

(* Some or all of what was typed. *)
ChildRead ==
  /\ cpc = "read"
  /\ msg' \in 1..tty
  /\ tty' = tty - msg'
  /\ cpc' = "write"
  /\ UNCHANGED <<typed, writer, pipe, edge, parentVars>>

ChildDropsRest ==
  /\ cpc = "write"
  /\ pipe < Capacity
  /\ pipe' = pipe + 1
  /\ msg' = 0
  /\ edge' = TRUE
  /\ cpc' = "select"
  /\ UNCHANGED <<typed, tty, writer, parentVars>>

(* write() blocks while the pipe is full, and each part of it that gets in *)
(* is an edge, whether the pipe was empty or not.                          *)
ChildWrite ==
  /\ cpc = "write"
  /\ pipe < Capacity
  /\ pipe' = pipe + 1
  /\ msg' = msg - 1
  /\ edge' = TRUE
  /\ cpc' = IF msg = 1 THEN "select" ELSE "write"
  /\ UNCHANGED <<typed, tty, writer, parentVars>>

(* A signal ends the child: the end of the pipe is an edge too. *)
ChildKilled ==
  /\ cpc # "killed"
  /\ cpc' = "killed" /\ msg' = 0
  /\ writer' = FALSE
  /\ edge' = TRUE
  /\ UNCHANGED <<typed, tty, pipe, parentVars>>

-----------------------------------------------------------------------------
(* The parent.                                                             *)

(* What epoll_wait() reports is added to the list, unless it is there. *)
ParentWait ==
  /\ ppc = "wait"
  /\ edge \/ timeout = "none"
  /\ listed' = (listed \/ edge)
  /\ edge' = FALSE
  /\ ppc' = IF listed' THEN "read" ELSE "turn"
  /\ UNCHANGED <<typed, childVars, pipe, timeout, numread, echoed>>

(* read() of a non-blocking pipe: data, end-of-file or EAGAIN. *)
ParentRead ==
  /\ ppc = "read"
  /\ numread' = IF pipe > 0 THEN 1 ELSE IF writer THEN EAGAIN ELSE 0
  /\ pipe' = IF pipe > 0 THEN pipe - 1 ELSE pipe
  /\ ppc' = "echo"
  /\ UNCHANGED <<typed, childVars, edge, timeout, listed, echoed>>

ParentEchoRemovesAlways ==
  /\ ppc = "echo"
  /\ listed' = FALSE
  /\ echoed' = IF numread = EAGAIN THEN echoed ELSE echoed + numread
  /\ ppc' = "turn"
  /\ UNCHANGED <<typed, childVars, pipe, edge, timeout, numread>>

(* The list is one long: its only turn ends here. *)
ParentEcho ==
  /\ ppc = "echo"
  /\ IF numread = EAGAIN
       THEN listed' = FALSE /\ UNCHANGED echoed
       ELSE echoed' = echoed + numread /\ UNCHANGED listed
  /\ ppc' = "turn"
  /\ UNCHANGED <<typed, childVars, pipe, edge, timeout, numread>>

ParentTurnWaits ==
  /\ ppc = "turn"
  /\ timeout' = "forever"
  /\ ppc' = "wait"
  /\ UNCHANGED <<typed, childVars, pipe, edge, listed, numread, echoed>>

(* An empty list is waited for, a list with something in it is not. *)
ParentTurn ==
  /\ ppc = "turn"
  /\ timeout' = IF listed THEN "none" ELSE "forever"
  /\ ppc' = "wait"
  /\ UNCHANGED <<typed, childVars, pipe, edge, listed, numread, echoed>>

-----------------------------------------------------------------------------
Child == ChildSelect \/ ChildRead \/ ChildWrite
Parent == ParentWait \/ ParentRead \/ ParentEcho \/ ParentTurn

(* Nothing more is typed and the parent waits for an edge. *)
Quiet ==
  /\ typed = MaxTyped /\ tty = 0 /\ cpc \in {"select", "killed"}
  /\ ppc = "wait" /\ timeout = "forever" /\ ~edge
  /\ UNCHANGED vars

Next == UserTypes \/ Child \/ ChildKilled \/ Parent \/ Quiet

(* Both processes are scheduled; nobody has to type. *)
Fairness == WF_vars(Child) /\ WF_vars(Parent)

Spec == Init /\ [][Next]_vars /\ Fairness

-----------------------------------------------------------------------------
(* Properties.                                                             *)

(* No edge is lost: while there is data in the pipe, an edge is pending or *)
(* the descriptor is listed; or the parent has just seen the pipe empty    *)
(* and the data is no older than a pending edge.  And the parent waits     *)
(* forever only with an empty list.                                        *)
NoLostEdge ==
  /\ pipe > 0 => edge \/ (listed /\ ~(ppc = "echo" /\ numread = EAGAIN))
  /\ ppc = "wait" => (timeout = "none" <=> listed)
  /\ ppc \in {"read", "echo"} => listed

(* Everything is accounted for on its way from the terminal to the screen, *)
(* but for what a killed child had in its buffer.                          *)
Conserved ==
  LET onTheWay == tty + msg + pipe + echoed
                  + (IF ppc = "echo" /\ numread # EAGAIN THEN numread ELSE 0)
  IN IF cpc = "killed" THEN onTheWay <= typed ELSE onTheWay = typed

(* The child holds data exactly while it writes. *)
BufferInUse ==
  /\ cpc = "write" <=> msg > 0
  /\ cpc = "read" => tty > 0

EdgeInv == TypeOK /\ BufferInUse /\ NoLostEdge /\ Conserved

(* Whatever is typed is echoed, unless the child is killed; and then still *)
(* all that it has written to the pipe.                                    *)
AllTypedEchoed ==
  \A n \in 1..MaxTyped :
    typed >= n ~> echoed >= n \/ (cpc = "killed" /\ pipe = 0)
=============================================================================
