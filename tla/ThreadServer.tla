---------------------------- MODULE ThreadServer ----------------------------
(***************************************************************************)
(* socket/socket-server-tcp-mt.c: one thread per connection.  Each answers *)
(* what its client sends with a line typed on the one terminal, which a    *)
(* mutex gives to one thread at a time.  The main thread passes a pointer  *)
(* to its own variable to the new thread, which reads it when it first     *)
(* runs: after the next accept() that is another client's descriptor.      *)
(*                                                                         *)
(* A connection is a number; the thread created after the accept() of      *)
(* connection t is thread t.  The terminal yields MaxLines lines and then  *)
(* end-of-file.                                                            *)
(***************************************************************************)
EXTENDS Integers, FiniteSets

CONSTANTS
  MaxConns,  \* connections that are ever made
  MaxFds,    \* descriptors left for clients
  MaxSaid,   \* messages a client sends
  MaxLines   \* lines typed on the terminal

ASSUME ThreadAssumption ==
  MaxConns \in Nat /\ MaxFds \in Nat /\ MaxSaid \in Nat /\ MaxLines \in Nat

Fds == 4..(3 + MaxFds)
NoFd == 0
Conns == 1..MaxConns
None == 0
Threads == Conns

VARIABLES
  mpc,     \* control point of the main thread
  slot,    \* its variable sock_client; NoFd stands for -1
  conn,    \* kernel: the connection of each descriptor, None for a free one
  peer,    \* what each client is doing
  said,    \* messages each has sent
  unread,  \* kernel: there is something to receive on a connection
  tpc,     \* control point of each thread
  sock,    \* its variable sock
  on,      \* the connection its recv() is under way on
  heard,   \* history: the connection its last recv() returned from
  typed,   \* lines read from the terminal
  mixups,  \* history: pairs of a connection heard and another one answered
  missed   \* history: threads that were created and had not read the slot
           \* when it was overwritten

clientVars == <<peer, said>>
histVars == <<mixups, missed>>
vars == <<mpc, slot, conn, clientVars, unread, tpc, sock, on, heard, typed, histVars>>

TypeOK ==
  /\ mpc \in {"accept", "create", "dead"}
  /\ slot \in Fds \cup {NoFd}
  /\ conn \in [Fds -> Conns \cup {None}]
  /\ peer \in [Conns -> {"absent", "connected", "gone"}]
  /\ said \in [Conns -> 0..MaxSaid]
  /\ unread \in [Conns -> BOOLEAN]
  /\ tpc \in [Threads -> {"none", "failed", "start", "recv", "blocked", "lock", "stdin",
                          "send", "close", "done"}]
  /\ sock \in [Threads -> Fds \cup {NoFd}]
  /\ on \in [Threads -> Conns \cup {None}]
  /\ heard \in [Threads -> Conns \cup {None}]
  /\ typed \in 0..MaxLines
  /\ \A t \in Threads : tpc[t] = "blocked" <=> on[t] # None
  /\ \A t \in Threads : tpc[t] \in {"lock", "stdin", "send"} => heard[t] # None
  /\ mixups \subseteq Conns \X Conns
  /\ missed \subseteq Threads

Init ==
  /\ mpc = "accept" /\ slot = NoFd
  /\ conn = [fd \in Fds |-> None]
  /\ peer = [c \in Conns |-> "absent"] /\ said = [c \in Conns |-> 0]
  /\ unread = [c \in Conns |-> FALSE]
  /\ tpc = [t \in Threads |-> "none"] /\ sock = [t \in Threads |-> NoFd]
  /\ on = [t \in Threads |-> None] /\ heard = [t \in Threads |-> None]
  /\ typed = 0
  /\ mixups = {} /\ missed = {}

(* The connection a descriptor number means now. *)
ConnOf(fd) == IF fd = NoFd THEN None ELSE conn[fd]

-----------------------------------------------------------------------------
(* The clients.                                                            *)

ClientSays(c) ==
  /\ peer[c] = "connected"
  /\ said[c] < MaxSaid
  /\ said' = [said EXCEPT ![c] = @ + 1]
  /\ unread' = [unread EXCEPT ![c] = TRUE]
  /\ UNCHANGED <<mpc, slot, conn, peer, tpc, sock, on, heard, typed, histVars>>

ClientLeaves(c) ==
  /\ peer[c] = "connected"
  /\ peer' = [peer EXCEPT ![c] = "gone"]
  /\ UNCHANGED <<mpc, slot, conn, said, unread, tpc, sock, on, heard, typed, histVars>>

-----------------------------------------------------------------------------
(* The main thread.                                                        *)

Unstarted == {t \in Threads : tpc[t] = "start"}
Lowest(S) == CHOOSE x \in S : \A y \in S : x <= y
Free == {fd \in Fds : conn[fd] = None}

MainAccept(c) ==
  /\ mpc = "accept"
  /\ peer[c] = "absent" /\ \A d \in 1..(c - 1) : peer[d] # "absent"
  /\ Free # {}
  /\ slot' = Lowest(Free)
  /\ conn' = [conn EXCEPT ![Lowest(Free)] = c]
  /\ peer' = [peer EXCEPT ![c] = "connected"]
  /\ missed' = missed \cup Unstarted
  /\ mpc' = "create"
  /\ UNCHANGED <<said, unread, tpc, sock, on, heard, typed, mixups>>

(* EMFILE: the variable is set to -1 all the same. *)
MainAcceptFails ==
  /\ mpc = "accept"
  /\ Free = {}
  /\ slot' = NoFd
  /\ missed' = missed \cup Unstarted
  /\ UNCHANGED <<mpc, conn, clientVars, unread, tpc, sock, on, heard, typed, mixups>>

MainCreateCloses ==
  LET t == Lowest({u \in Threads : tpc[u] = "none"}) IN
  /\ mpc = "create"
  /\ tpc' = [tpc EXCEPT ![t] = "start"]
  /\ conn' = [conn EXCEPT ![slot] = None]
  /\ mpc' = "accept"
  /\ UNCHANGED <<slot, clientVars, unread, sock, on, heard, typed, histVars>>

MainCreate ==
  LET t == Lowest({u \in Threads : tpc[u] = "none"}) IN
  /\ mpc = "create"
  /\ tpc' = [tpc EXCEPT ![t] = "start"]
  /\ mpc' = "accept"
  /\ UNCHANGED <<slot, conn, clientVars, unread, sock, on, heard, typed, histVars>>

(* pthread_create() returns an error, never less than 0: the connection    *)
(* stays open, and the loop goes on to detach a thread it does not have.   *)
MainCreateFails ==
  LET t == Lowest({u \in Threads : tpc[u] = "none"}) IN
  /\ mpc = "create"
  /\ tpc' = [tpc EXCEPT ![t] = "failed"]
  /\ mpc' = "accept"
  /\ UNCHANGED <<slot, conn, clientVars, unread, sock, on, heard, typed, histVars>>

(* That handle is not initialized: pthread_detach() may well fault.        *)
MainDetachFaults ==
  /\ mpc = "create"
  /\ mpc' = "dead"
  /\ tpc' = [t \in Threads |-> IF tpc[t] = "none" THEN "none" ELSE "done"]
  /\ on' = [t \in Threads |-> None]
  /\ conn' = [fd \in Fds |-> None]
  /\ UNCHANGED <<slot, clientVars, unread, sock, heard, typed, histVars>>

-----------------------------------------------------------------------------
(* Thread t.                                                               *)

ThreadStart(t) ==
  /\ tpc[t] = "start"
  /\ sock' = [sock EXCEPT ![t] = slot]
  /\ tpc' = [tpc EXCEPT ![t] = "recv"]
  /\ UNCHANGED <<mpc, slot, conn, clientVars, unread, on, heard, typed, histVars>>

(* recv() looks its descriptor up when it is called. *)
ThreadCallRecv(t) ==
  LET c == ConnOf(sock[t]) IN
  /\ tpc[t] = "recv"
  /\ on' = [on EXCEPT ![t] = c]
  /\ tpc' = [tpc EXCEPT ![t] = IF c = None THEN "close" ELSE "blocked"]
  /\ UNCHANGED <<mpc, slot, conn, clientVars, unread, sock, heard, typed, histVars>>

(* It returns with what has come, with 0 at its end, which the thread does *)
(* not tell from a message, or with the reset that sending to a client     *)
(* that has gone brings.                                                   *)
ThreadRecv(t) ==
  LET c == on[t] IN
  /\ tpc[t] = "blocked"
  /\ \/ /\ unread[c] \/ peer[c] = "gone"
        /\ heard' = [heard EXCEPT ![t] = c]
        /\ tpc' = [tpc EXCEPT ![t] = "lock"]
     \/ /\ peer[c] = "gone"
        /\ tpc' = [tpc EXCEPT ![t] = "close"]
        /\ UNCHANGED heard
  /\ unread' = [unread EXCEPT ![c] = FALSE]
  /\ on' = [on EXCEPT ![t] = None]
  /\ UNCHANGED <<mpc, slot, conn, clientVars, sock, typed, histVars>>

ThreadLock(t) ==
  /\ tpc[t] = "lock"
  /\ \A u \in Threads : tpc[u] # "stdin"
  /\ tpc' = [tpc EXCEPT ![t] = "stdin"]
  /\ UNCHANGED <<mpc, slot, conn, clientVars, unread, sock, on, heard, typed, histVars>>

(* A line, the line "q", or the end of the terminal's input. *)
ThreadReadLine(t) ==
  /\ tpc[t] = "stdin"
  /\ \/ /\ typed < MaxLines
        /\ typed' = typed + 1
        /\ \E next \in {"send", "close"} : tpc' = [tpc EXCEPT ![t] = next]
     \/ /\ typed = MaxLines
        /\ tpc' = [tpc EXCEPT ![t] = "recv"]
        /\ UNCHANGED typed
  /\ UNCHANGED <<mpc, slot, conn, clientVars, unread, sock, on, heard, histVars>>

(* The line goes to whichever connection has the number now; EBADF when    *)
(* none has, EPIPE perhaps when its client has gone (SIGPIPE is ignored).  *)
ThreadSend(t) ==
  LET c == ConnOf(sock[t]) IN
  /\ tpc[t] = "send"
  /\ \/ /\ c # None
        /\ mixups' = mixups \cup ({<<heard[t], c>>} \ {<<c, c>>})
        /\ tpc' = [tpc EXCEPT ![t] = "recv"]
     \/ /\ c # None => peer[c] = "gone"
        /\ tpc' = [tpc EXCEPT ![t] = "close"]
        /\ UNCHANGED mixups
  /\ UNCHANGED <<mpc, slot, conn, clientVars, unread, sock, on, heard, typed, missed>>

ThreadKeepsOpen(t) ==
  /\ tpc[t] = "close"
  /\ tpc' = [tpc EXCEPT ![t] = "done"]
  /\ UNCHANGED <<mpc, slot, conn, clientVars, unread, sock, on, heard, typed, histVars>>

(* Whatever has the number is closed. *)
ThreadClose(t) ==
  /\ tpc[t] = "close"
  /\ conn' = [fd \in Fds |-> IF fd = sock[t] THEN None ELSE conn[fd]]
  /\ tpc' = [tpc EXCEPT ![t] = "done"]
  /\ UNCHANGED <<mpc, slot, clientVars, unread, sock, on, heard, typed, histVars>>

-----------------------------------------------------------------------------
Thread(t) ==
  \/ ThreadStart(t) \/ ThreadCallRecv(t) \/ ThreadRecv(t) \/ ThreadLock(t)
  \/ ThreadReadLine(t) \/ ThreadSend(t) \/ ThreadClose(t)

(* The main thread waits for a client and no thread has anything to do, or *)
(* there is no process any more.                                           *)
Idle ==
  /\ \/ mpc = "dead"
     \/ /\ mpc = "accept" /\ \A c \in Conns : peer[c] # "absent"
        /\ \A t \in Threads : tpc[t] \in {"failed", "blocked", "done"}
  /\ UNCHANGED vars

Next ==
  \/ \E c \in Conns : ClientSays(c) \/ ClientLeaves(c) \/ MainAccept(c)
  \/ MainAcceptFails \/ MainCreate \/ MainCreateFails \/ MainDetachFaults
  \/ \E t \in Threads : Thread(t)
  \/ Idle

Spec == Init /\ [][Next]_vars

-----------------------------------------------------------------------------
(* Properties.                                                             *)

Live(t) == tpc[t] \notin {"none", "failed", "start", "done"}

(* As long as every thread reads the slot before the next accept() sets    *)
(* it, numbers that are used again confuse nobody: a thread that runs has  *)
(* a descriptor of its own, that of its own connection, which nobody else  *)
(* closes; and what it answers is the connection it heard.                 *)
NoRaceNoMixup ==
  missed = {} =>
    /\ \A t \in Threads : Live(t) => ConnOf(sock[t]) = t
    /\ \A t \in Threads : on[t] \in {None, t}
    /\ mixups = {}

(* The inductive invariant of the proof.  For every connection accepted a  *)
(* thread was created or could not be, but for the one the main thread is  *)
(* about to create.                                                        *)
ThreadForEach ==
  /\ mpc = "accept" => \A t \in Threads : tpc[t] = "none" <=> peer[t] = "absent"
  /\ mpc = "create" =>
       \E n \in Threads :
         /\ tpc[n] = "none" /\ peer[n] # "absent"
         /\ slot \in Fds /\ (missed = {} => conn[slot] = n)
         /\ \A t \in Threads \ {n} : tpc[t] = "none" <=> peer[t] = "absent"
         /\ \A t \in Threads : tpc[t] = "none" => n <= t

(* Until the first race, threads keep to connections of their own.         *)
KeepsToItsOwn(t) ==
  /\ tpc[t] = "start" => mpc = "accept" /\ slot \in Fds /\ conn[slot] = t
  /\ Live(t) => sock[t] \in Fds /\ conn[sock[t]] = t
  /\ on[t] \in {None, t}
  /\ tpc[t] \in {"lock", "stdin", "send"} => heard[t] = t

NoRaceYet == missed = {} => mixups = {} /\ \A t \in Threads : KeepsToItsOwn(t)

ThreadInv == TypeOK /\ ThreadForEach /\ NoRaceYet

(* A connection without a thread has no end: nobody receives from it, and  *)
(* its descriptor is taken for ever.  It takes a thread created for it     *)
(* that missed its slot, or one that could not be created: closing and     *)
(* accepting numbers anew leaves nobody behind otherwise.                  *)
Orphans ==
  {c \in Conns : \E fd \in Fds :
     /\ conn[fd] = c /\ tpc[c] # "none"
     /\ \A t \in Threads : ~(Live(t) /\ sock[t] = fd) /\ ~(tpc[t] = "start" /\ slot = fd)}

OrphansExplained == Orphans \subseteq missed \cup {t \in Threads : tpc[t] = "failed"}
=============================================================================
