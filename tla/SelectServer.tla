---------------------------- MODULE SelectServer ----------------------------
(***************************************************************************)
(* socket/socket-server-tcp-select.cpp: the main thread accepts clients    *)
(* into a set of descriptors; a worker thread selects over that set, sends *)
(* every line typed on stdin to "all" clients and closes those that hang   *)
(* up.  The mutex guards the main thread's insert and the worker's serving *)
(* pass, not the worker's other reads of the set.                          *)
(*                                                                         *)
(* What clients send is printed and forgotten, so only their hanging up is *)
(* modelled.  A connection is a number, its descriptor the lowest that is  *)
(* free; a message is the number of its line, so that the order of the     *)
(* queue is the order of the numbers.                                      *)
(***************************************************************************)
EXTENDS Integers, FiniteSets, FiniteSetsExt

CONSTANTS
  MaxConns,  \* connections that are ever made
  MaxFds,    \* descriptors left for clients
  MaxMsgs    \* lines typed on stdin

ASSUME SelectAssumption == MaxConns \in Nat /\ MaxFds \in Nat /\ MaxMsgs \in Nat

(* 0, 1, 2 are the standard ones and 3 is the listening socket. *)
FirstFd == 4
LastFd == FirstFd + MaxFds - 1
Fds == FirstFd..LastFd
Conns == 1..MaxConns
Msgs == 1..MaxMsgs

VARIABLES
  fds,     \* setFdAccepted
  mpc,     \* control point of the main thread
  mfd,     \* its sock_client, 0 outside an iteration
  wpc,     \* control point of the worker
  raced,   \* the set was changed while the worker walked over it
  watched, \* what the worker put in the two fd_sets
  setwd,   \* descriptors select() found writable
  setrd,   \* descriptors it found hung up, 0 for a line on stdin
  todo,    \* descriptors the serving pass has not come to
  queue,   \* queMsgs: how often each queued line is still to be sent
  conn,    \* kernel: the connection of each descriptor, 0 for a free one
  peer,    \* what the client of a connection has done
  full,    \* kernel: connections whose client has not made room by reading
  typed,   \* lines read from stdin
  count,   \* history: how often each line was to be sent
  sent     \* history: how often it was

mainVars == <<mpc, mfd>>
workerVars == <<wpc, raced, watched, setwd, setrd, todo>>
msgVars == <<queue, typed, count, sent>>
vars == <<fds, mainVars, workerVars, msgVars, conn, peer, full>>

TypeOK ==
  /\ fds \subseteq Fds
  /\ mpc \in {"accept", "insert"} /\ mfd \in Fds \cup {0}
  /\ wpc \in {"top", "scan", "select", "stdin", "lock", "serve", "close", "erase"}
  /\ raced \in BOOLEAN
  /\ watched \subseteq Fds /\ setwd \subseteq Fds /\ setrd \subseteq Fds \cup {0}
  /\ todo \subseteq Fds
  /\ DOMAIN queue \subseteq Msgs /\ \A m \in DOMAIN queue : queue[m] \in 0..MaxFds
  /\ conn \in [Fds -> Conns \cup {0}]
  /\ peer \in [Conns -> {"absent", "connected", "gone"}]
  /\ full \subseteq Conns
  /\ typed \in 0..MaxMsgs
  /\ count \in [Msgs -> 0..MaxFds]
  /\ sent \in [Msgs -> 0..MaxFds]

Init ==
  /\ fds = {}
  /\ mpc = "accept" /\ mfd = 0
  /\ wpc = "top" /\ raced = FALSE
  /\ watched = {} /\ setwd = {} /\ setrd = {} /\ todo = {}
  /\ queue = <<>> /\ typed = 0 /\ count = [m \in Msgs |-> 0]
  /\ sent = [m \in Msgs |-> 0]
  /\ conn = [fd \in Fds |-> 0]
  /\ peer = [c \in Conns |-> "absent"]
  /\ full = {}

-----------------------------------------------------------------------------
(* The clients.                                                            *)

PeerLeaves(c) ==
  /\ peer[c] = "connected"
  /\ peer' = [peer EXCEPT ![c] = "gone"]
  /\ UNCHANGED <<fds, mainVars, workerVars, msgVars, conn, full>>

PeerReads(c) ==
  /\ peer[c] = "connected"
  /\ c \in full
  /\ full' = full \ {c}
  /\ UNCHANGED <<fds, mainVars, workerVars, msgVars, conn, peer>>

-----------------------------------------------------------------------------
(* The main thread.                                                        *)

MainAccept(c) ==
  LET free == {fd \in Fds : conn[fd] = 0} IN
  /\ mpc = "accept"
  /\ peer[c] = "absent" /\ \A d \in 1..(c - 1) : peer[d] # "absent"
  /\ free # {}
  /\ mfd' = Min(free)
  /\ conn' = [conn EXCEPT ![Min(free)] = c]
  /\ peer' = [peer EXCEPT ![c] = "connected"]
  /\ mpc' = "insert"
  /\ UNCHANGED <<fds, workerVars, msgVars, full>>

WorkerHoldsMutex == wpc \in {"serve", "close", "erase"}

MainInsertUnlocked ==
  /\ mpc = "insert"
  /\ fds' = fds \cup {mfd}
  /\ raced' = (raced \/ wpc = "scan")
  /\ mpc' = "accept" /\ mfd' = 0
  /\ UNCHANGED <<wpc, watched, setwd, setrd, todo, msgVars, conn, peer, full>>

MainInsert ==
  /\ mpc = "insert"
  /\ ~WorkerHoldsMutex
  /\ fds' = fds \cup {mfd}
  /\ raced' = (raced \/ wpc = "scan")
  /\ mpc' = "accept" /\ mfd' = 0
  /\ UNCHANGED <<wpc, watched, setwd, setrd, todo, msgVars, conn, peer, full>>

-----------------------------------------------------------------------------
(* The worker: choosing what to wait for.                                  *)

NfdsOfLastOnly(S) == IF S = {} THEN 0 ELSE Max(S)

(* maxfd when the loop of lines 43-49 has come to descriptor fd of S.  It  *)
(* is one more than the last descriptor that raised it: a descriptor that  *)
(* is only one above that does not.                                        *)
MaxfdAt(S) ==
  LET maxfd[fd \in Nat] ==
        IF fd = 0 THEN 0
        ELSE LET m == maxfd[fd - 1] IN IF fd \in S /\ fd > m THEN fd + 1 ELSE m
  IN maxfd

Nfds(S) == MaxfdAt(S)[LastFd]

Polled(S) == {fd \in S : fd < Nfds(S)}

WorkerStart ==
  /\ wpc = "top"
  /\ fds # {}
  /\ wpc' = "scan"
  /\ UNCHANGED <<fds, mainVars, raced, watched, setwd, setrd, todo, msgVars, conn, peer, full>>

(* The walk takes no lock.  When an insert rebalances the tree under it,   *)
(* it may miss any of the elements but the one it begins with.             *)
WorkerScan ==
  /\ wpc = "scan"
  /\ \/ ~raced /\ watched' = fds
     \/ raced /\ watched' \in SUBSET fds \ {{}}
  /\ raced' = FALSE
  /\ wpc' = "select"
  /\ UNCHANGED <<fds, mainVars, setwd, setrd, todo, msgVars, conn, peer, full>>

HungUp(fd) == conn[fd] # 0 /\ peer[conn[fd]] = "gone"

HasRoom(fd) == conn[fd] \notin full

(* select() looks at the descriptors below nfds only and clears the rest.  *)
(* It reports all that have room and all that hung up, which count as      *)
(* writable or not, and has no timeout: it does not return before there is *)
(* something to report, be it only what a client has sent.                 *)
WorkerSelect ==
  LET polled == Polled(watched) IN
  /\ wpc = "select"
  /\ \E gone \in SUBSET {fd \in polled : HungUp(fd)} :
       setwd' = gone \cup {fd \in polled : HasRoom(fd)}
  /\ \E line \in IF typed < MaxMsgs THEN {{}, {0}} ELSE {{}} :
       setrd' = line \cup {fd \in polled : HungUp(fd)}
  /\ \/ setwd' \cup setrd' # {}
     \/ \E fd \in polled : ~HungUp(fd)
  /\ watched' = {}
  /\ wpc' = "stdin"
  /\ UNCHANGED <<fds, mainVars, raced, todo, msgVars, conn, peer, full>>

(* The line is to be sent as many times as there are clients now. *)
WorkerReadStdin ==
  LET n == Cardinality(fds) IN
  /\ wpc = "stdin"
  /\ IF 0 \in setrd
       THEN /\ typed' = typed + 1
            /\ queue' = [m \in DOMAIN queue \cup {typed + 1} |->
                           IF m = typed + 1 THEN n ELSE queue[m]]
            /\ count' = [count EXCEPT ![typed + 1] = n]
       ELSE UNCHANGED <<typed, queue, count>>
  /\ wpc' = "lock"
  /\ UNCHANGED <<fds, mainVars, raced, watched, setwd, setrd, todo, sent, conn, peer, full>>

-----------------------------------------------------------------------------
(* The worker: the serving pass, lines 64-114.                             *)

WorkerLock ==
  /\ wpc = "lock"
  /\ wpc' = "serve"
  /\ todo' = fds
  /\ UNCHANGED <<fds, mainVars, raced, watched, setwd, setrd, msgVars, conn, peer, full>>

SentWithoutCheck(fd, now) ==
  now = IF fd \in setwd THEN DOMAIN queue ELSE {}

(* send() goes from the newest queued message that is still due to the     *)
(* oldest and stops at the first failure: the client is gone, or it has    *)
(* taken some but has no room for more.                                    *)
SentTo(fd, now) ==
  LET due == IF fd \in setwd THEN {m \in DOMAIN queue : queue[m] > 0} ELSE {}
  IN /\ now \in SUBSET due
     /\ \A m \in now, k \in due : k > m => k \in now
     /\ now # due => now # {} \/ HungUp(fd)

SendFails(fd, now) ==
  fd \in setwd /\ \E m \in DOMAIN queue : queue[m] > 0 /\ m \notin now

WorkerServeIgnoresEOF ==
  LET fd == Min(todo) IN
  /\ wpc = "serve"
  /\ todo # {}
  /\ \E now \in SUBSET DOMAIN queue :
       /\ SentTo(fd, now)
       /\ queue' = [m \in DOMAIN queue |-> IF m \in now THEN queue[m] - 1 ELSE queue[m]]
       /\ sent' = [m \in Msgs |-> IF m \in now THEN sent[m] + 1 ELSE sent[m]]
       /\ full' \in {full, full \cup {conn[fd] : m \in now}}
       /\ IF SendFails(fd, now)
            THEN wpc' = "close" /\ UNCHANGED todo
            ELSE todo' = todo \ {fd} /\ UNCHANGED wpc
  /\ UNCHANGED <<fds, mainVars, raced, watched, setwd, setrd, typed, count, conn, peer>>

WorkerServe ==
  LET fd == Min(todo) IN
  /\ wpc = "serve"
  /\ todo # {}
  /\ \E now \in SUBSET DOMAIN queue :
       /\ SentTo(fd, now)
       /\ queue' = [m \in DOMAIN queue |-> IF m \in now THEN queue[m] - 1 ELSE queue[m]]
       /\ sent' = [m \in Msgs |-> IF m \in now THEN sent[m] + 1 ELSE sent[m]]
       /\ full' \in {full, full \cup {conn[fd] : m \in now}}
       /\ IF SendFails(fd, now) \/ fd \in setrd
            THEN wpc' = "close" /\ UNCHANGED todo
            ELSE todo' = todo \ {fd} /\ UNCHANGED wpc
  /\ UNCHANGED <<fds, mainVars, raced, watched, setwd, setrd, typed, count, conn, peer>>

(* Between close and erase the number is free for the next accept. *)
WorkerClose ==
  /\ wpc = "close"
  /\ conn' = [conn EXCEPT ![Min(todo)] = 0]
  /\ full' = full \ {conn[Min(todo)]}
  /\ wpc' = "erase"
  /\ UNCHANGED <<fds, mainVars, raced, watched, setwd, setrd, todo, msgVars, peer>>

WorkerErase ==
  /\ wpc = "erase"
  /\ fds' = fds \ {Min(todo)}
  /\ todo' = todo \ {Min(todo)}
  /\ wpc' = "serve"
  /\ UNCHANGED <<mainVars, raced, watched, setwd, setrd, msgVars, conn, peer, full>>

(* Messages sent often enough are dropped from the queue. *)
WorkerUnlock ==
  /\ wpc = "serve"
  /\ todo = {}
  /\ queue' = [m \in {k \in DOMAIN queue : queue[k] > 0} |-> queue[m]]
  /\ wpc' = "top"
  /\ setwd' = {} /\ setrd' = {}
  /\ UNCHANGED <<fds, mainVars, raced, watched, todo, typed, count, sent, conn, peer, full>>

-----------------------------------------------------------------------------
Worker ==
  \/ WorkerStart \/ WorkerScan \/ WorkerSelect \/ WorkerReadStdin
  \/ WorkerLock \/ WorkerServe \/ WorkerClose \/ WorkerErase \/ WorkerUnlock

(* Nobody is connected and nobody will be: the worker spins on its test of *)
(* an empty set.                                                           *)
Idle ==
  /\ wpc = "top" /\ fds = {} /\ mpc = "accept"
  /\ UNCHANGED vars

Next ==
  \/ \E c \in Conns : MainAccept(c) \/ PeerLeaves(c) \/ PeerReads(c)
  \/ MainInsert
  \/ Worker
  \/ Idle

(* In select() the worker is blocked unless a client it looks at has room  *)
(* or has hung up; a line or data may wake it, but need not come.          *)
CanRun ==
  wpc = "select" => \E fd \in Polled(watched) : HasRoom(fd) \/ HungUp(fd)

(* Both threads are scheduled, and the main thread, which competes for a   *)
(* mutex the worker releases on every pass, gets it some time.  No client  *)
(* has to come, to leave or to read, nobody has to type.                   *)
Fairness == SF_vars(MainInsert) /\ WF_vars(CanRun /\ Worker)

Spec == Init /\ [][Next]_vars /\ Fairness

-----------------------------------------------------------------------------
(* Properties.                                                             *)

(* select's first argument is the highest descriptor plus one              *)
(* (io-model/README.md:112), so that it looks at every watched descriptor. *)
NfdsCoversAll ==
  wpc = "select" => \A fd \in watched : fd < Nfds(watched)

(* It does not, but what it misses is at most the highest descriptor, and  *)
(* only when that is the successor of another one.                         *)
BlindSpotIsLast ==
  wpc = "select" =>
    \A fd \in watched \ Polled(watched) :
      fd = Max(watched) /\ fd - 1 \in watched

(* The set and the kernel's table agree although a number may be accepted  *)
(* anew between its close and its erase: an open connection is in the set  *)
(* or in the main thread's hands, and the set never holds a number whose   *)
(* connection is closed except in that window.                             *)
EveryConnectionTracked ==
  \A fd \in Fds :
    /\ conn[fd] # 0 => fd \in fds \/ (mpc = "insert" /\ mfd = fd)
    /\ fd \in fds => conn[fd] # 0 \/ (wpc = "erase" /\ fd = Min(todo))

(* The inductive invariant of the proof.  The descriptor in the main       *)
(* thread's hands is open, and in the set only if the worker is about to   *)
(* erase the connection that had the number before.                        *)
DescriptorsOK ==
  /\ fds \subseteq Fds /\ todo \subseteq Fds
  /\ mpc \in {"accept", "insert"}
  /\ conn \in [Fds -> Conns \cup {0}]

InHand ==
  mpc = "insert" =>
    /\ mfd \in Fds /\ conn[mfd] # 0
    /\ mfd \in fds => wpc = "erase" /\ mfd = Min(todo)

(* The worker serves members of the set; the number it is about to erase   *)
(* is free, unless the main thread has just been given it.                 *)
ServesMembers ==
  /\ WorkerHoldsMutex => todo \subseteq fds
  /\ wpc \in {"close", "erase"} => todo # {}
  /\ wpc = "erase" /\ conn[Min(todo)] # 0 => mpc = "insert" /\ mfd = Min(todo)

TrackInv == DescriptorsOK /\ InHand /\ ServesMembers /\ EveryConnectionTracked

(* A line is sent as often as there were clients when it was read, never   *)
(* more, and it stays queued until it has been: sends to whomever, a       *)
(* client served twice included, account for all of its count.             *)
SendsAccountedFor ==
  \A m \in 1..typed :
    sent[m] + (IF m \in DOMAIN queue THEN queue[m] ELSE 0) = count[m]

(* Its inductive invariant: only lines that were typed are queued, and one *)
(* that was not has not been sent.                                         *)
LinesInv ==
  /\ watched \subseteq Fds
  /\ typed \in 0..MaxMsgs /\ (wpc = "stdin" /\ 0 \in setrd => typed < MaxMsgs)
  /\ DOMAIN queue \subseteq 1..typed /\ \A m \in DOMAIN queue : queue[m] \in Nat
  /\ count \in [Msgs -> Nat] /\ sent \in [Msgs -> Nat]
  /\ \A m \in Msgs \ (1..typed) : sent[m] = 0
  /\ SendsAccountedFor

(* A client that hangs up is noticed and its descriptor freed, with two    *)
(* exceptions: it comes to be the one select() does not look at, or the    *)
(* worker stays for ever in a select() that does not look at it because it *)
(* began without it, and no client it does look at makes room or leaves.   *)
BlockedWithout(c) ==
  wpc = "select" /\ \A fd \in Polled(watched) : conn[fd] \in full \ {c}

LeaverReleased ==
  \A c \in Conns :
    peer[c] = "gone" ~>
      \/ \A fd \in Fds : conn[fd] = c => fd \in fds \ Polled(fds)
      \/ []BlockedWithout(c)
============================================================================
