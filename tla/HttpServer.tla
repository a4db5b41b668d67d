----------------------------- MODULE HttpServer -----------------------------
(***************************************************************************)
(* socket/socket-server-http-select.cpp: the main thread accepts, a worker *)
(* thread answers.  Whatever one recv() returns is taken for a request,    *)
(* its response is queued under the number of the descriptor and sent on a *)
(* later pass, after which the connection is closed.  Nothing takes        *)
(* responses out of the queue when a connection is closed without them.    *)
(*                                                                         *)
(* A connection is a number; of a request, how many pieces of it have come *)
(* matters here, its text in HttpText.  Responses are far smaller than a   *)
(* socket's buffer and a connection is closed after one, so that every     *)
(* open descriptor is writable.                                            *)
(***************************************************************************)
EXTENDS Integers, FiniteSets, Sequences, SequencesExt, FiniteSetsExt

CONSTANTS
  MaxConns,  \* connections that are ever made
  MaxFds,    \* descriptors left for clients
  MaxPieces  \* pieces each client sends its request in, at most

ASSUME HttpAssumption ==
  MaxConns \in Nat /\ MaxFds \in Nat /\ MaxPieces \in [1..MaxConns -> Nat]

(* 0, 1, 2 are the standard ones and 3 is the listening socket. *)
Fds == 4..(3 + MaxFds)
Conns == 1..MaxConns
Response == [fd : Fds, to : Conns]

VARIABLES
  fds,      \* setFdAccepted
  mpc, mfd, \* main thread: control point and sock_client
  wpc,      \* control point of the worker
  raced,    \* the set was changed while the worker walked over it
  watched,  \* the descriptors the walk put in the two fd_sets
  setwd, setrd, \* the descriptors select() left in them
  todo,     \* descriptors the serving pass has not come to
  bClosed,  \* it is going to close the one it is at
  listMsgs, \* the queue; "to" is the connection that asked (history)
  conn,     \* kernel: the connection of each descriptor, 0 for a free one
  peer,     \* what each client is doing
  pieces,   \* pieces each has sent
  unread,   \* kernel: some of those are in the server's receive buffer
  answers,  \* history: how often recv() returned something of a connection
  got       \* history: whose responses each connection was sent

mainVars == <<mpc, mfd>>
queueVars == <<bClosed, listMsgs>>
clientVars == <<peer, pieces>>
histVars == <<answers, got>>
vars == <<fds, mainVars, wpc, raced, watched, setwd, setrd, todo, queueVars,
          conn, clientVars, unread, histVars>>

TypeOK ==
  /\ fds \subseteq Fds
  /\ mpc \in {"accept", "insert"} /\ mfd \in Fds \cup {0}
  /\ wpc \in {"top", "scan", "select", "lock", "serve", "close", "erase"}
  /\ raced \in BOOLEAN
  /\ watched \subseteq Fds /\ setwd \subseteq Fds /\ setrd \subseteq Fds
  /\ todo \subseteq fds /\ bClosed \in BOOLEAN
  /\ listMsgs \in Seq(Response)
  /\ conn \in [Fds -> Conns \cup {0}]
  /\ peer \in [Conns -> {"absent", "connected", "gone"}]
  /\ pieces \in [Conns -> Nat] /\ unread \in [Conns -> BOOLEAN]
  /\ answers \in [Conns -> Nat]
  /\ got \in [Conns -> Seq(Conns)]

Init ==
  /\ fds = {}
  /\ mpc = "accept" /\ mfd = 0
  /\ wpc = "top" /\ raced = FALSE
  /\ watched = {} /\ setwd = {} /\ setrd = {} /\ todo = {} /\ bClosed = FALSE
  /\ listMsgs = <<>>
  /\ conn = [fd \in Fds |-> 0]
  /\ peer = [c \in Conns |-> "absent"]
  /\ pieces = [c \in Conns |-> 0] /\ unread = [c \in Conns |-> FALSE]
  /\ answers = [c \in Conns |-> 0] /\ got = [c \in Conns |-> <<>>]

-----------------------------------------------------------------------------
(* The clients.                                                            *)

Open(c) == \E fd \in Fds : conn[fd] = c

(* What arrives after the server has closed is thrown away. *)
ClientSends(c) ==
  /\ peer[c] = "connected"
  /\ pieces[c] < MaxPieces[c]
  /\ pieces' = [pieces EXCEPT ![c] = @ + 1]
  /\ unread' = [unread EXCEPT ![c] = Open(c)]
  /\ UNCHANGED <<fds, mainVars, wpc, raced, watched, setwd, setrd, todo,
                 queueVars, conn, peer, histVars>>

ClientLeaves(c) ==
  /\ peer[c] = "connected"
  /\ peer' = [peer EXCEPT ![c] = "gone"]
  /\ UNCHANGED <<fds, mainVars, wpc, raced, watched, setwd, setrd, todo,
                 queueVars, conn, pieces, unread, histVars>>

-----------------------------------------------------------------------------
(* The main thread.                                                        *)

MainAccept(c) ==
  LET free == {fd \in Fds : conn[fd] = 0} IN
  /\ mpc = "accept"
  /\ peer[c] = "absent" /\ \A d \in 1..(c - 1) : peer[d] # "absent"
  /\ free # {}
  /\ mfd' = Min(free)
  /\ conn' = [conn EXCEPT ![Min(free)] = c]
  /\ peer' = [peer EXCEPT ![c] = "connected"]
  /\ mpc' = "insert"
  /\ UNCHANGED <<fds, wpc, raced, watched, setwd, setrd, todo, queueVars,
                 pieces, unread, histVars>>

WorkerHoldsMutex == wpc \in {"serve", "close", "erase"}

MainInsertUnlocked ==
  /\ mpc = "insert"
  /\ fds' = fds \cup {mfd}
  /\ raced' = (raced \/ wpc = "scan")
  /\ mpc' = "accept" /\ mfd' = 0
  /\ UNCHANGED <<wpc, watched, setwd, setrd, todo, queueVars, conn,
                 clientVars, unread, histVars>>

MainInsert ==
  /\ mpc = "insert"
  /\ ~WorkerHoldsMutex
  /\ fds' = fds \cup {mfd}
  /\ raced' = (raced \/ wpc = "scan")
  /\ mpc' = "accept" /\ mfd' = 0
  /\ UNCHANGED <<wpc, watched, setwd, setrd, todo, queueVars, conn,
                 clientVars, unread, histVars>>

-----------------------------------------------------------------------------
(* The worker.                                                             *)

(* maxfd after the loop of lines 337-346. *)
Nfds(S) == FoldLeft(LAMBDA m, fd : IF fd > m THEN fd + 1 ELSE m,
                    0, SetToSortSeq(S, <))

Polled(S) == {fd \in S : fd < Nfds(S)}

WorkerStart ==
  /\ wpc = "top"
  /\ fds # {}
  /\ wpc' = "scan"
  /\ UNCHANGED <<fds, mainVars, raced, watched, setwd, setrd, todo, queueVars,
                 conn, clientVars, unread, histVars>>

(* The walk takes no lock: an insert that rebalances the tree under it may *)
(* make it miss any element but the first.                                 *)
WorkerScan ==
  /\ wpc = "scan"
  /\ \/ ~raced /\ watched' = fds
     \/ raced /\ watched' \in SUBSET fds \ {{}}
  /\ raced' = FALSE
  /\ wpc' = "select"
  /\ UNCHANGED <<fds, mainVars, setwd, setrd, todo, queueVars, conn,
                 clientVars, unread, histVars>>

Readable(fd) == unread[conn[fd]] \/ peer[conn[fd]] = "gone"

WorkerSelect ==
  /\ wpc = "select"
  /\ setwd' = Polled(watched)
  /\ setrd' = {fd \in Polled(watched) : Readable(fd)}
  /\ watched' = {}
  /\ wpc' = "lock"
  /\ UNCHANGED <<fds, mainVars, raced, todo, queueVars, conn, clientVars,
                 unread, histVars>>

WorkerLock ==
  /\ wpc = "lock"
  /\ wpc' = "serve"
  /\ todo' = fds
  /\ UNCHANGED <<fds, mainVars, raced, watched, setwd, setrd, queueVars, conn,
                 clientVars, unread, histVars>>

QueuedForAnyone(fd) == DOMAIN listMsgs

QueuedFor(fd) == {i \in DOMAIN listMsgs : listMsgs[i].fd = fd}

SentWithoutErase(i) == listMsgs

(* The queue when the i-th response has been sent. *)
Sent(i) == RemoveAt(listMsgs, i)

(* One send() of the loop over the queue: the next response for fd. *)
WorkerSend ==
  LET fd == Min(todo)
      i == Min(QueuedFor(fd))
  IN
  /\ wpc = "serve"
  /\ todo # {}
  /\ fd \in setwd /\ QueuedFor(fd) # {}
  /\ got' = [got EXCEPT ![conn[fd]] = Append(@, listMsgs[i].to)]
  /\ listMsgs' = Sent(i)
  /\ bClosed' = TRUE
  /\ UNCHANGED <<fds, mainVars, wpc, raced, watched, setwd, setrd, todo, conn,
                 clientVars, unread, answers>>

(* The loop ends when nothing is left to be sent, or with a send() that    *)
(* finds out that the client has gone.  What recv() then returns is        *)
(* answered in the next pass; but a connection that was sent something, or *)
(* is at its end, is closed in this one.  A client that left with          *)
(* responses unread resets the connection: recv() then fails whatever was  *)
(* sent.                                                                   *)
WorkerReceive ==
  LET fd == Min(todo)
      c == conn[fd]
  IN
  /\ wpc = "serve"
  /\ todo # {}
  /\ fd \in setwd /\ QueuedFor(fd) # {} => peer[c] = "gone"
  /\ \/ /\ fd \in setrd /\ unread[c]
        /\ listMsgs' = Append(listMsgs, [fd |-> fd, to |-> c])
        /\ unread' = [unread EXCEPT ![c] = FALSE]
        /\ answers' = [answers EXCEPT ![c] = @ + 1]
        /\ UNCHANGED bClosed
     \/ /\ fd \in setrd /\ peer[c] = "gone"
        /\ bClosed' = TRUE
        /\ UNCHANGED <<listMsgs, unread, answers>>
     \/ /\ fd \notin setrd
        /\ UNCHANGED <<listMsgs, unread, answers, bClosed>>
  /\ IF bClosed'
       THEN wpc' = "close" /\ UNCHANGED todo
       ELSE todo' = todo \ {fd} /\ UNCHANGED wpc
  /\ UNCHANGED <<fds, mainVars, raced, watched, setwd, setrd, conn, clientVars,
                 got>>

(* Between close and erase the number is free for the next accept. *)
WorkerClose ==
  LET fd == Min(todo) IN
  /\ wpc = "close"
  /\ unread' = [unread EXCEPT ![conn[fd]] = FALSE]
  /\ conn' = [conn EXCEPT ![fd] = 0]
  /\ wpc' = "erase"
  /\ UNCHANGED <<fds, mainVars, raced, watched, setwd, setrd, todo, queueVars,
                 clientVars, histVars>>

WorkerErase ==
  /\ wpc = "erase"
  /\ fds' = fds \ {Min(todo)}
  /\ todo' = todo \ {Min(todo)}
  /\ bClosed' = FALSE
  /\ wpc' = "serve"
  /\ UNCHANGED <<mainVars, raced, watched, setwd, setrd, listMsgs, conn,
                 clientVars, unread, histVars>>

WorkerUnlock ==
  /\ wpc = "serve"
  /\ todo = {}
  /\ wpc' = "top"
  /\ setwd' = {} /\ setrd' = {}
  /\ UNCHANGED <<fds, mainVars, raced, watched, todo, queueVars, conn,
                 clientVars, unread, histVars>>

-----------------------------------------------------------------------------
Worker ==
  \/ WorkerStart \/ WorkerScan \/ WorkerSelect \/ WorkerLock
  \/ WorkerSend \/ WorkerReceive \/ WorkerClose \/ WorkerErase \/ WorkerUnlock

(* The worker spins on its test of an empty set. *)
Idle ==
  /\ wpc = "top" /\ fds = {} /\ mpc = "accept"
  /\ UNCHANGED vars

Next ==
  \/ \E c \in Conns : MainAccept(c) \/ ClientSends(c) \/ ClientLeaves(c)
  \/ MainInsert
  \/ Worker
  \/ Idle

(* Both threads are scheduled, and the main thread, which competes for a   *)
(* mutex the worker releases on every pass, gets it some time.  No client  *)
(* has to come, to send or to leave.                                       *)
Fairness == SF_vars(MainInsert) /\ WF_vars(Worker)

Spec == Init /\ [][Next]_vars /\ Fairness

-----------------------------------------------------------------------------
(* Properties.                                                             *)

(* What a stray response needs: a client that left without its own, or a   *)
(* request that came in pieces, no later than c.             *)
Disturbed(c) ==
  \E e \in 1..c : answers[e] > 1 \/ (peer[e] = "gone" /\ got[e] # <<e>>)

(* A connection may be sent the response to another's request, because the *)
(* queue knows descriptors only and numbers are used again.  Once that has *)
(* happened it goes on: the response it displaced is the next one's.  But  *)
(* it takes an earlier client that left before its own response, or whose  *)
(* request came in pieces, and the response is always an earlier one's.    *)
StrayResponse ==
  \A c \in Conns : \A k \in DOMAIN got[c] :
    LET d == got[c][k] IN
    d # c => /\ d < c
             /\ Disturbed(d)

(* Nothing is lost or sent twice: of the responses made for a connection,  *)
(* each has been sent to somebody or is still queued.                      *)
ResponsesConserved ==
  \A d \in Conns :
    answers[d] = Cardinality({i \in DOMAIN listMsgs : listMsgs[i].to = d})
               + Cardinality({ck \in UNION {{c} \X DOMAIN got[c] : c \in Conns} :
                                got[ck[1]][ck[2]] = d})

(* A client that sends something is sent its own response and nothing else *)
(* unless it, or one before it, causes or passes on strays, or it comes to *)
(* be the one select() does not look at.                                   *)
SenderAnswered ==
  \A c \in Conns :
    pieces[c] > 0 ~> \/ got[c] = <<c>>
                     \/ Disturbed(c)
                     \/ \E fd \in fds \ Polled(fds) : conn[fd] = c
=============================================================================
