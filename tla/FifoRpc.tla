------------------------------ MODULE FifoRpc ------------------------------
(***************************************************************************)
(* ipc-pipe/fifo-server.cpp and fifo-client.cpp: requests to one server go *)
(* through a well-known FIFO, each answer through a FIFO named after the   *)
(* client's pid.  The kernel's part is in the opens, which block until the *)
(* other end is opened too and then return on both sides, and in the       *)
(* buffer of a FIFO, which lives as long as somebody holds an end of it.   *)
(*                                                                         *)
(* A pid may be used by MaxRuns client processes one after the other; a    *)
(* request is the pid and the run that wrote it.                           *)
(***************************************************************************)
EXTENDS Naturals, Sequences, SequencesExt

CONSTANTS Pids, MaxRuns, MaxKills, MaxCrashes

VARIABLES
  spc,      \* control point of the server
  sreq,     \* the request it works on, or NoRequest
  sfd,      \* pid whose FIFO it has open or is opening, NoFifo for none and
            \* for a FIFO that is no longer in the file system
  swrite,   \* it holds its extra write descriptor
  sexists,  \* the server's FIFO is in the file system
  fifo,     \* requests in the server's FIFO
  cpc,      \* control point of the client process of each pid
  run,      \* how many processes have had that pid
  exists,   \* the client FIFO of that pid is in the file system
  resp,     \* answers in it
  answer,   \* the run whose message the client printed, 0 for none
  killed,   \* runs of the pid that a signal from outside killed
  kills, crashes

vars == <<spc, sreq, sfd, swrite, sexists, fifo, cpc, run, exists, resp, answer,
          killed, kills, crashes>>
serverVars == <<spc, sreq, sfd, swrite, sexists>>
clientVars == <<run, exists, answer, killed>>
bounds == <<kills, crashes>>

Runs == 1..MaxRuns
Request == [pid : Pids, run : Runs]
NoFifo == "none"
NoRequest == [pid |-> NoFifo, run |-> 0]

ASSUME FifoAssumption ==
  /\ NoFifo \notin Pids
  /\ MaxRuns \in Nat /\ MaxKills \in Nat /\ MaxCrashes \in Nat

ServerPoints == {"off", "openRead", "opening", "openWrite", "read",
                 "openClient", "waitClient", "write", "close"}
ClientPoints == {"idle", "openServer", "waitServer", "request", "closeServer",
                 "openOwn", "waitResp", "readResp", "closeOwn", "exit"}

TypeOK ==
  /\ spc \in ServerPoints
  /\ sreq \in Request \cup {NoRequest}
  /\ sfd \in Pids \cup {NoFifo}
  /\ swrite \in BOOLEAN /\ sexists \in BOOLEAN
  /\ fifo \in Seq(Request)
  /\ cpc \in [Pids -> ClientPoints]
  /\ run \in [Pids -> 0..MaxRuns]
  /\ exists \in [Pids -> BOOLEAN]
  /\ resp \in [Pids -> Seq(Runs)]
  /\ answer \in [Pids -> 0..MaxRuns]
  /\ killed \in [Pids -> SUBSET Runs]
  /\ kills \in 0..MaxKills /\ crashes \in 0..MaxCrashes

Init ==
  /\ spc = "off" /\ sreq = NoRequest /\ sfd = NoFifo
  /\ swrite = FALSE /\ sexists = FALSE
  /\ fifo = <<>>
  /\ cpc = [p \in Pids |-> "idle"]
  /\ run = [p \in Pids |-> 0]
  /\ exists = [p \in Pids |-> FALSE]
  /\ resp = [p \in Pids |-> <<>>]
  /\ answer = [p \in Pids |-> 0]
  /\ killed = [p \in Pids |-> {}]
  /\ kills = 0 /\ crashes = 0

-----------------------------------------------------------------------------
(* Who holds which end.                                                    *)

ServerReads == spc \notin {"off", "openRead"}
ClientWriters == {p \in Pids : cpc[p] \in {"request", "closeServer"}}
ServerWrites(p) == sfd = p
ClientReads(p) == cpc[p] \in {"waitResp", "readResp", "closeOwn"}

(* What is left in the server's FIFO when only these clients hold it. *)
Kept(writers) == IF ServerReads \/ writers # {} THEN fifo ELSE <<>>

-----------------------------------------------------------------------------
(* The server.                                                             *)

ServerStart ==
  /\ spc = "off"
  /\ spc' = "openRead"
  /\ sexists' = TRUE
  /\ UNCHANGED <<sreq, sfd, swrite, fifo, cpc, resp, clientVars, bounds>>

(* Opening for reading lets every blocked writer in, and returns at once   *)
(* if there is one.                                                        *)
ServerOpenRead ==
  LET waiting == {p \in Pids : cpc[p] = "waitServer"} IN
  /\ spc = "openRead"
  /\ cpc' = [p \in Pids |-> IF p \in waiting THEN "request" ELSE cpc[p]]
  /\ spc' = IF waiting \cup ClientWriters = {} THEN "opening" ELSE "openWrite"
  /\ UNCHANGED <<sreq, sfd, swrite, sexists, fifo, resp, clientVars, bounds>>

(* The extra descriptor is meant to keep read() from ever returning        *)
(* end-of-file; when its open fails nobody notices: line 36 tests the      *)
(* descriptor of line 27 once more.                                        *)
ServerOpenWrite ==
  /\ spc = "openWrite"
  /\ spc' = "read"
  /\ swrite' \in BOOLEAN
  /\ UNCHANGED <<sreq, sfd, sexists, fifo, cpc, resp, clientVars, bounds>>

(* Without a writer an empty FIFO reads as end-of-file: an "error", logged *)
(* and tried again at once, for as long as nobody opens the FIFO.          *)
ServerReadsEOF ==
  /\ spc = "read"
  /\ fifo = <<>> /\ ~swrite /\ ClientWriters = {}
  /\ UNCHANGED vars

ServerRead ==
  /\ spc = "read"
  /\ fifo # <<>>
  /\ sreq' = Head(fifo)
  /\ fifo' = Tail(fifo)
  /\ spc' = "openClient"
  /\ UNCHANGED <<sfd, swrite, sexists, cpc, resp, clientVars, bounds>>

ServerOpenClientNonBlocking ==
  LET p == sreq.pid IN
  /\ spc = "openClient"
  /\ IF exists[p] /\ ClientReads(p)
       THEN /\ spc' = "write" /\ sfd' = p
            /\ cpc' = [cpc EXCEPT ![p] = IF @ = "waitResp" THEN "readResp" ELSE @]
            /\ UNCHANGED sreq
       ELSE /\ spc' = "read" /\ sreq' = NoRequest
            /\ UNCHANGED <<sfd, cpc>>
  /\ UNCHANGED <<swrite, sexists, fifo, resp, clientVars, bounds>>

(* open(client_pipe_path, O_WRONLY): no such FIFO, a reader is there, or   *)
(* wait for one, blocking every other client meanwhile.                    *)
ServerOpenClient ==
  LET p == sreq.pid IN
  /\ spc = "openClient"
  /\ \/ /\ ~exists[p]
        /\ spc' = "read" /\ sreq' = NoRequest
        /\ UNCHANGED <<sfd, cpc>>
     \/ /\ exists[p]
        /\ spc' = IF ClientReads(p) THEN "write" ELSE "waitClient"
        /\ sfd' = p
        /\ cpc' = [cpc EXCEPT ![p] = IF @ = "waitResp" THEN "readResp" ELSE @]
        /\ UNCHANGED sreq
  /\ UNCHANGED <<swrite, sexists, fifo, resp, clientVars, bounds>>

ServerWriteSigpipe ==
  LET p == sreq.pid IN
  /\ spc = "write"
  /\ spc' = IF sfd = p /\ ClientReads(p) THEN "close" ELSE "dead"
  /\ resp' = IF sfd = p /\ ClientReads(p)
               THEN [resp EXCEPT ![p] = Append(@, sreq.run)] ELSE resp
  /\ UNCHANGED <<sreq, sfd, swrite, sexists, fifo, cpc, clientVars, bounds>>

(* EPIPE when the reader has gone: SIGPIPE is ignored and the error logged *)
ServerWrite ==
  LET p == sreq.pid IN
  /\ spc = "write"
  /\ spc' = "close"
  /\ resp' = IF sfd = p /\ ClientReads(p)
               THEN [resp EXCEPT ![p] = Append(@, sreq.run)] ELSE resp
  /\ UNCHANGED <<sreq, sfd, swrite, sexists, fifo, cpc, clientVars, bounds>>

ServerClose ==
  LET p == sreq.pid IN
  /\ spc = "close"
  /\ spc' = "read"
  /\ sreq' = NoRequest /\ sfd' = NoFifo
  /\ resp' = [resp EXCEPT ![p] = IF ClientReads(p) THEN @ ELSE <<>>]
  /\ UNCHANGED <<swrite, sexists, fifo, cpc, clientVars, bounds>>

(* The server dies; its FIFO stays in the file system, what is in it only  *)
(* if a client still holds it open.                                        *)
ServerCrash ==
  /\ spc # "off"
  /\ crashes < MaxCrashes
  /\ crashes' = crashes + 1
  /\ spc' = "off" /\ sreq' = NoRequest /\ sfd' = NoFifo /\ swrite' = FALSE
  /\ fifo' = IF ClientWriters = {} THEN <<>> ELSE fifo
  /\ resp' = [p \in Pids |-> IF ClientReads(p) THEN resp[p] ELSE <<>>]
  /\ UNCHANGED <<sexists, cpc, clientVars, kills>>

-----------------------------------------------------------------------------
(* The client of pid p.                                                    *)

(* mkfifo tolerates the FIFO an earlier process of that pid left behind. *)
ClientStart(p) ==
  /\ cpc[p] = "idle"
  /\ run[p] < MaxRuns
  /\ cpc' = [cpc EXCEPT ![p] = "openServer"]
  /\ run' = [run EXCEPT ![p] = @ + 1]
  /\ exists' = [exists EXCEPT ![p] = TRUE]
  /\ answer' = [answer EXCEPT ![p] = 0]
  /\ UNCHANGED <<serverVars, fifo, resp, killed, bounds>>

ClientOpenServer(p) ==
  /\ cpc[p] = "openServer"
  /\ \/ /\ ~sexists
        /\ cpc' = [cpc EXCEPT ![p] = "exit"]
        /\ UNCHANGED spc
     \/ /\ sexists /\ ServerReads
        /\ cpc' = [cpc EXCEPT ![p] = "request"]
        /\ spc' = IF spc = "opening" THEN "openWrite" ELSE spc
     \/ /\ sexists /\ ~ServerReads
        /\ cpc' = [cpc EXCEPT ![p] = "waitServer"]
        /\ UNCHANGED spc
  /\ UNCHANGED <<sreq, sfd, swrite, sexists, fifo, resp, clientVars, bounds>>

(* sizeof(struct request) is below PIPE_BUF: the write is atomic. *)
ClientRequest(p) ==
  /\ cpc[p] = "request"
  /\ ServerReads
  /\ fifo' = Append(fifo, [pid |-> p, run |-> run[p]])
  /\ cpc' = [cpc EXCEPT ![p] = "closeServer"]
  /\ UNCHANGED <<serverVars, resp, clientVars, bounds>>

(* Nobody reads any more: SIGPIPE kills the client, atexit does not run. *)
ClientSigpipe(p) ==
  /\ cpc[p] = "request"
  /\ ~ServerReads
  /\ cpc' = [cpc EXCEPT ![p] = "idle"]
  /\ fifo' = Kept(ClientWriters \ {p})
  /\ UNCHANGED <<serverVars, resp, clientVars, bounds>>

ClientCloseServer(p) ==
  /\ cpc[p] = "closeServer"
  /\ cpc' = [cpc EXCEPT ![p] = "openOwn"]
  /\ fifo' = Kept(ClientWriters \ {p})
  /\ UNCHANGED <<serverVars, resp, clientVars, bounds>>

ClientOpenOwnNonBlocking(p) ==
  /\ cpc[p] = "openOwn"
  /\ cpc' = [cpc EXCEPT ![p] = "readResp"]
  /\ spc' = IF spc = "waitClient" /\ ServerWrites(p) THEN "write" ELSE spc
  /\ UNCHANGED <<sreq, sfd, swrite, sexists, fifo, resp, clientVars, bounds>>

ClientOpenOwn(p) ==
  /\ cpc[p] = "openOwn"
  /\ IF ServerWrites(p)
       THEN /\ cpc' = [cpc EXCEPT ![p] = "readResp"]
            /\ spc' = IF spc = "waitClient" THEN "write" ELSE spc
       ELSE /\ cpc' = [cpc EXCEPT ![p] = "waitResp"]
            /\ UNCHANGED spc
  /\ UNCHANGED <<sreq, sfd, swrite, sexists, fifo, resp, clientVars, bounds>>

(* An answer, or end-of-file when the server has closed without one. *)
ClientRead(p) ==
  /\ cpc[p] = "readResp"
  /\ \/ /\ resp[p] # <<>>
        /\ answer' = [answer EXCEPT ![p] = Head(resp[p])]
        /\ resp' = [resp EXCEPT ![p] = Tail(@)]
     \/ /\ resp[p] = <<>> /\ ~ServerWrites(p)
        /\ UNCHANGED <<answer, resp>>
  /\ cpc' = [cpc EXCEPT ![p] = "closeOwn"]
  /\ UNCHANGED <<serverVars, fifo, run, exists, killed, bounds>>

ClientCloseOwn(p) ==
  /\ cpc[p] = "closeOwn"
  /\ cpc' = [cpc EXCEPT ![p] = "exit"]
  /\ resp' = [resp EXCEPT ![p] = IF ServerWrites(p) THEN @ ELSE <<>>]
  /\ UNCHANGED <<serverVars, fifo, clientVars, bounds>>

(* Every return runs removeFifo; a process that has the FIFO open keeps a  *)
(* nameless one.                                                           *)
ClientExit(p) ==
  /\ cpc[p] = "exit"
  /\ cpc' = [cpc EXCEPT ![p] = "idle"]
  /\ exists' = [exists EXCEPT ![p] = FALSE]
  /\ sfd' = IF sfd = p THEN NoFifo ELSE sfd
  /\ resp' = [resp EXCEPT ![p] = <<>>]
  /\ UNCHANGED <<spc, sreq, swrite, sexists, fifo, run, answer, killed, bounds>>

(* A signal kills the client: removeFifo does not run. *)
ClientKilled(p) ==
  /\ cpc[p] # "idle"
  /\ kills < MaxKills
  /\ kills' = kills + 1
  /\ cpc' = [cpc EXCEPT ![p] = "idle"]
  /\ killed' = [killed EXCEPT ![p] = @ \cup {run[p]}]
  /\ fifo' = Kept(ClientWriters \ {p})
  /\ resp' = [resp EXCEPT ![p] = IF ServerWrites(p) THEN @ ELSE <<>>]
  /\ UNCHANGED <<serverVars, run, exists, answer, crashes>>

-----------------------------------------------------------------------------
ServerStep ==
  \/ ServerOpenRead \/ ServerOpenWrite \/ ServerRead \/ ServerReadsEOF
  \/ ServerOpenClient \/ ServerWrite \/ ServerClose

ClientStep(p) ==
  \/ ClientOpenServer(p) \/ ClientRequest(p) \/ ClientSigpipe(p)
  \/ ClientCloseServer(p) \/ ClientOpenOwn(p) \/ ClientRead(p)
  \/ ClientCloseOwn(p) \/ ClientExit(p)

(* Nobody will move again: a client is gone for good or waits for its     *)
(* answer, and the server waits in an open or in read().  A server that    *)
(* waits for a client that was killed, and a client whose request a server *)
(* that crashed had taken, really hang.                                    *)
AtRest ==
  /\ \/ spc \in {"opening", "waitClient"}
     \/ spc = "read" /\ fifo = <<>>
  /\ \A p \in Pids : \/ cpc[p] = "idle" /\ run[p] = MaxRuns
                     \/ cpc[p] = "waitResp"
  /\ UNCHANGED vars

Next ==
  \/ ServerStart \/ ServerStep \/ ServerCrash
  \/ \E p \in Pids : ClientStart(p) \/ ClientStep(p) \/ ClientKilled(p)
  \/ AtRest

(* Every process that can run does; nobody has to start, and nobody has to *)
(* be killed.                                                              *)
Fairness ==
  /\ WF_vars(ServerStep)
  /\ \A p \in Pids : WF_vars(ClientStep(p))

Spec == Init /\ [][Next]_vars /\ Fairness

-----------------------------------------------------------------------------
(* Properties.                                                             *)

(* "Open an extra write descriptor, so that we never see EOF"              *)
(* (fifo-server.cpp:34): the loop never reads from a FIFO that is empty    *)
(* and has no writer, which makes it spin.  The code does not keep this    *)
(* promise when that open fails.                                           *)
NeverEOF ==
  spc = "read" /\ fifo = <<>> => swrite \/ ClientWriters # {}

(* A client prints the answer to its own request, unless an earlier        *)
(* process of its pid was killed: that one's FIFO and request survive it,  *)
(* mkfifo's EEXIST is ignored, the next process is given its answer and    *)
(* leaves its own request to the one after it, and so on.  The answer is   *)
(* never older than the first one killed; without kills it is one's own,   *)
(* however often pids are used again and servers crash.                    *)
AnswerIsOwn ==
  \A p \in Pids : \/ answer[p] \in {0, run[p]}
                  \/ \E k \in killed[p] : k <= answer[p]

(* Why these hold: while nobody of a pid has been killed its affairs are   *)
(* orderly, the one request it may have under way being that of the        *)
(* process that waits for it; from then on nothing is older than the first *)
(* run that was killed.                                                    *)
Queued(p) == {i \in DOMAIN fifo : fifo[i].pid = p}
Handled(p) == spc \in {"openClient", "waitClient", "write"} /\ sreq.pid = p
AwaitsServer(p) == cpc[p] \in {"closeServer", "openOwn", "waitResp"}

Orderly(p) ==
  /\ answer[p] \in {0, run[p]}
  /\ \A i \in Queued(p) : fifo[i].run = run[p]
  /\ \A i, j \in Queued(p) : i = j
  /\ Queued(p) # {} => AwaitsServer(p) /\ ~Handled(p)
  /\ Handled(p) =>
       /\ sreq.run = run[p]
       /\ IF spc = "write" THEN cpc[p] = "readResp" /\ sfd = p ELSE AwaitsServer(p)
  /\ resp[p] # <<>> => cpc[p] = "readResp" /\ ~Handled(p)
  /\ \A i \in DOMAIN resp[p] : i = 1 /\ resp[p][i] = run[p]
  /\ spc = "close" /\ sfd = p => cpc[p] \in {"readResp", "closeOwn", "exit"}

NotBefore(p, k) ==
  /\ answer[p] = 0 \/ k <= answer[p]
  /\ \A i \in Queued(p) : k <= fifo[i].run
  /\ Handled(p) => k <= sreq.run
  /\ \A i \in DOMAIN resp[p] : k <= resp[p][i]

ServerSound ==
  /\ spc \in {"openClient", "waitClient", "write", "close"} => sreq \in Request
  /\ sfd # NoFifo => sfd = sreq.pid /\ spc \in {"waitClient", "write", "close"}

PidSound(p) ==
  /\ killed[p] \subseteq 1..run[p]
  /\ cpc[p] # "idle" => run[p] \in Runs
  /\ killed[p] = {} => Orderly(p)
  /\ killed[p] # {} => \E k \in killed[p] : NotBefore(p, k)

FifoInv == TypeOK /\ ServerSound /\ \A p \in Pids : PidSound(p)

(* While the server has not crashed, the request of a client that waits    *)
(* for the server is in the FIFO or in the server's hands.                 *)
RequestConserved ==
  \A p \in Pids :
    cpc[p] \in {"closeServer", "openOwn", "waitResp"} /\ crashes = 0 =>
      LET r == [pid |-> p, run |-> run[p]] IN r = sreq \/ Contains(fifo, r)

(* Why this holds too: nothing but a crash stops the server reading, so    *)
(* the FIFO is not emptied while a client waits; the server gives up a     *)
(* request only when its client's own FIFO is missing, which that client   *)
(* removes last, or when that client has opened it.                        *)
KeepsReading ==
  crashes = 0 =>
    \A p \in Pids : cpc[p] = "request" \/ AwaitsServer(p) => ServerReads

KeepsOwnFifo == \A p \in Pids : cpc[p] # "idle" => exists[p]

NoneFromLater ==
  /\ \A i \in DOMAIN fifo : fifo[i].run <= run[fifo[i].pid]
  /\ sreq \in Request => sreq.run <= run[sreq.pid]

OneAtATime ==
  spc \in {"off", "openRead", "opening", "openWrite", "read"} => sreq = NoRequest

NotAwaitedOnceOpen ==
  spc \in {"write", "close"} =>
    \A p \in Pids : sreq = [pid |-> p, run |-> run[p]] =>
                      cpc[p] \in {"readResp", "closeOwn", "exit", "idle"}

ConservedInv ==
  /\ KeepsReading /\ KeepsOwnFifo /\ NoneFromLater /\ OneAtATime
  /\ NotAwaitedOnceOpen /\ RequestConserved

(* Each client that wrote its request ends with its answer printed, as     *)
(* long as nobody is killed: a client that is can hold up all the others.  *)
EveryRequestAnswered ==
  \A p \in Pids :
    cpc[p] = "closeServer" ~> \/ cpc[p] = "exit" /\ answer[p] = run[p]
                             \/ kills + crashes > 0

(* The server leaves the open of a client FIFO unless a client of that pid *)
(* was killed, which leaves its FIFO behind.  Then it may hang there for   *)
(* ever, and everybody else with it: on the dead client's request, or on   *)
(* that of the next process of the pid, which took the answer (or the      *)
(* end-of-file) meant for the dead one and has closed its FIFO already.    *)
(* Once the open has returned, a client killed after it holds up nobody.   *)
StuckOnlyOnKilled ==
  /\ \A p \in Pids :
       spc = "waitClient" /\ sreq.pid = p ~> spc # "waitClient" \/ killed[p] # {}
  /\ spc = "write" ~> spc \in {"read", "off"}
============================================================================
