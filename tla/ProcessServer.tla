---------------------------- MODULE ProcessServer ---------------------------
(***************************************************************************)
(* socket/socket-server-tcp-mp.c: the thread server's twin with fork().    *)
(* The child of a connection has copies of everything, so that nobody      *)
(* changes its descriptor and its mutex keeps out nobody; the terminal is  *)
(* shared, and whichever child reads gets the line.  The parent does not   *)
(* close its copy of a connection, which every later child inherits.       *)
(*                                                                         *)
(* A connection is a number, and so is the child forked for it.  The       *)
(* parent closes nothing, so no descriptor number is used again and a      *)
(* connection stands for its descriptor in every process.                  *)
(***************************************************************************)
EXTENDS Integers, FiniteSets

CONSTANTS
  Callers,   \* clients that ever connect
  Room,      \* descriptors the parent has left for them
  MaxWrites, \* messages a client sends
  MaxTyped   \* lines typed on the terminal

ASSUME ProcessAssumption ==
  Callers \in Nat /\ Room \in Nat /\ MaxWrites \in Nat /\ MaxTyped \in Nat

Master == 0
Kids == 1..Callers
Procs == {Master} \cup Kids

VARIABLES
  master,  \* control point of the parent
  kid,     \* control point of each child
  holds,   \* kernel: the connections each process has a descriptor of
  client,  \* what each client is doing
  wrote,   \* messages each has sent
  inbox,   \* kernel: there is something to receive on a connection
  lines    \* lines read from the terminal

forkVars == <<master, kid, holds, client, wrote, inbox, lines>>

Over == {"closed", "ended"}

ForkTypeOK ==
  /\ master \in {"accept", "fork", "killed"}
  /\ kid \in [Kids -> {"none", "recv", "prompt", "send", "close"} \cup Over]
  /\ holds \in [Procs -> SUBSET Kids]
  /\ client \in [Kids -> {"absent", "connected", "gone"}]
  /\ wrote \in [Kids -> 0..MaxWrites]
  /\ inbox \in [Kids -> BOOLEAN]
  /\ lines \in 0..MaxTyped

ForkInit ==
  /\ master = "accept"
  /\ kid = [k \in Kids |-> "none"]
  /\ holds = [p \in Procs |-> {}]
  /\ client = [k \in Kids |-> "absent"] /\ wrote = [k \in Kids |-> 0]
  /\ inbox = [k \in Kids |-> FALSE]
  /\ lines = 0

-----------------------------------------------------------------------------
(* The clients.                                                            *)

ClientWrites(k) ==
  /\ client[k] = "connected" /\ wrote[k] < MaxWrites
  /\ wrote' = [wrote EXCEPT ![k] = @ + 1]
  /\ inbox' = [inbox EXCEPT ![k] = TRUE]
  /\ UNCHANGED <<master, kid, holds, client, lines>>

ClientQuits(k) ==
  /\ client[k] = "connected"
  /\ client' = [client EXCEPT ![k] = "gone"]
  /\ UNCHANGED <<master, kid, holds, wrote, inbox, lines>>

-----------------------------------------------------------------------------
(* The parent.                                                             *)

Accepted == {k \in Kids : client[k] # "absent"}
Full == Cardinality(holds[Master]) = Room

MasterAccept ==
  LET k == Cardinality(Accepted) + 1 IN
  /\ master = "accept"
  /\ k \in Kids /\ ~Full
  /\ client' = [client EXCEPT ![k] = "connected"]
  /\ holds' = [holds EXCEPT ![Master] = @ \cup {k}]
  /\ master' = "fork"
  /\ UNCHANGED <<kid, wrote, inbox, lines>>

(* EMFILE: the loop tries again at once, for ever. *)
MasterAcceptFails ==
  /\ master = "accept"
  /\ Full
  /\ UNCHANGED forkVars

MasterForkCloses ==
  LET k == Cardinality(Accepted) IN
  /\ master = "fork"
  /\ kid' = [kid EXCEPT ![k] = "recv"]
  /\ holds' = [holds EXCEPT ![k] = holds[Master], ![Master] = @ \ {k}]
  /\ master' = "accept"
  /\ UNCHANGED <<client, wrote, inbox, lines>>

MasterFork ==
  LET k == Cardinality(Accepted) IN
  /\ master = "fork"
  /\ kid' = [kid EXCEPT ![k] = "recv"]
  /\ holds' = [holds EXCEPT ![k] = holds[Master]]
  /\ master' = "accept"
  /\ UNCHANGED <<client, wrote, inbox, lines>>

(* The connection stays open with nobody to serve it. *)
MasterForkFails ==
  /\ master = "fork"
  /\ master' = "accept"
  /\ UNCHANGED <<kid, holds, client, wrote, inbox, lines>>

MasterKilled ==
  /\ master # "killed"
  /\ master' = "killed"
  /\ holds' = [holds EXCEPT ![Master] = {}]
  /\ UNCHANGED <<kid, client, wrote, inbox, lines>>

-----------------------------------------------------------------------------
(* The child of connection k.                                              *)

KidRecvLocks(k) ==
  /\ kid[k] = "recv"
  /\ inbox[k] \/ client[k] = "gone"
  /\ \A j \in Kids : kid[j] # "prompt"
  /\ inbox' = [inbox EXCEPT ![k] = FALSE]
  /\ kid' = [kid EXCEPT ![k] = "prompt"]
  /\ UNCHANGED <<master, holds, client, wrote, lines>>

(* recv() returns what has come, 0 at its end, which is not told from a    *)
(* message, or the reset that sending to a client that has gone brings.    *)
(* The mutex is the child's own: it is free.                               *)
KidRecv(k) ==
  /\ kid[k] = "recv"
  /\ \/ /\ inbox[k] \/ client[k] = "gone"
        /\ kid' = [kid EXCEPT ![k] = "prompt"]
     \/ /\ client[k] = "gone"
        /\ kid' = [kid EXCEPT ![k] = "close"]
  /\ inbox' = [inbox EXCEPT ![k] = FALSE]
  /\ UNCHANGED <<master, holds, client, wrote, lines>>

(* A line, the line "q", or the end of the terminal's input. *)
KidReadLine(k) ==
  /\ kid[k] = "prompt"
  /\ IF lines < MaxTyped
       THEN /\ lines' = lines + 1
            /\ \E next \in {"send", "close"} : kid' = [kid EXCEPT ![k] = next]
       ELSE /\ kid' = [kid EXCEPT ![k] = "recv"]
            /\ UNCHANGED lines
  /\ UNCHANGED <<master, holds, client, wrote, inbox>>

(* SIGPIPE is ignored: to a client that has gone send() may answer EPIPE. *)
KidSend(k) ==
  /\ kid[k] = "send"
  /\ \/ kid' = [kid EXCEPT ![k] = "recv"]
     \/ client[k] = "gone" /\ kid' = [kid EXCEPT ![k] = "close"]
  /\ UNCHANGED <<master, holds, client, wrote, inbox, lines>>

KidClose(k) ==
  /\ kid[k] = "close"
  /\ holds' = [holds EXCEPT ![k] = @ \ {k}]
  /\ kid' = [kid EXCEPT ![k] = "closed"]
  /\ UNCHANGED <<master, client, wrote, inbox, lines>>

(* exit() closes what it inherited; nobody waits for it. *)
KidExit(k) ==
  /\ kid[k] = "closed"
  /\ holds' = [holds EXCEPT ![k] = {}]
  /\ kid' = [kid EXCEPT ![k] = "ended"]
  /\ UNCHANGED <<master, client, wrote, inbox, lines>>

KidKilled(k) ==
  /\ kid[k] \notin {"none", "ended"}
  /\ holds' = [holds EXCEPT ![k] = {}]
  /\ kid' = [kid EXCEPT ![k] = "ended"]
  /\ UNCHANGED <<master, client, wrote, inbox, lines>>

-----------------------------------------------------------------------------
Kid(k) == KidRecv(k) \/ KidSend(k) \/ KidClose(k) \/ KidExit(k)

(* The parent was killed and every child has ended. *)
NobodyLeft ==
  /\ master = "killed"
  /\ \A k \in Kids : kid[k] \in {"none", "ended"} /\ client[k] # "connected"
  /\ UNCHANGED forkVars

ForkNext ==
  \/ MasterAccept \/ MasterAcceptFails \/ MasterFork \/ MasterForkFails \/ MasterKilled
  \/ \E k \in Kids : \/ ClientWrites(k) \/ ClientQuits(k)
                     \/ Kid(k) \/ KidReadLine(k) \/ KidKilled(k)
  \/ NobodyLeft

(* The children are scheduled; nobody has to type. *)
ForkFairness == \A k \in Kids : WF_forkVars(Kid(k))

ForkSpec == ForkInit /\ [][ForkNext]_forkVars /\ ForkFairness

-----------------------------------------------------------------------------
(* Properties.                                                             *)

(* "Only when all descriptors are closed does the connection end"          *)
(* (socket/README.md:201).  So a client the server has taken does not see  *)
(* the end of its connection, its own child's close() notwithstanding,     *)
(* before the parent was killed and with it every child forked since has   *)
(* ended; and until then nobody but a killed or finished child lacks it.   *)
EndsOnlyWithAll ==
  \A k \in Accepted :
    (\A p \in Procs : k \notin holds[p]) =>
      /\ master = "killed"
      /\ \A j \in Kids : j > k => kid[j] \in {"none", "ended"}
      /\ kid[k] \in {"none"} \cup Over

(* Why: connections are numbered as they come, the parent has them all,    *)
(* and a child has those that came before its own, and its own until it    *)
(* closes it.                                                              *)
InOrder == \E n \in 0..Callers : Accepted = 1..n
ParentHasAll == master # "killed" => holds[Master] = Accepted
ForksOne == master = "fork" => Accepted # {}
ChildHasOlder ==
  \A j \in Kids :
    /\ kid[j] \notin {"none", "ended"} => \A k \in Kids : k < j => k \in holds[j]
    /\ kid[j] \notin {"none"} \cup Over => j \in holds[j]

ForkInv == ForkTypeOK /\ InOrder /\ ParentHasAll /\ ForksOne /\ ChildHasOlder

(* A client that has sent something has its child at the prompt, whatever  *)
(* the operator does with the prompts of others: no child waits for one.   *)
SpeakerPrompted ==
  \A k \in Kids :
    inbox[k] /\ kid[k] \notin {"none"} \cup Over
      ~> kid[k] \in {"prompt"} \cup Over
=============================================================================
