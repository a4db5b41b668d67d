------------------------------ MODULE ChatRoom ------------------------------
(***************************************************************************)
(* socket/chatroom_server.c and chatroom_client.c: a UDP chat room.  The   *)
(* server keeps a table from the address of each client to a socket it has *)
(* connected to it, and repeats every datagram to all of them.  A datagram *)
(* to a client that has left comes back as an ICMP error, which the socket *)
(* keeps until the next call on it fails, and every failure ends the       *)
(* server.  The table is that of HashTable.                                *)
(***************************************************************************)
EXTENDS Integers, Sequences, SequencesExt, FiniteSets

CONSTANTS
  Clients,      \* addresses
  MAX_CLIENTS,
  MaxLines,     \* lines each client types
  HASH_SIZE, Hash, NULL, AtEnd, NoIter

(* What the table's own assumptions ask for; NULL is no socket. *)
ASSUME RoomAssumption ==
  /\ MAX_CLIENTS \in Nat /\ NULL \notin 1..MAX_CLIENTS
  /\ HASH_SIZE \in Nat \ {0} /\ Hash \in [Clients -> 0..(HASH_SIZE - 1)]
  /\ AtEnd # NoIter /\ {AtEnd, NoIter} \cap Clients = {}

(* A line is a client and how many it had typed. *)
Lines == UNION {[from : {c}, n : 1..MaxLines[c]] : c \in Clients}

VARIABLES
  client,    \* what each client is doing
  said,      \* lines each has typed
  inbox,     \* datagrams in the server's socket, in any order
  bounced,   \* clients whose ICMP error is on its way to the server
  error,     \* clients whose socket holds one
  pc,        \* control point of the server
  table,     \* hashtable: the socket of each client, as its index
  sockets,   \* client_fds: the client each socket is connected to
  lost,      \* history: those of them that no memory was left to put in table
  ready,     \* sockets of tmp_read_fds that select() reported
  line,      \* the datagram being repeated
  iter,      \* the iteration over the table
  begun,     \* history: the lines whose broadcast was begun, in order
  out        \* history: what was sent to each client, in order

netVars == <<inbox, bounced, error>>
histVars == <<begun, out>>
roomVars == <<table, sockets, lost>>
vars == <<client, said, netVars, pc, roomVars, ready, line, iter, histVars>>

T == INSTANCE HashTable WITH
  Keys <- Clients, Values <- 1..MAX_CLIENTS \cup {NULL},
  buckets <- table, ctx <- iter, result <- <<>>

NoLine == [from |-> NULL, n |-> 0]
Registered == {sockets[i] : i \in DOMAIN sockets \ lost}

TypeOK ==
  /\ client \in [Clients -> {"running", "gone"}]
  /\ \A c \in Clients : said[c] \in 0..MaxLines[c]
  /\ inbox \subseteq Lines
  /\ bounced \subseteq Clients /\ error \subseteq Clients
  /\ pc \in {"select", "receive", "send", "poll", "dead", "failed"}
  /\ table \in [T!Buckets -> Seq(T!Node)]
  /\ sockets \in Seq(Clients) /\ Len(sockets) <= MAX_CLIENTS
  /\ lost \subseteq DOMAIN sockets
  /\ ready \subseteq Clients
  /\ line \in Lines \cup {NoLine}
  /\ iter \in {T!EndCtx, T!NoCtx} \cup [bucket : T!Buckets, node : Nat \ {0}]
  /\ begun \in Seq(Lines)
  /\ out \in [Clients -> Seq(Lines)]

Init ==
  /\ client = [c \in Clients |-> "running"]
  /\ said = [c \in Clients |-> 0]
  /\ inbox = {} /\ bounced = {} /\ error = {}
  /\ pc = "select"
  /\ table = [b \in T!Buckets |-> <<>>]
  /\ sockets = <<>> /\ lost = {} /\ ready = {} /\ line = NoLine /\ iter = T!NoCtx
  /\ begun = <<>>
  /\ out = [c \in Clients |-> <<>>]

-----------------------------------------------------------------------------
(* The clients and the network.                                            *)

(* A line is sent to the server's port, and may be lost. *)
ClientSays(c) ==
  /\ client[c] = "running"
  /\ said[c] < MaxLines[c]
  /\ said' = [said EXCEPT ![c] = @ + 1]
  /\ inbox' \in {inbox, inbox \cup {[from |-> c, n |-> said[c] + 1]}}
  /\ UNCHANGED <<client, bounced, error, pc, roomVars, ready, line, iter, histVars>>

ClientLeaves(c) ==
  /\ client[c] = "running"
  /\ client' = [client EXCEPT ![c] = "gone"]
  /\ UNCHANGED <<said, netVars, pc, roomVars, ready, line, iter, histVars>>

(* The error report of a datagram arrives, or is lost too. *)
ErrorArrives(c) ==
  /\ c \in bounced
  /\ bounced' = bounced \ {c}
  /\ error' \in {error, error \cup {c}}
  /\ UNCHANGED <<client, said, inbox, pc, roomVars, ready, line, iter, histVars>>

-----------------------------------------------------------------------------
(* The server.                                                             *)

(* A pending error makes a socket readable. *)
Select ==
  /\ pc = "select"
  /\ inbox # {} \/ error # {}
  /\ ready' = error
  /\ pc' = IF inbox # {} THEN "receive" ELSE "poll"
  /\ UNCHANGED <<client, said, netVars, roomVars, line, iter, histVars>>

RegistersAgain(c) == Len(sockets) < MAX_CLIENTS

(* get() is NULL for an address that is not in the table. *)
Registers(c) ==
  Len(sockets) < MAX_CLIENTS /\ T!GetFrom(table, c) = NULL

ReceiveRegistersLast ==
  /\ pc = "receive"
  /\ \E d \in inbox :
       LET c == d.from
           new == Len(sockets) + 1
       IN /\ inbox' = inbox \ {d}
          /\ line' = d
          /\ begun' = Append(begun, d)
          /\ \/ /\ Registers(c)
                /\ sockets' = Append(sockets, c)
                /\ \/ table' = T!PutIn(table, c, new) /\ UNCHANGED lost
                   \/ lost' = lost \cup {new} /\ UNCHANGED table
             \/ ~Registers(c) /\ UNCHANGED roomVars
  /\ iter' = T!FirstCtx(table, 0)
  /\ pc' = "send"
  /\ UNCHANGED <<client, said, bounced, error, ready, out>>

(* A put for which there is no memory leaves the table as it was, and the  *)
(* server does not notice: the client has a socket that nobody sends on.   *)
Receive ==
  /\ pc = "receive"
  /\ \E d \in inbox :
       LET c == d.from
           new == Len(sockets) + 1
       IN /\ inbox' = inbox \ {d}
          /\ line' = d
          /\ begun' = Append(begun, d)
          /\ \/ /\ Registers(c)
                /\ sockets' = Append(sockets, c)
                /\ \/ table' = T!PutIn(table, c, new) /\ UNCHANGED lost
                   \/ lost' = lost \cup {new} /\ UNCHANGED table
             \/ ~Registers(c) /\ UNCHANGED roomVars
  /\ iter' = T!FirstCtx(table', 0)
  /\ pc' = "send"
  /\ UNCHANGED <<client, said, bounced, error, ready, out>>

(* socket() or connect() fails for a new client: the server exits, and its *)
(* table, in which the socket of that client may be already, is gone.      *)
ReceiveFails ==
  /\ pc = "receive"
  /\ \E d \in inbox : Registers(d.from) /\ inbox' = inbox \ {d}
  /\ pc' = "failed"
  /\ UNCHANGED <<client, said, bounced, error, roomVars, ready, line, iter, histVars>>

(* sendto() on the socket the table holds, to the address that is its key. *)
(* A pending error is what it returns.                                     *)
Send ==
  LET node == table[iter.bucket][iter.node]
      c == node.key
  IN
  /\ pc = "send"
  /\ iter # T!EndCtx
  /\ IF sockets[node.value] \in error
       THEN pc' = "dead" /\ UNCHANGED <<bounced, iter, out>>
       ELSE /\ out' = [out EXCEPT ![c] = Append(@, line)]
            /\ bounced' = IF client[c] = "gone" THEN bounced \cup {c} ELSE bounced
            /\ iter' = T!NextCtx(table, iter)
            /\ UNCHANGED pc
  /\ UNCHANGED <<client, said, inbox, error, roomVars, ready, line, begun>>

EndOfBroadcast ==
  /\ pc = "send"
  /\ iter = T!EndCtx
  /\ iter' = T!NoCtx /\ line' = NoLine
  /\ pc' = "poll"
  /\ UNCHANGED <<client, said, netVars, roomVars, ready, histVars>>

PollUnconditionally ==
  /\ pc = "poll"
  /\ ready # {} \/ sockets = <<>>
  /\ pc' = IF ready # {} THEN "dead" ELSE "select"
  /\ ready' = {}
  /\ UNCHANGED <<client, said, netVars, roomVars, line, iter, histVars>>

(* Clients never write to these sockets: what made one readable was an     *)
(* error, and recv() returns it.                                           *)
Poll ==
  /\ pc = "poll"
  /\ pc' = IF ready # {} THEN "dead" ELSE "select"
  /\ ready' = {}
  /\ UNCHANGED <<client, said, netVars, roomVars, line, iter, histVars>>

-----------------------------------------------------------------------------
Server ==
  \/ Select \/ Receive \/ ReceiveFails \/ Send \/ EndOfBroadcast \/ Poll

(* The server waits in select() for clients that have nothing more to say, *)
(* or has exited.                                                          *)
Silence ==
  /\ pc \in {"dead", "failed"} \/ (pc = "select" /\ inbox = {} /\ error = {})
  /\ UNCHANGED vars

Next ==
  \/ \E c \in Clients : ClientSays(c) \/ ClientLeaves(c) \/ ErrorArrives(c)
  \/ Server
  \/ Silence

Spec == Init /\ [][Next]_vars /\ WF_vars(Server)

-----------------------------------------------------------------------------
(* Properties.                                                             *)

(* The table and the array of sockets agree: each registered client has    *)
(* one socket, the one its table entry names, and nobody else's, however   *)
(* many more were lost when they were put, and there are no more of them   *)
(* than places in the array.                                               *)
OneSocketEach ==
  /\ \A c \in Clients : T!GetFrom(table, c) # NULL <=> c \in Registered
  /\ \A i \in DOMAIN sockets \ lost : T!GetFrom(table, sockets[i]) = i
  /\ Len(sockets) <= MAX_CLIENTS

(* Why this holds: a client is registered only when the table, which is    *)
(* sound, has no entry for it.                                             *)
RoomInv ==
  /\ table \in [T!Buckets -> Seq(T!Node)] /\ T!SoundTable(table)
  /\ sockets \in Seq(Clients) /\ lost \subseteq DOMAIN sockets
  /\ \A d \in inbox : d.from \in Clients
  /\ OneSocketEach

(* All clients are sent the same lines in the same order, each line once:  *)
(* what a client was sent is the end of what the server began to repeat,   *)
(* from the line on which it registered, except that the broadcast of the  *)
(* last one may not have come to it yet.  Who is not registered is sent    *)
(* nothing; who is has the last line when its broadcast is over, its       *)
(* author too.                                                             *)
SameLinesSameOrder ==
  /\ \A c \in Clients :
       \/ IsSuffix(out[c], begun)
       \/ line # NoLine /\ IsSuffix(out[c], Front(begun))
  /\ pc \in {"poll", "select"} /\ begun # <<>> =>
       \A c \in Registered : out[c] # <<>> /\ Last(out[c]) = Last(begun)

(* Every datagram that reaches the server is repeated, that is, there      *)
(* comes the end of its broadcast with everybody who is registered having  *)
(* been sent it, unless the server exits before.  That takes a client that *)
(* has left, whose error ends the server for everybody, or one for which   *)
(* the server had no socket.                                               *)
Repeated(d) ==
  /\ line = d /\ iter = T!EndCtx
  /\ \A c \in Registered : out[c] # <<>> /\ Last(out[c]) = d

LineRepeated ==
  \A d \in Lines :
    d \in inbox ~> \/ Repeated(d)
                   \/ pc = "dead" /\ \E c \in Clients : client[c] = "gone"
                   \/ pc = "failed"
============================================================================
