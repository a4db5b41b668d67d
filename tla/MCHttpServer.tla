---------------------------- MODULE MCHttpServer ----------------------------
(* The server, or its text functions alone.                                *)
(* Three connections over three descriptors; the first client may send its *)
(* request in two pieces.  The texts are those of MCHttpText.              *)
EXTENDS HttpServer, MCHttpText

MCPieces == <<2, 1, 1>>

VARIABLE part
allVars == <<part, vars, textVars>>

(* The texts grow only when they are the part that is looked at. *)
MCInit ==
  /\ part \in {"server", "text"}
  /\ Init /\ TextInit
  /\ part = "server" => alphabet = Letter

Server(Step) == part = "server" /\ Step /\ UNCHANGED <<part, textVars>>

MCNext ==
  \/ Server(Next)
  \/ part = "text" /\ TextNext /\ UNCHANGED <<part, vars>>
  \/ part = "text" /\ chunks = alphabet.max /\ UNCHANGED allVars

(* What Fairness of HttpServer says, for the server. *)
MCFairness == SF_allVars(Server(MainInsert)) /\ WF_allVars(Server(Worker))

MCSpec == MCInit /\ [][MCNext]_allVars /\ MCFairness
============================================================================
