--------------------------- MODULE MCThreadServer ---------------------------
(* Both servers that fork or start a thread per connection; each behaviour *)
(* is one of them, the variables of the other keep their initial values.   *)
(* Three connections over two descriptors, so that with threads a number   *)
(* is used again after each way of closing it; and three children.         *)
EXTENDS ThreadServer, ProcessServer

VARIABLE program
allVars == <<program, vars, forkVars>>

MCInit == Init /\ ForkInit /\ program \in {"threads", "processes"}

MCNext ==
  /\ UNCHANGED program
  /\ \/ program = "threads" /\ Next /\ UNCHANGED forkVars
     \/ program = "processes" /\ ForkNext /\ UNCHANGED vars

MCFairness ==
  \A k \in Kids : WF_allVars(program = "processes" /\ Kid(k) /\ UNCHANGED <<program, vars>>)

MCSpec == MCInit /\ [][MCNext]_allVars /\ MCFairness
=============================================================================
