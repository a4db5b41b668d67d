------------------------------ MODULE MCPipes -------------------------------
(* The programs that talk through pipes and FIFOs; each behaviour is one,  *)
(* and the variables of the others keep their initial values.  Three       *)
(* children, one of which may be killed at any moment; three lines through *)
(* a pipe of two; two pids, each used by three clients one after the other.*)
EXTENDS PipeSync, PipeFilter, FifoRpc

CONSTANTS p1, p2, Programs

MCN == 3
MCMortal == {2}
MCPids == {p1, p2}
MCPrograms == {"sync", "data", "rpc"}

VARIABLE program
allVars == <<program, pipeVars, filterVars, vars>>

(* A program's own choices are made only when it runs. *)
MCInit ==
  /\ program \in Programs
  /\ PipeInit /\ FilterInit /\ Init
  /\ program # "data" => job = "filter" /\ pfd = PipeNumbers({})

InSync(Step) == program = "sync" /\ Step /\ UNCHANGED <<program, filterVars, vars>>
InData(Step) == program = "data" /\ Step /\ UNCHANGED <<program, pipeVars, vars>>
InRpc(Step) == program = "rpc" /\ Step /\ UNCHANGED <<program, pipeVars, filterVars>>

MCNext == InSync(PipeNext) \/ InData(FilterNext) \/ InRpc(Next)

MCFairness ==
  /\ WF_allVars(InSync(ParentStep))
  /\ \A c \in Children : WF_allVars(InSync(ChildStep(c)))
  /\ WF_allVars(InData(BossStep))
  /\ \A p \in {Source, Sink} : WF_allVars(InData(KidStep(p)))
  /\ WF_allVars(InRpc(ServerStep))
  /\ \A p \in Pids : WF_allVars(InRpc(ClientStep(p)))

MCSpec == MCInit /\ [][MCNext]_allVars /\ MCFairness
=============================================================================
