------------------------------ MODULE MCEvents ------------------------------
(* The programs that wait for input, events of a directory or signals;     *)
(* each behaviour is one of them, and the variables of the others keep     *)
(* their initial values.                                                   *)
(* Four units through a pipe of two: lines longer than the pipe, and edges *)
(* that come in every position of the parent's loop.  Three names, two of  *)
(* which match, and a queue of two that three acts and the commands' own   *)
(* work overflow.  Signals queued up to two.                               *)
EXTENDS EpollEdge, LevelEcho, DirWatch, SignalPrograms

InputNames == {"edge", "level", "watch"}
SignalNames == {"sync", "ex", "count", "crypt", "flag", "queue", "optim",
                "pausebug", "suspend"}
MCPrograms == InputNames \cup SignalNames

inputVars == <<vars, levelVars, watchVars>>
allVars == <<inputVars, signalVars>>

(* A program's own choices are made only when it runs. *)
MCInit ==
  /\ Init /\ LevelInit /\ WatchInit /\ SignalInit
  /\ program # "level" => how = "epoll" /\ kid = "read"
  /\ program # "watch" => tool = "monitor" /\ here /\ files = {}

Edge(Step) == program = "edge" /\ Step /\ UNCHANGED <<signalVars, levelVars, watchVars>>
Level(Step) == program = "level" /\ Step /\ UNCHANGED <<signalVars, vars, watchVars>>
Watch(Step) == program = "watch" /\ Step /\ UNCHANGED <<signalVars, vars, levelVars>>
Signal(Step) == program \in SignalNames /\ Step /\ UNCHANGED inputVars

(* It has ended, waits for a key that nobody has to type, or hangs because *)
(* the handler wants the lock that main() holds.                           *)
Rests ==
  /\ \/ pc \in {"done", "killed", "aborted"}
     \/ asleep
     \/ program \in {"flag", "optim"} /\ ~gotSigio
     \/ program = "crypt" /\ syncLock /\ mutex = "main" /\ frames # <<>>
  /\ UNCHANGED signalVars

MCNext ==
  \/ Edge(Next) \/ Level(LevelNext) \/ Watch(WatchNext)
  \/ Signal(SignalNext) \/ Signal(Rests)

MCFairness ==
  /\ WF_allVars(Edge(Child)) /\ WF_allVars(Edge(Parent))
  /\ WF_allVars(Level(LevelKid)) /\ WF_allVars(Level(Loop))
  /\ WF_allVars(Watch(Watcher))
  /\ WF_allVars(Signal(CryptRuns)) /\ WF_allVars(Signal(IORuns))

MCSpec == MCInit /\ [][MCNext]_allVars /\ MCFairness
=============================================================================
