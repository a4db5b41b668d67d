--------------------------- MODULE SignalPrograms ---------------------------
(* The signal programs side by side: each behaviour is one of them, and    *)
(* the variables of the others keep their initial values.                  *)
EXTENDS SignalWait, SignalCount, SignalReentry, SignalDrivenIO

signalVars == <<kernelVars, waitVars, countVars, cryptVars, ioVars>>

(* A program's own choices are made only when it runs. *)
SignalInit ==
  /\ KernelInit /\ WaitInit /\ CountInit /\ ReentryInit /\ IOInit
  /\ program # "ex" => ~quits
  /\ program # "count" => signo = "RT" /\ times = 1
  /\ program # "crypt" => ~syncLock

SignalNext ==
  \/ WaitNext /\ UNCHANGED <<countVars, cryptVars, ioVars>>
  \/ CountStep /\ UNCHANGED <<waitVars, cryptVars, ioVars>>
  \/ (CryptStep \/ CryptKey) /\ UNCHANGED <<waitVars, countVars, ioVars>>
  \/ (IOStep \/ TypeLine \/ OptimCtrlC) /\ UNCHANGED <<waitVars, countVars, cryptVars>>

CryptRuns == CryptStep /\ UNCHANGED <<waitVars, countVars, ioVars>>
IORuns == IOStep /\ UNCHANGED <<waitVars, countVars, cryptVars>>

SignalSpec ==
  /\ SignalInit /\ [][SignalNext]_signalVars
  /\ WF_signalVars(CryptRuns) /\ WF_signalVars(IORuns)
=============================================================================
