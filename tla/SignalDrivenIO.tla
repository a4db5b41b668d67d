--------------------------- MODULE SignalDrivenIO ---------------------------
(***************************************************************************)
(* Input from a terminal that a signal announces.                          *)
(* io-model/terminal-io-signal-drive-v1.c ("flag"): SIGIO sets a flag, the *)
(* main loop reads one line when it finds it set and then resets it.       *)
(* io-model/terminal-io-signal-drive-v2.c ("queue"): a real-time signal,   *)
(* whose handler reads a line.                                             *)
(* io-model/terminal-io-signal-drive-optimization.c ("optim"): the same    *)
(* signal is left pending, and SIGIO, which comes when its queue is full,  *)
(* is to start the reading.                                                *)
(* A line is one read(); the line is there before its signal is.           *)
(***************************************************************************)
EXTENDS SignalKernel

CONSTANT MaxEntered

VARIABLES
  entered, \* lines typed
  notify,  \* lines whose signal the kernel has not sent yet
  unread,  \* lines in the terminal
  gotSigio,\* got_sigio
  merged,  \* history: SIGIOs that came while one was pending or flagged
  ctrlC    \* Ctrl-C typed to optim

lineVars == <<entered, notify, unread, gotSigio, merged>>
ioVars == <<lineVars, ctrlC>>

IOInit ==
  /\ entered = 0 /\ notify = 0 /\ unread = 0 /\ ctrlC = 0
  /\ gotSigio = FALSE /\ merged = 0

Ended == pc \in {"killed", "aborted"}

TypeLine ==
  /\ program \in {"flag", "queue", "optim"} /\ ~Ended
  /\ entered < MaxEntered
  /\ entered' = entered + 1 /\ notify' = notify + 1 /\ unread' = unread + 1
  /\ UNCHANGED <<kernelVars, gotSigio, merged, ctrlC>>

(* When the queue of the real-time signal is full SIGIO is sent instead. *)
Announcement ==
  IF program # "flag" /\ ~QueueFull("RT") THEN "RT" ELSE "IO"

Notify ==
  /\ notify > 0
  /\ notify' = notify - 1
  /\ pending' = Posted(Announcement)
  /\ merged' = merged + IF QueueFull(Announcement) THEN 1 ELSE 0
  /\ UNCHANGED <<program, pc, blocked, frames, asleep, restore, entered, unread, gotSigio, ctrlC>>

(* read() and write() of a line, if there is one; the descriptor does not  *)
(* block.                                                                  *)
ReadLine == unread' = IF unread > 0 THEN unread - 1 ELSE 0

-----------------------------------------------------------------------------
(* The flag.                                                               *)

FlagDeliver == Deliver("flag", "IO", {}) /\ UNCHANGED ioVars

FlagHandler ==
  /\ Handler("flag", "entry")
  /\ gotSigio' = TRUE
  /\ merged' = merged + IF gotSigio THEN 1 ELSE 0
  /\ Return
  /\ UNCHANGED <<entered, notify, unread, ctrlC>>

FlagCheckResets ==
  /\ Main("flag", "start")
  /\ gotSigio
  /\ gotSigio' = FALSE
  /\ pc' = "read"
  /\ UNCHANGED <<program, pending, blocked, frames, asleep, restore, entered,
                 notify, unread, merged, ctrlC>>

FlagCheck ==
  /\ Main("flag", "start")
  /\ gotSigio
  /\ pc' = "read"
  /\ UNCHANGED <<program, pending, blocked, frames, asleep, restore, ioVars>>

FlagRead ==
  /\ Main("flag", "read")
  /\ ReadLine
  /\ pc' = "reset"
  /\ UNCHANGED <<program, pending, blocked, frames, asleep, restore, entered,
                 notify, gotSigio, merged, ctrlC>>

FlagReset ==
  /\ Main("flag", "reset")
  /\ gotSigio' = FALSE
  /\ pc' = "start"
  /\ UNCHANGED <<program, pending, blocked, frames, asleep, restore, entered,
                 notify, unread, merged, ctrlC>>

FlagStep == FlagDeliver \/ FlagHandler \/ FlagCheck \/ FlagRead \/ FlagReset

-----------------------------------------------------------------------------
(* The queue.                                                              *)

QueueBlock ==
  /\ Main("queue", "start")
  /\ blocked' = blocked \cup {"RT"}
  /\ pc' = "suspend"
  /\ UNCHANGED <<program, pending, frames, asleep, restore, ioVars>>

QueueSuspendBlocked ==
  /\ Main("queue", "suspend")
  /\ Suspend(blocked)
  /\ UNCHANGED <<pc, ioVars>>

(* setold, the mask before, has nothing blocked. *)
QueueSuspend ==
  /\ Main("queue", "suspend")
  /\ Suspend({})
  /\ UNCHANGED <<pc, ioVars>>

(* SIGIO has no handler. *)
QueueDeliver(s) ==
  /\ IF s = "RT" THEN Deliver("queue", s, {}) ELSE Terminate("queue", s)
  /\ UNCHANGED ioVars

QueueHandler ==
  /\ Handler("queue", "entry")
  /\ ReadLine
  /\ Return
  /\ UNCHANGED <<entered, notify, gotSigio, merged, ctrlC>>

QueueStep ==
  QueueBlock \/ QueueSuspend \/ QueueHandler \/ \E s \in {"IO", "RT"} : QueueDeliver(s)

-----------------------------------------------------------------------------
(* The queue that SIGIO empties.                                           *)

OptimCtrlC ==
  /\ program = "optim" /\ ~Ended
  /\ ctrlC < MaxEntered
  /\ ctrlC' = ctrlC + 1
  /\ pending' = Posted("INT")
  /\ UNCHANGED <<program, pc, blocked, frames, asleep, restore, lineVars>>

(* The input is announced already, and all but SIGIO is blocked only now.  *)
OptimBlock ==
  /\ Main("optim", "start")
  /\ blocked' = Signals \ {"IO"}
  /\ pc' = "loop"
  /\ UNCHANGED <<program, pending, frames, asleep, restore, ioVars>>

OptimDeliver(s) ==
  /\ ~Ended
  /\ IF s = "IO" THEN Deliver("optim", s, {}) ELSE Terminate("optim", s)
  /\ UNCHANGED ioVars

OptimHandler ==
  /\ Handler("optim", "entry")
  /\ gotSigio' = TRUE
  /\ Return
  /\ UNCHANGED <<entered, notify, unread, merged, ctrlC>>

OptimCheck ==
  /\ Main("optim", "loop")
  /\ gotSigio
  /\ pc' = "wait"
  /\ UNCHANGED <<program, pending, blocked, frames, asleep, restore, ioVars>>

(* sigwaitinfo() takes the lowest signal of those that are pending, SIGINT *)
(* before a real-time one.                                                 *)
First == IF pending["INT"] > 0 THEN "INT" ELSE "RT"

(* Built with NDEBUG. *)
CodeUnchecked(s) == TRUE

(* The terminal's signals come with the code the assertion wants; that of  *)
(* an announced line is POLL_IN.                                           *)
CodeExpected(s) == s = "INT"

OptimTake ==
  /\ Main("optim", "wait")
  /\ pending[First] > 0
  /\ pending' = [pending EXCEPT ![First] = @ - 1]
  /\ pc' = IF CodeExpected(First) THEN "read" ELSE "aborted"
  /\ UNCHANGED <<program, blocked, frames, asleep, restore, ioVars>>

(* si_fd of a terminal's signal is 0, the standard input. *)
OptimRead ==
  /\ Main("optim", "read")
  /\ ReadLine
  /\ pc' = "reset"
  /\ UNCHANGED <<program, pending, blocked, frames, asleep, restore, entered,
                 notify, gotSigio, merged, ctrlC>>

OptimReset ==
  /\ Main("optim", "reset")
  /\ gotSigio' = FALSE
  /\ pc' = "loop"
  /\ UNCHANGED <<program, pending, blocked, frames, asleep, restore, entered,
                 notify, unread, merged, ctrlC>>

OptimStep ==
  \/ OptimBlock \/ OptimHandler \/ OptimCheck \/ OptimTake \/ OptimRead \/ OptimReset
  \/ \E s \in {"INT", "IO", "RT"} : OptimDeliver(s)

IOStep == Notify \/ FlagStep \/ QueueStep \/ OptimStep

-----------------------------------------------------------------------------
(* Properties.                                                             *)

AtRest ==
  /\ program = "flag" /\ pc = "start" /\ ~gotSigio
  /\ notify = 0 /\ frames = <<>> /\ pending["IO"] = 0

(* The flag: when the program has nothing more to do, it has left exactly  *)
(* as many lines unread as there were signals that came before it was done *)
(* with the one before, among them those between its read and its reset.   *)
LeftBehindIsMerged == AtRest => unread = merged

(* The queue: every line is read in the end, however fast they come, as    *)
(* long as the queue does not overflow; then SIGIO ends the process.       *)
QueueReadsAll ==
  program = "queue" /\ unread > 0 ~> unread = 0 \/ pc = "killed"

(* The third version reads one line for every Ctrl-C at most, however many *)
(* were announced, and sigwaitinfo() always finds a signal there: SIGIO    *)
(* comes only when the queue is full, and nothing else takes from it.      *)
LinesNeedKeys ==
  program = "optim" =>
    /\ entered - unread <= ctrlC
    /\ pc = "wait" => pending["RT"] > 0

(* The signals it takes come from the terminal or from sigqueue(), as the  *)
(* assertion in line 92 says.                                              *)
AssertedOrigin == pc # "aborted"
=============================================================================
