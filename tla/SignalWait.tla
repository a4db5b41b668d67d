----------------------------- MODULE SignalWait -----------------------------
(***************************************************************************)
(* Programs that wait for signals: process/signal-sync-process.cpp, whose  *)
(* parent waits for a signal of its child; signal/signal_pause_bug.c,      *)
(* which sends itself the signal it waits for; signal/signal_sigsuspend.c, *)
(* which waits with SIGQUIT blocked; and signal/signal_handler_ex.c, whose *)
(* two handlers exclude each other.                                        *)
(***************************************************************************)
EXTENDS SignalKernel

CONSTANT MaxKeys  \* Ctrl-C and Ctrl-\ typed

VARIABLES
  child,  \* the child of signal-sync-process
  keys,   \* keys typed so far
  quits   \* signal_handler_ex was started with an argument: it handles QUIT

waitVars == <<child, keys, quits>>

WaitInit == child = "none" /\ keys = 0 /\ quits \in BOOLEAN

-----------------------------------------------------------------------------
(* signal-sync-process.                                                    *)

SyncBlock ==
  /\ Main("sync", "start")
  /\ blocked' = blocked \cup {"USR1"}
  /\ pc' = "fork"
  /\ UNCHANGED <<program, pending, frames, asleep, restore, waitVars>>

(* When fork() fails the parent leaves without waiting. *)
SyncFork ==
  /\ Main("sync", "fork")
  /\ \/ child' = "running" /\ pc' = "suspend"
     \/ pc' = "done" /\ UNCHANGED child
  /\ UNCHANGED <<program, pending, blocked, frames, asleep, restore, keys, quits>>

SyncKid ==
  /\ program = "sync" /\ child = "running"
  /\ child' = "signalled"
  /\ pending' = Posted("USR1")
  /\ UNCHANGED <<program, pc, blocked, frames, asleep, restore, keys, quits>>

(* signal/signal_pause_bug.c does it so. *)
SyncUnblockAndPause ==
  /\ Main("sync", "suspend")
  /\ IF blocked # {}
       THEN /\ blocked' = {}
            /\ UNCHANGED <<program, pc, pending, frames, asleep, restore>>
       ELSE Suspend(blocked) /\ pc' = "woken"
  /\ UNCHANGED waitVars

SyncSuspend ==
  /\ Main("sync", "suspend")
  /\ Suspend({})
  /\ pc' = "woken"
  /\ UNCHANGED waitVars

SyncHandler == Handler("sync", "entry") /\ Return /\ UNCHANGED waitVars

SyncRestore ==
  /\ Main("sync", "woken")
  /\ blocked' = {}
  /\ pc' = "done"
  /\ UNCHANGED <<program, pending, frames, asleep, restore, waitVars>>

SyncStep ==
  \/ SyncBlock \/ SyncFork \/ SyncKid \/ SyncSuspend \/ SyncHandler \/ SyncRestore
  \/ Deliver("sync", "USR1", {}) /\ UNCHANGED waitVars

-----------------------------------------------------------------------------
(* Keys, to all programs but signal-sync-process.                          *)

Key(s) ==
  /\ program \in {"ex", "pausebug", "suspend"} /\ pc \notin {"killed", "done"}
  /\ keys < MaxKeys
  /\ keys' = keys + 1
  /\ pending' = Posted(s)
  /\ UNCHANGED <<program, pc, blocked, frames, asleep, restore, child, quits>>

-----------------------------------------------------------------------------
(* signal_pause_bug and signal_sigsuspend: SIGINT has a handler, SIGQUIT   *)
(* ends the process.                                                       *)

PauseBlock ==
  /\ Main("pausebug", "start")
  /\ blocked' = {"INT"}
  /\ pc' = "unblock"
  /\ UNCHANGED <<program, pending, frames, asleep, restore, waitVars>>

PauseUnblock ==
  /\ Main("pausebug", "unblock")
  /\ blocked' = {}
  /\ pc' = "kill"
  /\ UNCHANGED <<program, pending, frames, asleep, restore, waitVars>>

PauseKill ==
  /\ Main("pausebug", "kill")
  /\ pending' = Posted("INT")
  /\ pc' = "pause"
  /\ UNCHANGED <<program, blocked, frames, asleep, restore, waitVars>>

PausePause ==
  /\ Main("pausebug", "pause")
  /\ Suspend(blocked)
  /\ pc' = "woken"
  /\ UNCHANGED waitVars

PauseReturns ==
  /\ Main("pausebug", "woken")
  /\ pc' = "done"
  /\ UNCHANGED <<program, pending, blocked, frames, asleep, restore, waitVars>>

SuspendWaits ==
  /\ Main("suspend", "start")
  /\ Suspend({"QUIT"})
  /\ UNCHANGED <<pc, waitVars>>

IntHandler(p) == Handler(p, "entry") /\ Return /\ UNCHANGED waitVars

IntDeliver(p, s) ==
  /\ pc \notin {"killed", "done"}
  /\ IF s = "INT" THEN Deliver(p, s, {}) ELSE Terminate(p, s)
  /\ UNCHANGED waitVars

PauseStep ==
  \/ PauseBlock \/ PauseUnblock \/ PauseKill \/ PausePause \/ PauseReturns \/ SuspendWaits
  \/ \E p \in {"pausebug", "suspend"} :
       IntHandler(p) \/ \E s \in {"INT", "QUIT"} : IntDeliver(p, s)

-----------------------------------------------------------------------------
(* signal_handler_ex.                                                      *)

MaskedNothing(s) == {}

(* The sa_mask of either handler is the other's signal. *)
ExMask(s) == {"INT", "QUIT"} \ {s}

ExPause ==
  /\ Main("ex", "start")
  /\ Suspend(blocked)
  /\ UNCHANGED <<pc, waitVars>>

ExDeliver(s) ==
  /\ IF s = "INT" \/ quits THEN Deliver("ex", s, ExMask(s)) ELSE Terminate("ex", s)
  /\ UNCHANGED waitVars

(* The handler sleeps and returns. *)
ExHandler == Handler("ex", "entry") /\ Return /\ UNCHANGED waitVars

ExStep == ExPause \/ ExHandler \/ \E s \in {"INT", "QUIT"} : ExDeliver(s)

WaitNext == SyncStep \/ PauseStep \/ ExStep \/ \E s \in {"INT", "QUIT"} : Key(s)

-----------------------------------------------------------------------------
(* Properties.                                                             *)

(* signal-sync-process: the parent passes its wait only after the child's  *)
(* signal, and never waits for a signal that has been and gone, because it *)
(* was blocked since before the fork until sigsuspend() unblocks it.       *)
ParentWaitsForKid ==
  program = "sync" =>
    /\ pc \in {"woken", "done"} /\ ~asleep /\ child # "none" => child = "signalled"
    /\ asleep => child # "signalled" \/ pending["USR1"] > 0

(* signal_pause_bug.c:47-49: the signal it sends itself comes before the   *)
(* pause() it is meant for, so that it is a key that ends the wait.        *)
PauseNeedsKey == program = "pausebug" /\ pc = "done" => keys > 0

(* Each of the two waits ends for what it should, or should not: the wait  *)
(* that sets its mask itself, and the one that lets the signal pass first. *)
WaitsForSignal == ParentWaitsForKid /\ PauseNeedsKey

(* "While SIGINT is handled it cannot be interrupted by SIGQUIT", and the  *)
(* other way round (signal_handler_ex.c:9-14): no handler interrupts one,  *)
(* nor does a SIGQUIT that has none end the process in the middle of one.  *)
HandlersExclude ==
  program = "ex" => Len(frames) <= IF pc = "killed" THEN 0 ELSE 1
=============================================================================
