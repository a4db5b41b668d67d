---------------------------- MODULE SignalCount -----------------------------
(***************************************************************************)
(* signal/signal_receiver.cpp counts the signals it is sent until SIGINT   *)
(* comes, with all of them blocked for a while first if it is told to;     *)
(* signal/signal_sender.cpp sends one signal a number of times, then       *)
(* SIGINT.                                                                 *)
(***************************************************************************)
EXTENDS SignalKernel

CONSTANT MaxTimes

ASSUME CountAssumption == MaxTimes \in Nat

VARIABLES
  signo, times, \* arguments of the sender
  sent,         \* signals it has sent, the final SIGINT included
  statistics,   \* g_statistics[signo]
  interrupt     \* g_interrupt

countVars == <<signo, times, sent, statistics, interrupt>>
senderVars == <<signo, times, sent>>

CountInit ==
  /\ signo \in {"USR1", "RT"} /\ times \in 1..MaxTimes
  /\ sent = 0 /\ statistics = 0 /\ interrupt = FALSE

SenderKill ==
  /\ program = "count" /\ pc # "done"
  /\ sent <= times
  /\ sent' = sent + 1
  /\ pending' = Posted(IF sent < times THEN signo ELSE "INT")
  /\ UNCHANGED <<program, pc, blocked, frames, asleep, restore, signo, times,
                 statistics, interrupt>>

(* The handlers are set; [sleep second] may be zero. *)
ReceiverBlock ==
  /\ Main("count", "start")
  /\ \/ pc' = "unblock" /\ blocked' = Signals
     \/ pc' = "loop" /\ UNCHANGED blocked
  /\ UNCHANGED <<program, pending, frames, asleep, restore, countVars>>

ReceiverUnblocksInt ==
  /\ Main("count", "unblock")
  /\ blocked' = Signals \ {"INT"}
  /\ pc' = "loop"
  /\ UNCHANGED <<program, pending, frames, asleep, restore, countVars>>

ReceiverUnblock ==
  /\ Main("count", "unblock")
  /\ blocked' = {}
  /\ pc' = "loop"
  /\ UNCHANGED <<program, pending, frames, asleep, restore, countVars>>

ReceiverPrint ==
  /\ Main("count", "loop")
  /\ interrupt
  /\ pc' = "done"
  /\ UNCHANGED <<program, pending, blocked, frames, asleep, restore, countVars>>

(* signal() blocks the handler's own signal only: handlers of different    *)
(* signals do interrupt each other.                                        *)
ReceiverDeliver(s) == Deliver("count", s, {}) /\ UNCHANGED countVars

ReceiverHandler ==
  /\ Handler("count", "entry")
  /\ Return
  /\ IF Last(frames).sig = "INT"
       THEN interrupt' = TRUE /\ UNCHANGED statistics
       ELSE statistics' = statistics + 1 /\ UNCHANGED interrupt
  /\ UNCHANGED senderVars

CountStep ==
  \/ SenderKill \/ ReceiverBlock \/ ReceiverUnblock \/ ReceiverPrint
  \/ ReceiverHandler \/ \E s \in {"INT", "USR1", "RT"} : ReceiverDeliver(s)

-----------------------------------------------------------------------------
(* Properties.                                                             *)

(* What the receiver prints, whatever it was doing when signals came: of a *)
(* standard signal at least one, since nothing is forgotten, and no more   *)
(* than were sent, since they do not queue; of a real-time one all, unless *)
(* they were more than the queue holds.  SIGINT, sent last, does not       *)
(* overtake any: when it is seen all before it have been handled.          *)
StatisticsFaithful ==
  pc = "done" /\ program = "count" =>
    /\ statistics \in 1..times
    /\ signo \in Realtime => statistics >= times \/ statistics >= QueueLimit
=============================================================================
