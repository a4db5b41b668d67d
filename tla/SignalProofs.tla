---------------------------- MODULE SignalProofs ----------------------------
(***************************************************************************)
(* Proofs about the signal programs, side by side: for any set of          *)
(* programs, any number of keys, signals, lines and interrupts, and any    *)
(* limit of the queue of real-time signals.  Each program has an inductive *)
(* invariant of its own.                                                   *)
(***************************************************************************)
EXTENDS SignalPrograms, SequenceTheorems, TLAPS

(* The programs of terminal input. *)
Readers == {"flag", "queue", "optim"}

(* Who may take a step: the program that runs, the user at its terminal,   *)
(* and the kernel with a line to announce.                                 *)
Quiet == program \notin Readers => notify = 0

LEMMA ProgramSteps ==
  ASSUME [SignalNext]_signalVars
  PROVE  /\ program' = program
         /\ \/ UNCHANGED signalVars
            \/ program = "sync" /\ SyncStep /\ UNCHANGED <<countVars, cryptVars, ioVars>>
            \/ program \in {"pausebug", "suspend"} /\ PauseStep
                 /\ UNCHANGED <<countVars, cryptVars, ioVars>>
            \/ program = "ex" /\ ExStep /\ UNCHANGED <<countVars, cryptVars, ioVars>>
            \/ program \in {"ex", "pausebug", "suspend"}
                 /\ (\E s \in {"INT", "QUIT"} : Key(s))
                 /\ UNCHANGED <<countVars, cryptVars, ioVars>>
            \/ program = "count" /\ CountStep /\ UNCHANGED <<waitVars, cryptVars, ioVars>>
            \/ program = "crypt" /\ (CryptStep \/ CryptKey)
                 /\ UNCHANGED <<waitVars, countVars, ioVars>>
            \/ program = "flag" /\ FlagStep /\ UNCHANGED <<waitVars, countVars, cryptVars>>
            \/ program = "queue" /\ QueueStep /\ UNCHANGED <<waitVars, countVars, cryptVars>>
            \/ program = "optim" /\ (OptimStep \/ OptimCtrlC)
                 /\ UNCHANGED <<waitVars, countVars, cryptVars>>
            \/ program \in Readers /\ TypeLine /\ UNCHANGED <<waitVars, countVars, cryptVars>>
            \/ Notify /\ UNCHANGED <<waitVars, countVars, cryptVars>>
<1> USE DEF Main, Handler, Deliver, Terminate, Return, Suspend
<1>1. SyncStep => program = "sync" /\ program' = program
  BY DEF SyncStep, SyncBlock, SyncFork, SyncKid, SyncSuspend, SyncHandler, SyncRestore
<1>2. PauseStep => program \in {"pausebug", "suspend"} /\ program' = program
  BY DEF PauseStep, PauseBlock, PauseUnblock, PauseKill, PausePause, PauseReturns,
         SuspendWaits, IntHandler, IntDeliver
<1>3. ExStep => program = "ex" /\ program' = program
  BY DEF ExStep, ExPause, ExHandler, ExDeliver
<1>4. (\E s \in {"INT", "QUIT"} : Key(s)) =>
         program \in {"ex", "pausebug", "suspend"} /\ program' = program
  BY DEF Key
<1>5. CountStep => program = "count" /\ program' = program
  BY DEF CountStep, SenderKill, ReceiverBlock, ReceiverUnblock, ReceiverPrint,
         ReceiverHandler, ReceiverDeliver
<1>6. CryptStep \/ CryptKey => program = "crypt" /\ program' = program
  BY DEF CryptStep, CryptKey, MainLock, MainCryptBegins, MainCryptEnds, MainUnlock,
         MainCompare, CryptDeliver, HandlerLock, HandlerCrypt, HandlerUnlock
<1>7. FlagStep => program = "flag" /\ program' = program
  BY DEF FlagStep, FlagDeliver, FlagHandler, FlagCheck, FlagRead, FlagReset
<1>8. QueueStep => program = "queue" /\ program' = program
  BY DEF QueueStep, QueueBlock, QueueSuspend, QueueHandler, QueueDeliver
<1>9. OptimStep \/ OptimCtrlC => program = "optim" /\ program' = program
  BY DEF OptimStep, OptimCtrlC, OptimBlock, OptimHandler, OptimCheck, OptimTake,
         OptimRead, OptimReset, OptimDeliver
<1>10. TypeLine => program \in Readers /\ program' = program
  BY DEF TypeLine, Readers, kernelVars
<1>11. Notify => program' = program  BY DEF Notify
<1>12. UNCHANGED signalVars => program' = program  BY DEF signalVars, kernelVars
<1> HIDE DEF Main, Handler, Deliver, Terminate, Return, Suspend
<1>13. CASE WaitNext /\ UNCHANGED <<countVars, cryptVars, ioVars>>
  BY <1>1, <1>2, <1>3, <1>4, <1>13 DEF WaitNext
<1>14. CASE CountStep /\ UNCHANGED <<waitVars, cryptVars, ioVars>>
  BY <1>5, <1>14
<1>15. CASE (CryptStep \/ CryptKey) /\ UNCHANGED <<waitVars, countVars, ioVars>>
  BY <1>6, <1>15
<1>16. CASE (IOStep \/ TypeLine \/ OptimCtrlC) /\ UNCHANGED <<waitVars, countVars, cryptVars>>
  BY <1>7, <1>8, <1>9, <1>10, <1>11, <1>16 DEF IOStep
<1> QED  BY <1>12, <1>13, <1>14, <1>15, <1>16 DEF SignalNext
-----------------------------------------------------------------------------
(* The kernel.                                                             *)

Frame == [sig : Signals, at : {"entry", "crypt", "unlock"}, saved : SUBSET Signals]

KernelOK ==
  /\ pending \in [Signals -> Nat]
  /\ blocked \subseteq Signals /\ restore \subseteq Signals
  /\ asleep \in BOOLEAN
  /\ frames \in Seq(Frame)

LEMMA NoFrames ==
  ASSUME KernelOK
  PROVE  /\ Len(frames) \in Nat
         /\ frames = <<>> <=> Len(frames) = 0
         /\ DOMAIN frames = 1..Len(frames)
         /\ \A i \in 1..Len(frames) : frames[i] \in Frame
         /\ frames # <<>> => Last(frames) = frames[Len(frames)] /\ Last(frames) \in Frame
BY EmptySeq, LenProperties, ElementOfSeq DEF KernelOK, Last

LEMMA PostedEffect ==
  ASSUME KernelOK, NEW s \in Signals
  PROVE  /\ Posted(s) \in [Signals -> Nat]
         /\ Posted(s)[s] = IF QueueFull(s) THEN pending[s] ELSE pending[s] + 1
         /\ \A t \in Signals : t # s => Posted(s)[t] = pending[t]
BY DEF KernelOK, Posted

LEMMA DeliverEffect ==
  ASSUME KernelOK, NEW p, NEW s, NEW mask, mask \subseteq Signals, Deliver(p, s, mask)
  PROVE  LET n == Len(frames) + 1 IN
         /\ KernelOK'
         /\ s \in Signals \ blocked /\ pending[s] > 0
         /\ pending'[s] = pending[s] - 1
         /\ \A t \in Signals : t # s => pending'[t] = pending[t]
         /\ Len(frames') = n /\ frames' # <<>>
         /\ \A i \in 1..Len(frames) : frames'[i] = frames[i]
         /\ frames'[n].sig = s /\ frames'[n].at = "entry"
         /\ frames'[n].saved = IF asleep THEN restore ELSE blocked
         /\ blocked' = blocked \cup mask \cup {s}
         /\ ~asleep' /\ UNCHANGED <<program, pc>>
<1> DEFINE f == [sig |-> s, at |-> "entry", saved |-> IF asleep THEN restore ELSE blocked]
<1>1. s \in Signals \ blocked /\ pending[s] > 0  BY DEF Deliver, Deliverable
<1>2. f \in Frame  BY <1>1 DEF Frame, KernelOK
<1>3. frames' = Append(frames, f)  BY DEF Deliver
<1>4. /\ frames' \in Seq(Frame) /\ Len(frames') = Len(frames) + 1
      /\ \A i \in 1..Len(frames) : frames'[i] = frames[i]
      /\ frames'[Len(frames) + 1] = f /\ frames' # <<>>
  BY <1>2, <1>3, AppendProperties DEF KernelOK
<1>5. /\ pending' \in [Signals -> Nat] /\ pending'[s] = pending[s] - 1
      /\ \A t \in Signals : t # s => pending'[t] = pending[t]
  BY <1>1 DEF Deliver, KernelOK
<1>6. blocked' = blocked \cup mask \cup {s} /\ asleep' = FALSE /\ restore' = {}
      /\ UNCHANGED <<program, pc>>
  BY DEF Deliver
<1>7. KernelOK'  BY <1>1, <1>4, <1>5, <1>6 DEF KernelOK
<1> QED  BY <1>1, <1>4, <1>5, <1>6, <1>7

LEMMA ReturnEffect ==
  ASSUME KernelOK, frames # <<>>, Return
  PROVE  /\ KernelOK'
         /\ Len(frames) > 0 /\ Len(frames') = Len(frames) - 1
         /\ \A i \in 1..(Len(frames) - 1) : frames'[i] = frames[i]
         /\ blocked' = frames[Len(frames)].saved
         /\ UNCHANGED <<program, pc, pending, asleep, restore>>
<1>1. frames' = SubSeq(frames, 1, Len(frames) - 1)  BY DEF Return, Front
<1>2. Len(frames) \in Nat /\ Len(frames) > 0  BY NoFrames
<1>3. /\ frames' \in Seq(Frame) /\ Len(frames') = Len(frames) - 1
      /\ \A i \in 1..(Len(frames) - 1) : frames'[i] = frames[i]
  <2> DEFINE n == Len(frames) - 1
             t == SubSeq(frames, 1, n)
  <2>1. n \in Int /\ 1 \in Int /\ n >= 0 /\ \A i \in 1..n : frames[i] \in Frame
    BY <1>2, NoFrames
  <2>2. /\ t \in Seq(Frame)
        /\ Len(t) = IF 1 <= n THEN n - 1 + 1 ELSE 0
        /\ \A i \in 1..(n - 1 + 1) : t[i] = frames[1 + i - 1]
    BY <2>1, SubSeqProperties
  <2>3. frames' = t  BY <1>1
  <2> HIDE DEF n, t
  <2>4. n - 1 + 1 = n /\ Len(t) = n  BY <2>1, <2>2
  <2>5. ASSUME NEW i \in 1..n PROVE t[i] = frames[i]
    <3>1. i \in 1..(n - 1 + 1) /\ 1 + i - 1 = i  BY <2>1
    <3> QED  BY <2>2, <3>1
  <2> QED  BY <2>2, <2>3, <2>4, <2>5 DEF n
<1>4. /\ blocked' = frames[Len(frames)].saved
      /\ UNCHANGED <<program, pc, pending, asleep, restore>>
  BY DEF Return, Last
<1>5. frames[Len(frames)] \in Frame  BY <1>2, NoFrames
<1>6. KernelOK'  BY <1>3, <1>4, <1>5 DEF KernelOK, Frame
<1> QED  BY <1>2, <1>3, <1>4, <1>6

LEMMA TerminateEffect ==
  ASSUME KernelOK, NEW p, NEW s, Terminate(p, s)
  PROVE  /\ KernelOK' /\ s \in Signals \ blocked /\ pending[s] > 0
         /\ pc' = "killed" /\ \A t \in Signals : pending'[t] = 0
         /\ blocked' = Signals /\ ~asleep' /\ UNCHANGED <<program, frames>>
BY DEF Terminate, Deliverable, KernelOK

(* While main() runs no handler does, and nothing may be delivered.        *)
LEMMA MainEffect ==
  ASSUME KernelOK, NEW p, NEW at, Main(p, at)
  PROVE  /\ program = p /\ pc = at /\ frames = <<>> /\ ~asleep /\ Len(frames) = 0
         /\ \A s \in Signals \ blocked : pending[s] = 0
BY NoFrames DEF Main, Deliverable, KernelOK

LEMMA SuspendEffect ==
  ASSUME KernelOK, NEW mask, mask \subseteq Signals, Suspend(mask)
  PROVE  /\ KernelOK' /\ asleep' /\ restore' = blocked /\ blocked' = mask
         /\ UNCHANGED <<program, pending, frames>>
BY DEF Suspend, KernelOK
LEMMA SameInterval ==
  ASSUME NEW a \in Nat, NEW b \in Nat, 1..a = 1..b PROVE a = b
<1>1. CASE a = 0  BY <1>1
<1>2. CASE b = 0  BY <1>2
<1>3. CASE a > 0 /\ b > 0
  <2>1. a \in 1..b /\ b \in 1..a  BY <1>3
  <2> QED  BY <2>1
<1> QED  BY <1>1, <1>2, <1>3

(* A step within a handler: it stays the innermost.                        *)
LEMMA GoesEffect ==
  ASSUME KernelOK, frames # <<>>, NEW at \in {"crypt", "unlock"}, Goes(at)
  PROVE  LET n == Len(frames) IN
         /\ frames' \in Seq(Frame) /\ Len(frames') = n /\ n > 0
         /\ \A i \in 1..n : /\ frames'[i].sig = frames[i].sig
                            /\ frames'[i].saved = frames[i].saved
         /\ frames'[n].at = at
<1> DEFINE n == Len(frames)
           f == [frames[Len(frames)] EXCEPT !.at = at]
<1>1. n \in Nat /\ n > 0 /\ DOMAIN frames = 1..n /\ \A i \in 1..n : frames[i] \in Frame
  BY NoFrames
<1>2. frames' = [frames EXCEPT ![n] = f]  BY DEF Goes
<1>3. f \in Frame /\ f.sig = frames[n].sig /\ f.saved = frames[n].saved /\ f.at = at
  BY <1>1 DEF Frame
<1> HIDE DEF f
<1>4. /\ frames' \in [1..n -> Frame]
      /\ \A i \in 1..n : frames'[i] = IF i = n THEN f ELSE frames[i]
  <2>1. frames \in [1..n -> Frame]  BY LenProperties DEF KernelOK
  <2> QED  BY <1>1, <1>2, <1>3, <2>1
<1>5. frames' \in Seq(Frame)  BY <1>1, <1>4, SeqDef
<1>6. Len(frames') = n
  <2>1. Len(frames') \in Nat /\ DOMAIN frames' = 1..Len(frames')
    BY <1>5, LenProperties
  <2>2. 1..Len(frames') = 1..n  BY <1>4, <2>1
  <2> QED  BY <1>1, <2>1, <2>2, SameInterval
<1>7. frames'[n] = f
  <2>1. n \in 1..n  BY <1>1
  <2> QED  BY <1>4, <2>1
<1>8. \A i \in 1..n : frames'[i].sig = frames[i].sig /\ frames'[i].saved = frames[i].saved
  BY <1>3, <1>4
<1> QED  BY <1>1, <1>3, <1>5, <1>6, <1>7, <1>8

LEMMA KernelKept ==
  ASSUME KernelOK, signo \in {"USR1", "RT"}, [SignalNext]_signalVars PROVE KernelOK'
<1>1. CASE UNCHANGED signalVars  BY <1>1 DEF signalVars, kernelVars, KernelOK
<1>2. CASE SyncStep
  <2>1. CASE SyncBlock \/ SyncFork \/ SyncRestore
    BY <2>1 DEF SyncBlock, SyncFork, SyncRestore, KernelOK, Signals
  <2>2. CASE SyncKid
    BY <2>2, PostedEffect DEF SyncKid, KernelOK, Signals
  <2>3. CASE SyncSuspend  BY <2>3, SuspendEffect DEF SyncSuspend
  <2>4. CASE SyncHandler  BY <2>4, ReturnEffect DEF SyncHandler, Handler
  <2>5. CASE Deliver("sync", "USR1", {})  BY <2>5, DeliverEffect
  <2> QED  BY <1>2, <2>1, <2>2, <2>3, <2>4, <2>5 DEF SyncStep
<1>3. CASE PauseStep
  <2>1. CASE PauseBlock \/ PauseUnblock \/ PauseReturns
    BY <2>1 DEF PauseBlock, PauseUnblock, PauseReturns, KernelOK, Signals
  <2>2. CASE PauseKill
    BY <2>2, PostedEffect DEF PauseKill, KernelOK, Signals
  <2>3. CASE PausePause  BY <2>3, SuspendEffect DEF PausePause, KernelOK
  <2>4. CASE SuspendWaits  BY <2>4, SuspendEffect DEF SuspendWaits, Signals
  <2>5. ASSUME NEW p, IntHandler(p) PROVE KernelOK'
    BY <2>5, ReturnEffect DEF IntHandler, Handler
  <2>6. ASSUME NEW p, NEW s, IntDeliver(p, s) PROVE KernelOK'
    BY <2>6, DeliverEffect, TerminateEffect DEF IntDeliver
  <2> QED  BY <1>3, <2>1, <2>2, <2>3, <2>4, <2>5, <2>6 DEF PauseStep
<1>4. CASE ExStep
  <2>1. CASE ExPause  BY <2>1, SuspendEffect DEF ExPause, KernelOK
  <2>2. CASE ExHandler  BY <2>2, ReturnEffect DEF ExHandler, Handler
  <2>3. ASSUME NEW s, ExDeliver(s) PROVE KernelOK'
    <3>1. ExMask(s) \subseteq Signals  BY DEF ExMask, Signals
    <3> QED  BY <2>3, <3>1, DeliverEffect, TerminateEffect DEF ExDeliver
  <2> QED  BY <1>4, <2>1, <2>2, <2>3 DEF ExStep
<1>5. ASSUME NEW s \in {"INT", "QUIT"}, Key(s) PROVE KernelOK'
  BY <1>5, PostedEffect DEF Key, KernelOK, Signals
<1>6. CASE CountStep
  <2>1. CASE ReceiverBlock \/ ReceiverUnblock \/ ReceiverPrint
    BY <2>1 DEF ReceiverBlock, ReceiverUnblock, ReceiverPrint, KernelOK, Signals
  <2>2. CASE SenderKill
    BY <2>2, PostedEffect DEF SenderKill, KernelOK, Signals
  <2>3. CASE ReceiverHandler  BY <2>3, ReturnEffect DEF ReceiverHandler, Handler
  <2>4. ASSUME NEW s, ReceiverDeliver(s) PROVE KernelOK'
    BY <2>4, DeliverEffect DEF ReceiverDeliver
  <2> QED  BY <1>6, <2>1, <2>2, <2>3, <2>4 DEF CountStep
<1>7. CASE CryptStep \/ CryptKey
  <2>1. CASE MainLock \/ MainCryptBegins \/ MainCryptEnds \/ MainUnlock \/ MainCompare
    BY <2>1 DEF MainLock, MainCryptBegins, MainCryptEnds, MainUnlock, MainCompare, KernelOK
  <2>2. CASE CryptDeliver  BY <2>2, DeliverEffect DEF CryptDeliver
  <2>3. CASE HandlerLock \/ HandlerCrypt
    BY <2>3, GoesEffect DEF HandlerLock, HandlerCrypt, Handler, KernelOK
  <2>4. CASE HandlerUnlock  BY <2>4, ReturnEffect DEF HandlerUnlock, Handler
  <2>5. CASE CryptKey  BY <2>5, PostedEffect DEF CryptKey, KernelOK, Signals
  <2> QED  BY <1>7, <2>1, <2>2, <2>3, <2>4, <2>5 DEF CryptStep
<1>8. CASE FlagStep
  <2>1. CASE FlagCheck \/ FlagRead \/ FlagReset
    BY <2>1 DEF FlagCheck, FlagRead, FlagReset, KernelOK
  <2>2. CASE FlagDeliver  BY <2>2, DeliverEffect DEF FlagDeliver
  <2>3. CASE FlagHandler  BY <2>3, ReturnEffect DEF FlagHandler, Handler
  <2> QED  BY <1>8, <2>1, <2>2, <2>3 DEF FlagStep
<1>9. CASE QueueStep
  <2>1. CASE QueueBlock  BY <2>1 DEF QueueBlock, KernelOK, Signals
  <2>2. CASE QueueSuspend  BY <2>2, SuspendEffect DEF QueueSuspend
  <2>3. CASE QueueHandler  BY <2>3, ReturnEffect DEF QueueHandler, Handler
  <2>4. ASSUME NEW s, QueueDeliver(s) PROVE KernelOK'
    BY <2>4, DeliverEffect, TerminateEffect DEF QueueDeliver
  <2> QED  BY <1>9, <2>1, <2>2, <2>3, <2>4 DEF QueueStep
<1>10. CASE OptimStep \/ OptimCtrlC
  <2>1. CASE OptimBlock \/ OptimCheck \/ OptimRead \/ OptimReset
    BY <2>1 DEF OptimBlock, OptimCheck, OptimRead, OptimReset, KernelOK
  <2>2. CASE OptimTake
    BY <2>2 DEF OptimTake, First, KernelOK, Signals
  <2>3. CASE OptimHandler  BY <2>3, ReturnEffect DEF OptimHandler, Handler
  <2>4. ASSUME NEW s, OptimDeliver(s) PROVE KernelOK'
    BY <2>4, DeliverEffect, TerminateEffect DEF OptimDeliver
  <2>5. CASE OptimCtrlC  BY <2>5, PostedEffect DEF OptimCtrlC, KernelOK, Signals
  <2> QED  BY <1>10, <2>1, <2>2, <2>3, <2>4, <2>5 DEF OptimStep
<1>11. CASE TypeLine  BY <1>11 DEF TypeLine, KernelOK, kernelVars
<1>12. CASE Notify
  <2>1. Announcement \in Signals  BY DEF Announcement, Signals
  <2> QED  BY <1>12, <2>1, PostedEffect DEF Notify, KernelOK
<1> QED
  BY <1>1, <1>2, <1>3, <1>4, <1>5, <1>6, <1>7, <1>8, <1>9, <1>10, <1>11, <1>12
  DEF SignalNext, WaitNext, IOStep
-----------------------------------------------------------------------------
(* The inductive invariants of the programs.                               *)

(* At most one handler is under way: what it returns to has mask m, and    *)
(* its own signal, s, is blocked meanwhile.                                *)
OneHandler(s, m) ==
  /\ Len(frames) <= 1
  /\ frames # <<>> => frames[1].saved = m /\ s \in blocked /\ ~asleep

CommonInv == KernelOK /\ Quiet /\ signo \in {"USR1", "RT"}

(* signal-sync-process: the child's signal is blocked from before there is *)
(* a child until the parent is asleep, and pending as long as it waits.    *)
SyncInv ==
  program = "sync" =>
    /\ OneHandler("USR1", {"USR1"})
    /\ pc \in {"start", "fork", "suspend", "woken", "done"}
    /\ pending["USR1"] \in {0, 1} /\ (pending["USR1"] = 1 => child = "signalled")
    /\ frames # <<>> \/ asleep => pc = "woken"
    /\ asleep => restore = {"USR1"}
    /\ pc = "start" => child = "none" /\ blocked = {}
    /\ pc = "fork" => child = "none" /\ blocked = {"USR1"}
    /\ pc = "suspend" => blocked = {"USR1"}
    /\ pc = "suspend" \/ asleep => /\ child \in {"running", "signalled"}
                                   /\ child = "signalled" => pending["USR1"] = 1
    /\ pc = "woken" /\ ~asleep => child = "signalled" /\ pending["USR1"] = 0
    /\ pc = "done" => child \in {"none", "signalled"} /\ pending["USR1"] = 0

(* signal_pause_bug, while no key was typed: its own signal is gone when   *)
(* it pauses, and it does not come back from there.                        *)
PauseInv ==
  /\ keys \in Nat
  /\ program = "pausebug" /\ keys = 0 =>
       /\ OneHandler("INT", {})
       /\ pc \in {"start", "unblock", "kill", "pause", "woken"}
       /\ pending["QUIT"] = 0 /\ pending["INT"] \in {0, 1}
       /\ pending["INT"] = 1 => pc = "pause" /\ frames = <<>>
       /\ frames # <<>> => pc = "pause"
       /\ pc \in {"kill", "pause"} /\ frames = <<>> => blocked = {}
       /\ asleep <=> pc = "woken"

(* signal_handler_ex: both signals are blocked while a handler runs.       *)
ExInv ==
  program = "ex" =>
    /\ OneHandler("INT", {}) /\ OneHandler("QUIT", {})
    /\ pc \in {"start", "killed"}
    /\ pc = "killed" => frames = <<>> /\ blocked = Signals
    /\ pc = "start" => restore = {} /\ (frames = <<>> => blocked = {})

(* signal_receiver: the signals that were sent and not lost are counted,   *)
(* being handled or pending.                                               *)
Handling(s) == \E i \in 1..Len(frames) : frames[i].sig = s
Accepted == statistics + pending[signo] + IF Handling(signo) THEN 1 ELSE 0
Counted == IF sent < times THEN sent ELSE times

(* Handlers nest, each of another signal: those further out stay blocked.  *)
Nested ==
  /\ \A i \in 1..Len(frames) :
       /\ frames[i].sig \in {signo, "INT"} /\ frames[i].at = "entry"
       /\ frames[i].sig \in blocked
  /\ \A i, j \in 1..Len(frames) :
       i < j => frames[i].sig \in frames[j].saved /\ frames[i].sig # frames[j].sig
  /\ frames # <<>> => frames[1].saved = {}

CountInv ==
  program = "count" =>
    /\ times \in Nat \ {0} /\ sent \in 0..(times + 1)
    /\ statistics \in Nat /\ interrupt \in BOOLEAN /\ ~asleep
    /\ pc \in {"start", "unblock", "loop", "done"}
    /\ Nested
    /\ \A s \in Signals \ {signo, "INT"} : pending[s] = 0
    /\ pc = "unblock" => frames = <<>> /\ blocked = Signals
    /\ pc # "unblock" /\ frames = <<>> => blocked = {}
    /\ Accepted <= Counted
    /\ sent > 0 => Accepted > 0
    /\ signo = "RT" => Accepted >= Counted \/ Accepted >= QueueLimit
    /\ pending["INT"] > 0 \/ Handling("INT") \/ interrupt => sent = times + 1
    /\ pc = "done" => interrupt /\ frames = <<>> /\ \A s \in Signals : pending[s] = 0

(* signal_nonreentrant: a result that is spoilt was spoilt by one run of   *)
(* the handler, which is over or about to be.                              *)
Spoilt == \/ pc = "crypting" /\ disturbed
          \/ pc \in {"unlock", "compare"} /\ buffer # "main"
Unlocking == frames # <<>> /\ frames[1].at = "unlock"

CryptInv ==
  program = "crypt" =>
    /\ OneHandler("INT", {})
    /\ frames = <<>> => blocked = {}
    /\ ~asleep
    /\ mismatch \in Nat /\ handled \in Nat
    /\ mismatch <= handled
    /\ mismatch + (IF Spoilt THEN 1 ELSE 0) <= handled + IF Unlocking THEN 1 ELSE 0

(* The lock: who holds g_mtx, and what the buffer holds while main() does. *)
LockInv ==
  program = "crypt" =>
    /\ syncLock \in BOOLEAN /\ mutex \in {"free", "main", "handler"}
    /\ ~syncLock => mutex = "free"
    /\ syncLock => /\ mutex = "main" <=> pc \in {"crypt", "crypting", "unlock"}
                   /\ mutex = "handler" <=> frames # <<>> /\ frames[1].at # "entry"
                   /\ pc = "crypting" => disturbed = FALSE
                   /\ pc = "unlock" => buffer = "main"

(* The flag: each unread line has its announcement on the way, pending,    *)
(* being handled or in the flag, or that was merged with another one.      *)
Announced ==
  notify + pending["IO"] + Len(frames)
    + IF pc \in {"start", "read"} /\ gotSigio THEN 1 ELSE 0

FlagInv ==
  program = "flag" =>
    /\ OneHandler("IO", {})
    /\ frames = <<>> => blocked = {}
    /\ ~asleep
    /\ pc \in {"start", "read", "reset"}
    /\ pc # "start" => gotSigio
    /\ gotSigio \in BOOLEAN
    /\ notify \in Nat /\ merged \in Nat /\ unread \in Nat
    /\ pending["IO"] \in {0, 1}
    /\ unread = merged + Announced

(* The queue: each unread line has its signal on the way, pending or being *)
(* handled, or its SIGIO found another one, which will end the process.    *)
EachLineHasSignal ==
  unread = merged + notify + pending["IO"] + pending["RT"] + Len(frames)

QueueInv ==
  program = "queue" =>
    /\ pc \in {"start", "suspend", "killed"}
    /\ notify \in Nat /\ merged \in Nat /\ unread \in Nat
    /\ asleep => frames = <<>> /\ blocked = {} /\ pc # "killed"
    /\ pc # "killed" =>
         /\ EachLineHasSignal
         /\ merged > 0 => pending["IO"] > 0
         /\ Len(frames) <= 1 /\ (frames # <<>> => "RT" \in blocked)
         /\ "IO" \notin blocked /\ "IO" \notin restore
         /\ frames # <<>> => "IO" \notin frames[1].saved

(* The queue that SIGIO empties: SIGIO comes only when the queue is full,  *)
(* and nothing but the end takes anything from it.                         *)
OptimInv ==
  program = "optim" =>
    /\ pc \in {"start", "loop", "wait", "read", "reset", "killed", "aborted"}
    /\ entered \in Nat /\ unread \in Nat /\ ctrlC \in Nat /\ notify \in Nat
    /\ unread <= entered /\ gotSigio \in BOOLEAN /\ ~asleep
    /\ pc # "start" => Signals \ {"IO"} \subseteq blocked
    /\ pc \notin {"start", "killed"} =>
         \A i \in 1..Len(frames) : Signals \ {"IO"} \subseteq frames[i].saved
    /\ entered - unread + pending["INT"] + (IF pc = "read" THEN 1 ELSE 0) <= ctrlC
    /\ ~Ended /\ (gotSigio \/ pending["IO"] > 0 \/ frames # <<>> \/ pc = "wait") =>
         pending["RT"] = QueueLimit

(* No other program calls crypt().                                         *)
Uncrypted == program # "crypt" => mismatch = 0 /\ handled = 0

SignalInv ==
  /\ CommonInv
  /\ SyncInv /\ PauseInv /\ ExInv
  /\ CountInv
  /\ CryptInv /\ LockInv /\ Uncrypted
  /\ FlagInv /\ QueueInv /\ OptimInv

LEMMA InitSignal == SignalInit => SignalInv
<1> SUFFICES ASSUME SignalInit PROVE SignalInv
  OBVIOUS
<1>1. /\ pc = "start" /\ asleep = FALSE /\ blocked = {} /\ restore = {} /\ frames = <<>>
      /\ pending = [s \in Signals |-> 0]
  BY DEF SignalInit, KernelInit
<1>2. Len(frames) = 0 /\ frames \in Seq(Frame)  BY <1>1, EmptySeq
<1>3. /\ pending \in [Signals -> Nat] /\ \A s \in Signals : pending[s] = 0
      /\ {"INT", "QUIT", "USR1", "IO", "RT"} = Signals
  BY <1>1 DEF Signals
<1>4. pending["INT"] = 0 /\ pending["QUIT"] = 0 /\ pending["USR1"] = 0 /\ pending["IO"] = 0
  BY <1>3
<1>5. /\ child = "none" /\ keys = 0
      /\ signo \in {"USR1", "RT"} /\ times \in Nat \ {0}
      /\ sent = 0 /\ statistics = 0 /\ interrupt = FALSE
      /\ disturbed = FALSE /\ mismatch = 0 /\ handled = 0
      /\ entered = 0 /\ notify = 0 /\ unread = 0 /\ ctrlC = 0 /\ merged = 0
      /\ gotSigio = FALSE
  <2>1. times \in Nat \ {0}
    BY CountAssumption DEF SignalInit, CountInit
  <2> QED  BY <2>1 DEF SignalInit, WaitInit, CountInit, ReentryInit, IOInit
<1>0. /\ ~interrupt /\ ~disturbed /\ ~gotSigio /\ ~asleep
      /\ {interrupt, disturbed, gotSigio, asleep} \subseteq BOOLEAN
  BY <1>1, <1>5, Zenon
<1>6. CommonInv
  BY <1>1, <1>2, <1>3, <1>5 DEF CommonInv, KernelOK, Quiet, Readers
<1>7. SyncInv  BY <1>1, <1>2, <1>4, <1>5 DEF SyncInv, OneHandler
<1>8. PauseInv  BY <1>1, <1>2, <1>4, <1>5 DEF PauseInv, OneHandler
<1>9. ExInv  BY <1>1, <1>2 DEF ExInv, OneHandler
<1>10. CountInv
  <2>1. \A s : ~Handling(s)  BY <1>2 DEF Handling
  <2>2. pending[signo] = 0  BY <1>3, <1>5
  <2>3. Accepted = 0 /\ Counted = 0  BY <1>5, <2>1, <2>2 DEF Accepted, Counted
  <2>4. Nested  BY <1>1, <1>2 DEF Nested
  <2> QED  BY <1>0, <1>1, <1>3, <1>4, <1>5, <2>1, <2>3, <2>4 DEF CountInv
<1>11. CryptInv
  BY <1>0, <1>1, <1>2, <1>5 DEF CryptInv, OneHandler, Spoilt, Unlocking
<1>12. FlagInv  BY <1>0, <1>1, <1>2, <1>4, <1>5 DEF FlagInv, OneHandler, Announced
<1>13. OptimInv  BY <1>0, <1>1, <1>2, <1>4, <1>5 DEF OptimInv, Ended
<1>14. QueueInv
  <2>1. pending["RT"] = 0 /\ pending["IO"] = 0  BY <1>1 DEF Signals
  <2>2. notify = 0 /\ unread = 0 /\ merged = 0  BY DEF SignalInit, IOInit
  <2>3. EachLineHasSignal  BY <1>2, <2>1, <2>2 DEF EachLineHasSignal
  <2> QED  BY <1>1, <1>2, <2>1, <2>2, <2>3 DEF QueueInv
<1>15. LockInv
  <2>1. syncLock \in BOOLEAN /\ mutex = "free"  BY DEF SignalInit, ReentryInit
  <2> QED  BY <1>1, <2>1 DEF LockInv
<1> QED
  BY <1>5, <1>6, <1>7, <1>8, <1>9, <1>10, <1>11, <1>12, <1>13, <1>14, <1>15
  DEF SignalInv, Uncrypted

-----------------------------------------------------------------------------
(* Each program keeps its invariant.                                       *)

LEMMA SomeFrames ==
  ASSUME NEW f \in Seq(Frame)
  PROVE  /\ Len(f) \in Nat /\ (f = <<>> <=> Len(f) = 0)
         /\ \A i \in 1..Len(f) : f[i] \in Frame
BY EmptySeq, LenProperties, ElementOfSeq

LEMMA HandlerStarts ==
  ASSUME KernelOK, NEW s, NEW m, OneHandler(s, m),
         NEW p, NEW mask, mask \subseteq Signals, Deliver(p, s, mask),
         frames = <<>> => m = IF asleep THEN restore ELSE blocked
  PROVE  /\ OneHandler(s, m)' /\ frames = <<>>
         /\ Len(frames') = 1 /\ frames' # <<>> /\ frames'[1].at = "entry"
<1>1. s \notin blocked  BY DeliverEffect
<1>2. frames = <<>> /\ Len(frames) = 0  BY <1>1, NoFrames DEF OneHandler
<1>3. /\ Len(frames') = 1 /\ frames' # <<>> /\ frames'[1].at = "entry"
      /\ frames'[1].saved = m /\ s \in blocked' /\ ~asleep'
  BY <1>2, DeliverEffect
<1> QED  BY <1>2, <1>3 DEF OneHandler

LEMMA HandlerEnds ==
  ASSUME KernelOK, NEW s, NEW m, OneHandler(s, m), frames # <<>>, Return
  PROVE  /\ OneHandler(s, m)' /\ frames' = <<>> /\ Len(frames') = 0 /\ Len(frames) = 1
         /\ blocked' = m /\ ~asleep
         /\ UNCHANGED <<program, pc, pending, asleep, restore>>
<1>1. Len(frames) = 1  BY NoFrames DEF OneHandler
<1>2. Len(frames') = 0 /\ frames' \in Seq(Frame)  BY <1>1, ReturnEffect DEF KernelOK
<1>3. frames' = <<>>  BY <1>2, SomeFrames
<1> QED  BY <1>1, <1>2, <1>3, ReturnEffect DEF OneHandler

LEMMA SyncKept ==
  ASSUME CommonInv, SyncInv, [SignalNext]_signalVars PROVE SyncInv'
<1> SUFFICES ASSUME program = "sync" PROVE SyncInv'
  BY ProgramSteps DEF SyncInv
<1> USE DEF SyncInv, CommonInv
<1>1. program' = program /\ KernelOK /\ "USR1" \in Signals
  BY ProgramSteps DEF Signals
<1>2. SyncStep \/ UNCHANGED <<kernelVars, waitVars>>
  BY ProgramSteps DEF Quiet, Readers, Notify, signalVars
<1>3. CASE UNCHANGED <<kernelVars, waitVars>>
  BY <1>3 DEF kernelVars, waitVars, OneHandler
<1>4. CASE SyncBlock
  BY <1>1, <1>4, MainEffect DEF SyncBlock, waitVars, OneHandler
<1>5. CASE SyncFork
  BY <1>1, <1>5, MainEffect DEF SyncFork, OneHandler
<1>6. CASE SyncKid
  BY <1>1, <1>6, PostedEffect DEF SyncKid, OneHandler, QueueFull, Realtime
<1>7. CASE SyncSuspend
  BY <1>1, <1>7, MainEffect, SuspendEffect DEF SyncSuspend, waitVars, OneHandler
<1>8. CASE SyncHandler
  BY <1>1, <1>8, HandlerEnds DEF SyncHandler, Handler, waitVars
<1>9. CASE SyncRestore
  BY <1>1, <1>9, MainEffect DEF SyncRestore, waitVars, OneHandler
<1>10. CASE Deliver("sync", "USR1", {}) /\ UNCHANGED waitVars
  <2>1. pending["USR1"] > 0 /\ "USR1" \notin blocked  BY <1>10, DeliverEffect
  <2>2. pc = "woken" /\ asleep  BY <2>1
  <2>3. /\ OneHandler("USR1", {"USR1"})' /\ frames' # <<>>
    <3>1. {} \subseteq Signals  OBVIOUS
    <3>2. OneHandler("USR1", {"USR1"}) /\ restore = {"USR1"}  BY <2>2
    <3> QED  BY <1>1, <1>10, <2>2, <3>1, <3>2, HandlerStarts
  <2>4. /\ pending'["USR1"] = pending["USR1"] - 1 /\ ~asleep' /\ UNCHANGED <<pc, child>>
    BY <1>1, <1>10, DeliverEffect DEF waitVars
  <2> QED  BY <1>1, <2>1, <2>2, <2>3, <2>4
<1> QED  BY <1>2, <1>3, <1>4, <1>5, <1>6, <1>7, <1>8, <1>9, <1>10 DEF SyncStep
LEMMA PauseKept ==
  ASSUME CommonInv, PauseInv, [SignalNext]_signalVars PROVE PauseInv'
<1> USE DEF PauseInv, CommonInv
<1>1. program' = program /\ KernelOK /\ {"INT", "QUIT"} \subseteq Signals
  BY ProgramSteps DEF Signals
<1>2. keys' \in Nat /\ (keys' = 0 => keys = 0)
  <2>1. keys' = keys \/ keys' = keys + 1
    BY ProgramSteps
    DEF signalVars, waitVars, SyncStep, SyncBlock, SyncFork, SyncKid, SyncSuspend, SyncHandler,
        SyncRestore, PauseStep, PauseBlock, PauseUnblock, PauseKill, PausePause,
        PauseReturns, SuspendWaits, IntHandler, IntDeliver, ExStep, ExPause, ExHandler,
        ExDeliver, Key
  <2> QED  BY <2>1
<1> SUFFICES ASSUME program = "pausebug", keys' = 0, keys = 0 PROVE PauseInv'
  BY <1>1, <1>2
<1>3. PauseStep \/ UNCHANGED <<kernelVars, waitVars>>
  <2>1. \A s : ~Key(s)  BY DEF Key
  <2> QED  BY <2>1, ProgramSteps DEF Quiet, Readers, Notify, signalVars
<1>4. CASE UNCHANGED <<kernelVars, waitVars>>
  BY <1>2, <1>4 DEF kernelVars, waitVars, OneHandler
<1>5. CASE PauseBlock
  BY <1>1, <1>2, <1>5, MainEffect DEF PauseBlock, waitVars, OneHandler
<1>6. CASE PauseUnblock
  BY <1>1, <1>2, <1>6, MainEffect DEF PauseUnblock, waitVars, OneHandler
<1>7. CASE PauseKill
  BY <1>1, <1>2, <1>7, MainEffect, PostedEffect
  DEF PauseKill, waitVars, OneHandler, QueueFull, Realtime
<1>8. CASE PausePause
  BY <1>1, <1>2, <1>8, MainEffect, SuspendEffect DEF PausePause, waitVars, OneHandler, KernelOK
<1>9. ASSUME NEW p, IntHandler(p) PROVE PauseInv'
  BY <1>1, <1>2, <1>9, HandlerEnds DEF IntHandler, Handler, waitVars
<1>10. ASSUME NEW p, NEW s \in {"INT", "QUIT"}, IntDeliver(p, s) PROVE PauseInv'
  <2>1. s = "INT" /\ Deliver(p, "INT", {})
    BY <1>1, <1>10, TerminateEffect DEF IntDeliver
  <2>2. pending["INT"] > 0 /\ "INT" \notin blocked  BY <1>1, <2>1, DeliverEffect
  <2>3. pc = "pause" /\ ~asleep /\ frames = <<>> /\ blocked = {}  BY <2>2
  <2>4. OneHandler("INT", {})' /\ frames' # <<>>
    BY <1>1, <2>1, <2>3, HandlerStarts
  <2>5. /\ pending'["INT"] = pending["INT"] - 1 /\ pending'["QUIT"] = pending["QUIT"]
        /\ ~asleep' /\ UNCHANGED pc
    BY <1>1, <2>1, DeliverEffect
  <2> QED  BY <1>1, <1>2, <2>2, <2>3, <2>4, <2>5
<1>11. ~PauseReturns  BY MainEffect DEF PauseReturns
<1>12. ~SuspendWaits  BY DEF SuspendWaits, Main
<1> QED
  BY <1>3, <1>4, <1>5, <1>6, <1>7, <1>8, <1>9, <1>10, <1>11, <1>12 DEF PauseStep

LEMMA ExKept ==
  ASSUME CommonInv, ExInv, [SignalNext]_signalVars PROVE ExInv'
<1> SUFFICES ASSUME program = "ex" PROVE ExInv'
  BY ProgramSteps DEF ExInv
<1> USE DEF ExInv, CommonInv
<1>1. program' = program /\ KernelOK /\ {"INT", "QUIT"} \subseteq Signals
  BY ProgramSteps DEF Signals
<1>2. ExStep \/ UNCHANGED <<pc, blocked, frames, asleep, restore>>
  BY ProgramSteps DEF Quiet, Readers, Notify, signalVars, kernelVars, Key
<1>3. CASE UNCHANGED <<pc, blocked, frames, asleep, restore>>
  BY <1>1, <1>3 DEF OneHandler
<1>4. CASE ExPause
  BY <1>1, <1>4, MainEffect, SuspendEffect DEF ExPause, OneHandler, KernelOK
<1>5. CASE ExHandler
  <2>1. Return /\ frames # <<>>  BY <1>5 DEF ExHandler, Handler
  <2>2. /\ OneHandler("INT", {})' /\ frames' = <<>> /\ blocked' = {} /\ ~asleep
        /\ UNCHANGED <<pc, asleep, restore>>
    BY <1>1, <2>1, HandlerEnds
  <2>3. OneHandler("QUIT", {})'  BY <1>1, <2>1, HandlerEnds
  <2>4. pc = "start"  BY <2>1
  <2> QED  BY <1>1, <2>2, <2>3, <2>4
<1>6. ASSUME NEW s \in {"INT", "QUIT"}, ExDeliver(s) PROVE ExInv'
  <2>1. s \notin blocked /\ s \in Signals
    BY <1>1, <1>6 DEF ExDeliver, Deliver, Terminate, Deliverable
  <2>2. frames = <<>> /\ pc = "start" /\ blocked = {} /\ restore = {}
    BY <2>1 DEF OneHandler
  <2>3. CASE Terminate("ex", s)
    BY <1>1, <2>2, <2>3, TerminateEffect DEF OneHandler
  <2>4. CASE Deliver("ex", s, ExMask(s))
    <3>1. ExMask(s) \subseteq Signals /\ {"INT", "QUIT"} \subseteq ExMask(s) \cup {s}
      BY <1>1 DEF ExMask
    <3>2. OneHandler(s, {})' /\ frames' # <<>>
      BY <1>1, <2>2, <2>4, <3>1, HandlerStarts
    <3>3. blocked' = blocked \cup ExMask(s) \cup {s} /\ restore' = {} /\ UNCHANGED pc
      BY <2>4 DEF Deliver
    <3>4. "INT" \in blocked' /\ "QUIT" \in blocked'  BY <3>1, <3>3
    <3> QED  BY <1>1, <2>2, <3>2, <3>3, <3>4 DEF OneHandler
  <2> QED  BY <1>6, <2>3, <2>4 DEF ExDeliver
<1> QED  BY <1>2, <1>3, <1>4, <1>5, <1>6 DEF ExStep

LEMMA CryptKept ==
  ASSUME CommonInv, CryptInv, [SignalNext]_signalVars PROVE CryptInv'
<1> SUFFICES ASSUME program = "crypt" PROVE CryptInv'
  BY ProgramSteps DEF CryptInv
<1> USE DEF CryptInv, CommonInv
<1>1. program' = program /\ KernelOK /\ "INT" \in Signals
  BY ProgramSteps DEF Signals
<1>2. CryptStep \/ UNCHANGED <<pc, blocked, frames, asleep, buffer, disturbed, mismatch, handled>>
  BY ProgramSteps DEF Quiet, Readers, Notify, signalVars, kernelVars, cryptVars, CryptKey
<1>3. CASE UNCHANGED <<pc, blocked, frames, asleep, buffer, disturbed, mismatch, handled>>
  BY <1>1, <1>3 DEF OneHandler, Spoilt, Unlocking
<1>4. CASE MainLock \/ MainCryptBegins \/ MainCryptEnds \/ MainUnlock \/ MainCompare
  <2>1. UNCHANGED <<blocked, frames, asleep, handled>> /\ frames = <<>>
    BY <1>1, <1>4, MainEffect DEF MainLock, MainCryptBegins, MainCryptEnds, MainUnlock, MainCompare
  <2>2. OneHandler("INT", {})' /\ ~Unlocking /\ ~Unlocking'
    BY <2>1 DEF OneHandler, Unlocking
  <2>3. CASE MainLock
    BY <1>1, <2>1, <2>2, <2>3, MainEffect DEF MainLock, Spoilt
  <2>4. CASE MainCryptBegins
    <3>1. pc = "crypt" /\ pc' = "crypting" /\ disturbed' = FALSE /\ UNCHANGED mismatch
      BY <2>4 DEF MainCryptBegins, Main
    <3>2. ~Spoilt'  BY <3>1 DEF Spoilt
    <3> QED  BY <1>1, <2>1, <2>2, <3>1, <3>2
  <2>5. CASE MainCryptEnds
    BY <1>1, <2>1, <2>2, <2>5, MainEffect DEF MainCryptEnds, Spoilt
  <2>6. CASE MainUnlock
    BY <1>1, <2>1, <2>2, <2>6, MainEffect DEF MainUnlock, Spoilt
  <2>7. CASE MainCompare
    BY <1>1, <2>1, <2>2, <2>7, MainEffect DEF MainCompare, Spoilt
  <2> QED  BY <1>4, <2>3, <2>4, <2>5, <2>6, <2>7
<1>5. CASE CryptDeliver
  <2>1. Deliver("crypt", "INT", {}) /\ UNCHANGED <<buffer, disturbed, mismatch, handled>>
    BY <1>5 DEF CryptDeliver, cryptVars
  <2>2. OneHandler("INT", {})' /\ frames = <<>> /\ frames' # <<>> /\ frames'[1].at = "entry"
    <3>1. {} \subseteq Signals /\ (frames = <<>> => {} = IF asleep THEN restore ELSE blocked)
      OBVIOUS
    <3> QED  BY <1>1, <2>1, <3>1, HandlerStarts
  <2>3. ~asleep' /\ UNCHANGED pc  BY <1>1, <2>1, DeliverEffect
  <2> QED  BY <1>1, <2>1, <2>2, <2>3 DEF Spoilt, Unlocking
<1>6. ASSUME HandlerLock \/ HandlerCrypt PROVE CryptInv'
  <2>1. /\ frames # <<>> /\ Len(frames) = 1 /\ UNCHANGED <<pc, blocked, asleep, mismatch, handled>>
        /\ frames[1].at # "unlock"
    BY <1>1, <1>6, NoFrames DEF HandlerLock, HandlerCrypt, Handler, OneHandler
  <2>2. PICK at \in {"crypt", "unlock"} : Goes(at)
    BY <1>6 DEF HandlerLock, HandlerCrypt
  <2>3. /\ Len(frames') = 1 /\ frames' \in Seq(Frame)
        /\ frames'[1].saved = frames[1].saved /\ frames'[1].at = at
    BY <1>1, <2>1, <2>2, GoesEffect
  <2>4. frames' # <<>>
    <3>1. frames' = <<>> <=> Len(frames') = 0  BY <2>3, SomeFrames
    <3> QED  BY <2>3, <3>1
  <2>5. OneHandler("INT", {})'  BY <2>1, <2>3, <2>4 DEF OneHandler
  <2>6. CASE HandlerLock
    BY <1>1, <2>1, <2>4, <2>5, <2>6 DEF HandlerLock, Spoilt, Unlocking
  <2>7. CASE HandlerCrypt
    <3>1. at = "unlock" /\ disturbed' = TRUE
      BY <1>1, <2>1, <2>2, <2>3, <2>7, GoesEffect DEF HandlerCrypt
    <3>2. ~Unlocking /\ Unlocking'  BY <2>1, <2>3, <2>4, <3>1 DEF Unlocking
    <3> QED  BY <1>1, <2>1, <2>4, <2>5, <3>1, <3>2
  <2> QED  BY <1>6, <2>6, <2>7
<1>7. CASE HandlerUnlock
  <2>1. /\ frames # <<>> /\ Return /\ handled' = handled + 1
        /\ Last(frames).at = "unlock" /\ UNCHANGED <<buffer, disturbed, mismatch>>
    BY <1>7 DEF HandlerUnlock, Handler
  <2>2. /\ OneHandler("INT", {})' /\ frames' = <<>> /\ Len(frames) = 1 /\ blocked' = {}
        /\ UNCHANGED <<pc, asleep>>
    BY <1>1, <2>1, HandlerEnds
  <2>3. Unlocking /\ ~Unlocking'  BY <2>1, <2>2 DEF Unlocking, Last
  <2> QED  BY <1>1, <2>1, <2>2, <2>3 DEF Spoilt
<1> QED  BY <1>2, <1>3, <1>4, <1>5, <1>6, <1>7 DEF CryptStep
(* The handler is past its lock only while main() is not, and main()      *)
(* compares after it has given its own back.                               *)
LEMMA LockKept ==
  ASSUME CommonInv, CryptInv, LockInv, [SignalNext]_signalVars PROVE LockInv'
<1> SUFFICES ASSUME program = "crypt" PROVE LockInv'
  BY ProgramSteps DEF LockInv
<1> USE DEF LockInv
<1>1. /\ program' = program /\ KernelOK /\ "INT" \in Signals
      /\ OneHandler("INT", {}) /\ (frames = <<>> => blocked = {}) /\ ~asleep
  BY ProgramSteps DEF Signals, CryptInv, CommonInv
<1>2. CryptStep \/ UNCHANGED <<pc, frames, syncLock, mutex, buffer, disturbed>>
  BY ProgramSteps DEF CommonInv, Quiet, Readers, Notify, signalVars, kernelVars, cryptVars, CryptKey
<1>3. CASE UNCHANGED <<pc, frames, syncLock, mutex, buffer, disturbed>>
  BY <1>1, <1>3
<1>4. CASE MainLock \/ MainCryptBegins \/ MainCryptEnds \/ MainUnlock \/ MainCompare
  <2>1. frames = <<>> /\ frames' = <<>> /\ syncLock' = syncLock
    BY <1>1, <1>4, MainEffect
    DEF MainLock, MainCryptBegins, MainCryptEnds, MainUnlock, MainCompare
  <2>2. CASE MainLock
    BY <1>1, <2>1, <2>2, MainEffect DEF MainLock, Take
  <2>3. CASE MainCryptBegins
    BY <1>1, <2>1, <2>3, MainEffect DEF MainCryptBegins
  <2>4. CASE MainCryptEnds
    BY <1>1, <2>1, <2>4, MainEffect DEF MainCryptEnds
  <2>5. CASE MainUnlock
    BY <1>1, <2>1, <2>5, MainEffect DEF MainUnlock, Release
  <2>6. CASE MainCompare
    BY <1>1, <2>1, <2>6, MainEffect DEF MainCompare
  <2> QED  BY <1>4, <2>2, <2>3, <2>4, <2>5, <2>6
<1>5. CASE CryptDeliver
  <2>1. Deliver("crypt", "INT", {}) /\ UNCHANGED <<syncLock, mutex, buffer, disturbed>>
    BY <1>5 DEF CryptDeliver, cryptVars
  <2>2. frames = <<>> /\ frames'[1].at = "entry"
    <3>1. {} \subseteq Signals /\ (frames = <<>> => {} = IF asleep THEN restore ELSE blocked)
      BY <1>1
    <3> QED  BY <1>1, <2>1, <3>1, HandlerStarts
  <2>3. UNCHANGED pc  BY <1>1, <2>1, DeliverEffect
  <2> QED  BY <1>1, <2>1, <2>2, <2>3
<1>6. ASSUME HandlerLock \/ HandlerCrypt PROVE LockInv'
  <2>1. frames # <<>> /\ Len(frames) = 1 /\ UNCHANGED <<pc, syncLock>>
    BY <1>1, <1>6, NoFrames DEF HandlerLock, HandlerCrypt, Handler, OneHandler
  <2>2. PICK at \in {"crypt", "unlock"} : Goes(at)
    BY <1>6 DEF HandlerLock, HandlerCrypt
  <2>3. frames' # <<>> /\ frames'[1].at # "entry"
    <3>1. Len(frames') = 1 /\ frames' \in Seq(Frame) /\ frames'[1].at = at
      BY <1>1, <2>1, <2>2, GoesEffect
    <3>2. frames' = <<>> <=> Len(frames') = 0  BY <3>1, SomeFrames
    <3> QED  BY <3>1, <3>2
  <2>4. CASE HandlerLock
    <3>1. /\ frames[1].at = "entry" /\ UNCHANGED <<buffer, disturbed>>
          /\ IF syncLock THEN mutex = "free" /\ mutex' = "handler" ELSE UNCHANGED mutex
      BY <2>1, <2>4 DEF HandlerLock, Handler, Last, Take
    <3> QED  BY <1>1, <2>1, <2>3, <3>1
  <2>5. CASE HandlerCrypt
    <3>1. frames[1].at = "crypt" /\ UNCHANGED mutex
      BY <2>1, <2>5 DEF HandlerCrypt, Handler, Last
    <3>2. syncLock => mutex = "handler" /\ pc \notin {"crypt", "crypting", "unlock"}
      BY <2>1, <3>1
    <3> QED  BY <1>1, <2>1, <2>3, <3>1, <3>2
  <2> QED  BY <1>6, <2>4, <2>5
<1>7. CASE HandlerUnlock
  <2>1. /\ frames # <<>> /\ Return /\ Last(frames).at = "unlock"
        /\ mutex' = "free" /\ UNCHANGED <<syncLock, buffer, disturbed>>
    BY <1>7 DEF HandlerUnlock, Handler, Release
  <2>2. frames' = <<>> /\ Len(frames) = 1 /\ UNCHANGED pc
    BY <1>1, <2>1, HandlerEnds
  <2>3. frames[1].at = "unlock"  BY <2>1, <2>2 DEF Last
  <2>4. syncLock => mutex = "handler"  BY <2>1, <2>3
  <2> QED  BY <1>1, <2>1, <2>2, <2>4
<1> QED  BY <1>2, <1>3, <1>4, <1>5, <1>6, <1>7 DEF CryptStep

LEMMA FlagKept ==
  ASSUME CommonInv, FlagInv, [SignalNext]_signalVars PROVE FlagInv'
<1> SUFFICES ASSUME program = "flag" PROVE FlagInv'
  BY ProgramSteps DEF FlagInv
<1> USE DEF FlagInv, CommonInv
<1>1. program' = program /\ KernelOK /\ "IO" \in Signals /\ Len(frames) \in Nat
  BY ProgramSteps, NoFrames DEF Signals
<1>2. FlagStep \/ TypeLine \/ Notify \/ UNCHANGED <<kernelVars, ioVars>>
  BY ProgramSteps DEF signalVars
<1>3. CASE UNCHANGED <<kernelVars, ioVars>>
  BY <1>1, <1>3 DEF kernelVars, ioVars, lineVars, OneHandler, Announced
<1>4. CASE TypeLine
  <2>1. /\ notify' = notify + 1 /\ unread' = unread + 1
        /\ UNCHANGED <<pc, pending, blocked, frames, asleep, gotSigio, merged>>
    BY <1>4 DEF TypeLine, kernelVars
  <2>2. OneHandler("IO", {})'  BY <2>1 DEF OneHandler
  <2>3. notify \in Nat /\ pending["IO"] \in Nat /\ unread \in Nat /\ merged \in Nat
    BY <1>1
  <2> HIDE DEF FlagInv, CommonInv
  <2>4. Announced' = Announced + 1 /\ Announced \in Nat
    <3> DEFINE flagged == IF pc \in {"start", "read"} /\ gotSigio THEN 1 ELSE 0
               rest == pending["IO"] + Len(frames)
    <3>1. rest \in Nat /\ rest' = rest  BY <1>1, <2>1, <2>3
    <3>2. flagged \in Nat /\ flagged' = flagged  BY <2>1
    <3>3. Announced = notify + rest + flagged /\ Announced' = notify' + rest' + flagged'
      BY <1>1, <2>1, <2>3 DEF Announced
    <3> HIDE DEF flagged, rest
    <3> QED  BY <2>1, <2>3, <3>1, <3>2, <3>3
  <2> QED  BY <1>1, <2>1, <2>2, <2>3, <2>4 DEF FlagInv
<1>5. CASE Notify
  <2>1. Announcement = "IO"  BY DEF Announcement
  <2>2. /\ notify > 0 /\ notify' = notify - 1
        /\ UNCHANGED <<pc, blocked, frames, asleep, unread, gotSigio>>
        /\ pending'["IO"] = IF pending["IO"] = 1 THEN 1 ELSE pending["IO"] + 1
        /\ merged' = merged + IF pending["IO"] = 1 THEN 1 ELSE 0
    BY <1>1, <1>5, <2>1, PostedEffect DEF Notify, QueueFull, Realtime
  <2>3. OneHandler("IO", {})'  BY <2>2 DEF OneHandler
  <2>4. pending["IO"] \in {0, 1} /\ notify \in Nat /\ merged \in Nat  BY <1>1
  <2> HIDE DEF FlagInv, CommonInv
  <2>5. /\ notify' \in Nat /\ merged' \in Nat /\ pending'["IO"] \in {0, 1}
        /\ merged' + Announced' = merged + Announced
    <3>1. CASE pending["IO"] = 0  BY <1>1, <2>2, <2>4, <3>1 DEF Announced
    <3>2. CASE pending["IO"] = 1  BY <1>1, <2>2, <2>4, <3>2 DEF Announced
    <3> QED  BY <2>4, <3>1, <3>2
  <2> QED  BY <1>1, <2>2, <2>3, <2>5 DEF FlagInv
<1>6. CASE FlagDeliver
  <2>1. Deliver("flag", "IO", {}) /\ UNCHANGED <<notify, unread, gotSigio, merged>>
    BY <1>6 DEF FlagDeliver, ioVars, lineVars
  <2>2. /\ OneHandler("IO", {})' /\ frames = <<>> /\ Len(frames') = 1 /\ frames' # <<>>
    <3>1. {} \subseteq Signals /\ (frames = <<>> => {} = IF asleep THEN restore ELSE blocked)
      OBVIOUS
    <3> QED  BY <1>1, <2>1, <3>1, HandlerStarts
  <2>3. /\ pending["IO"] > 0 /\ pending'["IO"] = pending["IO"] - 1
        /\ ~asleep' /\ UNCHANGED pc
    BY <1>1, <2>1, DeliverEffect
  <2>4. Len(frames) = 0  BY <1>1, <2>2, NoFrames
  <2>5. Announced' = Announced  BY <1>1, <2>1, <2>2, <2>3, <2>4 DEF Announced
  <2> QED  BY <1>1, <2>1, <2>2, <2>3, <2>5
<1>7. CASE FlagHandler
  <2>1. /\ frames # <<>> /\ Return /\ UNCHANGED <<notify, unread>>
        /\ gotSigio' = TRUE /\ merged' = merged + IF gotSigio THEN 1 ELSE 0
    BY <1>7 DEF FlagHandler, Handler
  <2>2. /\ OneHandler("IO", {})' /\ frames' = <<>> /\ Len(frames) = 1 /\ Len(frames') = 0
        /\ blocked' = {} /\ ~asleep /\ UNCHANGED <<pc, pending, asleep>>
    BY <1>1, <2>1, HandlerEnds
  <2>3. gotSigio' /\ gotSigio' \in BOOLEAN  BY <2>1, Zenon
  <2>4. merged' + Announced' = merged + Announced
    <3>1. CASE gotSigio  BY <1>1, <2>1, <2>2, <2>3, <3>1 DEF Announced
    <3>2. CASE ~gotSigio
      <4>1. pc = "start"  BY <3>2
      <4> QED  BY <1>1, <2>1, <2>2, <2>3, <3>2, <4>1 DEF Announced
    <3> QED  BY <3>1, <3>2
  <2>5. merged' \in Nat  BY <2>1
  <2> QED  BY <1>1, <2>1, <2>2, <2>3, <2>4, <2>5
<1>8. CASE FlagCheck \/ FlagRead \/ FlagReset
  <2>1. UNCHANGED <<pending, blocked, frames, asleep, notify, merged>> /\ frames = <<>>
    BY <1>1, <1>8, MainEffect DEF FlagCheck, FlagRead, FlagReset, ioVars, lineVars
  <2>2. OneHandler("IO", {})'  BY <2>1 DEF OneHandler
  <2>3. CASE FlagCheck
    <3>1. pc = "start" /\ pc' = "read" /\ gotSigio /\ UNCHANGED <<gotSigio, unread>>
      BY <2>3 DEF FlagCheck, Main, ioVars, lineVars
    <3> QED  BY <1>1, <2>1, <2>2, <3>1 DEF Announced
  <2>4. CASE FlagRead
    <3>1. pc = "read" /\ pc' = "reset" /\ gotSigio /\ UNCHANGED gotSigio /\ ReadLine
      BY <2>4 DEF FlagRead, Main
    <3>2. unread > 0  BY <1>1, <3>1 DEF Announced
    <3>3. unread' = unread - 1  BY <3>1, <3>2 DEF ReadLine
    <3> QED  BY <1>1, <2>1, <2>2, <3>1, <3>2, <3>3 DEF Announced
  <2>5. CASE FlagReset
    <3>1. pc = "reset" /\ pc' = "start" /\ gotSigio' = FALSE /\ UNCHANGED unread
      BY <2>5 DEF FlagReset, Main
    <3>2. ~gotSigio' /\ gotSigio' \in BOOLEAN  BY <3>1, Zenon
    <3> QED  BY <1>1, <2>1, <2>2, <3>1, <3>2 DEF Announced
  <2> QED  BY <1>8, <2>3, <2>4, <2>5
<1> QED  BY <1>2, <1>3, <1>4, <1>5, <1>6, <1>7, <1>8 DEF FlagStep

(* A line read is one whose signal is being handled, so there is one.      *)
LEMMA QueueKept ==
  ASSUME CommonInv, QueueInv, [SignalNext]_signalVars PROVE QueueInv'
<1> SUFFICES ASSUME program = "queue" PROVE QueueInv'
  BY ProgramSteps DEF QueueInv
<1>1. /\ program' = program /\ KernelOK /\ {"IO", "RT"} \subseteq Signals
      /\ Len(frames) \in Nat /\ (frames = <<>> <=> Len(frames) = 0)
      /\ pending["IO"] \in Nat /\ pending["RT"] \in Nat
  BY ProgramSteps, NoFrames DEF CommonInv, KernelOK, Signals
<1>2. /\ pc \in {"start", "suspend", "killed"}
      /\ notify \in Nat /\ merged \in Nat /\ unread \in Nat
      /\ asleep => frames = <<>> /\ blocked = {} /\ pc # "killed"
      /\ pc # "killed" =>
           /\ EachLineHasSignal
           /\ merged > 0 => pending["IO"] > 0
           /\ Len(frames) <= 1 /\ (frames # <<>> => "RT" \in blocked)
           /\ "IO" \notin blocked /\ "IO" \notin restore
           /\ frames # <<>> => "IO" \notin frames[1].saved
  BY DEF QueueInv
<1>3. QueueStep \/ TypeLine \/ Notify \/ UNCHANGED <<kernelVars, ioVars>>
  BY ProgramSteps DEF signalVars
<1>4. CASE UNCHANGED <<kernelVars, ioVars>>
  BY <1>1, <1>2, <1>4 DEF kernelVars, ioVars, lineVars, QueueInv, EachLineHasSignal
<1>5. CASE TypeLine
  <2>1. /\ pc # "killed" /\ notify' = notify + 1 /\ unread' = unread + 1
        /\ UNCHANGED <<pc, pending, blocked, frames, asleep, restore, merged>>
    BY <1>5 DEF TypeLine, Ended, kernelVars
  <2>2. EachLineHasSignal'
    <3> DEFINE rest == pending["IO"] + pending["RT"] + Len(frames)
    <3>1. rest \in Nat /\ rest' = rest  BY <1>1, <2>1
    <3>2. /\ unread = merged + notify + rest
          /\ EachLineHasSignal' <=> unread' = merged' + notify' + rest'
      BY <1>1, <1>2, <2>1 DEF EachLineHasSignal
    <3> HIDE DEF rest
    <3> QED  BY <1>2, <2>1, <3>1, <3>2
  <2> QED  BY <1>1, <1>2, <2>1, <2>2 DEF QueueInv
<1>6. CASE Notify
  <2>1. /\ notify > 0 /\ notify' = notify - 1 /\ pending' = Posted(Announcement)
        /\ UNCHANGED <<pc, blocked, frames, asleep, restore, unread>>
        /\ merged' = merged + IF QueueFull(Announcement) THEN 1 ELSE 0
    BY <1>6 DEF Notify
  <2>2. CASE QueueFull("RT")
    <3>1. Announcement = "IO"  BY <2>2 DEF Announcement
    <3>2. /\ pending'["RT"] = pending["RT"]
          /\ pending'["IO"] = IF pending["IO"] = 1 THEN 1 ELSE pending["IO"] + 1
          /\ merged' = merged + IF pending["IO"] = 1 THEN 1 ELSE 0
      BY <1>1, <2>1, <3>1, PostedEffect DEF QueueFull, Realtime
    <3>3. merged' \in Nat /\ pending'["IO"] > 0
          /\ (EachLineHasSignal => EachLineHasSignal')
      <4> DEFINE p == pending["IO"]
                 rest == pending["RT"] + Len(frames)
      <4>1. p \in Nat /\ rest \in Nat /\ rest' = rest  BY <1>1, <2>1, <3>2
      <4>2. /\ EachLineHasSignal <=> unread = merged + notify + p + rest
            /\ EachLineHasSignal' <=> unread' = merged' + notify' + p' + rest'
        BY <1>1, <1>2, <2>1, <3>2 DEF EachLineHasSignal
      <4>3. /\ p' = IF p = 1 THEN 1 ELSE p + 1
            /\ merged' = merged + IF p = 1 THEN 1 ELSE 0
            /\ unread' = unread /\ notify' = notify - 1
            /\ merged \in Nat /\ notify \in Nat /\ notify > 0
        BY <1>2, <2>1, <3>2
      <4>4. merged' \in Nat /\ pending'["IO"] > 0
        <5> HIDE DEF rest
        <5> QED  BY <4>1, <4>3
      <4> HIDE DEF p, rest
      <4>5. CASE p = 1  BY <4>1, <4>2, <4>3, <4>4, <4>5
      <4>6. CASE p # 1  BY <4>1, <4>2, <4>3, <4>4, <4>6
      <4> QED  BY <4>5, <4>6
    <3> QED  BY <1>1, <1>2, <2>1, <3>3 DEF QueueInv
  <2>3. CASE ~QueueFull("RT")
    <3>1. Announcement = "RT"  BY <2>3 DEF Announcement
    <3>2. /\ pending'["IO"] = pending["IO"] /\ pending'["RT"] = pending["RT"] + 1
          /\ merged' = merged
      BY <1>1, <1>2, <2>1, <2>3, <3>1, PostedEffect
    <3>3. EachLineHasSignal => EachLineHasSignal'
      <4>1. notify' = notify - 1 /\ Len(frames') = Len(frames) /\ unread' = unread
        BY <2>1
      <4> QED  BY <1>1, <1>2, <3>2, <4>1 DEF EachLineHasSignal
    <3> QED  BY <1>1, <1>2, <2>1, <3>2, <3>3 DEF QueueInv
  <2> QED  BY <2>2, <2>3
<1>7. CASE QueueBlock
  <2>1. /\ pc = "start" /\ pc' = "suspend" /\ frames = <<>> /\ ~asleep
        /\ blocked' = blocked \cup {"RT"}
        /\ UNCHANGED <<pending, frames, asleep, restore, notify, unread, merged>>
    BY <1>1, <1>7, MainEffect DEF QueueBlock, ioVars, lineVars
  <2>2. EachLineHasSignal'  BY <1>2, <2>1 DEF EachLineHasSignal
  <2> QED  BY <1>1, <1>2, <2>1, <2>2 DEF QueueInv
<1>8. CASE QueueSuspend
  <2>1. /\ pc = "suspend" /\ frames = <<>> /\ restore' = blocked /\ blocked' = {}
        /\ UNCHANGED <<pc, pending, frames, notify, unread, merged>>
    BY <1>1, <1>8, MainEffect, SuspendEffect DEF QueueSuspend, ioVars, lineVars
  <2>2. EachLineHasSignal'  BY <1>2, <2>1 DEF EachLineHasSignal
  <2> QED  BY <1>1, <1>2, <2>1, <2>2 DEF QueueInv
<1>9. CASE QueueHandler
  <2>1. /\ pc # "killed" /\ frames # <<>> /\ Return /\ ReadLine
        /\ UNCHANGED <<notify, merged>>
    BY <1>9 DEF QueueHandler, Handler
  <2>2. Len(frames) = 1
    <3> DEFINE n == Len(frames)
    <3>1. n \in Nat /\ n # 0 /\ n <= 1  BY <1>1, <1>2, <2>1
    <3> HIDE DEF n
    <3>2. n = 1  BY <3>1
    <3> QED  BY <3>2 DEF n
  <2>3. /\ Len(frames') = 0 /\ frames' \in Seq(Frame) /\ blocked' = frames[1].saved
        /\ UNCHANGED <<pc, pending, asleep, restore>>
    BY <1>1, <2>1, <2>2, ReturnEffect DEF KernelOK
  <2>4. frames' = <<>> /\ ~asleep  BY <1>2, <2>1, <2>3, SomeFrames
  <2>5. unread > 0 /\ unread' = unread - 1
    BY <1>1, <1>2, <2>1, <2>2 DEF EachLineHasSignal, ReadLine
  <2>6. EachLineHasSignal'  BY <1>1, <1>2, <2>1, <2>2, <2>3, <2>5 DEF EachLineHasSignal
  <2> QED  BY <1>1, <1>2, <2>1, <2>3, <2>4, <2>5, <2>6 DEF QueueInv
<1>10. ASSUME NEW s \in {"IO", "RT"}, QueueDeliver(s) PROVE QueueInv'
  <2>1. UNCHANGED <<notify, unread, merged>>
    BY <1>10 DEF QueueDeliver, ioVars, lineVars
  <2>2. CASE s = "RT"
    <3>1. Deliver("queue", "RT", {})  BY <1>10, <2>2 DEF QueueDeliver
    <3>2. /\ "RT" \notin blocked /\ pending["RT"] > 0
          /\ pending'["RT"] = pending["RT"] - 1 /\ pending'["IO"] = pending["IO"]
          /\ Len(frames') = Len(frames) + 1 /\ frames' # <<>>
          /\ frames'[Len(frames) + 1].saved = IF asleep THEN restore ELSE blocked
          /\ blocked' = blocked \cup {} \cup {"RT"}
          /\ ~asleep' /\ UNCHANGED pc
      BY <1>1, <3>1, DeliverEffect
    <3>3. restore' = {}  BY <3>1 DEF Deliver
    <3>4. pc # "killed" => Len(frames) = 0 /\ "IO" \notin frames'[1].saved
      BY <1>1, <1>2, <3>2
    <3>5. EachLineHasSignal => EachLineHasSignal'
      BY <1>1, <1>2, <2>1, <3>2 DEF EachLineHasSignal
    <3> QED  BY <1>1, <1>2, <2>1, <3>2, <3>3, <3>4, <3>5 DEF QueueInv
  <2>3. CASE s = "IO"
    <3>1. Terminate("queue", "IO")  BY <1>10, <2>3 DEF QueueDeliver
    <3>2. pc' = "killed" /\ ~asleep'  BY <1>1, <3>1, TerminateEffect
    <3> QED  BY <1>1, <1>2, <2>1, <3>2 DEF QueueInv
  <2> QED  BY <2>2, <2>3
<1> QED  BY <1>3, <1>4, <1>5, <1>6, <1>7, <1>8, <1>9, <1>10 DEF QueueStep

LEMMA OptimKept ==
  ASSUME CommonInv, OptimInv, [SignalNext]_signalVars PROVE OptimInv'
<1> SUFFICES ASSUME program = "optim" PROVE OptimInv'
  BY ProgramSteps DEF OptimInv
<1> USE DEF OptimInv, CommonInv
<1>1. /\ program' = program /\ KernelOK /\ {"INT", "IO", "RT"} \subseteq Signals
      /\ Len(frames) \in Nat /\ QueueLimit \in Nat \ {0}
      /\ pending["INT"] \in Nat /\ pending["IO"] \in Nat /\ pending["RT"] \in Nat
  BY ProgramSteps, NoFrames, SignalAssumption DEF Signals, KernelOK
<1>2. OptimStep \/ OptimCtrlC \/ TypeLine \/ Notify \/ UNCHANGED <<kernelVars, ioVars>>
  BY ProgramSteps DEF signalVars
<1>3. CASE UNCHANGED <<kernelVars, ioVars>>
  BY <1>1, <1>3 DEF kernelVars, ioVars, lineVars, Ended
<1>4. CASE TypeLine
  <2>1. /\ entered' = entered + 1 /\ unread' = unread + 1 /\ notify' = notify + 1
        /\ UNCHANGED <<pc, pending, blocked, frames, asleep, gotSigio, ctrlC>>
    BY <1>4 DEF TypeLine, kernelVars
  <2>2. /\ entered' \in Nat /\ unread' \in Nat /\ notify' \in Nat /\ unread' <= entered'
        /\ entered' - unread' = entered - unread
    BY <2>1, SMTT(20)
  <2> QED  BY <1>1, <2>1, <2>2 DEF Ended
<1>5. CASE Notify
  <2>1. /\ notify > 0 /\ notify' = notify - 1 /\ pending' = Posted(Announcement)
        /\ UNCHANGED <<pc, blocked, frames, asleep, entered, unread, gotSigio, ctrlC>>
    BY <1>5 DEF Notify
  <2>2. CASE pending["RT"] = QueueLimit
    <3>1. Announcement = "IO"
      BY <2>2 DEF Announcement, QueueFull, Realtime
    <3>2. pending'["RT"] = pending["RT"] /\ pending'["INT"] = pending["INT"]
      BY <1>1, <2>1, <3>1, PostedEffect
    <3> QED  BY <1>1, <2>1, <2>2, <3>2 DEF Ended
  <2>3. CASE pending["RT"] # QueueLimit
    <3>1. Announcement = "RT"
      BY <2>3 DEF Announcement, QueueFull, Realtime
    <3>2. pending'["IO"] = pending["IO"] /\ pending'["INT"] = pending["INT"]
      BY <1>1, <2>1, <3>1, PostedEffect
    <3>3. entered' - unread' + pending'["INT"] + (IF pc' = "read" THEN 1 ELSE 0) <= ctrlC'
      BY <1>1, <2>1, <3>2
    <3>4. ~Ended' => ~(gotSigio' \/ pending'["IO"] > 0 \/ frames' # <<>> \/ pc' = "wait")
      BY <2>1, <2>3, <3>2 DEF Ended
    <3> QED  BY <1>1, <2>1, <3>3, <3>4, SMTT(20)
  <2> QED  BY <2>2, <2>3
<1>6. CASE OptimCtrlC
  <2>1. /\ ctrlC' = ctrlC + 1 /\ pending' = Posted("INT")
        /\ UNCHANGED <<pc, blocked, frames, asleep, entered, notify, unread, gotSigio>>
    BY <1>6 DEF OptimCtrlC, lineVars
  <2>2. /\ pending'["IO"] = pending["IO"] /\ pending'["RT"] = pending["RT"]
        /\ pending'["INT"] \in {pending["INT"], pending["INT"] + 1}
    BY <1>1, <2>1, PostedEffect
  <2>3. entered' - unread' + pending'["INT"] + (IF pc' = "read" THEN 1 ELSE 0) <= ctrlC' /\ ctrlC' \in Nat
    <3> DEFINE reading == IF pc = "read" THEN 1 ELSE 0
    <3>1. /\ entered - unread + pending["INT"] + reading <= ctrlC /\ reading \in Nat
          /\ entered \in Nat /\ unread \in Nat /\ ctrlC \in Nat
      BY <1>1
    <3>2. reading' = reading  BY <2>1
    <3> HIDE DEF OptimInv, CommonInv, reading
    <3>3. entered' - unread' + pending'["INT"] + reading' <= ctrlC' /\ ctrlC' \in Nat
      BY <1>1, <2>1, <2>2, <3>1, <3>2
    <3> QED  BY <3>3 DEF reading
  <2>4. ~Ended' /\ (gotSigio' \/ pending'["IO"] > 0 \/ frames' # <<>> \/ pc' = "wait") =>
           pending'["RT"] = QueueLimit
    BY <2>1, <2>2 DEF Ended
  <2> QED  BY <1>1, <2>1, <2>3, <2>4
<1>7. CASE OptimBlock \/ OptimCheck \/ OptimRead \/ OptimReset
  <2>1. /\ UNCHANGED <<pending, frames, asleep, entered, notify, ctrlC>> /\ frames = <<>>
        /\ Len(frames) = 0
    BY <1>1, <1>7, MainEffect
    DEF OptimBlock, OptimCheck, OptimRead, OptimReset, ioVars, lineVars
  <2>2. CASE OptimBlock
    <3>1. /\ pc = "start" /\ pc' = "loop" /\ blocked' = Signals \ {"IO"}
          /\ UNCHANGED <<unread, gotSigio>>
      BY <2>2 DEF OptimBlock, Main, ioVars, lineVars
    <3> QED  BY <1>1, <2>1, <3>1 DEF Ended
  <2>3. CASE OptimCheck
    <3>1. /\ pc = "loop" /\ pc' = "wait" /\ gotSigio /\ UNCHANGED <<blocked, unread, gotSigio>>
      BY <2>3 DEF OptimCheck, Main, ioVars, lineVars
    <3> QED  BY <1>1, <2>1, <3>1 DEF Ended
  <2>4. CASE OptimRead
    <3>1. /\ pc = "read" /\ pc' = "reset" /\ ReadLine /\ UNCHANGED <<blocked, gotSigio>>
      BY <2>4 DEF OptimRead, Main
    <3>2. unread' \in Nat /\ unread' <= unread /\ unread - unread' <= 1
      BY <3>1 DEF ReadLine
    <3>3. entered' - unread' + pending'["INT"] + (IF pc' = "read" THEN 1 ELSE 0) <= ctrlC'
      BY <1>1, <2>1, <3>1, <3>2, SMTT(20)
    <3>4. unread' <= entered'  BY <2>1, <3>2
    <3> QED  BY <1>1, <2>1, <3>1, <3>2, <3>3, <3>4 DEF Ended
  <2>5. CASE OptimReset
    <3>1. /\ pc = "reset" /\ pc' = "loop" /\ gotSigio' = FALSE /\ UNCHANGED <<blocked, unread>>
      BY <2>5 DEF OptimReset, Main
    <3>2. ~gotSigio' /\ gotSigio' \in BOOLEAN  BY <3>1, Zenon
    <3> QED  BY <1>1, <2>1, <3>1, <3>2 DEF Ended
  <2> QED  BY <1>7, <2>2, <2>3, <2>4, <2>5
<1>8. CASE OptimTake
  <2>1. /\ pc = "wait" /\ UNCHANGED <<blocked, frames, asleep, entered, notify, unread, gotSigio, ctrlC>>
        /\ pending' = [pending EXCEPT ![First] = @ - 1] /\ pending[First] > 0
        /\ pc' = IF First = "INT" THEN "read" ELSE "aborted"
        /\ Len(frames) = 0
    BY <1>1, <1>8, MainEffect DEF OptimTake, ioVars, lineVars, CodeExpected
  <2>2. CASE First = "INT"
    <3>1. /\ pending'["INT"] = pending["INT"] - 1 /\ pending["INT"] > 0
          /\ pending'["RT"] = pending["RT"] /\ pc' = "read"
      BY <1>1, <2>1, <2>2 DEF KernelOK
    <3> QED  BY <1>1, <2>1, <3>1 DEF Ended
  <2>3. CASE First = "RT"
    <3>1. pending'["INT"] = pending["INT"] /\ pc' = "aborted"
      BY <1>1, <2>1, <2>3 DEF KernelOK
    <3> QED  BY <1>1, <2>1, <3>1 DEF Ended
  <2> QED  BY <2>2, <2>3 DEF First
<1>9. CASE OptimHandler
  <2>1. /\ frames # <<>> /\ pc # "killed" /\ Return /\ gotSigio' = TRUE
        /\ UNCHANGED <<entered, notify, unread, ctrlC>>
    BY <1>9 DEF OptimHandler, Handler
  <2>2. /\ Len(frames) > 0 /\ Len(frames') = Len(frames) - 1
        /\ \A i \in 1..(Len(frames) - 1) : frames'[i] = frames[i]
        /\ blocked' = frames[Len(frames)].saved
        /\ UNCHANGED <<pc, pending, asleep>>
    BY <1>1, <2>1, ReturnEffect
  <2>3. gotSigio' /\ gotSigio' \in BOOLEAN  BY <2>1, Zenon
  <2>4. Len(frames) \in 1..Len(frames)  BY <1>1, <2>2
  <2>5. pc # "start" => Signals \ {"IO"} \subseteq blocked'  BY <2>1, <2>2, <2>4
  <2>6. pc # "start" => \A i \in 1..Len(frames') : Signals \ {"IO"} \subseteq frames'[i].saved
    <3> SUFFICES ASSUME pc # "start", NEW i \in 1..Len(frames')
                 PROVE  Signals \ {"IO"} \subseteq frames'[i].saved
      OBVIOUS
    <3>1. i \in 1..Len(frames) /\ frames'[i] = frames[i]  BY <1>1, <2>2
    <3> QED  BY <2>1, <3>1
  <2>7. ~Ended => pending["RT"] = QueueLimit  BY <2>1
  <2> QED  BY <1>1, <2>1, <2>2, <2>3, <2>5, <2>6, <2>7 DEF Ended
<1>10. ASSUME NEW s \in {"INT", "IO", "RT"}, OptimDeliver(s) PROVE OptimInv'
  <2>1. ~Ended /\ UNCHANGED <<entered, notify, unread, gotSigio, ctrlC>>
    BY <1>10 DEF OptimDeliver, ioVars, lineVars
  <2>2. CASE s = "IO"
    <3>1. Deliver("optim", "IO", {})  BY <1>10, <2>2 DEF OptimDeliver
    <3>2. /\ pending["IO"] > 0 /\ pending'["INT"] = pending["INT"] /\ pending'["RT"] = pending["RT"]
          /\ blocked' = blocked \cup {} \cup {"IO"}
          /\ Len(frames') = Len(frames) + 1
          /\ \A i \in 1..Len(frames) : frames'[i] = frames[i]
          /\ frames'[Len(frames) + 1].saved = IF asleep THEN restore ELSE blocked
          /\ ~asleep' /\ UNCHANGED pc
      BY <1>1, <3>1, DeliverEffect, SMTT(20)
    <3>3. pc # "start" => \A i \in 1..Len(frames') : Signals \ {"IO"} \subseteq frames'[i].saved
      <4> SUFFICES ASSUME pc # "start", NEW i \in 1..Len(frames')
                   PROVE  Signals \ {"IO"} \subseteq frames'[i].saved
        OBVIOUS
      <4>1. i \in 1..Len(frames) \/ i = Len(frames) + 1
        <5> HIDE DEF OptimInv, CommonInv
        <5> QED  BY <1>1, <3>2
      <4> QED  BY <2>1, <3>2, <4>1 DEF Ended
    <3> QED  BY <1>1, <2>1, <3>2, <3>3 DEF Ended
  <2>3. CASE s # "IO"
    <3>1. Terminate("optim", s)  BY <1>10, <2>3 DEF OptimDeliver
    <3>2. /\ pc' = "killed" /\ blocked' = Signals /\ ~asleep'
          /\ pending'["INT"] = 0 /\ s \notin blocked
      BY <1>1, <3>1, TerminateEffect
    <3>3. pc = "start"  BY <1>1, <2>3, <3>2
    <3> QED  BY <1>1, <2>1, <3>2, <3>3 DEF Ended
  <2> QED  BY <2>2, <2>3
<1> QED
  BY <1>2, <1>3, <1>4, <1>5, <1>6, <1>7, <1>8, <1>9, <1>10 DEF OptimStep
LEMMA QuietKept ==
  ASSUME CommonInv, [SignalNext]_signalVars PROVE Quiet' /\ signo' = signo
<1>1. signo' = signo
  <2>1. CountStep => signo' = signo
    BY DEF CountStep, SenderKill, ReceiverBlock, ReceiverUnblock, ReceiverPrint,
           ReceiverDeliver, ReceiverHandler, countVars, senderVars
  <2> QED  BY <2>1, ProgramSteps DEF signalVars, countVars
<1>2. Quiet'
  <2> SUFFICES ASSUME program \notin Readers PROVE notify' = 0
    BY ProgramSteps DEF Quiet
  <2>1. notify = 0  BY DEF CommonInv, Quiet
  <2>2. ~Notify  BY <2>1 DEF Notify
  <2>3. notify' = notify
    BY <2>2, ProgramSteps DEF Readers, signalVars, ioVars, lineVars
  <2> QED  BY <2>1, <2>3
<1> QED  BY <1>1, <1>2

LEMMA CommonKept ==
  ASSUME CommonInv, [SignalNext]_signalVars PROVE CommonInv'
BY KernelKept, QuietKept DEF CommonInv

(* What the receiver has accepted depends on these only.                   *)
LEMMA AcceptedSame ==
  ASSUME UNCHANGED <<statistics, signo, frames>>, pending'[signo] = pending[signo]
  PROVE  Accepted' = Accepted /\ \A s : Handling(s)' = Handling(s)
BY DEF Accepted, Handling

LEMMA AcceptedNat ==
  ASSUME KernelOK, statistics \in Nat, signo \in Signals PROVE Accepted \in Nat
<1>1. pending[signo] \in Nat  BY DEF KernelOK
<1> QED  BY <1>1 DEF Accepted
(* The signals of a handler's frames are of two kinds, and INT, sent last, *)
(* is neither of those counted.                                            *)
LEMMA CountKept ==
  ASSUME CommonInv, CountInv, [SignalNext]_signalVars PROVE CountInv'
<1> SUFFICES ASSUME program = "count" PROVE CountInv'
  BY ProgramSteps DEF CountInv
<1> DEFINE n == Len(frames)
<1>1. /\ program' = program /\ signo' = signo /\ KernelOK /\ n \in Nat
      /\ signo \in {"USR1", "RT"} /\ {signo, "INT"} \subseteq Signals
      /\ \A s \in Signals : pending[s] \in Nat
      /\ frames = <<>> <=> n = 0
  BY ProgramSteps, QuietKept, NoFrames DEF CommonInv, Signals, KernelOK
<1>2. /\ times \in Nat \ {0} /\ sent \in 0..(times + 1)
      /\ statistics \in Nat /\ interrupt \in BOOLEAN /\ ~asleep
      /\ pc \in {"start", "unblock", "loop", "done"}
      /\ Nested
      /\ \A s \in Signals \ {signo, "INT"} : pending[s] = 0
      /\ pc = "unblock" => frames = <<>> /\ blocked = Signals
      /\ pc # "unblock" /\ frames = <<>> => blocked = {}
      /\ Accepted <= Counted
      /\ sent > 0 => Accepted > 0
      /\ signo = "RT" => Accepted >= Counted \/ Accepted >= QueueLimit
      /\ pending["INT"] > 0 \/ Handling("INT") \/ interrupt => sent = times + 1
      /\ pc = "done" => interrupt /\ frames = <<>> /\ \A s \in Signals : pending[s] = 0
  BY DEF CountInv
<1>3. Accepted \in Nat /\ Counted \in Nat /\ QueueLimit \in Nat \ {0}
  BY <1>1, <1>2, AcceptedNat, SignalAssumption DEF Counted
<1>4. CountStep \/ Notify \/ UNCHANGED <<kernelVars, countVars>>
  BY ProgramSteps DEF signalVars, Readers
<1>5. ~Notify  BY DEF CommonInv, Quiet, Readers, Notify
<1>6. CASE UNCHANGED <<kernelVars, countVars>>
  <2>1. UNCHANGED <<program, pc, pending, blocked, frames, asleep, signo, times, sent,
                    statistics, interrupt>>
    BY <1>6 DEF kernelVars, countVars
  <2>2. Accepted' = Accepted /\ (\A s : Handling(s)' = Handling(s)) /\ Counted' = Counted
    BY <2>1, AcceptedSame DEF Counted
  <2>3. Nested'  BY <1>2, <2>1 DEF Nested
  <2> QED  BY <1>2, <2>1, <2>2, <2>3 DEF CountInv
<1>7. CASE SenderKill
  <2> DEFINE sig == IF sent < times THEN signo ELSE "INT"
  <2>1. /\ pc # "done" /\ sent <= times /\ sent' = sent + 1 /\ pending' = Posted(sig)
        /\ UNCHANGED <<program, pc, blocked, frames, asleep, signo, times, statistics, interrupt>>
    BY <1>7 DEF SenderKill
  <2>2. sig \in Signals  BY <1>1
  <2>3. /\ pending'[sig] = IF QueueFull(sig) THEN pending[sig] ELSE pending[sig] + 1
        /\ \A t \in Signals : t # sig => pending'[t] = pending[t]
    BY <1>1, <2>1, <2>2, PostedEffect
  <2>4. \A s : Handling(s)' = Handling(s)  BY <2>1 DEF Handling
  <2>5. Nested'  BY <1>2, <2>1 DEF Nested
  <2>6. CASE sent < times
    <3>1. sig = signo /\ Counted = sent /\ Counted' = IF sent + 1 < times THEN sent + 1 ELSE times
      BY <2>1, <2>6 DEF Counted
    <3>2. Counted' = Counted + 1  BY <1>2, <2>6, <3>1
    <3>3. pending'[signo] = IF QueueFull(signo) THEN pending[signo] ELSE pending[signo] + 1
      BY <2>3, <3>1
    <3>4. Accepted' = IF QueueFull(signo) THEN Accepted ELSE Accepted + 1
      <4>1. pending[signo] \in Nat  BY <1>1
      <4>2. Handling(signo)' <=> Handling(signo)  BY <2>1, <2>4
      <4> QED  BY <1>2, <2>1, <3>3, <4>1, <4>2 DEF Accepted
    <3>5. QueueFull(signo) => Accepted > 0 /\ (signo = "RT" => Accepted >= QueueLimit)
      <4>1. ASSUME QueueFull(signo)
            PROVE  pending[signo] > 0 /\ (signo = "RT" => pending[signo] = QueueLimit)
        BY <1>1, <1>3, <4>1 DEF QueueFull, Realtime
      <4>2. pending[signo] \in Nat  BY <1>1
      <4>3. Accepted >= pending[signo]  BY <1>2, <4>2 DEF Accepted
      <4> QED  BY <1>3, <4>1, <4>2, <4>3
    <3>6. /\ Accepted' <= Counted' /\ Accepted' > 0
          /\ signo' = "RT" => Accepted' >= Counted' \/ Accepted' >= QueueLimit
      BY <1>1, <1>2, <1>3, <3>2, <3>4, <3>5
    <3>7. \A s \in Signals \ {signo} : pending'[s] = pending[s]  BY <2>3, <3>1
    <3>8. ~(pending'["INT"] > 0 \/ Handling("INT")' \/ interrupt')
      <4>1. sent # times + 1 /\ pending["INT"] \in Nat  BY <1>1, <1>2, <2>6
      <4>2. ~Handling("INT") /\ ~interrupt /\ pending["INT"] = 0  BY <1>2, <4>1
      <4> QED  BY <1>1, <2>1, <2>4, <3>7, <4>2
    <3> QED  BY <1>1, <1>2, <2>1, <2>5, <2>6, <3>6, <3>7, <3>8 DEF CountInv
  <2>7. CASE ~(sent < times)
    <3>1. sig = "INT" /\ sent = times /\ Counted' = Counted
      BY <1>2, <2>1, <2>7 DEF Counted
    <3>2. \A s \in Signals \ {"INT"} : pending'[s] = pending[s]  BY <2>3, <3>1
    <3>3. Accepted' = Accepted  BY <1>1, <2>1, <3>2, AcceptedSame
    <3> QED  BY <1>1, <1>2, <1>3, <2>1, <2>4, <2>5, <3>1, <3>2, <3>3 DEF CountInv
  <2> QED  BY <2>6, <2>7
<1>8. CASE ReceiverBlock \/ ReceiverUnblock \/ ReceiverPrint
  <2>1. /\ frames = <<>> /\ UNCHANGED <<pending, frames, asleep, signo, times, sent,
                                        statistics, interrupt>>
        /\ \A s \in Signals \ blocked : pending[s] = 0
    BY <1>1, <1>8, MainEffect DEF ReceiverBlock, ReceiverUnblock, ReceiverPrint, countVars
  <2>2. \/ pc = "start" /\ pc' = "unblock" /\ blocked' = Signals
        \/ pc \in {"start", "unblock"} /\ pc' = "loop" /\ blocked' = {}
        \/ pc = "loop" /\ pc' = "done" /\ interrupt /\ UNCHANGED blocked /\ blocked = {}
    BY <1>2, <1>8, <2>1 DEF ReceiverBlock, ReceiverUnblock, ReceiverPrint, Main
  <2>3. Accepted' = Accepted /\ (\A s : Handling(s)' = Handling(s)) /\ Counted' = Counted
    BY <2>1, AcceptedSame DEF Counted
  <2>4. Nested'  BY <1>1, <2>1 DEF Nested
  <2>5. /\ pc' \in {"start", "unblock", "loop", "done"}
        /\ pc' = "unblock" => frames' = <<>> /\ blocked' = Signals
        /\ pc' # "unblock" /\ frames' = <<>> => blocked' = {}
        /\ pc' = "done" => interrupt /\ frames' = <<>> /\ \A s \in Signals : pending[s] = 0
    BY <2>1, <2>2
  <2> QED  BY <1>1, <1>2, <2>1, <2>3, <2>4, <2>5 DEF CountInv
<1>9. ASSUME NEW s \in {"INT", "USR1", "RT"}, ReceiverDeliver(s) PROVE CountInv'
  <2>1. /\ Deliver("count", s, {})
        /\ UNCHANGED <<signo, times, sent, statistics, interrupt>>
    BY <1>9 DEF ReceiverDeliver, countVars
  <2>2. /\ s \in Signals \ blocked /\ pending[s] > 0 /\ pending'[s] = pending[s] - 1
        /\ \A t \in Signals : t # s => pending'[t] = pending[t]
        /\ Len(frames') = n + 1 /\ frames' # <<>>
        /\ \A i \in 1..n : frames'[i] = frames[i]
        /\ frames'[n + 1].sig = s /\ frames'[n + 1].at = "entry"
        /\ frames'[n + 1].saved = IF asleep THEN restore ELSE blocked
        /\ blocked' = blocked \cup {} \cup {s}
        /\ ~asleep' /\ UNCHANGED pc
    BY <1>1, <2>1, DeliverEffect
  <2>3. frames'[n + 1].saved = blocked /\ blocked' = blocked \cup {s}
    BY <1>2, <2>2
  <2>4. s \in {signo, "INT"}
    <3>1. pending[s] # 0  BY <1>1, <2>2
    <3> QED  BY <1>2, <2>2, <3>1
  <2>5. pc \notin {"unblock", "done"}
    BY <1>1, <1>2, <2>2
  <2>6. \A t : Handling(t)' <=> Handling(t) \/ t = s
    <3> SUFFICES ASSUME NEW t PROVE Handling(t)' <=> Handling(t) \/ t = s
      OBVIOUS
    <3>1. Handling(t)' <=> \E i \in 1..(n + 1) : frames'[i].sig = t
      BY <2>2 DEF Handling
    <3>2. \A i \in 1..(n + 1) : i \in 1..n \/ i = n + 1  BY <1>1
    <3>3. n + 1 \in 1..(n + 1) /\ \A i \in 1..n : i \in 1..(n + 1)  BY <1>1
    <3> HIDE DEF n
    <3>4. ASSUME Handling(t)' PROVE Handling(t) \/ t = s
      <4>1. PICK i \in 1..(n + 1) : frames'[i].sig = t  BY <3>1, <3>4
      <4> QED  BY <2>2, <3>2, <4>1 DEF Handling, n
    <3>5. ASSUME Handling(t) PROVE Handling(t)'
      <4>1. PICK i \in 1..n : frames[i].sig = t  BY <3>5 DEF Handling, n
      <4> QED  BY <2>2, <3>1, <3>3, <4>1
    <3>6. ASSUME t = s PROVE Handling(t)'  BY <2>2, <3>1, <3>3, <3>6
    <3> QED  BY <3>4, <3>5, <3>6
  <2>7. ~Handling(s)  BY <1>2, <2>2 DEF Nested, Handling
  <2>8. Nested'
    <3>1. ASSUME NEW i \in 1..(n + 1)
          PROVE  /\ frames'[i].sig \in {signo, "INT"} /\ frames'[i].at = "entry"
                 /\ frames'[i].sig \in blocked'
      <4>1. CASE i = n + 1  BY <2>2, <2>3, <2>4, <4>1
      <4>2. CASE i # n + 1
        <5>1. i \in 1..n  BY <1>1, <4>2
        <5> QED  BY <1>2, <2>2, <2>3, <5>1 DEF Nested
      <4> QED  BY <4>1, <4>2
    <3>2. ASSUME NEW i \in 1..(n + 1), NEW j \in 1..(n + 1), i < j
          PROVE  frames'[i].sig \in frames'[j].saved /\ frames'[i].sig # frames'[j].sig
      <4>1. i \in 1..n  BY <1>1, <3>2
      <4>2. CASE j = n + 1
        <5>1. frames[i].sig \in blocked  BY <1>2, <4>1 DEF Nested
        <5> QED  BY <2>2, <2>3, <4>1, <4>2, <5>1
      <4>3. CASE j # n + 1
        <5>1. j \in 1..n  BY <1>1, <4>3
        <5> QED  BY <1>2, <2>2, <3>2, <4>1, <5>1 DEF Nested
      <4> QED  BY <4>2, <4>3
    <3>3. frames'[1].saved = {}
      <4>1. CASE n = 0
        <5>1. frames'[1].saved = blocked  BY <2>3, <4>1
        <5> QED  BY <1>1, <1>2, <2>5, <4>1, <5>1
      <4>2. CASE n # 0
        <5>1. 1 \in 1..n  BY <1>1, <4>2
        <5> QED  BY <1>1, <1>2, <2>2, <4>2, <5>1 DEF Nested
      <4> QED  BY <4>1, <4>2
    <3> QED  BY <1>1, <2>2, <3>1, <3>2, <3>3 DEF Nested
  <2>9. Accepted' = Accepted /\ Counted' = Counted
    <3>1. Counted' = Counted  BY <2>1 DEF Counted
    <3>2. CASE s = signo
      <4>1. ~Handling(signo) /\ Handling(signo)'  BY <1>1, <2>6, <2>7, <3>2
      <4>2. pending'[signo] = pending[signo] - 1 /\ pending[signo] \in Nat  BY <1>1, <2>2, <3>2
      <4> QED  BY <1>2, <2>1, <3>1, <4>1, <4>2 DEF Accepted
    <3>3. CASE s # signo
      <4>1. Handling(signo)' <=> Handling(signo)  BY <1>1, <2>6, <3>3
      <4>2. pending'[signo] = pending[signo]  BY <1>1, <2>2, <3>3
      <4> QED  BY <1>2, <2>1, <3>1, <4>1, <4>2 DEF Accepted
    <3> QED  BY <3>2, <3>3
  <2>10. pending'["INT"] > 0 \/ Handling("INT")' \/ interrupt' => sent' = times' + 1
    <3>1. CASE s = "INT"  BY <1>2, <2>1, <2>2, <3>1
    <3>2. CASE s # "INT"  BY <1>1, <1>2, <2>1, <2>2, <2>6, <3>2
    <3> QED  BY <3>1, <3>2
  <2>11. \A t \in Signals \ {signo, "INT"} : pending'[t] = 0
    BY <1>2, <2>2, <2>4
  <2> QED  BY <1>1, <1>2, <2>1, <2>2, <2>5, <2>8, <2>9, <2>10, <2>11 DEF CountInv
<1>10. CASE ReceiverHandler
  <2>1. /\ frames # <<>> /\ Return /\ UNCHANGED <<signo, times, sent>>
        /\ IF frames[n].sig = "INT"
             THEN interrupt' = TRUE /\ UNCHANGED statistics
             ELSE statistics' = statistics + 1 /\ UNCHANGED interrupt
    BY <1>10 DEF ReceiverHandler, Handler, Last, senderVars
  <2>2. /\ n > 0 /\ Len(frames') = n - 1
        /\ \A i \in 1..(n - 1) : frames'[i] = frames[i]
        /\ blocked' = frames[n].saved
        /\ UNCHANGED <<pc, pending, asleep>>
    BY <1>1, <2>1, ReturnEffect
  <2>3. /\ pc \notin {"unblock", "done"} /\ n \in 1..n /\ n - 1 \in Nat
        /\ \A i \in 1..(n - 1) : i \in 1..n /\ i < n
        /\ \A i \in 1..n : i = n \/ i \in 1..(n - 1)
    BY <1>1, <1>2, <2>1, <2>2
  <2>4. frames[n].sig \in {signo, "INT"}  BY <1>2, <2>3 DEF Nested
  <2>5. KernelOK'  BY <1>1, <2>1, ReturnEffect
  <2>6. \A t : Handling(t)' <=> Handling(t) /\ t # frames[n].sig
    <3> SUFFICES ASSUME NEW t PROVE Handling(t)' <=> Handling(t) /\ t # frames[n].sig
      OBVIOUS
    <3>1. Handling(t)' <=> \E i \in 1..(n - 1) : frames[i].sig = t
      BY <2>2 DEF Handling
    <3>2. Handling(t) <=> \E i \in 1..n : frames[i].sig = t  BY DEF Handling
    <3>3. \A i \in 1..(n - 1) : frames[i].sig # frames[n].sig
      BY <1>2, <2>3 DEF Nested
    <3> HIDE DEF n
    <3> QED  BY <2>3, <3>1, <3>2, <3>3
  <2>7. Nested'
    <3>1. ASSUME NEW i \in 1..(n - 1)
          PROVE  /\ frames'[i].sig \in {signo, "INT"} /\ frames'[i].at = "entry"
                 /\ frames'[i].sig \in blocked'
      BY <1>2, <2>2, <2>3, <3>1 DEF Nested
    <3>2. ASSUME NEW i \in 1..(n - 1), NEW j \in 1..(n - 1), i < j
          PROVE  frames'[i].sig \in frames'[j].saved /\ frames'[i].sig # frames'[j].sig
      BY <1>2, <2>2, <2>3, <3>2 DEF Nested
    <3>3. frames' # <<>> => frames'[1].saved = {}
      <4>1. SUFFICES ASSUME frames' # <<>> PROVE frames'[1].saved = {}
        OBVIOUS
      <4>2. n - 1 # 0  BY <2>2, <2>5, <4>1, EmptySeq DEF KernelOK
      <4>3. 1 \in 1..(n - 1)
        <5>1. n \in Nat /\ n - 1 \in Nat  BY <1>1, <2>3
        <5> HIDE DEF n
        <5> QED  BY <4>2, <5>1
      <4> QED  BY <1>2, <2>1, <2>2, <4>3 DEF Nested
    <3> QED  BY <1>1, <2>2, <3>1, <3>2, <3>3 DEF Nested
  <2>8. frames' = <<>> => blocked' = {}
    <3>1. SUFFICES ASSUME frames' = <<>> PROVE blocked' = {}
      OBVIOUS
    <3>2. n = 1  BY <1>1, <2>2, <3>1
    <3> QED  BY <1>2, <2>1, <2>2, <3>2 DEF Nested
  <2>9. Accepted' = Accepted /\ Counted' = Counted
    <3>1. Counted' = Counted  BY <2>1 DEF Counted
    <3>2. pending'[signo] = pending[signo] /\ pending[signo] \in Nat  BY <1>1, <2>2
    <3>3. CASE frames[n].sig = "INT"
      <4>1. Handling(signo)' <=> Handling(signo)  BY <1>1, <2>6, <3>3
      <4> QED  BY <1>2, <2>1, <3>1, <3>2, <3>3, <4>1 DEF Accepted
    <3>4. CASE frames[n].sig # "INT"
      <4>1. frames[n].sig = signo  BY <2>4, <3>4
      <4>2. ~Handling(signo)' /\ Handling(signo)
        BY <1>1, <2>3, <2>6, <4>1 DEF Handling
      <4>3. statistics' = statistics + 1  BY <2>1, <3>4
      <4> QED  BY <1>1, <1>2, <3>1, <3>2, <4>2, <4>3 DEF Accepted
    <3> QED  BY <3>3, <3>4
  <2>10. interrupt' \in BOOLEAN /\ (interrupt' => interrupt \/ frames[n].sig = "INT")
    <3>1. CASE frames[n].sig = "INT"  BY <2>1, <3>1
    <3>2. CASE frames[n].sig # "INT"  BY <1>2, <2>1, <3>2
    <3> QED  BY <3>1, <3>2
  <2>11. pending'["INT"] > 0 \/ Handling("INT")' \/ interrupt' => sent' = times' + 1
    <3>1. frames[n].sig = "INT" => Handling("INT")  BY <2>3 DEF Handling
    <3> QED  BY <1>2, <2>1, <2>2, <2>6, <2>10, <3>1
  <2>12. statistics' \in Nat  BY <1>2, <2>1
  <2> QED
    BY <1>1, <1>2, <2>1, <2>2, <2>3, <2>7, <2>8, <2>9, <2>10, <2>11, <2>12 DEF CountInv
<1> QED  BY <1>4, <1>5, <1>6, <1>7, <1>8, <1>9, <1>10 DEF CountStep
LEMMA UncryptedKept ==
  ASSUME Uncrypted, [SignalNext]_signalVars PROVE Uncrypted'
<1> SUFFICES ASSUME program # "crypt" PROVE mismatch' = 0 /\ handled' = 0
  BY ProgramSteps DEF Uncrypted
<1> QED  BY ProgramSteps DEF signalVars, cryptVars, Uncrypted
-----------------------------------------------------------------------------
(* The theorems.                                                           *)

(* The programs' invariants hold together: each speaks of its own program, *)
(* and what they share is the kernel's state.                              *)
THEOREM SignalInvariance == SignalSpec => []SignalInv
<1>1. ASSUME SignalInv, [SignalNext]_signalVars PROVE SignalInv'
  <2> USE <1>1 DEF SignalInv
  <2>1. CommonInv'  BY CommonKept
  <2>2. SyncInv'  BY SyncKept
  <2>3. PauseInv'  BY PauseKept
  <2>4. ExInv'  BY ExKept
  <2>5. CountInv'  BY CountKept
  <2>6. CryptInv' /\ LockInv' /\ Uncrypted'  BY CryptKept, LockKept, UncryptedKept
  <2>7. FlagInv' /\ QueueInv' /\ OptimInv'  BY FlagKept, QueueKept, OptimKept
  <2> QED  BY <2>1, <2>2, <2>3, <2>4, <2>5, <2>6, <2>7
<1> QED  BY InitSignal, <1>1, PTL DEF SignalSpec

(* signal-sync-process never sleeps through the signal of its child, and   *)
(* goes on only after it; signal_pause_bug does not get past its pause()   *)
(* without a key, however its own signal and the keys interleave.          *)
THEOREM WaitsEndForSignals == SignalSpec => []WaitsForSignal
<1>1. SignalInv => WaitsForSignal
  <2> SUFFICES ASSUME SignalInv PROVE WaitsForSignal
    OBVIOUS
  <2>1. ParentWaitsForKid
    BY DEF SignalInv, SyncInv, ParentWaitsForKid
  <2>2. PauseNeedsKey
    BY DEF SignalInv, PauseInv, PauseNeedsKey
  <2> QED  BY <2>1, <2>2 DEF WaitsForSignal
<1> QED  BY SignalInvariance, <1>1, PTL

(* The handlers of signal_handler_ex never nest, and no SIGQUIT without a  *)
(* handler ends the process in the middle of one.                          *)
THEOREM HandlersAreExclusive == SignalSpec => []HandlersExclude
<1>1. SignalInv => HandlersExclude
  <2> SUFFICES ASSUME SignalInv, program = "ex" PROVE HandlersExclude
    BY DEF HandlersExclude
  <2>1. frames = <<>> <=> Len(frames) = 0
    BY NoFrames DEF SignalInv, CommonInv
  <2> QED  BY <2>1 DEF SignalInv, ExInv, OneHandler, HandlersExclude
<1> QED  BY SignalInvariance, <1>1, PTL

(* What signal_receiver prints is right for any number of signals sent and *)
(* any limit of the queue, although its handlers interrupt each other.     *)
THEOREM StatisticsAreFaithful == SignalSpec => []StatisticsFaithful
<1>1. SignalInv => StatisticsFaithful
  <2> SUFFICES ASSUME SignalInv, pc = "done", program = "count"
               PROVE  statistics \in 1..times
                      /\ (signo \in Realtime => statistics >= times \/ statistics >= QueueLimit)
    BY DEF StatisticsFaithful
  <2>1. signo \in {"USR1", "RT"} /\ Len(frames) = 0
    BY NoFrames DEF SignalInv, CommonInv, CountInv
  <2>2. ~Handling(signo)  BY <2>1 DEF Handling
  <2>3. pending[signo] = 0  BY <2>1 DEF SignalInv, CountInv, Signals
  <2>4. /\ times \in Nat \ {0} /\ statistics \in Nat /\ sent = times + 1
        /\ Accepted <= Counted /\ Accepted > 0
        /\ signo = "RT" => Accepted >= Counted \/ Accepted >= QueueLimit
    <3>1. /\ times \in Nat \ {0} /\ statistics \in Nat /\ sent = times + 1
          /\ Accepted <= Counted /\ (sent > 0 => Accepted > 0)
          /\ signo = "RT" => Accepted >= Counted \/ Accepted >= QueueLimit
      BY DEF SignalInv, CountInv
    <3> QED  BY <3>1
  <2>5. Accepted = statistics /\ Counted = times
    BY <2>2, <2>3, <2>4 DEF Accepted, Counted
  <2> QED  BY <2>1, <2>4, <2>5 DEF Realtime
<1> QED  BY SignalInvariance, <1>1, PTL

(* The wrong results of signal_nonreentrant are never more than the runs   *)
(* of its handler, wherever in crypt() or between its calls they fell.     *)
THEOREM MismatchesAreExplained == SignalSpec => []MismatchesExplained
<1>1. SignalInv => MismatchesExplained
  <2> SUFFICES ASSUME SignalInv PROVE mismatch <= handled
    BY DEF MismatchesExplained
  <2>1. CASE program = "crypt"  BY <2>1 DEF SignalInv, CryptInv
  <2>2. CASE program # "crypt"  BY <2>2 DEF SignalInv, Uncrypted
  <2> QED  BY <2>1, <2>2
<1> QED  BY SignalInvariance, <1>1, PTL

(* When nothing is on the way any more, the flag has left unread one line  *)
(* for each announcement merged with another, no more and no fewer.        *)
THEOREM LeftBehindAreMerged == SignalSpec => []LeftBehindIsMerged
<1>1. SignalInv => LeftBehindIsMerged
  <2> SUFFICES ASSUME SignalInv, AtRest PROVE unread = merged
    BY DEF LeftBehindIsMerged
  <2>1. Len(frames) = 0  BY NoFrames DEF SignalInv, CommonInv, AtRest
  <2>2. Announced = 0  BY <2>1 DEF AtRest, Announced
  <2>3. merged \in Nat /\ unread = merged + Announced
    BY DEF SignalInv, FlagInv, AtRest
  <2> QED  BY <2>2, <2>3
<1> QED  BY SignalInvariance, <1>1, PTL

(* The version with sigwaitinfo() reads one line for each Ctrl-C at most,  *)
(* whatever was typed and announced.                                       *)
THEOREM LinesNeedTheirKeys == SignalSpec => []LinesNeedKeys
<1>1. SignalInv => LinesNeedKeys
  <2> SUFFICES ASSUME SignalInv, program = "optim"
               PROVE  entered - unread <= ctrlC /\ (pc = "wait" => pending["RT"] > 0)
    BY DEF LinesNeedKeys
  <2>1. pending["INT"] \in Nat
    BY DEF SignalInv, CommonInv, KernelOK, Signals
  <2>2. /\ entered \in Nat /\ unread \in Nat /\ ctrlC \in Nat
        /\ entered - unread + pending["INT"] + (IF pc = "read" THEN 1 ELSE 0) <= ctrlC
        /\ pc = "wait" => pending["RT"] = QueueLimit
    BY DEF SignalInv, OptimInv, Ended
  <2>3. entered - unread <= ctrlC  BY <2>1, <2>2
  <2> QED  BY <2>2, <2>3, SignalAssumption
<1> QED  BY SignalInvariance, <1>1, PTL

(* The version with a queue never sleeps on unread input: as long as there *)
(* is a line, a signal is on its way or may be delivered to sigsuspend(),  *)
(* also when the line came between the handler and the next sigsuspend()   *)
(* or its signal found the queue full.                                     *)
SleepsOnlyWhenRead ==
  program = "queue" /\ asleep /\ unread > 0 => notify > 0 \/ Deliverable # {}

THEOREM QueueSleepsOnlyWhenRead == SignalSpec => []SleepsOnlyWhenRead
<1>1. SignalInv => SleepsOnlyWhenRead
  <2> SUFFICES ASSUME SignalInv, program = "queue", asleep, unread > 0, notify = 0
               PROVE  Deliverable # {}
    BY DEF SleepsOnlyWhenRead, SignalInv, QueueInv
  <2>1. /\ blocked = {} /\ Len(frames) = 0 /\ EachLineHasSignal /\ merged \in Nat
        /\ merged > 0 => pending["IO"] > 0
        /\ pending["IO"] \in Nat /\ pending["RT"] \in Nat /\ {"IO", "RT"} \subseteq Signals
    BY NoFrames DEF SignalInv, CommonInv, QueueInv, KernelOK, Signals
  <2>2. pending["IO"] > 0 \/ pending["RT"] > 0
    BY <2>1 DEF EachLineHasSignal
  <2> QED  BY <2>1, <2>2 DEF Deliverable
<1> QED  BY SignalInvariance, <1>1, PTL

(* With its lock signal_nonreentrant has each crypt() to itself: what the  *)
(* handler may still spoil is the comparison after it; and a handler that  *)
(* waits for the lock waits for main(), never for another handler.         *)
LockCoversCalls ==
  program = "crypt" /\ syncLock =>
    /\ pc = "crypting" => disturbed = FALSE
    /\ pc = "unlock" => buffer = "main"
    /\ frames # <<>> /\ Last(frames).at = "entry" => mutex # "handler"

THEOREM LockCoversItsCalls == SignalSpec => []LockCoversCalls
<1>1. SignalInv => LockCoversCalls
  <2> SUFFICES ASSUME SignalInv, program = "crypt", syncLock PROVE LockCoversCalls
    BY DEF LockCoversCalls
  <2>1. frames # <<>> => Last(frames) = frames[1]
    <3>1. /\ Len(frames) \in Nat /\ Len(frames) <= 1
          /\ frames = <<>> <=> Len(frames) = 0
      BY NoFrames DEF SignalInv, CommonInv, CryptInv, OneHandler
    <3> DEFINE n == Len(frames)
    <3>2. ASSUME n \in Nat, n <= 1, n # 0 PROVE n = 1
      <4> HIDE DEF n
      <4> QED  BY <3>2
    <3> QED  BY <3>1, <3>2 DEF Last
  <2> QED  BY <2>1 DEF SignalInv, LockInv, LockCoversCalls
<1> QED  BY SignalInvariance, <1>1, PTL
=============================================================================
