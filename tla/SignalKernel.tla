---------------------------- MODULE SignalKernel ----------------------------
(***************************************************************************)
(* What the signal programs use of the kernel: the pending signals of a    *)
(* process of one thread, its mask, the frames of the handlers under way   *)
(* and the system calls that wait.  The modules of the programs extend     *)
(* this one; program says which of them runs, pc is where its main() is.   *)
(*                                                                         *)
(* A standard signal is pending or not, a real-time one as often as it was *)
(* sent, up to the limit of the queue.  Signals are delivered, all that    *)
(* may be, before the process runs on: one that is still on its way counts *)
(* as not sent yet.                                                        *)
(***************************************************************************)
EXTENDS Naturals, Sequences, SequencesExt

CONSTANTS Programs, QueueLimit

ASSUME SignalAssumption == QueueLimit \in Nat \ {0}

Signals == {"INT", "QUIT", "USR1", "IO", "RT"}
Realtime == {"RT"}

VARIABLES
  program,
  pc,       \* control point of main(): it runs only outside handlers
  pending,  \* how often each signal is pending
  blocked,  \* the signal mask
  frames,   \* handlers under way, the innermost last
  asleep,   \* in pause() or sigsuspend()
  restore   \* the mask sigsuspend() puts back

kernelVars == <<program, pc, pending, blocked, frames, asleep, restore>>

KernelInit ==
  /\ program \in Programs
  /\ pc = "start"
  /\ pending = [s \in Signals |-> 0]
  /\ blocked = {}
  /\ frames = <<>>
  /\ asleep = FALSE /\ restore = {}

Deliverable == {s \in Signals \ blocked : pending[s] > 0}

Main(p, at) ==
  program = p /\ pc = at /\ frames = <<>> /\ ~asleep /\ Deliverable = {}

Handler(p, at) ==
  /\ program = p /\ pc # "killed"
  /\ frames # <<>> /\ Deliverable = {} /\ Last(frames).at = at

QueueFull(s) == pending[s] = IF s \in Realtime THEN QueueLimit ELSE 1

(* kill() and sigqueue(): what finds the queue full is lost. *)
Posted(s) == [pending EXCEPT ![s] = IF QueueFull(s) THEN @ ELSE @ + 1]

(* A handler starts with its signal and its sa_mask blocked. *)
Deliver(p, s, mask) ==
  /\ program = p
  /\ s \in Deliverable
  /\ pending' = [pending EXCEPT ![s] = @ - 1]
  /\ frames' = Append(frames, [sig |-> s, at |-> "entry",
                               saved |-> IF asleep THEN restore ELSE blocked])
  /\ blocked' = blocked \cup mask \cup {s}
  /\ asleep' = FALSE /\ restore' = {}
  /\ UNCHANGED <<program, pc>>

Goes(at) == frames' = [frames EXCEPT ![Len(frames)].at = at]

Return ==
  /\ frames' = Front(frames)
  /\ blocked' = Last(frames).saved
  /\ UNCHANGED <<program, pc, pending, asleep, restore>>

(* The default action of a signal without a handler; what it interrupted   *)
(* stays to be seen.                                                       *)
Terminate(p, s) ==
  /\ program = p
  /\ s \in Deliverable
  /\ pc' = "killed"
  /\ pending' = [t \in Signals |-> 0]
  /\ blocked' = Signals /\ asleep' = FALSE /\ restore' = {}
  /\ UNCHANGED <<program, frames>>

(* sigsuspend(): the mask is set and the wait begun in one step. *)
Suspend(mask) ==
  /\ asleep' = TRUE
  /\ restore' = blocked
  /\ blocked' = mask
  /\ UNCHANGED <<program, pending, frames>>
=============================================================================
