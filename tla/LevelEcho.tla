------------------------------ MODULE LevelEcho -----------------------------
(***************************************************************************)
(* The level-triggered twins of EpollEdge, of which one runs (how).        *)
(* io-model/terminal-io-epoll.c ("epoll"): a child copies the terminal     *)
(* into a pipe that the parent echoes when epoll_wait() reports it.        *)
(* terminal-io-select.c ("select") and terminal-io-poll.c ("poll") echo    *)
(* the terminal itself.  A report is repeated as long as there is data, so *)
(* nothing need be remembered from one turn to the next.                   *)
(*                                                                         *)
(* Data is counted in units that a read() takes one or more of.  The       *)
(* terminal takes what is written to it.                                   *)
(***************************************************************************)
EXTENDS Integers

CONSTANTS
  MaxKeyed,  \* units that are typed
  PipeHolds  \* units the pipe holds

ASSUME LevelAssumption == MaxKeyed \in Nat /\ PipeHolds \in Nat \ {0}

VARIABLES
  how,     \* which program runs
  keyed,   \* units typed so far
  line,    \* of those, the ones nobody has read
  atEnd,   \* the terminal's input has ended
  kid,     \* control point of the child
  held,    \* units in its buffer
  flow,    \* units in the pipe
  loop,    \* control point of the loop
  events,  \* what the loop was told
  shown    \* units written out

levelVars == <<how, keyed, line, atEnd, kid, held, flow, loop, events, shown>>

(* Without a child, because fork() failed, nobody writes to the pipe. *)
LevelInit ==
  /\ how \in {"epoll", "select", "poll"}
  /\ kid \in IF how = "epoll" THEN {"read", "none"} ELSE {"none"}
  /\ keyed = 0 /\ line = 0 /\ atEnd = FALSE
  /\ held = 0 /\ flow = 0
  /\ loop = "wait" /\ events = {} /\ shown = 0

-----------------------------------------------------------------------------
(* The terminal and the child.                                             *)

Types ==
  /\ keyed < MaxKeyed /\ ~atEnd
  /\ keyed' = keyed + 1 /\ line' = line + 1
  /\ UNCHANGED <<how, atEnd, kid, held, flow, loop, events, shown>>

TypesEnd ==
  /\ ~atEnd
  /\ atEnd' = TRUE
  /\ UNCHANGED <<how, keyed, line, kid, held, flow, loop, events, shown>>

(* read(): some of what was typed, or nothing for ever after the end. *)
Taken == IF line > 0 THEN 1..line ELSE IF atEnd THEN {0} ELSE {}

KidReads ==
  /\ kid = "read"
  /\ held' \in Taken
  /\ line' = line - held'
  /\ kid' = "write"
  /\ UNCHANGED <<how, keyed, atEnd, flow, loop, events, shown>>

KidWritesWhatFits ==
  /\ kid = "write"
  /\ IF held = 0 THEN UNCHANGED flow ELSE flow < PipeHolds /\ flow' = flow + 1
  /\ held' = 0 /\ kid' = "read"
  /\ UNCHANGED <<how, keyed, line, atEnd, loop, events, shown>>

(* The end is not told from data: nothing is written, and read() called    *)
(* again.                                                                  *)
KidWrites ==
  /\ kid = "write"
  /\ IF held = 0 THEN UNCHANGED <<flow, held>>
     ELSE flow < PipeHolds /\ flow' = flow + 1 /\ held' = held - 1
  /\ kid' = IF held > 1 THEN "write" ELSE "read"
  /\ UNCHANGED <<how, keyed, line, atEnd, loop, events, shown>>

KidDies ==
  /\ kid \in {"read", "write"}
  /\ kid' = "killed" /\ held' = 0
  /\ UNCHANGED <<how, keyed, line, atEnd, flow, loop, events, shown>>

-----------------------------------------------------------------------------
(* The loop.                                                               *)

Writing == kid \in {"read", "write"}

Reported ==
  IF how = "epoll"
    THEN (IF flow > 0 THEN {"IN"} ELSE {}) \cup (IF Writing THEN {} ELSE {"HUP"})
    ELSE IF Taken # {} THEN {"IN"} ELSE {}

LoopWaits ==
  /\ loop = "wait"
  /\ Reported # {}
  /\ events' = Reported
  /\ loop' = "look"
  /\ UNCHANGED <<how, keyed, line, atEnd, kid, held, flow, shown>>

(* 15 seconds without input. *)
LoopTimesOut ==
  /\ loop = "wait" /\ how # "epoll"
  /\ Reported = {}
  /\ UNCHANGED levelVars

(* The report must be of input and of nothing else: once the child has     *)
(* ended the pipe is also hung up, and what is left in it stays there.     *)
LoopEchoesPipe ==
  /\ loop = "look" /\ how = "epoll"
  /\ IF events = {"IN"}
       THEN \E n \in 1..flow : flow' = flow - n /\ shown' = shown + n
       ELSE UNCHANGED <<flow, shown>>
  /\ events' = {} /\ loop' = "wait"
  /\ UNCHANGED <<how, keyed, line, atEnd, kid, held>>

LoopEchoesTerminal ==
  /\ loop = "look" /\ how # "epoll"
  /\ \E n \in Taken : line' = line - n /\ shown' = shown + n
  /\ events' = {} /\ loop' = "wait"
  /\ UNCHANGED <<how, keyed, atEnd, kid, held, flow>>

-----------------------------------------------------------------------------
LevelKid == KidReads \/ KidWrites
Loop == LoopWaits \/ LoopEchoesPipe \/ LoopEchoesTerminal

(* The parent waits for the child and the child for the terminal. *)
LevelQuiet ==
  /\ how = "epoll" /\ loop = "wait" /\ Reported = {}
  /\ kid = "read" /\ Taken = {}
  /\ UNCHANGED levelVars

LevelNext ==
  \/ Types \/ TypesEnd \/ LevelKid \/ KidDies \/ Loop \/ LoopTimesOut \/ LevelQuiet

(* Both processes are scheduled; nobody has to type. *)
LevelFairness == WF_levelVars(LevelKid) /\ WF_levelVars(Loop)

LevelSpec == LevelInit /\ [][LevelNext]_levelVars /\ LevelFairness

-----------------------------------------------------------------------------
(* Properties.                                                             *)

(* Whatever is typed is shown, also what was typed before the end of the   *)
(* input, unless the child that copies it was killed or never started.     *)
(* With EpollEdge the pipe is emptied also then.                           *)
TypedShown ==
  \A n \in 1..MaxKeyed :
    keyed >= n ~> shown >= n \/ (how = "epoll" /\ ~Writing)
=============================================================================
