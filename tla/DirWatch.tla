------------------------------ MODULE DirWatch ------------------------------
(***************************************************************************)
(* monitoring-files/monitoring_dir.c ("monitor"): runs a command, rm by    *)
(* default, for every file of a matching name that something happens to in *)
(* a directory; the command's own work in the directory is reported too.   *)
(* monitoring-files/inotify.c ("print"): the same loop, which prints what  *)
(* happens and ends when Enter is typed.  (So says the other one when it   *)
(* starts, but it does not look at the terminal.)                          *)
(*                                                                         *)
(* The kernel queues events up to a limit, drops one that repeats the last *)
(* in the queue, and puts one overflow event in place of those for which   *)
(* there is no room.  Directories, which the loop passes over, are left    *)
(* out.                                                                    *)
(***************************************************************************)
EXTENDS Integers, Sequences, SequencesExt

CONSTANTS
  Names,      \* names of files in the directory
  Matching,   \* those that contain the pattern
  MaxQueued,  \* fs.inotify.max_queued_events
  MaxActs     \* what others do in the directory

VARIABLES
  tool,    \* which program runs
  here,    \* the directory watched is the one the program was started in
  files,   \* the files in it
  old,     \* history: those nothing has happened to since the start
  queue,   \* kernel: events not read
  batch,   \* buf: events read and not handled
  stale,   \* names that were in buf
  watch,   \* control point
  target,  \* the name the command is run for
  enter,   \* Enter was typed
  acts,    \* how often others did something
  missed   \* history: an event was dropped, or the command not run

watchVars == <<tool, here, files, old, queue, batch, stale, watch, target,
               enter, acts, missed>>

NoName == "none"

ASSUME WatchAssumption ==
  /\ NoName \notin Names /\ Matching \subseteq Names
  /\ MaxQueued \in Nat \ {0} /\ MaxActs \in Nat

Overflow == [kind |-> "overflow", name |-> NoName]

WatchInit ==
  /\ tool \in {"monitor", "print"} /\ here \in BOOLEAN
  /\ files \in SUBSET Names /\ old = files
  /\ queue = <<>> /\ batch = <<>> /\ stale = {}
  /\ watch = "poll" /\ target = NoName
  /\ enter = FALSE /\ acts = 0 /\ missed = FALSE

-----------------------------------------------------------------------------
(* The kernel and the others.                                              *)

(* An event is dropped also when the queue is full and says so already. *)
Report(kind, name) ==
  LET event == [kind |-> kind, name |-> name]
      full == Len(queue) >= MaxQueued
  IN /\ queue' = CASE full /\ Overflow \in ToSet(queue) -> queue
                   [] full /\ Overflow \notin ToSet(queue) -> Append(queue, Overflow)
                   [] OTHER -> IF queue # <<>> /\ Last(queue) = event THEN queue
                               ELSE Append(queue, event)
     /\ missed' = (missed \/ full)

(* inotify.c does not ask for changes but for open(), and not for rm. *)
Happens(name, kind, left) ==
  /\ acts < MaxActs
  /\ acts' = acts + 1
  /\ files' = left /\ old' = old \ {name}
  /\ IF tool = "print" /\ kind = "delete" THEN UNCHANGED <<queue, missed>>
     ELSE Report(IF tool = "print" /\ kind = "modify" THEN "open" ELSE kind, name)
  /\ UNCHANGED <<tool, here, batch, stale, watch, target, enter>>

Create(f) == f \notin files /\ Happens(f, "create", files \cup {f})
Modify(f) == f \in files /\ Happens(f, "modify", files)
Delete(f) == f \in files /\ Happens(f, "delete", files \ {f})

PressEnter ==
  /\ tool = "print" /\ ~enter
  /\ enter' = TRUE
  /\ UNCHANGED <<tool, here, files, old, queue, batch, stale, watch, target, acts, missed>>

-----------------------------------------------------------------------------
(* The programs.                                                           *)

PollEventsOnly ==
  /\ watch = "poll"
  /\ enter \/ queue # <<>>
  /\ watch' = "read"
  /\ UNCHANGED <<tool, here, files, old, queue, batch, stale, target, enter, acts, missed>>

(* inotify.c looks at the terminal first. *)
Poll ==
  /\ watch = "poll"
  /\ enter \/ queue # <<>>
  /\ watch' = IF enter THEN "done" ELSE "read"
  /\ UNCHANGED <<tool, here, files, old, queue, batch, stale, target, enter, acts, missed>>

(* As many events as the buffer has room for, or EAGAIN. *)
ReadEvents ==
  /\ watch = "read"
  /\ IF queue = <<>>
       THEN watch' = "poll" /\ UNCHANGED <<queue, batch>>
       ELSE /\ \E n \in 1..Len(queue) :
                 /\ batch' = SubSeq(queue, 1, n)
                 /\ queue' = SubSeq(queue, n + 1, Len(queue))
            /\ watch' = "event"
  /\ UNCHANGED <<tool, here, files, old, stale, target, enter, acts, missed>>

(* An overflow event has no name; monitoring_dir.c reads one all the same, *)
(* which is what the buffer holds from before, or nothing.                 *)
NamesIn(event) ==
  IF event = Overflow THEN stale \cup {NoName} ELSE {event.name}

HandleFirstMatch ==
  /\ watch = "event" /\ batch # <<>>
  /\ \E name \in NamesIn(Head(batch)) :
       /\ target' = IF tool = "monitor" /\ name \in Matching THEN name ELSE NoName
       /\ stale' = stale \cup (NamesIn(Head(batch)) \ {NoName})
  /\ batch' = IF target' = NoName THEN Tail(batch) ELSE <<>>
  /\ watch' = IF target' # NoName THEN "run" ELSE "event"
  /\ UNCHANGED <<tool, here, files, old, queue, enter, acts, missed>>

HandleEvent ==
  /\ watch = "event" /\ batch # <<>>
  /\ \E name \in NamesIn(Head(batch)) :
       /\ target' = IF tool = "monitor" /\ name \in Matching THEN name ELSE NoName
       /\ stale' = stale \cup (NamesIn(Head(batch)) \ {NoName})
  /\ batch' = Tail(batch)
  /\ watch' = IF target' # NoName THEN "run" ELSE "event"
  /\ UNCHANGED <<tool, here, files, old, queue, enter, acts, missed>>

BatchDone ==
  /\ watch = "event" /\ batch = <<>>
  /\ watch' = "read"
  /\ UNCHANGED <<tool, here, files, old, queue, batch, stale, target, enter, acts, missed>>

(* rm -f ./name: in the directory the program was started in. *)
RunCommand ==
  /\ watch = "run"
  /\ IF here /\ target \in files
       THEN /\ files' = files \ {target} /\ old' = old \ {target}
            /\ Report("delete", target)
       ELSE UNCHANGED <<files, old, queue, missed>>
  /\ watch' = "event" /\ target' = NoName
  /\ UNCHANGED <<tool, here, batch, stale, enter, acts>>

(* popen() fails: the event is forgotten. *)
CommandFails ==
  /\ watch = "run"
  /\ watch' = "event" /\ target' = NoName
  /\ missed' = TRUE
  /\ UNCHANGED <<tool, here, files, old, queue, batch, stale, enter, acts>>

-----------------------------------------------------------------------------
Watcher == Poll \/ ReadEvents \/ HandleEvent \/ BatchDone \/ RunCommand

(* Nothing more happens, and the program waits or has ended. *)
WatchQuiet ==
  /\ acts = MaxActs
  /\ watch = "done" \/ (watch = "poll" /\ queue = <<>> /\ ~enter)
  /\ UNCHANGED watchVars

WatchNext ==
  \/ \E f \in Names : Create(f) \/ Modify(f) \/ Delete(f)
  \/ PressEnter \/ Watcher \/ CommandFails \/ WatchQuiet

(* The program is scheduled and its commands end. *)
WatchFairness == WF_watchVars(Watcher)

WatchSpec == WatchInit /\ [][WatchNext]_watchVars /\ WatchFairness

-----------------------------------------------------------------------------
(* Properties.                                                             *)

(* Watching the directory it was started in, the program removes every     *)
(* file of a matching name that was made or changed since, unless it lost  *)
(* an event or could not start its command; although it removes files that *)
(* have been removed and made again in the meantime, and is told of its    *)
(* own work.  A file that was there before stays.                          *)
MatchingGoes ==
  \A f \in Matching :
    tool = "monitor" /\ here /\ f \in files \ old ~> f \notin files \ old \/ missed

(* When others have done what they do, the program comes to rest: its own  *)
(* commands do not keep it busy, and Enter ends the program that looks for *)
(* it.                                                                     *)
ComesToRest == <>[](watch = "done" \/ (watch = "poll" /\ queue = <<>> /\ ~enter))
=============================================================================
