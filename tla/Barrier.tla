------------------------------ MODULE Barrier ------------------------------
(***************************************************************************)
(* What multiprocess-sync.cpp promises: a coordinator recruits workers one *)
(* after the other and is released only when every one of them has arrived *)
(* or is gone.  Recruiting may be given up, and then the coordinator is    *)
(* never released.                                                         *)
(***************************************************************************)
CONSTANT Workers

VARIABLES phase,     \* of the coordinator
          recruited, \* the workers started so far
          arrived,   \* the workers that finished what the coordinator awaits
          lost       \* the workers that died before that

vars == <<phase, recruited, arrived, lost>>

Init ==
  /\ phase = "recruiting"
  /\ recruited = {}
  /\ arrived = {}
  /\ lost = {}

Recruit(w) ==
  /\ phase = "recruiting"
  /\ w \notin recruited
  /\ recruited' = recruited \cup {w}
  /\ UNCHANGED <<phase, arrived, lost>>

GiveUp ==
  /\ phase = "recruiting"
  /\ recruited # Workers
  /\ phase' = "abandoned"
  /\ UNCHANGED <<recruited, arrived, lost>>

Arrive(w) ==
  /\ w \in recruited \ (arrived \cup lost)
  /\ arrived' = arrived \cup {w}
  /\ UNCHANGED <<phase, recruited, lost>>

Lose(w) ==
  /\ w \in recruited \ (arrived \cup lost)
  /\ lost' = lost \cup {w}
  /\ UNCHANGED <<phase, recruited, arrived>>

(* The release is the one step that looks at everybody. *)
Release ==
  /\ phase = "recruiting"
  /\ recruited = Workers
  /\ Workers \subseteq arrived \cup lost
  /\ phase' = "released"
  /\ UNCHANGED <<recruited, arrived, lost>>

Next ==
  \/ GiveUp
  \/ Release
  \/ \E w \in Workers : Recruit(w) \/ Arrive(w) \/ Lose(w)

Spec == Init /\ [][Next]_vars
============================================================================
