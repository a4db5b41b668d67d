-------------------------- MODULE EpollEdgeProofs ---------------------------
(***************************************************************************)
(* What waits for a terminal or a directory: the invariants of EpollEdge   *)
(* and of LevelEcho, whatever the pipe's capacity and however much is      *)
(* typed, and that DirWatch forgets no file that was announced to it,      *)
(* whatever the length of its queue and of its buffer.                     *)
(***************************************************************************)
EXTENDS EpollEdge, LevelEcho, DirWatch, SequenceTheorems, TLAPS

LEMMA EdgeInvInit == Init => EdgeInv
<1> SUFFICES ASSUME Init PROVE EdgeInv
  OBVIOUS
<1>1. TypeOK
  <2>1. /\ typed \in 0..MaxTyped /\ tty \in 0..MaxTyped /\ msg \in 0..MaxTyped
        /\ pipe \in 0..Capacity /\ echoed \in 0..MaxTyped
    BY EdgeAssumption DEF Init
  <2>2. writer \in BOOLEAN /\ edge \in BOOLEAN /\ listed \in BOOLEAN
    BY DEF Init
  <2>3. numread \in EAGAIN..1  BY DEF Init, EAGAIN
  <2> QED  BY <2>1, <2>2, <2>3 DEF Init, TypeOK
<1>2. BufferInUse  BY DEF Init, BufferInUse
<1>3. NoLostEdge  BY DEF Init, NoLostEdge
<1>4. Conserved  BY DEF Init, Conserved, EAGAIN
<1> QED  BY <1>1, <1>2, <1>3, <1>4 DEF EdgeInv

(* Each step of either process, of the user and of a signal keeps it. *)
LEMMA EdgeInvNext == EdgeInv /\ [Next]_vars => EdgeInv'
<1> SUFFICES ASSUME EdgeInv, [Next]_vars PROVE EdgeInv'
  OBVIOUS
<1> USE EdgeAssumption DEF EdgeInv, EAGAIN
<1>1. CASE UserTypes
  <2>1. TypeOK'  BY <1>1 DEF UserTypes, parentVars, TypeOK, BufferInUse, Conserved
  <2>2. BufferInUse'  BY <1>1 DEF UserTypes, parentVars, TypeOK, BufferInUse
  <2>3. NoLostEdge'  BY <1>1 DEF UserTypes, parentVars, TypeOK, NoLostEdge
  <2>4. Conserved'  BY <1>1 DEF UserTypes, parentVars, TypeOK, BufferInUse, Conserved
  <2> QED  BY <2>1, <2>2, <2>3, <2>4
<1>2. CASE ChildSelect
  <2>1. TypeOK'  BY <1>2 DEF ChildSelect, parentVars, TypeOK, BufferInUse, Conserved
  <2>2. BufferInUse'  BY <1>2 DEF ChildSelect, parentVars, TypeOK, BufferInUse
  <2>3. NoLostEdge'  BY <1>2 DEF ChildSelect, parentVars, TypeOK, NoLostEdge
  <2>4. Conserved'  BY <1>2 DEF ChildSelect, parentVars, TypeOK, BufferInUse, Conserved
  <2> QED  BY <2>1, <2>2, <2>3, <2>4
<1>3. CASE ChildRead
  <2> PICK n \in 1..tty : msg' = n /\ tty' = tty - n
    BY <1>3 DEF ChildRead
  <2>0. msg = 0  BY <1>3 DEF ChildRead, BufferInUse, TypeOK
  <2>1. TypeOK'
    <3>1. (tty \in 0..MaxTyped /\ msg \in 0..MaxTyped)'  BY DEF TypeOK
    <3> QED  BY <1>3, <3>1 DEF ChildRead, parentVars, TypeOK
  <2>2. BufferInUse'  BY <1>3 DEF ChildRead, parentVars, TypeOK, BufferInUse
  <2>3. NoLostEdge'  BY <1>3 DEF ChildRead, parentVars, TypeOK, NoLostEdge
  <2>4. Conserved'
    <3>1. msg' + tty' = tty + msg  BY <2>0 DEF TypeOK
    <3>2. /\ UNCHANGED <<typed, pipe, ppc, numread, echoed>>
          /\ cpc # "killed" /\ cpc' # "killed"
      BY <1>3 DEF ChildRead, parentVars
    <3> QED  BY <2>0, <3>1, <3>2 DEF TypeOK, Conserved
  <2> QED  BY <2>1, <2>2, <2>3, <2>4
<1>4. CASE ChildWrite
  <2>1. TypeOK'  BY <1>4 DEF ChildWrite, parentVars, TypeOK, BufferInUse, Conserved
  <2>2. BufferInUse'  BY <1>4 DEF ChildWrite, parentVars, TypeOK, BufferInUse
  <2>3. NoLostEdge'  BY <1>4 DEF ChildWrite, parentVars, TypeOK, NoLostEdge
  <2>4. Conserved'  BY <1>4 DEF ChildWrite, parentVars, TypeOK, BufferInUse, Conserved
  <2> QED  BY <2>1, <2>2, <2>3, <2>4
<1>5. CASE ChildKilled
  <2>1. TypeOK'
    <3>1. (/\ typed \in 0..MaxTyped /\ tty \in 0..MaxTyped /\ msg \in 0..MaxTyped
           /\ pipe \in 0..Capacity /\ echoed \in 0..MaxTyped /\ numread \in EAGAIN..1)'
      BY <1>5 DEF ChildKilled, parentVars, TypeOK
    <3>2. (writer \in BOOLEAN /\ edge \in BOOLEAN /\ listed \in BOOLEAN)'
      BY <1>5 DEF ChildKilled, parentVars, TypeOK
    <3> QED  BY <1>5, <3>1, <3>2 DEF ChildKilled, parentVars, TypeOK
  <2>2. BufferInUse'  BY <1>5 DEF ChildKilled, parentVars, TypeOK, BufferInUse
  <2>3. NoLostEdge'  BY <1>5 DEF ChildKilled, parentVars, TypeOK, NoLostEdge
  <2>4. Conserved'  BY <1>5 DEF ChildKilled, parentVars, TypeOK, BufferInUse, Conserved
  <2> QED  BY <2>1, <2>2, <2>3, <2>4
<1>6. CASE ParentWait
  <2>1. TypeOK'  BY <1>6 DEF ParentWait, childVars, TypeOK, BufferInUse, Conserved
  <2>2. BufferInUse'  BY <1>6 DEF ParentWait, childVars, TypeOK, BufferInUse
  <2>3. NoLostEdge'  BY <1>6 DEF ParentWait, childVars, TypeOK, NoLostEdge
  <2>4. Conserved'  BY <1>6 DEF ParentWait, childVars, TypeOK, BufferInUse, Conserved
  <2> QED  BY <2>1, <2>2, <2>3, <2>4
<1>7. CASE ParentRead
  <2>1. TypeOK'  BY <1>7 DEF ParentRead, childVars, TypeOK, BufferInUse, Conserved
  <2>2. BufferInUse'  BY <1>7 DEF ParentRead, childVars, TypeOK, BufferInUse
  <2>3. NoLostEdge'  BY <1>7 DEF ParentRead, childVars, TypeOK, NoLostEdge
  <2>4. Conserved'  BY <1>7 DEF ParentRead, childVars, TypeOK, BufferInUse, Conserved
  <2> QED  BY <2>1, <2>2, <2>3, <2>4
<1>8. CASE ParentEcho
  <2>1. TypeOK'
    <3>1. echoed' \in 0..MaxTyped
      BY <1>8 DEF ParentEcho, childVars, TypeOK, Conserved
    <3>2. listed' \in BOOLEAN  BY <1>8 DEF ParentEcho, TypeOK
    <3> QED  BY <1>8, <3>1, <3>2 DEF ParentEcho, childVars, TypeOK
  <2>2. BufferInUse'  BY <1>8 DEF ParentEcho, childVars, TypeOK, BufferInUse
  <2>3. NoLostEdge'  BY <1>8 DEF ParentEcho, childVars, TypeOK, NoLostEdge
  <2>4. Conserved'  BY <1>8 DEF ParentEcho, childVars, TypeOK, BufferInUse, Conserved
  <2> QED  BY <2>1, <2>2, <2>3, <2>4
<1>9. CASE ParentTurn
  <2>1. TypeOK'  BY <1>9 DEF ParentTurn, childVars, TypeOK, BufferInUse, Conserved
  <2>2. BufferInUse'  BY <1>9 DEF ParentTurn, childVars, TypeOK, BufferInUse
  <2>3. NoLostEdge'  BY <1>9 DEF ParentTurn, childVars, TypeOK, NoLostEdge
  <2>4. Conserved'  BY <1>9 DEF ParentTurn, childVars, TypeOK, BufferInUse, Conserved
  <2> QED  BY <2>1, <2>2, <2>3, <2>4
<1>10. CASE UNCHANGED vars
  <2>1. TypeOK'  BY <1>10 DEF vars, childVars, parentVars, TypeOK, BufferInUse, Conserved
  <2>2. BufferInUse'  BY <1>10 DEF vars, childVars, parentVars, TypeOK, BufferInUse
  <2>3. NoLostEdge'  BY <1>10 DEF vars, childVars, parentVars, TypeOK, NoLostEdge
  <2>4. Conserved'  BY <1>10 DEF vars, childVars, parentVars, TypeOK, BufferInUse, Conserved
  <2> QED  BY <2>1, <2>2, <2>3, <2>4
<1> QED
  BY <1>1, <1>2, <1>3, <1>4, <1>5, <1>6, <1>7, <1>8, <1>9, <1>10
     DEF Next, Child, Parent, Quiet

(* The inductive invariant: types, the child's buffer, the edges and the   *)
(* account of all data.                                                    *)
THEOREM EdgeInvariance == Spec => []EdgeInv
  BY EdgeInvInit, EdgeInvNext, PTL DEF Spec

(* The state keeps its types; in particular no more is echoed than typed.  *)
THEOREM EdgeTypes == Spec => []TypeOK
<1>1. EdgeInv => TypeOK  BY DEF EdgeInv
<1> QED  BY <1>1, EdgeInvariance, PTL

(* The parent never waits for an edge that has been reported already while *)
(* there is data in the pipe (terminal-io-epoll-et.c:199-217).             *)
THEOREM EdgeNeverLost == Spec => []NoLostEdge
<1>1. EdgeInv => NoLostEdge  BY DEF EdgeInv
<1> QED  BY <1>1, EdgeInvariance, PTL

(* Nothing is lost or echoed twice between the terminal and the screen.    *)
THEOREM DataConserved == Spec => []Conserved
<1>1. EdgeInv => Conserved  BY DEF EdgeInv
<1> QED  BY <1>1, EdgeInvariance, PTL
-----------------------------------------------------------------------------
(* The level-triggered twins.                                              *)

LevelTypeOK ==
  /\ how \in {"epoll", "select", "poll"}
  /\ keyed \in 0..MaxKeyed /\ line \in Nat /\ held \in Nat /\ flow \in Nat /\ shown \in Nat
  /\ atEnd \in BOOLEAN
  /\ kid \in {"none", "read", "write", "killed"}
  /\ loop \in {"wait", "look"} /\ events \subseteq {"IN", "HUP"}

(* The buffer is in use between the child's read and its last write, the   *)
(* pipe only where there is a child.                                       *)
LevelBuffers ==
  /\ kid # "write" => held = 0
  /\ how # "epoll" => kid = "none" /\ flow = 0

(* Every unit typed is at one place on its way until it is shown, and in   *)
(* no other; those in its buffer die with the child.                       *)
LevelConserved ==
  /\ shown + flow + held + line <= keyed
  /\ kid # "killed" => shown + flow + held + line = keyed

(* What the loop was told of is there when it reads: nobody else takes it. *)
ReportStays ==
  loop = "look" =>
    IF how = "epoll" THEN events = {"IN"} => flow > 0 ELSE Taken # {}

LevelInv == LevelTypeOK /\ LevelBuffers /\ LevelConserved /\ ReportStays

LEMMA LevelInvInit == LevelInit => LevelInv
<1> SUFFICES ASSUME LevelInit PROVE LevelInv
  OBVIOUS
<1>1. kid \in {"none", "read"} /\ (how # "epoll" => kid = "none")  BY DEF LevelInit
<1>2. LevelTypeOK /\ LevelBuffers
  <2>1. atEnd \in BOOLEAN  BY DEF LevelInit
  <2>2. /\ how \in {"epoll", "select", "poll"} /\ kid \in {"none", "read"}
        /\ loop = "wait" /\ events = {}
    BY <1>1 DEF LevelInit
  <2>3. /\ keyed \in 0..MaxKeyed /\ keyed = 0 /\ line = 0 /\ held = 0 /\ flow = 0 /\ shown = 0
    BY LevelAssumption DEF LevelInit
  <2> QED  BY <1>1, <2>1, <2>2, <2>3 DEF LevelTypeOK, LevelBuffers
<1>3. LevelConserved /\ ReportStays  BY DEF LevelInit, LevelConserved, ReportStays
<1> QED  BY <1>2, <1>3 DEF LevelInv

(* What read() takes is part of the line. *)
LEMMA TakenFromLine ==
  ASSUME LevelTypeOK, NEW n \in Taken
  PROVE  n \in Nat /\ n <= line
  BY DEF Taken, LevelTypeOK

LEMMA LevelInvNext == LevelInv /\ [LevelNext]_levelVars => LevelInv'
<1> SUFFICES ASSUME LevelInv, [LevelNext]_levelVars PROVE LevelInv'
  OBVIOUS
<1> USE LevelAssumption
<1>t. LevelTypeOK /\ LevelBuffers /\ LevelConserved /\ ReportStays  BY DEF LevelInv
<1>1. CASE Types
  BY <1>1 DEF Types, LevelInv, LevelTypeOK, LevelBuffers, LevelConserved, ReportStays, Taken
<1>2. CASE TypesEnd
  BY <1>2 DEF TypesEnd, LevelInv, LevelTypeOK, LevelBuffers, LevelConserved, ReportStays, Taken
<1>3. CASE KidReads
  <2> DEFINE h == held'
  <2>1. h \in Nat /\ h <= line  BY <1>3, <1>t, TakenFromLine DEF KidReads
  <2>2. /\ kid = "read" /\ held = 0 /\ kid' = "write" /\ line' = line - h
        /\ UNCHANGED <<how, keyed, atEnd, flow, loop, events, shown>>
    BY <1>3, <1>t DEF KidReads, LevelBuffers
  <2>3. LevelBuffers' /\ ReportStays'
    BY <1>3, <1>t DEF KidReads, LevelTypeOK, LevelBuffers, ReportStays
  <2>4. /\ shown + flow + line = keyed
        /\ shown \in Nat /\ flow \in Nat /\ line \in Nat /\ keyed \in Nat
    BY <1>t, <2>2 DEF LevelTypeOK, LevelConserved
  <2>5. line - h \in Nat /\ shown + flow + h + (line - h) = keyed
    <3> HIDE DEF h
    <3> QED  BY <2>1, <2>4
  <2>6. LevelTypeOK'  BY <1>t, <2>1, <2>2, <2>5 DEF LevelTypeOK
  <2>7. LevelConserved'
    <3>1. shown' + flow' + held' + line' = keyed'  BY <2>2, <2>5
    <3>2. keyed' \in Nat  BY <2>2, <2>4
    <3> DEFINE sum == shown' + flow' + held' + line'
               k == keyed'
    <3>3. sum = k /\ k \in Nat  BY <3>1, <3>2
    <3> HIDE DEF sum, k
    <3>4. sum = k /\ sum <= k  BY <3>3
    <3> QED  BY <3>4 DEF sum, k, LevelConserved
  <2> QED  BY <2>3, <2>6, <2>7 DEF LevelInv
<1>4. CASE KidWrites
  <2>1. LevelTypeOK' /\ LevelConserved'
    BY <1>4, <1>t DEF KidWrites, LevelTypeOK, LevelBuffers, LevelConserved
  <2>2. LevelBuffers' /\ ReportStays'
    BY <1>4, <1>t DEF KidWrites, LevelTypeOK, LevelBuffers, ReportStays
  <2> QED  BY <2>1, <2>2 DEF LevelInv
<1>5. CASE KidDies
  BY <1>5, <1>t
  DEF KidDies, LevelInv, LevelTypeOK, LevelBuffers, LevelConserved, ReportStays
<1>6. CASE LoopWaits
  <2>1. events' = Reported /\ loop' = "look" /\ Reported # {}
        /\ UNCHANGED <<how, keyed, line, atEnd, kid, held, flow, shown>>
    BY <1>6 DEF LoopWaits
  <2>2. Reported \subseteq {"IN", "HUP"}  BY DEF Reported
  <2>3. LevelTypeOK' /\ LevelBuffers' /\ LevelConserved'
    BY <1>t, <2>1, <2>2 DEF LevelTypeOK, LevelBuffers, LevelConserved
  <2>4. ReportStays'
    <3>1. how = "epoll" /\ Reported = {"IN"} => flow > 0
      <4> SUFFICES ASSUME how = "epoll", Reported = {"IN"}, ~(flow > 0) PROVE FALSE
        OBVIOUS
      <4>1. "IN" \in {} \cup (IF Writing THEN {} ELSE {"HUP"})  BY DEF Reported
      <4> QED  BY <4>1
    <3>2. how # "epoll" => Taken # {}  BY <2>1 DEF Reported
    <3>3. Taken' = Taken  BY <2>1 DEF Taken
    <3> QED  BY <2>1, <3>1, <3>2, <3>3 DEF ReportStays
  <2> QED  BY <2>3, <2>4 DEF LevelInv
<1>7. CASE LoopEchoesPipe
  <2>1. LevelTypeOK' /\ LevelConserved'
    BY <1>7, <1>t DEF LoopEchoesPipe, LevelTypeOK, LevelBuffers, LevelConserved
  <2>2. LevelBuffers' /\ ReportStays'
    BY <1>7, <1>t DEF LoopEchoesPipe, LevelTypeOK, LevelBuffers, ReportStays
  <2> QED  BY <2>1, <2>2 DEF LevelInv
<1>8. CASE LoopEchoesTerminal
  <2>1. PICK n \in Taken : line' = line - n /\ shown' = shown + n
    BY <1>8 DEF LoopEchoesTerminal
  <2>2. n \in Nat /\ n <= line  BY <1>t, TakenFromLine
  <2>3. LevelTypeOK' /\ LevelConserved'
    BY <1>8, <1>t, <2>1, <2>2 DEF LoopEchoesTerminal, LevelTypeOK, LevelConserved
  <2>4. LevelBuffers' /\ ReportStays'
    BY <1>8, <1>t DEF LoopEchoesTerminal, LevelBuffers, ReportStays
  <2> QED  BY <2>3, <2>4 DEF LevelInv
<1>9. CASE UNCHANGED levelVars
  BY <1>9, <1>t
  DEF levelVars, LevelInv, LevelTypeOK, LevelBuffers, LevelConserved, ReportStays, Taken
<1> QED
  BY <1>1, <1>2, <1>3, <1>4, <1>5, <1>6, <1>7, <1>8, <1>9
  DEF LevelNext, LevelKid, Loop, LoopTimesOut, LevelQuiet

(* However long the lines and however small the pipe, and at whatever      *)
(* point the child is killed: nothing is shown that was not typed, nor     *)
(* twice; and the loop does not block in the read that a report leads to.  *)
THEOREM LevelNeverLosesNorBlocks == LevelSpec => [](LevelConserved /\ ReportStays)
<1>1. LevelInv => LevelConserved /\ ReportStays  BY DEF LevelInv
<1> QED  BY <1>1, LevelInvInit, LevelInvNext, PTL DEF LevelSpec
-----------------------------------------------------------------------------
(* The directory.                                                          *)

WatchEvents == {Overflow} \cup [kind : {"create", "modify", "delete", "open"}, name : Names]

WatchTypeOK ==
  /\ tool \in {"monitor", "print"} /\ here \in BOOLEAN
  /\ files \subseteq Names /\ old \subseteq Names /\ stale \subseteq Names
  /\ queue \in Seq(WatchEvents) /\ batch \in Seq(WatchEvents)
  /\ watch \in {"poll", "read", "event", "run", "done"}
  /\ target \in Names \cup {NoName}
  /\ missed \in BOOLEAN

Mentions(es, f) == \E i \in 1..Len(es) : es[i].name = f
Complete(es) == \A i \in 1..Len(es) : es[i] # Overflow

(* The loop reads only when it has handled what it read before. *)
BatchInUse == watch \notin {"event", "run"} => batch = <<>>

(* Events say that others are missing only if they are. *)
OverflowIsMissed == ~missed => Complete(queue) /\ Complete(batch)

(* A matching file that something happened to is in the queue, in the      *)
(* buffer or in the command: the program is not done with it.              *)
MatchingAnnounced ==
  tool = "monitor" /\ here /\ ~missed =>
    \A f \in Matching \cap (files \ old) :
      Mentions(queue, f) \/ Mentions(batch, f) \/ (watch = "run" /\ target = f)

WatchInv == WatchTypeOK /\ BatchInUse /\ OverflowIsMissed /\ MatchingAnnounced

LEMMA EventFields ==
  /\ Overflow.name = NoName /\ Overflow \in WatchEvents
  /\ \A e \in WatchEvents : e # Overflow => e.name \in Names
  /\ \A kind \in {"create", "modify", "delete", "open"} : \A f \in Names :
       LET e == [kind |-> kind, name |-> f] IN e \in WatchEvents /\ e # Overflow /\ e.name = f
<1>1. Overflow.name = NoName /\ Overflow \in WatchEvents  BY DEF Overflow, WatchEvents
<1>2. ASSUME NEW e \in WatchEvents, e # Overflow PROVE e.name \in Names
  BY <1>2 DEF WatchEvents
<1>3. ASSUME NEW kind \in {"create", "modify", "delete", "open"}, NEW f \in Names
      PROVE  LET e == [kind |-> kind, name |-> f]
             IN  e \in WatchEvents /\ e # Overflow /\ e.name = f
  <2> DEFINE e == [kind |-> kind, name |-> f]
  <2>1. e \in WatchEvents /\ e.name = f  BY DEF WatchEvents
  <2>2. e # Overflow
    <3>1. f # NoName  BY WatchAssumption
    <3> QED  BY <1>1, <2>1, <3>1
  <2> QED  BY <2>1, <2>2
<1> QED  BY <1>1, <1>2, <1>3

(* One event more. *)
LEMMA MoreEvents ==
  ASSUME NEW q \in Seq(WatchEvents), NEW e \in WatchEvents
  PROVE  /\ Append(q, e) \in Seq(WatchEvents) /\ Mentions(Append(q, e), e.name)
         /\ \A f : Mentions(q, f) => Mentions(Append(q, e), f)
         /\ e # Overflow /\ Complete(q) => Complete(Append(q, e))
<1> DEFINE r == Append(q, e)
           n == Len(q)
<1>1. /\ r \in Seq(WatchEvents) /\ Len(r) = n + 1 /\ r[n + 1] = e
      /\ \A i \in 1..n : r[i] = q[i]
  BY AppendProperties
<1>2. n \in Nat  BY LenProperties
<1> HIDE DEF r, n
<1>3. n + 1 \in 1..(n + 1) /\ \A i \in 1..n : i \in 1..(n + 1)  BY <1>2
<1>4. \A i \in 1..(n + 1) : i = n + 1 \/ i \in 1..n  BY <1>2
<1>5. Mentions(r, e.name) /\ \A f : Mentions(q, f) => Mentions(r, f)
  BY <1>1, <1>3 DEF Mentions, n
<1>6. e # Overflow /\ Complete(q) => Complete(r)  BY <1>1, <1>4 DEF Complete, n
<1> QED  BY <1>1, <1>5, <1>6 DEF r

(* One event less. *)
LEMMA FirstEvent ==
  ASSUME NEW q \in Seq(WatchEvents), q # <<>>
  PROVE  /\ Head(q) \in WatchEvents /\ Tail(q) \in Seq(WatchEvents)
         /\ \A f : Mentions(q, f) => Head(q).name = f \/ Mentions(Tail(q), f)
         /\ Complete(q) => Head(q) # Overflow /\ Complete(Tail(q))
<1> DEFINE r == Tail(q)
           n == Len(q)
<1>1. /\ Head(q) \in WatchEvents /\ r \in Seq(WatchEvents) /\ Len(r) = n - 1
      /\ \A i \in 1..Len(r) : r[i] = q[i + 1]
  BY HeadTailProperties
<1>2. n \in Nat \ {0} /\ Head(q) = q[1]  BY EmptySeq
<1> HIDE DEF r, n
<1>3. 1 \in 1..n /\ \A i \in 1..(n - 1) : i + 1 \in 1..n  BY <1>2
<1>4. \A i \in 1..n : i = 1 \/ (i - 1 \in 1..(n - 1) /\ i - 1 + 1 = i)  BY <1>2
<1>5. ASSUME NEW f, Mentions(q, f) PROVE Head(q).name = f \/ Mentions(r, f)
  <2>1. PICK i \in 1..n : q[i].name = f  BY <1>5 DEF Mentions, n
  <2>2. CASE i = 1  BY <1>2, <2>1, <2>2
  <2>3. CASE i # 1
    <3>1. i - 1 \in 1..(n - 1) /\ r[i - 1] = q[i]  BY <1>1, <1>4, <2>3
    <3> QED  BY <1>1, <2>1, <3>1 DEF Mentions
  <2> QED  BY <2>2, <2>3
<1>6. Complete(q) => Head(q) # Overflow /\ Complete(r)
  BY <1>1, <1>2, <1>3 DEF Complete, n
<1> QED  BY <1>1, <1>5, <1>6 DEF r

(* Some events read, the others left. *)
LEMMA CutEvents ==
  ASSUME NEW q \in Seq(WatchEvents), NEW n \in 1..Len(q)
  PROVE  LET b == SubSeq(q, 1, n)
             r == SubSeq(q, n + 1, Len(q))
         IN /\ b \in Seq(WatchEvents) /\ r \in Seq(WatchEvents)
            /\ \A f : Mentions(q, f) => Mentions(r, f) \/ Mentions(b, f)
            /\ Complete(q) => Complete(r) /\ Complete(b)
<1> DEFINE b == SubSeq(q, 1, n)
           r == SubSeq(q, n + 1, Len(q))
           m == Len(q)
           d == n + 1
<1>1. m \in Nat /\ n \in 1..m /\ \A i \in 1..m : q[i] \in WatchEvents
  BY LenProperties, ElementOfSeq
<1>2. /\ b \in Seq(WatchEvents) /\ Len(b) = n /\ \A i \in 1..n : b[i] = q[i]
  <2>1. \A i \in 1..n : q[i] \in WatchEvents /\ 1 + i - 1 = i  BY <1>1
  <2>2. n \in Int /\ 1 <= n /\ n - 1 + 1 = n  BY <1>1
  <2>3. /\ b \in Seq(WatchEvents) /\ Len(b) = (IF 1 <= n THEN n - 1 + 1 ELSE 0)
        /\ \A i \in 1..(n - 1 + 1) : b[i] = q[1 + i - 1]
    BY <2>1, <2>2, SubSeqProperties
  <2> HIDE DEF b
  <2> QED  BY <2>1, <2>2, <2>3
<1>3. /\ r \in Seq(WatchEvents) /\ Len(r) = m - n /\ \A i \in 1..(m - n) : r[i] = q[n + i]
  <2>1. /\ d \in Int /\ m \in Int /\ \A i \in d..m : q[i] \in WatchEvents
        /\ (IF d <= m THEN m - d + 1 ELSE 0) = m - n /\ m - d + 1 = m - n
        /\ \A i \in 1..(m - n) : d + i - 1 = n + i
    BY <1>1
  <2> HIDE DEF d, m
  <2>2. /\ SubSeq(q, d, m) \in Seq(WatchEvents)
        /\ Len(SubSeq(q, d, m)) = IF d <= m THEN m - d + 1 ELSE 0
        /\ \A i \in 1..(m - d + 1) : SubSeq(q, d, m)[i] = q[d + i - 1]
    BY <2>1, SubSeqProperties
  <2>3. /\ SubSeq(q, d, m) \in Seq(WatchEvents) /\ Len(SubSeq(q, d, m)) = m - n
        /\ \A i \in 1..(m - n) : SubSeq(q, d, m)[i] = q[n + i]
    BY <2>1, <2>2
  <2> QED  BY <2>3 DEF d, m
<1> HIDE DEF b, r, m
<1>4. ASSUME NEW f, Mentions(q, f) PROVE Mentions(r, f) \/ Mentions(b, f)
  <2>1. PICK i \in 1..m : q[i].name = f  BY <1>4 DEF Mentions, m
  <2>2. CASE i <= n
    <3>1. i \in 1..n  BY <1>1, <2>2
    <3> QED  BY <1>2, <2>1, <3>1 DEF Mentions
  <2>3. CASE ~(i <= n)
    <3>1. i - n \in 1..(m - n) /\ n + (i - n) = i  BY <1>1, <2>3
    <3>2. r[i - n].name = f  BY <1>3, <2>1, <3>1
    <3> QED  BY <1>3, <3>1, <3>2 DEF Mentions
  <2> QED  BY <2>2, <2>3
<1>5. Complete(q) => Complete(r) /\ Complete(b)
  <2>1. \A i \in 1..n : i \in 1..m  BY <1>1
  <2>2. \A i \in 1..(m - n) : n + i \in 1..m  BY <1>1
  <2> QED  BY <1>2, <1>3, <2>1, <2>2 DEF Complete, m
<1> QED  BY <1>2, <1>3, <1>4, <1>5 DEF b, r, m

(* What the kernel does with an event. *)
LEMMA ReportEffect ==
  ASSUME WatchTypeOK, NEW kind \in {"create", "modify", "delete", "open"},
         NEW name \in Names, Report(kind, name)
  PROVE  /\ queue' \in Seq(WatchEvents) /\ missed' \in BOOLEAN
         /\ missed => missed'
         /\ \A f : Mentions(queue, f) => Mentions(queue', f)
         /\ ~missed' => Mentions(queue', name)
         /\ ~missed' /\ Complete(queue) => Complete(queue')
<1> DEFINE event == [kind |-> kind, name |-> name]
           full == Len(queue) >= MaxQueued
<1>1. event \in WatchEvents /\ event # Overflow /\ event.name = name /\ Overflow \in WatchEvents
  BY EventFields
<1>2. queue \in Seq(WatchEvents) /\ missed \in BOOLEAN  BY DEF WatchTypeOK
<1>3. /\ queue' = CASE full /\ Overflow \in ToSet(queue) -> queue
                    [] full /\ Overflow \notin ToSet(queue) -> Append(queue, Overflow)
                    [] OTHER -> IF queue # <<>> /\ Last(queue) = event THEN queue
                                ELSE Append(queue, event)
      /\ missed' = (missed \/ full)
  BY DEF Report
<1> HIDE DEF event, full
<1>4. CASE full
  <2>1. missed'  BY <1>3, <1>4
  <2>2. queue' \in {queue, Append(queue, Overflow)}  BY <1>3, <1>4
  <2> QED  BY <1>1, <1>2, <1>3, <2>1, <2>2, MoreEvents
<1>5. CASE ~full /\ queue # <<>> /\ Last(queue) = event
  <2>1. queue' = queue  BY <1>3, <1>5
  <2>2. Len(queue) \in 1..Len(queue)
    <3>1. Len(queue) \in Nat \ {0}  BY <1>2, <1>5, EmptySeq
    <3> QED  BY <3>1
  <2>3. queue[Len(queue)].name = name  BY <1>1, <1>5 DEF Last
  <2>4. Mentions(queue, name)  BY <2>2, <2>3 DEF Mentions
  <2> QED  BY <1>2, <1>3, <2>1, <2>4
<1>6. CASE ~full /\ ~(queue # <<>> /\ Last(queue) = event)
  <2>1. queue' = Append(queue, event)  BY <1>3, <1>6
  <2> QED  BY <1>1, <1>2, <1>3, <2>1, MoreEvents
<1> QED  BY <1>4, <1>5, <1>6

LEMMA WatchInvInit == WatchInit => WatchInv
<1> SUFFICES ASSUME WatchInit PROVE WatchInv
  OBVIOUS
<1>1. /\ queue = <<>> /\ batch = <<>> /\ stale = {} /\ watch = "poll" /\ target = NoName
      /\ missed = FALSE /\ files \subseteq Names /\ old = files
      /\ tool \in {"monitor", "print"} /\ here \in BOOLEAN
  BY DEF WatchInit
<1>2. <<>> \in Seq(WatchEvents) /\ Len(<<>>) = 0  BY EmptySeq
<1>3. WatchTypeOK  BY <1>1, <1>2 DEF WatchTypeOK
<1>4. Complete(<<>>)  BY <1>2 DEF Complete
<1>5. BatchInUse /\ OverflowIsMissed  BY <1>1, <1>4 DEF BatchInUse, OverflowIsMissed
<1>6. MatchingAnnounced  BY <1>1 DEF MatchingAnnounced
<1> QED  BY <1>3, <1>5, <1>6 DEF WatchInv

(* What others do to a file is reported, or known to be missed. *)
LEMMA HappensAnnounced ==
  ASSUME WatchInv, NEW f \in Names, NEW kind \in {"create", "modify", "delete"},
         NEW left \in SUBSET Names, left \ {f} \subseteq files, Happens(f, kind, left)
  PROVE  WatchInv'
<1>1. /\ files' = left /\ old' = old \ {f}
      /\ UNCHANGED <<tool, here, batch, stale, watch, target, enter>>
  BY DEF Happens
<1>2. WatchTypeOK /\ BatchInUse /\ OverflowIsMissed /\ MatchingAnnounced  BY DEF WatchInv
<1>3. CASE tool = "print" /\ kind = "delete"
  <2>1. UNCHANGED <<queue, missed>>  BY <1>3 DEF Happens
  <2>2. WatchTypeOK'  BY <1>1, <1>2, <2>1 DEF WatchTypeOK
  <2>3. BatchInUse' /\ OverflowIsMissed'
    BY <1>1, <1>2, <2>1 DEF BatchInUse, OverflowIsMissed
  <2>4. MatchingAnnounced'  BY <1>1, <1>3 DEF MatchingAnnounced
  <2> QED  BY <2>2, <2>3, <2>4 DEF WatchInv
<1>4. CASE ~(tool = "print" /\ kind = "delete")
  <2>1. PICK k \in {"create", "modify", "delete", "open"} : Report(k, f)
    <3>1. Report(IF tool = "print" /\ kind = "modify" THEN "open" ELSE kind, f)
      BY <1>4 DEF Happens
    <3> QED  BY <3>1
  <2>2. /\ queue' \in Seq(WatchEvents) /\ missed' \in BOOLEAN
        /\ missed => missed'
        /\ \A g : Mentions(queue, g) => Mentions(queue', g)
        /\ ~missed' => Mentions(queue', f)
        /\ ~missed' /\ Complete(queue) => Complete(queue')
    BY <1>2, <2>1, ReportEffect
  <2>3. WatchTypeOK'  BY <1>1, <1>2, <2>2 DEF WatchTypeOK
  <2>4. BatchInUse' /\ OverflowIsMissed'
    BY <1>1, <1>2, <2>2 DEF BatchInUse, OverflowIsMissed
  <2>5. MatchingAnnounced'
    <3> SUFFICES ASSUME tool' = "monitor", here', ~missed', NEW g \in Matching,
                        g \in files', g \notin old'
                 PROVE  \/ Mentions(queue', g) \/ Mentions(batch', g)
                        \/ (watch' = "run" /\ target' = g)
      BY DEF MatchingAnnounced
    <3>1. CASE g = f  BY <2>2, <3>1
    <3>2. CASE g # f
      <4>1. g \in files /\ g \notin old  BY <1>1, <3>2
      <4>2. Mentions(queue, g) \/ Mentions(batch, g) \/ (watch = "run" /\ target = g)
        BY <1>1, <1>2, <2>2, <4>1 DEF MatchingAnnounced
      <4> QED  BY <1>1, <2>2, <4>2
    <3> QED  BY <3>1, <3>2
  <2> QED  BY <2>3, <2>4, <2>5 DEF WatchInv
<1> QED  BY <1>3, <1>4

LEMMA ReadEventsAnnounced ==
  ASSUME WatchInv, ReadEvents
  PROVE  WatchInv'
<1>1. /\ watch = "read" /\ UNCHANGED <<tool, here, files, old, stale, target, enter, missed>>
  BY DEF ReadEvents
<1>2. WatchTypeOK /\ BatchInUse /\ OverflowIsMissed /\ MatchingAnnounced  BY DEF WatchInv
<1>3. CASE queue = <<>>
  <2>1. watch' = "poll" /\ UNCHANGED <<queue, batch>>  BY <1>3 DEF ReadEvents
  <2> QED  BY <1>1, <1>2, <2>1
    DEF WatchInv, WatchTypeOK, BatchInUse, OverflowIsMissed, MatchingAnnounced
<1>4. CASE queue # <<>>
  <2>1. /\ watch' = "event"
        /\ \E n \in 1..Len(queue) : batch' = SubSeq(queue, 1, n)
                                    /\ queue' = SubSeq(queue, n + 1, Len(queue))
    BY <1>4 DEF ReadEvents
  <2>2. PICK n \in 1..Len(queue) : batch' = SubSeq(queue, 1, n)
                                   /\ queue' = SubSeq(queue, n + 1, Len(queue))
    BY <2>1
  <2>3. /\ batch' \in Seq(WatchEvents) /\ queue' \in Seq(WatchEvents)
        /\ \A f : Mentions(queue, f) => Mentions(queue', f) \/ Mentions(batch', f)
        /\ Complete(queue) => Complete(queue') /\ Complete(batch')
    <3>1. queue \in Seq(WatchEvents)  BY <1>2 DEF WatchTypeOK
    <3> QED  BY <2>2, <3>1, CutEvents
  <2>4. WatchTypeOK'  BY <1>1, <1>2, <2>1, <2>3 DEF WatchTypeOK
  <2>5. BatchInUse' /\ OverflowIsMissed'
    BY <1>1, <1>2, <2>1, <2>3 DEF BatchInUse, OverflowIsMissed
  <2>6. MatchingAnnounced'
    <3> SUFFICES ASSUME tool' = "monitor", here', ~missed', NEW g \in Matching,
                        g \in files', g \notin old'
                 PROVE  \/ Mentions(queue', g) \/ Mentions(batch', g)
                        \/ (watch' = "run" /\ target' = g)
      BY DEF MatchingAnnounced
    <3>1. batch = <<>>  BY <1>1, <1>2 DEF BatchInUse
    <3>2. ~Mentions(batch, g)
      <4>1. Len(batch) = 0  BY <3>1, EmptySeq
      <4> QED  BY <4>1 DEF Mentions
    <3>3. Mentions(queue, g)
      BY <1>1, <1>2, <3>2 DEF MatchingAnnounced
    <3> QED  BY <2>3, <3>3
  <2> QED  BY <2>4, <2>5, <2>6 DEF WatchInv
<1> QED  BY <1>3, <1>4

(* An event handled: if it is of a matching file, the command is to run.   *)
LEMMA HandleEventAnnounced ==
  ASSUME WatchInv, HandleEvent
  PROVE  WatchInv'
<1> DEFINE e == Head(batch)
<1>1. /\ watch = "event" /\ batch # <<>> /\ batch' = Tail(batch)
      /\ watch' = (IF target' # NoName THEN "run" ELSE "event")
      /\ UNCHANGED <<tool, here, files, old, queue, enter, missed>>
  BY DEF HandleEvent
<1>2. WatchTypeOK /\ BatchInUse /\ OverflowIsMissed /\ MatchingAnnounced  BY DEF WatchInv
<1>3. PICK name \in NamesIn(e) :
        /\ target' = IF tool = "monitor" /\ name \in Matching THEN name ELSE NoName
        /\ stale' = stale \cup (NamesIn(e) \ {NoName})
  BY DEF HandleEvent
<1>4. /\ e \in WatchEvents /\ batch' \in Seq(WatchEvents)
      /\ \A f : Mentions(batch, f) => e.name = f \/ Mentions(batch', f)
      /\ Complete(batch) => e # Overflow /\ Complete(batch')
  <2>1. batch \in Seq(WatchEvents)  BY <1>2 DEF WatchTypeOK
  <2> QED  BY <1>1, <2>1, FirstEvent
<1> HIDE DEF e
<1>5. NamesIn(e) \subseteq Names \cup {NoName}
  <2>1. CASE e = Overflow  BY <1>2, <2>1 DEF NamesIn, WatchTypeOK
  <2>2. CASE e # Overflow
    <3>1. e.name \in Names  BY <1>4, <2>2, EventFields
    <3> QED  BY <2>2, <3>1 DEF NamesIn
  <2> QED  BY <2>1, <2>2
<1>6. WatchTypeOK'
  <2>1. target' \in Names \cup {NoName} /\ stale' \subseteq Names
    <3>1. stale \subseteq Names /\ Matching \subseteq Names
      BY <1>2, WatchAssumption DEF WatchTypeOK
    <3> QED  BY <1>3, <1>5, <3>1
  <2>2. watch' \in {"run", "event"}  BY <1>1
  <2> QED  BY <1>1, <1>2, <1>4, <2>1, <2>2 DEF WatchTypeOK
<1>7. BatchInUse' /\ OverflowIsMissed'
  BY <1>1, <1>2, <1>4 DEF BatchInUse, OverflowIsMissed
<1>8. MatchingAnnounced'
  <2> SUFFICES ASSUME tool' = "monitor", here', ~missed', NEW g \in Matching,
                      g \in files', g \notin old'
               PROVE  \/ Mentions(queue', g) \/ Mentions(batch', g)
                      \/ (watch' = "run" /\ target' = g)
    BY DEF MatchingAnnounced
  <2>1. Mentions(queue, g) \/ Mentions(batch, g)
    BY <1>1, <1>2 DEF MatchingAnnounced
  <2>2. CASE e.name = g
    <3>1. e # Overflow  BY <1>1, <1>2, <1>4 DEF OverflowIsMissed
    <3>2. name = g  BY <1>3, <2>2, <3>1 DEF NamesIn
    <3>3. target' = g /\ g # NoName  BY <1>1, <1>3, <3>2, WatchAssumption
    <3> QED  BY <1>1, <3>3
  <2>3. CASE e.name # g  BY <1>1, <1>4, <2>1, <2>3
  <2> QED  BY <2>2, <2>3
<1> QED  BY <1>6, <1>7, <1>8 DEF WatchInv

(* The command removes the file it is run for, and no other. *)
LEMMA RunCommandAnnounced ==
  ASSUME WatchInv, RunCommand
  PROVE  WatchInv'
<1>1. /\ watch = "run" /\ watch' = "event" /\ target' = NoName
      /\ UNCHANGED <<tool, here, batch, stale, enter>>
  BY DEF RunCommand
<1>2. WatchTypeOK /\ BatchInUse /\ OverflowIsMissed /\ MatchingAnnounced  BY DEF WatchInv
<1>3. CASE here /\ target \in files
  <2>1. files' = files \ {target} /\ old' = old \ {target} /\ Report("delete", target)
    BY <1>3 DEF RunCommand
  <2>2. /\ queue' \in Seq(WatchEvents) /\ missed' \in BOOLEAN
        /\ missed => missed'
        /\ \A f : Mentions(queue, f) => Mentions(queue', f)
        /\ ~missed' /\ Complete(queue) => Complete(queue')
    <3>1. target \in Names  BY <1>2, <1>3 DEF WatchTypeOK
    <3> QED  BY <1>2, <2>1, <3>1, ReportEffect
  <2>3. WatchTypeOK'  BY <1>1, <1>2, <2>1, <2>2 DEF WatchTypeOK
  <2>4. BatchInUse' /\ OverflowIsMissed'
    BY <1>1, <1>2, <2>2 DEF BatchInUse, OverflowIsMissed
  <2>5. MatchingAnnounced'
    <3> SUFFICES ASSUME tool' = "monitor", here', ~missed', NEW g \in Matching,
                        g \in files', g \notin old'
                 PROVE  Mentions(queue', g) \/ Mentions(batch', g)
      BY DEF MatchingAnnounced
    <3>1. g \in files /\ g \notin old /\ g # target  BY <2>1
    <3>2. Mentions(queue, g) \/ Mentions(batch, g)
      BY <1>1, <1>2, <2>2, <3>1 DEF MatchingAnnounced
    <3> QED  BY <1>1, <2>2, <3>2
  <2> QED  BY <2>3, <2>4, <2>5 DEF WatchInv
<1>4. CASE ~(here /\ target \in files)
  <2>1. UNCHANGED <<files, old, queue, missed>>  BY <1>4 DEF RunCommand
  <2>2. WatchTypeOK'  BY <1>1, <1>2, <2>1 DEF WatchTypeOK
  <2>3. BatchInUse' /\ OverflowIsMissed'
    BY <1>1, <1>2, <2>1 DEF BatchInUse, OverflowIsMissed
  <2>4. MatchingAnnounced'  BY <1>1, <1>2, <1>4, <2>1 DEF MatchingAnnounced
  <2> QED  BY <2>2, <2>3, <2>4 DEF WatchInv
<1> QED  BY <1>3, <1>4

LEMMA WatchInvNext == WatchInv /\ [WatchNext]_watchVars => WatchInv'
<1> SUFFICES ASSUME WatchInv, [WatchNext]_watchVars PROVE WatchInv'
  OBVIOUS
<1>t. WatchTypeOK /\ BatchInUse /\ OverflowIsMissed /\ MatchingAnnounced  BY DEF WatchInv
<1>1. ASSUME NEW f \in Names, Create(f) \/ Modify(f) \/ Delete(f) PROVE WatchInv'
  <2>0. files \subseteq Names  BY <1>t DEF WatchTypeOK
  <2>1. CASE Create(f)
    <3>1. files \cup {f} \in SUBSET Names /\ (files \cup {f}) \ {f} \subseteq files  BY <2>0
    <3> QED  BY <2>1, <3>1, HappensAnnounced DEF Create
  <2>2. CASE Modify(f)  BY <2>0, <2>2, HappensAnnounced DEF Modify
  <2>3. CASE Delete(f)
    <3>1. files \ {f} \in SUBSET Names /\ (files \ {f}) \ {f} \subseteq files  BY <2>0
    <3> QED  BY <2>3, <3>1, HappensAnnounced DEF Delete
  <2> QED  BY <1>1, <2>1, <2>2, <2>3
<1>2. CASE PressEnter \/ UNCHANGED watchVars
  BY <1>2, <1>t DEF PressEnter, watchVars, WatchInv, WatchTypeOK, BatchInUse,
     OverflowIsMissed, MatchingAnnounced
<1>3. CASE Poll
  BY <1>3, <1>t DEF Poll, WatchInv, WatchTypeOK, BatchInUse, OverflowIsMissed,
     MatchingAnnounced
<1>4. CASE BatchDone
  BY <1>4, <1>t DEF BatchDone, WatchInv, WatchTypeOK, BatchInUse, OverflowIsMissed,
     MatchingAnnounced
<1>5. CASE CommandFails
  BY <1>5, <1>t DEF CommandFails, WatchInv, WatchTypeOK, BatchInUse, OverflowIsMissed,
     MatchingAnnounced
<1> QED
  BY <1>1, <1>2, <1>3, <1>4, <1>5, ReadEventsAnnounced, HandleEventAnnounced,
     RunCommandAnnounced DEF WatchNext, Watcher, WatchQuiet

(* As long as no event was dropped and no command failed, whatever others  *)
(* do at whatever moment, and although the program's own work comes back   *)
(* to it as events and a repeated event is dropped: a matching file that   *)
(* something happened to is on the program's list.  With the fairness of   *)
(* the loop that is why MatchingGoes holds.                                *)
THEOREM NothingIsForgotten == WatchSpec => []MatchingAnnounced
<1>1. WatchInv => MatchingAnnounced  BY DEF WatchInv
<1> QED  BY <1>1, WatchInvInit, WatchInvNext, PTL DEF WatchSpec
=============================================================================
