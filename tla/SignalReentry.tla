---------------------------- MODULE SignalReentry ---------------------------
(***************************************************************************)
(* signal/signal_nonreentrant.cpp: main() encrypts one word over and over  *)
(* and compares with the first result; a handler of SIGINT encrypts        *)
(* another.  crypt() works in a static buffer and returns a pointer to it. *)
(* The program can be compiled with a mutex around both calls.             *)
(***************************************************************************)
EXTENDS SignalKernel

CONSTANT MaxInts  \* Ctrl-C typed

VARIABLES
  syncLock,  \* compiled with SYNC_LOCK
  mutex,     \* g_mtx: who holds it
  buffer,    \* what the static buffer holds
  disturbed, \* the handler used the buffer during main's crypt()
  ints, mismatch, handled

cryptVars == <<syncLock, mutex, buffer, disturbed, ints, mismatch, handled>>

ReentryInit ==
  /\ syncLock \in BOOLEAN
  /\ mutex = "free" /\ buffer = "main" /\ disturbed = FALSE
  /\ ints = 0 /\ mismatch = 0 /\ handled = 0

CryptKey ==
  /\ program = "crypt"
  /\ ints < MaxInts
  /\ ints' = ints + 1
  /\ pending' = Posted("INT")
  /\ UNCHANGED <<program, pc, blocked, frames, asleep, restore, syncLock,
                 mutex, buffer, disturbed, mismatch, handled>>

Take(who) == IF syncLock THEN mutex = "free" /\ mutex' = who ELSE UNCHANGED mutex
Release == mutex' = "free"

MainLock ==
  /\ Main("crypt", "start")
  /\ Take("main")
  /\ pc' = "crypt"
  /\ UNCHANGED <<program, pending, blocked, frames, asleep, restore, syncLock,
                 buffer, disturbed, ints, mismatch, handled>>

MainCryptBegins ==
  /\ Main("crypt", "crypt")
  /\ pc' = "crypting"
  /\ disturbed' = FALSE
  /\ UNCHANGED <<program, pending, blocked, frames, asleep, restore, syncLock,
                 mutex, buffer, ints, mismatch, handled>>

MainCryptOnce ==
  /\ Main("crypt", "crypting")
  /\ pc' = "unlock"
  /\ UNCHANGED <<program, pending, blocked, frames, asleep, restore, cryptVars>>

(* If the handler's crypt() came in between, the result may be garbage. *)
MainCryptEnds ==
  /\ Main("crypt", "crypting")
  /\ pc' = "unlock"
  /\ buffer' \in {"main"} \cup IF disturbed THEN {"garbage"} ELSE {}
  /\ UNCHANGED <<program, pending, blocked, frames, asleep, restore, syncLock,
                 mutex, disturbed, ints, mismatch, handled>>

MainUnlock ==
  /\ Main("crypt", "unlock")
  /\ Release
  /\ pc' = "compare"
  /\ UNCHANGED <<program, pending, blocked, frames, asleep, restore, syncLock,
                 buffer, disturbed, ints, mismatch, handled>>

(* The comparison reads the buffer, which nothing protects any more. *)
MainCompare ==
  /\ Main("crypt", "compare")
  /\ mismatch' = mismatch + IF buffer = "main" THEN 0 ELSE 1
  /\ pc' = "start"
  /\ UNCHANGED <<program, pending, blocked, frames, asleep, restore, syncLock,
                 mutex, buffer, disturbed, ints, handled>>

CryptDeliver == Deliver("crypt", "INT", {}) /\ UNCHANGED cryptVars

HandlerLock ==
  /\ Handler("crypt", "entry")
  /\ Take("handler")
  /\ Goes("crypt")
  /\ UNCHANGED <<program, pc, pending, blocked, asleep, restore, syncLock,
                 buffer, disturbed, ints, mismatch, handled>>

HandlerCrypt ==
  /\ Handler("crypt", "crypt")
  /\ buffer' = "handler" /\ disturbed' = TRUE
  /\ Goes("unlock")
  /\ UNCHANGED <<program, pc, pending, blocked, asleep, restore, syncLock,
                 mutex, ints, mismatch, handled>>

HandlerKeepsLock ==
  /\ Handler("crypt", "unlock")
  /\ handled' = handled + 1
  /\ Return
  /\ UNCHANGED <<syncLock, mutex, buffer, disturbed, ints, mismatch>>

HandlerUnlock ==
  /\ Handler("crypt", "unlock")
  /\ Release
  /\ handled' = handled + 1
  /\ Return
  /\ UNCHANGED <<syncLock, buffer, disturbed, ints, mismatch>>

CryptStep ==
  \/ MainLock \/ MainCryptBegins \/ MainCryptEnds \/ MainUnlock \/ MainCompare
  \/ CryptDeliver \/ HandlerLock \/ HandlerCrypt \/ HandlerUnlock

-----------------------------------------------------------------------------
(* Properties.                                                             *)

(* Each run of the handler spoils at most one result, that of the call it  *)
(* fell into: the next call has the buffer to itself from the start.       *)
MismatchesExplained == mismatch <= handled

(* A handler returns, and the program goes on, unless it was compiled with *)
(* the lock and the handler interrupted main() while that held it.         *)
HandlerReturns ==
  program = "crypt" /\ frames # <<>> ~> frames = <<>> \/ (syncLock /\ mutex = "main")

(* "The way to solve this problem is to add a synchronisation lock"        *)
(* (signal_nonreentrant.cpp:11): with it no result differs from the first. *)
(* The code does not keep this promise: crypt()'s buffer is compared after *)
(* the lock has been given back.                                           *)
LockCures == syncLock => mismatch = 0
=============================================================================
