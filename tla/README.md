# Specifications of study-linux-kernel

TLA+ models of the programs under `src/study-linux-kernel/`, the TLC
configurations that check them on small instances, and proofs, checked by
TLAPS, of what matters most about most of them for every instance.

The repository is a collection of small C and C++ programs, one or two per
subject (pipes, FIFOs, signals, sockets, I/O models, a hash table library).
They share no state; a program interacts with the kernel, with copies of itself
and with clients. So there is one specification per program or pair of
programs, each with as much of the kernel's behaviour as the program depends on
(reference counts of pipe ends, lowest free descriptor, edges of epoll, ICMP
errors of a UDP socket, signals that end a process). Paths below are relative to
`src/study-linux-kernel/`.

## 1. The system

| component | state it keeps | operations | what is hard about it |
|---|---|---|---|
| `ipc-pipe/multiprocess-sync.cpp` (and its twin `pipe-multiprocess-sync.cpp`) | a pipe, N children | fork, close, read to end-of-file | the barrier is the kernel's reference count; fork may fail half way, a child may be killed |
| `ipc-pipe/fifo-server.cpp`, `fifo-client.cpp` | one FIFO of the server, one per client pid | open (blocks for the other end), read, write, unlink at exit | open order of two processes, killed clients that leave a FIFO, pids used again, server restarts, an open nobody checks |
| `socket/socket-server-tcp-select.cpp` | set of descriptors, queue of lines, mutex | accept, insert, select, send, recv, close | two threads, a walk without the mutex, descriptor numbers used again, stale select results, a select without a timeout |
| `socket/socket-server-http-select.cpp` | as above, with a queue of responses by descriptor | as above, request parser | responses outlive their connection, requests in pieces |
| `socket/socket-server-tcp-mt.c` | one variable shared with new threads, mutex on the terminal | accept, pthread_create, recv, read, send, close | the address of a variable is handed to a thread; a thread that cannot be created |
| `socket/socket-server-tcp-mp.c` | the descriptors of each process | accept, fork, recv, read, send, close, exit | every process has copies of every connection; one terminal for all |
| `ipc-pipe/pipe-filter.cpp`, `pipe-primer.c` | the descriptor table of each process, the pipe | fork, close, dup2, exec, read, write | the reader ends only when nobody has the write end; descriptors 0 and 1 closed at the start |
| `dll/common_hashtable_dll.c` | chains in buckets, one iterator | put, get, begin, next, end, current value | put during an iteration, last node of a chain, malloc failure |
| `socket/chatroom_server.c`, `chatroom_client.c` | hash table from address to socket, array of sockets | select, recvfrom, register, sendto all | UDP errors that come back later, a full room, entries the table loses |
| `io-model/terminal-io-epoll-et.c` | pipe between two processes, ready list, timeout | select, read, write, epoll_wait | an edge comes once |
| `io-model/terminal-io-epoll.c`, `-select.c`, `-poll.c` | pipe between two processes; nothing | read, write, epoll_wait, select, poll | the end of the input; a report of more than data |
| `monitoring-files/monitoring_dir.c`, `inotify.c` | the buffer of events | poll, read, run a command | the command causes events; a queue that overflows; events without a name |
| `process/signal-sync-process.cpp`, `signal/signal_pause_bug.c`, `signal_sigsuspend.c` | mask, pending signal, child | block, fork, sigsuspend, pause, kill | a signal before the wait |
| `signal/signal_handler_ex.c` | masks of two handlers | pause, two handlers that sleep | a handler inside another |
| `signal/signal_receiver.cpp`, `signal_sender.cpp` | counters, a flag, the mask | block, unblock, count, kill | signals that merge, the last one overtaking |
| `signal/signal_nonreentrant.cpp` | static buffer of crypt(), a mutex if compiled in | crypt, lock, handler | a handler in the middle of anything |
| `io-model/terminal-io-signal-drive-v1.c`, `-v2.c`, `-optimization.c` | a flag; the queue of a real-time signal; both | read, write, sigsuspend, sigwaitinfo, handler | signals during the read, an overflowing queue |

The rest of the repository, which is not modelled, is listed with
reasons in `PROJECT.json` and in section 7.

What makes each correct:

* Pipe barrier: the parent goes on only when no child is still at work; both
  ends of the pipe are closed in the end whatever failed.
* FIFO server: never end-of-file (which the code does not ensure), no request lost, every request answered, the
  answer is the asker's; what killed clients and crashes may break, and no more.
* Broadcast server: the set and the kernel agree on the open connections; a
  line is sent as often as it was meant to be; who leaves is let go, unless `select()`
  does not look at it.
* HTTP server: a response goes to who asked; none is lost or sent twice; every
  request is answered. Its text functions: trimming trims, splitting loses
  nothing, a well-formed request is understood.
* Thread server: a thread serves its own connection and no other; what is left
  without a thread is accounted for.
* Process server: a connection ends when it should, which is later than its
  child's `close()`; no child waits for another one's prompt.
* Filter: all processes end, whatever fails, and the reader reads everything.
* Hash table: it is a map, and an iteration visits every key once.
* Chat room: everybody is sent the same lines in the same order; a client has
  one socket.
* Signal programs: a wait ends, and not early; handlers meant to exclude each
  other do; counts are what delivery promises; a handler returns; what a signal
  announces is read.
* Edge-triggered echo: no wait on a pipe with data in it; no data lost.
* Level-triggered echo: what is typed is shown.
* Directory monitor: what matches is acted on, and the program's own work does
  not keep it busy for ever.

Each hazard of the code, at its line, is in `PROJECT.json` with the properties
that would catch it.

## 2. Modules and the code

State is named after the program's variables where it has a name, and control
points (`pc`, `wpc`, `spc` ...) after the call that comes next. One action is one
system call that another process or thread can observe, with the assignments
around it.

* **PipeSync** (implements **Barrier**). `writeEnds` and `readEnds` are the sets of
  processes that hold a descriptor; `fork()` copies the parent's (`Inherit`), exit
  and a killing signal remove them. `Barrier` recruits workers, loses some, and
  releases its coordinator when each has arrived or is lost.
* **FifoRpc**. Both sides of both FIFOs. A blocking `open()` is two control points
  (`openRead`/`opening`, `openServer`/`waitServer`, ...) and the action of whoever
  opens the other end moves both. A client is identified by its pid and how
  often that pid was used. `ClientKilled` leaves the FIFO behind, because the
  `atexit` handler does not run. `swrite` is the extra write descriptor, whose open
  (line 35) may fail without anybody looking; then `ServerReadsEOF` is a turn of the loop
  that reads end-of-file and goes on.
* **SelectServer**. Main thread `MainAccept`, `MainInsert`; worker `WorkerStart` ...
  `WorkerUnlock`, in the order of the loop. `accept()` returns the lowest free
  number, so numbers are used again. `Nfds` is the loop of lines 43-49, as a function of
  the number of its turns (`MaxfdAt`). `queue` gives for each queued line how many
  sends it still has; lines are queued in the order of their numbers. A walk of
  the set while the other thread inserts is a data race; the model lets the walk
  see any non-empty part of the set (`begin()` itself is valid). `full` are the
  connections whose clients do not read, so that there is no room to send to them:
  `select()` has no timeout and returns only when one of the descriptors it looks at
  has room, or is hung up, or a line has been typed; `PeerReads` makes room.
* **HttpServer**. The same two threads (the two programs share their structure,
  not their code), and `listMsgs`, whose entries hold a descriptor number. The
  history field `to` remembers who asked. A turn of the serving pass is a
  `WorkerSend` for each response that goes out and one `WorkerReceive`; `bClosed`
  is what the turn has decided so far.
* **HttpText**. `strip`, `splitstr`, the header and request parser and the status
  code, as functions of sequences of characters, with `size_t` wrap-around at the
  two subtractions that can go below zero. `SplitLoop` is the state of `splitstr`'s loop
  after each turn. The specification only builds texts: `text` is what the chunks
  chosen so far amount to. What a request is and what it says (`WellFormed`, `StartLine`,
  `Fields`, ...) is defined for any text, by the places of its line ends, and not by
  how the text was put together.
  Three behaviours of the parser are in the model and no property complains of
  them, since nothing promises otherwise: a request without header fields is
  refused, and is answered by a method that was never set; a body that contains
  an empty line is dropped; no refusal ever produces status 400.
* **ThreadServer**. `slot` is the main thread's variable, of which each new thread is
  given the address; `ThreadStart` is the read through it. `pthread_create()` may fail:
  it returns a positive number, which the program takes for success
  (`MainCreateFails`), and detaches a thread that is none, which does nothing or
  ends the process (`MainDetachFaults`).
* **ProcessServer**. A connection has the number of its child; `holds` says which
  processes have a descriptor of it, and `fork()` copies the parent's. Since the
  parent closes nothing, no descriptor number is used again.
* **PipeFilter**. Both programs on one pipe. `table` is the descriptor table of each
  process, which `fork()` copies and an end empties; `pfd` the numbers `pipe()`
  returned, among them 0 or 1 when the program is started with those closed,
  which is what the tests in lines 55 and 90 of pipe-filter are for.
* **HashTable** (implements **KeyedMap**). Chains are sequences, a context is a
  bucket and a position. The hash function is any function from keys to buckets.
* **ChatRoom**. Uses HashTable's operators (`T == INSTANCE HashTable`) for the table
  it keeps, and adds the sockets, the datagrams in flight and their errors. `lost`
  are the sockets whose entry `put()` dropped for want of memory, `begun` the
  lines whose broadcast has begun; `ReceiveFails` is the exit when `socket()` or
  `connect()` fails for a new client.
* **EpollEdge**. `edge` is the pending report of `epoll_wait()`, `listed` the ready
  list, which holds the one registered descriptor or nothing. Data is counted in
  units of one `read()` of the parent.
* **LevelEcho**. `Reported` is what the kernel would report now; the loop keeps
  only what it was told (`events`) until it has read.
* **DirWatch**. `queue` is the kernel's, `batch` the events in the buffer, `stale` the
  names earlier events left in it: an overflow event has no name of its own.
  `RunCommand` is `rm` with its effect on the directory and the event it causes.

* **SignalKernel** is what the signal programs use of the kernel: `pending`, the
  mask, the frames of the handlers under way with the mask each restores, and
  `sigsuspend()`. `Main` and `Handler` are the conditions under which a step of the
  program or of its innermost handler can be taken. **SignalWait**
  (signal-sync-process, signal_pause_bug, signal_sigsuspend, signal_handler_ex),
  **SignalCount** (receiver and sender),
  **SignalReentry** (signal_nonreentrant) and **SignalDrivenIO** (all three versions)
  extend it, each with one action per system call or access to shared data of its
  program, and **SignalPrograms** lets one of the programs run in each behaviour.

MCPipes (PipeSync, PipeFilter, FifoRpc), MCEvents (EpollEdge, LevelEcho, DirWatch,
SignalPrograms), MCThreadServer and MCHttpServer put modules side by side in the
same way: a variable `program` (`part`) says which one takes the steps, and the
variables of the others keep a single initial value wherever they could have several.

An operator that stands just before a definition and looks like it with one
thing changed (`ParentKeepsWrite` before `ParentCloseWrite`) is a seeded bug: put in place of that
definition it must break the property `PROJECT.json` pairs it with. It is part of
no specification.

## 3. What is checked

Bounds are constants in the .cfg; no module cuts off a counter otherwise.

| run | instance | checks |
|---|---|---|
| pipes | 3 children, one mortal; 3 lines through a pipe of 2; 2 pids, 3 processes each, 1 kill, 1 server crash | barrier; implements Barrier; pipe reclaimed; the filter completes; an answer is one's own, or not older than a killed process of the pid; requests conserved; every request answered if nobody is killed; the server hangs only on what a killed client left |
| fifo_eof | 2 pids | *violation*: the server never reads end-of-file |
| select_server | 3 connections, 3 descriptors, 2 lines | set and kernel agree; what `nfds` misses; sends account for every line; who leaves is let go, with two exceptions |
| select_nfds | 2 connections | *violation*: `nfds` covers the set |
| http_responses | 3 connections, 3 descriptors, the first request in 2 pieces; texts of up to 6 of 5 characters, up to 5 of 7 kinds of line | strays explained; responses conserved; a sender is answered; strip, splitstr and parser against reference definitions |
| http_strip | texts of up to 3 characters | *violation*: strip trims |
| thread_server | 3 connections, 2 descriptors, 2 lines; 3 callers of the process server, 2 lines | no race, no mix-up; orphans are explained; a connection ends only with all its holders; who speaks gets a prompt |
| hash_table | 4 keys, 4 buckets, chain of 3 | implements KeyedMap |
| chat_room | 3 clients, room for 2, 4 lines | one socket each; same lines, same order, for everyone; lines are repeated |
| events | pipe of 2, 4 units edge-triggered, 3 level-triggered; 3 names, 2 of which match, event queue of 2, 3 acts; 3 signals, 4 lines, a real-time queue of 2 | no lost edge; conservation; all is echoed; what is typed is shown; matching files go; the monitor comes to rest; waits end for their signal; handlers exclude each other; counts; mismatches; handlers return; lines are read |
| signal_origin | 4 lines, a real-time queue of 2 | *violation*: signals taken have the code that is asserted |
| crypt_lock | 3 signals | *violation*: with the lock no result differs |

Why these are enough to be interesting:

* A descriptor number is used again as soon as its connection is closed, so two
  connections are enough for the confusion and the third can be confused by the
  second. The select servers have three descriptors, because of two adjacent
  ones `select()` looks at the smaller only, which would leave one client
  served; with three, two are, and only the largest is missed. The thread server
  has two, so that a number is used again while the other is taken.
* In FifoRpc one pid used twice is the least for a stale FIFO; a third process
  of it can be given what the second one should have had, though the second was
  not killed; and a second pid is there to be blocked behind them. One kill leaves one
  such FIFO; the proofs have any number of kills and crashes.
* Four keys in the pattern 3 + 1 over four buckets give chains with a first, an
  inner and a last node and empty buckets before, between and after.
* A queue of two overflows at the third signal; three Ctrl-C are one in a handler,
  one pending and one merged.
* Three callers are one that leaves nothing behind, one whose child's successor
  keeps its connection open, and that successor.
* Three lines through a pipe of two block the writer once; descriptors 0 and 1
  are closed in all four combinations.
* Two matching names tell whether all events of a batch are looked at. A queue of
  two overflows at the third act, and the two events of a file made and removed
  again fill it without.
* A pipe of two with four units has lines longer than the pipe, and data that
  arrives at each point of the parent's loop.

`CHECK_DEADLOCK FALSE` is set for `http_strip` only, whose texts end. Elsewhere a state in
which a program rightly waits for ever has a self-loop with the condition for it
spelt out (`AllReturned`, `AtRest`, `Idle`, `Silence`, `Quiet`, `NobodyLeft`, `FilterOver`,
`LevelQuiet`, `WatchQuiet`, `Rests`), so that any
other hang is reported.

Three properties have exceptions that a reader should know of, each a thing the code does:

* `LeaverReleased`: a client that hangs up is not let go if `select()` does not look at its
  descriptor, either because of `nfds` (below), or because the worker was already in a
  `select()` when it was inserted, and none of the clients looked at ever reads or leaves.
* `LineRepeated`: the server exits when a client that has left answers with an error, and
  when there is no socket for a new one.
* `OrphansExplained`: a connection stays without a thread when that thread missed its slot
  or could not be created.

### Findings

* `select_nfds`: `socket-server-tcp-select.cpp:46` raises `maxfd` to `*iter + 1` only when
  `*iter > maxfd`. With descriptors 4 and 5 it passes 5, and `select()` never looks at
  5; `io-model/README.md:112` says the argument is the largest descriptor plus one.
  `BlindSpotIsLast` states what remains true. The HTTP server has the same loop, and
  `SenderAnswered` has to except the same descriptor.
* `http_strip`: `socket-server-http-select.cpp:84` sets only `start` at the first
  character that is not blank, so a text with one such character comes back empty
  (or with the blanks behind it), against the comment at 58-61.
  `StripTrimsWords` states what remains true.
* `signal_origin`: `terminal-io-signal-drive-optimization.c:92` asserts that each signal
  taken comes from the kernel or from `sigqueue()`; the one the program asked for
  in line 55 has the code `POLL_IN`, so the first one taken aborts it. Its comment
  (15-16) has another explanation, that SIGIO is never received; the run shows it
  received once the queue is full. `LinesNeedKeys` states what remains true: the
  program reads a line for a Ctrl-C at most. `signal_waitinfo.c:40` has the same
  assertion, which any `kill()` fails.

* `fifo_eof`: `fifo-server.cpp:34` says of the extra write descriptor "Open an extra write
  descriptor, so that we never see EOF". Line 35 drops the result of the open, and line 36 tests
  the descriptor of the open before. When it fails, the server goes on without, and its
  loop spins on end-of-file whenever no client has the FIFO open. The other properties
  of the service hold all the same.
* `crypt_lock`: `signal_nonreentrant.cpp:11` says the way to solve the mismatches is the lock
  (`SYNC_LOCK`). It covers the call of `crypt()` (lines 71-77) but not the comparison in
  line 78, which reads the static buffer: a handler in between spoils it.
  `LockCoversItsCalls` is what the lock does achieve, and `MismatchesExplained` holds with
  and without it.

Two more were met while modelling and have no run of their own:
`monitoring_dir.c:124` prints "Press ENTER key to terminate.", but the code that reads
the key is commented out (173-181); and with `epoll_wait()` reporting `EPOLLIN | EPOLLHUP`
the test in `terminal-io-epoll.c:104` leaves what a dead child wrote in the pipe and
the loop spins on it, which is why `TypedShown` excepts that child.

## 4. Fairness

* PipeSync, FifoRpc: weak fairness of each process; a `sleep()` ends. None for
  failures of fork or of an open, for killing signals, or for a client or the server to start.
* SelectServer, HttpServer: weak fairness of the worker; in SelectServer only while it can
  run without somebody typing (`CanRun`), that is, not in a `select()` on clients none of
  which has room or has left. Strong fairness of the
  main thread's insert: it competes for a mutex that the worker takes and
  releases in every pass, so it is enabled again and again, never continuously;
  a pthread mutex promises no order, but a thread that is never let in for ever is
  not what a scheduler does. Nobody has to connect, send, read, leave
  or type.
* ChatRoom: weak fairness of the server, to which its exits belong. Datagrams and ICMP errors may be lost.
* EpollEdge, LevelEcho: weak fairness of both processes. The user need not type.
* ProcessServer: weak fairness of each child, not of the operator, so nothing that
  waits for a line is promised. PipeFilter: weak fairness of each process.
* DirWatch: weak fairness of the program and its command. What others do in the
  directory is bounded: without a bound events could keep coming and Enter never
  be looked at.
* Signals: weak fairness of the process that runs, with the kernel's delivery to
  it. Nobody has to type or to send.
* HashTable, HttpText, ThreadServer: none, and no liveness is claimed. In the
  thread server every reply waits for the operator, with the mutex held, so there
  is nothing to promise.

## 5. What is proved

All proofs are for every value of the constants, under the named assumptions of
the modules, and stand in modules of their own.

* **PipeProofs** has the programs of `ipc-pipe/`. The barrier (assumes
  `N` positive, the mortal children any subset):
  `ReadyAfterAll` is not inductive: that the read returned says only that nobody
  holds the write end. `BarrierInv` adds who holds it (`WriteEndHolders`: the parent
  while it forks, a child from its fork to its own close) and that exactly the
  children below `turn` were forked (`ForkedSoFar`). `BarrierInvariance`,
  `TypeCorrectness` and `BarrierSafety` follow, and `Refinement`: every step is
  a step of `Barrier` or leaves its variables alone.
  The FIFO service (assumes only that the bounds are natural numbers and that no pid
  is the value for "no FIFO"): which process an answer is for is nowhere in the code
  but in the pid, so `AnswerIsOwn` rests on where everything of a pid is. `Orderly`
  says it for a pid of which nobody was killed: at most one request is queued, handled or
  answered but unread, it is of the present process, and that process stands
  at a point where it waits for it. `NotBefore` is what remains after a kill. `ServerSound`
  ties the server's descriptor of a client's FIFO to its control point. `QuietStep` is the
  lemma most steps need: a step that adds nothing to what is queued, handled or
  buffered for a pid keeps its invariant. `FifoInvariance`,
  `AnswersReachTheirAskers`, whether the extra write descriptor is open or not. `RequestConserved` has an invariant of its own,
  `ConservedInv`: while nothing crashed the server reads whenever a client waits, so
  no FIFO is emptied under it (`KeepsReading`); a client that runs still has its own
  FIFO (`KeepsOwnFifo`), so the server does not give its request up; no request is from
  a process yet to come (`NoneFromLater`); and what the server is writing or closing
  belongs to a client that has stopped waiting (`NotAwaitedOnceOpen`). It holds with
  kills and recycled pids as well. `RequestsAreNotLost`.
  PipeFilter (assumes a natural volume and a pipe that holds something): `ReadsAll`, the part of `FilterCompletes`
  that needs no fairness. A reader has read everything because the end of the file
  is final: `EndIsFinal` says that a reader which ended left an empty pipe of which nobody has
  the write end, under any number it may have (0 and 1 among them), and no step hands out
  an end that nobody has; `DataKept` that what was written is in the pipe or was read;
  `WroteAll` that a writer past its writing wrote everything; `ForkedOnce` that a reader
  comes from one fork. `CloseHolds`, `ForkHolds` and `LeavesHolds` say
  what a step does to who holds an end. `ReaderReadsAll`.
* **HashTableProofs** (assumes a hash into the buckets). `TableInv` adds to the types
  that every node is in the bucket of its key and each key is there once
  (`ChainsSound`), without which an update could hit another node than get
  finds, and that the context stands at a node (`CtxValid`), which holds across
  `put` because chains only grow at their end. `TableInvariance`, and
  `TableRefinement`: the table implements `KeyedMap`. The core of it is that
  `PutIn` changes the contents at one key and the keys ahead of the iterator by at
  most that key, and that `NextCtx` moves over exactly one key.
* **EpollEdgeProofs**. EpollEdge (assumes capacity and amount are natural, capacity positive):
  `NoLostEdge` needs to know that the descriptor is listed while it is being
  read, that the timeout matches the list, and that between an `EAGAIN` and the
  removal from the list new data has left an edge; it is stated with these.
  `Conserved` needs `BufferInUse` for the child's buffer. `EdgeInv` is their
  conjunction with the types. `EdgeInvariance`, `EdgeTypes`, `EdgeNeverLost`,
  `DataConserved`.
  LevelEcho (the same assumptions): all that is typed is in the terminal, the child, the pipe or on the screen
  (`LevelConserved`), and what the loop was told of is still there when it reads, so that the read
  does not block (`ReportStays`). `LevelNeverLosesNorBlocks`.
  DirWatch (assumes that a file has a name, which is not the value for none): `MatchingAnnounced` is about
  files, and what the loop has is events, in the kernel's queue, in its
  buffer, cut at the buffer's end, or merged with an equal one. `MatchingAnnounced` with the types
  and with what the buffer, the overflow event and `missed` have to do with
  each other (`Complete`, `BatchInUse`, `OverflowIsMissed`) is inductive; `ReportEffect` is the lemma about the
  kernel's queue. `NothingIsForgotten`.
* **ConnectionProofs** (assumes that the constants are natural numbers): the two servers
  with a thread or a child for each connection.
  `NoRaceNoMixup` says what a thread has while it runs; `ThreadInv` adds what it will
  have: until a slot was missed, the slot holds the connection of the one thread that has yet to
  read it (`KeepsToItsOwn`), and for each accepted connection a thread was created or could not
  be, but for the one about to be created, which is the lowest number left (`ThreadForEach`). Threads have
  different connections, hence different descriptors, so that no close of one
  takes another's. `ThreadInvariance`, `OnlyTheRaceMixes`. `OrphansExplained`
  is about connections that nobody has, and no step says of those what becomes of them. `Owned` says who has the
  others: a thread that was created and did not miss its slot has or is going to have its own
  connection for as long as that is open, also when others miss theirs and close what is not
  their own. `OrphansAreExplained`.
  `EndsOnlyWithAll` of the process server is about a moment when nobody holds a connection,
  so the invariant says who does: connections are accepted in the order of their numbers
  (`InOrder`), the parent has all of them (`ParentHasAll`), and a child has those before its own
  and, until it closes it, its own (`ChildHasOlder`). `NewestIsCount` is the one fact about
  cardinalities: the newest connection is as many as were accepted. `ForkInvariance`,
  `ForkTypes`, `ConnectionOutlivesItsChild`.
* **SelectServerProofs** (assumes that the constants are natural numbers). `TrackInv`
  adds to `EveryConnectionTracked` what the mutex is there for: the descriptor in the main
  thread's hands is in the set only while the worker is between the close and
  the erase of that number (`InHand`), and the number being erased is either free or
  in the main thread's hands (`ServesMembers`). `TrackInvariance`, `SetMatchesKernel`. `SendsAccountedFor` needs
  besides that only typed lines are queued and lines not yet typed were not sent (`LinesInv`);
  `LinesInvariance`, `LinesAccountedFor`. `BlindSpotIsLast` is about a loop, which is a function of the number of
  its turns. The library's induction theorems cannot be used, but the least of a set of counterexamples
  can (`LeastCounterexample`, from the well-foundedness of `<`): it shows that the
  function exists (`WalkExists`, `WalkUnique`), that `maxfd` only grows (`MaxfdGrows`),
  and that it is at least each descriptor passed, and more if that
  was not the last (`MaxfdSeen`, `MaxfdAtMember`). `OnlyTheLastIsBlind`.
* **HttpProofs**. About HttpServer (assumes that the constants are natural numbers): the set and the
  kernel's table as in SelectServerProofs. For `StrayResponse` the invariant says whose is what
  is queued under a descriptor as well as what was sent (`QueuedExplained`, `SentExplained`). `Disturbed`
  would not do there: a client that left without its answer may still be sent it, so that it
  disturbs nothing any more. `Settled` asks for a witness whose connection is closed, and
  is kept by every step (`SettledKept`); a close leaves one behind if it leaves
  responses behind (`LeftBehindExplained`, with `ClosedForAReason`: a connection is closed when
  it was sent something or its client left). `ResponsesCounted` rests on what one more and one less
  in the queue do to the counts (`QueuedMore`, `QueuedLess`, `GivenMore`). `HttpInvariance`,
  `NothingLostOrSentTwice`, `StraysAreExplained`.
  About HttpText (assumes that chunks are non-empty sequences of characters): `StripTrimsAnyText`
  is `strip()` for every text, and `SplitRejoinsAnyText` is `splitstr()` for every text, separator
  and limit. The latter has a loop invariant, `SplitInv`: the window is what precedes
  (`InWindow`); there are places in the text, each the separator's first at or after the end of the one before, between
  which the fields lie (`Places`); the fields and the splits left add up to the limit (`Counted`);
  and no separator has gone by unseen since the last cut (`Watching`). `TurnSlides`, `TurnCuts` and
  `TurnIdles` are the three kinds of turn, `SplitInvAtEnd` the least turn that breaks it. That a
  cut lies behind the last one is where the separator must not overlap itself. `JoinsGiveJoin`
  turns the fields' places into what they join to. `StringsAreFaithful` is both, for each text a client can send.
  `ParsesAnyText` is the parser, for every well-formed text over any set of characters. `SplitCuts` says
  that the fields `splitstr()` returns lie exactly between the separator's occurrences, in their order, from
  which the parser's three uses follow: the one empty line parts head and body (`OneEmptyLine`),
  the lines of the head are those of `Lines`, in bijection by the place of their end
  (`HeadLines`), and a field's name and value are what precedes and follows its first colon
  (`PairOfField`); `StartLineParses`, `FieldsParse`, and `FirstOfFields`, since the parser takes the
  first `Host` by index and the definition by place. `RequestsAreParsedFaithfully` is the property of the run.
* **ChatRoomProofs** (assumes what the table needs, and that NULL is no socket). `RoomInv`
  is `OneSocketEach` with the soundness of the table and which sockets have no entry (`lost`). The proof is on top of the one
  of the table: HashTableProofs, instantiated with clients for keys and sockets for
  values, gives what `get` returns after `put` (`PutThenGet`, from `PutInSound` and
  `GetAfterPut`); its assumptions are those of ChatRoom. `TableMatchesSockets`. For
  `SameLinesSameOrder` the invariant has to say how far a broadcast has come: `LinesInv`
  has `ToCome`, the clients at or ahead of the iterator, who were sent everything but the last line,
  while all others were sent that too. The lemmas about the iteration of the table
  (`FirstSplits`, `NextSplits`) say that it begins with all who are registered and moves past one
  at a time, and five about suffixes what a line more at the end does to them.
  `EverybodyHearsTheSame`.
* **SignalProofs** (assumes that the queue has a limit of at least one and that the number of signals
  is bounded by a natural number). It is about SignalPrograms, so that one set of lemmas
  about the kernel (`DeliverEffect`, `ReturnEffect`, `SuspendEffect`, ...) serves all
  the programs. `SignalInv` has a part for each. `SyncInv`: the child's signal is blocked until the parent
  sleeps, and once sent stays pending until it wakes. `PauseInv` is about the time before
  any key. `ExInv`: at most one frame, with both signals blocked. `CountInv`: handled, pending
  and being handled together are at most what was sent and at least what the kind of signal promises;
  handlers nest, and a signal that is being handled is blocked by every frame inside it,
  or it could be counted twice. `CryptInv`: a result that is being spoilt has a run of the handler
  that no earlier result used up. `FlagInv`: unread lines are those merged and those whose
  announcement is somewhere on its way to the flag. `OptimInv`: whoever has seen SIGIO finds the
  queue still full. `QueueInv`: each unread line has its signal on its way, pending or being
  handled, or its `SIGIO` merged with one that will end the process. `LockInv`: who holds the lock, and
  what the buffer holds meanwhile. `SignalInvariance`, `WaitsEndForSignals`, `HandlersAreExclusive`,
  `StatisticsAreFaithful`, `MismatchesAreExplained`, `LeftBehindAreMerged`, `LinesNeedTheirKeys`,
  and two that no run checks: `QueueSleepsOnlyWhenRead`, that `sigsuspend()` loses no wakeup, and
  `LockCoversItsCalls`, that the lock protects each `crypt()` but not the comparison after
  it, and that a handler only ever waits for `main()`.

Only model-checked: all liveness (`PipeReclaimed`, `FilterCompletes`,
`EveryRequestAnswered`, `StuckOnlyOnKilled`, `LeaverReleased`, `SenderAnswered`, `LineRepeated`,
`SpeakerPrompted`, `AllTypedEchoed`, `TypedShown`, `MatchingGoes`, `ComesToRest`,
`HandlerReturns`, `QueueReadsAll`), since temporal reasoning about
fairness and ENABLED is beyond the prover. For some of them it is proved
that no step takes away what they rest on, so that only fairness is left to TLC: `ReaderReadsAll` for `FilterCompletes`, `EdgeNeverLost` for `AllTypedEchoed`,
`LevelNeverLosesNorBlocks` for `TypedShown`, `NothingIsForgotten` for `MatchingGoes`,
`QueueSleepsOnlyWhenRead` for `QueueReadsAll`, `LockCoversItsCalls` for `HandlerReturns`,
`RequestsAreNotLost` for `EveryRequestAnswered`. The invariants of the passing runs
are all proved.

## 6. Plan

Done: the programs of section 1. Worth doing next:

1. Proofs: what the parser makes of requests that are not well-formed (which of them it
   refuses, and that it never goes out of a line's bounds in doing so).
2. An abstract wait for a signal, which sigsuspend implements and unblock-and-pause
   does not, as a refinement.
3. The echo client over UDP, which waits for a datagram that may be lost; the shared
   file offset of two processes.

## 7. What is left out

* Programs: `PROJECT.json` lists each with its reason. Those that print one
  thing or make one call (terminal and machine information, buffers, temporary
  files, most signal samples, the message queues' command lines) have no behaviour to
  check; `signal_waitinfo.c` is covered by the assertion it shares with a modelled one.
* Data: what a line or a datagram says, except in HttpText; the length of a
  datagram, hence the write one past `msg` that 1024 bytes cause in
  `chatroom_server.c:79`; the text of HTTP responses; the length of the command in
  `monitoring_dir.c:15`; the zero bytes that `terminal-io-poll.c` writes behind each line and at
  the end of the input. The terminal takes all that is written to it.
* Directories inside a watched directory; the several events `inotify.c` asks for
  when a file is opened and closed stand as one.
* The limit of queued signals is the process's own; it is the user's, so that SIGIO
  can come earlier when other processes use it up.
* Undefined behaviour beyond its visible outcomes: a race in the set that
  corrupts the tree, `FD_SET` beyond `FD_SETSIZE`.
* Who is sent a line of the broadcast server: its queue counts sends and does not say to
  whom, and `SendsAccountedFor` counts too. What a refused HTTP request is answered: `ParsedFaithfully`
  is about well-formed ones.
* `signal_sigsuspend.c` is in the model, and waits for keys in a loop; no property
  singles it out.
* Setting up: `socket`, `bind`, `listen`, `pipe` and the creation of the select servers' worker
  succeed, or the program stops before it has any behaviour or, without the worker, has none.
