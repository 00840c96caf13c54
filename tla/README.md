# Verification of taskmaster

TLA+ models of the taskmaster daemon, TLC configurations that check them on small
instances, and TLAPS proofs for every value of the constants. The models are
translated from the C++ sources under `src/` and `include/`; line numbers are those
of the commit they stand beside. `PROJECT.json` maps every definition to its lines.

    tlc -workers 2 -config Lifecycle.cfg MCTaskManager     # a run
    tlapm TaskManagerProofs.tla                            # the proofs of a module

## 1. The system

`taskmasterd` starts programs described in a YAML file, watches them, restarts them
and stops them; `taskmasterctl` is an interactive client that talks to it over a
Unix socket. The daemon has two threads:

* the **main thread** (`Taskmaster::loop`) sleeps in `poll(2)` over a list of
  descriptors and handles what it returns: commands of clients, connections, the
  output of programs, a wake-up pipe; between batches it reloads the configuration;
* the **worker** (`TaskManager::work`) passes over all processes again and again and
  takes one step of the state machine of each.

They share the process pool (one mutex, held by the worker for a whole pass and by
the main thread while it handles a command or swaps pools), the list `PollFds` (a
mutex per operation) and the atomic `_stop_token`. The worker wakes the main thread
by a byte in a pipe. There is no other synchronisation; the state of a program is
known only by `waitpid(WNOHANG)` on the next visit.

### Inventory

| component (source) | state | operations | what makes it correct |
|---|---|---|---|
| **Process** (`Process.cpp`) | state, previous state, pending command, retries, pid, status, timestamps, pipes, attached clients | `start`, `stop`, `kill`, `update_status`, restart decision, `forward_output`, `attach_client` | the pid is that of a child to be waited for; the kill comes after the stop signal and its delay; output goes to the program's own clients |
| **TaskManager** (`TaskManager.cpp`) | the worker thread, `_stop_token` | `work`, the five `fsm_*_task`, `fsm_transit_state`, `exit_gracefully`, `exit_process_gracefully` | one child per process; bounded retries; commands are not lost; every child is gone at the end, whatever threw |
| **Taskmaster** (`Taskmaster.cpp`) | main thread, `_running`, client sessions, `sighup_received_g` | `loop`, `handle_*`, `reload_config`, `disconnect_client`, command callbacks | a reload drops no living child; it is answered; a quit ends the daemon |
| **PollFds** (`PollFds.cpp`) | list of descriptors with type and stale flag | add, remove, stale, snapshot | no closed number is polled; lookups find the right entry |
| **ProcessGroup, ProcessPool** | processes per program, log files | construction, `stop`, destruction, move between pools | the pool is that of the file; a reload that fails changes no group; every open log has one owner |
| **ClientSession** | connection, reload request | `recv_command`, `send_response` | answers come in the order of the commands; a command is thrown away only if it was sent before its turn |
| **UnixSocketServer** | the socket and its path | bind, accept, close, unlink | the path names the daemon that serves |
| **main.cpp** | pid file with its lock | start, fork, clean-up | one daemon at a time |
| **ConfigParser** | none | parse with defaults and ranges | what is accepted is what the daemon can run |
| **TaskmasterCtl** (client) | attach loop, 3 s timeout, `sigint_received_g` | one function per command | an answer belongs to its command; the prompt comes back |
| **CommandManager** (both sides) | a table of commands | look up, count words | what the client sends is what the daemon runs |
| **Logger** | a file | write | no decision depends on it |

### What is hard in it

`PROJECT.json` lists the hazards at their lines. They fall into these groups:

* the two threads and the kernel: a child ends between two visits, a command arrives
  between two visits, a number is closed and reused between two steps;
* decisions from old knowledge: `status.running` and `previous_state` of the last
  visit, the stale flag of a snapshot, a pid or a descriptor number kept too long;
* failures in the middle: an exception on the visit of one process while the others
  are in any state; a reload while the worker is already in `exit_gracefully`;
* time: the delay before SIGKILL, the retries before starttime, the client's timeout;
* a byte stream read in chunks: the daemon keeps the first line of what it reads, the
  client shows whatever has come as the answer to its last command;
* the start of a daemon beside the end of another one.

## 2. Modules

| module | models | state and actions |
|---|---|---|
| `Process` | members and member functions of Process, as operators on a record; the kernel's view of its child as one word | no variables |
| `TaskManager` | the worker, the commands of the main thread, the children, the clock | one action per visit (`FsmStart` ... `FsmStopped`), per step of the exit (`ExitStopped`, `ExitDemote`, `ExitAwait`), `AskForPass`/`BeginPass` for the test of the token and the lock |
| `Supervision` | abstract: what may happen to the children of any correct supervisor | fork, stop, kill, die, reap, close |
| `ReloadedSupervision` | abstract: `Supervision` with reloads at any moment | `EXTENDS Supervision`; a reload keeps a process with its child or replaces it |
| `Reloads` | abstract: the programs of a daemon whose reloads are one step | start, reload, end |
| `Dialogue` | abstract: what becomes of the commands of a client | send, answer, throw away behind one that is kept |
| `Handover` | abstract: who a descriptor number belongs to | take, write, read, give up, close, forget |
| `Succession` | abstract: daemons that follow one another | begin, arrange, serve, leave, end, forget |
| `ProcessOutput` | descriptors, pipes, clients, `PollFds`, the output half of the main loop | one action per step that another thread can come between |
| `Taskmaster` | the main thread with commands, reload, SIGHUP, quit and join, around the whole of `TaskManager` | `EXTENDS TaskManager`; `SwapPools` replaces the processes |
| `Daemon` | start and end of several daemons: pid file, lock, socket path | one action per system call of `main.cpp` |
| `ConfigParser` | which files, names and values are accepted, the defaults, the configuration that results | operators on a file given as a tree; no variables |
| `ProcessPool` | the construction of the groups with their log files, and `reload_config` while programs enter, change and leave the file | `EXTENDS ConfigParser`; `OpenStdout`, `OpenStderr`, `OpenFails` for the constructor of a group, then one action per program for the two loops of the reload |
| `CtlSession` | taskmasterctl and the main thread over two byte streams | `Type`, `Receive`, `Timeout`, ... for the client; `HandleCommand` with `Ask`, `Reload`, `Quit`, `Attach`, `Detach`, `Refuse` for the daemon |
| `MCTaskManager`, `MCTaskmaster`, `MCProcessOutput`, `MCDaemon`, `MCProcessPool`, `MCCtlSession` | the instances for TLC | constants only |
| `TaskManagerProofs`, `TaskManagerRefinement`, `TaskmasterProofs`, `DaemonProofs`, `ProcessPoolProofs`, `CtlSessionProofs`, `ProcessOutputProofs`, `ProcessOutputRefinement` | theorems | no definitions of the system |

The modules cut the daemon along what its parts share. `TaskManager` and `Taskmaster`
have the processes and the pool mutex, `ProcessOutput` the descriptors and the list
between the two threads, `ProcessPool` what the main thread alone does to the pool
between two batches, `CtlSession` what passes between it and a client. Where one of
them stands for what another has in detail, it takes any outcome the other allows:
`ReloadConfig` of `CtlSession` drops or changes the program as it likes, or a kill(2)
that fails takes the daemon out of its loop with the request unanswered (`KillFails`, as
in `ProcessPool`); the worker of `ProcessPool` (`Visit`) finds any process running or not
at any time.

Each of these modules implements an abstract one that leaves the mechanism out and
keeps the promise: `TaskManager` implements `Supervision`, `Taskmaster`
`ReloadedSupervision`, `ProcessPool` `Reloads`, `CtlSession` `Dialogue`,
`ProcessOutput` `Handover` and `Daemon` `Succession`. The refinement mappings stand at the end of the detailed
modules (`INSTANCE ... WITH`); a run checks each of them and a theorem proves it. The
abstract modules are also where the parts meet: the step that `Taskmaster` takes for a
whole reload (`SwapPools`) takes a set of configurations as a whole, as `Reloads`
does, and `Reloads` is what the many steps of `ProcessPool` amount to.

### How the code is rendered

* **The pool mutex.** A pass of the worker is the set `todo` of the processes it has
  still to visit; the mutex is free exactly when `todo = {}`, and every step of the
  main thread that takes it has this guard. `work()` tests `_stop_token` before it
  takes the mutex; in between (`asks`) the main thread may quit, change commands or
  swap the pool, and the pass is made nevertheless. The order of visits in a pass is
  left open: the code's is that of a map, and nothing depends on it.
* **A visit is one step** of the worker: it runs under the mutex and touches, besides
  the atomic token, only what the mutex protects. What is outside that protection
  (the child, the clock, the token) moves between visits; the child may also end
  between `fork` and the first `waitpid`, which `FsmStart` lets it do.
* **Exceptions.** A visit that throws (`FsmStartFails`, the stop of a child that has
  just been reaped, a refused `kill`) ends the pass and sends the worker to
  `exit_gracefully` (`Throw`), with the process left as the code leaves it.
* **Time.** `runtime` and `stoptime` count seconds up to the value they are compared
  with, so the state space is finite without a bound on time.
* **History.** `attempts` (forks in a row), `subscribed`, `stray` and `raced` record
  what properties speak of; no guard reads them.
* **Descriptor numbers** are a small set shared by pipes and connections, so every
  number is reused. Closing a number and removing it from the list are separate
  steps, as are `pipe(2)` and `add_poll_fd`, and as are a change of the list by the
  worker (`Register`, `StaleProcess`) and the byte that wakes the main thread
  (`WakeMain`): the list has its own mutex, and the main thread copies it and polls
  without the pool mutex, so it may do either in between (`waking`). A Process has one
  pipe in the model (standard error takes the same path).
* **A batch** is a set of events, handled in any order but for the server and the wake-up
  pipe, which the constructor of Taskmaster lists first (`Position`).
* **A reload** in `Taskmaster` reads the file, builds the new pool, and swaps it under
  the mutex in one step. The set of program names and the number of processes of each
  stay the same. A program that has changed gets new objects; its old child is no
  longer anybody's, and `stray` records whether it was left alive without SIGKILL.
  `ProcessPool` has the same reload in its single steps, with programs that enter and
  leave the file; the worker can only find its processes running or ended meanwhile.
* **A configuration file** is the tree YAML::LoadFile returns: whether there is a
  section `process`, and its entries in order, each a name and the fields it has. A
  value whose conversion throws is the model value `Bad`, a scalar in the place of a
  list is `Scalar` (it has no items, so it is read as an empty list). Which commands
  expand, and which directories and files there are, are constants.
* **Log files** are descriptors; the lowest free one is taken. `/dev/null` takes one as
  well, so `Fds` bounds the groups that can be open.
* **The streams** of a connection hold whole messages. A read takes all that is there:
  `recv_command` keeps the first line and throws the rest away (`dropped`), the client
  shows everything. A command has the number it was sent with, an answer the number of
  its command, output the number 0: the code has no such numbers, and no guard of
  the client reads them; what the client does depends on time alone.
* **The timeout** of three seconds may pass at any moment at which the client waits,
  as the daemon may be as slow as it likes.
* **Early returns.** `early` records that a call of `receive_response` returned without
  its answer, `hasty` the commands that were sent after that or to end an attach.
* **The pid file** is a name and a set of files it may name; the lock belongs to the
  open file description, which the parent of the daemon and the programs also hold.

## 3. Runs

`Codes` are exit statuses; with `exitcodes` {0} a child ends as expected with 0 or by a
signal and unexpectedly with 1. One value 0 and one other value are enough for
`starttime` and `startretries`, which the code compares with 0 and with a counter;
`stoptime` is 2 so that a delay can be partly over.

The type invariant of a module is a part of its inductive invariant (`IndInv`, `MainInv`,
`OutputInv`, `PoolInv`, `SessionInv`, `DaemonInv`) and is checked with it.
`AnswersInOrder` is implied by `SessionInv`, by the proof of `AnswersComeInOrder`, and no
run checks it by itself.

| run | instance | shows |
|---|---|---|
| `Lifecycle` | 1 process, 48 configurations, codes {0, 1}; pipe, fork and kill may fail; fair worker and clock | `IndInv`; pids track children (`PidTracksChild`); retries are bounded (`RetryBudget`); SIGKILL comes last (`KillIsLastResort`); a restart is consumed only by the fork and a stop only in Stopped (`RestartNeverLost`, `StopNeverLost`); stop and restart are taken (`CommandsAreTaken`) and the shutdown ends (`ShutdownCompletes`), with a child that ignores the stop signal |
| `Groups` | 2 processes of one program; fork may fail | an exception in the middle of a pass: no fork over a child (`NoChildBeforeFork`), nothing left at the end (`NoChildLeftBehind`), refinement of `Supervision` (`Supervises`) |
| `Output` | 2 processes, 1 client, 2 descriptor numbers, symmetry | `OutputInv`; `PolledFdsAreOpen`, `LookupsSucceed`, `ClosesOnlyStale`, `RunningIsPolled`, `SubscribersAreServed`; the main thread polls a list that is out of date only if a byte waits in the wake-up pipe or the worker is about to write it (`NoLostWakeUp`) |
| `OutputLive` | 1 process, 1 client, 2 numbers, fair threads | output is read (`OutputIsForwarded`) and stale pipes are closed (`StaleIsRemoved`); refinement of `Handover` (`HandsOver`): no pipe is closed in use, or before its output is read unless its process has started again |
| `Reload` | 1 program, 2 files that differ, fair threads | `MainInv` at any reload; `NoStray`, `DaemonLeavesNothing`; reloads are answered (`ReloadIsAnswered`) and a quit ends the daemon (`QuitEndsDaemon`); refinement of `ReloadedSupervision` (`SupervisesAndReloads`) |
| `Daemon` | 3 starts, 3 files, symmetry; starts fail or are killed at any point | `DaemonInv`, with `SocketNamesServer` and `PidFileNamesDaemon`; two daemons run only if a start fell between `close` and `unlink` of the pid file (`OneDaemon`); refinement of `Succession` (`SucceedEachOther`): nobody but the daemon that runs touches the socket path and the recorded pid, and neither changes while it serves |
| `Pool` | 2 programs, 14 files (accepted, refused, with a log that cannot be opened), 8 descriptors | `PoolInv`; after any sequence of reloads: the pool holds what the file says (`PoolIsFile`); a failed reload changes no group, a refused file no log (`FailureChangesNothing`, in `PoolInv`); every open log has one owner (`LogsAreOwned`); nothing is dropped live (`DropsOnlyTheDead`); refinement of `Reloads` (`ReloadIsAtomic`) |
| `Session` | 1 shell with 3 commands, and a detach for every attach; a fair client | `SessionInv`; without an early return nothing is under way at the prompt (`Synchronised`); only hasty commands are thrown away (`DropsNeedHaste`); the prompt comes back unless output never ends (`PromptReturns`); refinement of `Dialogue` (`ServesInOrder`): commands are answered in order, at most once |

Two processes with two numbers are the smallest instance in which a number moves from
one program to another while the first is still being cleaned up; a third number would
only make reuse rarer. `OutputLive` has one process, whose next life may take either
number and whose number the client may take: that is every transfer of `Handover`, of
which the proof covers any number of processes. In `Groups` two processes are enough for
one to throw while the other is in any state. One process is enough where the property
speaks of a single process, because processes interact only through an exception and the
end of the worker (`Groups`). Three starts are needed for two daemons beside the one
that ends. `MaxData = 1` bounds the reads' worth of data in a pipe.

In `Pool` eight descriptors hold two pools of two programs, so the logs of a reload can
all be opened; when a constructor has left one open, the next reloads run out, which
is the other case. Files differ in one field that is compared, in `startretries`
that is not, in the set of programs, and in each reason for which a file is refused.

In `Session` three commands are what it takes for an answer to come two prompts late
and for a command to be thrown away behind another one; `MaxSent` bounds what a user
types and `MaxDown = 2` the messages that output adds to a stream that the client
does not read, answers not counted. One client is enough where the property speaks of
one: clients meet only in the order in which the main thread handles a batch, which
the answers of one client do not depend on. The theorems of `CtlSessionProofs` hold
for any number of clients.

### Where the code differs from its texts

Each run below checks one sentence of the program's own texts and TLC returns a
behaviour that contradicts it.

| run | what happens |
|---|---|
| `StopEndsDaemon` | The child ends by itself just before the first visit in Exiting: `update_status` reaps it, `stop()` finds pid -1 and throws, and the worker shuts everything down (`TaskManager.cpp:264`). |
| `StopUndone` | A stop is pending when the child ends: `fsm_stopped_task` clears it and autorestart starts the program again (`TaskManager.cpp:292`). By the same line a start accepted in that window is lost. |
| `WrongReader` | An ended process still answers to the number of its closed pipe, and reads the output of the program whose pipe has taken the number (`Taskmaster.cpp:154`). |
| `BrokenPipe` | A client that leaves before its answer is written, or while attached, makes the daemon write to a closed connection; SIGPIPE ends the daemon (`ClientSession.cpp:39`, `Process.cpp:308`). |

The window at the end of `main` (`main.cpp:51`) is stated the other way round:
`OneDaemon` holds unless `raced`. Other properties keep to what the code does in the
same way, and name what they leave out:

* `PoolIsFile` leaves `startretries` out: `compare_config` (`Taskmaster.cpp:354`) does
  not look at it, so a reload that changes nothing else keeps the old value.
* `FailureChangesNothing` speaks of groups, and of logs for a refused file only: a
  reload that reads its file opens the logs of every program with `O_TRUNC`, also of
  those it keeps, and when it fails later.
* `LogsAreOwned` counts descriptors nobody owns (`leaked`): when the second log of a
  group cannot be opened, the first one stays open (`ProcessGroup.cpp:24`).
* `DropsOnlyTheDead` excepts a kill(2) that fails: the exception leaves `reload_config`
  and the daemon ends without the programs that it was to keep.
* `HandsOver` lets the last output of a program go unread when the program starts again
  before the main thread has read it: `start()` overwrites the number of the pipe, so
  no process answers to the old one, and `handle_process_output` closes it as soon as
  it is stale (`Taskmaster.cpp:154-164`, the role `abandoned`). A pipe that is staled
  between the close of its number and its removal from the list is never closed
  (`lost`), as are the pipes of programs that a reload replaces while they run.
* `Synchronised` speaks of a client none of whose calls returned early: after a timeout
  the late answer is shown at a later prompt, for ever one behind.
* `DropsNeedHaste` allows the detach at the end of an attach to be thrown away: the
  daemon may read it together with the attach and keep only the first line.
* `ValidName` of `ConfigParser` accepts a name of any length, as `ConfigParser.cpp:297`
  does, against the message at `:63`: the limit is tested only if the name is empty.
* `PromptReturns` excepts a closed connection and endless output. Once `read` returns 0
  the loop of `receive_response` has no exit (`TaskmasterCtl.cpp:140`). Attached to a
  program that writes faster than the client reads, the loop at `TaskmasterCtl.cpp:132`
  polls with timeout 0, always finds data, and does not get back to line 87, the only
  one that tests `sigint_received_g`: Ctrl-C then does nothing, against "press Ctrl-C to
  detach" (`CommandManager.cpp:64`). Without this hypothesis TLC returns the loop
  `Receive`, `PollReturns`, `Output` with `sigint` set.

## 4. Fairness

* The worker always takes its next step (weak fairness): it is a thread that never
  waits except for the mutex, and the main thread releases that within one step.
* The clock advances, and a child that was sent SIGKILL ends. Nothing is assumed of a
  child that was sent another signal, of users, or of clients.
* Steps of the main thread that need the pool mutex get strong fairness: the worker
  gives the mutex back and takes it again for ever, so they are enabled only again
  and again. `std::mutex` does not promise this (hazard at `TaskManager.cpp:45`); the
  liveness of the main thread rests on it.
* `poll(2)` returns when the wake-up pipe has data. It may return for other reasons
  at any time, but is not assumed to: a SIGHUP alone does not end it, as in the code.
* The worker writes the wake-up byte after it has changed the list (weak fairness of
  `WakeMain`): nothing stops it between the two calls.
* The client goes on with what it is at (weak fairness of `ClientStep`). Between each of
  its reads and the next poll output may come, for ever: nothing in the code prevents
  it, so `PromptReturns` has the end of the output as its hypothesis. The user and, in
  `CtlSession`, the daemon are not assumed to do anything.

## 5. Proofs

Proved for any number of processes and programs, any configurations, and any exit
statuses (`Codes` is a set of bytes that contains 0: a child that died from a signal
has `WEXITSTATUS` 0).

**The worker** (`TaskManagerProofs`). None of the safety properties is inductive:
that a visit which calls `waitpid` finds a pid depends on where `previous_state` says
the process comes from; that SIGKILL comes last depends on what Exiting has already
sent. `IndInv` (in `TaskManager`) collects this per process, as a relation between
its record, its child, its configuration, its forks in a row and the phase of the
worker: `PidInv`, `StopInv`, `AliveInv`, `AttemptInv`; and `ExitInv` for the passes of
`exit_gracefully`. The proof has lemmas on the operators (what `UpdateStatus`,
`Transit`, ... return), one lemma per action, and a lemma that carries a step of one
process to the whole table. From it: `TypeCorrectness`, `PidSafety`,
`OneChildPerProcess`, `GracefulExit`, `RetriesAreBounded`, and the action properties
`RestartIsTaken`, `StopIsTaken`, `KillComesLast`.

**Refinement** (`TaskManagerRefinement`): when kill(2) does not fail, every step of
the worker, the main thread, the children and the clock is a step of `Supervision`
or changes nothing in it. The map takes the children as they are, and
`work`/`exit`/`done` to open/closing/closed. A refused kill makes the code forget a
living child, so the condition is necessary; `OneChildPerProcess`, `GracefulExit`
and the results on reloads carry it as well. TLC shows it on the instance `Groups`.

**The daemon** (`TaskmasterProofs`): `MainInv` is `IndInv` with the types of the main
thread, `LiveIsKnown` (a child that may live on was seen running by the last visit,
if the program has a starttime) and `NoStray`. `SwapPools` preserves it at whatever
moment it happens, the passes of `exit_gracefully` included, because the new objects
satisfy `PidInv` with no child. Hence `DaemonTypes`, `ReloadKillsWhatItDrops` and
`DaemonEndsClean`. `DaemonRefinement` says the same of every step: the daemon implements
`ReloadedSupervision` when kill(2) does not fail. A step of the main thread that is not
a reload leaves the children to the steps of the worker, which `TaskManagerRefinement`
has mapped already; `SwapPools` is a reload, of which `LiveIsKnown` shows that a child
it leaves alive belonged to a program without starttime.

**Start and end** (`DaemonProofs`): `DaemonInv` says that a start which has opened the
pid file holds it, that one description has the lock on a file, and that outside the
window the file that is held is the one with the name. Hence `DaemonRunsOnce`,
`DaemonIsReachable`, `PidFileIsRight`. `DaemonsSucceedEachOther` proves that the starts
implement `Succession` outside the window: a lock that is granted means that nobody
runs, since whoever runs has the lock on the same file, and a name that is unlinked
while a daemon runs is the window. The pid recorded is what a reader of the path finds,
so that creating the file, which gives the path a new empty file, records nothing.

**The pool** (`ProcessPoolProofs`), for any files, programs, directories and number of
descriptors. `ParsedIsConfig` says that what the parser accepts is a configuration in
the sense of `Process`, on which the theorems of the worker rest. `PoolInv` adds to
the properties where the loops of the main thread are (`Progress`), where each group
comes from (`Origins`: built from the file, or taken over with its configuration and
logs), and that the groups of the two pools share no descriptor (`Descriptors`):
without this, the destructor of one group could close the log of another. Hence
`TypeCorrect`, `ReloadMakesTheFile`, `FailedReloadIsHarmless`, `EveryLogIsOwned` and
`ReloadDropsOnlyTheDead`. `ReloadsAreAtomic` proves that the steps of a reload implement
the single step of `Reloads`. The map shows the pool in use until the move assignment,
so every step before it, and every failure, must leave that pool alone; the step that
installs the new one must be the whole reload. For this the invariant remembers that
the file at hand is one that can be read and was accepted (`WasRead`).

**The dialogue** (`CtlSessionProofs`), for any number of clients and commands. The order
of the answers is not inductive: an answer is in order because the command it answers
was, and because a reload that waits for the end of the batch is answered before its
client is heard again, or the daemon ends instead (a quit, or a kill(2) that fails in the
reload: `KillFails`) and hears nobody any more. `SessionInv` says this (`Numbered`, `Pending`), what a client
that waits may still be owed (`Awaited`), and that a second command in a stream was
sent in haste (`Queued`). Hence `SessionTypes`, `AnswersComeInOrder`,
`PromptIsSynchronised` and `OnlyHasteDrops`. `CommandsAreServedInOrder` proves that the
session implements `Dialogue`, where an answer counts from when it is on its way to the
client; it needs that what was thrown away is behind a command that was kept, and is
never answered (`Discarded`).

**The descriptors** (`ProcessOutputProofs`), for any number of processes, clients and
descriptor numbers. The main thread decides on a copy of the list, and closes a number
before it takes the entry out; in between the worker may open and add the same number.
`OutputInv` says what keeps this from going wrong: an entry names an open file of its
type, and only between close and `remove_poll_fd` may one name a closed file or a number
be listed twice, the stale entry first (`Entries`); what the main thread took from the
list is still there, and stale if it was stale (`Batch`, `Current`); the pipe of a process
that runs is its own (`Files`). The lookups take the first entry of a number, so the proof
rests on lemmas about the first index, and about the order that a removal keeps
(`FirstEntry`, `Staled`, `TakenOut`). Hence `OutputTypes`, `PollsOpenFds`,
`LookupsFindTheirEntry`, `OnlyStaleIsClosed`, `RunningStaysPolled` and
`SubscribersStayServed`. `WakeUpsAreNotLost` is the safety half of `OutputIsForwarded`:
while the main thread polls, its copy is the list as it is, or a byte waits in the
wake-up pipe, or the worker, which has changed the list, is at the step that writes the
byte. A list that changed after the byte was written would break it. It needs that the
wake-up pipe stays listed, for which every entry of a pipe
must have one of the numbers that pipes and connections take (`Listing`).

**The numbers** (`ProcessOutputRefinement`): `NumbersAreHandedOver` proves that
`ProcessOutput` implements `Handover`. The map gives each number a role from what it
refers to, the phase of its process and the list; while a number is being removed, its
stale entry does not count, as it is that of the pipe before. That a pipe is closed
only when it was read to the end is not a matter of the present state: the main thread
knows it from an event without POLLIN, or from a read that found nothing. `Hangups`
says that both stay true until the close (`HandoverInv`), as long as some process
answers to the number.

**Only model-checked**: everything that is live (the prover has no rules for fairness
and ENABLED). Every invariant and every refinement that a run checks is proved.

## 6. Not modelled, and the plan

Not modelled: the environment of the forked child before `execve` and its failure
there (`Process.cpp:64`); the texts of answers and of `status`; lines longer than the
buffer of 1024 bytes; sockets that are full; the capacity of the wake-up pipe; what
the client does without the daemon (`help`, a line it refuses); the Logger; YAML,
readline and wordexp, which are libraries.

The order of work, most important first:

1. done: worker, refinement, output, main thread with reloads, start and end.
2. done: `CtlSession`, `ConfigParser`, `ProcessPool`, and their proofs.
3. done: the proofs of `ProcessOutput`.
4. done: abstract specifications of reloads, of the dialogue, of the descriptors and of
   the start and end, and the proofs that the detailed modules implement them.
5. The child side of `fork`; `Taskmaster` and `ProcessPool` as one module, which now meet in `Reloads`
   and `ReloadedSupervision` only.
