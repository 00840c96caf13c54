----------------------------- MODULE ProcessPool -----------------------------
(***************************************************************************)
(* How the main thread makes a ProcessPool from the configuration file     *)
(* when the daemon starts, and replaces it in a reload                     *)
(* (src/server/ProcessPool.cpp, ProcessGroup.cpp, Taskmaster::reload_config) *)
(* while programs appear in the file, change and leave it.                 *)
(*                                                                         *)
(* A ProcessGroup has its configuration, the descriptors of its two log    *)
(* files, which tell one group from another, and live, the processes that  *)
(* the worker has found running and that were not sent SIGKILL since.      *)
(* Modules TaskManager and Taskmaster say how those processes are run.     *)
(***************************************************************************)
EXTENDS ConfigParser, FiniteSets

CONSTANTS
  Files,   \* what the file may hold when it is read
  Fds      \* the descriptors left for log files: RLIMIT_NOFILE

ASSUME ProcessPoolAssumption == Fds \subseteq Nat

VARIABLES
  main,      \* what the main thread is at
  parsed,    \* the map parse() returned last
  todo,      \* the names a loop of the main thread has still to visit
  half,      \* the group whose stdout is open and whose stderr is not
  pool,      \* _process_pool
  new_pool,  \* the pool under construction
  fds,       \* the open log files: a function from descriptors to paths
  result,    \* how the last reading of the file ended
  before,    \* history: the groups of the pool when it was read
  cut,       \* history: the logs in use that were truncated since
  leaked,    \* history: descriptors whose group was never completed
  lost       \* history: processes that were dropped live

vars == <<main, parsed, todo, half, pool, new_pool, fds, result, before, cut,
          leaked, lost>>

Empty == [n \in {} |-> n]

Put(f, x, v) == [y \in DOMAIN f \cup {x} |-> IF y = x THEN v ELSE f[y]]

Minus(f, S) == [y \in DOMAIN f \ S |-> f[y]]

Handles(g) == {g.out, g.err}

Owned(p) == UNION {Handles(p[n]) : n \in DOMAIN p}

Living(p) == UNION {{n} \X p[n].live : n \in DOMAIN p}

\* A group without what the worker changes in it.
Groups(p) == [n \in DOMAIN p |-> [config |-> p[n].config, handles |-> <<p[n].out, p[n].err>>]]

\* The constructor of Taskmaster has not returned.
Starting == result = "none"

IsConfig(c) ==
  /\ DOMAIN c = Fields
  /\ c.numprocs \in Nat \ {0}
  /\ Supervised(c) \in ProcessConfig

IsGroup(g) ==
  /\ DOMAIN g = {"config", "out", "err", "live"}
  /\ IsConfig(g.config)
  /\ g.out \in Fds /\ g.err \in Fds
  /\ g.live \subseteq 1..g.config.numprocs

\* What the worker, which has no check of its own, is given to run.
TypeOK ==
  /\ main \in {"idle", "build", "compare", "kill", "ended"}
  /\ \A n \in DOMAIN parsed : IsConfig(parsed[n])
  /\ todo \subseteq DOMAIN parsed \cup DOMAIN pool
  /\ \A h \in half : h.name \in DOMAIN parsed /\ h.fd \in Fds
  /\ \A n \in DOMAIN pool : IsGroup(pool[n])
  /\ \A n \in DOMAIN new_pool : IsGroup(new_pool[n])
  /\ DOMAIN fds \subseteq Fds
  /\ result \in {"none", "ok", "refused", "failed"}
  /\ leaked \subseteq Fds

Init ==
  /\ main = "idle"
  /\ parsed = Empty
  /\ todo = {}
  /\ half = {}
  /\ pool = Empty
  /\ new_pool = Empty
  /\ fds = Empty
  /\ result = "none"
  /\ before = Empty
  /\ cut = {}
  /\ leaked = {}
  /\ lost = {}

-----------------------------------------------------------------------------
(* From the file to a pool.                                                 *)

\* Without a pool the daemon ends; a reload leaves the pool as it is.
GiveUp(why) ==
  /\ main' = IF Starting THEN "ended" ELSE "idle"
  /\ result' = why

ReadFile(file) ==
  /\ main = "idle" /\ ~Refused(file)
  /\ main' = "build"
  /\ parsed' = Parse(file)
  /\ todo' = DOMAIN Parse(file)
  /\ before' = Groups(pool)
  /\ cut' = {}
  /\ UNCHANGED <<half, pool, new_pool, fds, result, leaked, lost>>

RefuseFile(file) ==
  /\ main = "idle" /\ Refused(file)
  /\ GiveUp("refused")
  /\ before' = Groups(pool)
  /\ cut' = {}
  /\ UNCHANGED <<parsed, todo, half, pool, new_pool, fds, leaked, lost>>

\* The lowest descriptor that is free; "" stands for /dev/null.  O_TRUNC empties a
\* log that a group of the pool is writing to.
Open(fd, path) ==
  /\ fd \in Fds \ DOMAIN fds
  /\ \A free \in Fds \ DOMAIN fds : fd <= free
  /\ fds' = Put(fds, fd, path)
  /\ cut' = cut \cup {p \in {path} \ {""} : \E d \in Owned(pool) : fds[d] = p}

CannotOpen(path) == path # "" \/ Fds \subseteq DOMAIN fds

\* ProcessGroup::ProcessGroup, for each entry of the map in any order.
OpenStdout(n) ==
  /\ main = "build" /\ half = {} /\ n \in todo
  /\ \E fd \in Fds : Open(fd, parsed[n].stdout) /\ half' = {[name |-> n, fd |-> fd]}
  /\ UNCHANGED <<main, parsed, todo, pool, new_pool, result, before, leaked, lost>>

OpenStderr(h) ==
  /\ main = "build" /\ h \in half
  /\ half' = {}
  /\ todo' = todo \ {h.name}
  /\ \E fd \in Fds :
       /\ Open(fd, parsed[h.name].stderr)
       /\ new_pool' = Put(new_pool, h.name, [config |-> parsed[h.name], out |-> h.fd,
                                             err |-> fd, live |-> {}])
  /\ UNCHANGED <<main, parsed, pool, result, before, leaked, lost>>

\* The pool under construction is destroyed, but not the group whose constructor
\* throws: its stdout stays open.
Discard ==
  /\ fds' = Minus(fds, Owned(new_pool))
  /\ new_pool' = Empty
  /\ leaked' = leaked \cup {h.fd : h \in half}
  /\ half' = {}

\* Mutation of OpenFails: the reload builds in _process_pool itself.
OpenFailsInPlace(n) ==
  /\ main = "build" /\ half = {} /\ n \in todo /\ CannotOpen(parsed[n].stdout)
  /\ pool' = new_pool
  /\ Discard
  /\ GiveUp("failed")
  /\ todo' = {}
  /\ UNCHANGED <<parsed, before, cut, lost>>

OpenFails(n) ==
  /\ main = "build"
  /\ IF half = {} THEN n \in todo /\ CannotOpen(parsed[n].stdout)
                  ELSE n \in {h.name : h \in half} /\ CannotOpen(parsed[n].stderr)
  /\ Discard
  /\ GiveUp("failed")
  /\ todo' = {}
  /\ UNCHANGED <<parsed, pool, before, cut, lost>>

Built == main = "build" /\ todo = {}

Install ==
  /\ pool' = new_pool
  /\ new_pool' = Empty
  /\ result' = "ok"
  /\ main' = "idle"

\* The daemon starts with the pool it has built.
Start ==
  /\ Built /\ Starting
  /\ Install
  /\ UNCHANGED <<parsed, todo, half, fds, before, cut, leaked, lost>>

-----------------------------------------------------------------------------
(* reload_config, from here on with the mutex of the pool.                  *)

Lock ==
  /\ Built /\ ~Starting
  /\ main' = "compare"
  /\ todo' = DOMAIN new_pool
  /\ UNCHANGED <<parsed, half, pool, new_pool, fds, result, before, cut, leaked, lost>>

\* compare_config: everything but startretries.
SameConfig(c, d) == c = [d EXCEPT !.startretries = c.startretries]

\* Mutation of Unchanged: a program is kept by its name.
UnchangedByName(n) == n \in DOMAIN pool

Unchanged(n) ==
  n \in DOMAIN pool /\ SameConfig(pool[n].config, new_pool[n].config)

\* Mutation of Closed: the group is moved out of the old pool and the one left
\* behind is destroyed as well.
ClosedTwice(n) == Handles(new_pool[n]) \cup Handles(pool[n])

\* The descriptors the destructor of the group that is erased closes.
Closed(n) == Handles(new_pool[n])

\* erase and move_from.  The node may be put in after the iterator, which then
\* comes to it once more and does not find the name in the old pool.
Keep(n) ==
  /\ main = "compare" /\ n \in todo /\ Unchanged(n)
  /\ fds' = Minus(fds, Closed(n))
  /\ new_pool' = [new_pool EXCEPT ![n] = pool[n]]
  /\ pool' = Minus(pool, {n})
  /\ todo' \in {todo, todo \ {n}}
  /\ UNCHANGED <<main, parsed, half, result, before, cut, leaked, lost>>

Replace(n) ==
  /\ main = "compare" /\ n \in todo /\ ~Unchanged(n)
  /\ todo' = todo \ {n}
  /\ UNCHANGED <<main, parsed, half, pool, new_pool, fds, result, before, cut,
                 leaked, lost>>

\* Mutation of ToKill: only what the file still has is stopped.
ToKillChanged == DOMAIN pool \cap DOMAIN new_pool

ToKill == DOMAIN pool

EndCompare ==
  /\ main = "compare" /\ todo = {}
  /\ main' = "kill"
  /\ todo' = ToKill
  /\ UNCHANGED <<parsed, half, pool, new_pool, fds, result, before, cut, leaked, lost>>

\* ProcessGroup::stop(SIGKILL).
StopGroup(n) ==
  /\ main = "kill" /\ n \in todo
  /\ pool' = [pool EXCEPT ![n].live = {}]
  /\ todo' = todo \ {n}
  /\ UNCHANGED <<main, parsed, half, new_pool, fds, result, before, cut, leaked, lost>>

\* kill(2) fails for one of its processes: the exception leaves reload_config,
\* which destroys new_pool with the groups moved to it, and ends the daemon.  Its
\* worker stops what is left in the pool.
KillFails(n) ==
  /\ main = "kill" /\ n \in todo /\ pool[n].live # {}
  /\ main' = "ended"
  /\ lost' = lost \cup Living(new_pool)
  /\ fds' = Minus(fds, Owned(new_pool))
  /\ new_pool' = Empty
  /\ todo' = {}
  /\ UNCHANGED <<parsed, half, pool, result, before, cut, leaked>>

\* The move assignment destroys the groups that are left in the old pool.
Swap ==
  /\ main = "kill" /\ todo = {}
  /\ lost' = lost \cup Living(pool)
  /\ fds' = Minus(fds, Owned(pool))
  /\ Install
  /\ UNCHANGED <<parsed, todo, half, before, cut, leaked>>

\* The worker forks and reaps processes of a group, with the mutex.
Visit(n) ==
  /\ main \in {"idle", "build"} /\ n \in DOMAIN pool
  /\ \E running \in SUBSET (1..pool[n].config.numprocs) :
       pool' = [pool EXCEPT ![n].live = running]
  /\ UNCHANGED <<main, parsed, todo, half, new_pool, fds, result, before, cut,
                 leaked, lost>>

Over == main = "ended" /\ UNCHANGED vars

Next ==
  \/ \E file \in Files : ReadFile(file) \/ RefuseFile(file)
  \/ \E n \in DOMAIN parsed : OpenStdout(n) \/ OpenFails(n) \/ Keep(n) \/ Replace(n)
  \/ \E h \in half : OpenStderr(h)
  \/ Start \/ Lock \/ EndCompare \/ Swap \/ Over
  \/ \E n \in DOMAIN pool : StopGroup(n) \/ KillFails(n) \/ Visit(n)

Spec == Init /\ [][Next]_vars

-----------------------------------------------------------------------------
(* Properties.                                                              *)

\* A reload that reports success leaves the programs of the file and no other.
\* One whose configuration is the same but for startretries is the group it was,
\* with the old value; any other is a new group with the configuration read.
PoolIsFile ==
  main = "idle" /\ result = "ok" =>
    /\ DOMAIN pool = DOMAIN parsed
    /\ \A n \in DOMAIN parsed :
         IF n \in DOMAIN before /\ SameConfig(before[n].config, parsed[n])
           THEN Groups(pool)[n] = before[n]
           ELSE /\ pool[n].config = parsed[n]
                /\ \A m \in DOMAIN before :
                     Handles(pool[n]) \cap Range(before[m].handles) = {}

\* A reload that reports a failure leaves every group as it was, and a file that
\* is refused leaves the logs as well.
FailureChangesNothing ==
  main = "idle" /\ result \in {"refused", "failed"} =>
    /\ Groups(pool) = before
    /\ result = "refused" => cut = {}

\* The open descriptors are those of the groups, no two groups share one, and
\* each is of the file its group was configured with; only a group whose second
\* log cannot be opened leaves its first one open.
LogsAreOwned ==
  main # "ended" =>
    /\ DOMAIN fds = Owned(pool) \cup Owned(new_pool) \cup {h.fd : h \in half} \cup leaked
    /\ \A p \in {pool, new_pool} : \A n \in DOMAIN p :
         /\ p[n].out # p[n].err /\ Handles(p[n]) \cap leaked = {}
         /\ fds[p[n].out] = p[n].config.stdout /\ fds[p[n].err] = p[n].config.stderr
         /\ \A q \in {pool, new_pool} : \A m \in DOMAIN q :
              Handles(p[n]) \cap Handles(q[m]) # {} => p = q /\ m = n

\* No program is dropped live without SIGKILL, whether the file has changed it or
\* has it no more, but when a kill(2) that fails ends the daemon: then those that
\* the reload was to keep are.
DropsOnlyTheDead == lost # {} => main = "ended" /\ lost \subseteq
                      UNION {{n} \X (1..parsed[n].numprocs) : n \in DOMAIN parsed}

-----------------------------------------------------------------------------
(* The inductive invariant: what the two pools are made of while one is made *)
(* from the other.                                                          *)

\* Where the main thread is in its loops.
Progress ==
  /\ main \in {"idle", "ended"} => todo = {} /\ new_pool = Empty
  /\ main # "build" => half = {}
  /\ main = "build" =>
       /\ todo \subseteq DOMAIN parsed
       /\ DOMAIN new_pool = DOMAIN parsed \ todo
       /\ Groups(pool) = before
       /\ \A h, i \in half : h = i
       /\ \A h \in half : h.name \in todo
  /\ main \in {"compare", "kill"} => ~Starting /\ DOMAIN new_pool = DOMAIN parsed
  /\ main = "compare" => todo \subseteq DOMAIN parsed
  /\ main = "kill" => todo \subseteq DOMAIN pool
  /\ Starting => pool = Empty

\* A group of the new pool was built from the file, or was taken over.
Fresh(n) ==
  /\ new_pool[n].config = parsed[n] /\ new_pool[n].live = {}
  /\ \A m \in DOMAIN before : Handles(new_pool[n]) \cap Range(before[m].handles) = {}
  /\ n \in DOMAIN before => n \in DOMAIN pool

TakenOver(n) ==
  /\ n \in DOMAIN before /\ SameConfig(before[n].config, parsed[n])
  /\ Groups(new_pool)[n] = before[n]
  /\ n \notin DOMAIN pool

Origins ==
  main \in {"build", "compare", "kill"} =>
    /\ \A n \in DOMAIN pool : n \in DOMAIN before /\ Groups(pool)[n] = before[n]
    /\ \A n \in DOMAIN new_pool : Fresh(n) \/ (main # "build" /\ TakenOver(n))
    /\ main # "build" =>
         \A n \in DOMAIN pool \cap DOMAIN new_pool :
           (main = "compare" /\ n \in todo) \/ ~SameConfig(before[n].config, parsed[n])
    /\ main = "kill" => \A n \in DOMAIN pool \ todo : pool[n].live = {}

\* The groups of a pool do not share descriptors, which are open on their logs.
OwnLogs(p) ==
  \A n \in DOMAIN p :
    /\ p[n].out # p[n].err /\ Handles(p[n]) \cap leaked = {}
    /\ Handles(p[n]) \subseteq DOMAIN fds
    /\ fds[p[n].out] = p[n].config.stdout /\ fds[p[n].err] = p[n].config.stderr
    /\ \A m \in DOMAIN p \ {n} : Handles(p[n]) \cap Handles(p[m]) = {}

Descriptors ==
  main # "ended" =>
    /\ DOMAIN fds = Owned(pool) \cup Owned(new_pool) \cup {h.fd : h \in half} \cup leaked
    /\ OwnLogs(pool) /\ OwnLogs(new_pool)
    /\ Owned(pool) \cap Owned(new_pool) = {}
    /\ \A h \in half :
         /\ h.fd \notin Owned(pool) \cup Owned(new_pool) \cup leaked
         /\ fds[h.fd] = parsed[h.name].stdout

PoolInv ==
  /\ TypeOK /\ Progress /\ Origins /\ Descriptors
  /\ PoolIsFile /\ FailureChangesNothing /\ DropsOnlyTheDead

-----------------------------------------------------------------------------
(* Refinement: with all its steps a reload is one of module Reloads.  Until the *)
(* swap the programs are those of the pool it started from.                 *)

FileContents == {Parse(file) : file \in {f \in Files : ~Refused(f)}}

Programs ==
  IF main = "ended" THEN Empty
  ELSE IF main \in {"compare", "kill"} THEN before ELSE Groups(pool)

Stage == IF main = "ended" THEN "over" ELSE IF Starting THEN "starting" ELSE "serving"

R == INSTANCE Reloads WITH
       programs <- Programs, daemon <- Stage, Contents <- FileContents

\* The programs, with their configurations and logs, change all at once to those of
\* one accepted file, or not at all: not when a file is refused, a log cannot be
\* opened half way, or the worker works on the pool meanwhile.
ReloadIsAtomic == R!Spec
=============================================================================
