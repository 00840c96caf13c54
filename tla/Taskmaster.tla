----------------------------- MODULE Taskmaster -----------------------------
(***************************************************************************)
(* The daemon: the main thread of src/server/Taskmaster.cpp around the     *)
(* worker of module TaskManager.  The main thread sleeps in poll(2),       *)
(* handles a batch of events, reloads the configuration when SIGHUP or a   *)
(* client asked for it, and leaves its loop when a client quits or when it *)
(* finds the worker stopped; then it joins the worker.                     *)
(*                                                                         *)
(* A reload replaces the Process objects of every program whose            *)
(* configuration changed, and child[p] is from then on the child of the    *)
(* new object: the old one is dropped without being waited for.  The names *)
(* of the programs and their numbers of processes stay the same, and       *)
(* kill(2) succeeds in a reload.                                           *)
(***************************************************************************)
EXTENDS TaskManager

VARIABLES
  main,            \* what the main thread is at
  wake,            \* bytes are in the wake-up pipe
  woken,           \* the batch holds the event of the wake-up pipe
  running,         \* _running
  sighup,          \* sighup_received_g
  reload_request,  \* a client waits for the answer to its reload
  new_pool,        \* the configurations of the pool a reload has built last
  stray            \* history: the configurations of the processes whose child
                   \* a reload has dropped alive and without SIGKILL

main_vars == <<main, wake, woken, running, sighup, reload_request, new_pool, stray>>
all_vars == <<vars, main_vars>>

MainTypeOK ==
  /\ TypeOK
  /\ main \in {"poll", "handle", "reload", "swap", "reloaded", "left", "join", "joined"}
  /\ wake \in BOOLEAN
  /\ woken \in BOOLEAN
  /\ running \in BOOLEAN
  /\ sighup \in BOOLEAN
  /\ reload_request \in BOOLEAN
  /\ new_pool \in [Groups -> Configs]
  /\ stray \subseteq Configs

MainInit ==
  /\ Init
  /\ main = "poll"
  /\ wake = FALSE
  /\ woken = FALSE
  /\ running = TRUE
  /\ sighup = FALSE
  /\ reload_request = FALSE
  /\ new_pool = config
  /\ stray = {}

-----------------------------------------------------------------------------
(* The worker, which writes to the wake-up pipe when it has added or staled *)
(* descriptors and when it ends.                                            *)

\* The worker has just visited p in state s for the first time, and returned.
FirstVisit(p, s) ==
  /\ worker = "work" /\ worker' = "work" /\ todo' = todo \ {p} /\ p \in todo
  /\ proc[p].state = s /\ Entering(proc[p])

WakesMain ==
  \/ worker' = "done" /\ worker # "done"
  \/ \E p \in Procs :
       \/ FirstVisit(p, "Starting")
       \/ (FirstVisit(p, "Stopped") /\ proc[p].previous_state # "Waiting")

WorkerStep ==
  /\ Worker
  /\ wake' = (wake \/ WakesMain)
  /\ UNCHANGED <<main, woken, running, sighup, reload_request, new_pool, stray>>

Environment ==
  /\ Tick \/ \E p \in Procs : ChildDies(p)
  /\ UNCHANGED main_vars

\* SIGHUP sets the flag.  A poll it interrupts is called again at once.
SigHup ==
  /\ ~sighup
  /\ sighup' = TRUE
  /\ UNCHANGED <<vars, main, wake, woken, running, reload_request, new_pool, stray>>

-----------------------------------------------------------------------------
(* The main thread.                                                         *)

\* poll returns for the wake-up pipe, a client, or the output of a program.  A
\* worker that was told to stop ends the loop.
PollReturns ==
  /\ main = "poll"
  /\ main' = IF stop_token THEN "left" ELSE "handle"
  /\ woken' = (wake /\ ~stop_token)
  /\ UNCHANGED <<vars, wake, running, sighup, reload_request, new_pool, stray>>

\* Reads whatever is in the pipe, what was written after poll returned included.
HandleWakeUp ==
  /\ main = "handle" /\ woken
  /\ woken' = FALSE
  /\ wake' = FALSE
  /\ UNCHANGED <<vars, main, running, sighup, reload_request, new_pool, stray>>

HandleCommand(g, command) ==
  /\ main = "handle"
  /\ RequestCommand(g, command)
  /\ UNCHANGED main_vars

HandleReload ==
  /\ main = "handle"
  /\ sighup' = TRUE
  /\ reload_request' = TRUE
  /\ UNCHANGED <<vars, main, wake, woken, running, new_pool, stray>>

HandleQuit ==
  /\ main = "handle"
  /\ running' = FALSE
  /\ Quit \/ (stop_token /\ UNCHANGED vars)
  /\ UNCHANGED <<main, wake, woken, sighup, reload_request, new_pool, stray>>

NextIteration == IF running THEN "poll" ELSE "left"

\* Mutation of AfterBatch: the reload is left to the next iteration.
AfterBatchLazy == NextIteration

AfterBatch == IF sighup THEN "reload" ELSE NextIteration

EndBatch ==
  /\ main = "handle" /\ ~woken
  /\ main' = AfterBatch
  /\ UNCHANGED <<vars, wake, woken, running, sighup, reload_request, new_pool, stray>>

\* compare_config: everything but startretries.
SameConfig(c, d) == c = [d EXCEPT !.startretries = c.startretries]

\* Mutation of Replacement: the state of the old process is carried over.
ReplacementInState(r) == [NewProcess EXCEPT !.state = r.state]

Replacement(r) == NewProcess

\* Mutation of Spared: only a process in Running is killed.
SparedUnlessUp(r) == r.state # "Running"

\* ProcessGroup::stop(SIGKILL) skips a process whose status says not running.
Spared(r) == ~r.running

\* reload_config: the file is valid and a pool is built from it.
ReadConfig(new) ==
  /\ main = "reload"
  /\ main' = "swap"
  /\ new_pool' = new
  /\ UNCHANGED <<vars, wake, woken, running, sighup, reload_request, stray>>

\* Under the mutex, the unchanged programs are moved to the new pool, the others
\* are killed, and the new pool replaces the old one.
SwapPools ==
  LET Same(g) == SameConfig(config[g], new_pool[g])
      Old(p)  == ~Same(GroupOf[p])
  IN
  /\ main = "swap" /\ todo = {}
  /\ main' = "reloaded"
  /\ config' = [g \in Groups |-> IF Same(g) THEN config[g] ELSE new_pool[g]]
  /\ proc' = [p \in Procs |-> IF Old(p) THEN Replacement(proc[p]) ELSE proc[p]]
  /\ child' = [p \in Procs |-> IF Old(p) THEN "none" ELSE child[p]]
  /\ runtime' = [p \in Procs |-> IF Old(p) THEN new_pool[GroupOf[p]].starttime
                                           ELSE runtime[p]]
  /\ stoptime' = [p \in Procs |-> IF Old(p) THEN new_pool[GroupOf[p]].stoptime
                                            ELSE stoptime[p]]
  /\ attempts' = [p \in Procs |-> IF Old(p) THEN 0 ELSE attempts[p]]
  /\ stray' = stray \cup
       {ConfigOf(p) : p \in {q \in Procs : /\ Old(q) /\ Spared(proc[q])
                                           /\ child[q] \in {"alive", "signalled"}}}
  /\ UNCHANGED <<stop_token, worker, todo, asks, flag, wake, woken, running,
                 sighup, reload_request, new_pool>>

\* The file is refused: nothing changes.
ReloadFails ==
  /\ main = "reload"
  /\ main' = "reloaded"
  /\ UNCHANGED <<vars, wake, woken, running, sighup, reload_request, new_pool, stray>>

\* The clients are answered, then the flag is cleared: a SIGHUP that came since
\* the file was read is lost.
ReloadAnswered ==
  /\ main = "reloaded"
  /\ reload_request' = FALSE
  /\ sighup' = FALSE
  /\ main' = NextIteration
  /\ UNCHANGED <<vars, wake, woken, running, new_pool, stray>>

\* loop() has returned: ~TaskManager tells the worker to stop and joins it.
Destroy ==
  /\ main = "left"
  /\ main' = "join"
  /\ stop_token' = TRUE
  /\ UNCHANGED <<config, proc, child, runtime, stoptime, worker, todo, asks, flag,
                 attempts, wake, woken, running, sighup, reload_request, new_pool,
                 stray>>

Join ==
  /\ main = "join" /\ worker = "done"
  /\ main' = "joined"
  /\ UNCHANGED <<vars, wake, woken, running, sighup, reload_request, new_pool, stray>>

Ended == main = "joined" /\ UNCHANGED all_vars

Main ==
  \/ HandleWakeUp \/ HandleReload \/ HandleQuit
  \/ \E g \in Groups, command \in Command \ {"None"} : HandleCommand(g, command)
  \/ EndBatch
  \/ \E new \in [Groups -> Configs] : ReadConfig(new)
  \/ SwapPools \/ ReloadFails \/ ReloadAnswered
  \/ Destroy \/ Join

MainNext == WorkerStep \/ Environment \/ SigHup \/ PollReturns \/ Main \/ Ended

MainSpec == MainInit /\ [][MainNext]_all_vars

\* The main thread goes on with what it is at, poll returns when the wake-up pipe
\* has something to read, and the pool mutex is granted to a thread that asks for
\* it again and again.
MainFairness ==
  /\ WF_all_vars(WorkerStep)
  /\ WF_all_vars(Environment /\ Tick)
  /\ \A p \in Procs :
       WF_all_vars(child[p] = "doomed" /\ Environment /\ ChildDies(p))
  /\ WF_all_vars(wake /\ PollReturns)
  /\ WF_all_vars(HandleWakeUp)
  /\ WF_all_vars(EndBatch)
  /\ WF_all_vars(ReloadFails \/ \E new \in [Groups -> Configs] : ReadConfig(new))
  /\ SF_all_vars(SwapPools)
  /\ WF_all_vars(ReloadAnswered \/ Destroy \/ Join)

MainFairSpec == MainSpec /\ MainFairness

-----------------------------------------------------------------------------
(* Properties.                                                              *)

\* A child that a reload drops is dead or was sent SIGKILL, unless the program
\* has no starttime: such a process is forked without a look at the child, and
\* is taken for a process that does not run until the next visit.
NoStray == ~KillMayFail => \A c \in stray : c.starttime = 0

\* A child that may live on is one the last visit saw running, but if there is no
\* starttime.
LiveIsKnown ==
  ~KillMayFail =>
    \A p \in Procs :
      child[p] \in {"alive", "signalled"} /\ ConfigOf(p).starttime # 0
        => proc[p].running

\* The inductive invariant of the daemon: that of the worker, which a reload
\* preserves at any moment, and what makes a reload safe.
MainInv ==
  /\ IndInv
  /\ MainTypeOK
  /\ LiveIsKnown
  /\ NoStray
  /\ main = "joined" => worker = "done"

\* When the daemon has joined its worker, the pool it leaves has no child, even
\* when the pool was replaced while the worker was stopping it.
DaemonLeavesNothing ==
  main = "joined" /\ ~KillMayFail => \A p \in Procs : child[p] = "none"

\* A client that asked for a reload gets an answer, whatever the worker does.
ReloadIsAnswered == reload_request ~> ~reload_request

\* After a quit the daemon ends, whatever the children do with the stop signal
\* and also when the same batch of events asks for a reload.
QuitEndsDaemon == ~running ~> main = "joined"

-----------------------------------------------------------------------------
(* Refinement: the whole daemon implements module ReloadedSupervision when   *)
(* kill(2) works.                                                           *)

D == INSTANCE ReloadedSupervision WITH
       abrupt   <- {p \in Procs : ConfigOf(p).stopsignal = "KILL"},
       phase    <- CASE worker = "work" -> "open"
                     [] worker = "exit" -> "closing"
                     [] worker = "done" -> "closed",
       config   <- [p \in Procs |-> ConfigOf(p)],
       orphaned <- stray # {}

\* What the worker promises of the children, it promises with a main thread that
\* replaces the processes under it at any moment, and a reload touches no child of
\* a program it does not change.
SupervisesAndReloads == D!ReloadSpec
=============================================================================
