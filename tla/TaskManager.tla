---------------------------- MODULE TaskManager ----------------------------
(***************************************************************************)
(* The worker thread of the daemon (src/server/TaskManager.cpp): it visits *)
(* every Process of the pool, over and over, and drives its state machine; *)
(* when it is told to stop, or when a visit throws, it stops every process *)
(* and ends.  Around it: the main thread, which leaves commands in the     *)
(* Process objects (Taskmaster::request_command) and may quit, the         *)
(* children, which may end at any moment, and the clock.                   *)
(*                                                                         *)
(* The pool mutex is held for a whole pass.  A pass is the set todo of the *)
(* processes it has still to visit, so the mutex is free exactly when todo *)
(* is empty, and a step of the main thread that takes the mutex is enabled *)
(* only then.  The order of the visits is left open.                       *)
(*                                                                         *)
(* Descriptors, output and the wake-up pipe are not part of this module.   *)
(***************************************************************************)
EXTENDS Process

CONSTANTS
  Procs,         \* the Process objects of the pool
  Groups,        \* the ProcessGroup they belong to, one per program name
  GroupOf,       \* the group of each process
  Configs,       \* the configurations a program may be given
  StartMayFail,  \* pipe(2) or fork(2) may fail
  KillMayFail    \* kill(2) may fail with EPERM (a child that changed its uid)

ASSUME TaskManagerAssumption ==
  /\ GroupOf \in [Procs -> Groups]
  /\ Configs \subseteq ProcessConfig
  /\ StartMayFail \in BOOLEAN
  /\ KillMayFail \in BOOLEAN

VARIABLES
  config,      \* the configuration of each group, fixed at startup
  proc,        \* the Process objects
  child,       \* the kernel's child of each process
  runtime,     \* seconds since _start_timestamp, up to starttime
  stoptime,    \* seconds since _stop_timestamp, up to the configured stoptime
  stop_token,  \* _stop_token
  worker,      \* "work", "exit" (in exit_gracefully) or "done"
  todo,        \* processes the current pass has still to visit
  asks,        \* work() has tested _stop_token and waits for the mutex
  flag,        \* exit_gracefully: some process has not exited yet
  attempts     \* history: forks since the last start or restart command or the
               \* last time the process was Running

vars == <<config, proc, child, runtime, stoptime, stop_token, worker, todo,
          asks, flag, attempts>>

ConfigOf(p) == config[GroupOf[p]]

TypeOK ==
  /\ config \in [Groups -> Configs]
  /\ proc \in [Procs -> ProcessRecord]
  /\ \A p \in Procs : proc[p].num_retries <= ConfigOf(p).startretries + 1
  /\ child \in [Procs -> Child]
  /\ runtime \in [Procs -> Nat]
  /\ stoptime \in [Procs -> Nat]
  /\ stop_token \in BOOLEAN
  /\ worker \in {"work", "exit", "done"}
  /\ todo \subseteq Procs
  /\ asks \in BOOLEAN
  /\ flag \in BOOLEAN
  /\ attempts \in [Procs -> Nat]

\* TaskManager::start() has launched the thread.  The timestamps start at the
\* epoch of the clock: any delay counted from them has long elapsed.
Init ==
  /\ config \in [Groups -> Configs]
  /\ proc = [p \in Procs |-> NewProcess]
  /\ child = [p \in Procs |-> "none"]
  /\ runtime = [p \in Procs |-> ConfigOf(p).starttime]
  /\ stoptime = [p \in Procs |-> ConfigOf(p).stoptime]
  /\ stop_token = FALSE
  /\ worker = "work"
  /\ todo = {}
  /\ asks = FALSE
  /\ flag = FALSE
  /\ attempts = [p \in Procs |-> 0]

-----------------------------------------------------------------------------
(* One visit of work(): fsm_run_task, then fsm_transit_state.               *)

AskedDown(r) == r.pending_command \in {"Stop", "Restart"}
AskedUp(r) == r.pending_command \in {"Start", "Restart"}

\* The failure counter is compared with startretries only, so it is not
\* counted beyond startretries + 1.
CountFailure(r, c) ==
  IF r.running \/ r.num_retries > c.startretries
    THEN r
    ELSE [r EXCEPT !.num_retries = @ + 1]

NextState(r, c, rt) ==
  CASE r.state = "Waiting" ->
         IF c.autostart THEN "Starting" ELSE "Stopped"
    [] r.state = "Starting" ->
         IF c.starttime = 0 THEN "Running"
         ELSE IF ~r.running THEN "Stopped"
         ELSE IF rt >= c.starttime THEN "Running"
         ELSE IF AskedDown(r) THEN "Exiting" ELSE "Starting"
    [] r.state = "Running" ->
         IF ~r.running THEN "Stopped"
         ELSE IF AskedDown(r) THEN "Exiting" ELSE "Running"
    [] r.state = "Exiting" ->
         IF r.running THEN "Exiting" ELSE "Stopped"
    [] r.state = "Stopped" ->
         IF \/ AskedUp(r)
            \/ r.previous_state = "Running" /\ CheckAutorestart(r, c)
            \/ r.previous_state = "Starting" /\ r.num_retries <= c.startretries
           THEN "Starting" ELSE "Stopped"

\* Mutations of Transit: the end of the child is not awaited in Exiting; the
\* state before is not recorded.
TransitEager(r, c, rt) ==
  [r EXCEPT !.previous_state = r.state,
            !.state = IF @ = "Exiting" THEN "Stopped" ELSE NextState(r, c, rt)]

TransitForgetful(r, c, rt) == [r EXCEPT !.state = NextState(r, c, rt)]

Transit(r, c, rt) ==
  [r EXCEPT !.previous_state = r.state, !.state = NextState(r, c, rt)]

\* The worker is about to visit p and finds it in state s.
Visiting(p, s) == worker = "work" /\ p \in todo /\ proc[p].state = s

\* The visit returns.
Return(p) == todo' = todo \ {p} /\ UNCHANGED <<stop_token, worker, asks, flag>>

\* The visit throws: work() catches, the lock is released, and the worker goes
\* to exit_gracefully, whose loop runs at least once.
Throw ==
  /\ stop_token' = TRUE
  /\ worker' = "exit"
  /\ todo' = {}
  /\ flag' = TRUE
  /\ UNCHANGED asks

Become(p, r) == proc' = [proc EXCEPT ![p] = r]

FsmWaiting(p) ==
  /\ Visiting(p, "Waiting")
  /\ Become(p, Transit(proc[p], ConfigOf(p), runtime[p]))
  /\ Return(p)
  /\ UNCHANGED <<config, child, runtime, stoptime, attempts>>

\* A mutation of TakeCommand: whatever is pending is consumed, and every fork
\* starts a new count.
TakeAnyCommand(r) == [r EXCEPT !.num_retries = 0, !.pending_command = "None"]

\* A pending start or restart is consumed before the fork.
TakeCommand(r) ==
  IF AskedUp(r) THEN [r EXCEPT !.num_retries = 0, !.pending_command = "None"]
                ELSE r

\* First visit in Starting: start(), and, when there is a starttime, the first
\* look at the child, which may already be dead.
FsmStart(p) ==
  /\ Visiting(p, "Starting")
  /\ Entering(proc[p])
  /\ \E k \in {"alive", "zombie"}, ws \in Codes :
       LET c       == ConfigOf(p)
           forked  == Started(TakeCommand(proc[p]))
           polled  == IF c.starttime = 0 THEN forked
                                         ELSE UpdateStatus(forked, k, ws)
       IN /\ Become(p, Transit(CountFailure(polled, c), c, 0))
          /\ child' = [child EXCEPT ![p] = IF c.starttime = 0 THEN k
                                                              ELSE AfterWait(k)]
  /\ runtime' = [runtime EXCEPT ![p] = 0]
  /\ attempts' = [attempts EXCEPT ![p] =
                    IF proc'[p].state = "Running" THEN 0 ELSE @ + 1]
  /\ Return(p)
  /\ UNCHANGED <<config, stoptime>>

\* start() throws: no pipe or no process is left.
FsmStartFails(p) ==
  /\ StartMayFail
  /\ Visiting(p, "Starting")
  /\ Entering(proc[p])
  /\ Become(p, TakeCommand(proc[p]))
  /\ Throw
  /\ UNCHANGED <<config, child, runtime, stoptime, attempts>>

\* Later visits in Starting; a starttime of 0 leaves the state at once, so
\* there is one here.
FsmStarting(p) ==
  /\ Visiting(p, "Starting")
  /\ ~Entering(proc[p])
  /\ \E ws \in Codes :
       LET polled == UpdateStatus(proc[p], child[p], ws)
       IN Become(p, Transit(CountFailure(polled, ConfigOf(p)), ConfigOf(p),
                            runtime[p]))
  /\ child' = [child EXCEPT ![p] = AfterWait(@)]
  /\ attempts' = [attempts EXCEPT ![p] =
                    IF proc'[p].state = "Running" THEN 0 ELSE @]
  /\ Return(p)
  /\ UNCHANGED <<config, runtime, stoptime>>

FsmRunning(p) ==
  /\ Visiting(p, "Running")
  /\ \E ws \in Codes :
       Become(p, Transit(UpdateStatus(proc[p], child[p], ws), ConfigOf(p),
                         runtime[p]))
  /\ child' = [child EXCEPT ![p] = AfterWait(@)]
  /\ Return(p)
  /\ UNCHANGED <<config, runtime, stoptime, attempts>>

\* stop(sig) and kill() reach a child that has not been waited for: time is
\* counted from a stop, not from a kill.
SendStop(p) ==
  /\ child' = [child EXCEPT ![p] = Deliver(@, ConfigOf(p).stopsignal)]
  /\ stoptime' = [stoptime EXCEPT ![p] = 0]

\* A mutation of SendKill: the configured signal is sent once more.
SendKillSoft(p) ==
  /\ child' = [child EXCEPT ![p] = Deliver(@, ConfigOf(p).stopsignal)]
  /\ UNCHANGED stoptime

SendKill(p) ==
  /\ child' = [child EXCEPT ![p] = Deliver(@, "KILL")]
  /\ UNCHANGED stoptime

\* Nothing is sent: the child is as waitpid left it.
SendNothing(p) ==
  /\ child' = [child EXCEPT ![p] = AfterWait(@)]
  /\ UNCHANGED stoptime

\* The delay after the stop signal has passed and no SIGKILL was sent.
Overdue(p, r) ==
  r.running /\ ~r.killed /\ stoptime[p] >= ConfigOf(p).stoptime

Killed(r) == [r EXCEPT !.killed = TRUE]

\* First visit in Exiting.  stop() throws when the child has just been waited
\* for, its pid being -1 by then.
FsmExitingEnter(p) ==
  /\ Visiting(p, "Exiting")
  /\ Entering(proc[p])
  /\ \E ws \in Codes :
       LET polled == UpdateStatus(proc[p], child[p], ws) IN
       \/ /\ polled.has_pid
          /\ Become(p, Transit(polled, ConfigOf(p), runtime[p]))
          /\ SendStop(p)
          /\ Return(p)
       \/ /\ polled.has_pid /\ KillMayFail
          /\ Become(p, LoseChild(polled))
          /\ SendNothing(p)
          /\ Throw
       \/ /\ ~polled.has_pid
          /\ Become(p, polled)
          /\ SendNothing(p)
          /\ Throw
  /\ UNCHANGED <<config, runtime, attempts>>

FsmExiting(p) ==
  /\ Visiting(p, "Exiting")
  /\ ~Entering(proc[p])
  /\ \E ws \in Codes :
       LET polled == UpdateStatus(proc[p], child[p], ws) IN
       \/ /\ ~Overdue(p, polled)
          /\ Become(p, Transit(polled, ConfigOf(p), runtime[p]))
          /\ SendNothing(p)
          /\ Return(p)
       \/ /\ Overdue(p, polled)
          /\ Become(p, Transit(Killed(polled), ConfigOf(p), runtime[p]))
          /\ SendKill(p)
          /\ Return(p)
       \/ /\ Overdue(p, polled) /\ KillMayFail
          /\ Become(p, LoseChild(Killed(polled)))
          /\ SendNothing(p)
          /\ Throw
  /\ UNCHANGED <<config, runtime, attempts>>

\* A mutation of ForgetCommand: a restart is forgotten as well.
ForgetAnyCommand(r) ==
  IF Entering(r) THEN [r EXCEPT !.pending_command = "None"] ELSE r

\* fsm_stopped_task forgets the command on the first visit, whichever it is,
\* except a restart; on later visits it forgets a stop.
ForgetCommand(r) ==
  IF /\ r.pending_command # "Restart"
     /\ Entering(r) \/ r.pending_command = "Stop"
    THEN [r EXCEPT !.pending_command = "None"]
    ELSE r

FsmStopped(p) ==
  /\ Visiting(p, "Stopped")
  /\ Become(p, Transit(ForgetCommand(proc[p]), ConfigOf(p), runtime[p]))
  /\ Return(p)
  /\ UNCHANGED <<config, child, runtime, stoptime, attempts>>

Fsm(p) ==
  \/ FsmWaiting(p)  \/ FsmStart(p)   \/ FsmStartFails(p)   \/ FsmStarting(p)
  \/ FsmRunning(p)  \/ FsmExitingEnter(p)  \/ FsmExiting(p)  \/ FsmStopped(p)

\* work() tests _stop_token, then takes the mutex for one more pass.  The main
\* thread may take it in between, and the pass is made whatever it does then.
AskForPass ==
  /\ worker = "work" /\ todo = {} /\ ~asks /\ ~stop_token
  /\ asks' = TRUE
  /\ UNCHANGED <<config, proc, child, runtime, stoptime, stop_token, worker,
                 todo, flag, attempts>>

BeginPass ==
  /\ worker = "work" /\ todo = {} /\ asks
  /\ todo' = Procs
  /\ asks' = FALSE
  /\ UNCHANGED <<config, proc, child, runtime, stoptime, stop_token, worker,
                 flag, attempts>>

LeaveWork ==
  /\ worker = "work" /\ todo = {} /\ ~asks /\ stop_token
  /\ worker' = "exit"
  /\ flag' = TRUE
  /\ UNCHANGED <<config, asks, proc, child, runtime, stoptime, stop_token, todo,
                 attempts>>

-----------------------------------------------------------------------------
(* exit_gracefully: passes of exit_process_gracefully until one in which    *)
(* every process was already stopped.                                       *)

ExitVisiting(p) ==
  /\ worker = "exit" /\ p \in todo
  /\ todo' = todo \ {p}
  /\ UNCHANGED <<config, asks, runtime, stop_token, worker, attempts>>

\* Returns true: nothing runs for p any more.
ExitStopped(p) ==
  /\ ExitVisiting(p)
  /\ ~proc[p].has_pid \/ proc[p].state = "Stopped"
  /\ Become(p, [proc[p] EXCEPT !.state = "Stopped"])
  /\ UNCHANGED <<child, stoptime, flag>>

\* A mutation of ExitDemote: the previous state is recorded as in Transit.
ExitDemoteRecorded(p) ==
  /\ ExitVisiting(p)
  /\ proc[p].has_pid /\ proc[p].state \in {"Waiting", "Starting", "Running"}
  /\ Become(p, [proc[p] EXCEPT !.state = "Exiting", !.previous_state = "Exiting"])
  /\ flag' = TRUE
  /\ UNCHANGED <<child, stoptime>>

\* The previous state is left alone, so the next visit sees p enter Exiting.
ExitDemote(p) ==
  /\ ExitVisiting(p)
  /\ proc[p].has_pid /\ proc[p].state \in {"Waiting", "Starting", "Running"}
  /\ Become(p, [proc[p] EXCEPT !.state =
                  IF @ = "Waiting" THEN "Stopped" ELSE "Exiting"])
  /\ flag' = TRUE
  /\ UNCHANGED <<child, stoptime>>

\* What stop() and kill() throw is caught here.  An Exiting process whose child
\* is gone moves to Stopped as it does in the state machine.
ExitAwait(p) ==
  /\ ExitVisiting(p)
  /\ proc[p].has_pid /\ proc[p].state = "Exiting"
  /\ \E ws \in Codes :
       LET polled   == UpdateStatus(proc[p], child[p], ws)
           stopping == Entering(polled) /\ polled.has_pid
           overdue  == ~Entering(polled) /\ Overdue(p, polled)
           After(r) == Become(p, Transit(r, ConfigOf(p), runtime[p]))
       IN \/ ~stopping /\ ~overdue /\ After(polled) /\ SendNothing(p)
          \/ stopping /\ After(polled) /\ SendStop(p)
          \/ overdue /\ After(Killed(polled)) /\ SendKill(p)
          \/ /\ KillMayFail
             /\ \/ stopping /\ After(LoseChild(polled))
                \/ overdue /\ After(LoseChild(Killed(polled)))
             /\ SendNothing(p)
  /\ flag' = TRUE

BeginExitPass ==
  /\ worker = "exit" /\ todo = {} /\ flag
  /\ todo' = Procs
  /\ flag' = FALSE
  /\ UNCHANGED <<config, asks, proc, child, runtime, stoptime, stop_token, worker,
                 attempts>>

\* A mutation of FinishExit: one pass is enough.
FinishExitOnce ==
  /\ worker = "exit" /\ todo = {}
  /\ worker' = "done"
  /\ UNCHANGED <<config, asks, proc, child, runtime, stoptime, stop_token, todo,
                 flag, attempts>>

\* The main thread is woken and the thread ends.
FinishExit ==
  /\ worker = "exit" /\ todo = {} /\ ~flag
  /\ worker' = "done"
  /\ UNCHANGED <<config, asks, proc, child, runtime, stoptime, stop_token, todo,
                 flag, attempts>>

Worker ==
  \/ AskForPass \/ BeginPass \/ LeaveWork \/ BeginExitPass \/ FinishExit
  \/ \E p \in Procs : Fsm(p) \/ ExitStopped(p) \/ ExitDemote(p) \/ ExitAwait(p)

-----------------------------------------------------------------------------
(* The other actors.                                                        *)

\* The main thread handles start, stop or restart of a program: every process
\* of the group gets the command, over the one it may still have.
RequestCommand(g, command) ==
  /\ todo = {}
  /\ proc' = [p \in Procs |->
                IF GroupOf[p] = g
                  THEN [proc[p] EXCEPT !.pending_command = command]
                  ELSE proc[p]]
  /\ attempts' = [p \in Procs |->
                    IF GroupOf[p] = g /\ command # "Stop" THEN 0
                                                         ELSE attempts[p]]
  /\ UNCHANGED <<config, asks, child, runtime, stoptime, stop_token, worker, todo,
                 flag>>

\* The main thread handles quit: an atomic store, no lock.
Quit ==
  /\ ~stop_token
  /\ stop_token' = TRUE
  /\ UNCHANGED <<config, asks, proc, child, runtime, stoptime, worker, todo, flag,
                 attempts>>

\* A child ends: by itself, by a fault of its own, or by a signal it was sent.
ChildDies(p) ==
  /\ child[p] \in Live
  /\ child' = [child EXCEPT ![p] = "zombie"]
  /\ UNCHANGED <<config, asks, proc, runtime, stoptime, stop_token, worker, todo,
                 flag, attempts>>

Second(t, bound) == IF t < bound THEN t + 1 ELSE t

\* A second passes.  A delay is not counted beyond the value it is compared to.
Tick ==
  /\ \E p \in Procs : \/ runtime[p] < ConfigOf(p).starttime
                      \/ stoptime[p] < ConfigOf(p).stoptime
  /\ runtime' = [p \in Procs |-> Second(runtime[p], ConfigOf(p).starttime)]
  /\ stoptime' = [p \in Procs |-> Second(stoptime[p], ConfigOf(p).stoptime)]
  /\ UNCHANGED <<config, asks, proc, child, stop_token, worker, todo, flag, attempts>>

\* The thread has ended; the main thread joins it.
Terminated == worker = "done" /\ UNCHANGED vars

Next ==
  \/ Worker
  \/ \E g \in Groups, command \in Command \ {"None"} : RequestCommand(g, command)
  \/ Quit
  \/ \E p \in Procs : ChildDies(p)
  \/ Tick
  \/ Terminated

Spec == Init /\ [][Next]_vars

\* The operating system runs the worker, delivers SIGKILL, and time passes.
\* Users need not send commands, and children need not end by themselves.
Fairness ==
  /\ WF_vars(Worker)
  /\ WF_vars(Tick)
  /\ \A p \in Procs : WF_vars(child[p] = "doomed" /\ ChildDies(p))

FairSpec == Spec /\ Fairness

-----------------------------------------------------------------------------
(* Safety.                                                                  *)

\* The next visit of work() waits for the child / there should be no child.
Awaited(r) ==
  \/ r.state \in {"Running", "Exiting"}
  \/ r.state = "Starting" /\ ~Entering(r)

Down(r) == ~Awaited(r)

\* A process has a pid exactly as long as it has a child to wait for, and every
\* visit that will call waitpid finds one: no waitpid is made with pid -1 (it
\* would reap another program's child) and no signal goes to a recycled pid.
\* Only a refused kill(2) loses a child, and then the worker has left work().
PidTracksChild ==
  \A p \in Procs :
    /\ proc[p].has_pid => child[p] # "none"
    /\ child[p] # "none" /\ ~proc[p].has_pid => KillMayFail /\ worker # "work"
    /\ Awaited(proc[p]) /\ worker = "work" => proc[p].has_pid

\* start() is never reached, and Stopped never shown, over a child that still
\* exists: at most one child runs per process.
NoChildBeforeFork ==
  ~KillMayFail =>
    \A p \in Procs : Down(proc[p]) => child[p] = "none"

\* When exit_gracefully has returned, no child is left running or unreaped,
\* whatever the worker was doing when it was told to stop.
NoChildLeftBehind ==
  worker = "done" /\ ~KillMayFail => \A p \in Procs : child[p] = "none"

\* A program that does not stay up for starttime is forked at most once plus
\* startretries times until a start or restart command or a success.
RetryBudget ==
  \A p \in Procs : attempts[p] <= ConfigOf(p).startretries + 1

\* SIGKILL is the last resort: a child it is sent to was sent the stop signal
\* first, at least stoptime seconds ago (unless the stop signal is KILL).
KillIsLastResort ==
  [][\A p \in Procs :
       /\ child[p] # "doomed" /\ child'[p] = "doomed"
       /\ ConfigOf(p).stopsignal # "KILL"
       => child[p] = "signalled" /\ stoptime[p] >= ConfigOf(p).stoptime]_vars

\* An accepted restart is taken only by the visit that forks, when the old child
\* is gone; until then only a later command of the user replaces it.
RestartNeverLost ==
  [][\A p \in Procs :
       /\ proc[p].pending_command = "Restart"
       /\ proc'[p].pending_command = "None"
       => /\ proc[p].state = "Starting" /\ Entering(proc[p])
          /\ child[p] = "none"]_vars

\* An accepted stop is forgotten only once the process is stopped.
StopNeverLost ==
  [][\A p \in Procs :
       /\ proc[p].pending_command = "Stop"
       /\ proc'[p].pending_command = "None"
       => proc[p].state = "Stopped" /\ child[p] = "none"]_vars

-----------------------------------------------------------------------------
(* The inductive invariant behind the properties above: what the state r of  *)
(* a Process, its child k, its configuration c and its forks a in a row say  *)
(* of each other while the worker is in w.                                   *)

\* Where a process has a pid and where it has none.
PidInv(r, k, c, w) ==
  /\ r.has_pid => k # "none"
  /\ k # "none" /\ ~r.has_pid => KillMayFail /\ w # "work"
  /\ Down(r) => ~r.has_pid
  /\ Awaited(r) /\ w = "work" => r.has_pid
  /\ r.state = "Starting" => r.previous_state \in {"Waiting", "Starting", "Stopped"}
  /\ r.state = "Running" => r.previous_state \in {"Starting", "Running"}
  /\ r.state = "Starting" /\ ~Entering(r) => c.starttime # 0

\* A child the supervisor waits for in Exiting was sent the stop signal.
StopInv(r, k, c) ==
  r.state = "Exiting" /\ ~Entering(r) /\ r.has_pid
    => k \in {"zombie", "doomed"} \/ (k = "signalled" /\ c.stopsignal # "KILL")

\* A child that has not been told to stop is not signalled.
AliveInv(r, k) ==
  r.has_pid /\ (r.state # "Exiting" \/ Entering(r)) => k \in {"alive", "zombie"}

\* The failures counted are at least the forks made in a row without success.
AttemptInv(r, c, a, w) ==
  /\ a <= c.startretries + 1
  /\ w = "work" =>
       /\ AskedUp(r) \/ r.state \in {"Waiting", "Running"} => a = 0
       /\ r.state = "Stopped" /\ r.previous_state = "Running" => a = 0
       /\ r.state = "Stopped" /\ r.previous_state = "Starting"
          => a <= r.num_retries
       /\ r.state = "Starting" /\ Entering(r)
          => a <= c.startretries /\ a <= r.num_retries
       /\ r.state = "Starting" /\ ~Entering(r) => a <= r.num_retries + 1

\* The processes the last pass of exit_gracefully has found stopped.
ExitInv ==
  /\ worker = "exit" /\ ~flag => \A p \in Procs \ todo : Down(proc[p])
  /\ worker = "done" => \A p \in Procs : Down(proc[p])

Consistent(r, k, c, a, w) ==
  PidInv(r, k, c, w) /\ StopInv(r, k, c) /\ AliveInv(r, k) /\ AttemptInv(r, c, a, w)

IndInv ==
  /\ TypeOK
  /\ \A p \in Procs :
       Consistent(proc[p], child[p], ConfigOf(p), attempts[p], worker)
  /\ ExitInv

-----------------------------------------------------------------------------
(* Refinement: the worker implements module Supervision when kill(2) works.  *)

S == INSTANCE Supervision WITH
       abrupt <- {p \in Procs : ConfigOf(p).stopsignal = "KILL"},
       phase  <- CASE worker = "work" -> "open"
                   [] worker = "exit" -> "closing"
                   [] worker = "done" -> "closed"

\* Every step of the worker, the main thread, the children and the clock is a
\* step of the supervision of the children, or leaves them alone: one child at
\* a time, stop before kill, reap once, no fork once the daemon is closing.
Supervises == S!Spec

-----------------------------------------------------------------------------
(* Liveness, under FairSpec.                                                *)

\* A stop or a restart is eventually taken, however the child reacts to the
\* stop signal and at whatever moment it ends, or replaced by another command,
\* unless the daemon shuts down.
CommandsAreTaken ==
  \A p \in Procs : \A command \in {"Stop", "Restart"} :
    proc[p].pending_command = command
      ~> proc[p].pending_command # command \/ stop_token

\* Told to stop, or after an exception, the worker stops every child and ends.
ShutdownCompletes == stop_token ~> worker = "done"

-----------------------------------------------------------------------------
(* What the texts of the program say, and the code does not do.             *)

\* "Stop the specified program", not the daemon (CommandManager.cpp:28): the
\* worker leaves work() only when the main thread has told it to.
OnlyQuitEndsWork == [][worker = "work" /\ worker' # "work" => stop_token]_vars

\* "Stop the specified program": a stop that is pending when the process is
\* stopped is not followed by a restart nobody asked for.
StopIsNotUndone ==
  [][\A p \in Procs :
       /\ proc[p].pending_command = "Stop" /\ proc[p].state = "Stopped"
       => proc'[p].state = "Stopped"]_vars
=============================================================================
