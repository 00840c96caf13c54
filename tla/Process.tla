------------------------------ MODULE Process ------------------------------
(***************************************************************************)
(* One Process object of the daemon (include/server/Process.hpp) and the   *)
(* child the kernel runs for it.                                           *)
(*                                                                         *)
(* A Process record holds the members the supervisor decides on; has_pid   *)
(* stands for _pid # -1, and the two timestamps live in the modules that   *)
(* let time pass.  The operators are the member functions as functions     *)
(* from a record to a record.  A Process forks at most one child at a      *)
(* time, so what the kernel knows of it is a single word:                  *)
(*   "none"       no child, or the child has been waited for               *)
(*   "alive"      running, no signal sent by the supervisor                *)
(*   "signalled"  the stop signal was sent, the child may ignore it        *)
(*   "doomed"     SIGKILL was sent, the child cannot survive it            *)
(*   "zombie"     terminated, not waited for yet                           *)
(***************************************************************************)
EXTENDS Integers

CONSTANT Codes    \* the exit statuses the supervised programs may end with

\* WEXITSTATUS of a child that died from a signal is 0, so 0 is always there.
ASSUME CodesAssumption == Codes \subseteq 0..255 /\ 0 \in Codes

State == {"Waiting", "Starting", "Running", "Exiting", "Stopped"}
Command == {"Stop", "Start", "Restart", "None"}
AutoRestart == {"True", "False", "Unexpected"}

Live == {"alive", "signalled", "doomed"}
Child == Live \cup {"none", "zombie"}

\* The members of process_config_t the supervisor reads.  parse_stoptime
\* refuses 0; a stop signal other than KILL may be ignored by the child.
ProcessConfig ==
  [autostart    : BOOLEAN,
   autorestart  : AutoRestart,
   exitcodes    : SUBSET (0..255),
   starttime    : Nat,
   startretries : Nat,
   stoptime     : Nat \ {0},
   stopsignal   : {"KILL", "OTHER"}]

ProcessRecord ==
  [state           : State,
   previous_state  : State,
   pending_command : Command,
   num_retries     : Nat,
   has_pid         : BOOLEAN,
   running         : BOOLEAN,
   killed          : BOOLEAN,
   exitstatus      : Codes \cup {-1}]

\* The constructor.
NewProcess ==
  [state           |-> "Waiting",
   previous_state  |-> "Waiting",
   pending_command |-> "None",
   num_retries     |-> 0,
   has_pid         |-> FALSE,
   running         |-> FALSE,
   killed          |-> FALSE,
   exitstatus      |-> -1]

-----------------------------------------------------------------------------
(* The state is new: no step has been taken in it yet.                      *)
Entering(r) == r.state # r.previous_state

\* start(), when pipe(2) and fork(2) succeed: status.running is left alone.
Started(r) == [r EXCEPT !.has_pid = TRUE, !.killed = FALSE]

\* Mutation of UpdateStatus: the pid of a reaped child is kept.
UpdateStatusKeepPid(r, k, ws) ==
  IF k \in Live
    THEN [r EXCEPT !.running = TRUE]
    ELSE [r EXCEPT !.running = FALSE, !.exitstatus = ws]

\* update_status(): waitpid(WNOHANG) finds the child running, or reaps it and
\* reads the exit status ws.
UpdateStatus(r, k, ws) ==
  IF k \in Live
    THEN [r EXCEPT !.running = TRUE]
    ELSE [r EXCEPT !.running = FALSE, !.has_pid = FALSE, !.exitstatus = ws]

\* What waitpid leaves of the child.
AfterWait(k) == IF k = "zombie" THEN "none" ELSE k

\* kill(2) on a child that has not been waited for.
Deliver(k, sig) ==
  CASE k = "zombie" -> k
    [] k # "zombie" /\ (sig = "KILL" \/ k = "doomed") -> "doomed"
    [] OTHER -> "signalled"

\* The error path of stop() and kill(): the pid is forgotten.
LoseChild(r) == [r EXCEPT !.has_pid = FALSE, !.running = FALSE]

ExitedUnexpectedly(r, c) == r.exitstatus \notin c.exitcodes

CheckAutorestart(r, c) ==
  \/ c.autorestart = "True"
  \/ c.autorestart = "Unexpected" /\ ExitedUnexpectedly(r, c)
=============================================================================
