---------------------------- MODULE Supervision ----------------------------
(***************************************************************************)
(* What the supervisor promises of the children it runs, whatever states,  *)
(* timers and commands it decides with:                                    *)
(*   - a child is forked for a process only when it has none;              *)
(*   - it is sent SIGKILL only after the stop signal, at most once each;   *)
(*   - a child that ended is reaped, once;                                 *)
(*   - no child is forked once the supervisor closes, and it is closed     *)
(*     only when every child is gone.                                      *)
(***************************************************************************)
CONSTANT Procs

VARIABLES
  child,    \* as in module Process
  phase,    \* "open", "closing", "closed"
  abrupt    \* the processes whose stop signal is SIGKILL

vars == <<child, phase, abrupt>>

Live == {"alive", "signalled", "doomed"}

TypeOK ==
  /\ child \in [Procs -> Live \cup {"none", "zombie"}]
  /\ phase \in {"open", "closing", "closed"}
  /\ abrupt \subseteq Procs

Init ==
  /\ child = [p \in Procs |-> "none"]
  /\ phase = "open"
  /\ abrupt \subseteq Procs

\* One child changes, the others do not.
Changes(p, from, to) ==
  /\ child[p] \in from
  /\ child' = [child EXCEPT ![p] = to]

\* The child may end before the supervisor does anything else.
Fork(p) ==
  /\ phase = "open"
  /\ \E k \in {"alive", "zombie"} : Changes(p, {"none"}, k)
  /\ UNCHANGED <<phase, abrupt>>

Stop(p) ==
  /\ phase # "closed"
  /\ Changes(p, {"alive"}, IF p \in abrupt THEN "doomed" ELSE "signalled")
  /\ UNCHANGED <<phase, abrupt>>

Kill(p) ==
  /\ phase # "closed"
  /\ Changes(p, {"signalled"}, "doomed")
  /\ UNCHANGED <<phase, abrupt>>

Die(p) == Changes(p, Live, "zombie") /\ UNCHANGED <<phase, abrupt>>

Reap(p) ==
  /\ phase # "closed"
  /\ Changes(p, {"zombie"}, "none")
  /\ UNCHANGED <<phase, abrupt>>

\* The supervisor is told to close, or gives up on a child that it finds ended.
Close ==
  /\ phase = "open"
  /\ phase' = "closing"
  /\ UNCHANGED abrupt
  /\ UNCHANGED child \/ \E p \in Procs : Changes(p, {"zombie"}, "none")

Closed ==
  /\ phase = "closing"
  /\ \A p \in Procs : child[p] = "none"
  /\ phase' = "closed"
  /\ UNCHANGED <<child, abrupt>>

Next ==
  \/ \E p \in Procs : Fork(p) \/ Stop(p) \/ Kill(p) \/ Die(p) \/ Reap(p)
  \/ Close
  \/ Closed

Spec == Init /\ [][Next]_vars
=============================================================================
