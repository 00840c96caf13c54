------------------------ MODULE ReloadedSupervision ------------------------
(***************************************************************************)
(* Module Supervision with reloads, which may come at any moment, while    *)
(* the supervisor closes and afterwards too.  A process whose program the  *)
(* file leaves alone, but for startretries, keeps its child and its        *)
(* configuration.  Any other is a new process, which has no child; that    *)
(* the old one left is dead or was sent SIGKILL, unless its program has no *)
(* starttime.                                                              *)
(***************************************************************************)
EXTENDS Supervision

CONSTANT Configs

VARIABLES
  config,   \* the configuration of each process
  orphaned  \* a child that may live on was left behind

reload_vars == <<vars, config, orphaned>>

ReloadInit ==
  /\ Init
  /\ config \in [Procs -> Configs]
  /\ abrupt = {p \in Procs : config[p].stopsignal = "KILL"}
  /\ orphaned = FALSE

Supervise == Next /\ UNCHANGED <<config, orphaned>>

SameConfig(c, d) == c = [d EXCEPT !.startretries = c.startretries]

MayBeOrphaned(p) == child[p] \in {"alive", "signalled"} /\ config[p].starttime = 0

Reload(new) ==
  LET Changed == {p \in Procs : ~SameConfig(config[p], new[p])} IN
  /\ config' = [p \in Procs |-> IF p \in Changed THEN new[p] ELSE config[p]]
  /\ child' = [p \in Procs |-> IF p \in Changed THEN "none" ELSE child[p]]
  /\ abrupt' = {p \in Procs : config'[p].stopsignal = "KILL"}
  /\ orphaned => orphaned'
  /\ orphaned' => orphaned \/ \E p \in Changed : MayBeOrphaned(p)
  /\ UNCHANGED phase

ReloadNext == Supervise \/ \E new \in [Procs -> Configs] : Reload(new)

ReloadSpec == ReloadInit /\ [][ReloadNext]_reload_vars
=============================================================================
