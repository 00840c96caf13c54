---------------------------- MODULE MCTaskmaster ----------------------------
(***************************************************************************)
(* Instances of Taskmaster for TLC.                                        *)
(***************************************************************************)
EXTENDS Taskmaster

\* A server, the same allowed one more retry, and a program without starttime
\* whose configuration differs in what a reload compares.
Server ==
  [autostart |-> TRUE, autorestart |-> "True", exitcodes |-> {0},
   starttime |-> 1, startretries |-> 0, stoptime |-> 1, stopsignal |-> "OTHER"]

Patient == [Server EXCEPT !.startretries = 1]

Instant == [Patient EXCEPT !.starttime = 0, !.autorestart = "False"]

TwoFiles == {Server, Instant}

OneProc == {"p1"}
OneGroup == {"g1"}
OneGroupOf == [p \in {"p1"} |-> "g1"]
=============================================================================
