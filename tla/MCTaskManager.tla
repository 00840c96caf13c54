--------------------------- MODULE MCTaskManager ---------------------------
(***************************************************************************)
(* Instances of TaskManager for TLC.                                       *)
(***************************************************************************)
EXTENDS TaskManager

\* One value 0 and one other value are enough for starttime and startretries:
\* the code compares them with 0 and with a counter.  With exitcodes {0} a child
\* ends as expected with 0 or by a signal, and unexpectedly with 1.
AllConfigs ==
  [autostart    : BOOLEAN,
   autorestart  : AutoRestart,
   exitcodes    : {{0}},
   starttime    : {0, 1},
   startretries : {0, 1},
   stoptime     : {2},
   stopsignal   : {"KILL", "OTHER"}]

\* A server that must stay up, and a program that runs and ends.
Server ==
  [autostart |-> TRUE, autorestart |-> "True", exitcodes |-> {0},
   starttime |-> 1, startretries |-> 1, stoptime |-> 1, stopsignal |-> "OTHER"]

Job ==
  [autostart |-> FALSE, autorestart |-> "Unexpected", exitcodes |-> {0},
   starttime |-> 0, startretries |-> 0, stoptime |-> 1, stopsignal |-> "KILL"]

ServerOnly == {Server}
JobOnly == {Job}
ServerAndJob == {Server, Job}

OneProc == {"p1"}
TwoProcs == {"p1", "p2"}
OneGroup == {"g1"}
TwoGroups == {"g1", "g2"}
SameGroup == [p \in {"p1", "p2"} |-> "g1"]
OwnGroup == [p \in {"p1", "p2"} |-> IF p = "p1" THEN "g1" ELSE "g2"]
OneGroupOf == [p \in {"p1"} |-> "g1"]
=============================================================================
