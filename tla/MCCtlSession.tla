---------------------------- MODULE MCCtlSession ----------------------------
(***************************************************************************)
(* Instances of CtlSession for TLC.                                        *)
(***************************************************************************)
EXTENDS CtlSession

CONSTANTS c1, c2

OneClient == {c1}
TwoClients == {c1, c2}
Three == [c \in OneClient |-> 3]
TwoAndOne == [c \in TwoClients |-> IF c = c1 THEN 2 ELSE 1]

\* One command of each kind: answered at once, answered after the batch, the end
\* of the daemon, and attach; stop may have an empty argument.
Kinds == {"stop", "reload", "exit", "attach"}
=============================================================================
