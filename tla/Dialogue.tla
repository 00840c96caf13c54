------------------------------ MODULE Dialogue ------------------------------
(***************************************************************************)
(* What becomes of the commands of a client, however they and their        *)
(* answers are delayed on the way.  A command is answered at most once, or *)
(* it is thrown away, and never both.  Answers are given in the order of   *)
(* the commands.  Commands are thrown away only behind an earlier one that *)
(* is kept and may still be answered.                                      *)
(***************************************************************************)
EXTENDS Integers

CONSTANT Clients

VARIABLES
  sent,      \* commands sent: the number of the last one
  answered,  \* those whose answer was given
  dropped    \* those that were thrown away

vars == <<sent, answered, dropped>>

Init ==
  /\ sent = [c \in Clients |-> 0]
  /\ answered = [c \in Clients |-> {}]
  /\ dropped = [c \in Clients |-> {}]

Send(c) ==
  /\ sent' = [sent EXCEPT ![c] = @ + 1]
  /\ UNCHANGED <<answered, dropped>>

\* The command k may still be answered.
Due(c, k) ==
  /\ k \in 1..sent[c] /\ k \notin dropped[c]
  /\ \A i \in answered[c] : i < k

Answer(c, k) ==
  /\ Due(c, k)
  /\ answered' = [answered EXCEPT ![c] = @ \cup {k}]
  /\ UNCHANGED <<sent, dropped>>

\* The command k is kept, answered at once or not, and those of D are thrown away.
Discard(c, k, D) ==
  /\ Due(c, k) /\ \A i \in dropped[c] : i < k
  /\ dropped' = [dropped EXCEPT ![c] = @ \cup D]
  /\ answered' = [answered EXCEPT ![c] = @ \cup {k}] \/ UNCHANGED answered
  /\ UNCHANGED sent

Next ==
  \E c \in Clients :
    \/ Send(c)
    \/ \E k \in 1..sent[c] :
         Answer(c, k) \/ \E D \in SUBSET (k+1..sent[c]) : Discard(c, k, D)

Spec == Init /\ [][Next]_vars
=============================================================================
