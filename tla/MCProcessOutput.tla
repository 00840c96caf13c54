-------------------------- MODULE MCProcessOutput --------------------------
(***************************************************************************)
(* Instances of ProcessOutput for TLC.                                     *)
(***************************************************************************)
EXTENDS ProcessOutput

CONSTANTS p1, p2, c1, f1, f2, f3

TwoProcs == {p1, p2}
OneProc == {p1}
OneClient == {c1}
NoClient == {}
TwoFds == {f1, f2}
ThreeFds == {f1, f2, f3}

\* The names of processes and the numbers of descriptors are interchangeable.
Symmetry == Permutations(Procs) \cup Permutations(Fds)
=============================================================================
