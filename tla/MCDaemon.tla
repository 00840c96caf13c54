------------------------------ MODULE MCDaemon ------------------------------
(***************************************************************************)
(* Three starts of the daemon: one that ends, one that falls into the end  *)
(* of the first, and one that comes after the unlink.                      *)
(***************************************************************************)
EXTENDS Daemon, TLC

CONSTANTS d1, d2, d3, n1, n2, n3

ThreeDaemons == {d1, d2, d3}
ThreeFiles == {n1, n2, n3}

\* Starts are interchangeable, and so are files.
Symmetry == Permutations(ThreeDaemons) \cup Permutations(ThreeFiles)
=============================================================================
