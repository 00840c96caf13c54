--------------------------- MODULE MCProcessPool ---------------------------
(***************************************************************************)
(* Instances of ProcessPool for TLC.                                       *)
(***************************************************************************)
EXTENDS ProcessPool

EveryName == {"a", "b", "", "no-name"}
Words == {"a", "b", ""}
Lengths == [n \in EveryName |-> CASE n = "" -> 0 [] n = "no-name" -> 7 [] OTHER -> 1]

\* A server with logs, another version of it that differs in startretries only, one
\* that differs in numprocs, and a program with defaults only.
Server == [cmd |-> "server", stdout |-> "out", stderr |-> "err", numprocs |-> 1]
Patient == [cmd |-> "server", stdout |-> "out", stderr |-> "err", numprocs |-> 1,
            startretries |-> 2]
Pair == [cmd |-> "server", stdout |-> "out", numprocs |-> 2, exitcodes |-> Scalar]
Plain == [cmd |-> "job"]
Unnamed == [numprocs |-> 1]
Odd == [cmd |-> "job", stdout |-> Bad]
Locked == [cmd |-> "job", stderr |-> "locked"]
None == [cmd |-> "job", numprocs |-> 0]
Nowhere == [cmd |-> "job", workingdir |-> ""]
TooBig == [cmd |-> "job", exitcodes |-> <<0, 256>>]

Entry(n, x) == [name |-> n, node |-> x]
File(s) == [section |-> TRUE, entries |-> s]

SomeFiles ==
  {[section |-> FALSE, entries |-> <<>>],
   File(<<>>),
   File(<<Entry("a", Patient), Entry("b", Plain)>>),
   File(<<Entry("a", Pair)>>),
   File(<<Entry("b", Plain), Entry("a", Server)>>),
   File(<<Entry("a", Server), Entry("b", None)>>),
   File(<<Entry("a", Plain), Entry("a", Plain)>>),
   File(<<Entry("a", TooBig)>>), File(<<Entry("a", Odd)>>),
   File(<<Entry("a", Unnamed)>>), File(<<Entry("b", Nowhere)>>), File(<<Entry("a", Locked)>>),
   File(<<Entry("", Plain)>>),
   File(<<Entry("no-name", Plain)>>)}

TheDirectories == {"/home"}
=============================================================================
