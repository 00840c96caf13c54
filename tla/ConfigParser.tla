---------------------------- MODULE ConfigParser ----------------------------
(***************************************************************************)
(* The configuration file (src/server/ConfigParser.cpp).                   *)
(*                                                                         *)
(* A file is what YAML::LoadFile returns: whether there is a section       *)
(* "process", and its entries, a name and a node each.  A node maps the    *)
(* fields it has to their values.  A value the conversion to the type of   *)
(* the field throws on is Bad, a scalar where a list is expected is        *)
(* Scalar.  The programs and directories of the system do not change.      *)
(***************************************************************************)
EXTENDS Process, SequencesExt

CONSTANTS
  Alnum,        \* the names made of letters, digits and underscores only
  Size,         \* their lengths, and those of the other names
  Commands,     \* the command lines that expand, to a program that is found
  Directories,  \* the directories of the system
  ReadOnly,     \* the files that exist and have no write permission
  Bad, Scalar

MaxLength == 64

Signals ==
  {"HUP", "INT", "QUIT", "ILL", "ABRT", "FPE", "KILL", "SEGV", "PIPE", "ALRM",
   "TERM", "USR1", "USR2", "CHLD", "CONT", "STOP", "TSTP", "TTIN", "TTOU"}

\* The fields that have a default; cmd is required.  A path that is not given is
\* empty, and is not looked for; the umask is 022.
Default ==
  [workingdir |-> "", stdout |-> "", stderr |-> "", stopsignal |-> "INT",
   numprocs |-> 1, starttime |-> 0, startretries |-> 0, stoptime |-> 3,
   umask |-> 18, autostart |-> TRUE, autorestart |-> "false", env |-> <<>>,
   exitcodes |-> <<0>>]

Fields == DOMAIN Default \cup {"cmd"}

Given(node, f) == IF f \in DOMAIN node THEN node[f] ELSE Default[f]

\* Mutation of Positive: 0 passes as well.
PositiveOrZero(v) == v \in Nat

\* The conversion to unsigned long succeeds and 0 is refused.
Positive(v) == v \in Nat \ {0}

\* A scalar has no items: it is read as an empty list, and so are none of its own.
Items(v) == IF v = Scalar THEN <<>> ELSE v

\* A value that is in the file.  Texts that differ in case only are one value of
\* autorestart.
Accepted(f, v) ==
  CASE f = "cmd" -> v \in Commands
    [] f = "workingdir" -> v \in Directories
    [] f \in {"stdout", "stderr"} -> v \in STRING \ ReadOnly
    [] f = "stopsignal" -> v \in Signals
    [] f \in {"numprocs", "stoptime"} -> Positive(v)
    [] f \in {"starttime", "startretries", "umask"} -> v \in Nat
    [] f = "autostart" -> v \in BOOLEAN
    [] f = "autorestart" -> v \in {"true", "false", "unexpected"}
    [] f = "env" -> v # Bad
    [] f = "exitcodes" -> v # Bad /\ Items(v) \in Seq(0..255)

ValidNode(node) ==
  "cmd" \in DOMAIN node /\ \A f \in Fields \cap DOMAIN node : Accepted(f, node[f])

ParseProcessConfig(node) ==
  [f \in Fields |->
     IF f \in {"env", "exitcodes"} THEN Items(Given(node, f)) ELSE Given(node, f)]

\* is_valid_process_name: the length of a name that is not empty is not looked at.
ValidName(name) == ~(Size[name] = 0 /\ Size[name] <= MaxLength) /\ name \in Alnum

\* parse() throws: nothing of the file is used.
Refused(file) ==
  \/ ~file.section
  \/ \E i \in DOMAIN file.entries :
       \/ ~ValidName(file.entries[i].name)
       \/ ~ValidNode(file.entries[i].node)
       \/ \E j \in 1..i-1 : file.entries[j].name = file.entries[i].name

EntryOf(file, name) == CHOOSE i \in DOMAIN file.entries : file.entries[i].name = name

Parse(file) ==
  [name \in {file.entries[i].name : i \in DOMAIN file.entries} |->
     ParseProcessConfig(file.entries[EntryOf(file, name)].node)]

\* What the supervisor reads of a configuration.
Supervised(c) ==
  [autostart    |-> c.autostart,
   autorestart  |-> CASE c.autorestart = "true" -> "True"
                      [] c.autorestart = "false" -> "False"
                      [] OTHER -> "Unexpected",
   exitcodes    |-> Range(c.exitcodes),
   starttime    |-> c.starttime,
   startretries |-> c.startretries,
   stoptime     |-> c.stoptime,
   stopsignal   |-> IF c.stopsignal = "KILL" THEN "KILL" ELSE "OTHER"]
=============================================================================
