------------------------------- MODULE Daemon -------------------------------
(***************************************************************************)
(* The start and the end of the daemon (src/server/main.cpp), with the two *)
(* paths it owns: the pid file, on which it keeps a lock so that it runs   *)
(* once, and the socket its clients connect to (UnixSocketServer.cpp).     *)
(*                                                                         *)
(* A daemon may be started again while another one starts, serves or ends. *)
(* The lock belongs to the open file description of the pid file: the      *)
(* process that forks the daemon, the daemon and the programs it runs all  *)
(* hold that description, and the lock lasts as long as one of them does.  *)
(* An unlinked file lasts as long as somebody holds it.                    *)
(***************************************************************************)
CONSTANTS
  Daemons,   \* the starts of taskmasterd that may overlap
  Inodes     \* the files the path of the pid file may name, one after another

None == "none"

ASSUME DaemonAssumption == None \notin Daemons /\ None \notin Inodes

VARIABLES
  pc,        \* what each start is at
  fd,        \* pidfile_fd: the file it has opened
  holders,   \* who holds its open file description
  locks,     \* the starts whose flock succeeded
  pidfile,   \* the file that TASKMASTER_PIDFILE names
  content,   \* whose pid each file holds
  sock,      \* whose socket SOCKET_PATH_NAME names
  raced      \* history: a pid file was unlinked that another start had opened

vars == <<pc, fd, holders, locks, pidfile, content, sock, raced>>

\* The points between flock and the end of ~Taskmaster, at which a daemon counts
\* on being the only one.
Alone == {"locked", "truncated", "forked", "written", "unbound", "serving",
          "joined", "closed"}

TypeOK ==
  /\ pc \in [Daemons -> Alone \cup {"off", "opened", "released"}]
  /\ fd \in [Daemons -> Inodes \cup {None}]
  /\ holders \in [Daemons -> SUBSET {"self", "parent", "programs"}]
  /\ locks \subseteq Daemons
  /\ pidfile \in Inodes \cup {None}
  /\ content \in [Inodes -> Daemons \cup {None}]
  /\ sock \in Daemons \cup {None}
  /\ raced \in BOOLEAN

Init ==
  /\ pc = [d \in Daemons |-> "off"]
  /\ fd = [d \in Daemons |-> None]
  /\ holders = [d \in Daemons |-> {}]
  /\ locks = {}
  /\ pidfile = None
  /\ content = [n \in Inodes |-> None]
  /\ sock = None
  /\ raced = FALSE

-----------------------------------------------------------------------------

At(d, from, to) == pc[d] = from /\ pc' = [pc EXCEPT ![d] = to]

Hold(d, who) == holders' = [holders EXCEPT ![d] = @ \cup {who}]
LetGo(d, who) == holders' = [holders EXCEPT ![d] = @ \ {who}]

\* The file n is named or open.
InUse(n) == n = pidfile \/ \E d \in Daemons : fd[d] = n /\ holders[d] # {}

\* Somebody else's description has the lock on the file that d has opened.
LockedByOther(d) ==
  \E e \in locks \ {d} : fd[e] = fd[d] /\ holders[e] # {}

\* Mutation of OpenFile: O_TRUNC.
OpenFileTruncating(n) == content' = [content EXCEPT ![n] = None]

\* A file that open(O_CREAT) has created is empty, another is left as it is.
OpenFile(n) ==
  content' = [content EXCEPT ![n] = IF n = pidfile THEN @ ELSE None]

\* create_pidfile: open(O_CREAT).
OpenPidFile(d) ==
  /\ holders[d] = {}
  /\ At(d, "off", "opened")
  /\ \E n \in Inodes :
       /\ IF pidfile = None THEN ~InUse(n) ELSE n = pidfile
       /\ pidfile' = n
       /\ OpenFile(n)
       /\ fd' = [fd EXCEPT ![d] = n]
  /\ Hold(d, "self")
  /\ locks' = locks \ {d}
  /\ UNCHANGED <<sock, raced>>

\* Mutation of Lock: LOCK_SH, or a failure that is not tested.
LockShared(d) ==
  /\ At(d, "opened", "locked")
  /\ locks' = locks \cup {d}
  /\ UNCHANGED <<fd, holders, pidfile, content, sock, raced>>

\* flock(LOCK_EX | LOCK_NB).
Lock(d) ==
  /\ At(d, "opened", "locked")
  /\ ~LockedByOther(d)
  /\ locks' = locks \cup {d}
  /\ UNCHANGED <<fd, holders, pidfile, content, sock, raced>>

\* "Daemon already running !"
Refused(d) ==
  /\ At(d, "opened", "off")
  /\ LockedByOther(d)
  /\ LetGo(d, "self")
  /\ UNCHANGED <<fd, locks, pidfile, content, sock, raced>>

Truncate(d) ==
  /\ At(d, "locked", "truncated")
  /\ content' = [content EXCEPT ![fd[d]] = None]
  /\ UNCHANGED <<fd, holders, locks, pidfile, sock, raced>>

\* daemon(): from here on self is the child, and its parent is about to exit.
Fork(d) ==
  /\ At(d, "truncated", "forked")
  /\ Hold(d, "parent")
  /\ UNCHANGED <<fd, locks, pidfile, content, sock, raced>>

ParentExits(d) ==
  /\ "parent" \in holders[d]
  /\ LetGo(d, "parent")
  /\ UNCHANGED <<pc, fd, locks, pidfile, content, sock, raced>>

WritePid(d) ==
  /\ At(d, "forked", "written")
  /\ content' = [content EXCEPT ![fd[d]] = d]
  /\ UNCHANGED <<fd, holders, locks, pidfile, sock, raced>>

\* The constructor of UnixSocketServer unlinks the path, whosever it is, and
\* binds it, which fails when it is taken again.
UnlinkSocket(d) ==
  /\ At(d, "written", "unbound")
  /\ sock' = None
  /\ UNCHANGED <<fd, holders, locks, pidfile, content, raced>>

Bind(d) ==
  /\ At(d, "unbound", "serving")
  /\ sock = None
  /\ sock' = d
  /\ UNCHANGED <<fd, holders, locks, pidfile, content, raced>>

\* A program the daemon starts, or a descendant of it, holds what the daemon
\* holds, until it ends.
StartProgram(d) ==
  /\ pc[d] = "serving"
  /\ Hold(d, "programs")
  /\ UNCHANGED <<pc, fd, locks, pidfile, content, sock, raced>>

ProgramsEnd(d) ==
  /\ "programs" \in holders[d]
  /\ LetGo(d, "programs")
  /\ UNCHANGED <<pc, fd, locks, pidfile, content, sock, raced>>

\* loop() has returned or thrown, and ~Taskmaster has joined the worker.
Leave(d) ==
  /\ At(d, "serving", "joined")
  /\ UNCHANGED <<fd, holders, locks, pidfile, content, sock, raced>>

\* ~UnixSocketServer unlinks the path, whosever it is.
CloseSocket(d) ==
  /\ At(d, "joined", "closed")
  /\ sock' = None
  /\ UNCHANGED <<fd, holders, locks, pidfile, content, raced>>

\* The end of main: the pid file is closed, then unlinked.
ClosePidFile(d) ==
  /\ At(d, "closed", "released")
  /\ LetGo(d, "self")
  /\ UNCHANGED <<fd, locks, pidfile, content, sock, raced>>

UnlinkPidFile(d) ==
  /\ At(d, "released", "off")
  /\ pidfile' = None
  /\ raced' = \/ raced
              \/ \E e \in Daemons : fd[e] = pidfile /\ "self" \in holders[e]
  /\ UNCHANGED <<fd, holders, locks, content, sock>>

\* The process ends before the end of main: a step of its start fails, loop()
\* threw, or a signal kills it.  Nothing is unlinked, as when the daemon, which
\* is no longer root, may not unlink its pid file.
Dies(d) ==
  /\ pc[d] # "off"
  /\ pc' = [pc EXCEPT ![d] = "off"]
  /\ LetGo(d, "self")
  /\ UNCHANGED <<fd, locks, pidfile, content, sock, raced>>

Next ==
  \E d \in Daemons :
    \/ OpenPidFile(d) \/ Lock(d) \/ Refused(d) \/ Truncate(d)
    \/ Fork(d) \/ ParentExits(d) \/ WritePid(d)
    \/ UnlinkSocket(d) \/ Bind(d)
    \/ StartProgram(d) \/ ProgramsEnd(d)
    \/ Leave(d) \/ CloseSocket(d) \/ ClosePidFile(d) \/ UnlinkPidFile(d)
    \/ Dies(d)

Spec == Init /\ [][Next]_vars

-----------------------------------------------------------------------------
(* The end of main leaves one window, between close and unlink: a start that *)
(* falls into it locks a file that is about to lose its name, and a later    *)
(* start locks another file.  The properties say that this is the only one.  *)

\* Unless a start fell into that window, one daemon runs at a time, whatever
\* starts are refused, fail or are killed and whatever programs survive them.
OneDaemon ==
  ~raced => \A d, e \in Daemons : pc[d] \in Alone /\ pc[e] \in Alone => d = e

\* Likewise, the clients of a daemon that serves reach it: no start and no end of
\* another one takes its socket away.
SocketNamesServer == ~raced => \A d \in Daemons : pc[d] = "serving" => sock = d

\* Likewise, the pid file holds the pid of the daemon that runs.
PidFileNamesDaemon ==
  ~raced => \A d \in Daemons :
    pc[d] \in Alone \ {"locked", "truncated", "forked"}
      => fd[d] = pidfile /\ content[fd[d]] = d

\* The inductive invariant behind them: a start that has opened the pid file holds
\* it, one that runs has the lock, one description has the lock on a file, and
\* outside the window the file that is held is the one that has the name.
DaemonInv ==
  /\ TypeOK
  /\ \A d \in Daemons :
       /\ pc[d] \in Alone \cup {"opened"} =>
            /\ fd[d] \in Inodes /\ "self" \in holders[d]
            /\ ~raced => fd[d] = pidfile
       /\ pc[d] \in Alone => d \in locks
  /\ \A d, e \in locks :
       fd[d] = fd[e] /\ holders[d] # {} /\ holders[e] # {} => d = e
  /\ SocketNamesServer
  /\ PidFileNamesDaemon

-----------------------------------------------------------------------------
(* Refinement: the starts implement module Succession.  The pid recorded is *)
(* the one that a reader of TASKMASTER_PIDFILE finds.                       *)

Running ==
  IF \E d \in Daemons : pc[d] \in Alone THEN CHOOSE d \in Daemons : pc[d] \in Alone ELSE None

Record == IF pidfile = None THEN None ELSE content[pidfile]

S == INSTANCE Succession WITH
       running <- Running,
       serving <- \E d \in Daemons : pc[d] = "serving",
       socket  <- sock,
       record  <- Record

\* Daemons follow one another: each serves only under its own pid and socket, and
\* until it has left nobody changes either, up to a start in the window.
SucceedEachOther == S!Spec
=============================================================================
