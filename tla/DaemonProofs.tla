---------------------------- MODULE DaemonProofs ----------------------------
(***************************************************************************)
(* Theorems about Daemon, for any number of starts and of files.           *)
(***************************************************************************)
EXTENDS Daemon, TLAPS

\* The invariant leaves no room for two daemons outside the window.
LEMMA InvAlone == DaemonInv => OneDaemon
<1> SUFFICES ASSUME DaemonInv, ~raced, NEW d \in Daemons, NEW e \in Daemons,
                    pc[d] \in Alone, pc[e] \in Alone
             PROVE  d = e
  BY DEF OneDaemon
<1>1. fd[d] = pidfile /\ fd[e] = pidfile /\ d \in locks /\ e \in locks
  BY DEF DaemonInv
<1>2. holders[d] # {} /\ holders[e] # {}
  BY DEF DaemonInv
<1> QED  BY <1>1, <1>2 DEF DaemonInv

LEMMA InvInit == Init => DaemonInv
BY DEF Init, DaemonInv, TypeOK, Alone, SocketNamesServer, PidFileNamesDaemon

LEMMA InvOpenPidFile ==
  ASSUME DaemonInv, NEW d \in Daemons, OpenPidFile(d)
  PROVE  DaemonInv'
<1>1. PICK n \in Inodes :
        /\ IF pidfile = None THEN ~InUse(n) ELSE n = pidfile
        /\ pidfile' = n
        /\ OpenFile(n)
        /\ fd' = [fd EXCEPT ![d] = n]
  BY DEF OpenPidFile
<1> QED
  BY <1>1, DaemonAssumption
  DEF DaemonInv, TypeOK, OpenPidFile, OpenFile, At, Hold, Alone, SocketNamesServer,
      PidFileNamesDaemon

LEMMA InvLock ==
  ASSUME DaemonInv, NEW d \in Daemons, Lock(d)
  PROVE  DaemonInv'
BY DEF DaemonInv, TypeOK, Lock, LockedByOther, At, Alone, SocketNamesServer,
       PidFileNamesDaemon

\* A daemon that runs is alone, so what it writes is nobody else's.
LEMMA InvAloneStep ==
  ASSUME DaemonInv, NEW d \in Daemons,
         \/ Truncate(d) \/ WritePid(d) \/ UnlinkSocket(d) \/ Bind(d)
         \/ Leave(d) \/ CloseSocket(d)
  PROVE  DaemonInv'
<1>1. pc[d] \in Alone /\ (~raced => \A e \in Daemons : pc[e] \in Alone => e = d)
  BY InvAlone DEF OneDaemon, Truncate, WritePid, UnlinkSocket, Bind, Leave, CloseSocket,
                  At, Alone
<1>2. CASE Truncate(d)
  BY <1>1, <1>2 DEF DaemonInv, TypeOK, Truncate, At, Alone, SocketNamesServer,
                    PidFileNamesDaemon
<1>3. CASE WritePid(d)
  BY <1>1, <1>3 DEF DaemonInv, TypeOK, WritePid, At, Alone, SocketNamesServer,
                    PidFileNamesDaemon
<1>4. CASE UnlinkSocket(d)
  BY <1>1, <1>4 DEF DaemonInv, TypeOK, UnlinkSocket, At, Alone, SocketNamesServer,
                    PidFileNamesDaemon
<1>5. CASE Bind(d)
  BY <1>1, <1>5 DEF DaemonInv, TypeOK, Bind, At, Alone, SocketNamesServer,
                    PidFileNamesDaemon
<1>6. CASE Leave(d)
  BY <1>1, <1>6 DEF DaemonInv, TypeOK, Leave, At, Alone, SocketNamesServer,
                    PidFileNamesDaemon
<1>7. CASE CloseSocket(d)
  BY <1>1, <1>7 DEF DaemonInv, TypeOK, CloseSocket, At, Alone, SocketNamesServer,
                    PidFileNamesDaemon
<1> QED  BY <1>2, <1>3, <1>4, <1>5, <1>6, <1>7

\* Who holds the description changes, but a process that runs keeps its own.
LEMMA InvHolders ==
  ASSUME DaemonInv, NEW d \in Daemons,
         \/ Refused(d) \/ Fork(d) \/ ParentExits(d) \/ StartProgram(d)
         \/ ProgramsEnd(d) \/ ClosePidFile(d) \/ Dies(d)
  PROVE  DaemonInv'
<1>1. CASE Refused(d) \/ ClosePidFile(d) \/ Dies(d)
  BY <1>1 DEF DaemonInv, TypeOK, Refused, ClosePidFile, Dies, At, LetGo, Alone,
              SocketNamesServer, PidFileNamesDaemon
<1>2. CASE Fork(d) \/ StartProgram(d)
  BY <1>2 DEF DaemonInv, TypeOK, Fork, StartProgram, At, Hold, Alone,
              SocketNamesServer, PidFileNamesDaemon
<1>3. CASE ParentExits(d) \/ ProgramsEnd(d)
  BY <1>3 DEF DaemonInv, TypeOK, ParentExits, ProgramsEnd, LetGo, Alone,
              SocketNamesServer, PidFileNamesDaemon
<1> QED  BY <1>1, <1>2, <1>3

LEMMA InvUnlinkPidFile ==
  ASSUME DaemonInv, NEW d \in Daemons, UnlinkPidFile(d)
  PROVE  DaemonInv'
BY DEF DaemonInv, TypeOK, UnlinkPidFile, At, Alone, SocketNamesServer, PidFileNamesDaemon

-----------------------------------------------------------------------------

\* The invariant holds in every reachable state.
THEOREM DaemonInvariance == Spec => []DaemonInv
<1>1. DaemonInv /\ [Next]_vars => DaemonInv'
  <2> SUFFICES ASSUME DaemonInv, [Next]_vars  PROVE DaemonInv'
    OBVIOUS
  <2>1. CASE UNCHANGED vars
    BY <2>1 DEF vars, DaemonInv, TypeOK, SocketNamesServer, PidFileNamesDaemon
  <2>2. CASE Next
    BY <2>2, InvOpenPidFile, InvLock, InvAloneStep, InvHolders, InvUnlinkPidFile DEF Next
  <2> QED  BY <2>1, <2>2
<1> QED  BY InvInit, <1>1, PTL DEF Spec

\* One daemon runs at a time, unless a start fell between the close and the unlink
\* of the pid file at the end of another one.
THEOREM DaemonRunsOnce == Spec => []OneDaemon
BY DaemonInvariance, InvAlone, PTL

\* Outside that window no daemon takes the socket of another one away.
THEOREM DaemonIsReachable == Spec => []SocketNamesServer
<1>1. DaemonInv => SocketNamesServer
  BY DEF DaemonInv
<1> QED  BY <1>1, DaemonInvariance, PTL

\* Outside that window the pid file tells the pid of the daemon that runs.
THEOREM PidFileIsRight == Spec => []PidFileNamesDaemon
<1>1. DaemonInv => PidFileNamesDaemon
  BY DEF DaemonInv
<1> QED  BY <1>1, DaemonInvariance, PTL

-----------------------------------------------------------------------------
(* Outside the window every step of a start is a step of Succession.       *)

\* The daemon that runs where the starts are at p.
RunningAt(p) ==
  IF \E d \in Daemons : p[d] \in Alone THEN CHOOSE d \in Daemons : p[d] \in Alone ELSE None

LEMMA RunningIsRunningAt == Running = RunningAt(pc) /\ Running' = RunningAt(pc')
BY DEF Running, RunningAt

LEMMA TheOneRunning ==
  ASSUME NEW p, NEW d \in Daemons, p[d] \in Alone,
         \A e \in Daemons : p[e] \in Alone => e = d
  PROVE  RunningAt(p) = d
<1>1. RunningAt(p) = CHOOSE e \in Daemons : p[e] \in Alone
  BY DEF RunningAt
<1>2. \A e \in Daemons : p[e] \in Alone <=> e = d
  OBVIOUS
<1>3. (CHOOSE e \in Daemons : p[e] \in Alone) \in Daemons
      /\ p[CHOOSE e \in Daemons : p[e] \in Alone] \in Alone
  OBVIOUS
<1> QED  BY <1>1, <1>2, <1>3

LEMMA NoneRunning ==
  ASSUME NEW p, \A e \in Daemons : p[e] \notin Alone
  PROVE  RunningAt(p) = None
BY DEF RunningAt

\* A step that moves no start into or out of Alone leaves the daemon that runs.
LEMMA SameRunning ==
  ASSUME NEW p, NEW q, \A e \in Daemons : p[e] \in Alone <=> q[e] \in Alone
  PROVE  RunningAt(p) = RunningAt(q)
BY DEF RunningAt

LEMMA SuccessionInit == Init => S!Init
<1> SUFFICES ASSUME Init  PROVE S!Init
  OBVIOUS
<1>1. Running = None
  BY NoneRunning, RunningIsRunningAt DEF Init, Alone
<1> QED  BY <1>1 DEF Init, S!Init, Record

\* Opening the pid file, or being refused, shows nothing: a file that is created
\* is empty, as the one that had no name.
LEMMA OpenStutters ==
  ASSUME DaemonInv, NEW d \in Daemons, OpenPidFile(d) \/ Refused(d)
  PROVE  UNCHANGED S!vars
<1>1. \A e \in Daemons : (pc[e] \in Alone <=> pc'[e] \in Alone)
                         /\ (pc[e] = "serving" <=> pc'[e] = "serving")
  BY DEF DaemonInv, TypeOK, OpenPidFile, Refused, At, Alone
<1>2. Record' = Record
  <2>1. CASE Refused(d)
    BY <2>1 DEF Refused, Record
  <2>2. CASE OpenPidFile(d)
    <3>1. PICK n \in Inodes :
            /\ IF pidfile = None THEN ~InUse(n) ELSE n = pidfile
            /\ pidfile' = n
            /\ OpenFile(n)
      BY <2>2 DEF OpenPidFile
    <3> QED  BY <3>1, DaemonAssumption DEF DaemonInv, TypeOK, OpenFile, Record
  <2> QED  BY <2>1, <2>2
<1>3. Running' = Running
  BY <1>1, SameRunning, RunningIsRunningAt
<1>4. (\E e \in Daemons : pc[e] = "serving")' = \E e \in Daemons : pc[e] = "serving"
  BY <1>1
<1>5. UNCHANGED <<sock, raced>>
  BY DEF OpenPidFile, Refused
<1> QED  BY <1>2, <1>3, <1>4, <1>5 DEF S!vars

\* So does who holds the description.
LEMMA HoldersStutter ==
  ASSUME DaemonInv, NEW d \in Daemons,
         Fork(d) \/ ParentExits(d) \/ StartProgram(d) \/ ProgramsEnd(d)
  PROVE  UNCHANGED S!vars
<1>1. \A e \in Daemons : (pc[e] \in Alone <=> pc'[e] \in Alone)
                         /\ (pc[e] = "serving" <=> pc'[e] = "serving")
  BY DEF DaemonInv, TypeOK, Fork, ParentExits, StartProgram, ProgramsEnd, At, Alone
<1>2. UNCHANGED <<pidfile, content, sock, raced>>
  BY DEF Fork, ParentExits, StartProgram, ProgramsEnd
<1>3. Running' = Running
  BY <1>1, SameRunning, RunningIsRunningAt
<1>4. (\E e \in Daemons : pc[e] = "serving")' = \E e \in Daemons : pc[e] = "serving"
  BY <1>1
<1> QED  BY <1>2, <1>3, <1>4 DEF S!vars, Record

\* flock succeeds only when nobody runs: whoever runs has the lock on the same file.
LEMMA LockBegins ==
  ASSUME DaemonInv, ~raced, NEW d \in Daemons, Lock(d)
  PROVE  S!Begin(d)
<1>1. \A e \in Daemons : pc[e] \notin Alone
  <2> SUFFICES ASSUME NEW e \in Daemons, pc[e] \in Alone  PROVE FALSE
    OBVIOUS
  <2>1. pc[d] = "opened" /\ e # d
    BY DEF Lock, At, Alone
  <2>2. fd[d] = pidfile /\ fd[e] = pidfile /\ e \in locks /\ holders[e] # {}
    BY <2>1 DEF DaemonInv
  <2> QED  BY <2>1, <2>2 DEF Lock, LockedByOther
<1>2. \A e \in Daemons : (pc'[e] \in Alone <=> e = d) /\ pc'[e] # "serving"
  BY <1>1 DEF DaemonInv, TypeOK, Lock, At, Alone
<1>3. Running = None /\ Running' = d
  BY <1>1, <1>2, NoneRunning, TheOneRunning, RunningIsRunningAt
<1>4. (\E e \in Daemons : pc[e] = "serving")' = \E e \in Daemons : pc[e] = "serving"
  BY <1>1, <1>2 DEF Alone
<1>5. UNCHANGED <<sock, Record>>
  BY DEF Lock, Record
<1> QED  BY <1>3, <1>4, <1>5 DEF S!Begin

\* A daemon that runs, and goes on running, is the one that runs.
LEMMA StillRunning ==
  ASSUME DaemonInv, ~raced, NEW d \in Daemons, pc[d] \in Alone,
         NEW to \in Alone, pc' = [pc EXCEPT ![d] = to]
  PROVE  /\ Running = d /\ Running' = d
         /\ (\E e \in Daemons : pc[e] = "serving") <=> pc[d] = "serving"
         /\ (\E e \in Daemons : pc[e] = "serving")' <=> to = "serving"
<1>1. \A e \in Daemons : pc[e] \in Alone => e = d
  BY InvAlone DEF OneDaemon
<1>2. \A e \in Daemons : pc'[e] = IF e = d THEN to ELSE pc[e]
  BY DEF DaemonInv, TypeOK
<1>3. Running = d /\ Running' = d
  BY <1>1, <1>2, TheOneRunning, RunningIsRunningAt
<1>4. "serving" \in Alone
  BY DEF Alone
<1> QED  BY <1>1, <1>2, <1>3, <1>4

\* What a daemon does to its file and its path before and after it serves.
LEMMA PathsAreArranged ==
  ASSUME DaemonInv, ~raced, NEW d \in Daemons,
         Truncate(d) \/ WritePid(d) \/ UnlinkSocket(d) \/ CloseSocket(d)
  PROVE  S!Arrange(d)
<1>1. PICK to \in Alone \ {"serving"} :
        pc[d] \in Alone \ {"serving"} /\ pc' = [pc EXCEPT ![d] = to]
  BY DEF Truncate, WritePid, UnlinkSocket, CloseSocket, At, Alone
<1>2. /\ Running = d /\ Running' = d
      /\ ~(\E e \in Daemons : pc[e] = "serving")
      /\ ~(\E e \in Daemons : pc[e] = "serving")'
  BY <1>1, StillRunning
<1>3. fd[d] = pidfile /\ pidfile \in Inodes /\ content \in [Inodes -> Daemons \cup {None}]
  BY <1>1 DEF DaemonInv, TypeOK
<1>4. Record' \in {Record, None, d} /\ sock' \in {sock, None}
  BY <1>3, DaemonAssumption DEF Record, Truncate, WritePid, UnlinkSocket, CloseSocket
<1> QED  BY <1>2, <1>4 DEF S!Arrange

\* bind makes the socket of a daemon whose pid is recorded.
LEMMA BindServes ==
  ASSUME DaemonInv, ~raced, NEW d \in Daemons, Bind(d)
  PROVE  S!Serve(d)
<1>1. pc[d] \in Alone /\ pc[d] = "unbound" /\ pc' = [pc EXCEPT ![d] = "serving"]
  BY DEF Bind, At, Alone
<1>2. /\ Running = d /\ Running' = d
      /\ ~(\E e \in Daemons : pc[e] = "serving")
      /\ (\E e \in Daemons : pc[e] = "serving")'
  BY <1>1, StillRunning DEF Alone
<1>3. Record = d /\ Record' = d
  BY <1>1, DaemonAssumption
  DEF DaemonInv, TypeOK, PidFileNamesDaemon, Alone, Record, Bind
<1> QED  BY <1>2, <1>3 DEF S!Serve, Bind

LEMMA LeaveLeaves ==
  ASSUME DaemonInv, ~raced, NEW d \in Daemons, Leave(d)
  PROVE  S!Leave(d)
<1>1. pc[d] \in Alone /\ pc[d] = "serving" /\ pc' = [pc EXCEPT ![d] = "joined"]
  BY DEF Leave, At, Alone
<1>2. /\ Running = d /\ Running' = d
      /\ \E e \in Daemons : pc[e] = "serving"
      /\ ~(\E e \in Daemons : pc[e] = "serving")'
  BY <1>1, StillRunning DEF Alone
<1> QED  BY <1>2 DEF S!Leave, Leave, Record

\* A daemon that runs ends by closing its file or by dying; a start that had not
\* the lock, or has given it up, may die unnoticed.
LEMMA EndsOrStutters ==
  ASSUME DaemonInv, ~raced, NEW d \in Daemons, ClosePidFile(d) \/ Dies(d)
  PROVE  S!End(d) \/ UNCHANGED S!vars
<1>1. \A e \in Daemons : /\ e # d => pc'[e] = pc[e]
                         /\ pc'[d] \notin Alone
  BY DEF DaemonInv, TypeOK, ClosePidFile, Dies, At, Alone
<1>2. UNCHANGED <<pidfile, content, sock, raced, Record>>
  BY DEF ClosePidFile, Dies, Record
<1>3. "serving" \in Alone
  BY DEF Alone
<1>4. CASE pc[d] \in Alone
  <2>1. \A e \in Daemons : pc[e] \in Alone => e = d
    BY <1>4, InvAlone DEF OneDaemon
  <2>2. Running = d /\ Running' = None
    BY <1>1, <1>4, <2>1, TheOneRunning, NoneRunning, RunningIsRunningAt
  <2>3. ~(\E e \in Daemons : pc[e] = "serving")'
    BY <1>1, <1>3, <2>1
  <2> QED  BY <1>2, <2>2, <2>3 DEF S!End
<1>5. CASE pc[d] \notin Alone
  <2>1. Running' = Running
    BY <1>1, <1>5, SameRunning, RunningIsRunningAt
  <2>2. (\E e \in Daemons : pc[e] = "serving")' = \E e \in Daemons : pc[e] = "serving"
    BY <1>1, <1>3, <1>5
  <2> QED  BY <1>2, <2>1, <2>2 DEF S!vars
<1> QED  BY <1>4, <1>5

\* The name goes when nobody holds the file, so nobody runs; else this is the window.
LEMMA UnlinkForgets ==
  ASSUME DaemonInv, ~raced, NEW d \in Daemons, UnlinkPidFile(d)
  PROVE  (S!Forget /\ UNCHANGED raced) \/ raced' = TRUE
<1>1. CASE \E e \in Daemons : fd[e] = pidfile /\ "self" \in holders[e]
  BY <1>1 DEF UnlinkPidFile
<1>2. CASE ~\E e \in Daemons : fd[e] = pidfile /\ "self" \in holders[e]
  <2>1. \A e \in Daemons : pc[e] \notin Alone
    BY <1>2 DEF DaemonInv
  <2>2. \A e \in Daemons : pc'[e] \notin Alone
    BY <2>1 DEF DaemonInv, TypeOK, UnlinkPidFile, At, Alone
  <2>3. "serving" \in Alone
    BY DEF Alone
  <2>4. Running = None /\ Running' = None
    BY <2>1, <2>2, NoneRunning, RunningIsRunningAt
  <2>5. (\E e \in Daemons : pc[e] = "serving")' = \E e \in Daemons : pc[e] = "serving"
    BY <2>1, <2>2, <2>3
  <2>6. Record' = None /\ UNCHANGED <<sock, raced>>
    BY <1>2 DEF UnlinkPidFile, Record, DaemonInv, TypeOK
  <2> QED  BY <2>4, <2>5, <2>6 DEF S!Forget
<1> QED  BY <1>1, <1>2

\* A race is not forgotten.
LEMMA RacedStays == Next => (raced => raced')
BY DEF Next, OpenPidFile, Lock, Refused, Truncate, Fork, ParentExits, WritePid,
       UnlinkSocket, Bind, StartProgram, ProgramsEnd, Leave, CloseSocket, ClosePidFile,
       UnlinkPidFile, Dies

LEMMA SuccessionStep ==
  ASSUME DaemonInv, [Next]_vars
  PROVE  [S!Next]_S!vars
<1>1. CASE UNCHANGED vars
  <2>1. Running' = Running
    BY <1>1, RunningIsRunningAt DEF vars
  <2> QED  BY <1>1, <2>1 DEF vars, S!vars, Record
<1>2. CASE Next /\ raced
  BY <1>2, RacedStays DEF S!Next, DaemonInv, TypeOK, vars
<1>3. CASE Next /\ ~raced
  <2>1. PICK d \in Daemons :
          \/ OpenPidFile(d) \/ Lock(d) \/ Refused(d) \/ Truncate(d)
          \/ Fork(d) \/ ParentExits(d) \/ WritePid(d)
          \/ UnlinkSocket(d) \/ Bind(d)
          \/ StartProgram(d) \/ ProgramsEnd(d)
          \/ Leave(d) \/ CloseSocket(d) \/ ClosePidFile(d) \/ UnlinkPidFile(d)
          \/ Dies(d)
    BY <1>3 DEF Next
  <2>2. CASE OpenPidFile(d) \/ Refused(d)
    BY <2>2, OpenStutters
  <2>3. CASE Fork(d) \/ ParentExits(d) \/ StartProgram(d) \/ ProgramsEnd(d)
    BY <2>3, HoldersStutter
  <2>4. CASE Lock(d)
    BY <1>3, <2>4, LockBegins DEF Lock, S!Next, S!Step
  <2>5. CASE Truncate(d) \/ WritePid(d) \/ UnlinkSocket(d) \/ CloseSocket(d)
    BY <1>3, <2>5, PathsAreArranged
    DEF Truncate, WritePid, UnlinkSocket, CloseSocket, S!Next, S!Step
  <2>6. CASE Bind(d)
    BY <1>3, <2>6, BindServes DEF Bind, S!Next, S!Step
  <2>7. CASE Leave(d)
    BY <1>3, <2>7, LeaveLeaves DEF Leave, S!Next, S!Step
  <2>8. CASE ClosePidFile(d) \/ Dies(d)
    BY <1>3, <2>8, EndsOrStutters DEF ClosePidFile, Dies, S!Next, S!Step
  <2>9. CASE UnlinkPidFile(d)
    BY <1>3, <2>9, UnlinkForgets DEF S!Next, S!Step
  <2> QED  BY <2>1, <2>2, <2>3, <2>4, <2>5, <2>6, <2>7, <2>8, <2>9
<1> QED  BY <1>1, <1>2, <1>3

\* The starts of the daemon, refused, killed or overlapping, follow one another as
\* module Succession says, until a start falls into the window.
THEOREM DaemonsSucceedEachOther == Spec => SucceedEachOther
<1>1. DaemonInv /\ [Next]_vars => [S!Next]_S!vars
  BY SuccessionStep
<1> QED  BY SuccessionInit, <1>1, DaemonInvariance, PTL DEF Spec, SucceedEachOther, S!Spec
=============================================================================
