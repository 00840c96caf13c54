------------------------- MODULE TaskManagerProofs -------------------------
(***************************************************************************)
(* Theorems about TaskManager, for every set of processes, groups and      *)
(* configurations.                                                         *)
(***************************************************************************)
EXTENDS TaskManager, TLAPS

-----------------------------------------------------------------------------
(* The operators of a visit.                                                *)

\* The bound of a failure counter that is only compared with startretries.
Counted(r, c) == r.num_retries <= c.startretries + 1

LEMMA ConfigType ==
  ASSUME config \in [Groups -> Configs], NEW p \in Procs
  PROVE  ConfigOf(p) \in ProcessConfig
BY TaskManagerAssumption DEF ConfigOf

LEMMA UpdateStatusType ==
  ASSUME NEW r \in ProcessRecord, NEW k, NEW ws \in Codes
  PROVE  /\ UpdateStatus(r, k, ws) \in ProcessRecord
         /\ UpdateStatus(r, k, ws).num_retries = r.num_retries
         /\ UpdateStatus(r, k, ws).state = r.state
         /\ UpdateStatus(r, k, ws).previous_state = r.previous_state
         /\ UpdateStatus(r, k, ws).pending_command = r.pending_command
         /\ UpdateStatus(r, k, ws).killed = r.killed
         /\ UpdateStatus(r, k, ws).running <=> k \in Live
         /\ UpdateStatus(r, k, ws).has_pid <=> r.has_pid /\ k \in Live
<1>1. CASE k \in Live
  BY <1>1 DEF UpdateStatus, ProcessRecord
<1>2. CASE k \notin Live
  BY <1>2 DEF UpdateStatus, ProcessRecord
<1> QED  BY <1>1, <1>2

LEMMA NextStateType ==
  ASSUME NEW r \in ProcessRecord, NEW c \in ProcessConfig, NEW rt
  PROVE  NextState(r, c, rt) \in State
BY DEF NextState, ProcessRecord, State

LEMMA TransitType ==
  ASSUME NEW r \in ProcessRecord, NEW c \in ProcessConfig, NEW rt
  PROVE  /\ Transit(r, c, rt) \in ProcessRecord
         /\ Transit(r, c, rt).state = NextState(r, c, rt)
         /\ Transit(r, c, rt).previous_state = r.state
         /\ Transit(r, c, rt).pending_command = r.pending_command
         /\ Transit(r, c, rt).num_retries = r.num_retries
         /\ Transit(r, c, rt).has_pid = r.has_pid
         /\ Transit(r, c, rt).running = r.running
         /\ Transit(r, c, rt).killed = r.killed
BY NextStateType DEF Transit, ProcessRecord

LEMMA CountFailureType ==
  ASSUME NEW r \in ProcessRecord, NEW c \in ProcessConfig, Counted(r, c)
  PROVE  /\ CountFailure(r, c) \in ProcessRecord
         /\ Counted(CountFailure(r, c), c)
         /\ CountFailure(r, c).state = r.state
         /\ CountFailure(r, c).previous_state = r.previous_state
         /\ CountFailure(r, c).pending_command = r.pending_command
         /\ CountFailure(r, c).killed = r.killed
         /\ CountFailure(r, c).running = r.running
         /\ CountFailure(r, c).has_pid = r.has_pid
         /\ CountFailure(r, c).num_retries =
              IF r.running \/ r.num_retries = c.startretries + 1
                THEN r.num_retries ELSE r.num_retries + 1
BY DEF CountFailure, Counted, ProcessRecord, ProcessConfig

LEMMA TakeCommandType ==
  ASSUME NEW r \in ProcessRecord, NEW c \in ProcessConfig, Counted(r, c)
  PROVE  /\ TakeCommand(r) \in ProcessRecord
         /\ Counted(TakeCommand(r), c)
         /\ TakeCommand(r).state = r.state
         /\ TakeCommand(r).previous_state = r.previous_state
         /\ TakeCommand(r).running = r.running
         /\ TakeCommand(r).has_pid = r.has_pid
         /\ ~AskedUp(TakeCommand(r))
         /\ TakeCommand(r).num_retries = IF AskedUp(r) THEN 0 ELSE r.num_retries
<1>1. CASE AskedUp(r)
  <2>1. TakeCommand(r) = [r EXCEPT !.num_retries = 0, !.pending_command = "None"]
    BY <1>1 DEF TakeCommand
  <2>2. TakeCommand(r) \in ProcessRecord
    <3>1. "None" \in Command /\ 0 \in Nat
      BY DEF Command
    <3> QED  BY <2>1, <3>1 DEF ProcessRecord
  <2>3. /\ TakeCommand(r).num_retries = 0
        /\ TakeCommand(r).pending_command = "None"
        /\ TakeCommand(r).state = r.state
        /\ TakeCommand(r).previous_state = r.previous_state
        /\ TakeCommand(r).running = r.running
        /\ TakeCommand(r).has_pid = r.has_pid
    BY <2>1 DEF ProcessRecord
  <2>4. c.startretries \in Nat
    BY DEF ProcessConfig
  <2> QED
    BY <1>1, <2>2, <2>3, <2>4 DEF AskedUp, Counted
<1>2. CASE ~AskedUp(r)
  BY <1>2 DEF TakeCommand, Counted
<1> QED  BY <1>1, <1>2

\* The remaining ones touch has_pid, running, killed and pending_command only.
LEMMA SimpleTypes ==
  ASSUME NEW r \in ProcessRecord
  PROVE  /\ Started(r) \in ProcessRecord
         /\ LoseChild(r) \in ProcessRecord
         /\ Killed(r) \in ProcessRecord
         /\ ForgetCommand(r) \in ProcessRecord
         /\ \A s \in {Started(r), LoseChild(r), Killed(r), ForgetCommand(r)} :
              /\ s.num_retries = r.num_retries
              /\ s.state = r.state
              /\ s.previous_state = r.previous_state
<1>1. "None" \in Command
  BY DEF Command
<1>2. Started(r) \in ProcessRecord /\ LoseChild(r) \in ProcessRecord /\ Killed(r) \in ProcessRecord
  BY DEF Started, LoseChild, Killed, ProcessRecord
<1>3. ForgetCommand(r) \in ProcessRecord
  BY <1>1 DEF ForgetCommand, ProcessRecord
<1>4. \A s \in {Started(r), LoseChild(r), Killed(r)} :
        /\ s.num_retries = r.num_retries
        /\ s.state = r.state
        /\ s.previous_state = r.previous_state
  BY DEF Started, LoseChild, Killed, ProcessRecord
<1>5. /\ ForgetCommand(r).num_retries = r.num_retries
      /\ ForgetCommand(r).state = r.state
      /\ ForgetCommand(r).previous_state = r.previous_state
  BY DEF ForgetCommand, ProcessRecord
<1> QED  BY <1>2, <1>3, <1>4, <1>5

LEMMA ChildType ==
  ASSUME NEW k \in Child, NEW sig
  PROVE  AfterWait(k) \in Child /\ Deliver(k, sig) \in Child
BY DEF AfterWait, Deliver, Child, Live

-----------------------------------------------------------------------------
(* One visit, on the record r of a Process, its child k, its configuration c *)
(* and its forks a in a row: what the visit leaves is of the right type and  *)
(* consistent.                                                               *)

Sound(r, k, c, a, w) ==
  /\ r \in ProcessRecord
  /\ c \in ProcessConfig
  /\ Counted(r, c)
  /\ k \in Child
  /\ a \in Nat
  /\ Consistent(r, k, c, a, w)

LEMMA SoundWaiting ==
  ASSUME NEW r, NEW k, NEW c, NEW a, NEW rt,
         Sound(r, k, c, a, "work"), r.state = "Waiting"
  PROVE  Sound(Transit(r, c, rt), k, c, a, "work")
<1> DEFINE n == Transit(r, c, rt)
<1>1. /\ n \in ProcessRecord
      /\ n.previous_state = "Waiting"
      /\ n.state \in {"Starting", "Stopped"}
      /\ n.has_pid = r.has_pid
      /\ n.num_retries = r.num_retries
      /\ n.pending_command = r.pending_command
  BY TransitType DEF Sound, NextState
<1>2. a = 0 /\ r.num_retries \in Nat /\ c.startretries \in Nat
  BY DEF Sound, Consistent, AttemptInv, ProcessRecord, ProcessConfig
<1> HIDE DEF n
<1>3. PidInv(n, k, c, "work") /\ StopInv(n, k, c) /\ AliveInv(n, k)
  BY <1>1 DEF Sound, Consistent, PidInv, StopInv, AliveInv, Down, Awaited, Entering
<1>4. AttemptInv(n, c, a, "work")
  BY <1>1, <1>2 DEF Sound, Consistent, AttemptInv, Entering, AskedUp
<1> QED
  BY <1>1, <1>3, <1>4 DEF Sound, Consistent, Counted, n

LEMMA SoundStart ==
  ASSUME NEW r, NEW k, NEW c, NEW a,
         Sound(r, k, c, a, "work"), r.state = "Starting", Entering(r),
         NEW kk \in {"alive", "zombie"}, NEW ws \in Codes,
         NEW polled, polled = IF c.starttime = 0
                                THEN Started(TakeCommand(r))
                                ELSE UpdateStatus(Started(TakeCommand(r)), kk, ws),
         NEW n, n = Transit(CountFailure(polled, c), c, 0)
  PROVE  Sound(n, IF c.starttime = 0 THEN kk ELSE AfterWait(kk), c,
               IF n.state = "Running" THEN 0 ELSE a + 1, "work")
<1> DEFINE t == TakeCommand(r)
           f == Started(t)
           m == CountFailure(polled, c)
           kn == IF c.starttime = 0 THEN kk ELSE AfterWait(kk)
<1>1. /\ t \in ProcessRecord /\ Counted(t, c) /\ ~AskedUp(t)
      /\ t.state = "Starting"
      /\ t.num_retries = IF AskedUp(r) THEN 0 ELSE r.num_retries
  BY TakeCommandType DEF Sound
<1>2. /\ f \in ProcessRecord /\ Counted(f, c) /\ ~AskedUp(f)
      /\ f.state = "Starting" /\ f.has_pid
      /\ f.num_retries = t.num_retries
  <2> HIDE DEF t
  <2> QED  BY <1>1, SimpleTypes DEF Started, Counted, AskedUp, ProcessRecord
<1>3. /\ polled \in ProcessRecord /\ Counted(polled, c) /\ ~AskedUp(polled)
      /\ polled.state = "Starting"
      /\ polled.num_retries = t.num_retries
      /\ c.starttime = 0 => polled.has_pid
      /\ c.starttime # 0 => /\ polled.running <=> kk = "alive"
                            /\ polled.has_pid <=> kk = "alive"
  <2>1. CASE c.starttime = 0
    <3>1. polled = f
      BY <2>1
    <3> HIDE DEF f
    <3> QED  BY <1>2, <2>1, <3>1
  <2>2. CASE c.starttime # 0
    <3>1. polled = UpdateStatus(f, kk, ws)
      BY <2>2
    <3> HIDE DEF f
    <3> QED  BY <1>2, <2>2, <3>1, UpdateStatusType DEF Counted, AskedUp, Live
  <2> QED  BY <2>1, <2>2
<1>4. /\ m \in ProcessRecord /\ Counted(m, c) /\ ~AskedUp(m)
      /\ m.state = "Starting"
      /\ m.has_pid = polled.has_pid /\ m.running = polled.running
      /\ m.num_retries = IF polled.running \/ t.num_retries = c.startretries + 1
                           THEN t.num_retries ELSE t.num_retries + 1
  BY <1>3, CountFailureType DEF Sound, AskedUp
<1>5. c \in ProcessConfig /\ c.starttime \in Nat /\ c.startretries \in Nat /\ a \in Nat
  BY DEF Sound, ProcessConfig
<1>6. /\ n \in ProcessRecord /\ Counted(n, c) /\ ~AskedUp(n)
      /\ n.previous_state = "Starting"
      /\ n.has_pid = polled.has_pid
      /\ n.num_retries = m.num_retries
      /\ c.starttime = 0 => n.state = "Running"
      /\ c.starttime # 0 /\ kk = "zombie" => n.state = "Stopped"
      /\ c.starttime # 0 /\ kk = "alive" => n.state \in {"Starting", "Exiting"}
  <2>0. n = Transit(m, c, 0)
    OBVIOUS
  <2> HIDE DEF m
  <2>1. n.state = NextState(m, c, 0)
    BY <1>4, <1>5, <2>0, TransitType
  <2>2. /\ n \in ProcessRecord /\ Counted(n, c) /\ ~AskedUp(n)
        /\ n.previous_state = "Starting"
        /\ n.has_pid = polled.has_pid
        /\ n.num_retries = m.num_retries
    BY <1>4, <1>5, <2>0, TransitType DEF Counted, AskedUp
  <2> QED  BY <1>3, <1>4, <1>5, <2>1, <2>2 DEF NextState
<1>7. kn \in Child /\ (c.starttime = 0 => kn \in {"alive", "zombie"})
      /\ (c.starttime # 0 => kn = IF kk = "alive" THEN "alive" ELSE "none")
  BY DEF AfterWait, Child, Live
<1>8. /\ a <= c.startretries /\ a <= r.num_retries
      /\ AskedUp(r) => a = 0
      /\ r.num_retries \in Nat
  BY DEF Sound, Consistent, AttemptInv, ProcessRecord
<1>9. PidInv(n, kn, c, "work") /\ StopInv(n, kn, c) /\ AliveInv(n, kn)
  <2> HIDE DEF kn
  <2> QED
    BY <1>3, <1>6, <1>7 DEF PidInv, StopInv, AliveInv, Down, Awaited, Entering
<1>10. AttemptInv(n, c, IF n.state = "Running" THEN 0 ELSE a + 1, "work")
  <2> HIDE DEF t, m
  <2>1. CASE n.state = "Running"
    BY <1>5, <1>6, <2>1 DEF AttemptInv, Entering
  <2>2. CASE n.state # "Running"
    <3>1. a + 1 <= m.num_retries + 1
      BY <1>1, <1>4, <1>5, <1>8 DEF ProcessRecord
    <3>2. n.state = "Stopped" => a + 1 <= m.num_retries
      BY <1>1, <1>3, <1>4, <1>5, <1>6, <1>8 DEF ProcessRecord
    <3> QED
      BY <1>5, <1>6, <1>8, <2>2, <3>1, <3>2 DEF AttemptInv, Entering
  <2> QED  BY <2>1, <2>2
<1> QED
  BY <1>5, <1>6, <1>7, <1>9, <1>10 DEF Sound, Consistent

\* What waitpid leaves of a child that has a pid.
LEMMA Polled ==
  ASSUME NEW r \in ProcessRecord, NEW k \in Child, NEW ws \in Codes, NEW c,
         Counted(r, c), r.has_pid, k # "none",
         NEW s, s = UpdateStatus(r, k, ws)
  PROVE  /\ s \in ProcessRecord /\ Counted(s, c)
         /\ s.state = r.state
         /\ s.previous_state = r.previous_state
         /\ s.pending_command = r.pending_command
         /\ s.num_retries = r.num_retries
         /\ s.running <=> k # "zombie"
         /\ s.has_pid <=> k # "zombie"
         /\ AfterWait(k) = IF k = "zombie" THEN "none" ELSE k
BY UpdateStatusType DEF Counted, Child, Live, AfterWait

LEMMA SoundStarting ==
  ASSUME NEW r, NEW k, NEW c, NEW a, NEW rt, NEW ws \in Codes,
         Sound(r, k, c, a, "work"), r.state = "Starting", ~Entering(r),
         NEW n, n = Transit(CountFailure(UpdateStatus(r, k, ws), c), c, rt)
  PROVE  Sound(n, AfterWait(k), c, IF n.state = "Running" THEN 0 ELSE a, "work")
<1> DEFINE s == UpdateStatus(r, k, ws)
           m == CountFailure(s, c)
<1>1. /\ r \in ProcessRecord /\ k \in {"alive", "zombie"} /\ r.has_pid
      /\ k \in Child
      /\ c \in ProcessConfig /\ c.starttime # 0 /\ c.startretries \in Nat
      /\ a \in Nat /\ a <= r.num_retries + 1 /\ a <= c.startretries + 1
      /\ r.num_retries \in Nat /\ Counted(r, c)
      /\ AskedUp(r) => a = 0
  BY DEF Sound, Consistent, PidInv, AliveInv, AttemptInv, Awaited, ProcessRecord,
         ProcessConfig
<1>2. /\ s \in ProcessRecord /\ Counted(s, c)
      /\ s.state = "Starting"
      /\ s.pending_command = r.pending_command
      /\ s.num_retries = r.num_retries
      /\ s.running <=> k = "alive"
      /\ s.has_pid <=> k = "alive"
      /\ AfterWait(k) = IF k = "zombie" THEN "none" ELSE k
  BY <1>1, Polled
<1>3. /\ m \in ProcessRecord /\ Counted(m, c)
      /\ m.state = "Starting"
      /\ m.pending_command = r.pending_command
      /\ m.has_pid = s.has_pid /\ m.running = s.running
      /\ m.num_retries = IF s.running \/ r.num_retries = c.startretries + 1
                           THEN r.num_retries ELSE r.num_retries + 1
  <2> HIDE DEF s
  <2> QED  BY <1>1, <1>2, CountFailureType
<1>4. /\ n \in ProcessRecord /\ Counted(n, c)
      /\ n.previous_state = "Starting"
      /\ n.pending_command = r.pending_command
      /\ n.has_pid = s.has_pid
      /\ n.num_retries = m.num_retries
      /\ k = "zombie" => n.state = "Stopped"
      /\ k = "alive" => n.state \in {"Starting", "Running", "Exiting"}
  <2>1. n = Transit(m, c, rt)
    OBVIOUS
  <2> HIDE DEF m, s
  <2>2. n.state = NextState(m, c, rt)
    BY <1>1, <1>3, <2>1, TransitType
  <2>3. /\ n \in ProcessRecord /\ Counted(n, c)
        /\ n.previous_state = "Starting"
        /\ n.pending_command = r.pending_command
        /\ n.has_pid = s.has_pid
        /\ n.num_retries = m.num_retries
    BY <1>1, <1>3, <2>1, TransitType DEF Counted
  <2> QED  BY <1>1, <1>2, <1>3, <2>2, <2>3 DEF NextState
<1> HIDE DEF s, m
<1>5. PidInv(n, AfterWait(k), c, "work") /\ StopInv(n, AfterWait(k), c)
      /\ AliveInv(n, AfterWait(k))
  BY <1>1, <1>2, <1>4 DEF PidInv, StopInv, AliveInv, Down, Awaited, Entering
<1>6. AttemptInv(n, c, IF n.state = "Running" THEN 0 ELSE a, "work")
  <2>1. CASE n.state = "Running"
    BY <1>1, <1>4, <2>1 DEF AttemptInv
  <2>2. CASE n.state # "Running"
    <3>1. n.state = "Stopped" => a <= n.num_retries
      BY <1>1, <1>2, <1>3, <1>4
    <3>2. a <= n.num_retries + 1
      BY <1>1, <1>3, <1>4
    <3> QED
      BY <1>1, <1>2, <1>4, <2>2, <3>1, <3>2 DEF AttemptInv, Entering, AskedUp
  <2> QED  BY <2>1, <2>2
<1>7. AfterWait(k) \in Child
  BY <1>1, ChildType
<1> QED
  BY <1>1, <1>4, <1>5, <1>6, <1>7 DEF Sound, Consistent

LEMMA SoundRunning ==
  ASSUME NEW r, NEW k, NEW c, NEW a, NEW rt, NEW ws \in Codes,
         Sound(r, k, c, a, "work"), r.state = "Running"
  PROVE  Sound(Transit(UpdateStatus(r, k, ws), c, rt), AfterWait(k), c, a, "work")
<1> DEFINE s == UpdateStatus(r, k, ws)
           n == Transit(s, c, rt)
<1>1. /\ r \in ProcessRecord /\ k \in {"alive", "zombie"} /\ r.has_pid
      /\ k \in Child
      /\ c \in ProcessConfig /\ c.startretries \in Nat
      /\ Counted(r, c)
      /\ a = 0
  BY DEF Sound, Consistent, PidInv, AliveInv, AttemptInv, Awaited, ProcessConfig
<1>2. /\ s \in ProcessRecord /\ Counted(s, c)
      /\ s.state = "Running"
      /\ s.running <=> k = "alive"
      /\ s.has_pid <=> k = "alive"
      /\ AfterWait(k) = IF k = "zombie" THEN "none" ELSE k
  BY <1>1, Polled
<1>3. /\ n \in ProcessRecord /\ Counted(n, c)
      /\ n.previous_state = "Running"
      /\ n.has_pid = s.has_pid
      /\ k = "zombie" => n.state = "Stopped"
      /\ k = "alive" => n.state \in {"Running", "Exiting"}
  <2> HIDE DEF s
  <2> QED  BY <1>1, <1>2, TransitType DEF NextState, Counted
<1> HIDE DEF s, n
<1>4. PidInv(n, AfterWait(k), c, "work") /\ StopInv(n, AfterWait(k), c)
      /\ AliveInv(n, AfterWait(k))
  BY <1>1, <1>2, <1>3 DEF PidInv, StopInv, AliveInv, Down, Awaited, Entering
<1>5. AttemptInv(n, c, a, "work")
  BY <1>1, <1>3 DEF AttemptInv, Entering, ProcessRecord
<1>6. AfterWait(k) \in Child
  BY <1>1, ChildType
<1> QED
  BY <1>1, <1>3, <1>4, <1>5, <1>6 DEF Sound, Consistent, n, s

LEMMA SoundStopped ==
  ASSUME NEW r, NEW k, NEW c, NEW a, NEW rt,
         Sound(r, k, c, a, "work"), r.state = "Stopped"
  PROVE  Sound(Transit(ForgetCommand(r), c, rt), k, c, a, "work")
<1> DEFINE s == ForgetCommand(r)
           n == Transit(s, c, rt)
<1>1. /\ r \in ProcessRecord /\ ~r.has_pid /\ k \in Child
      /\ c \in ProcessConfig /\ c.startretries \in Nat
      /\ Counted(r, c) /\ r.num_retries \in Nat
      /\ a \in Nat /\ a <= c.startretries + 1
      /\ AskedUp(r) => a = 0
      /\ r.previous_state = "Running" => a = 0
      /\ r.previous_state = "Starting" => a <= r.num_retries
      /\ k # "none" => KillMayFail /\ "work" # "work"
  BY DEF Sound, Consistent, PidInv, AttemptInv, Down, Awaited, ProcessConfig,
         ProcessRecord
<1>2. /\ s \in ProcessRecord /\ Counted(s, c)
      /\ s.state = "Stopped" /\ s.previous_state = r.previous_state
      /\ s.num_retries = r.num_retries
      /\ ~s.has_pid
      /\ AskedUp(s) => AskedUp(r)
  BY <1>1, SimpleTypes DEF ForgetCommand, Counted, ProcessRecord, AskedUp
<1>3. /\ n \in ProcessRecord /\ Counted(n, c)
      /\ n.previous_state = "Stopped"
      /\ ~n.has_pid
      /\ n.num_retries = r.num_retries
      /\ AskedUp(n) => AskedUp(r)
      /\ n.state \in {"Starting", "Stopped"}
      /\ n.state = "Starting" =>
           \/ AskedUp(r)
           \/ r.previous_state = "Running"
           \/ r.previous_state = "Starting" /\ r.num_retries <= c.startretries
  <2> HIDE DEF s
  <2>1. n.state = NextState(s, c, rt)
    BY <1>1, <1>2, TransitType
  <2>2. /\ n \in ProcessRecord /\ Counted(n, c)
        /\ n.previous_state = "Stopped"
        /\ ~n.has_pid
        /\ n.num_retries = r.num_retries
        /\ AskedUp(n) => AskedUp(r)
    BY <1>1, <1>2, TransitType DEF Counted, AskedUp
  <2> QED  BY <1>2, <2>1, <2>2 DEF NextState
<1> HIDE DEF s, n
<1>4. PidInv(n, k, c, "work") /\ StopInv(n, k, c) /\ AliveInv(n, k)
  BY <1>1, <1>3 DEF PidInv, StopInv, AliveInv, Down, Awaited, Entering
<1>5. AttemptInv(n, c, a, "work")
  BY <1>1, <1>3 DEF AttemptInv, Entering
<1> QED
  BY <1>1, <1>3, <1>4, <1>5 DEF Sound, Consistent, n, s

\* A transition out of Exiting, in work() as in exit_gracefully.
LEMMA SoundExitTransit ==
  ASSUME NEW s \in ProcessRecord, NEW k \in Child, NEW c \in ProcessConfig,
         NEW a \in Nat, NEW w \in {"work", "exit"}, NEW rt,
         Counted(s, c), s.state = "Exiting",
         a <= c.startretries + 1,
         w = "work" /\ AskedUp(s) => a = 0,
         s.running <=> s.has_pid,
         s.has_pid => \/ k \in {"zombie", "doomed"}
                      \/ k = "signalled" /\ c.stopsignal # "KILL",
         k # "none" /\ ~s.has_pid => KillMayFail /\ w # "work"
  PROVE  Sound(Transit(s, c, rt), k, c, a, w)
<1> DEFINE n == Transit(s, c, rt)
<1>1. /\ n \in ProcessRecord /\ Counted(n, c)
      /\ n.previous_state = "Exiting"
      /\ n.has_pid = s.has_pid
      /\ n.pending_command = s.pending_command
      /\ s.running => n.state = "Exiting"
      /\ ~s.running => n.state = "Stopped"
  BY TransitType DEF NextState, Counted
<1> HIDE DEF n
<1>2. PidInv(n, k, c, w) /\ StopInv(n, k, c) /\ AliveInv(n, k)
  BY <1>1 DEF PidInv, StopInv, AliveInv, Down, Awaited, Entering, Child
<1>3. AttemptInv(n, c, a, w)
  BY <1>1 DEF AttemptInv, Entering, AskedUp
<1> QED
  BY <1>1, <1>2, <1>3 DEF Sound, Consistent, n

\* What one visit of an Exiting process may leave: w is where the worker is.
LEMMA SoundExiting ==
  ASSUME NEW r, NEW k, NEW c, NEW a, NEW w \in {"work", "exit"}, NEW rt,
         NEW ws \in Codes,
         Sound(r, k, c, a, w), r.state = "Exiting", r.has_pid,
         NEW s, s = UpdateStatus(r, k, ws)
  PROVE  /\ s.has_pid /\ Entering(s)
              => Sound(Transit(s, c, rt), Deliver(k, c.stopsignal), c, a, w)
         /\ ~(s.has_pid /\ Entering(s))
              => Sound(Transit(s, c, rt), AfterWait(k), c, a, w)
         /\ s.running /\ ~Entering(s)
              => Sound(Transit(Killed(s), c, rt), Deliver(k, "KILL"), c, a, w)
         /\ KillMayFail => \A l \in {LoseChild(s), LoseChild(Killed(s))} :
              /\ Sound(Transit(l, c, rt), AfterWait(k), c, a, "exit")
              /\ Sound(l, AfterWait(k), c, a, "exit")
         /\ ~s.has_pid => Sound(s, AfterWait(k), c, a, "exit")
<1>1. /\ r \in ProcessRecord /\ k \in Child /\ k # "none"
      /\ c \in ProcessConfig /\ c.startretries \in Nat
      /\ Counted(r, c)
      /\ a \in Nat /\ a <= c.startretries + 1
      /\ w = "work" /\ AskedUp(r) => a = 0
      /\ Entering(r) => k \in {"alive", "zombie"}
      /\ ~Entering(r) => \/ k \in {"zombie", "doomed"}
                         \/ k = "signalled" /\ c.stopsignal # "KILL"
  BY DEF Sound, Consistent, PidInv, StopInv, AliveInv, AttemptInv, ProcessConfig
<1>2. /\ s \in ProcessRecord /\ Counted(s, c)
      /\ s.state = "Exiting"
      /\ Entering(s) <=> Entering(r)
      /\ AskedUp(s) <=> AskedUp(r)
      /\ s.running <=> k # "zombie"
      /\ s.has_pid <=> k # "zombie"
      /\ AfterWait(k) = IF k = "zombie" THEN "none" ELSE k
  BY <1>1, Polled DEF Entering, AskedUp
<1>3. /\ AfterWait(k) \in Child
      /\ Deliver(k, c.stopsignal) \in Child /\ Deliver(k, "KILL") \in Child
  BY <1>1, ChildType
<1>4. ASSUME s.has_pid, Entering(s)
      PROVE  Sound(Transit(s, c, rt), Deliver(k, c.stopsignal), c, a, w)
  <2>1. k = "alive"
    BY <1>1, <1>2, <1>4
  <2>2. Deliver(k, c.stopsignal) =
          IF c.stopsignal = "KILL" THEN "doomed" ELSE "signalled"
    BY <2>1 DEF Deliver
  <2> QED  BY <1>1, <1>2, <1>3, <1>4, <2>1, <2>2, SoundExitTransit
<1>5. ASSUME ~(s.has_pid /\ Entering(s))
      PROVE  Sound(Transit(s, c, rt), AfterWait(k), c, a, w)
  BY <1>1, <1>2, <1>3, <1>5, SoundExitTransit
<1>6. ASSUME s.running, ~Entering(s)
      PROVE  Sound(Transit(Killed(s), c, rt), Deliver(k, "KILL"), c, a, w)
  <2>1. /\ Killed(s) \in ProcessRecord /\ Counted(Killed(s), c)
        /\ Killed(s).state = "Exiting"
        /\ Killed(s).running /\ Killed(s).has_pid
        /\ AskedUp(Killed(s)) <=> AskedUp(s)
    BY <1>2, <1>6 DEF Killed, Counted, AskedUp, ProcessRecord
  <2>2. Deliver(k, "KILL") = "doomed"
    BY <1>2, <1>6 DEF Deliver
  <2> QED  BY <1>1, <1>2, <1>3, <2>1, <2>2, SoundExitTransit
<1>7. ASSUME KillMayFail, NEW l \in {LoseChild(s), LoseChild(Killed(s))}
      PROVE  /\ Sound(Transit(l, c, rt), AfterWait(k), c, a, "exit")
             /\ Sound(l, AfterWait(k), c, a, "exit")
  <2>1. /\ l \in ProcessRecord /\ Counted(l, c)
        /\ l.state = "Exiting"
        /\ ~l.running /\ ~l.has_pid
    BY <1>2, <1>7 DEF LoseChild, Killed, Counted, ProcessRecord
  <2>2. Sound(Transit(l, c, rt), AfterWait(k), c, a, "exit")
    BY <1>1, <1>3, <1>7, <2>1, SoundExitTransit
  <2>3. Consistent(l, AfterWait(k), c, a, "exit")
    BY <1>1, <1>7, <2>1
    DEF Consistent, PidInv, StopInv, AliveInv, AttemptInv, Down, Awaited
  <2> QED  BY <1>1, <1>3, <2>1, <2>2, <2>3 DEF Sound
<1>8. ASSUME ~s.has_pid
      PROVE  Sound(s, AfterWait(k), c, a, "exit")
  <2>1. Consistent(s, AfterWait(k), c, a, "exit")
    BY <1>1, <1>2, <1>8
    DEF Consistent, PidInv, StopInv, AliveInv, AttemptInv, Down, Awaited
  <2> QED  BY <1>1, <1>2, <1>3, <2>1 DEF Sound
<1> QED  BY <1>4, <1>5, <1>6, <1>7, <1>8

\* The worker leaves work() or ends, whatever state the process is in.
LEMMA SoundLeave ==
  ASSUME NEW r, NEW k, NEW c, NEW a, NEW w, NEW x \in {"exit", "done"},
         Sound(r, k, c, a, w), x = "done" => w # "work"
  PROVE  Sound(r, k, c, a, x)
BY DEF Sound, Consistent, PidInv, AttemptInv

LEMMA SoundStartFails ==
  ASSUME NEW r, NEW k, NEW c, NEW a,
         Sound(r, k, c, a, "work"), r.state = "Starting", Entering(r)
  PROVE  Sound(TakeCommand(r), k, c, a, "exit")
<1> DEFINE t == TakeCommand(r)
<1>1. /\ t \in ProcessRecord /\ Counted(t, c)
      /\ t.state = r.state /\ t.previous_state = r.previous_state
      /\ t.has_pid = r.has_pid
  BY TakeCommandType DEF Sound
<1> HIDE DEF t
<1>2. Consistent(t, k, c, a, "exit")
  BY <1>1 DEF Sound, Consistent, PidInv, StopInv, AliveInv, AttemptInv, Down,
              Awaited, Entering
<1> QED  BY <1>1, <1>2 DEF Sound, t

LEMMA SoundExitStopped ==
  ASSUME NEW r, NEW k, NEW c, NEW a,
         Sound(r, k, c, a, "exit"), ~r.has_pid \/ r.state = "Stopped"
  PROVE  Sound([r EXCEPT !.state = "Stopped"], k, c, a, "exit")
<1> DEFINE n == [r EXCEPT !.state = "Stopped"]
<1>1. /\ n \in ProcessRecord /\ Counted(n, c)
      /\ n.state = "Stopped" /\ ~n.has_pid
  BY DEF Sound, Consistent, PidInv, Down, Awaited, ProcessRecord, Counted, State
<1> HIDE DEF n
<1>2. Consistent(n, k, c, a, "exit")
  BY <1>1 DEF Sound, Consistent, PidInv, StopInv, AliveInv, AttemptInv, Down,
              Awaited
<1> QED  BY <1>1, <1>2 DEF Sound, n

LEMMA SoundExitDemote ==
  ASSUME NEW r, NEW k, NEW c, NEW a,
         Sound(r, k, c, a, "exit"), r.has_pid,
         r.state \in {"Waiting", "Starting", "Running"},
         NEW n, n = [r EXCEPT !.state = IF @ = "Waiting" THEN "Stopped" ELSE "Exiting"]
  PROVE  Sound(n, k, c, a, "exit")
<1>1. r.state # "Waiting" /\ r.previous_state # "Exiting" /\ k \in {"alive", "zombie"}
  BY DEF Sound, Consistent, PidInv, AliveInv, Down, Awaited
<1>2. /\ n \in ProcessRecord /\ Counted(n, c)
      /\ n.state = "Exiting" /\ n.has_pid
      /\ n.previous_state = r.previous_state
  BY <1>1 DEF Sound, ProcessRecord, Counted, State
<1>3. Consistent(n, k, c, a, "exit")
  BY <1>1, <1>2 DEF Sound, Consistent, PidInv, StopInv, AliveInv, AttemptInv,
                    Down, Awaited, Entering
<1> QED  BY <1>2, <1>3 DEF Sound

LEMMA SoundCommand ==
  ASSUME NEW r, NEW k, NEW c, NEW a, NEW w,
         Sound(r, k, c, a, w), NEW command \in Command \ {"None"}
  PROVE  Sound([r EXCEPT !.pending_command = command], k, c,
               IF command # "Stop" THEN 0 ELSE a, w)
<1> DEFINE n == [r EXCEPT !.pending_command = command]
           b == IF command # "Stop" THEN 0 ELSE a
<1>1. /\ n \in ProcessRecord /\ Counted(n, c)
      /\ n.state = r.state /\ n.previous_state = r.previous_state
      /\ n.has_pid = r.has_pid /\ n.num_retries = r.num_retries
      /\ n.pending_command = command
  BY DEF Sound, ProcessRecord, Counted
<1>2. /\ b \in Nat /\ b <= a /\ (command # "Stop" => b = 0)
      /\ n.num_retries \in Nat /\ c.startretries \in Nat /\ a \in Nat
  BY <1>1 DEF Sound, ProcessRecord, ProcessConfig
<1> HIDE DEF n, b
<1>3. PidInv(n, k, c, w) /\ StopInv(n, k, c) /\ AliveInv(n, k)
  BY <1>1 DEF Sound, Consistent, PidInv, StopInv, AliveInv, Down, Awaited, Entering
<1>4. AttemptInv(n, c, b, w)
  BY <1>1, <1>2 DEF Sound, Consistent, AttemptInv, Entering, AskedUp, Command
<1> QED  BY <1>1, <1>2, <1>3, <1>4 DEF Sound, Consistent, n, b

LEMMA SoundChildDies ==
  ASSUME NEW r, NEW k, NEW c, NEW a, NEW w, Sound(r, k, c, a, w), k \in Live
  PROVE  Sound(r, "zombie", c, a, w)
BY DEF Sound, Consistent, PidInv, StopInv, AliveInv, Live, Child

-----------------------------------------------------------------------------
(* The invariant is preserved by every step.                                *)

AllSound ==
  \A p \in Procs : Sound(proc[p], child[p], ConfigOf(p), attempts[p], worker)

\* The variables a step of one process may change besides its own entries.
OtherTypes ==
  /\ runtime \in [Procs -> Nat]
  /\ stoptime \in [Procs -> Nat]
  /\ stop_token \in BOOLEAN
  /\ worker \in {"work", "exit", "done"}
  /\ todo \subseteq Procs
  /\ asks \in BOOLEAN
  /\ flag \in BOOLEAN

TableTypes ==
  /\ proc \in [Procs -> ProcessRecord]
  /\ child \in [Procs -> Child]
  /\ attempts \in [Procs -> Nat]

LEMMA IndInvParts ==
  IndInv <=> /\ config \in [Groups -> Configs]
             /\ TableTypes /\ AllSound /\ OtherTypes /\ ExitInv
<1>1. ASSUME config \in [Groups -> Configs]
      PROVE  \A p \in Procs : ConfigOf(p) \in ProcessConfig
  BY <1>1, ConfigType
<1>2. ASSUME IndInv
      PROVE  /\ config \in [Groups -> Configs]
             /\ TableTypes /\ AllSound /\ OtherTypes /\ ExitInv
  BY <1>1, <1>2 DEF IndInv, TypeOK, TableTypes, OtherTypes, AllSound, Sound, Counted
<1>3. ASSUME config \in [Groups -> Configs],
             TableTypes, AllSound, OtherTypes, ExitInv
      PROVE  IndInv
  BY <1>3 DEF IndInv, TypeOK, TableTypes, OtherTypes, AllSound, Sound, Counted
<1> QED  BY <1>2, <1>3

\* A step replaces the entries of p, and the worker stays or leaves work().
LEMMA OneProcess ==
  ASSUME IndInv, UNCHANGED config, NEW p \in Procs, NEW n, NEW k, NEW a,
         proc' = [proc EXCEPT ![p] = n],
         child' = [child EXCEPT ![p] = k],
         attempts' = [attempts EXCEPT ![p] = a],
         Sound(n, k, ConfigOf(p), a, worker'),
         worker' = worker \/ (worker' = "exit" /\ worker = "work")
  PROVE  TableTypes' /\ AllSound' /\ config' \in [Groups -> Configs]
<1>1. TableTypes /\ AllSound /\ config \in [Groups -> Configs]
  BY IndInvParts
<1>2. n \in ProcessRecord /\ k \in Child /\ a \in Nat
  BY DEF Sound
<1>3. TableTypes'
  BY <1>1, <1>2 DEF TableTypes
<1>4. ASSUME NEW q \in Procs
      PROVE  Sound(proc'[q], child'[q], ConfigOf(q)', attempts'[q], worker')
  <2>1. ConfigOf(q)' = ConfigOf(q)
    BY DEF ConfigOf
  <2>2. CASE q = p
    BY <1>1, <2>1, <2>2 DEF TableTypes
  <2>3. CASE q # p
    <3>1. Sound(proc[q], child[q], ConfigOf(q), attempts[q], worker)
      BY <1>1 DEF AllSound
    <3>2. Sound(proc[q], child[q], ConfigOf(q), attempts[q], worker')
      BY <3>1, SoundLeave
    <3>3. proc'[q] = proc[q] /\ child'[q] = child[q] /\ attempts'[q] = attempts[q]
      BY <1>1, <2>3 DEF TableTypes
    <3> QED  BY <2>1, <3>2, <3>3
  <2> QED  BY <2>2, <2>3
<1> QED  BY <1>1, <1>3, <1>4 DEF AllSound

\* What a step has at p to start from.
LEMMA AtProcess ==
  ASSUME IndInv, NEW p \in Procs
  PROVE  /\ Sound(proc[p], child[p], ConfigOf(p), attempts[p], worker)
         /\ child = [child EXCEPT ![p] = child[p]]
         /\ attempts = [attempts EXCEPT ![p] = attempts[p]]
BY IndInvParts DEF AllSound, TableTypes

\* The same when the child and the forks in a row are left alone.
LEMMA OneRecord ==
  ASSUME IndInv, UNCHANGED <<config, child, attempts>>, NEW p \in Procs, NEW n,
         proc' = [proc EXCEPT ![p] = n],
         Sound(n, child[p], ConfigOf(p), attempts[p], worker'),
         worker' = worker \/ (worker' = "exit" /\ worker = "work")
  PROVE  TableTypes' /\ AllSound' /\ config' \in [Groups -> Configs]
<1> DEFINE k == child[p]
           a == attempts[p]
<1>1. child' = [child EXCEPT ![p] = k] /\ attempts' = [attempts EXCEPT ![p] = a]
  BY AtProcess
<1>2. Sound(n, k, ConfigOf(p), a, worker')
  OBVIOUS
<1> HIDE DEF k, a
<1> QED  BY <1>1, <1>2, OneProcess

\* The same when the forks in a row are left alone.
LEMMA OneChild ==
  ASSUME IndInv, UNCHANGED <<config, attempts>>, NEW p \in Procs, NEW n, NEW k,
         proc' = [proc EXCEPT ![p] = n],
         child' = [child EXCEPT ![p] = k],
         Sound(n, k, ConfigOf(p), attempts[p], worker'),
         worker' = worker \/ (worker' = "exit" /\ worker = "work")
  PROVE  TableTypes' /\ AllSound' /\ config' \in [Groups -> Configs]
<1> DEFINE a == attempts[p]
<1>1. attempts' = [attempts EXCEPT ![p] = a]
  BY AtProcess
<1>2. Sound(n, k, ConfigOf(p), a, worker')
  OBVIOUS
<1> HIDE DEF a
<1> QED  BY <1>1, <1>2, OneProcess

\* The parts put together again after a step.
LEMMA IndInvNext ==
  ASSUME config' \in [Groups -> Configs], TableTypes', AllSound', OtherTypes',
         ExitInv'
  PROVE  IndInv'
BY DEF IndInv, TypeOK, TableTypes, OtherTypes, AllSound, Sound, Counted

\* What a visit of work() does to the worker: it returns or throws.
LEMMA VisitOthers ==
  ASSUME IndInv, NEW p \in Procs, worker = "work", Return(p) \/ Throw,
         runtime' \in [Procs -> Nat], stoptime' \in [Procs -> Nat]
  PROVE  /\ OtherTypes' /\ ExitInv'
         /\ worker' = worker \/ (worker' = "exit" /\ worker = "work")
<1>1. OtherTypes
  BY IndInvParts
<1>2. CASE Return(p)
  BY <1>1, <1>2 DEF Return, OtherTypes, ExitInv
<1>3. CASE Throw
  BY <1>1, <1>3 DEF Throw, OtherTypes, ExitInv
<1> QED  BY <1>2, <1>3

\* The clocks a visit may reset.
LEMMA Clocks ==
  ASSUME IndInv, NEW p \in Procs
  PROVE  /\ runtime \in [Procs -> Nat] /\ stoptime \in [Procs -> Nat]
         /\ [runtime EXCEPT ![p] = 0] \in [Procs -> Nat]
         /\ [stoptime EXCEPT ![p] = 0] \in [Procs -> Nat]
BY IndInvParts DEF OtherTypes

LEMMA IndWaiting ==
  ASSUME IndInv, NEW p \in Procs, FsmWaiting(p)
  PROVE  IndInv'
<1> DEFINE n == Transit(proc[p], ConfigOf(p), runtime[p])
<1>1. Sound(n, child[p], ConfigOf(p), attempts[p], worker')
  BY AtProcess, SoundWaiting DEF FsmWaiting, Visiting, Return
<1>2. TableTypes' /\ AllSound' /\ config' \in [Groups -> Configs]
  <2>1. /\ proc' = [proc EXCEPT ![p] = n]
        /\ UNCHANGED <<config, child, attempts>>
    BY DEF FsmWaiting, Become
  <2>2. worker' = worker \/ (worker' = "exit" /\ worker = "work")
    BY DEF FsmWaiting, Visiting, Return, Throw
  <2> HIDE DEF n
  <2> QED  BY <1>1, <2>1, <2>2, OneRecord
<1>3. OtherTypes' /\ ExitInv'
  BY Clocks, VisitOthers DEF FsmWaiting, Visiting
<1> QED  BY <1>2, <1>3, IndInvNext

LEMMA IndStart ==
  ASSUME IndInv, NEW p \in Procs, FsmStart(p)
  PROVE  IndInv'
<1> DEFINE c == ConfigOf(p)
<1>1. PICK k \in {"alive", "zombie"}, ws \in Codes :
        LET forked == Started(TakeCommand(proc[p]))
            polled == IF c.starttime = 0 THEN forked ELSE UpdateStatus(forked, k, ws)
        IN /\ Become(p, Transit(CountFailure(polled, c), c, 0))
           /\ child' = [child EXCEPT ![p] = IF c.starttime = 0 THEN k ELSE AfterWait(k)]
  BY DEF FsmStart
<1> DEFINE polled == IF c.starttime = 0
                       THEN Started(TakeCommand(proc[p]))
                       ELSE UpdateStatus(Started(TakeCommand(proc[p])), k, ws)
           n == Transit(CountFailure(polled, c), c, 0)
           kn == IF c.starttime = 0 THEN k ELSE AfterWait(k)
           an == IF n.state = "Running" THEN 0 ELSE attempts[p] + 1
<1>2. Sound(n, kn, c, an, worker')
  <2>1. /\ Sound(proc[p], child[p], c, attempts[p], "work")
        /\ proc[p].state = "Starting" /\ Entering(proc[p])
        /\ worker' = "work"
    BY AtProcess DEF FsmStart, Visiting, Return
  <2> QED  BY <2>1, SoundStart
<1>3. proc' = [proc EXCEPT ![p] = n] /\ child' = [child EXCEPT ![p] = kn]
  BY <1>1 DEF Become
<1>4. attempts' = [attempts EXCEPT ![p] = an]
  <2>1. proc'[p] = n
    <3> HIDE DEF n
    <3> QED  BY <1>3, IndInvParts DEF TableTypes
  <2> HIDE DEF n
  <2> QED  BY <2>1 DEF FsmStart
<1>5. TableTypes' /\ AllSound' /\ config' \in [Groups -> Configs]
  <2>1. config' = config /\ worker' = worker
    BY DEF FsmStart, Return
  <2>2. Sound(n, kn, ConfigOf(p), an, worker')
    BY <1>2
  <2> HIDE DEF n, kn, an, c
  <2> QED  BY <1>3, <1>4, <2>1, <2>2, OneProcess
<1>6. OtherTypes' /\ ExitInv'
  BY Clocks, VisitOthers DEF FsmStart, Visiting
<1> QED  BY <1>5, <1>6, IndInvNext

LEMMA IndStartFails ==
  ASSUME IndInv, NEW p \in Procs, FsmStartFails(p)
  PROVE  IndInv'
<1> DEFINE n == TakeCommand(proc[p])
<1>1. Sound(n, child[p], ConfigOf(p), attempts[p], worker')
  BY AtProcess, SoundStartFails DEF FsmStartFails, Visiting, Throw
<1>2. TableTypes' /\ AllSound' /\ config' \in [Groups -> Configs]
  <2>1. /\ proc' = [proc EXCEPT ![p] = n]
        /\ UNCHANGED <<config, child, attempts>>
    BY DEF FsmStartFails, Become
  <2>2. worker' = worker \/ (worker' = "exit" /\ worker = "work")
    BY DEF FsmStartFails, Visiting, Return, Throw
  <2> HIDE DEF n
  <2> QED  BY <1>1, <2>1, <2>2, OneRecord
<1>3. OtherTypes' /\ ExitInv'
  BY Clocks, VisitOthers DEF FsmStartFails, Visiting
<1> QED  BY <1>2, <1>3, IndInvNext

LEMMA IndStarting ==
  ASSUME IndInv, NEW p \in Procs, FsmStarting(p)
  PROVE  IndInv'
<1> DEFINE c == ConfigOf(p)
<1>1. PICK ws \in Codes :
        Become(p, Transit(CountFailure(UpdateStatus(proc[p], child[p], ws), c), c,
                          runtime[p]))
  BY DEF FsmStarting
<1> DEFINE n == Transit(CountFailure(UpdateStatus(proc[p], child[p], ws), c), c,
                        runtime[p])
           an == IF n.state = "Running" THEN 0 ELSE attempts[p]
<1>2. Sound(n, AfterWait(child[p]), c, an, worker')
  <2>1. /\ Sound(proc[p], child[p], c, attempts[p], "work")
        /\ proc[p].state = "Starting" /\ ~Entering(proc[p])
        /\ worker' = "work"
    BY AtProcess DEF FsmStarting, Visiting, Return
  <2> QED  BY <2>1, SoundStarting
<1>3. proc' = [proc EXCEPT ![p] = n]
  BY <1>1 DEF Become
<1>4. attempts' = [attempts EXCEPT ![p] = an]
  <2> HIDE DEF n
  <2>1. proc'[p] = n
    BY <1>3, IndInvParts DEF TableTypes
  <2> QED  BY <2>1 DEF FsmStarting
<1>5. TableTypes' /\ AllSound' /\ config' \in [Groups -> Configs]
  <2> DEFINE kn == AfterWait(child[p])
  <2>1. child' = [child EXCEPT ![p] = kn] /\ config' = config /\ worker' = worker
    BY DEF FsmStarting, Return
  <2>2. Sound(n, kn, ConfigOf(p), an, worker')
    BY <1>2
  <2> HIDE DEF n, kn, an, c
  <2> QED  BY <1>3, <1>4, <2>1, <2>2, OneProcess
<1>6. OtherTypes' /\ ExitInv'
  BY Clocks, VisitOthers DEF FsmStarting, Visiting
<1> QED  BY <1>5, <1>6, IndInvNext

LEMMA IndRunning ==
  ASSUME IndInv, NEW p \in Procs, FsmRunning(p)
  PROVE  IndInv'
<1> DEFINE c == ConfigOf(p)
<1>1. PICK ws \in Codes :
        Become(p, Transit(UpdateStatus(proc[p], child[p], ws), c, runtime[p]))
  BY DEF FsmRunning
<1> DEFINE n == Transit(UpdateStatus(proc[p], child[p], ws), c, runtime[p])
<1>2. Sound(n, AfterWait(child[p]), c, attempts[p], worker')
  <2>1. /\ Sound(proc[p], child[p], c, attempts[p], "work")
        /\ proc[p].state = "Running"
        /\ worker' = "work"
    BY AtProcess DEF FsmRunning, Visiting, Return
  <2> QED  BY <2>1, SoundRunning
<1>3. TableTypes' /\ AllSound' /\ config' \in [Groups -> Configs]
  <2> DEFINE kn == AfterWait(child[p])
             an == attempts[p]
  <2>1. /\ proc' = [proc EXCEPT ![p] = n]
        /\ child' = [child EXCEPT ![p] = kn]
        /\ attempts' = [attempts EXCEPT ![p] = an]
        /\ config' = config /\ worker' = worker
    BY <1>1, AtProcess DEF Become, FsmRunning, Return
  <2>2. Sound(n, kn, ConfigOf(p), an, worker')
    BY <1>2
  <2> HIDE DEF n, kn, an, c
  <2> QED  BY <2>1, <2>2, OneProcess
<1>4. OtherTypes' /\ ExitInv'
  BY Clocks, VisitOthers DEF FsmRunning, Visiting
<1> QED  BY <1>3, <1>4, IndInvNext

LEMMA IndStopped ==
  ASSUME IndInv, NEW p \in Procs, FsmStopped(p)
  PROVE  IndInv'
<1> DEFINE n == Transit(ForgetCommand(proc[p]), ConfigOf(p), runtime[p])
<1>1. Sound(n, child[p], ConfigOf(p), attempts[p], worker')
  BY AtProcess, SoundStopped DEF FsmStopped, Visiting, Return
<1>2. TableTypes' /\ AllSound' /\ config' \in [Groups -> Configs]
  <2>1. /\ proc' = [proc EXCEPT ![p] = n]
        /\ UNCHANGED <<config, child, attempts>>
    BY DEF FsmStopped, Become
  <2>2. worker' = worker \/ (worker' = "exit" /\ worker = "work")
    BY DEF FsmStopped, Visiting, Return, Throw
  <2> HIDE DEF n
  <2> QED  BY <1>1, <2>1, <2>2, OneRecord
<1>3. OtherTypes' /\ ExitInv'
  BY Clocks, VisitOthers DEF FsmStopped, Visiting
<1> QED  BY <1>2, <1>3, IndInvNext

LEMMA IndExitingEnter ==
  ASSUME IndInv, NEW p \in Procs, FsmExitingEnter(p)
  PROVE  IndInv'
<1> DEFINE c == ConfigOf(p)
           k == child[p]
           a == attempts[p]
<1>0. /\ Sound(proc[p], k, c, a, "work") /\ worker = "work"
      /\ proc[p].state = "Exiting" /\ Entering(proc[p])
      /\ proc[p].has_pid /\ proc[p] \in ProcessRecord
  BY AtProcess DEF FsmExitingEnter, Visiting, Sound, Consistent, PidInv, Awaited
<1>1. PICK ws \in Codes :
        LET polled == UpdateStatus(proc[p], k, ws) IN
        \/ /\ polled.has_pid
           /\ Become(p, Transit(polled, c, runtime[p]))
           /\ SendStop(p)
           /\ Return(p)
        \/ /\ polled.has_pid /\ KillMayFail
           /\ Become(p, LoseChild(polled))
           /\ SendNothing(p)
           /\ Throw
        \/ /\ ~polled.has_pid
           /\ Become(p, polled)
           /\ SendNothing(p)
           /\ Throw
  BY DEF FsmExitingEnter
<1> DEFINE s == UpdateStatus(proc[p], k, ws)
           n == Transit(s, c, runtime[p])
           l == LoseChild(s)
<1>2. /\ s.has_pid => Sound(n, Deliver(k, c.stopsignal), c, a, "work")
      /\ KillMayFail => Sound(l, AfterWait(k), c, a, "exit")
      /\ ~s.has_pid => Sound(s, AfterWait(k), c, a, "exit")
  <2>1. Entering(s)
    BY <1>0, UpdateStatusType DEF Entering
  <2> QED  BY <1>0, <2>1, SoundExiting
<1>3. UNCHANGED <<config, runtime, attempts>>
  BY DEF FsmExitingEnter
<1>4. CASE s.has_pid /\ Become(p, n) /\ SendStop(p) /\ Return(p)
  <2> DEFINE kn == Deliver(k, c.stopsignal)
  <2>1. /\ proc' = [proc EXCEPT ![p] = n] /\ child' = [child EXCEPT ![p] = kn]
        /\ worker' = "work"
    BY <1>0, <1>4 DEF Become, SendStop, Return
  <2>2. Sound(n, kn, ConfigOf(p), attempts[p], worker')
    BY <1>2, <1>4, <2>1
  <2>3. stoptime' \in [Procs -> Nat] /\ runtime' \in [Procs -> Nat]
    BY <1>3, <1>4, Clocks DEF SendStop
  <2> HIDE DEF n, kn
  <2>4. TableTypes' /\ AllSound' /\ config' \in [Groups -> Configs]
    BY <1>0, <1>3, <2>1, <2>2, OneChild
  <2> QED  BY <1>0, <1>4, <2>3, <2>4, VisitOthers, IndInvNext
<1>5. CASE KillMayFail /\ Become(p, l) /\ SendNothing(p) /\ Throw
  <2> DEFINE kn == AfterWait(k)
  <2>1. /\ proc' = [proc EXCEPT ![p] = l] /\ child' = [child EXCEPT ![p] = kn]
        /\ worker' = "exit"
    BY <1>5 DEF Become, SendNothing, Throw
  <2>2. Sound(l, kn, ConfigOf(p), attempts[p], worker')
    BY <1>2, <1>5, <2>1
  <2>3. stoptime' \in [Procs -> Nat] /\ runtime' \in [Procs -> Nat]
    BY <1>3, <1>5, Clocks DEF SendNothing
  <2> HIDE DEF l, kn
  <2>4. TableTypes' /\ AllSound' /\ config' \in [Groups -> Configs]
    BY <1>0, <1>3, <2>1, <2>2, OneChild
  <2> QED  BY <1>0, <1>5, <2>3, <2>4, VisitOthers, IndInvNext
<1>6. CASE ~s.has_pid /\ Become(p, s) /\ SendNothing(p) /\ Throw
  <2> DEFINE kn == AfterWait(k)
  <2>1. /\ proc' = [proc EXCEPT ![p] = s] /\ child' = [child EXCEPT ![p] = kn]
        /\ worker' = "exit"
    BY <1>6 DEF Become, SendNothing, Throw
  <2>2. Sound(s, kn, ConfigOf(p), attempts[p], worker')
    BY <1>2, <1>6, <2>1
  <2>3. stoptime' \in [Procs -> Nat] /\ runtime' \in [Procs -> Nat]
    BY <1>3, <1>6, Clocks DEF SendNothing
  <2> HIDE DEF s, kn
  <2>4. TableTypes' /\ AllSound' /\ config' \in [Groups -> Configs]
    BY <1>0, <1>3, <2>1, <2>2, OneChild
  <2> QED  BY <1>0, <1>6, <2>3, <2>4, VisitOthers, IndInvNext
<1> QED  BY <1>1, <1>4, <1>5, <1>6

LEMMA IndExiting ==
  ASSUME IndInv, NEW p \in Procs, FsmExiting(p)
  PROVE  IndInv'
<1> DEFINE c == ConfigOf(p)
           k == child[p]
           a == attempts[p]
<1>0. /\ Sound(proc[p], k, c, a, "work") /\ worker = "work"
      /\ proc[p].state = "Exiting" /\ ~Entering(proc[p])
      /\ proc[p].has_pid /\ proc[p] \in ProcessRecord
  BY AtProcess DEF FsmExiting, Visiting, Sound, Consistent, PidInv, Awaited
<1>1. PICK ws \in Codes :
        LET polled == UpdateStatus(proc[p], k, ws) IN
        \/ /\ ~Overdue(p, polled)
           /\ Become(p, Transit(polled, c, runtime[p]))
           /\ SendNothing(p)
           /\ Return(p)
        \/ /\ Overdue(p, polled)
           /\ Become(p, Transit(Killed(polled), c, runtime[p]))
           /\ SendKill(p)
           /\ Return(p)
        \/ /\ Overdue(p, polled) /\ KillMayFail
           /\ Become(p, LoseChild(Killed(polled)))
           /\ SendNothing(p)
           /\ Throw
  BY DEF FsmExiting
<1> DEFINE s == UpdateStatus(proc[p], k, ws)
           n == Transit(s, c, runtime[p])
           x == Transit(Killed(s), c, runtime[p])
           l == LoseChild(Killed(s))
<1>2. /\ Sound(n, AfterWait(k), c, a, "work")
      /\ Overdue(p, s) => Sound(x, Deliver(k, "KILL"), c, a, "work")
      /\ KillMayFail => Sound(l, AfterWait(k), c, a, "exit")
  <2>1. ~Entering(s)
    BY <1>0, UpdateStatusType DEF Entering
  <2>2. Overdue(p, s) => s.running
    BY DEF Overdue
  <2> QED  BY <1>0, <2>1, <2>2, SoundExiting
<1>3. UNCHANGED <<config, runtime, attempts>>
  BY DEF FsmExiting
<1>4. CASE Become(p, n) /\ SendNothing(p) /\ Return(p)
  <2> DEFINE kn == AfterWait(k)
  <2>1. /\ proc' = [proc EXCEPT ![p] = n] /\ child' = [child EXCEPT ![p] = kn]
        /\ worker' = "work"
    BY <1>0, <1>4 DEF Become, SendNothing, Return
  <2>2. Sound(n, kn, ConfigOf(p), attempts[p], worker')
    BY <1>2, <1>4, <2>1
  <2>3. stoptime' \in [Procs -> Nat] /\ runtime' \in [Procs -> Nat]
    BY <1>3, <1>4, Clocks DEF SendNothing
  <2> HIDE DEF n, kn
  <2>4. TableTypes' /\ AllSound' /\ config' \in [Groups -> Configs]
    BY <1>0, <1>3, <2>1, <2>2, OneChild
  <2> QED  BY <1>0, <1>4, <2>3, <2>4, VisitOthers, IndInvNext
<1>5. CASE Overdue(p, s) /\ Become(p, x) /\ SendKill(p) /\ Return(p)
  <2> DEFINE kn == Deliver(k, "KILL")
  <2>1. /\ proc' = [proc EXCEPT ![p] = x] /\ child' = [child EXCEPT ![p] = kn]
        /\ worker' = "work"
    BY <1>0, <1>5 DEF Become, SendKill, Return
  <2>2. Sound(x, kn, ConfigOf(p), attempts[p], worker')
    BY <1>2, <1>5, <2>1
  <2>3. stoptime' \in [Procs -> Nat] /\ runtime' \in [Procs -> Nat]
    BY <1>3, <1>5, Clocks DEF SendKill
  <2> HIDE DEF x, kn
  <2>4. TableTypes' /\ AllSound' /\ config' \in [Groups -> Configs]
    BY <1>0, <1>3, <2>1, <2>2, OneChild
  <2> QED  BY <1>0, <1>5, <2>3, <2>4, VisitOthers, IndInvNext
<1>6. CASE KillMayFail /\ Become(p, l) /\ SendNothing(p) /\ Throw
  <2> DEFINE kn == AfterWait(k)
  <2>1. /\ proc' = [proc EXCEPT ![p] = l] /\ child' = [child EXCEPT ![p] = kn]
        /\ worker' = "exit"
    BY <1>6 DEF Become, SendNothing, Throw
  <2>2. Sound(l, kn, ConfigOf(p), attempts[p], worker')
    BY <1>2, <1>6, <2>1
  <2>3. stoptime' \in [Procs -> Nat] /\ runtime' \in [Procs -> Nat]
    BY <1>3, <1>6, Clocks DEF SendNothing
  <2> HIDE DEF l, kn
  <2>4. TableTypes' /\ AllSound' /\ config' \in [Groups -> Configs]
    BY <1>0, <1>3, <2>1, <2>2, OneChild
  <2> QED  BY <1>0, <1>6, <2>3, <2>4, VisitOthers, IndInvNext
<1> QED  BY <1>1, <1>4, <1>5, <1>6

-----------------------------------------------------------------------------
(* exit_gracefully.                                                         *)

\* A visit of exit_gracefully either leaves p stopped or raises the flag.
LEMMA ExitOthers ==
  ASSUME IndInv, NEW p \in Procs, ExitVisiting(p),
         \/ UNCHANGED flag /\ proc'[p].state = "Stopped"
         \/ flag' = TRUE,
         \A q \in Procs \ {p} : proc'[q] = proc[q],
         stoptime' \in [Procs -> Nat]
  PROVE  OtherTypes' /\ ExitInv' /\ worker = "exit" /\ worker' = "exit"
<1>1. OtherTypes /\ ExitInv
  BY IndInvParts
<1>2. OtherTypes' /\ worker = "exit" /\ worker' = "exit"
  BY <1>1 DEF OtherTypes, ExitVisiting
<1>3. ExitInv'
  <2>1. CASE flag' = TRUE
    BY <1>2, <2>1 DEF ExitInv
  <2>2. CASE UNCHANGED flag /\ proc'[p].state = "Stopped"
    <3>1. ASSUME ~flag', NEW q \in Procs \ todo'
          PROVE  Down(proc[q])'
      <4>1. CASE q = p
        BY <2>2, <4>1 DEF Down, Awaited
      <4>2. CASE q # p
        <5>1. q \in Procs \ todo /\ ~flag /\ proc'[q] = proc[q]
          BY <2>2, <3>1, <4>2 DEF ExitVisiting
        <5>2. Down(proc[q])
          BY <1>1, <1>2, <5>1 DEF ExitInv
        <5> QED  BY <5>1, <5>2 DEF Down, Awaited, Entering
      <4> QED  BY <4>1, <4>2
    <3> QED  BY <1>2, <3>1 DEF ExitInv
  <2> QED  BY <2>1, <2>2
<1> QED  BY <1>2, <1>3

LEMMA IndExitStopped ==
  ASSUME IndInv, NEW p \in Procs, ExitStopped(p)
  PROVE  IndInv'
<1> DEFINE n == [proc[p] EXCEPT !.state = "Stopped"]
<1>1. /\ Sound(proc[p], child[p], ConfigOf(p), attempts[p], "exit")
      /\ ~proc[p].has_pid \/ proc[p].state = "Stopped"
      /\ worker = "exit" /\ worker' = "exit"
  BY AtProcess DEF ExitStopped, ExitVisiting
<1>2. Sound(n, child[p], ConfigOf(p), attempts[p], worker')
  BY <1>1, SoundExitStopped
<1>3. proc' = [proc EXCEPT ![p] = n] /\ UNCHANGED <<config, child, attempts>>
  BY DEF ExitStopped, ExitVisiting, Become
<1>4. n.state = "Stopped"
  BY <1>1 DEF Sound, ProcessRecord
<1> HIDE DEF n
<1>5. TableTypes' /\ AllSound' /\ config' \in [Groups -> Configs]
  BY <1>1, <1>2, <1>3, OneRecord
<1>6. OtherTypes' /\ ExitInv'
  <2>1. proc \in [Procs -> ProcessRecord]
    BY IndInvParts DEF TableTypes
  <2>2. proc'[p].state = "Stopped" /\ \A q \in Procs \ {p} : proc'[q] = proc[q]
    BY <1>3, <1>4, <2>1
  <2>3. ExitVisiting(p) /\ UNCHANGED flag /\ stoptime' \in [Procs -> Nat]
    BY Clocks DEF ExitStopped
  <2> QED  BY <2>2, <2>3, ExitOthers
<1> QED  BY <1>5, <1>6, IndInvNext

LEMMA IndExitDemote ==
  ASSUME IndInv, NEW p \in Procs, ExitDemote(p)
  PROVE  IndInv'
<1> DEFINE n == [proc[p] EXCEPT !.state =
                   IF @ = "Waiting" THEN "Stopped" ELSE "Exiting"]
<1>1. /\ Sound(proc[p], child[p], ConfigOf(p), attempts[p], "exit")
      /\ proc[p].has_pid /\ proc[p].state \in {"Waiting", "Starting", "Running"}
      /\ worker = "exit" /\ worker' = "exit"
  BY AtProcess DEF ExitDemote, ExitVisiting
<1>2. Sound(n, child[p], ConfigOf(p), attempts[p], worker')
  BY <1>1, SoundExitDemote
<1>3. proc' = [proc EXCEPT ![p] = n] /\ UNCHANGED <<config, child, attempts>>
  BY DEF ExitDemote, ExitVisiting, Become
<1> HIDE DEF n
<1>4. TableTypes' /\ AllSound' /\ config' \in [Groups -> Configs]
  BY <1>1, <1>2, <1>3, OneRecord
<1>5. OtherTypes' /\ ExitInv'
  <2>1. proc \in [Procs -> ProcessRecord]
    BY IndInvParts DEF TableTypes
  <2>2. \A q \in Procs \ {p} : proc'[q] = proc[q]
    BY <1>3, <2>1
  <2>3. ExitVisiting(p) /\ flag' = TRUE /\ stoptime' \in [Procs -> Nat]
    BY Clocks DEF ExitDemote
  <2> QED  BY <2>2, <2>3, ExitOthers
<1> QED  BY <1>4, <1>5, IndInvNext

LEMMA IndExitAwait ==
  ASSUME IndInv, NEW p \in Procs, ExitAwait(p)
  PROVE  IndInv'
<1> DEFINE c == ConfigOf(p)
           k == child[p]
           a == attempts[p]
           rt == runtime[p]
<1>0. /\ Sound(proc[p], k, c, a, "exit") /\ worker = "exit" /\ worker' = "exit"
      /\ proc[p].state = "Exiting" /\ proc[p].has_pid
      /\ UNCHANGED <<config, attempts>>
      /\ flag' = TRUE /\ ExitVisiting(p)
      /\ proc \in [Procs -> ProcessRecord]
  BY AtProcess, IndInvParts DEF ExitAwait, ExitVisiting, TableTypes
<1>1. PICK ws \in Codes :
        LET polled   == UpdateStatus(proc[p], k, ws)
            stopping == Entering(polled) /\ polled.has_pid
            overdue  == ~Entering(polled) /\ Overdue(p, polled)
            After(r) == Become(p, Transit(r, c, rt))
        IN \/ ~stopping /\ ~overdue /\ After(polled) /\ SendNothing(p)
           \/ stopping /\ After(polled) /\ SendStop(p)
           \/ overdue /\ After(Killed(polled)) /\ SendKill(p)
           \/ /\ KillMayFail
              /\ \/ stopping /\ After(LoseChild(polled))
                 \/ overdue /\ After(LoseChild(Killed(polled)))
              /\ SendNothing(p)
  BY DEF ExitAwait
<1> DEFINE s == UpdateStatus(proc[p], k, ws)
           stops == Entering(s) /\ s.has_pid
           overs == ~Entering(s) /\ Overdue(p, s)
<1>2. /\ stops => Sound(Transit(s, c, rt), Deliver(k, c.stopsignal), c, a, "exit")
      /\ ~stops => Sound(Transit(s, c, rt), AfterWait(k), c, a, "exit")
      /\ overs => Sound(Transit(Killed(s), c, rt), Deliver(k, "KILL"), c, a, "exit")
      /\ KillMayFail => \A l \in {LoseChild(s), LoseChild(Killed(s))} :
           Sound(Transit(l, c, rt), AfterWait(k), c, a, "exit")
  BY <1>0, SoundExiting DEF Overdue
\* Whatever is sent, the process and its child are replaced by sound ones.
<1>3. \E n, kn : /\ Become(p, n) /\ child' = [child EXCEPT ![p] = kn]
                 /\ Sound(n, kn, c, a, "exit")
                 /\ stoptime' \in [Procs -> Nat]
  <2>1. CASE ~stops /\ Become(p, Transit(s, c, rt)) /\ SendNothing(p)
    BY <1>2, <2>1, Clocks DEF SendNothing
  <2>2. CASE stops /\ Become(p, Transit(s, c, rt)) /\ SendStop(p)
    BY <1>2, <2>2, Clocks DEF SendStop
  <2>3. CASE overs /\ Become(p, Transit(Killed(s), c, rt)) /\ SendKill(p)
    BY <1>2, <2>3, Clocks DEF SendKill
  <2>4. CASE KillMayFail /\ Become(p, Transit(LoseChild(s), c, rt)) /\ SendNothing(p)
    BY <1>2, <2>4, Clocks DEF SendNothing
  <2>5. CASE KillMayFail /\ Become(p, Transit(LoseChild(Killed(s)), c, rt)) /\ SendNothing(p)
    BY <1>2, <2>5, Clocks DEF SendNothing
  <2> QED  BY <1>1, <2>1, <2>2, <2>3, <2>4, <2>5
<1>4. PICK n, kn : /\ proc' = [proc EXCEPT ![p] = n]
                   /\ child' = [child EXCEPT ![p] = kn]
                   /\ Sound(n, kn, c, a, "exit")
                   /\ stoptime' \in [Procs -> Nat]
  BY <1>3 DEF Become
<1>5. TableTypes' /\ AllSound' /\ config' \in [Groups -> Configs]
  BY <1>0, <1>4, OneChild
<1>6. OtherTypes' /\ ExitInv'
  <2>1. \A q \in Procs \ {p} : proc'[q] = proc[q]
    BY <1>0, <1>4
  <2> QED  BY <1>0, <1>4, <2>1, ExitOthers
<1> QED  BY <1>5, <1>6, IndInvNext

-----------------------------------------------------------------------------
(* The steps that are not a visit.                                          *)

\* No Process, child or count changes, and the worker does not go back.
LEMMA NoProcess ==
  ASSUME IndInv, UNCHANGED <<config, proc, child, attempts>>,
         OtherTypes', ExitInv',
         \/ worker' = worker
         \/ worker' = "exit"
         \/ worker' = "done" /\ worker = "exit"
  PROVE  IndInv'
<1>1. TableTypes' /\ config' \in [Groups -> Configs]
  BY IndInvParts DEF TableTypes
<1>2. ASSUME NEW q \in Procs
      PROVE  Sound(proc'[q], child'[q], ConfigOf(q)', attempts'[q], worker')
  <2>1. Sound(proc[q], child[q], ConfigOf(q), attempts[q], worker)
    BY AtProcess
  <2>2. Sound(proc[q], child[q], ConfigOf(q), attempts[q], worker')
    BY <2>1, SoundLeave
  <2> QED  BY <2>2 DEF ConfigOf
<1>3. AllSound'
  BY <1>2 DEF AllSound
<1> QED  BY <1>1, <1>3, IndInvNext

LEMMA IndAskForPass == ASSUME IndInv, AskForPass PROVE IndInv'
<1>1. OtherTypes' /\ ExitInv'
  BY IndInvParts DEF AskForPass, OtherTypes, ExitInv
<1> QED  BY <1>1, NoProcess DEF AskForPass

LEMMA IndBeginPass == ASSUME IndInv, BeginPass PROVE IndInv'
<1>1. OtherTypes' /\ ExitInv'
  BY IndInvParts DEF AskForPass, BeginPass, OtherTypes, ExitInv
<1> QED  BY <1>1, NoProcess DEF BeginPass

LEMMA IndLeaveWork == ASSUME IndInv, LeaveWork PROVE IndInv'
<1>1. OtherTypes' /\ ExitInv'
  BY IndInvParts DEF LeaveWork, OtherTypes, ExitInv
<1> QED  BY <1>1, NoProcess DEF LeaveWork

LEMMA IndBeginExitPass == ASSUME IndInv, BeginExitPass PROVE IndInv'
<1>1. OtherTypes' /\ ExitInv'
  BY IndInvParts DEF BeginExitPass, OtherTypes, ExitInv
<1> QED  BY <1>1, NoProcess DEF BeginExitPass

LEMMA IndFinishExit == ASSUME IndInv, FinishExit PROVE IndInv'
<1>1. OtherTypes' /\ ExitInv'
  BY IndInvParts DEF FinishExit, OtherTypes, ExitInv
<1> QED  BY <1>1, NoProcess DEF FinishExit

LEMMA IndQuit == ASSUME IndInv, Quit PROVE IndInv'
<1>1. OtherTypes' /\ ExitInv'
  BY IndInvParts DEF Quit, OtherTypes, ExitInv
<1> QED  BY <1>1, NoProcess DEF Quit

LEMMA IndTick == ASSUME IndInv, Tick PROVE IndInv'
<1>1. OtherTypes /\ ExitInv /\ config \in [Groups -> Configs]
  BY IndInvParts
<1>2. \A p \in Procs : /\ Second(runtime[p], ConfigOf(p).starttime) \in Nat
                       /\ Second(stoptime[p], ConfigOf(p).stoptime) \in Nat
  BY <1>1 DEF Second, OtherTypes
<1>3. OtherTypes' /\ ExitInv'
  BY <1>1, <1>2 DEF Tick, OtherTypes, ExitInv
<1> QED  BY <1>3, NoProcess DEF Tick

LEMMA IndUnchanged == ASSUME IndInv, UNCHANGED vars PROVE IndInv'
<1>1. OtherTypes' /\ ExitInv'
  BY IndInvParts DEF vars, OtherTypes, ExitInv
<1> QED  BY <1>1, NoProcess DEF vars

LEMMA IndRequestCommand ==
  ASSUME IndInv, NEW g \in Groups, NEW command \in Command \ {"None"},
         RequestCommand(g, command)
  PROVE  IndInv'
<1>1. OtherTypes /\ ExitInv /\ TableTypes /\ config \in [Groups -> Configs]
  BY IndInvParts
<1>2. ASSUME NEW q \in Procs
      PROVE  /\ Sound(proc'[q], child'[q], ConfigOf(q)', attempts'[q], worker')
             /\ Down(proc[q]) => Down(proc[q])'
  <2>1. Sound(proc[q], child[q], ConfigOf(q), attempts[q], worker)
    BY AtProcess
  <2>2. child'[q] = child[q] /\ ConfigOf(q)' = ConfigOf(q) /\ worker' = worker
    BY DEF RequestCommand, ConfigOf
  <2>3. CASE GroupOf[q] = g
    <3>1. /\ proc'[q] = [proc[q] EXCEPT !.pending_command = command]
          /\ attempts'[q] = IF command # "Stop" THEN 0 ELSE attempts[q]
      BY <2>3 DEF RequestCommand
    <3>2. Down(proc[q]) => Down(proc[q])'
      BY <2>1, <3>1 DEF Sound, ProcessRecord, Down, Awaited, Entering
    <3>3. Sound([proc[q] EXCEPT !.pending_command = command], child[q], ConfigOf(q),
                IF command # "Stop" THEN 0 ELSE attempts[q], worker)
      BY <2>1, SoundCommand
    <3> QED  BY <2>2, <3>1, <3>2, <3>3
  <2>4. CASE GroupOf[q] # g
    <3>1. proc'[q] = proc[q] /\ attempts'[q] = attempts[q]
      BY <2>4 DEF RequestCommand
    <3>2. Down(proc[q]) => Down(proc[q])'
      BY <3>1 DEF Down, Awaited, Entering
    <3> QED  BY <2>1, <2>2, <3>1, <3>2
  <2> QED  BY <2>3, <2>4
<1>3. AllSound'
  BY <1>2 DEF AllSound
<1>4. TableTypes'
  <2>1. proc' = [q \in Procs |-> proc'[q]] /\ attempts' = [q \in Procs |-> attempts'[q]]
    BY DEF RequestCommand
  <2>2. \A q \in Procs : proc'[q] \in ProcessRecord /\ attempts'[q] \in Nat
    BY <1>2 DEF Sound
  <2>3. child' \in [Procs -> Child]
    BY <1>1 DEF RequestCommand, TableTypes
  <2> QED  BY <2>1, <2>2, <2>3 DEF TableTypes
<1>5. OtherTypes' /\ ExitInv'
  BY <1>1, <1>2 DEF RequestCommand, OtherTypes, ExitInv
<1>6. config' \in [Groups -> Configs]
  BY <1>1 DEF RequestCommand
<1> QED  BY <1>3, <1>4, <1>5, <1>6, IndInvNext

LEMMA IndChildDies ==
  ASSUME IndInv, NEW p \in Procs, ChildDies(p)
  PROVE  IndInv'
<1>1. Sound(proc[p], "zombie", ConfigOf(p), attempts[p], worker')
  BY AtProcess, SoundChildDies DEF ChildDies
<1>2. TableTypes' /\ AllSound' /\ config' \in [Groups -> Configs]
  <2> DEFINE n == proc[p]
  <2>1. proc' = [proc EXCEPT ![p] = n]
    BY IndInvParts DEF TableTypes, ChildDies
  <2>2. Sound(n, "zombie", ConfigOf(p), attempts[p], worker')
    BY <1>1
  <2> HIDE DEF n
  <2> QED  BY <2>1, <2>2, OneChild DEF ChildDies
<1>3. OtherTypes' /\ ExitInv'
  BY IndInvParts DEF ChildDies, OtherTypes, ExitInv
<1> QED  BY <1>2, <1>3, IndInvNext

-----------------------------------------------------------------------------
(* The theorems.                                                            *)

LEMMA IndInit == Init => IndInv
<1> SUFFICES ASSUME Init PROVE IndInv
  OBVIOUS
<1>1. config \in [Groups -> Configs]
  BY DEF Init
<1>2. ASSUME NEW p \in Procs
      PROVE  /\ ConfigOf(p) \in ProcessConfig
             /\ ConfigOf(p).starttime \in Nat
             /\ ConfigOf(p).stoptime \in Nat
             /\ ConfigOf(p).startretries \in Nat
  BY <1>1, ConfigType DEF ProcessConfig
<1>3. NewProcess \in ProcessRecord
  BY DEF NewProcess, ProcessRecord, State, Command
<1>4. TableTypes
  BY <1>3 DEF Init, TableTypes, Child
<1>5. OtherTypes /\ ExitInv
  BY <1>2 DEF Init, OtherTypes, ExitInv
<1>6. ASSUME NEW p \in Procs
      PROVE  Sound(NewProcess, "none", ConfigOf(p), 0, "work")
  <2>1. Counted(NewProcess, ConfigOf(p)) /\ "none" \in Child
    BY <1>2 DEF Counted, NewProcess, Child
  <2>2. Consistent(NewProcess, "none", ConfigOf(p), 0, "work")
    BY <1>2 DEF NewProcess, Consistent, PidInv, StopInv, AliveInv, AttemptInv,
                Down, Awaited, Entering, AskedUp
  <2> QED  BY <1>2, <1>3, <2>1, <2>2 DEF Sound
<1>7. AllSound
  BY <1>6 DEF AllSound, Init
<1> QED  BY <1>1, <1>4, <1>5, <1>7, IndInvParts

LEMMA IndNext == IndInv /\ [Next]_vars => IndInv'
<1> SUFFICES ASSUME IndInv, [Next]_vars PROVE IndInv'
  OBVIOUS
<1>1. ASSUME NEW p \in Procs, Fsm(p) PROVE IndInv'
  BY <1>1, IndWaiting, IndStart, IndStartFails, IndStarting, IndRunning,
     IndExitingEnter, IndExiting, IndStopped DEF Fsm
<1>2. ASSUME NEW p \in Procs, ExitStopped(p) \/ ExitDemote(p) \/ ExitAwait(p)
      PROVE  IndInv'
  BY <1>2, IndExitStopped, IndExitDemote, IndExitAwait
<1>3. CASE AskForPass \/ BeginPass \/ LeaveWork \/ BeginExitPass \/ FinishExit
  BY <1>3, IndAskForPass, IndBeginPass, IndLeaveWork, IndBeginExitPass, IndFinishExit
<1>4. CASE \E g \in Groups, command \in Command \ {"None"} : RequestCommand(g, command)
  BY <1>4, IndRequestCommand
<1>5. CASE Quit \/ Tick \/ \E p \in Procs : ChildDies(p)
  BY <1>5, IndQuit, IndTick, IndChildDies
<1>6. CASE Terminated \/ UNCHANGED vars
  BY <1>6, IndUnchanged DEF Terminated
<1> QED  BY <1>1, <1>2, <1>3, <1>4, <1>5, <1>6 DEF Next, Worker

\* The invariant is inductive: it holds of every reachable state.
THEOREM Invariance == Spec => []IndInv
<1>1. Init => IndInv
  BY IndInit
<1>2. IndInv /\ [Next]_vars => IndInv'
  BY IndNext
<1> QED  BY <1>1, <1>2, PTL DEF Spec

\* Every variable has its type: the exit status is a decoded one, and the
\* failure counter stays within the bound it is compared with.
THEOREM TypeCorrectness == Spec => []TypeOK
<1>1. IndInv => TypeOK
  BY DEF IndInv
<1> QED  BY <1>1, Invariance, PTL

\* The worker never calls waitpid or kill without the pid of a child of its own
\* that has not been reaped.
THEOREM PidSafety == Spec => []PidTracksChild
<1>1. IndInv => PidTracksChild
  BY DEF IndInv, Consistent, PidInv, PidTracksChild
<1> QED  BY <1>1, Invariance, PTL

\* At most one child runs for a process.
THEOREM OneChildPerProcess == Spec => []NoChildBeforeFork
<1>1. IndInv => NoChildBeforeFork
  BY DEF IndInv, Consistent, PidInv, NoChildBeforeFork
<1> QED  BY <1>1, Invariance, PTL

\* The daemon ends with no child, alive or unreaped.
THEOREM GracefulExit == Spec => []NoChildLeftBehind
<1>1. IndInv => NoChildLeftBehind
  BY DEF IndInv, ExitInv, Consistent, PidInv, Down, Awaited, NoChildLeftBehind
<1> QED  BY <1>1, Invariance, PTL

\* A program that does not come up is not retried beyond its startretries.
THEOREM RetriesAreBounded == Spec => []RetryBudget
<1>1. IndInv => RetryBudget
  BY DEF IndInv, Consistent, AttemptInv, RetryBudget
<1> QED  BY <1>1, Invariance, PTL

-----------------------------------------------------------------------------
(* Commands.                                                                *)

\* The steps that take a pending command, as a relation of the record before
\* and the record after.
Keeps(r, s) == s.pending_command = r.pending_command
Takes(r, s) == AskedUp(r) /\ r.state = "Starting" /\ Entering(r)
Forgets(r, s) == r.pending_command # "Restart" /\ r.state = "Stopped"
Replaces(r, s) == s.pending_command # "None"

LEMMA VisitedCommand ==
  ASSUME NEW r \in ProcessRecord, NEW k, NEW ws \in Codes,
         NEW c \in ProcessConfig, NEW rt, Counted(r, c),
         NEW s, s = UpdateStatus(r, k, ws)
  PROVE  /\ Keeps(r, Transit(r, c, rt))
         /\ Keeps(r, s)
         /\ Keeps(r, Transit(s, c, rt))
         /\ Keeps(r, Transit(CountFailure(s, c), c, rt))
         /\ \A x \in {Killed(s), LoseChild(s), LoseChild(Killed(s))} :
              Keeps(r, x) /\ Keeps(r, Transit(x, c, rt))
<1>1. /\ s \in ProcessRecord /\ Keeps(r, s) /\ Counted(s, c)
  BY UpdateStatusType DEF Keeps, Counted
<1>2. /\ CountFailure(s, c) \in ProcessRecord
      /\ CountFailure(s, c).pending_command = s.pending_command
  BY <1>1, CountFailureType
<1>3. ASSUME NEW x \in {Killed(s), LoseChild(s), LoseChild(Killed(s))}
      PROVE  x \in ProcessRecord /\ x.pending_command = s.pending_command
  BY <1>1, <1>3 DEF Killed, LoseChild, ProcessRecord
<1>4. \A x \in ProcessRecord : Transit(x, c, rt).pending_command = x.pending_command
  BY TransitType
<1> QED  BY <1>1, <1>2, <1>3, <1>4 DEF Keeps

LEMMA CommandStep ==
  ASSUME IndInv, Next, NEW q \in Procs
  PROVE  \/ Keeps(proc[q], proc'[q])
         \/ worker = "work" /\ Takes(proc[q], proc'[q])
         \/ worker = "work" /\ Forgets(proc[q], proc'[q])
         \/ Replaces(proc[q], proc'[q])
<1> DEFINE Goal == \/ Keeps(proc[q], proc'[q])
                   \/ worker = "work" /\ Takes(proc[q], proc'[q])
                   \/ worker = "work" /\ Forgets(proc[q], proc'[q])
                   \/ Replaces(proc[q], proc'[q])
<1>0. proc \in [Procs -> ProcessRecord]
  BY IndInvParts DEF TableTypes
\* A step that replaces one record by one with the same command.
<1>1. ASSUME NEW p \in Procs, NEW n, Become(p, n), Keeps(proc[p], n)
      PROVE  Goal
  BY <1>0, <1>1 DEF Become, Keeps
\* A visit of p leaves the commands of the others alone.
<1>2. ASSUME NEW p \in Procs, NEW n, Become(p, n), q # p
      PROVE  Goal
  BY <1>0, <1>2 DEF Become, Keeps
<1>3. ASSUME NEW p \in Procs
      PROVE  /\ proc[p] \in ProcessRecord /\ ConfigOf(p) \in ProcessConfig
             /\ Counted(proc[p], ConfigOf(p))
  BY AtProcess DEF Sound
<1>4. ASSUME NEW p \in Procs, Fsm(p) PROVE Goal
  <2>1. CASE FsmWaiting(p)
    BY <1>1, <1>3, <2>1, VisitedCommand, CodesAssumption DEF FsmWaiting
  <2>2. CASE FsmStart(p) \/ FsmStartFails(p)
    <3>1. PICK n : Become(p, n) /\ (~AskedUp(proc[p]) => Keeps(proc[p], n))
      <4>1. CASE FsmStartFails(p)
        BY <4>1 DEF FsmStartFails, TakeCommand, Keeps
      <4>2. CASE FsmStart(p)
        <5> DEFINE c == ConfigOf(p)
                   t == TakeCommand(proc[p])
        <5>1. PICK k \in {"alive", "zombie"}, ws \in Codes :
                LET forked == Started(t)
                    polled == IF c.starttime = 0 THEN forked
                                                 ELSE UpdateStatus(forked, k, ws)
                IN Become(p, Transit(CountFailure(polled, c), c, 0))
          BY <4>2 DEF FsmStart
        <5> DEFINE f == Started(t)
                   polled == IF c.starttime = 0 THEN f ELSE UpdateStatus(f, k, ws)
                   n == Transit(CountFailure(polled, c), c, 0)
        <5>2. /\ t \in ProcessRecord /\ Counted(t, c)
              /\ ~AskedUp(proc[p]) => t = proc[p]
          BY <1>3, TakeCommandType DEF TakeCommand
        <5>3. f \in ProcessRecord /\ Counted(f, c) /\ Keeps(t, f)
          <6> HIDE DEF t
          <6> QED  BY <5>2, SimpleTypes DEF Counted, Keeps, Started, ProcessRecord
        <5>4. polled \in ProcessRecord /\ Counted(polled, c) /\ Keeps(t, polled)
          <6> HIDE DEF f
          <6> QED  BY <5>3, UpdateStatusType DEF Counted, Keeps
        <5>5. Keeps(t, n)
          <6> HIDE DEF polled
          <6> QED  BY <1>3, <5>4, CountFailureType, TransitType DEF Keeps
        <5>6. Become(p, n)
          BY <5>1
        <5> HIDE DEF n
        <5> QED  BY <5>2, <5>5, <5>6
      <4> QED  BY <2>2, <4>1, <4>2
    <3>2. CASE AskedUp(proc[p]) /\ q = p
      BY <2>2, <3>2 DEF FsmStart, FsmStartFails, Visiting, Takes
    <3> QED  BY <1>1, <1>2, <3>1, <3>2
  <2>3. CASE FsmStarting(p)
    BY <1>1, <1>3, <2>3, VisitedCommand DEF FsmStarting
  <2>4. CASE FsmRunning(p)
    BY <1>1, <1>3, <2>4, VisitedCommand DEF FsmRunning
  <2>5. CASE FsmExitingEnter(p)
    BY <1>1, <1>3, <2>5, VisitedCommand DEF FsmExitingEnter
  <2>6. CASE FsmExiting(p)
    BY <1>1, <1>3, <2>6, VisitedCommand DEF FsmExiting
  <2>7. CASE FsmStopped(p)
    <3> DEFINE n == Transit(ForgetCommand(proc[p]), ConfigOf(p), runtime[p])
    <3>1. Become(p, n) /\ proc[p].state = "Stopped" /\ worker = "work"
      BY <2>7 DEF FsmStopped, Visiting
    <3>2. proc[p].pending_command = "Restart" => Keeps(proc[p], n)
      <4>1. proc[p].pending_command = "Restart" => ForgetCommand(proc[p]) = proc[p]
        BY DEF ForgetCommand
      <4> QED  BY <1>3, <4>1, TransitType DEF Keeps
    <3>3. CASE q = p /\ proc[p].pending_command # "Restart"
      BY <3>1, <3>3 DEF Forgets
    <3> HIDE DEF n
    <3> QED  BY <1>1, <1>2, <3>1, <3>2, <3>3
  <2> QED  BY <1>4, <2>1, <2>2, <2>3, <2>4, <2>5, <2>6, <2>7 DEF Fsm
<1>5. ASSUME NEW p \in Procs, ExitStopped(p) \/ ExitDemote(p) PROVE Goal
  <2>1. \A st : Keeps(proc[p], [proc[p] EXCEPT !.state = st])
    BY <1>3 DEF Keeps, ProcessRecord
  <2> QED  BY <1>1, <1>5, <2>1 DEF ExitStopped, ExitDemote
<1>6. ASSUME NEW p \in Procs, ExitAwait(p) PROVE Goal
  BY <1>1, <1>3, <1>6, VisitedCommand DEF ExitAwait
<1>7. ASSUME NEW g \in Groups, NEW command \in Command \ {"None"},
             RequestCommand(g, command)
      PROVE  Goal
  <2>1. CASE GroupOf[q] = g
    BY <1>0, <1>7, <2>1 DEF RequestCommand, Replaces, ProcessRecord
  <2>2. CASE GroupOf[q] # g
    BY <1>7, <2>2 DEF RequestCommand, Keeps
  <2> QED  BY <2>1, <2>2
<1>8. ASSUME UNCHANGED proc PROVE Goal
  BY <1>8 DEF Keeps
<1> QED
  BY <1>4, <1>5, <1>6, <1>7, <1>8
  DEF Next, Worker, AskForPass, BeginPass, LeaveWork, BeginExitPass, FinishExit, Quit,
      ChildDies, Tick, Terminated, vars

\* A restart that was accepted is forgotten only by the visit that forks for it.
THEOREM RestartIsTaken == Spec => RestartNeverLost
<1> DEFINE A == \A p \in Procs :
                  /\ proc[p].pending_command = "Restart"
                  /\ proc'[p].pending_command = "None"
                  => /\ proc[p].state = "Starting" /\ Entering(proc[p])
                     /\ child[p] = "none"
<1>1. ASSUME IndInv, Next PROVE A
  <2> SUFFICES ASSUME NEW p \in Procs,
                      proc[p].pending_command = "Restart",
                      proc'[p].pending_command = "None"
               PROVE  /\ proc[p].state = "Starting" /\ Entering(proc[p])
                      /\ child[p] = "none"
    OBVIOUS
  <2>1. /\ proc[p].state = "Starting" /\ Entering(proc[p])
        /\ worker = "work"
    BY <1>1, CommandStep DEF Keeps, Takes, Forgets, Replaces
  <2> QED
    BY <1>1, <2>1 DEF IndInv, Consistent, PidInv, Down, Awaited
<1>2. IndInv /\ [Next]_vars => [A]_vars
  BY <1>1
<1> QED  BY <1>2, Invariance, PTL DEF Spec, RestartNeverLost

\* A stop that was accepted is forgotten only when the child is gone.
THEOREM StopIsTaken == Spec => StopNeverLost
<1> DEFINE A == \A p \in Procs :
                  /\ proc[p].pending_command = "Stop"
                  /\ proc'[p].pending_command = "None"
                  => proc[p].state = "Stopped" /\ child[p] = "none"
<1>1. ASSUME IndInv, Next PROVE A
  <2> SUFFICES ASSUME NEW p \in Procs,
                      proc[p].pending_command = "Stop",
                      proc'[p].pending_command = "None"
               PROVE  proc[p].state = "Stopped" /\ child[p] = "none"
    OBVIOUS
  <2>1. proc[p].state = "Stopped" /\ worker = "work"
    BY <1>1, CommandStep DEF Keeps, Takes, Forgets, Replaces, AskedUp
  <2> QED
    BY <1>1, <2>1 DEF IndInv, Consistent, PidInv, Down, Awaited
<1>2. IndInv /\ [Next]_vars => [A]_vars
  BY <1>1
<1> QED  BY <1>2, Invariance, PTL DEF Spec, StopNeverLost

-----------------------------------------------------------------------------
(* Children.                                                                *)

\* Only a kill of a child that was sent the stop signal, long enough ago, or a
\* stop signal that is SIGKILL, dooms it.
THEOREM KillComesLast == Spec => KillIsLastResort
<1> DEFINE A == \A p \in Procs :
                  /\ child[p] # "doomed" /\ child'[p] = "doomed"
                  /\ ConfigOf(p).stopsignal # "KILL"
                  => child[p] = "signalled" /\ stoptime[p] >= ConfigOf(p).stoptime
<1>1. ASSUME IndInv, Next PROVE A
  <2> SUFFICES ASSUME NEW q \in Procs,
                      child[q] # "doomed", child'[q] = "doomed",
                      ConfigOf(q).stopsignal # "KILL"
               PROVE  child[q] = "signalled" /\ stoptime[q] >= ConfigOf(q).stoptime
    OBVIOUS
  <2>0. /\ Sound(proc[q], child[q], ConfigOf(q), attempts[q], worker)
        /\ child \in [Procs -> Child]
    BY <1>1, AtProcess, IndInvParts DEF TableTypes
  <2>1. \A p \in Procs : \A k : child' = [child EXCEPT ![p] = k] => q = p /\ k = "doomed"
    BY <2>0
  <2>2. ASSUME NEW p \in Procs, child' = [child EXCEPT ![p] = AfterWait(@)]
        PROVE  FALSE
    BY <2>1, <2>2 DEF AfterWait
  <2>3. ASSUME NEW p \in Procs, SendStop(p)
        PROVE  FALSE
    BY <2>1, <2>3 DEF SendStop, Deliver
  <2>4. ASSUME NEW p \in Procs, SendKill(p), NEW ws \in Codes, NEW s,
               s \in {UpdateStatus(proc[p], child[p], ws)},
               Overdue(p, s), proc[p].state = "Exiting", ~Entering(proc[p]),
               proc[p].has_pid
        PROVE  child[q] = "signalled" /\ stoptime[q] >= ConfigOf(q).stoptime
    <3>1. q = p
      BY <2>1, <2>4 DEF SendKill
    <3>2. child[q] # "zombie"
      BY <2>0, <2>4, <3>1, UpdateStatusType DEF Overdue, Sound, Live
    <3>3. child[q] = "signalled"
      BY <2>0, <2>4, <3>1, <3>2 DEF Sound, Consistent, StopInv
    <3> QED  BY <2>4, <3>1, <3>3 DEF Overdue
  <2>5. ASSUME NEW p \in Procs, FsmStart(p) PROVE FALSE
    <3>1. PICK k \in {"alive", "zombie"} :
            child' = [child EXCEPT ![p] = IF ConfigOf(p).starttime = 0
                                            THEN k ELSE AfterWait(k)]
      BY <2>5 DEF FsmStart
    <3> QED  BY <2>1, <3>1 DEF AfterWait
  <2>6. ASSUME NEW p \in Procs, FsmExiting(p)
        PROVE  child[q] = "signalled" /\ stoptime[q] >= ConfigOf(q).stoptime
    <3>1. /\ proc[p].state = "Exiting" /\ ~Entering(proc[p]) /\ proc[p].has_pid
      BY <1>1, <2>6, AtProcess
      DEF FsmExiting, Visiting, Sound, Consistent, PidInv, Awaited
    <3>2. \/ SendNothing(p)
          \/ \E ws \in Codes : /\ Overdue(p, UpdateStatus(proc[p], child[p], ws))
                               /\ SendKill(p)
      BY <2>6 DEF FsmExiting
    <3> QED  BY <2>2, <2>4, <3>1, <3>2 DEF SendNothing
  <2>7. ASSUME NEW p \in Procs, ExitAwait(p)
        PROVE  child[q] = "signalled" /\ stoptime[q] >= ConfigOf(q).stoptime
    <3>1. /\ proc[p].state = "Exiting" /\ proc[p].has_pid
          /\ proc[p] \in ProcessRecord
      BY <1>1, <2>7, AtProcess DEF ExitAwait, Sound
    <3>2. \/ SendNothing(p)
          \/ SendStop(p)
          \/ \E ws \in Codes :
               LET s == UpdateStatus(proc[p], child[p], ws)
               IN ~Entering(s) /\ Overdue(p, s) /\ SendKill(p)
      BY <2>7 DEF ExitAwait
    <3>3. \A ws \in Codes :
            Entering(UpdateStatus(proc[p], child[p], ws)) <=> Entering(proc[p])
      BY <3>1, UpdateStatusType DEF Entering
    <3> QED  BY <2>2, <2>3, <2>4, <3>1, <3>2, <3>3 DEF SendNothing
  <2>8. ASSUME NEW p \in Procs, FsmExitingEnter(p) PROVE FALSE
    <3>1. SendStop(p) \/ SendNothing(p)
      BY <2>8 DEF FsmExitingEnter
    <3> QED  BY <2>2, <2>3, <3>1 DEF SendNothing
  <2>9. ASSUME NEW p \in Procs, FsmStarting(p) \/ FsmRunning(p) PROVE FALSE
    BY <2>2, <2>9 DEF FsmStarting, FsmRunning
  <2>10. ASSUME NEW p \in Procs, ChildDies(p) PROVE FALSE
    BY <2>1, <2>10 DEF ChildDies
  <2>11. ASSUME UNCHANGED child PROVE FALSE
    BY <2>11
  <2>12. ASSUME NEW p \in Procs,
                FsmWaiting(p) \/ FsmStartFails(p) \/ FsmStopped(p)
                \/ ExitStopped(p) \/ ExitDemote(p)
         PROVE  FALSE
    BY <2>11, <2>12 DEF FsmWaiting, FsmStartFails, FsmStopped, ExitStopped, ExitDemote
  <2>13. ASSUME NEW g \in Groups, NEW command, RequestCommand(g, command) PROVE FALSE
    BY <2>11, <2>13 DEF RequestCommand
  <2>14. ASSUME \/ AskForPass \/ BeginPass \/ LeaveWork \/ BeginExitPass \/ FinishExit
                \/ Quit \/ Tick \/ Terminated
         PROVE  FALSE
    BY <2>11, <2>14 DEF AskForPass, BeginPass, LeaveWork, BeginExitPass, FinishExit, Quit,
                        Tick, Terminated, vars
  <2> QED
    BY <1>1, <2>5, <2>6, <2>7, <2>8, <2>9, <2>10, <2>12, <2>13, <2>14
    DEF Next, Worker, Fsm
<1>2. IndInv /\ [Next]_vars => [A]_vars
  BY <1>1
<1> QED  BY <1>2, Invariance, PTL DEF Spec, KillIsLastResort
=============================================================================
