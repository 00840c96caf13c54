-------------------------- MODULE TaskmasterProofs --------------------------
(***************************************************************************)
(* Theorems about Taskmaster: the main thread, which replaces the pool     *)
(* under the worker, keeps the worker's invariant.                         *)
(***************************************************************************)
EXTENDS Taskmaster, TaskManagerRefinement

-----------------------------------------------------------------------------
(* What the worker knows of a live child.                                   *)

\* The record r says running if its child k may live on.
Knows(r, k) == k \in {"alive", "signalled"} => r.running

LEMMA KnowsVisit ==
  ASSUME NEW r \in ProcessRecord, NEW k \in Child, NEW ws \in Codes,
         NEW c \in ProcessConfig, NEW rt, NEW sig, Counted(r, c),
         NEW s, s = UpdateStatus(r, k, ws),
         NEW kk, kk = AfterWait(k) \/ (k # "none" /\ kk = Deliver(k, sig))
  PROVE  /\ Knows(s, kk)
         /\ Knows(Transit(s, c, rt), kk)
         /\ Knows(Transit(Killed(s), c, rt), kk)
         /\ Knows(Transit(CountFailure(s, c), c, rt), kk)
<1>1. s \in ProcessRecord /\ (s.running <=> k \in Live) /\ Counted(s, c)
  BY UpdateStatusType DEF Counted
<1>2. k \notin Live => kk \notin {"alive", "signalled"}
  BY DEF AfterWait, Deliver, Live, Child
<1>3. Killed(s) \in ProcessRecord /\ Killed(s).running = s.running
  BY <1>1 DEF Killed, ProcessRecord
<1>4. CountFailure(s, c) \in ProcessRecord /\ CountFailure(s, c).running = s.running
  BY <1>1, CountFailureType
<1>5. \A x \in ProcessRecord : Transit(x, c, rt).running = x.running
  BY TransitType
<1> QED  BY <1>1, <1>2, <1>3, <1>4, <1>5 DEF Knows

LEMMA KnownStep ==
  ASSUME IndInv, LiveIsKnown, [Next]_vars
  PROVE  LiveIsKnown'
<1> SUFFICES ASSUME ~KillMayFail, NEW q \in Procs, ConfigOf(q)'.starttime # 0
             PROVE  Knows(proc'[q], child'[q])
  BY DEF LiveIsKnown, Knows
<1> DEFINE Goal == Knows(proc'[q], child'[q])
<1>0. proc \in [Procs -> ProcessRecord] /\ child \in [Procs -> Child]
  BY IndInvParts DEF TableTypes
<1>1. ConfigOf(q)' = ConfigOf(q) /\ Knows(proc[q], child[q])
  <2>1. UNCHANGED config
    BY DEF Next, vars, Worker, Fsm, FsmWaiting, FsmStart, FsmStartFails, FsmStarting,
           FsmRunning, FsmExitingEnter, FsmExiting, FsmStopped, AskForPass, BeginPass,
           LeaveWork, BeginExitPass, FinishExit, ExitStopped, ExitDemote, ExitAwait, ExitVisiting,
           RequestCommand, Quit, ChildDies, Tick, Terminated
  <2> QED  BY <2>1 DEF ConfigOf, LiveIsKnown, Knows
<1>2. ASSUME NEW p \in Procs, NEW n, NEW k, Become(p, n),
             child' = [child EXCEPT ![p] = k],
             p = q => Knows(n, k)
      PROVE  Goal
  BY <1>0, <1>1, <1>2 DEF Become
<1>3. ASSUME NEW p \in Procs
      PROVE  /\ proc[p] \in ProcessRecord /\ child[p] \in Child
             /\ ConfigOf(p) \in ProcessConfig /\ Counted(proc[p], ConfigOf(p))
  BY AtProcess DEF Sound
<1>4. ASSUME NEW p \in Procs, NEW n, Become(p, n), UNCHANGED child,
             n.running = proc[p].running
      PROVE  Goal
  BY <1>0, <1>1, <1>4 DEF Become, Knows
<1>5. ASSUME NEW p \in Procs, FsmStart(p) PROVE Goal
  <2> DEFINE c == ConfigOf(p)
             f == Started(TakeCommand(proc[p]))
  <2>1. PICK k \in {"alive", "zombie"}, ws \in Codes :
          LET polled == IF c.starttime = 0 THEN f ELSE UpdateStatus(f, k, ws)
          IN /\ Become(p, Transit(CountFailure(polled, c), c, 0))
             /\ child' = [child EXCEPT ![p] = IF c.starttime = 0 THEN k
                                                                 ELSE AfterWait(k)]
    BY <1>5 DEF FsmStart
  <2>2. f \in ProcessRecord /\ Counted(f, c)
    <3> DEFINE t == TakeCommand(proc[p])
    <3>1. t \in ProcessRecord /\ Counted(t, c)
      BY <1>3, TakeCommandType
    <3>2. f = Started(t)
      OBVIOUS
    <3> HIDE DEF t, f
    <3> QED  BY <3>1, <3>2, SimpleTypes DEF Counted
  <2>3. k \in Child
    BY DEF Child, Live
  <2>4. CASE c.starttime # 0
    <3> DEFINE n == Transit(CountFailure(UpdateStatus(f, k, ws), c), c, 0)
    <3>1. Become(p, n) /\ child' = [child EXCEPT ![p] = AfterWait(k)]
      BY <2>1, <2>4
    <3>2. Knows(n, AfterWait(k))
      <4> HIDE DEF f
      <4> QED  BY <1>3, <2>2, <2>3, KnowsVisit
    <3> HIDE DEF n
    <3> QED  BY <1>2, <3>1, <3>2
  <2>5. CASE c.starttime = 0
    <3>1. p # q
      BY <1>1, <2>5
    <3> DEFINE n == Transit(CountFailure(f, c), c, 0)
    <3>2. Become(p, n) /\ child' = [child EXCEPT ![p] = k]
      BY <2>1, <2>5
    <3> HIDE DEF n
    <3> QED  BY <1>2, <3>1, <3>2
  <2> QED  BY <2>4, <2>5
<1>6. ASSUME NEW p \in Procs, FsmStarting(p) \/ FsmRunning(p) PROVE Goal
  <2>1. PICK ws \in Codes :
          LET s == UpdateStatus(proc[p], child[p], ws)
          IN \/ Become(p, Transit(CountFailure(s, ConfigOf(p)), ConfigOf(p), runtime[p]))
             \/ Become(p, Transit(s, ConfigOf(p), runtime[p]))
    BY <1>6 DEF FsmStarting, FsmRunning
  <2>2. child' = [child EXCEPT ![p] = AfterWait(child[p])]
    BY <1>6 DEF FsmStarting, FsmRunning
  <2>3. /\ Knows(Transit(CountFailure(UpdateStatus(proc[p], child[p], ws), ConfigOf(p)),
                         ConfigOf(p), runtime[p]), AfterWait(child[p]))
        /\ Knows(Transit(UpdateStatus(proc[p], child[p], ws), ConfigOf(p), runtime[p]),
                 AfterWait(child[p]))
    BY <1>3, KnowsVisit
  <2> QED  BY <1>2, <2>1, <2>2, <2>3
<1>7. ASSUME NEW p \in Procs,
             FsmExitingEnter(p) \/ FsmExiting(p) \/ ExitAwait(p)
      PROVE  Goal
  <2>0. child[p] # "none"
    <3>1. proc[p].has_pid \/ (worker = "work" /\ proc[p].state = "Exiting")
      BY <1>7 DEF FsmExitingEnter, FsmExiting, Visiting, ExitAwait
    <3> QED  BY <3>1, AtProcess DEF Sound, Consistent, PidInv, Awaited
  <2>1. PICK ws \in Codes, kk \in {AfterWait(child[p]),
                                   Deliver(child[p], ConfigOf(p).stopsignal),
                                   Deliver(child[p], "KILL")} :
          LET s == UpdateStatus(proc[p], child[p], ws)
          IN /\ child' = [child EXCEPT ![p] = kk]
             /\ \/ Become(p, s)
                \/ Become(p, Transit(s, ConfigOf(p), runtime[p]))
                \/ Become(p, Transit(Killed(s), ConfigOf(p), runtime[p]))
    BY <1>7 DEF FsmExitingEnter, FsmExiting, ExitAwait, SendStop, SendKill, SendNothing
  <2> DEFINE s == UpdateStatus(proc[p], child[p], ws)
  <2>2. /\ Knows(s, kk)
        /\ Knows(Transit(s, ConfigOf(p), runtime[p]), kk)
        /\ Knows(Transit(Killed(s), ConfigOf(p), runtime[p]), kk)
    BY <1>3, <2>0, KnowsVisit
  <2> QED  BY <1>2, <2>1, <2>2
<1>8. ASSUME NEW p \in Procs,
             \/ FsmWaiting(p) \/ FsmStartFails(p) \/ FsmStopped(p)
             \/ ExitStopped(p) \/ ExitDemote(p)
      PROVE  Goal
  <2>1. /\ Transit(proc[p], ConfigOf(p), runtime[p]).running = proc[p].running
        /\ TakeCommand(proc[p]).running = proc[p].running
        /\ \A st : [proc[p] EXCEPT !.state = st].running = proc[p].running
    BY <1>3, TransitType, TakeCommandType DEF ProcessRecord
  <2>2. Transit(ForgetCommand(proc[p]), ConfigOf(p), runtime[p]).running = proc[p].running
    <3>1. /\ ForgetCommand(proc[p]) \in ProcessRecord
          /\ ForgetCommand(proc[p]).running = proc[p].running
      BY <1>3, SimpleTypes DEF ForgetCommand, ProcessRecord
    <3> QED  BY <1>3, <3>1, TransitType
  <2> QED
    BY <1>4, <1>8, <2>1, <2>2
    DEF FsmWaiting, FsmStartFails, FsmStopped, ExitStopped, ExitDemote
<1>9. ASSUME NEW g \in Groups, NEW command, RequestCommand(g, command) PROVE Goal
  <2>1. proc'[q].running = proc[q].running /\ UNCHANGED child
    BY <1>0, <1>9 DEF RequestCommand, ProcessRecord
  <2> QED  BY <1>1, <2>1 DEF Knows
<1>10. ASSUME NEW p \in Procs, ChildDies(p) PROVE Goal
  BY <1>0, <1>1, <1>10 DEF ChildDies, Knows
<1>11. ASSUME UNCHANGED <<proc, child>> PROVE Goal
  BY <1>1, <1>11
<1> QED
  BY <1>5, <1>6, <1>7, <1>8, <1>9, <1>10, <1>11
  DEF Next, Worker, Fsm, AskForPass, BeginPass, LeaveWork, BeginExitPass, FinishExit, Quit,
      Tick, Terminated, vars

-----------------------------------------------------------------------------
(* A reload.                                                                *)

\* A new Process object is sound under any configuration, whatever the worker
\* is at.
LEMMA SoundNew ==
  ASSUME NEW c \in ProcessConfig, NEW w
  PROVE  Sound(NewProcess, "none", c, 0, w)
<1>1. NewProcess \in ProcessRecord
  BY DEF NewProcess, ProcessRecord, State, Command
<1>2. c.starttime \in Nat /\ c.startretries \in Nat
  BY DEF ProcessConfig
<1>3. Counted(NewProcess, c) /\ "none" \in Child
  BY <1>2 DEF Counted, NewProcess, Child
<1>4. Consistent(NewProcess, "none", c, 0, w)
  BY <1>2 DEF NewProcess, Consistent, PidInv, StopInv, AliveInv, AttemptInv,
              Down, Awaited, Entering, AskedUp
<1> QED  BY <1>1, <1>3, <1>4 DEF Sound

\* What a reload does to one process: it is new, or it is left alone.
LEMMA SwapOne ==
  ASSUME MainInv, SwapPools, NEW q \in Procs
  PROVE  \/ /\ proc'[q] = NewProcess /\ child'[q] = "none" /\ attempts'[q] = 0
            /\ ConfigOf(q)' = new_pool[GroupOf[q]]
         \/ /\ proc'[q] = proc[q] /\ child'[q] = child[q]
            /\ attempts'[q] = attempts[q]
            /\ ConfigOf(q)' = ConfigOf(q)
<1>1. GroupOf[q] \in Groups
  BY TaskManagerAssumption
<1> QED  BY <1>1 DEF SwapPools, Replacement, ConfigOf

LEMMA SwapInd ==
  ASSUME MainInv, SwapPools
  PROVE  IndInv'
<1>1. /\ config \in [Groups -> Configs] /\ TableTypes /\ AllSound /\ OtherTypes
      /\ ExitInv /\ new_pool \in [Groups -> Configs]
  BY IndInvParts DEF MainInv, MainTypeOK
<1>2. config' \in [Groups -> Configs]
  BY <1>1 DEF SwapPools
<1>3. /\ worker' = worker /\ todo' = todo /\ asks' = asks /\ flag' = flag
      /\ stop_token' = stop_token
  BY DEF SwapPools
<1>4. ASSUME NEW q \in Procs
      PROVE  /\ Sound(proc'[q], child'[q], ConfigOf(q)', attempts'[q], worker')
             /\ Down(proc[q]) => Down(proc[q])'
  <2>1. ConfigOf(q)' \in ProcessConfig
    BY <1>2, TaskManagerAssumption DEF ConfigOf
  <2>2. CASE proc'[q] = NewProcess /\ child'[q] = "none" /\ attempts'[q] = 0
    <3>1. Down(proc[q])'
      BY <2>2 DEF Down, Awaited, NewProcess
    <3> QED  BY <2>1, <2>2, <3>1, SoundNew
  <2>3. CASE /\ proc'[q] = proc[q] /\ child'[q] = child[q]
             /\ attempts'[q] = attempts[q] /\ ConfigOf(q)' = ConfigOf(q)
    <3>1. Down(proc[q]) => Down(proc[q])'
      BY <2>3 DEF Down, Awaited, Entering
    <3> QED  BY <1>1, <1>3, <2>3, <3>1 DEF AllSound
  <2> QED  BY <2>2, <2>3, SwapOne
<1>5. AllSound'
  BY <1>4 DEF AllSound
<1>6. TableTypes'
  <2>1. /\ proc' = [q \in Procs |-> proc'[q]]
        /\ child' = [q \in Procs |-> child'[q]]
        /\ attempts' = [q \in Procs |-> attempts'[q]]
    BY DEF SwapPools
  <2>2. \A q \in Procs : /\ proc'[q] \in ProcessRecord
                         /\ child'[q] \in Child
                         /\ attempts'[q] \in Nat
    BY <1>4 DEF Sound
  <2> QED  BY <2>1, <2>2 DEF TableTypes
<1>7. OtherTypes'
  <2>1. \A g \in Groups : /\ new_pool[g].starttime \in Nat
                          /\ new_pool[g].stoptime \in Nat
    BY <1>1, TaskManagerAssumption DEF ProcessConfig
  <2>2. \A q \in Procs : GroupOf[q] \in Groups
    BY TaskManagerAssumption
  <2>3. runtime' \in [Procs -> Nat] /\ stoptime' \in [Procs -> Nat]
    BY <1>1, <2>1, <2>2 DEF SwapPools, OtherTypes
  <2> QED  BY <1>1, <1>3, <2>3 DEF OtherTypes
<1>8. ExitInv'
  BY <1>1, <1>3, <1>4 DEF ExitInv
<1> QED  BY <1>2, <1>5, <1>6, <1>7, <1>8, IndInvNext

\* Whatever is spared by a reload is dead, doomed, or of a program that has no
\* starttime.
LEMMA SwapKnown ==
  ASSUME MainInv, SwapPools
  PROVE  LiveIsKnown' /\ NoStray'
<1>1. LiveIsKnown /\ NoStray
  BY DEF MainInv
<1>2. LiveIsKnown'
  <2> SUFFICES ASSUME ~KillMayFail, NEW q \in Procs,
                      child'[q] \in {"alive", "signalled"},
                      ConfigOf(q)'.starttime # 0
               PROVE  proc'[q].running
    BY DEF LiveIsKnown
  <2> QED  BY <1>1, SwapOne DEF LiveIsKnown
<1>3. NoStray'
  <2> SUFFICES ASSUME ~KillMayFail, NEW c \in stray' PROVE c.starttime = 0
    BY DEF NoStray
  <2>1. CASE c \in stray
    BY <1>1, <2>1 DEF NoStray
  <2>2. CASE c \notin stray
    <3>1. PICK q \in Procs : /\ c = ConfigOf(q) /\ Spared(proc[q])
                             /\ child[q] \in {"alive", "signalled"}
      BY <2>2 DEF SwapPools
    <3> QED  BY <1>1, <3>1 DEF LiveIsKnown, Spared
  <2> QED  BY <2>1, <2>2
<1> QED  BY <1>2, <1>3

-----------------------------------------------------------------------------
(* The invariant of the daemon.                                             *)

\* The steps that are steps of module TaskManager, and leave the pool alone.
LEMMA InnerStep ==
  ASSUME MainNext \/ UNCHANGED all_vars
  PROVE  [Next]_vars \/ SwapPools
<1>1. CASE WorkerStep \/ Environment
  BY <1>1 DEF WorkerStep, Environment, Next
<1>2. CASE SigHup \/ PollReturns \/ HandleWakeUp \/ HandleReload \/ EndBatch
           \/ ReloadFails \/ ReloadAnswered \/ Join
  BY <1>2 DEF SigHup, PollReturns, HandleWakeUp, HandleReload, EndBatch, ReloadFails,
              ReloadAnswered, Join
<1>3. ASSUME NEW g \in Groups, NEW command \in Command \ {"None"},
             HandleCommand(g, command)
      PROVE  Next
  BY <1>3 DEF HandleCommand, Next
<1>4. CASE HandleQuit
  BY <1>4 DEF HandleQuit, Next
<1>5. CASE Destroy
  BY <1>5 DEF Destroy, Next, Quit, vars
<1>6. ASSUME NEW new, ReadConfig(new) PROVE UNCHANGED vars
  BY <1>6 DEF ReadConfig
<1> QED
  BY <1>1, <1>2, <1>3, <1>4, <1>5, <1>6 DEF MainNext, Main, Ended, all_vars

\* A worker that has ended stays ended.
LEMMA DoneStays ==
  ASSUME [Next]_vars \/ SwapPools, worker = "done"
  PROVE  worker' = "done"
BY DEF Next, vars, Worker, Fsm, FsmWaiting, FsmStart, FsmStartFails, FsmStarting,
       FsmRunning, FsmExitingEnter, FsmExiting, FsmStopped, Visiting, AskForPass, BeginPass,
       LeaveWork, BeginExitPass, FinishExit, ExitStopped, ExitDemote, ExitAwait,
       ExitVisiting, RequestCommand, Quit, ChildDies, Tick, Terminated, SwapPools

\* The variables of the main thread.
OwnTypes ==
  /\ main \in {"poll", "handle", "reload", "swap", "reloaded", "left", "join", "joined"}
  /\ wake \in BOOLEAN
  /\ woken \in BOOLEAN
  /\ running \in BOOLEAN
  /\ sighup \in BOOLEAN
  /\ reload_request \in BOOLEAN
  /\ new_pool \in [Groups -> Configs]
  /\ stray \subseteq Configs

LEMMA OwnStep ==
  ASSUME MainInv, MainNext \/ UNCHANGED all_vars
  PROVE  /\ OwnTypes'
         /\ ~SwapPools => UNCHANGED stray
         /\ main' = "joined" => main = "joined" \/ worker = "done"
<1>0. OwnTypes /\ TypeOK
  BY DEF MainInv, MainTypeOK, OwnTypes
<1>1. CASE WorkerStep
  BY <1>0, <1>1 DEF WorkerStep, OwnTypes
<1>2. CASE Environment \/ SigHup \/ PollReturns
  BY <1>0, <1>2 DEF Environment, SigHup, PollReturns, OwnTypes, main_vars, TypeOK
<1>3. CASE HandleWakeUp \/ HandleReload \/ HandleQuit \/ EndBatch
  BY <1>0, <1>3 DEF HandleWakeUp, HandleReload, HandleQuit, EndBatch, AfterBatch,
                    NextIteration, OwnTypes
<1>4. ASSUME NEW g, NEW command, HandleCommand(g, command)
      PROVE  OwnTypes' /\ UNCHANGED <<main, stray>>
  BY <1>0, <1>4 DEF HandleCommand, OwnTypes, main_vars
<1>5. ASSUME NEW new \in [Groups -> Configs], ReadConfig(new)
      PROVE  OwnTypes' /\ UNCHANGED stray /\ main' = "swap"
  BY <1>0, <1>5 DEF ReadConfig, OwnTypes
<1>6. CASE ReloadFails \/ ReloadAnswered \/ Destroy \/ Join
  BY <1>0, <1>6 DEF ReloadFails, ReloadAnswered, Destroy, Join, NextIteration, OwnTypes
<1>7. CASE SwapPools
  <2>1. \A p \in Procs : ConfigOf(p) \in Configs
    BY <1>0, TaskManagerAssumption DEF TypeOK, ConfigOf
  <2> QED  BY <1>0, <1>7, <2>1 DEF SwapPools, OwnTypes
<1>8. CASE UNCHANGED all_vars
  BY <1>0, <1>8 DEF all_vars, main_vars, OwnTypes
<1> QED
  BY <1>1, <1>2, <1>3, <1>4, <1>5, <1>6, <1>7, <1>8 DEF MainNext, Main, Ended

LEMMA MainNextInv == MainInv /\ [MainNext]_all_vars => MainInv'
<1> SUFFICES ASSUME MainInv, [MainNext]_all_vars PROVE MainInv'
  OBVIOUS
<1>1. [Next]_vars \/ SwapPools
  BY InnerStep
<1>2. IndInv /\ LiveIsKnown /\ NoStray /\ (main = "joined" => worker = "done")
  BY DEF MainInv
<1>3. IndInv' /\ LiveIsKnown' /\ NoStray'
  <2>1. CASE SwapPools
    BY <2>1, SwapInd, SwapKnown
  <2>2. CASE [Next]_vars /\ ~SwapPools
    <3>1. stray' = stray
      BY <2>2, OwnStep
    <3> QED  BY <1>2, <2>2, <3>1, IndNext, KnownStep DEF NoStray
  <2> QED  BY <1>1, <2>1, <2>2
<1>4. MainTypeOK'
  BY <1>3, OwnStep DEF MainTypeOK, OwnTypes, IndInv
<1>5. (main = "joined" => worker = "done")'
  BY <1>1, <1>2, OwnStep, DoneStays
<1> QED  BY <1>3, <1>4, <1>5 DEF MainInv

\* The invariant of the daemon holds in every reachable state, for any number of
\* programs and whatever the files say that are read.
THEOREM DaemonInvariance == MainSpec => []MainInv
<1>1. MainInit => MainInv
  <2> SUFFICES ASSUME MainInit PROVE MainInv
    OBVIOUS
  <2>1. Init /\ IndInv /\ config \in [Groups -> Configs]
    BY IndInit DEF MainInit, Init
  <2>2. MainTypeOK
    BY <2>1 DEF MainInit, MainTypeOK, IndInv
  <2>3. LiveIsKnown /\ NoStray
    BY <2>1 DEF MainInit, Init, LiveIsKnown, NoStray
  <2> QED  BY <2>1, <2>2, <2>3 DEF MainInit, MainInv
<1>2. MainInv /\ [MainNext]_all_vars => MainInv'
  BY MainNextInv
<1> QED  BY <1>1, <1>2, PTL DEF MainSpec

\* Every variable of the daemon has its type, the pool a reload leaves included.
THEOREM DaemonTypes == MainSpec => []MainTypeOK
<1>1. MainInv => MainTypeOK
  BY DEF MainInv
<1> QED  BY <1>1, DaemonInvariance, PTL

\* A reload drops no child that may live on, except of programs without
\* starttime.
THEOREM ReloadKillsWhatItDrops == MainSpec => []NoStray
<1>1. MainInv => NoStray
  BY DEF MainInv
<1> QED  BY <1>1, DaemonInvariance, PTL

\* The daemon ends with no child in its pool, reloads included.
THEOREM DaemonEndsClean == MainSpec => []DaemonLeavesNothing
<1>1. MainInv => DaemonLeavesNothing
  BY DEF MainInv, IndInv, ExitInv, Consistent, PidInv, DaemonLeavesNothing
<1> QED  BY <1>1, DaemonInvariance, PTL

-----------------------------------------------------------------------------
(* Refinement of module ReloadedSupervision.                                *)

ConfigsOf == [p \in Procs |-> ConfigOf(p)]

\* The abstract module says of a step what module Supervision says.
LEMMA SameSupervision == S!Next => D!Next
BY DEF S!Next, S!Fork, S!Stop, S!Kill, S!Die, S!Reap, S!Close, S!Closed, S!Changes, S!Live,
       D!Next, D!Fork, D!Stop, D!Kill, D!Die, D!Reap, D!Close, D!Closed, D!Changes, D!Live

LEMMA ConfigStays == ASSUME [Next]_vars PROVE UNCHANGED config
BY DEF Next, vars, Worker, Fsm, FsmWaiting, FsmStart, FsmStartFails, FsmStarting,
       FsmRunning, FsmExitingEnter, FsmExiting, FsmStopped, Visiting, AskForPass, BeginPass,
       LeaveWork, BeginExitPass, FinishExit, ExitStopped, ExitDemote, ExitAwait,
       ExitVisiting, RequestCommand, Quit, ChildDies, Tick, Terminated

\* A step of the worker, the children or the clock, or one of the main thread that
\* leaves the pool in place.
LEMMA SuperviseStep ==
  ASSUME ~KillMayFail, IndInv, [Next]_vars, UNCHANGED stray
  PROVE  [D!ReloadNext]_(D!reload_vars)
<1>1. UNCHANGED <<config, ConfigsOf>>
  BY ConfigStays DEF ConfigsOf, ConfigOf
<1>2. CASE S!Next
  BY <1>1, <1>2, SameSupervision DEF D!ReloadNext, D!Supervise, ConfigsOf
<1>3. CASE Same
  BY <1>1, <1>3 DEF Same, PhaseOf, AbruptOf, D!reload_vars, D!vars, ConfigsOf
<1>4. UNCHANGED vars => Same
  BY QuietStep DEF vars
<1> QED  BY <1>2, <1>3, <1>4, StepRefines

LEMMA ReloadStep ==
  ASSUME ~KillMayFail, MainInv, SwapPools
  PROVE  D!ReloadNext
<1> DEFINE new == [p \in Procs |-> new_pool[GroupOf[p]]]
           changed == {p \in Procs : ~D!SameConfig(ConfigsOf[p], new[p])}
<1>0. /\ \A p \in Procs : GroupOf[p] \in Groups /\ ConfigOf(p) \in Configs
      /\ new \in [Procs -> Configs]
  BY TaskManagerAssumption DEF MainInv, MainTypeOK, TypeOK, ConfigOf
<1>1. \A p \in Procs : p \in changed <=> ~SameConfig(config[GroupOf[p]], new_pool[GroupOf[p]])
  BY DEF D!SameConfig, SameConfig, ConfigsOf, ConfigOf
<1>2. ConfigsOf' = [p \in Procs |-> IF p \in changed THEN new[p] ELSE ConfigsOf[p]]
  <2>1. \A p \in Procs : ConfigOf(p)' = IF p \in changed THEN new[p] ELSE ConfigsOf[p]
    BY <1>0, <1>1 DEF SwapPools, ConfigOf, ConfigsOf
  <2> QED  BY <2>1 DEF ConfigsOf
<1>3. child' = [p \in Procs |-> IF p \in changed THEN "none" ELSE child[p]]
  BY <1>1 DEF SwapPools
<1>4. AbruptOf' = {p \in Procs : ConfigsOf'[p].stopsignal = "KILL"}
  BY DEF AbruptOf, ConfigsOf
<1>5. UNCHANGED PhaseOf
  BY DEF SwapPools, PhaseOf
<1>6. stray # {} => stray' # {}
  BY DEF SwapPools
<1>7. ASSUME stray' # {}, stray = {}
      PROVE  \E p \in changed : /\ child[p] \in {"alive", "signalled"}
                                /\ ConfigsOf[p].starttime = 0
  <2>1. PICK p \in Procs : /\ ~SameConfig(config[GroupOf[p]], new_pool[GroupOf[p]])
                           /\ Spared(proc[p]) /\ child[p] \in {"alive", "signalled"}
    BY <1>7 DEF SwapPools
  <2>2. ConfigOf(p).starttime = 0
    BY <2>1 DEF MainInv, LiveIsKnown, Spared
  <2> QED  BY <1>1, <2>1, <2>2 DEF ConfigsOf
<1>8. D!Reload(new)
  BY <1>2, <1>3, <1>4, <1>5, <1>6, <1>7
  DEF D!Reload, D!MayBeOrphaned, ConfigsOf, AbruptOf, PhaseOf
<1> QED  BY <1>0, <1>8 DEF D!ReloadNext

\* With the main thread that stops, restarts and reloads the programs, the worker is
\* still a correct supervisor of them, and a reload leaves alone what it does not
\* change.
THEOREM DaemonRefinement ==
  ASSUME ~KillMayFail
  PROVE  MainSpec => SupervisesAndReloads
<1>1. MainInit => D!ReloadInit
  <2> SUFFICES ASSUME MainInit PROVE D!ReloadInit
    OBVIOUS
  <2>1. D!Init
    BY DEF MainInit, Init, D!Init
  <2>2. ConfigsOf \in [Procs -> Configs]
    BY TaskManagerAssumption DEF MainInit, Init, ConfigsOf, ConfigOf
  <2> QED  BY <2>1, <2>2 DEF MainInit, D!ReloadInit, ConfigsOf
<1>2. MainInv /\ [MainNext]_all_vars => [D!ReloadNext]_(D!reload_vars)
  <2> SUFFICES ASSUME MainInv, MainNext \/ UNCHANGED all_vars
               PROVE  [D!ReloadNext]_(D!reload_vars)
    OBVIOUS
  <2>1. CASE SwapPools
    BY <2>1, ReloadStep
  <2>2. CASE ~SwapPools
    BY <2>2, InnerStep, OwnStep, SuperviseStep DEF MainInv
  <2> QED  BY <2>1, <2>2
<1> QED
  BY <1>1, <1>2, DaemonInvariance, PTL DEF MainSpec, SupervisesAndReloads, D!ReloadSpec
=============================================================================
