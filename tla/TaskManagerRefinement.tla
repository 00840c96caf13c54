----------------------- MODULE TaskManagerRefinement -----------------------
(***************************************************************************)
(* TaskManager implements Supervision: the state machine, the timers, the  *)
(* commands and exit_gracefully never do to a child what the abstract      *)
(* supervision does not allow.  A refused kill(2) loses a child, which no  *)
(* supervision of that child allows, so kill(2) is assumed to work.        *)
(***************************************************************************)
EXTENDS TaskManagerProofs

\* The value the refinement mapping gives to phase, and to abrupt.
PhaseOf == CASE worker = "work" -> "open"
             [] worker = "exit" -> "closing"
             [] worker = "done" -> "closed"

AbruptOf == {p \in Procs : ConfigOf(p).stopsignal = "KILL"}

Same == UNCHANGED <<child, PhaseOf, AbruptOf>>

LEMMA SameAbrupt == ASSUME UNCHANGED config PROVE UNCHANGED AbruptOf
BY DEF AbruptOf, ConfigOf

\* The child is left as waitpid leaves it.
LEMMA ReapStep ==
  ASSUME child \in [Procs -> Child], NEW p \in Procs,
         UNCHANGED <<config, worker>>, worker \in {"work", "exit"},
         child' = [child EXCEPT ![p] = AfterWait(child[p])]
  PROVE  S!Reap(p) \/ Same
<1>1. UNCHANGED <<PhaseOf, AbruptOf>> /\ PhaseOf # "closed"
  BY SameAbrupt DEF PhaseOf
<1>2. CASE child[p] = "zombie"
  BY <1>1, <1>2 DEF S!Reap, S!Changes, AfterWait, PhaseOf, AbruptOf
<1>3. CASE child[p] # "zombie"
  <2>1. UNCHANGED child
    BY <1>3 DEF AfterWait
  <2> QED  BY <1>1, <2>1 DEF Same
<1> QED  BY <1>2, <1>3

LEMMA StopStep ==
  ASSUME child \in [Procs -> Child], NEW p \in Procs,
         UNCHANGED <<config, worker>>, worker \in {"work", "exit"},
         child[p] = "alive", SendStop(p)
  PROVE  S!Stop(p)
<1>1. UNCHANGED <<PhaseOf, AbruptOf>> /\ PhaseOf # "closed"
  BY SameAbrupt DEF PhaseOf
<1>2. child' = [child EXCEPT ![p] = IF p \in AbruptOf THEN "doomed" ELSE "signalled"]
  BY DEF SendStop, Deliver, AbruptOf
<1> QED  BY <1>1, <1>2 DEF S!Stop, S!Changes, PhaseOf, AbruptOf

LEMMA KillStep ==
  ASSUME child \in [Procs -> Child], NEW p \in Procs,
         UNCHANGED <<config, worker>>, worker \in {"work", "exit"},
         child[p] \in {"signalled", "doomed"}, SendKill(p)
  PROVE  S!Kill(p) \/ Same
<1>1. UNCHANGED <<PhaseOf, AbruptOf>> /\ PhaseOf # "closed"
  BY SameAbrupt DEF PhaseOf
<1>2. child' = [child EXCEPT ![p] = "doomed"]
  BY DEF SendKill, Deliver
<1>3. CASE child[p] = "signalled"
  BY <1>1, <1>2, <1>3 DEF S!Kill, S!Changes, PhaseOf, AbruptOf
<1>4. CASE child[p] = "doomed"
  <2>1. UNCHANGED child
    BY <1>2, <1>4
  <2> QED  BY <1>1, <2>1 DEF Same
<1> QED  BY <1>3, <1>4

\* The worker leaves work(), and at most one ended child is reaped on the way.
LEMMA CloseStep ==
  ASSUME UNCHANGED config, worker = "work", worker' = "exit",
         \/ UNCHANGED child
         \/ \E p \in Procs : /\ child[p] = "zombie"
                             /\ child' = [child EXCEPT ![p] = "none"]
  PROVE  S!Close
<1>1. PhaseOf = "open" /\ PhaseOf' = "closing" /\ UNCHANGED AbruptOf
  BY SameAbrupt DEF PhaseOf
<1> QED  BY <1>1 DEF S!Close, S!Changes, PhaseOf, AbruptOf

LEMMA QuietStep ==
  ASSUME UNCHANGED <<config, worker, child>>
  PROVE  Same
BY SameAbrupt DEF Same, PhaseOf

LEMMA StepRefines ==
  ASSUME ~KillMayFail, IndInv, Next
  PROVE  S!Next \/ Same
<1>0. child \in [Procs -> Child] /\ worker \in {"work", "exit", "done"}
  BY IndInvParts DEF TableTypes, OtherTypes
<1>1. ASSUME NEW p \in Procs
      PROVE  S!Fork(p) \/ S!Stop(p) \/ S!Kill(p) \/ S!Die(p) \/ S!Reap(p) => S!Next
  BY DEF S!Next
\* What an Exiting process and its child tell of each other.
<1>2. ASSUME NEW p \in Procs, proc[p].state = "Exiting", proc[p].has_pid,
             NEW ws \in Codes, NEW s, s = UpdateStatus(proc[p], child[p], ws)
      PROVE  /\ Entering(s) <=> Entering(proc[p])
             /\ s.running <=> child[p] # "zombie"
             /\ s.has_pid <=> child[p] # "zombie"
             /\ Entering(proc[p]) => child[p] \in {"alive", "zombie"}
             /\ ~Entering(proc[p]) => child[p] \in {"signalled", "doomed", "zombie"}
  <2>1. /\ Sound(proc[p], child[p], ConfigOf(p), attempts[p], worker)
    BY AtProcess
  <2>2. /\ proc[p] \in ProcessRecord /\ child[p] \in Child /\ child[p] # "none"
        /\ Counted(proc[p], ConfigOf(p))
        /\ Entering(proc[p]) => child[p] \in {"alive", "zombie"}
        /\ ~Entering(proc[p]) => child[p] \in {"signalled", "doomed", "zombie"}
    BY <1>2, <2>1 DEF Sound, Consistent, PidInv, StopInv, AliveInv
  <2> QED  BY <1>2, <2>2, Polled DEF Entering
<1>3. ASSUME NEW p \in Procs, proc[p].state = "Exiting", worker = "work"
      PROVE  proc[p].has_pid
  BY <1>3, AtProcess DEF Sound, Consistent, PidInv, Awaited
<1>4. ASSUME NEW p \in Procs, FsmStart(p) PROVE S!Next \/ Same
  <2>1. child[p] = "none"
    BY <1>4, AtProcess
    DEF FsmStart, Visiting, Sound, Consistent, PidInv, Down, Awaited
  <2>2. UNCHANGED <<config, worker>> /\ worker = "work"
    BY <1>4 DEF FsmStart, Visiting, Return
  <2>3. PICK k \in {"alive", "zombie"} :
          child' = [child EXCEPT ![p] = IF ConfigOf(p).starttime = 0
                                          THEN k ELSE AfterWait(k)]
    BY <1>4 DEF FsmStart
  <2>4. PICK kn \in {"alive", "zombie", "none"} : child' = [child EXCEPT ![p] = kn]
    BY <2>3 DEF AfterWait
  <2>5. CASE kn = "none"
    <3>1. UNCHANGED child
      BY <1>0, <2>1, <2>4, <2>5
    <3> QED  BY <2>2, <3>1, QuietStep
  <2>6. CASE kn \in {"alive", "zombie"}
    <3>1. PhaseOf = "open" /\ UNCHANGED <<PhaseOf, AbruptOf>>
      BY <2>2, SameAbrupt DEF PhaseOf
    <3>2. S!Fork(p)
      BY <2>1, <2>4, <2>6, <3>1 DEF S!Fork, S!Changes, PhaseOf, AbruptOf
    <3> QED  BY <1>1, <3>2
  <2> QED  BY <2>5, <2>6
<1>5. ASSUME NEW p \in Procs, FsmStarting(p) \/ FsmRunning(p) PROVE S!Next \/ Same
  <2>1. /\ UNCHANGED <<config, worker>> /\ worker = "work"
        /\ child' = [child EXCEPT ![p] = AfterWait(child[p])]
    BY <1>5 DEF FsmStarting, FsmRunning, Visiting, Return
  <2> QED  BY <1>0, <1>1, <2>1, ReapStep
<1>6. ASSUME NEW p \in Procs, FsmExitingEnter(p) PROVE S!Next \/ Same
  <2>1. /\ proc[p].state = "Exiting" /\ Entering(proc[p]) /\ worker = "work"
        /\ UNCHANGED config
    BY <1>6 DEF FsmExitingEnter, Visiting
  <2>2. PICK ws \in Codes :
          LET s == UpdateStatus(proc[p], child[p], ws) IN
          \/ s.has_pid /\ SendStop(p) /\ Return(p)
          \/ ~s.has_pid /\ SendNothing(p) /\ Throw
    BY <1>6 DEF FsmExitingEnter
  <2> DEFINE s == UpdateStatus(proc[p], child[p], ws)
  <2>3. /\ s.has_pid <=> child[p] # "zombie"
        /\ child[p] \in {"alive", "zombie"}
    BY <1>2, <1>3, <2>1
  <2>4. CASE s.has_pid /\ SendStop(p) /\ Return(p)
    <3>1. UNCHANGED worker /\ child[p] = "alive"
      BY <2>3, <2>4 DEF Return
    <3> QED  BY <1>0, <1>1, <2>1, <2>4, <3>1, StopStep
  <2>5. CASE ~s.has_pid /\ SendNothing(p) /\ Throw
    <3>1. child[p] = "zombie" /\ child' = [child EXCEPT ![p] = "none"]
      BY <2>3, <2>5 DEF SendNothing, AfterWait
    <3>2. worker' = "exit"
      BY <2>5 DEF Throw
    <3> QED  BY <2>1, <3>1, <3>2, CloseStep DEF S!Next
  <2> QED  BY <2>2, <2>4, <2>5
<1>7. ASSUME NEW p \in Procs, FsmExiting(p) PROVE S!Next \/ Same
  <2>1. /\ proc[p].state = "Exiting" /\ ~Entering(proc[p]) /\ worker = "work"
        /\ UNCHANGED config
    BY <1>7 DEF FsmExiting, Visiting
  <2>2. PICK ws \in Codes :
          LET s == UpdateStatus(proc[p], child[p], ws) IN
          Return(p) /\ (SendNothing(p) \/ (Overdue(p, s) /\ SendKill(p)))
    BY <1>7 DEF FsmExiting
  <2> DEFINE s == UpdateStatus(proc[p], child[p], ws)
  <2>3. UNCHANGED worker
    BY <2>2 DEF Return
  <2>4. CASE SendNothing(p)
    BY <1>0, <1>1, <2>1, <2>3, <2>4, ReapStep DEF SendNothing
  <2>5. CASE Overdue(p, s) /\ SendKill(p)
    <3>1. child[p] \in {"signalled", "doomed"}
      BY <1>2, <1>3, <2>1, <2>5 DEF Overdue
    <3> QED  BY <1>0, <1>1, <2>1, <2>3, <2>5, <3>1, KillStep
  <2> QED  BY <2>2, <2>4, <2>5
<1>8. ASSUME NEW p \in Procs, ExitAwait(p) PROVE S!Next \/ Same
  <2>1. /\ proc[p].state = "Exiting" /\ proc[p].has_pid /\ worker = "exit"
        /\ UNCHANGED <<config, worker>>
    BY <1>8 DEF ExitAwait, ExitVisiting
  <2>2. PICK ws \in Codes :
          LET s == UpdateStatus(proc[p], child[p], ws) IN
          \/ SendNothing(p)
          \/ Entering(s) /\ s.has_pid /\ SendStop(p)
          \/ ~Entering(s) /\ Overdue(p, s) /\ SendKill(p)
    BY <1>8 DEF ExitAwait
  <2> DEFINE s == UpdateStatus(proc[p], child[p], ws)
  <2>3. CASE SendNothing(p)
    BY <1>0, <1>1, <2>1, <2>3, ReapStep DEF SendNothing
  <2>4. CASE Entering(s) /\ s.has_pid /\ SendStop(p)
    <3>1. child[p] = "alive"
      BY <1>2, <2>1, <2>4
    <3> QED  BY <1>0, <1>1, <2>1, <2>4, <3>1, StopStep
  <2>5. CASE ~Entering(s) /\ Overdue(p, s) /\ SendKill(p)
    <3>1. child[p] \in {"signalled", "doomed"}
      BY <1>2, <2>1, <2>5 DEF Overdue
    <3> QED  BY <1>0, <1>1, <2>1, <2>5, <3>1, KillStep
  <2> QED  BY <2>2, <2>3, <2>4, <2>5
<1>9. ASSUME NEW p \in Procs, FsmStartFails(p) PROVE S!Next
  BY <1>9, CloseStep DEF FsmStartFails, Visiting, Throw, S!Next
<1>10. ASSUME NEW p \in Procs,
              \/ FsmWaiting(p) \/ FsmStopped(p)
              \/ ExitStopped(p) \/ ExitDemote(p)
       PROVE  Same
  BY <1>10, QuietStep
  DEF FsmWaiting, FsmStopped, Return, ExitStopped, ExitDemote, ExitVisiting
<1>11. CASE LeaveWork
  BY <1>11, CloseStep DEF LeaveWork, S!Next
<1>12. CASE FinishExit
  <2>1. \A p \in Procs : child[p] = "none"
    <3>1. \A p \in Procs : Down(proc[p])
      BY <1>12, IndInvParts DEF FinishExit, ExitInv
    <3> QED
      BY <3>1, AtProcess DEF Sound, Consistent, PidInv
  <2>2. PhaseOf = "closing" /\ PhaseOf' = "closed" /\ UNCHANGED <<child, AbruptOf>>
    BY <1>12, SameAbrupt DEF FinishExit, PhaseOf
  <2> QED  BY <2>1, <2>2 DEF S!Next, S!Closed, PhaseOf, AbruptOf
<1>13. ASSUME NEW p \in Procs, ChildDies(p) PROVE S!Next
  <2>1. UNCHANGED <<PhaseOf, AbruptOf>>
    BY <1>13, SameAbrupt DEF ChildDies, PhaseOf
  <2>2. S!Die(p)
    BY <1>13, <2>1 DEF ChildDies, S!Die, S!Changes, S!Live, Live, PhaseOf, AbruptOf
  <2> QED  BY <1>1, <2>2
<1>14. ASSUME NEW g \in Groups, NEW command, RequestCommand(g, command) PROVE Same
  BY <1>14, QuietStep DEF RequestCommand
<1>15. CASE AskForPass \/ BeginPass \/ BeginExitPass \/ Quit \/ Tick \/ Terminated
  BY <1>15, QuietStep DEF AskForPass, BeginPass, BeginExitPass, Quit, Tick, Terminated, vars
<1> QED
  BY <1>4, <1>5, <1>6, <1>7, <1>8, <1>9, <1>10, <1>11, <1>12, <1>13, <1>14, <1>15
  DEF Next, Worker, Fsm

LEMMA InitRefines == Init => S!Init
BY DEF Init, S!Init

\* The detailed daemon is a supervision of its children.
THEOREM Refinement ==
  ASSUME ~KillMayFail
  PROVE  Spec => Supervises
<1>1. IndInv /\ [Next]_vars => [S!Next]_(S!vars)
  <2>1. ASSUME IndInv, Next PROVE [S!Next]_(S!vars)
    BY <2>1, StepRefines DEF Same, S!vars, PhaseOf, AbruptOf
  <2>2. ASSUME UNCHANGED vars PROVE UNCHANGED S!vars
    <3>1. Same
      BY <2>2, QuietStep DEF vars
    <3> QED  BY <3>1 DEF Same, S!vars, PhaseOf, AbruptOf
  <2> QED  BY <2>1, <2>2
<1> QED
  BY <1>1, InitRefines, Invariance, PTL DEF Spec, Supervises, S!Spec
=============================================================================
