------------------------- MODULE LifecycleRefines --------------------------
(***************************************************************************)
(* Lifecycle implements Session. The mapping reads the phase of a session  *)
(* from the cell, should_run and the threads inside start() and stop(); it *)
(* is a function of the state only where no second thread shares a manager *)
(* that has not started (FreshInv), where stop() keeps should_run clear    *)
(* (StopInv) and where threads hold managers that exist (BoundInv).        *)
(*                                                                         *)
(* On the same invariants rest three promises about the children. Nobody   *)
(* is left behind: whoever lives untold is in a slot, a local or a         *)
(* thread's hands (Tracked), and stop() leaves those empty (SlotsInv).     *)
(* Nobody is told too soon: a signal comes from a stop() of the child's    *)
(* own session, or from the exit of the monitor that this stop() asked for *)
(* (TiedOwn). And there is one trace-agent, if one thread starts and stops *)
(* the sessions: all are known (AllKnown), in one place of one manager     *)
(* (OnePlace).                                                             *)
(***************************************************************************)
EXTENDS LifecycleProofs

\* Threads hold managers that initialize() has created.
BoundInv == \A c \in Controllers : mgr[c] <= cell
\* stop() runs with should_run clear.
StopInv == \A c \in Controllers : Stopping(c) => ~shouldRun[mgr[c]]
\* A manager on which start() has not begun is known to its creator only.
FreshInv == \A c, d \in Controllers : pc[d] = "start" /\ c # d => mgr[c] # mgr[d]

\* The invariant behind the refinement.
RInv == IInv /\ BoundInv /\ StopInv /\ FreshInv

\* A step keeps BoundInv and FreshInv: only the creator of a manager knows it before start().
LEMMA BoundNext == ASSUME RInv, Next PROVE BoundInv' /\ FreshInv'
<1>1. /\ TypeInv /\ Controllers \subseteq Callers
      /\ cell \in Nat /\ cell' \in Nat /\ \A t \in Callers : mgr[t] \in Nat
  BY TypeNext, BoundsAssumption DEF RInv, IInv, TypeInv, TypeOK, GlobalsOK, ThreadsOK, Callers
<1>2. BoundInv'
  BY <1>1, CallerMoves DEF RInv, BoundInv, Enters, GoesOn, Returns
<1>3. ASSUME NEW c \in Controllers, NEW d \in Controllers, c # d, pc'[d] = "start"
      PROVE  mgr'[c] # mgr'[d]
  <2>1. CASE GoesOn(d)
    <3>1. pc[d] = "start" /\ mgr'[d] = mgr[d] /\ mgr[d] \in Managers
      BY <1>1, <1>3, <2>1 DEF GoesOn, TypeInv, MgrOK
    <3>2. cellLock = d /\ d # None
      BY <1>1, <3>1, NoneAssumption DEF RInv, IInv, CellInv, StartPcs
    <3>3. ~Enters(c)
      BY <3>2 DEF Enters
    <3>4. mgr[c] # mgr[d] /\ mgr[d] # 0
      BY <1>3, <3>1 DEF RInv, FreshInv, Managers
    <3> QED BY <1>1, <3>1, <3>3, <3>4, CallerMoves DEF GoesOn, Returns
  <2>2. CASE Enters(d)
    <3>1. mgr'[d] > cell /\ ~GoesOn(d)
      BY <1>1, <1>3, <2>2 DEF Enters, GoesOn
    <3>2. mgr'[c] = mgr[c] /\ mgr[c] <= cell
      BY <1>1, <1>3, <3>1, CallerMoves DEF GoesOn, RInv, BoundInv
    <3> QED BY <1>1, <3>1, <3>2
  <2>3. ~Returns(d)
    BY <1>3 DEF Returns
  <2> QED BY <1>1, <2>1, <2>2, <2>3, CallerMoves
<1> QED BY <1>2, <1>3 DEF FreshInv

\* A step keeps StopInv: should_run stays false for as long as stop() is at work.
LEMMA StopNext == ASSUME RInv, Next PROVE StopInv'
<1> USE DEF RInv, IInv
<1>1. /\ pc \in [Callers -> {"idle", "gone"} \cup StartPcs \cup StopPcs \cup ProxyPcs]
      /\ mgr \in [Callers -> 0..MaxManagers] /\ MgrOK
      /\ shouldRun \in [Managers -> BOOLEAN]
      /\ startStop \in [Managers -> Controllers \cup {None}]
      /\ None \notin Controllers /\ cell \in 0..MaxManagers
      /\ mon \in [Managers -> MonPcs]
  BY NoneAssumption DEF TypeInv, TypeOK, ThreadsOK, ManagersOK, GlobalsOK, MonitorsOK, Callers
<1>2. ASSUME NEW c \in Controllers, InitializeCall(c) PROVE StopInv'
  BY <1>1, <1>2, BoundsAssumption DEF InitializeCall, StartPcs, StopPcs, Goto, managers,
     Callers, LockCell, Running, StopInv, BoundInv, LockInv, OneActive, RunInv, CellInv, Starting,
     Stopping, MgrOK, Managers
<1>3. ASSUME NEW c \in Controllers, StopCall(c) PROVE StopInv'
  BY <1>1, <1>3, BoundsAssumption DEF StopCall, StartPcs, StopPcs, Goto, globals, managers,
     Callers, StopInv, BoundInv, LockInv, OneActive, RunInv, CellInv, Starting, Stopping, MgrOK,
     Managers
<1>4. ASSUME NEW c \in Controllers, StartBegin(c) PROVE StopInv'
  BY <1>1, <1>4, BoundsAssumption DEF StartBegin, StartPcs, StopPcs, Goto, Callers, StopInv,
     BoundInv, LockInv, OneActive, RunInv, CellInv, Starting, Stopping, MgrOK, Managers
<1>5. ASSUME NEW c \in Controllers, StartTick(c) PROVE StopInv'
  BY <1>1, <1>5, BoundsAssumption DEF StartTick, StartPcs, StopPcs, Goto, Advance, globals,
     Callers, StopInv, BoundInv, LockInv, OneActive, RunInv, CellInv, Starting, Stopping, MgrOK,
     Managers
<1>6. ASSUME NEW c \in Controllers, StartSpawn(c) PROVE StopInv'
  BY <1>1, <1>6, BoundsAssumption DEF StartSpawn, StartPcs, StopPcs, Goto, globals, managers,
     Callers, StopInv, BoundInv, LockInv, OneActive, RunInv, CellInv, Starting, Stopping, MgrOK,
     Managers
<1>7. ASSUME NEW c \in Controllers, StartSpawnFails(c) PROVE StopInv'
  BY <1>1, <1>7, BoundsAssumption DEF StartSpawnFails, StartPcs, StopPcs, Goto, Advance,
     globals, Callers, StopInv, BoundInv, LockInv, OneActive, RunInv, CellInv, Starting, Stopping,
     MgrOK, Managers
<1>8. ASSUME NEW c \in Controllers, StartCommit(c) PROVE StopInv'
  BY <1>1, <1>8, BoundsAssumption DEF StartCommit, StartPcs, StopPcs, Goto, Advance, globals,
     Callers, StopInv, BoundInv, LockInv, OneActive, RunInv, CellInv, Starting, Stopping, MgrOK,
     Managers
<1>9. ASSUME NEW c \in Controllers, StartMonitor(c) PROVE StopInv'
  BY <1>1, <1>9, BoundsAssumption DEF StartMonitor, StartPcs, StopPcs, Goto, Return, Callers,
     StopInv, BoundInv, LockInv, OneActive, RunInv, CellInv, Starting, Stopping, MgrOK, Managers
<1>10. ASSUME NEW c \in Controllers, StartMonitorPanics(c) PROVE StopInv'
  BY <1>1, <1>10, BoundsAssumption DEF StartMonitorPanics, StartPcs, StopPcs, Goto, Return,
     Callers, StopInv, BoundInv, LockInv, OneActive, RunInv, CellInv, Starting, Stopping, MgrOK,
     Managers
<1>11. ASSUME NEW c \in Controllers, StopSwap(c) PROVE StopInv'
  <2>1. CASE shouldRun[mgr[c]]
    BY <1>1, <1>11, <2>1 DEF StopSwap, Goto, Callers, ClearShouldRun, StopInv, Stopping, MgrOK,
       StopPcs
  <2>2. CASE ~shouldRun[mgr[c]]
    BY <1>1, <1>11, <2>2 DEF StopSwap, Goto, Return, Callers, ClearShouldRun, StopInv, Stopping,
       MgrOK, StopPcs
  <2> QED BY <2>1, <2>2
<1>12. ASSUME NEW c \in Controllers, StopNotify(c) PROVE StopInv'
  BY <1>1, <1>12, BoundsAssumption DEF StopNotify, StartPcs, StopPcs, Goto, globals, managers,
     Callers, StopInv, BoundInv, LockInv, OneActive, RunInv, CellInv, Starting, Stopping, MgrOK,
     Managers
<1>13. ASSUME NEW c \in Controllers, StopJoin(c) PROVE StopInv'
  BY <1>1, <1>13, BoundsAssumption DEF StopJoin, StartPcs, StopPcs, Goto, globals, managers,
     Callers, Joined, StopInv, BoundInv, LockInv, OneActive, RunInv, CellInv, Starting, Stopping,
     MgrOK, Managers
<1>14. ASSUME NEW c \in Controllers, KillBegin(c) PROVE StopInv'
  BY <1>1, <1>14, BoundsAssumption DEF KillBegin, StartPcs, StopPcs, Goto, Advance, globals,
     Callers, StopInv, BoundInv, LockInv, OneActive, RunInv, CellInv, Starting, Stopping, MgrOK,
     Managers
<1>15. ASSUME NEW c \in Controllers, KillEnd(c) PROVE StopInv'
  BY <1>1, <1>15, BoundsAssumption DEF KillEnd, StartPcs, StopPcs, Goto, Advance, globals,
     managers, Callers, StopInv, BoundInv, LockInv, OneActive, RunInv, CellInv, Starting, Stopping,
     MgrOK, Managers
<1>16. ASSUME NEW c \in Controllers, StopClear(c) PROVE StopInv'
  BY <1>1, <1>16, BoundsAssumption DEF StopClear, StartPcs, StopPcs, Goto, managers, Callers,
     StopInv, BoundInv, LockInv, OneActive, RunInv, CellInv, Starting, Stopping, MgrOK, Managers
<1>17. ASSUME NEW c \in Controllers, StopReset(c) PROVE StopInv'
  BY <1>1, <1>17, BoundsAssumption DEF StopReset, StartPcs, StopPcs, Goto, Return, globals,
     Callers, StopInv, BoundInv, LockInv, OneActive, RunInv, CellInv, Starting, Stopping, MgrOK,
     Managers
<1>18. ASSUME NEW q \in Proxies, ProxyGet(q) \/ ProxyStep(q) PROVE StopInv'
  BY <1>18, ProxyFrame DEF StopInv, BoundInv, LockInv, OneActive, RunInv, CellInv, Starting,
     Stopping, MgrOK, Managers
<1>19. ASSUME NEW m \in Managers, MonStep(m) PROVE StopInv'
  BY <1>19, MonFrame DEF StopInv, BoundInv, LockInv, OneActive, RunInv, CellInv, Starting,
     Stopping, MgrOK, Managers
<1>20. ASSUME Environment PROVE StopInv'
  BY <1>20, EnvironmentFrame DEF StopInv, BoundInv, LockInv, OneActive, RunInv, CellInv,
     Starting, Stopping, MgrOK, Managers, StartPcs, StopPcs
<1> QED BY <1>2, <1>3, <1>4, <1>5, <1>6, <1>7, <1>8, <1>9, <1>10, <1>11, <1>12, <1>13, <1>14,
   <1>15, <1>16, <1>17, <1>18, <1>19, <1>20 DEF Next, StartStep, StopStep

\* The invariant behind the refinement holds initially.
LEMMA RInvInit == Init => RInv
<1>1. Init => BoundInv /\ StopInv /\ FreshInv
  BY DEF Init, BoundInv, StopInv, FreshInv, Stopping, StopPcs, Callers
<1> QED BY <1>1, IInvInit DEF RInv

\* The invariant behind the refinement is inductive.
LEMMA RInvNext == RInv /\ [Next]_vars => RInv'
<1> SUFFICES ASSUME RInv, [Next]_vars PROVE RInv'
  OBVIOUS
<1>1. IInv'
  BY IInvNext DEF RInv
<1>2. CASE Next
  BY <1>1, <1>2, BoundNext, StopNext DEF RInv
<1>3. CASE UNCHANGED vars
  BY <1>1, <1>3 DEF RInv, vars, globals, managers, threads, BoundInv, StopInv, FreshInv,
     Stopping
<1> QED BY <1>2, <1>3

\* The invariant behind the refinement always holds.
LEMMA RInvAlways == Spec => []RInv
BY RInvInit, RInvNext, PTL DEF Spec

\* One session changes its phase, the others do not.
LEMMA PhaseMove ==
  ASSUME NEW s \in Managers, NEW v, Phase(s)' = v,
         \A k \in Managers : k # s => Phase(k)' = Phase(k)
  PROVE  SessionPhase' = [SessionPhase EXCEPT ![s] = v]
BY DEF SessionPhase

\* No session changes its phase if nothing its phase is read from changes.
LEMMA PhaseSame ==
  ASSUME UNCHANGED <<cell, shouldRun>>,
         \A k \in Managers : Draining(k)' <=> Draining(k),
         \A k \in Managers : Pending(k)' <=> Pending(k)
  PROVE  SessionPhase' = SessionPhase
BY DEF SessionPhase, Phase

\* Whether m is pending depends only on the controllers about to enter start().
LEMMA PendingSame ==
  ASSUME NEW c \in Controllers,
         \A d \in Controllers \ {c} : pc'[d] = pc[d] /\ mgr'[d] = mgr[d]
  PROVE  /\ \A k : k # mgr[c] /\ Pending(k) => Pending(k)'
         /\ \A k : k # mgr'[c] /\ Pending(k)' => Pending(k)
         /\ pc[c] # "start" => \A k : Pending(k) => Pending(k)'
         /\ pc'[c] # "start" => \A k : Pending(k)' => Pending(k)
BY DEF Pending

\* The processes of every session are the same if no pid is freed, taken or moved.
LEMMA ProcsSame ==
  ASSUME \A p \in Pids : /\ proc'[p].st = "free" <=> proc[p].st = "free"
                         /\ proc'[p].by = proc[p].by
  PROVE  SessionProcs' = SessionProcs
BY DEF SessionProcs

\* Collecting a process is a Reap step of Session, or a stutter if there was none.
LEMMA FreeProc ==
  ASSUME TypeInv, NEW p, proc' = [proc EXCEPT ![p] = NoProc], SessionPhase' = SessionPhase
  PROVE  [Abstract!Next]_(Abstract!vars)
<1>1. CASE p \in Pids /\ proc[p].st # "free" /\ proc[p].by \in Managers
  <2> DEFINE m == proc[p].by
  <2>1. \A q \in Pids : q # p => proc'[q] = proc[q]
    BY DEF TypeInv, TypeOK, SystemOK
  <2>2. proc'[p].st = "free"
    BY <1>1 DEF TypeInv, TypeOK, SystemOK, NoProc
  <2>3. p \in SessionProcs[m]
    BY <1>1 DEF SessionProcs
  <2>4. \A k \in Managers :
          SessionProcs'[k] = IF k = m THEN SessionProcs[k] \ {p} ELSE SessionProcs[k]
    BY <1>1, <2>1, <2>2 DEF SessionProcs
  <2>5. SessionProcs' = [SessionProcs EXCEPT ![m] = @ \ {p}]
    <3>1. /\ SessionProcs = [k \in Managers |-> SessionProcs[k]]
          /\ SessionProcs' = [k \in Managers |-> SessionProcs'[k]]
      BY DEF SessionProcs
    <3>2. SessionProcs' = [k \in Managers |->
                             IF k = m THEN SessionProcs[k] \ {p} ELSE SessionProcs[k]]
      BY <2>4, <3>1
    <3> QED BY <1>1, <3>1, <3>2
  <2>6. Abstract!Reap(m, p)
    BY <2>3, <2>5 DEF Abstract!Reap
  <2> QED BY <1>1, <2>6 DEF Abstract!Next
<1>2. CASE ~(p \in Pids /\ proc[p].st # "free" /\ proc[p].by \in Managers)
  <2>1. \A q \in Pids : q # p => proc'[q] = proc[q]
    BY DEF TypeInv, TypeOK, SystemOK
  <2>2. p \in Pids => proc'[p].st = "free"
    BY DEF TypeInv, TypeOK, SystemOK, NoProc
  <2>3. SessionProcs' = SessionProcs
    BY <1>2, <2>1, <2>2 DEF SessionProcs
  <2> QED BY <2>3 DEF Abstract!vars
<1> QED BY <1>1, <1>2

\* These steps neither begin nor end at the entry of start().
LEMMA QuietStarts ==
  ASSUME TypeInv, NEW c \in Controllers,
         \/ StopCall(c) \/ StartTick(c) \/ StartSpawn(c) \/ StartSpawnFails(c)
         \/ StartCommit(c) \/ StartMonitor(c) \/ StartMonitorPanics(c) \/ StopStep(c)
  PROVE  pc[c] # "start" /\ pc'[c] # "start"
<1> USE DEF TypeInv, TypeOK, ThreadsOK, Callers, Goto, Return, Advance
<1>1. CASE StopCall(c)
  BY <1>1 DEF StopCall
<1>2. CASE StopStep(c)
  BY <1>2 DEF StopStep, StopSwap, StopNotify, StopJoin, KillBegin, KillEnd, StopClear, StopReset
<1>3. CASE \/ StartTick(c) \/ StartSpawn(c) \/ StartSpawnFails(c)
           \/ StartCommit(c) \/ StartMonitor(c) \/ StartMonitorPanics(c)
  BY <1>3 DEF StartTick, StartSpawn, StartSpawnFails, StartCommit, StartMonitor,
              StartMonitorPanics
<1> QED BY <1>1, <1>2, <1>3

\* These steps of a controller change the phase of no session.
LEMMA ControllerQuiet ==
  ASSUME TypeInv, NEW c \in Controllers,
         \/ StopCall(c) \/ StartTick(c) \/ StartSpawn(c) \/ StartSpawnFails(c)
         \/ StartCommit(c) \/ StartMonitor(c) \/ StartMonitorPanics(c)
         \/ KillBegin(c) \/ KillEnd(c) \/ StopClear(c) \/ StopReset(c)
  PROVE  SessionPhase' = SessionPhase
<1>1. \A k \in Managers : Draining(k)' <=> Draining(k)
  BY OthersKept, DrainingSame, QuietSteps DEF StartStep, StopStep
<1>2. \A k \in Managers : Pending(k)' <=> Pending(k)
  BY OthersKept, PendingSame, QuietStarts DEF StartStep, StopStep
<1>3. UNCHANGED <<cell, shouldRun>>
  BY DEF StopCall, StartTick, StartSpawn, StartSpawnFails, StartCommit, StartMonitor,
         StartMonitorPanics, KillBegin, KillEnd, StopClear, StopReset, globals, managers
<1> QED BY <1>1, <1>2, <1>3, PhaseSame

\* Neither proxies, nor monitors, nor the environment change the phase of a session.
LEMMA OthersQuiet ==
  ASSUME TypeInv,
         \/ \E q \in Proxies : ProxyGet(q) \/ ProxyStep(q)
         \/ \E m \in Managers : MonStep(m)
         \/ Environment
  PROVE  SessionPhase' = SessionPhase
<1>1. CASE \E q \in Proxies : ProxyGet(q) \/ ProxyStep(q)
  BY <1>1, ProxyFrame, PhaseSame DEF Draining, Pending
<1>2. CASE \E m \in Managers : MonStep(m)
  BY <1>2, MonFrame, PhaseSame DEF Draining, Pending
<1>3. CASE Environment
  BY <1>3, EnvironmentFrame, PhaseSame DEF Draining, Pending
<1> QED BY <1>1, <1>2, <1>3

\* A launch for a session that is active or draining is a Spawn step of Session.
LEMMA SpawnMaps ==
  ASSUME TypeInv, NEW t, NEW m \in Managers, NEW n, NEW p \in Pids, Launch(t, m, n, p),
         Phase(m) \in {"active", "draining"}, SessionPhase' = SessionPhase
  PROVE  [Abstract!Next]_(Abstract!vars)
<1>1. \A q \in Pids : q # p => proc'[q] = proc[q]
  BY DEF Launch, TypeInv, TypeOK, SystemOK
<1>2. proc'[p].by = m /\ proc'[p].st # "free" /\ proc[p].st = "free"
  BY DEF Launch, TypeInv, TypeOK, SystemOK
<1>3. SessionProcs' = [SessionProcs EXCEPT ![m] = @ \cup {p}]
  BY <1>1, <1>2 DEF SessionProcs
<1>4. \A k \in Managers : p \notin SessionProcs[k]
  BY <1>2 DEF SessionProcs
<1>5. Abstract!Spawn(m, p)
  BY <1>3, <1>4 DEF Abstract!Spawn, SessionPhase
<1> QED BY <1>5 DEF Abstract!Next

\* Collecting a dead child from its slot is a Reap step of Session, or a stutter.
LEMMA ReapMaps ==
  ASSUME TypeInv, NEW m \in Managers, NEW n \in Names, ReapSlot(m, n),
         SessionPhase' = SessionPhase
  PROVE  [Abstract!Next]_(Abstract!vars)
<1>1. CASE Exited(m, n)
  BY <1>1, FreeProc DEF ReapSlot
<1>2. CASE ~Exited(m, n)
  BY <1>2 DEF ReapSlot, Abstract!vars, SessionProcs
<1> QED BY <1>1, <1>2

\* Every step of initialize() and start() is a step of Session or a stutter: StartBegin
\* opens the session, StartSpawn spawns, StartTick may reap.
LEMMA StartMaps ==
  ASSUME RInv, NEW c \in Controllers, InitializeCall(c) \/ StopCall(c) \/ StartStep(c)
  PROVE  [Abstract!Next]_(Abstract!vars)
<1> USE DEF RInv, IInv
<1>1. CASE InitializeCall(c)
  <2>1. proc' = proc /\ shouldRun' = shouldRun /\ cell' = cell + 1 /\ cell \in 0..MaxManagers
    BY <1>1 DEF InitializeCall, system, managers, TypeInv, TypeOK, GlobalsOK
  <2>2. pc[c] # "start" /\ mgr'[c] = cell + 1 /\ pc'[c] = "start"
    BY <1>1 DEF InitializeCall, Goto, TypeInv, TypeOK, ThreadsOK, Callers
  <2>3. \A k \in Managers : Draining(k)' <=> Draining(k)
    BY <1>1, OthersKept, DrainingSame, QuietSteps
  <2>4. \A k \in Managers : k # cell + 1 => (Pending(k)' <=> Pending(k))
    BY <1>1, <2>2, OthersKept, PendingSame
  <2>5. \A k \in Managers : k = cell + 1 => Pending(k)'
    BY <2>2 DEF Pending
  <2>6. \A k \in Managers : Phase(k)' = Phase(k)
    <3> SUFFICES ASSUME NEW k \in Managers PROVE Phase(k)' = Phase(k)
      OBVIOUS
    <3>1. CASE k = cell + 1
      <4>1. k > cell
        BY <2>1, <3>1
      <4> QED BY <3>1, <4>1, <2>5 DEF Phase
    <3>2. CASE k # cell + 1
      <4>1. k > cell' <=> k > cell
        BY <2>1, <3>2, BoundsAssumption DEF Managers
      <4> QED BY <3>2, <4>1, <2>1, <2>3, <2>4 DEF Phase
    <3> QED BY <3>1, <3>2
  <2> QED BY <2>1, <2>6 DEF SessionPhase, SessionProcs, Abstract!vars
<1>2. CASE StartBegin(c)
  <2>1. PICK m \in Managers : m = mgr[c]
    BY <1>2 DEF StartBegin, TypeInv, MgrOK, Callers
  <2>2. proc' = proc /\ cell' = cell /\ m = cell /\ mgr'[c] = m /\ pc[c] = "start"
    BY <1>2, <2>1 DEF StartBegin, system, CellInv, StartPcs
  <2>3. pc'[c] = "tick"
    BY <1>2 DEF StartBegin, Goto, TypeInv, TypeOK, ThreadsOK, Callers
  <2>4. shouldRun'[m] /\ \A k \in Managers : k # m => shouldRun'[k] = shouldRun[k]
    BY <1>2, <2>1 DEF StartBegin, TypeInv, TypeOK, ManagersOK
  <2>5. \A k \in Managers : Draining(k)' <=> Draining(k)
    BY <1>2, OthersKept, DrainingSame, QuietSteps DEF StartStep
  <2>6. \A k \in Managers : k # m => (Pending(k)' <=> Pending(k))
    BY <1>2, <2>1, <2>2, <2>3, OthersKept, PendingSame DEF StartStep
  <2>7. Pending(m) /\ ~Pending(m)'
    <3>1. Pending(m)
      BY <2>1, <2>2 DEF Pending
    <3>2. \A d \in Controllers : d # c => ~(mgr'[d] = m /\ pc'[d] = "start")
      BY <1>2, <2>1, <2>2, OthersKept DEF FreshInv, StartStep
    <3> QED BY <3>1, <3>2, <2>3 DEF Pending
  <2>8. m \in 0..MaxManagers /\ ~(m > m)
    BY BoundsAssumption DEF Managers
  <2>9. Phase(m) = "unborn" /\ Phase(m)' = "active"
    BY <2>2, <2>4, <2>7, <2>8 DEF Phase
  <2>10. \A k \in Managers : k # m => Phase(k)' = Phase(k)
    BY <2>2, <2>4, <2>5, <2>6 DEF Phase
  <2>11. \A k \in Managers : Phase(k) # "active"
    BY <2>2, <2>9 DEF Phase, OneActive
  <2>12. SessionPhase' = [SessionPhase EXCEPT ![m] = "active"]
    BY <2>9, <2>10, PhaseMove
  <2>13. Abstract!Open(m)
    BY <2>2, <2>9, <2>11, <2>12 DEF Abstract!Open, SessionPhase, SessionProcs
  <2> QED BY <2>13 DEF Abstract!Next
<1>3. CASE StartTick(c)
  <2>1. mgr[c] \in Managers /\ turn[c] \in Names
    BY <1>3 DEF StartTick, TypeInv, MgrOK, TypeOK, ThreadsOK, Callers
  <2> QED BY <1>3, <2>1, ControllerQuiet, ReapMaps DEF StartTick
<1>4. CASE StartSpawn(c)
  <2>1. PICK m \in Managers : m = mgr[c]
    BY <1>4 DEF StartSpawn, TypeInv, MgrOK, Callers
  <2>2. shouldRun[m] /\ m = cell
    BY <1>4, <2>1 DEF StartSpawn, RunInv, Starting, StartPcs, OneActive
  <2>3. ~Pending(m)
    BY <2>2 DEF Pending, RunInv
  <2>4. m \in 0..MaxManagers /\ ~(m > m)
    BY BoundsAssumption DEF Managers
  <2>5. Phase(m) = "active"
    BY <2>2, <2>3, <2>4 DEF Phase
  <2> QED BY <1>4, <2>1, <2>5, ControllerQuiet, SpawnMaps DEF StartSpawn
<1>5. CASE \/ StopCall(c) \/ StartSpawnFails(c) \/ StartCommit(c)
           \/ StartMonitor(c) \/ StartMonitorPanics(c)
  <2>1. proc' = proc
    BY <1>5 DEF StopCall, StartSpawnFails, StartCommit, StartMonitor, StartMonitorPanics, system
  <2>2. SessionPhase' = SessionPhase
    BY <1>5, ControllerQuiet
  <2> QED BY <2>1, <2>2 DEF SessionProcs, Abstract!vars
<1> QED BY <1>1, <1>2, <1>3, <1>4, <1>5 DEF StartStep

\* The step by which stop() leaves the join (or finds no thread to join) is a Close step.
LEMMA JoinMaps ==
  ASSUME RInv, NEW c \in Controllers, NEW m \in Managers, m = mgr[c], mgr' = mgr,
         pc[c] \in {"notify", "join"}, pc' = [pc EXCEPT ![c] = "kill"],
         UNCHANGED <<cell, shouldRun, proc>>
  PROVE  [Abstract!Next]_(Abstract!vars)
<1> USE DEF RInv, IInv
<1>1. Stopping(c) /\ pc'[c] = "kill" /\ \A d \in Controllers : d # c => pc'[d] = pc[d]
  BY DEF Stopping, StopPcs, TypeInv, TypeOK, ThreadsOK, Callers
<1>2. \A d \in Controllers : d # c => ~(mgr[d] = m /\ pc[d] \in {"notify", "join"})
  BY <1>1 DEF LockInv, Stopping, StopPcs
<1>3. Draining(m) /\ ~Draining(m)'
  BY <1>1, <1>2 DEF Draining
<1>4. \A k \in Managers : k # m => (Draining(k)' <=> Draining(k))
  BY <1>1 DEF Draining
<1>5. \A k \in Managers : Pending(k)' <=> Pending(k)
  BY <1>1 DEF Pending
<1>6. ~Pending(m)
  BY DEF Pending, FreshInv
<1>7. ~shouldRun[m]
  BY <1>1 DEF StopInv
<1>8. ~(m > cell)
  BY BoundsAssumption DEF BoundInv, Managers, TypeInv, TypeOK, GlobalsOK
<1>9. Phase(m) = "draining" /\ Phase(m)' = "closed"
  BY <1>3, <1>5, <1>6, <1>7, <1>8 DEF Phase
<1>10. \A k \in Managers : k # m => Phase(k)' = Phase(k)
  BY <1>4, <1>5 DEF Phase
<1>11. SessionPhase' = [SessionPhase EXCEPT ![m] = "closed"]
  BY <1>9, <1>10, PhaseMove
<1>12. Abstract!Close(m)
  BY <1>9, <1>11 DEF Abstract!Close, SessionPhase, SessionProcs
<1> QED BY <1>12 DEF Abstract!Next

\* Every step of stop() is a step of Session or a stutter: StopSwap drains, the join
\* closes, KillEnd reaps.
LEMMA StopMaps ==
  ASSUME RInv, NEW c \in Controllers, StopStep(c)
  PROVE  [Abstract!Next]_(Abstract!vars)
<1> USE DEF RInv, IInv
<1>1. CASE StopSwap(c)
  <2>1. PICK m \in Managers : m = mgr[c]
    BY <1>1 DEF StopSwap, TypeInv, MgrOK, Callers, StopPcs
  <2>2. proc' = proc /\ cell' = cell /\ pc[c] = "stop"
        /\ shouldRun' = [shouldRun EXCEPT ![m] = FALSE]
    BY <1>1, <2>1 DEF StopSwap, system, globals, ClearShouldRun
  <2>3. \A k \in Managers : Pending(k)' <=> Pending(k)
    BY <1>1, OthersKept, PendingSame, QuietStarts
  <2>4. CASE shouldRun[m]
    <3>1. mgr' = mgr /\ pc'[c] = "notify" /\ \A d \in Controllers : d # c => pc'[d] = pc[d]
      BY <1>1, <2>1, <2>4 DEF StopSwap, Goto, TypeInv, TypeOK, ThreadsOK, Callers
    <3>2. m = cell /\ ~Pending(m) /\ ~(m > m)
      BY <2>4, BoundsAssumption DEF OneActive, RunInv, Pending, Managers
    <3>3. Draining(m)'
      BY <2>1, <3>1 DEF Draining
    <3>4. \A k \in Managers : k # m => (Draining(k)' <=> Draining(k))
      BY <2>1, <2>2, <3>1 DEF Draining
    <3>5. ~shouldRun'[m] /\ \A k \in Managers : k # m => shouldRun'[k] = shouldRun[k]
      BY <2>2 DEF TypeInv, TypeOK, ManagersOK
    <3>6. Phase(m) = "active" /\ Phase(m)' = "draining"
      BY <2>2, <2>3, <2>4, <3>2, <3>3, <3>5 DEF Phase
    <3>7. \A k \in Managers : k # m => Phase(k)' = Phase(k)
      BY <2>2, <2>3, <3>4, <3>5 DEF Phase
    <3>8. SessionPhase' = [SessionPhase EXCEPT ![m] = "draining"]
      BY <3>6, <3>7, PhaseMove
    <3>9. Abstract!Drain(m)
      BY <2>2, <3>6, <3>8 DEF Abstract!Drain, SessionPhase, SessionProcs
    <3> QED BY <3>9 DEF Abstract!Next
  <2>5. CASE ~shouldRun[m]
    <3>1. shouldRun' = shouldRun
      BY <2>2, <2>5 DEF TypeInv, TypeOK, ManagersOK
    <3>2. pc'[c] = "idle" /\ \A d \in Controllers : d # c => pc'[d] = pc[d] /\ mgr'[d] = mgr[d]
      BY <1>1, <2>1, <2>5 DEF StopSwap, Goto, Return, TypeInv, TypeOK, ThreadsOK, Callers
    <3>3. \A k \in Managers : Draining(k)' <=> Draining(k)
      BY <2>2, <3>2 DEF Draining
    <3> QED BY <2>2, <2>3, <3>1, <3>3, PhaseSame DEF Abstract!vars, SessionProcs
  <2> QED BY <2>4, <2>5
<1>2. CASE StopNotify(c)
  <2>1. PICK m \in Managers : m = mgr[c]
    BY <1>2 DEF StopNotify, TypeInv, MgrOK, Callers, StopPcs
  <2>2. UNCHANGED <<cell, shouldRun, proc, mgr>> /\ pc[c] = "notify"
    BY <1>2 DEF StopNotify, system, globals, managers
  <2>3. CASE mon[m] = "off"
    BY <1>2, <2>1, <2>2, <2>3, JoinMaps DEF StopNotify, Goto
  <2>4. CASE mon[m] # "off"
    <3>1. pc'[c] = "join" /\ \A d \in Controllers : d # c => pc'[d] = pc[d]
      BY <1>2, <2>1, <2>4 DEF StopNotify, Goto, TypeInv, TypeOK, ThreadsOK, Callers
    <3>2. \A k \in Managers : Draining(k)' <=> Draining(k)
      BY <2>2, <3>1 DEF Draining
    <3>3. \A k \in Managers : Pending(k)' <=> Pending(k)
      BY <1>2, OthersKept, PendingSame, QuietStarts
    <3> QED BY <2>2, <3>2, <3>3, PhaseSame DEF Abstract!vars, SessionProcs
  <2> QED BY <2>3, <2>4
<1>3. CASE StopJoin(c)
  <2>1. PICK m \in Managers : m = mgr[c]
    BY <1>3 DEF StopJoin, TypeInv, MgrOK, Callers, StopPcs
  <2> QED BY <1>3, <2>1, JoinMaps DEF StopJoin, Goto, globals, managers, system
<1>4. CASE KillBegin(c)
  <2>1. SessionPhase' = SessionPhase
    BY <1>4, ControllerQuiet
  <2>2. \A p \in Pids : /\ proc'[p].st = "free" <=> proc[p].st = "free"
                        /\ proc'[p].by = proc[p].by
    BY <1>4 DEF KillBegin, TypeInv, TypeOK, SystemOK, ProcRec
  <2> QED BY <2>1, <2>2, ProcsSame DEF Abstract!vars
<1>5. CASE KillEnd(c)
  BY <1>5, ControllerQuiet, FreeProc DEF KillEnd
<1>6. CASE StopClear(c) \/ StopReset(c)
  <2>1. SessionPhase' = SessionPhase /\ proc' = proc
    BY <1>6, ControllerQuiet DEF StopClear, StopReset, system
  <2> QED BY <2>1 DEF SessionProcs, Abstract!vars
<1> QED BY <1>1, <1>2, <1>3, <1>4, <1>5, <1>6 DEF StopStep

\* Every step of the monitor is a step of Session or a stutter: MonSpawn spawns, MonCheck
\* may reap.
LEMMA MonMaps ==
  ASSUME RInv, NEW m \in Managers, MonStep(m)
  PROVE  [Abstract!Next]_(Abstract!vars)
<1> USE DEF RInv, IInv
<1>1. SessionPhase' = SessionPhase
  BY OthersQuiet
<1>2. CASE MonTop(m) \/ MonRecheck(m)
  <2>1. proc' = proc \/ proc' = AfterDeathOf(m)
    BY <1>2 DEF MonTop, MonRecheck, MonExit
  <2>2. SessionProcs' = SessionProcs
    BY <2>1, DeathKeepsFree, ProcsSame
  <2> QED BY <1>1, <2>2 DEF Abstract!vars
<1>3. CASE MonCheck(m)
  <2>1. monTurn[m] \in Names
    BY DEF TypeInv, TypeOK, MonitorsOK
  <2> QED BY <1>1, <1>3, <2>1, ReapMaps DEF MonCheck
<1>4. CASE MonSpawn(m)
  <2>1. shouldRun[m] \/ Draining(m)
    BY <1>4 DEF MonSpawn, MonInv
  <2>2. ~Pending(m)
    BY <2>1 DEF Pending, RunInv, FreshInv, Draining
  <2>3. m \in 0..MaxManagers /\ cell \in 0..MaxManagers /\ (m = cell \/ m <= cell)
    BY <2>1 DEF OneActive, Draining, BoundInv, Managers, TypeInv, TypeOK, GlobalsOK
  <2>4. ~(m > cell)
    BY <2>3, BoundsAssumption
  <2>5. Phase(m) \in {"active", "draining"}
    BY <2>1, <2>2, <2>4 DEF Phase
  <2> QED BY <1>1, <1>4, <2>5, SpawnMaps DEF MonSpawn
<1>5. CASE MonSpawnFails(m) \/ MonUnready(m) \/ MonCommit(m) \/ MonRearm(m) \/ MonWake(m)
  <2>1. proc' = proc
    BY <1>5 DEF MonSpawnFails, MonUnready, MonCommit, MonRearm, MonWake, system
  <2> QED BY <1>1, <2>1 DEF SessionProcs, Abstract!vars
<1> QED BY <1>2, <1>3, <1>4, <1>5 DEF MonStep

\* Every step of the lifecycle core is a step of Session or a stutter.
LEMMA StepMaps == RInv /\ [Next]_vars => [Abstract!Next]_(Abstract!vars)
<1> SUFFICES ASSUME RInv, [Next]_vars PROVE [Abstract!Next]_(Abstract!vars)
  OBVIOUS
<1> USE DEF RInv, IInv
<1>1. ASSUME NEW q \in Proxies, ProxyGet(q) \/ ProxyStep(q)
      PROVE  [Abstract!Next]_(Abstract!vars)
  <2>1. SessionPhase' = SessionPhase /\ proc' = proc
    BY <1>1, OthersQuiet, ProxyFrame
  <2> QED BY <2>1 DEF SessionProcs, Abstract!vars
<1>2. CASE Environment
  <2>1. SessionPhase' = SessionPhase
    BY <1>2, OthersQuiet
  <2>2. CASE \E c \in Mortal : HostThreadExits(c)
    BY <2>1, <2>2, DeathKeepsFree, ProcsSame DEF HostThreadExits, Abstract!vars
  <2>3. CASE \E p \in Pids : ProcServe(p) \/ ProcExit(p)
    <3>1. PICK p \in Pids : ProcServe(p) \/ ProcExit(p)
      BY <2>3
    <3>2. proc[p].st # "free"
      BY <3>1 DEF ProcServe, ProcExit, Alive
    <3>3. \A q \in Pids : /\ proc'[q].st = "free" <=> proc[q].st = "free"
                          /\ proc'[q].by = proc[q].by
      <4>1. \A q \in Pids : q # p => proc'[q] = proc[q]
        BY <3>1 DEF ProcServe, ProcExit, TypeInv, TypeOK, SystemOK
      <4>2. CASE ProcServe(p)
        BY <2>3, <4>1, <4>2, <3>2 DEF ProcServe, TypeInv, TypeOK, SystemOK, ProcRec
      <4>3. CASE ProcExit(p)
        BY <4>1, <4>3, <3>2 DEF ProcExit, TypeInv, TypeOK, SystemOK, ProcRec
      <4> QED BY <3>1, <4>2, <4>3
    <3> QED BY <2>1, <3>3, ProcsSame DEF Abstract!vars
  <2>4. CASE \/ \E m \in Managers, n \in Names : BackoffElapses(m, n)
             \/ \E n \in Foreign : ForeignToggles(n)
    BY <2>1, <2>4 DEF BackoffElapses, ForeignToggles, system, SessionProcs, Abstract!vars
  <2> QED BY <1>2, <2>2, <2>3, <2>4 DEF Environment
<1>3. CASE UNCHANGED vars
  BY <1>3 DEF vars, globals, managers, threads, system, SessionPhase, Phase, Draining, Pending,
              SessionProcs, Abstract!vars
<1> QED BY <1>1, <1>2, <1>3, StartMaps, StopMaps, MonMaps DEF Next

\* The initial states map to initial states.
LEMMA InitMaps == Init => Abstract!Init
BY BoundsAssumption DEF Init, Abstract!Init, SessionPhase, Phase, SessionProcs, NoProc, Managers

\* The lifecycle core implements Session, for every number of threads, sessions and pids:
\* sessions are opened once, drained once and closed once, one is active at a time, and
\* processes are spawned only for a session that is active or draining.
THEOREM Refinement == Spec => ImplementsSession
BY RInvAlways, InitMaps, StepMaps, PTL DEF Spec, ImplementsSession, Abstract!Spec

(***************************************************************************)
(* Nobody is left behind                                                   *)
(***************************************************************************)
\* A thread is at the first child unless it is in one of its two loops over the children.
TurnInv == \A c \in Controllers :
             /\ pc[c] \notin {"tick", "spawn", "commit", "kill", "killing"} => turn[c] = First
             /\ ~AgentEnabled => turn[c] = "trace"
\* Without the agent, nobody ever spawns one.
OnlyTrace == ~AgentEnabled => \A m \in Managers : /\ monTurn[m] = "trace"
                                                  /\ child[m]["agent"] = None
                                                  /\ plan[m]["agent"] \notin Pids
\* An agent that the monitor has spawned is in its locals until it is committed, and no longer.
PlanAt == \A m \in Managers : plan[m]["agent"] \in Pids =>
            \/ mon[m] \in {"recheck", "spawn"} /\ monTurn[m] = "trace"
            \/ mon[m] \in {"unready", "commit"} /\ monTurn[m] = "agent"
\* Whoever spawns or commits a child has found its slot empty, and the slot stays empty.
EmptyInv ==
  /\ \A c \in Controllers : pc[c] \in {"spawn", "commit"} => child[mgr[c]][turn[c]] = None
  /\ \A m \in Managers, n \in Names : /\ mon[m] = "off" => plan[m][n] = "no"
                                      /\ plan[m][n] # "no" => child[m][n] = None
                                      /\ mon[m] = "spawn" /\ monTurn[m] = n => plan[m][n] # "no"
\* stop() leaves behind it the slots it has emptied.
KillInv == \A c \in Controllers :
             /\ pc[c] \in {"kill", "killing"} /\ turn[c] = "trace" => child[mgr[c]]["agent"] = None
             /\ pc[c] = "killing" => child[mgr[c]][turn[c]] = None
\* The slots of a session that is over, or never began, are empty.
ClosedInv == \A m \in Managers : m > cell \/ Closed(m) => \A n \in Names : child[m][n] = None
\* The death signal of what the monitor has in its locals is tied to the monitor's thread.
Tied == \A p \in Pids, m \in Managers, n \in Names :
          plan[m][n] = p /\ Alive(p) => proc[p].thr = m
\* Somebody refers to every process that lives and was not told to terminate.
Tracked == \A p \in Pids : Alive(p) /\ ~proc[p].sig =>
             \/ \E m \in Managers, n \in Names : child[m][n] = p \/ plan[m][n] = p
             \/ \E c \in Controllers : held[c] = p /\ pc[c] = "commit"
\* Slots are empty where they have to be.
SlotsInv == TurnInv /\ OnlyTrace /\ PlanAt /\ EmptyInv /\ KillInv /\ ClosedInv
\* The invariant behind NoOrphans.
OrphanInv == Tied /\ Tracked

\* A step keeps TurnInv.
LEMMA TurnNext == ASSUME TypeInv, TurnInv, Next PROVE TurnInv'
<1>1. ASSUME NEW c \in Controllers,
             InitializeCall(c) \/ StopCall(c) \/ StartStep(c) \/ StopStep(c)
      PROVE  TurnInv'
  <2>1. \A d \in Controllers : d # c => pc'[d] = pc[d] /\ turn'[d] = turn[d]
    BY <1>1, OthersKept, TurnsKept
  <2>2. /\ pc'[c] \notin {"tick", "spawn", "commit", "kill", "killing"} => turn'[c] = First
        /\ ~AgentEnabled => turn'[c] = "trace"
    <3> USE <1>1, SwitchAssumption DEF TypeInv, TypeOK, ThreadsOK, Callers, Names, Goto, Return,
          Advance, TurnInv, First
    <3>1. CASE InitializeCall(c) \/ StopCall(c)
      BY <3>1 DEF InitializeCall, StopCall
    <3>2. CASE StartStep(c)
      BY <3>2 DEF StartStep, StartBegin, StartTick, StartSpawn, StartSpawnFails, StartCommit,
                  StartMonitor, StartMonitorPanics
    <3>3. CASE StopStep(c)
      BY <3>3 DEF StopStep, StopSwap, StopNotify, StopJoin, KillBegin, KillEnd, StopClear,
                  StopReset
    <3> QED BY <3>1, <3>2, <3>3
  <2> QED BY <2>1, <2>2 DEF TurnInv
<1>2. ASSUME NEW q \in Proxies, ProxyGet(q) \/ ProxyStep(q) PROVE TurnInv'
  <2>1. UNCHANGED turn
    BY <1>2 DEF ProxyStep, ProxyGet, ProxyEnter, ProxyLook, ProxyProbe
  <2> QED BY <1>2, <2>1, ProxyFrame DEF TurnInv
<1>3. ASSUME NEW m \in Managers, MonStep(m) PROVE TurnInv'
  <2>1. UNCHANGED turn
    BY <1>3 DEF MonStep, MonTop, MonCheck, MonRecheck, MonSpawn, MonSpawnFails, MonUnready,
       MonCommit, MonRearm, MonWake, threads
  <2> QED BY <1>3, <2>1, MonFrame DEF TurnInv
<1>4. ASSUME Environment PROVE TurnInv'
  <2>1. UNCHANGED turn
    BY <1>4 DEF Environment, ProcServe, ProcExit, BackoffElapses, ForeignToggles,
       HostThreadExits, threads
  <2> QED BY <1>4, <2>1, EnvironmentFrame DEF TurnInv
<1> QED BY <1>1, <1>2, <1>3, <1>4 DEF Next

\* A slot is filled by a commit of start() or of the monitor.
LEMMA SlotFills ==
  ASSUME TypeInv, Next, NEW m \in Managers, NEW n \in Names, child'[m][n] \notin {child[m][n], None}
  PROVE  \/ \E c \in Controllers : /\ StartCommit(c) /\ mgr[c] = m /\ turn[c] = n
                                   /\ child'[m][n] = held[c]
         \/ MonCommit(m) /\ monTurn[m] = n /\ plan[m][n] \in Pids
<1>2. child' # child
  OBVIOUS
<1>1. ASSUME NEW k, NEW l, child' = [child EXCEPT ![k][l] = None] PROVE FALSE
  <2>1. child'[m][n] \in {child[m][n], None}
    BY <1>1 DEF TypeInv, TypeOK, ManagersOK
  <2> QED BY <2>1
<1>3. ASSUME NEW k \in Managers, NEW l \in Names, ReapSlot(k, l) PROVE FALSE
  BY <1>1, <1>2, <1>3 DEF ReapSlot
<1>4. ASSUME NEW c \in Controllers,
             InitializeCall(c) \/ StopCall(c) \/ StartStep(c) \/ StopStep(c)
      PROVE  StartCommit(c) /\ mgr[c] = m /\ turn[c] = n /\ child'[m][n] = held[c]
  <2>1. ~KillBegin(c)
    BY <1>1, <1>2 DEF KillBegin, TakeSlot
  <2>2. ~StartTick(c)
    BY <1>3 DEF StartTick, TypeInv, MgrOK, TypeOK, ThreadsOK, Callers
  <2>3. StartCommit(c)
    BY <1>2, <1>4, <2>1, <2>2 DEF InitializeCall, StopCall, StartStep, StopStep, StartBegin,
       StartSpawn, StartSpawnFails, StartMonitor, StartMonitorPanics, StopSwap, StopNotify,
       StopJoin, KillEnd, StopClear, StopReset, managers
  <2>4. child' = [child EXCEPT ![mgr[c]][turn[c]] = held[c]]
    BY <2>3 DEF StartCommit, FillSlot
  <2>5. mgr[c] = m /\ turn[c] = n
    BY <2>4 DEF TypeInv, TypeOK, ManagersOK
  <2> QED BY <2>3, <2>4, <2>5 DEF TypeInv, TypeOK, ManagersOK
<1>5. ASSUME NEW q \in Proxies, ProxyGet(q) \/ ProxyStep(q) PROVE FALSE
  BY <1>2, <1>5 DEF ProxyStep, ProxyGet, ProxyEnter, ProxyLook, ProxyProbe, managers
<1>6. ASSUME NEW k \in Managers, MonStep(k)
      PROVE  MonCommit(m) /\ monTurn[m] = n /\ plan[m][n] \in Pids
  <2>1. PICK l \in Names : l = monTurn[k]
    BY DEF TypeInv, TypeOK, MonitorsOK
  <2>2. k = m
    BY <1>6, MonOwnOnly
  <2>3. MonCommit(k)
    BY <1>2, <1>3, <1>6, <2>1 DEF MonStep, MonTop, MonCheck, MonRecheck, MonSpawn,
       MonSpawnFails, MonUnready, MonRearm, MonWake, managers
  <2>4. plan[k][l] \in Pids /\ child' = [child EXCEPT ![k][l] = plan[k][l]]
    BY <1>2, <2>1, <2>3 DEF MonCommit, SpawnedOk, FillSlot
  <2>5. l = n
    BY <2>2, <2>4 DEF TypeInv, TypeOK, ManagersOK
  <2> QED BY <2>1, <2>2, <2>3, <2>4, <2>5
<1>7. ASSUME Environment PROVE FALSE
  BY <1>2, <1>7 DEF Environment, ProcServe, ProcExit, BackoffElapses, ForeignToggles,
     HostThreadExits, managers
<1> QED BY <1>4, <1>5, <1>6, <1>7 DEF Next

\* Only the monitor writes its locals.
LEMMA LocalsOwn ==
  ASSUME TypeInv, Next, NEW m \in Managers, ~MonStep(m)
  PROVE  /\ monTurn'[m] = monTurn[m] /\ plan'[m] = plan[m]
         /\ mon'[m] = mon[m] \/ (mon[m] \in {"off", "wait"} /\ mon'[m] = "top")
<1>1. ASSUME NEW c \in Controllers,
             InitializeCall(c) \/ StopCall(c) \/ StartStep(c) \/ StopStep(c)
      PROVE  /\ monTurn'[m] = monTurn[m] /\ plan'[m] = plan[m]
             /\ mon'[m] = mon[m] \/ (mon[m] \in {"off", "wait"} /\ mon'[m] = "top")
  <2> USE DEF TypeInv, TypeOK, MonitorsOK, monitors
  <2>1. CASE InitializeCall(c) \/ StopCall(c)
    BY <2>1 DEF InitializeCall, StopCall
  <2>2. CASE StartStep(c)
    BY <2>2 DEF StartStep, StartBegin, StartTick, StartSpawn, StartSpawnFails, StartCommit,
       StartMonitor, StartMonitorPanics
  <2>3. CASE StopStep(c)
    BY <2>3 DEF StopStep, StopSwap, StopNotify, StopJoin, KillBegin, KillEnd, StopClear,
       StopReset
  <2> QED BY <1>1, <2>1, <2>2, <2>3
<1>2. ASSUME NEW q \in Proxies, ProxyGet(q) \/ ProxyStep(q) PROVE UNCHANGED monitors
  BY <1>2 DEF ProxyStep, ProxyGet, ProxyEnter, ProxyLook, ProxyProbe
<1>3. ASSUME NEW k \in Managers, MonStep(k)
      PROVE  mon'[m] = mon[m] /\ monTurn'[m] = monTurn[m] /\ plan'[m] = plan[m]
  BY <1>3, MonOwnOnly
<1>4. ASSUME Environment PROVE UNCHANGED monitors
  BY <1>4 DEF Environment, ProcServe, ProcExit, BackoffElapses, ForeignToggles, HostThreadExits
<1> QED BY <1>1, <1>2, <1>3, <1>4 DEF Next, monitors

\* A step keeps OnlyTrace.
LEMMA OnlyTraceNext == ASSUME TypeInv, TurnInv, OnlyTrace, Next PROVE OnlyTrace'
<1> SUFFICES ASSUME ~AgentEnabled, NEW m \in Managers
             PROVE  /\ monTurn'[m] = "trace" /\ child'[m]["agent"] = None
                    /\ plan'[m]["agent"] \notin Pids
  BY DEF OnlyTrace
<1>1. monTurn[m] = "trace" /\ child[m]["agent"] = None /\ plan[m]["agent"] \notin Pids
  BY DEF OnlyTrace
<1>2. child'[m]["agent"] = None
  BY <1>1, SlotFills DEF TurnInv, Names
<1>3. CASE ~MonStep(m)
  BY <1>1, <1>2, <1>3, LocalsOwn
<1>4. CASE MonStep(m)
  <2> USE <1>1 DEF TypeInv, TypeOK, MonitorsOK, Names, First
  <2>1. monTurn'[m] = "trace"
    BY <1>4 DEF MonStep, MonTop, MonCheck, MonRecheck, MonSpawn, MonSpawnFails, MonUnready,
       MonCommit, MonRearm, MonWake, MonExit, MonAdvance
  <2>2. plan'[m]["agent"] \notin Pids
    BY <1>4, NoneAssumption DEF MonStep, MonTop, MonCheck, MonRecheck, MonSpawn, MonSpawnFails,
       MonUnready, MonCommit, MonRearm, MonWake, MonExit, Plan, NoPlan
  <2> QED BY <1>2, <2>1, <2>2
<1> QED BY <1>3, <1>4

\* A step keeps PlanAt.
LEMMA PlanAtNext == ASSUME TypeInv, OnlyTrace, PlanAt, Next PROVE PlanAt'
<1> SUFFICES ASSUME NEW m \in Managers, plan'[m]["agent"] \in Pids
             PROVE  \/ mon'[m] \in {"recheck", "spawn"} /\ monTurn'[m] = "trace"
                    \/ mon'[m] \in {"unready", "commit"} /\ monTurn'[m] = "agent"
  BY DEF PlanAt
<1>1. plan[m]["agent"] \in Pids => \/ mon[m] \in {"recheck", "spawn"} /\ monTurn[m] = "trace"
                                   \/ mon[m] \in {"unready", "commit"} /\ monTurn[m] = "agent"
  BY DEF PlanAt
<1>2. CASE ~MonStep(m)
  BY <1>1, <1>2, LocalsOwn
<1>3. CASE MonStep(m)
  <2> USE <1>1 DEF TypeInv, TypeOK, MonitorsOK, Names, First, MonGoto, MonAdvance
  <2>1. ~MonExit(m)
    BY NoneAssumption DEF MonExit, NoPlan
  <2>2. CASE MonTop(m) \/ MonWake(m) \/ MonRearm(m) \/ MonUnready(m)
    BY <2>1, <2>2 DEF MonTop, MonWake, MonRearm, MonUnready
  <2>3. CASE MonCheck(m)
    BY <2>3, NoneAssumption DEF MonCheck, Plan
  <2>4. CASE MonSpawn(m)
    <3>1. monTurn[m] = "agent" \/ (monTurn[m] = "trace" /\ plan[m]["agent"] \in Pids)
      BY <2>4 DEF MonSpawn, Plan
    <3>2. monTurn[m] = "trace" => AgentEnabled
      BY <3>1 DEF OnlyTrace
    <3> QED BY <2>4, <3>1, <3>2 DEF MonSpawn
  <2>5. CASE MonSpawnFails(m)
    <3>1. monTurn[m] = "trace" /\ plan[m]["agent"] \in Pids /\ AgentEnabled
      BY <2>5, NoneAssumption DEF MonSpawnFails, Plan, OnlyTrace
    <3> QED BY <2>5, <3>1 DEF MonSpawnFails
  <2>6. CASE MonCommit(m)
    BY <2>6, NoneAssumption DEF MonCommit, Plan
  <2>7. CASE MonRecheck(m)
    <3>1. plan' = plan
      BY <2>1, <2>7 DEF MonRecheck
    <3>2. mon[m] = "recheck" /\ monTurn[m] = "trace" /\ AgentEnabled
      BY <2>7, <3>1 DEF MonRecheck, OnlyTrace
    <3>3. \/ mon'[m] = "commit" /\ monTurn'[m] = "agent"
          \/ mon'[m] = "spawn" /\ monTurn'[m] = "trace"
      BY <2>1, <2>7, <3>2 DEF MonRecheck
    <3> QED BY <3>3
  <2> QED BY <1>3, <2>2, <2>3, <2>4, <2>5, <2>6, <2>7 DEF MonStep
<1> QED BY <1>2, <1>3

\* A controller moves by its own steps only, unless it is idle and exits.
LEMMA OwnMoves ==
  ASSUME TypeInv, Next, NEW c \in Controllers
  PROVE  \/ InitializeCall(c) \/ StopCall(c) \/ StartStep(c) \/ StopStep(c)
         \/ pc'[c] = pc[c] /\ mgr'[c] = mgr[c] /\ turn'[c] = turn[c]
         \/ pc[c] = "idle" /\ pc'[c] = "gone"
<1>1. ASSUME NEW d \in Controllers, d # c,
             InitializeCall(d) \/ StopCall(d) \/ StartStep(d) \/ StopStep(d)
      PROVE  pc'[c] = pc[c] /\ mgr'[c] = mgr[c] /\ turn'[c] = turn[c]
  BY <1>1, OthersKept, TurnsKept
<1>2. ASSUME NEW q \in Proxies, ProxyGet(q) \/ ProxyStep(q)
      PROVE  pc'[c] = pc[c] /\ mgr'[c] = mgr[c] /\ turn'[c] = turn[c]
  <2>1. UNCHANGED turn
    BY <1>2 DEF ProxyStep, ProxyGet, ProxyEnter, ProxyLook, ProxyProbe
  <2> QED BY <1>2, <2>1, ProxyFrame
<1>3. ASSUME NEW m \in Managers, MonStep(m)
      PROVE  pc'[c] = pc[c] /\ mgr'[c] = mgr[c] /\ turn'[c] = turn[c]
  BY <1>3 DEF MonStep, MonTop, MonCheck, MonRecheck, MonSpawn, MonSpawnFails, MonUnready,
     MonCommit, MonRearm, MonWake, threads
<1>4. ASSUME Environment
      PROVE  \/ pc'[c] = pc[c] /\ mgr'[c] = mgr[c] /\ turn'[c] = turn[c]
             \/ pc[c] = "idle" /\ pc'[c] = "gone"
  <2>1. UNCHANGED turn
    BY <1>4 DEF Environment, ProcServe, ProcExit, BackoffElapses, ForeignToggles,
       HostThreadExits, threads
  <2> QED BY <1>4, <2>1, EnvironmentFrame
<1> QED BY <1>1, <1>2, <1>3, <1>4 DEF Next

\* start_stop_lock admits one thread to a manager.
LEMMA OneInside ==
  ASSUME IInv, NEW c \in Controllers, NEW d \in Controllers, mgr[c] = mgr[d],
         Starting(c) \/ Stopping(c), Starting(d) \/ Stopping(d)
  PROVE  c = d
<1>1. mgr[c] \in Managers
  BY DEF IInv, TypeInv, MgrOK, Callers, Starting, Stopping, StartPcs, StopPcs
<1>2. startStop[mgr[c]] = c /\ startStop[mgr[c]] = d
  BY <1>1 DEF IInv, LockInv
<1> QED BY <1>2

\* Slots are filled while the session runs, or before stop() has joined its monitor.
LEMMA FillsOpen ==
  ASSUME RInv, RdyInv, Next, NEW m \in Managers, NEW n \in Names,
         child'[m][n] \notin {child[m][n], None}
  PROVE  /\ m <= cell /\ UNCHANGED <<cell, shouldRun>>
         /\ shouldRun[m] \/ (Draining(m) /\ Draining(m)')
         /\ \A c \in Controllers : mgr[c] = m => pc[c] \notin {"kill", "killing"}
<1> USE DEF RInv, IInv
<1>1. ASSUME NEW c \in Controllers, StartCommit(c), mgr[c] = m
      PROVE  /\ m <= cell /\ UNCHANGED <<cell, shouldRun>> /\ shouldRun[m]
  BY <1>1 DEF StartCommit, globals, BoundInv, RunInv, Starting, StartPcs
<1>2. ASSUME MonCommit(m)
      PROVE  /\ m <= cell /\ UNCHANGED <<cell, shouldRun>>
             /\ shouldRun[m] \/ (Draining(m) /\ Draining(m)')
  <2>1. UNCHANGED <<cell, shouldRun, pc, mgr>> /\ mon[m] = "commit"
    BY <1>2, MonFrame DEF MonStep, MonCommit
  <2>2. ~(m > cell)
    BY <2>1 DEF RdyInv, TraceInv, MonitorOff
  <2>3. m <= cell
    BY <2>2, BoundsAssumption DEF Managers, TypeInv, TypeOK, GlobalsOK
  <2> QED BY <2>1, <2>3 DEF MonInv, Draining
<1>3. m <= cell /\ UNCHANGED <<cell, shouldRun>> /\ (shouldRun[m] \/ (Draining(m) /\ Draining(m)'))
  BY <1>1, <1>2, SlotFills
<1>4. ASSUME NEW c \in Controllers, mgr[c] = m, pc[c] \in {"kill", "killing"} PROVE FALSE
  <2>1. Stopping(c) /\ ~shouldRun[m]
    BY <1>4 DEF Stopping, StopPcs, StopInv
  <2>2. PICK d \in Controllers : mgr[d] = m /\ pc[d] \in {"notify", "join"}
    BY <1>3, <2>1 DEF Draining
  <2>3. Stopping(d)
    BY <2>2 DEF Stopping, StopPcs
  <2> QED BY <1>4, <2>1, <2>2, <2>3, OneInside
<1> QED BY <1>3, <1>4

\* A step keeps KillInv: nobody fills a slot again that stop() has emptied.
LEMMA KillNext ==
  ASSUME RInv, RdyInv, TurnInv, OnlyTrace, KillInv, Next
  PROVE  KillInv'
<1> USE DEF RInv, IInv
<1> SUFFICES ASSUME NEW c \in Controllers, pc'[c] \in {"kill", "killing"}
             PROVE  /\ turn'[c] = "trace" => child'[mgr'[c]]["agent"] = None
                    /\ pc'[c] = "killing" => child'[mgr'[c]][turn'[c]] = None
  BY DEF KillInv
<1>1. CASE StopStep(c)
  <2> USE DEF TypeInv, TypeOK, ThreadsOK, ManagersOK, Names, Callers
  <2>1. PICK m, n : m = mgr[c] /\ n = turn[c]
    OBVIOUS
  <2>2. /\ m \in Managers /\ n \in Names /\ mgr' = mgr
        /\ KillBegin(c) \/ KillEnd(c) \/ StopNotify(c) \/ StopJoin(c)
    BY <1>1, <2>1 DEF StopStep, StopSwap, StopNotify, StopJoin, KillBegin, KillEnd, StopClear,
       StopReset, MgrOK, Goto, Return
  <2>3. CASE StopNotify(c) \/ StopJoin(c)
    <3>1. pc'[c] = "kill" /\ child' = child /\ turn' = turn /\ turn[c] = First
      BY <2>3 DEF StopNotify, StopJoin, managers, Goto, TurnInv
    <3>2. turn[c] = "trace" => ~AgentEnabled
      BY <3>1 DEF First
    <3> QED BY <2>1, <2>2, <3>1, <3>2 DEF OnlyTrace
  <2>4. CASE KillBegin(c)
    <3>1. CASE child[m][n] = None
      <4>1. child' = child /\ turn[c] = "agent" /\ turn'[c] = "trace" /\ pc'[c] = "kill"
        BY <2>1, <2>4, <3>1 DEF KillBegin, Advance, Goto, First
      <4> QED BY <2>1, <2>2, <3>1, <4>1
    <3>2. CASE child[m][n] # None
      <4>1. /\ child' = [child EXCEPT ![m][n] = None] /\ turn' = turn /\ pc[c] = "kill"
        BY <2>1, <2>4, <3>2 DEF KillBegin, TakeSlot
      <4>2. child'[m][n] = None /\ (n # "agent" => child'[m]["agent"] = child[m]["agent"])
        BY <2>2, <4>1
      <4> QED BY <2>1, <2>2, <4>1, <4>2 DEF KillInv
    <3> QED BY <3>1, <3>2
  <2>5. CASE KillEnd(c)
    <3>1. pc[c] = "killing" /\ child' = child /\ turn[c] = "agent" /\ pc'[c] = "kill"
      BY <2>5 DEF KillEnd, managers, Advance, Goto
    <3> QED BY <2>1, <2>2, <3>1 DEF KillInv
  <2> QED BY <2>2, <2>3, <2>4, <2>5
<1>2. CASE InitializeCall(c) \/ StopCall(c) \/ StartStep(c)
  BY <1>2 DEF InitializeCall, StopCall, StartStep, StartBegin, StartTick, StartSpawn,
     StartSpawnFails, StartCommit, StartMonitor, StartMonitorPanics, Goto, Return, Advance,
     TypeInv, TypeOK, ThreadsOK, Callers
<1>3. CASE pc'[c] = pc[c] /\ mgr'[c] = mgr[c] /\ turn'[c] = turn[c]
  <2>1. mgr[c] \in Managers /\ turn[c] \in Names
    BY <1>3 DEF TypeInv, MgrOK, TypeOK, ThreadsOK, Callers
  <2>2. PICK m, n : m = mgr[c] /\ n = turn[c]
    OBVIOUS
  <2>3. \A l \in Names : child[m][l] = None => child'[m][l] = None
    BY <1>3, <2>1, <2>2, FillsOpen
  <2> QED BY <1>3, <2>1, <2>2, <2>3 DEF KillInv, Names
<1> QED BY <1>1, <1>2, <1>3, OwnMoves

\* The cell never goes back.
LEMMA CellGrows == ASSUME TypeInv, Next PROVE cell' \in Nat /\ cell <= cell'
<1>1. cell \in Nat
  BY BoundsAssumption DEF TypeInv, TypeOK, GlobalsOK
<1>2. ASSUME NEW c \in Controllers,
             InitializeCall(c) \/ StopCall(c) \/ StartStep(c) \/ StopStep(c)
      PROVE  cell' \in {cell, cell + 1}
  BY <1>2 DEF InitializeCall, StopCall, StartStep, StopStep, StartBegin, StartTick, StartSpawn,
     StartSpawnFails, StartCommit, StartMonitor, StartMonitorPanics, StopSwap, StopNotify,
     StopJoin, KillBegin, KillEnd, StopClear, StopReset, globals
<1>3. cell' \in {cell, cell + 1}
  BY <1>2, MonFrame, ProxyFrame, EnvironmentFrame DEF Next
<1> QED BY <1>1, <1>3

\* should_run is cleared by the swap of stop() and by nothing else.
LEMMA RunEnds ==
  ASSUME TypeInv, Next, NEW m \in Managers, shouldRun[m], ~shouldRun'[m]
  PROVE  Draining(m)'
<1> USE DEF TypeInv, TypeOK, ManagersOK
<1>1. \E c \in Controllers : StopSwap(c)
  <2>1. ASSUME NEW c \in Controllers,
               InitializeCall(c) \/ StopCall(c) \/ StartStep(c) \/ StopStep(c)
        PROVE  StopSwap(c)
    <3>1. ~StartBegin(c)
      BY DEF StartBegin
    <3> QED BY <2>1, <3>1 DEF InitializeCall, StopCall, StartStep, StopStep, StartTick,
         StartSpawn, StartSpawnFails, StartCommit, StartMonitor, StartMonitorPanics, StopNotify,
         StopJoin, KillBegin, KillEnd, StopClear, StopReset, managers
  <2> QED BY <2>1, MonFrame, ProxyFrame, EnvironmentFrame DEF Next
<1> PICK c \in Controllers : StopSwap(c)
  BY <1>1
<1>2. mgr[c] = m
  BY DEF StopSwap, ClearShouldRun
<1> QED BY <1>2 DEF StopSwap, Draining, Goto, ThreadsOK, Callers

\* A step keeps ClosedInv: a session closes when stop() has emptied its last slot.
LEMMA ClosedNext ==
  ASSUME RInv, RdyInv, TurnInv, KillInv, ClosedInv, Next
  PROVE  ClosedInv'
<1> USE DEF RInv, IInv
<1> SUFFICES ASSUME NEW m \in Managers, m > cell' \/ Closed(m)', NEW n \in Names
             PROVE  child'[m][n] = None
  BY DEF ClosedInv
<1>1. m \in Nat /\ cell \in Nat /\ cell' \in Nat /\ cell <= cell'
  BY CellGrows, BoundsAssumption DEF Managers, TypeInv, TypeOK, GlobalsOK
<1>2. CASE m > cell \/ Closed(m)
  <2>1. child[m][n] = None
    BY <1>2 DEF ClosedInv
  <2>2. child'[m][n] \notin {child[m][n], None} => FALSE
    BY <1>1, <1>2, FillsOpen DEF Closed
  <2> QED BY <2>1, <2>2
<1>3. CASE ~(m > cell \/ Closed(m))
  <2>1. m <= cell /\ Closed(m)' /\ (shouldRun[m] \/ Draining(m) \/ Killing(m))
    BY <1>1, <1>3 DEF Closed
  <2>2. ~shouldRun'[m] /\ ~Draining(m)' /\ ~Killing(m)'
    BY <2>1 DEF Closed
  <2>3. ~shouldRun[m]
    BY <2>2, RunEnds
  <2>4. PICK c \in Controllers : mgr[c] = m /\ pc[c] \in {"notify", "join", "kill", "killing"}
    BY <2>1, <2>3 DEF Draining, Killing
  <2>5. ~(mgr'[c] = m /\ pc'[c] \in {"notify", "join", "kill", "killing"})
    BY <2>2 DEF Draining, Killing
  <2>6. StopStep(c)
    <3>1. ~(InitializeCall(c) \/ StopCall(c) \/ StartStep(c))
      BY <2>4 DEF InitializeCall, StopCall, StartStep, StartBegin, StartTick, StartSpawn,
         StartSpawnFails, StartCommit, StartMonitor, StartMonitorPanics
    <3> QED BY <2>4, <2>5, <3>1, OwnMoves
  <2> USE DEF TypeInv, TypeOK, ThreadsOK, ManagersOK, Names, Callers, Goto, Return, Advance
  <2>7. KillBegin(c) \/ KillEnd(c)
    BY <2>4, <2>5, <2>6 DEF StopStep, StopSwap, StopNotify, StopJoin, StopClear, StopReset
  <2>8. turn[c] = "trace" /\ child' = child /\ child[m]["trace"] = None
    <3>1. CASE KillBegin(c)
      <4>1. child[mgr[c]][turn[c]] = None
        BY <2>4, <2>5, <3>1 DEF KillBegin
      <4> QED BY <2>4, <2>5, <3>1, <4>1 DEF KillBegin
    <3>2. CASE KillEnd(c)
      BY <2>4, <2>5, <3>2 DEF KillEnd, managers, KillInv
    <3> QED BY <2>7, <3>1, <3>2
  <2>9. child[m]["agent"] = None
    BY <2>4, <2>7, <2>8 DEF KillInv, KillBegin, KillEnd
  <2> QED BY <2>8, <2>9
<1> QED BY <1>2, <1>3

\* A step keeps EmptyInv: start() works on its slots alone, and so does the monitor after it.
LEMMA EmptyNext == ASSUME IInv, RdyInv, EmptyInv, Next PROVE EmptyInv'
<1> USE DEF IInv
<1>1. ASSUME NEW c \in Controllers, pc'[c] \in {"spawn", "commit"}
      PROVE  child'[mgr'[c]][turn'[c]] = None
  <2> PICK m, n : m = mgr[c] /\ n = turn[c]
    OBVIOUS
  <2>1. CASE StartTick(c)
    <3>1. ShouldAttempt(m, n) /\ UNCHANGED <<mgr, turn>> /\ ReapSlot(m, n)
      BY <1>1, <2>1 DEF StartTick, Advance, Goto, TypeInv, TypeOK, ThreadsOK, Callers
    <3>2. m \in Managers /\ n \in Names
      BY <2>1 DEF StartTick, TypeInv, MgrOK, TypeOK, ThreadsOK, Callers
    <3> QED BY <3>1, <3>2, ReapDrops
  <2>2. CASE StartSpawn(c)
    <3>1. UNCHANGED <<child, mgr, turn>> /\ pc[c] = "spawn"
      BY <2>2 DEF StartSpawn, managers
    <3> QED BY <3>1 DEF EmptyInv
  <2>3. CASE pc'[c] = pc[c] /\ mgr'[c] = mgr[c] /\ turn'[c] = turn[c]
    <3>1. m \in Managers /\ n \in Names /\ Starting(c) /\ mon[m] = "off" /\ child[m][n] = None
      BY <1>1, <2>3 DEF TypeInv, MgrOK, TypeOK, ThreadsOK, Callers, RdyInv, StartOff, EmptyInv,
         StartPcs, Starting
    <3>2. ASSUME child'[m][n] # None PROVE FALSE
      <4>1. PICK d \in Controllers : StartCommit(d) /\ mgr[d] = m
        BY <3>1, <3>2, SlotFills DEF MonCommit
      <4>2. d = c
        BY <3>1, <4>1, OneInside DEF StartCommit, Starting, StartPcs
      <4> QED BY <1>1, <2>3, <4>1, <4>2 DEF StartCommit, Advance, Goto, TypeInv, TypeOK,
                 ThreadsOK, Callers
    <3> QED BY <2>3, <3>2
  <2>4. CASE \/ InitializeCall(c) \/ StopCall(c) \/ StopStep(c) \/ StartBegin(c)
             \/ StartSpawnFails(c) \/ StartCommit(c) \/ StartMonitor(c) \/ StartMonitorPanics(c)
    BY <1>1, <2>4 DEF InitializeCall, StopCall, StopStep, StopSwap, StopNotify, StopJoin,
       KillBegin, KillEnd, StopClear, StopReset, StartBegin, StartSpawnFails, StartCommit,
       StartMonitor, StartMonitorPanics, Goto, Return, Advance, TypeInv, TypeOK, ThreadsOK,
       Callers
  <2> QED BY <1>1, <2>1, <2>2, <2>3, <2>4, OwnMoves DEF StartStep
<1>2. ASSUME NEW m \in Managers, NEW n \in Names
      PROVE  /\ mon'[m] = "off" => plan'[m][n] = "no"
             /\ plan'[m][n] # "no" => child'[m][n] = None
             /\ mon'[m] = "spawn" /\ monTurn'[m] = n => plan'[m][n] # "no"
  <2>1. /\ mon[m] = "off" => plan[m][n] = "no"
        /\ plan[m][n] # "no" => child[m][n] = None
        /\ mon[m] = "spawn" /\ monTurn[m] = n => plan[m][n] # "no"
    BY DEF EmptyInv
  <2>2. CASE ~MonStep(m)
    <3>1. /\ monTurn'[m] = monTurn[m] /\ plan'[m] = plan[m]
          /\ mon'[m] = mon[m] \/ (mon[m] \in {"off", "wait"} /\ mon'[m] = "top")
      BY <2>2, LocalsOwn
    <3>2. ASSUME plan[m][n] # "no", child'[m][n] # None PROVE FALSE
      <4>1. PICK c \in Controllers : StartCommit(c) /\ mgr[c] = m
        BY <2>1, <2>2, <3>2, SlotFills DEF MonStep
      <4>2. mon[m] = "off"
        BY <4>1 DEF StartCommit, RdyInv, StartOff, StartPcs
      <4> QED BY <2>1, <3>2, <4>2
    <3> QED BY <2>1, <3>1, <3>2
  <2>3. CASE MonStep(m)
    <3> USE DEF TypeInv, TypeOK, MonitorsOK, MonGoto, MonAdvance
    <3>1. mon[m] # "off" /\ mon'[m] # "off"
      BY <2>3 DEF MonStep, MonTop, MonCheck, MonRecheck, MonSpawn, MonSpawnFails, MonUnready,
         MonCommit, MonRearm, MonWake, MonExit
    <3>2. CASE MonExit(m)
      <4>1. plan'[m][n] = "no" /\ mon'[m] = "done"
        BY <3>2 DEF MonExit, NoPlan
      <4> QED BY <4>1
    <3>3. CASE (MonTop(m) \/ MonRecheck(m)) /\ ~MonExit(m)
      <4>1. /\ UNCHANGED <<plan, child>>
            /\ mon'[m] = "spawn" => plan[m][monTurn[m]] # "no" /\ monTurn' = monTurn
        BY <3>3 DEF MonTop, MonRecheck, managers
      <4> QED BY <2>1, <3>1, <4>1
    <3>4. CASE MonUnready(m) \/ MonRearm(m) \/ MonWake(m)
      <4>1. UNCHANGED <<plan, child>> /\ mon'[m] # "spawn"
        BY <3>4 DEF MonUnready, MonRearm, MonWake, managers
      <4> QED BY <2>1, <3>1, <4>1
    <3>5. CASE MonCheck(m)
      <4>1. PICK l \in Names : l = monTurn[m]
        OBVIOUS
      <4>2. /\ ReapSlot(m, l) /\ mon'[m] # "spawn"
            /\ Plan(m, l, IF ShouldAttempt(m, l) THEN "want" ELSE "no")
        BY <3>5, <4>1 DEF MonCheck
      <4>3. CASE l = n
        <5>1. plan'[m][n] # "no" => ShouldAttempt(m, n)
          BY <4>2, <4>3 DEF Plan
        <5> QED BY <3>1, <4>2, <4>3, <5>1, ReapDrops
      <4>4. CASE l # n
        <5>1. plan'[m][n] = plan[m][n]
          BY <4>2, <4>4 DEF Plan
        <5>2. child'[m][n] = child[m][n]
          BY <4>2, <4>4 DEF ReapSlot, ManagersOK
        <5> QED BY <2>1, <3>1, <4>2, <5>1, <5>2
      <4> QED BY <4>3, <4>4
    <3>6. CASE MonSpawn(m) \/ MonSpawnFails(m)
      <4>1. child' = child /\ mon'[m] # "spawn" /\ mon[m] = "spawn"
        BY <3>6 DEF MonSpawn, MonSpawnFails, managers
      <4>2. n # monTurn[m] => plan'[m][n] = plan[m][n]
        BY <3>6 DEF MonSpawn, MonSpawnFails, Plan
      <4> QED BY <2>1, <3>1, <4>1, <4>2
    <3>7. CASE MonCommit(m)
      <4>1. mon'[m] # "spawn" /\ (n = monTurn[m] => plan'[m][n] = "no")
        BY <3>7 DEF MonCommit, Plan
      <4>2. n # monTurn[m] => plan'[m][n] = plan[m][n] /\ child'[m][n] = child[m][n]
        BY <3>7 DEF MonCommit, Plan, FillSlot, ManagersOK
      <4> QED BY <2>1, <3>1, <4>1, <4>2
    <3> QED BY <2>3, <3>2, <3>3, <3>4, <3>5, <3>6, <3>7 DEF MonStep
  <2> QED BY <2>2, <2>3
<1> QED BY <1>1, <1>2 DEF EmptyInv

\* A process that lives after a step, and was there before, lived before, and keeps its signals,
\* its session and the thread its death signal is tied to.
LEMMA ProcKept ==
  ASSUME TypeInv, Next, NEW p \in Pids, Alive(p)', proc[p].st # "free"
  PROVE  /\ Alive(p) /\ (proc[p].sig => proc'[p].sig)
         /\ proc'[p].thr = proc[p].thr /\ proc'[p].by = proc[p].by
         /\ proc'[p].name = proc[p].name
<1> DEFINE Kept == /\ Alive(p) /\ (proc[p].sig => proc'[p].sig)
                   /\ proc'[p].thr = proc[p].thr /\ proc'[p].by = proc[p].by
                   /\ proc'[p].name = proc[p].name
<1> USE DEF Alive, TypeInv, TypeOK, SystemOK
<1>1. ASSUME proc' = proc PROVE Kept
  BY <1>1
<1>2. ASSUME NEW x, proc' = [proc EXCEPT ![x] = NoProc] PROVE Kept
  BY <1>2 DEF NoProc
<1>3. ASSUME NEW t, NEW m, NEW n, NEW x \in Pids, Launch(t, m, n, x) PROVE Kept
  BY <1>3 DEF Launch
<1>4. ASSUME NEW t, proc' = AfterDeathOf(t) PROVE Kept
  <2>1. proc'[p] = IF Alive(p) /\ proc[p].thr = t THEN [proc[p] EXCEPT !.sig = TRUE] ELSE proc[p]
    BY <1>4 DEF AfterDeathOf
  <2>2. proc[p] \in ProcRec
    OBVIOUS
  <2> QED BY <2>1, <2>2 DEF ProcRec
<1>5. ASSUME NEW c \in Controllers, KillBegin(c) PROVE Kept
  <2>1. proc[p] \in ProcRec
    OBVIOUS
  <2>2. proc'[p] \in {proc[p], [proc[p] EXCEPT !.sig = TRUE]}
    BY <1>5 DEF KillBegin
  <2> QED BY <2>1, <2>2 DEF ProcRec
<1>6. ASSUME NEW x \in Pids, ProcServe(x) \/ ProcExit(x) PROVE Kept
  <2>1. proc[p] \in ProcRec
    OBVIOUS
  <2>2. CASE x # p
    BY <1>6, <2>2 DEF ProcServe, ProcExit
  <2>3. CASE x = p
    <3>1. proc' = [proc EXCEPT ![p] = [@ EXCEPT !.st = "zombie", !.thr = None]] => FALSE
      <4>1. [proc[p] EXCEPT !.st = "zombie", !.thr = None].st = "zombie"
        BY <2>1 DEF ProcRec
      <4> QED BY <4>1
    <3>2. ProcServe(p)
      BY <1>6, <2>3, <3>1 DEF ProcExit
    <3>3. PICK v : proc'[p] = [proc[p] EXCEPT !.st = v]
      BY <3>2 DEF ProcServe
    <3> QED BY <2>1, <3>2, <3>3 DEF ProcServe, ProcRec
  <2> QED BY <2>2, <2>3
<1>7. ASSUME NEW c \in Controllers,
             InitializeCall(c) \/ StopCall(c) \/ StartStep(c) \/ StopStep(c)
      PROVE  Kept
  <2>1. CASE StartTick(c)
    BY <1>1, <1>2, <2>1 DEF StartTick, ReapSlot
  <2>2. CASE StartSpawn(c)
    BY <1>3, <2>2 DEF StartSpawn
  <2>3. CASE KillBegin(c) \/ KillEnd(c)
    BY <1>2, <1>5, <2>3 DEF KillEnd
  <2> HIDE DEF Kept
  <2> QED BY <1>1, <1>7, <2>1, <2>2, <2>3 DEF InitializeCall, StopCall, StartStep, StopStep,
     StartBegin, StartSpawnFails, StartCommit, StartMonitor, StartMonitorPanics, StopSwap,
     StopNotify, StopJoin, StopClear, StopReset, system
<1>8. ASSUME NEW q \in Proxies, ProxyGet(q) \/ ProxyStep(q) PROVE Kept
  BY <1>1, <1>8, ProxyFrame
<1>9. ASSUME NEW m \in Managers, MonStep(m) PROVE Kept
  <2> HIDE DEF Kept
  <2> QED BY <1>1, <1>2, <1>3, <1>4, <1>9 DEF MonStep, MonTop, MonCheck, MonRecheck, MonSpawn,
     MonSpawnFails, MonUnready, MonCommit, MonRearm, MonWake, MonExit, ReapSlot, system
<1>10. ASSUME Environment PROVE Kept
  <2> HIDE DEF Kept
  <2> QED BY <1>1, <1>4, <1>6, <1>10 DEF Environment, BackoffElapses, ForeignToggles,
     HostThreadExits, system
<1> HIDE DEF Kept
<1>11. Kept
  BY <1>7, <1>8, <1>9, <1>10 DEF Next
<1> QED BY <1>11 DEF Kept

\* A step keeps Tied: the thread that spawns is the one whose exit signals the child.
LEMMA TiedNext == ASSUME PDeathSig, TypeInv, RefInv, Tied, Next PROVE Tied'
<1> SUFFICES ASSUME NEW p \in Pids, NEW m \in Managers, NEW n \in Names,
                    plan'[m][n] = p, Alive(p)'
             PROVE  proc'[p].thr = m
  BY DEF Tied
<1>1. CASE plan[m][n] = p
  <2>1. proc[p].st # "free"
    BY <1>1 DEF RefInv, PlanRef, Owned
  <2> QED BY <1>1, <2>1, ProcKept DEF Tied
<1>2. CASE plan[m][n] # p
  <2>1. MonStep(m)
    BY <1>2, LocalsOwn
  <2>2. PICK l \in Names : l = monTurn[m]
    BY DEF TypeInv, TypeOK, MonitorsOK
  <2>3. MonSpawn(m) /\ l = n
    BY <1>2, <2>1, <2>2, NoneAssumption DEF MonStep, MonTop, MonCheck, MonRecheck, MonSpawn,
       MonSpawnFails, MonUnready, MonCommit, MonRearm, MonWake, MonExit, Plan, NoPlan, TypeInv,
       TypeOK, MonitorsOK
  <2>4. PICK x \in Pids : Launch(m, m, l, x) /\ Plan(m, l, x)
    BY <2>2, <2>3 DEF MonSpawn
  <2>5. x = p
    BY <2>3, <2>4 DEF Plan, TypeInv, TypeOK, MonitorsOK
  <2> QED BY <2>4, <2>5 DEF Launch, TypeInv, TypeOK, SystemOK
<1> QED BY <1>1, <1>2

\* A process that lives stays in its slot until a stop() takes it in its hands, and tells it.
LEMMA SlotKept ==
  ASSUME TypeInv, EmptyInv, Next, NEW p \in Pids, Alive(p)',
         NEW m \in Managers, NEW n \in Names, child[m][n] = p, proc[p].st # "free"
  PROVE  child'[m][n] = p \/ (proc'[p].sig /\ \E c \in Controllers : held'[c] = p)
<1> SUFFICES ASSUME child'[m][n] # p, ~(proc'[p].sig /\ \E c \in Controllers : held'[c] = p)
             PROVE  FALSE
  OBVIOUS
<1>1. Alive(p) /\ p # None
  BY ProcKept, NoneAssumption
<1>2. child'[m][n] = None
  BY <1>1, SlotFills, NoneAssumption DEF EmptyInv, StartCommit
<1>3. ASSUME NEW k \in Managers, NEW l \in Names, ReapSlot(k, l) PROVE FALSE
  <2>1. Exited(k, l) /\ child' = [child EXCEPT ![k][l] = None]
    BY <1>1, <1>2, <1>3 DEF ReapSlot
  <2>2. k = m /\ l = n
    BY <1>1, <1>2, <2>1 DEF TypeInv, TypeOK, ManagersOK
  <2> QED BY <1>1, <2>1, <2>2 DEF Exited
<1>4. ASSUME NEW c \in Controllers,
             InitializeCall(c) \/ StopCall(c) \/ StartStep(c) \/ StopStep(c)
      PROVE  FALSE
  <2>1. ~StartTick(c)
    BY <1>3 DEF StartTick, TypeInv, MgrOK, TypeOK, ThreadsOK, Callers
  <2>2. ~KillBegin(c)
    <3> SUFFICES ASSUME KillBegin(c) PROVE FALSE
      OBVIOUS
    <3>1. PICK k, l : k = mgr[c] /\ l = turn[c]
      OBVIOUS
    <3>2. child' = [child EXCEPT ![k][l] = None] /\ child[k][l] # None
      BY <1>1, <1>2, <3>1 DEF KillBegin, TakeSlot
    <3>3. k = m /\ l = n
      BY <1>1, <1>2, <3>2 DEF TypeInv, TypeOK, ManagersOK
    <3>4. proc' = [proc EXCEPT ![p].sig = TRUE] /\ held' = [held EXCEPT ![c] = p]
      BY <1>1, <3>1, <3>2, <3>3 DEF KillBegin
    <3>5. proc[p] \in ProcRec /\ proc'[p] = [proc[p] EXCEPT !.sig = TRUE] /\ held'[c] = p
      BY <3>4 DEF TypeInv, TypeOK, SystemOK, ThreadsOK
    <3> QED BY <3>5 DEF ProcRec
  <2>3. ~StartCommit(c)
    <3> SUFFICES ASSUME StartCommit(c) PROVE FALSE
      OBVIOUS
    <3>1. PICK k, l : k = mgr[c] /\ l = turn[c]
      OBVIOUS
    <3>2. child' = [child EXCEPT ![k][l] = held[c]] /\ child[k][l] = None
      BY <3>1 DEF StartCommit, FillSlot, EmptyInv
    <3> QED BY <1>1, <1>2, <3>2 DEF TypeInv, TypeOK, ManagersOK
  <2> QED BY <1>1, <1>2, <1>4, <2>1, <2>2, <2>3 DEF InitializeCall, StopCall, StartStep,
     StopStep, StartBegin, StartSpawn, StartSpawnFails, StartMonitor, StartMonitorPanics,
     StopSwap, StopNotify, StopJoin, KillEnd, StopClear, StopReset, managers
<1>5. ASSUME NEW q \in Proxies, ProxyGet(q) \/ ProxyStep(q) PROVE FALSE
  BY <1>1, <1>2, <1>5 DEF ProxyStep, ProxyGet, ProxyEnter, ProxyLook, ProxyProbe, managers
<1>6. ASSUME NEW k \in Managers, MonStep(k) PROVE FALSE
  <2>1. PICK l \in Names : l = monTurn[k]
    BY DEF TypeInv, TypeOK, MonitorsOK
  <2>2. ~MonCheck(k)
    BY <1>3, <2>1 DEF MonCheck
  <2>3. ~MonCommit(k)
    <3> SUFFICES ASSUME MonCommit(k) PROVE FALSE
      OBVIOUS
    <3>1. plan[k][l] \in Pids /\ child' = [child EXCEPT ![k][l] = plan[k][l]]
      BY <1>1, <1>2, <2>1 DEF MonCommit, FillSlot, SpawnedOk
    <3> QED BY <1>1, <1>2, <3>1, NoneAssumption DEF TypeInv, TypeOK, ManagersOK
  <2> QED BY <1>1, <1>2, <1>6, <2>2, <2>3 DEF MonStep, MonTop, MonRecheck, MonSpawn,
     MonSpawnFails, MonUnready, MonRearm, MonWake, managers
<1>7. ASSUME Environment PROVE FALSE
  BY <1>1, <1>2, <1>7 DEF Environment, ProcServe, ProcExit, BackoffElapses, ForeignToggles,
     HostThreadExits, managers
<1> QED BY <1>4, <1>5, <1>6, <1>7 DEF Next

\* A process that lives stays in the monitor's locals until it is in its slot.  If the loop is left
\* in between, it is an agent, and the exit of the monitor's thread tells it.
LEMMA LocalKept ==
  ASSUME TypeInv, RdyInv, PlanAt, Next, NEW p \in Pids, Alive(p)',
         NEW m \in Managers, NEW n \in Names, plan[m][n] = p, proc[p].st # "free",
         n = "trace" \/ (Tied /\ ~proc'[p].sig)
  PROVE  plan'[m][n] = p \/ child'[m][n] = p
<1> SUFFICES ASSUME plan'[m][n] # p PROVE child'[m][n] = p
  OBVIOUS
<1>1. Alive(p) /\ MonStep(m)
  BY ProcKept, LocalsOwn
<1>2. n = "agent" => ~MonExit(m)
  <2> SUFFICES ASSUME n = "agent", MonExit(m) PROVE FALSE
    OBVIOUS
  <2>1. proc'[p] = [proc[p] EXCEPT !.sig = TRUE]
    BY <1>1 DEF MonExit, AfterDeathOf, Tied
  <2>2. proc[p] \in ProcRec
    BY DEF TypeInv, TypeOK, SystemOK
  <2> QED BY <2>1, <2>2 DEF ProcRec
<1>3. /\ n = "trace" => mon[m] \in {"unready", "commit"}
      /\ n = "agent" => \/ mon[m] \in {"recheck", "spawn"} /\ monTurn[m] = "trace"
                        \/ mon[m] \in {"unready", "commit"} /\ monTurn[m] = "agent"
  BY DEF RdyInv, TraceInv, Planned, PlanAt
<1> USE DEF TypeInv, TypeOK, MonitorsOK, Names
<1>4. CASE MonCheck(m) \/ MonSpawn(m) \/ MonSpawnFails(m)
  BY <1>3, <1>4 DEF MonCheck, MonSpawn, MonSpawnFails, Plan
<1>5. CASE MonCommit(m)
  <2>1. n = monTurn[m]
    BY <1>5 DEF MonCommit, Plan
  <2> QED BY <1>5, <2>1 DEF MonCommit, SpawnedOk, FillSlot, ManagersOK
<1>6. CASE MonTop(m) \/ MonRecheck(m) \/ MonUnready(m) \/ MonRearm(m) \/ MonWake(m)
  BY <1>2, <1>3, <1>6 DEF MonTop, MonRecheck, MonUnready, MonRearm, MonWake
<1> QED BY <1>1, <1>4, <1>5, <1>6 DEF MonStep

\* What a controller has in its hands changes by its own steps only.
LEMMA HandsKept ==
  ASSUME TypeInv, Next, NEW c \in Controllers,
         ~(InitializeCall(c) \/ StopCall(c) \/ StartStep(c) \/ StopStep(c))
  PROVE  held'[c] = held[c]
<1>1. ASSUME NEW d \in Controllers,
             InitializeCall(d) \/ StopCall(d) \/ StartStep(d) \/ StopStep(d)
      PROVE  held'[c] = held[c]
  <2>1. d # c
    BY <1>1
  <2>2. held' = held \/ \E x : held' = [held EXCEPT ![d] = x]
    BY <1>1 DEF InitializeCall, StopCall, StartStep, StopStep, StartBegin, StartTick,
       StartSpawn, StartSpawnFails, StartCommit, StartMonitor, StartMonitorPanics, StopSwap,
       StopNotify, StopJoin, KillBegin, KillEnd, StopClear, StopReset
  <2> QED BY <2>1, <2>2 DEF TypeInv, TypeOK, ThreadsOK
<1>2. ASSUME NEW q \in Proxies, ProxyGet(q) \/ ProxyStep(q) PROVE held' = held
  BY <1>2 DEF ProxyStep, ProxyGet, ProxyEnter, ProxyLook, ProxyProbe
<1>3. ASSUME NEW m \in Managers, MonStep(m) PROVE held' = held
  BY <1>3 DEF MonStep, MonTop, MonCheck, MonRecheck, MonSpawn, MonSpawnFails, MonUnready,
     MonCommit, MonRearm, MonWake, threads
<1>4. ASSUME Environment PROVE held' = held
  BY <1>4 DEF Environment, ProcServe, ProcExit, BackoffElapses, ForeignToggles,
     HostThreadExits, threads
<1> QED BY <1>1, <1>2, <1>3, <1>4 DEF Next

\* A step keeps Tracked.
LEMMA TrackedNext ==
  ASSUME RInv, RefInv, RdyInv, PlanAt, EmptyInv, Tied, Tracked, Next
  PROVE  Tracked'
<1> USE DEF RInv, IInv
<1> SUFFICES ASSUME NEW p \in Pids, Alive(p)', ~proc'[p].sig
             PROVE  \/ \E m \in Managers, n \in Names : child'[m][n] = p \/ plan'[m][n] = p
                    \/ \E c \in Controllers : held'[c] = p /\ pc'[c] = "commit"
  BY DEF Tracked
<1>1. CASE proc[p].st = "free"
  <2>1. proc'[p].st # "free"
    BY DEF Alive
  <2>2. ASSUME NEW c \in Controllers, StartSpawn(c) PROVE held'[c] = p /\ pc'[c] = "commit"
    <3>1. PICK x \in Pids : Launch(c, mgr[c], turn[c], x) /\ held' = [held EXCEPT ![c] = x]
      BY <2>2 DEF StartSpawn
    <3>2. x = p
      BY <1>1, <2>1, <3>1 DEF Launch, TypeInv, TypeOK, SystemOK
    <3> QED BY <2>2, <3>1, <3>2 DEF StartSpawn, Goto, TypeInv, TypeOK, ThreadsOK, Callers
  <2>3. ASSUME NEW m \in Managers, MonSpawn(m) PROVE \E n \in Names : plan'[m][n] = p
    <3>1. PICK n \in Names : n = monTurn[m]
      BY DEF TypeInv, TypeOK, MonitorsOK
    <3>2. PICK x \in Pids : Launch(m, m, n, x) /\ Plan(m, n, x)
      BY <2>3, <3>1 DEF MonSpawn
    <3>3. x = p
      BY <1>1, <2>1, <3>2 DEF Launch, TypeInv, TypeOK, SystemOK
    <3> QED BY <3>2, <3>3 DEF Plan, TypeInv, TypeOK, MonitorsOK
  <2> QED BY <1>1, <2>1, <2>2, <2>3, OnlySpawns
<1>2. CASE proc[p].st # "free"
  <2>1. Alive(p) /\ ~proc[p].sig
    BY <1>2, ProcKept
  <2>2. CASE \E m \in Managers, n \in Names : child[m][n] = p \/ plan[m][n] = p
    BY <1>2, <2>2, SlotKept, LocalKept
  <2>3. CASE \E c \in Controllers : held[c] = p /\ pc[c] = "commit"
    <3>1. PICK c \in Controllers : held[c] = p /\ pc[c] = "commit"
      BY <2>3
    <3>2. mgr[c] \in Managers /\ turn[c] \in Names
      BY <3>1, HolderSlot
    <3>3. CASE StartCommit(c)
      <4>1. child' = [child EXCEPT ![mgr[c]][turn[c]] = p]
        BY <3>1, <3>3 DEF StartCommit, FillSlot
      <4>2. child'[mgr[c]][turn[c]] = p
        BY <3>2, <4>1 DEF TypeInv, TypeOK, ManagersOK
      <4> QED BY <3>2, <4>2
    <3>4. CASE ~StartCommit(c)
      <4>1. ~(InitializeCall(c) \/ StopCall(c) \/ StartStep(c) \/ StopStep(c))
        BY <3>1, <3>4 DEF InitializeCall, StopCall, StartStep, StopStep, StartBegin, StartTick,
           StartSpawn, StartSpawnFails, StartMonitor, StartMonitorPanics, StopSwap, StopNotify,
           StopJoin, KillBegin, KillEnd, StopClear, StopReset
      <4>2. pc'[c] = "commit"
        BY <3>1, <4>1, OwnMoves
      <4>3. held'[c] = held[c]
        BY <4>1, HandsKept
      <4> QED BY <3>1, <4>2, <4>3
    <3> QED BY <3>3, <3>4
  <2> QED BY <2>1, <2>2, <2>3 DEF Tracked
<1> QED BY <1>1, <1>2

\* SlotsInv always holds, on every platform.
LEMMA SlotsAlways == Spec => []SlotsInv
<1>1. Init => SlotsInv
  BY NoneAssumption DEF Init, NoPlan, First, Callers, Names, Managers, SlotsInv, TurnInv,
     OnlyTrace, PlanAt, EmptyInv, KillInv, ClosedInv
<1>2. RInv /\ RdyInv /\ SlotsInv /\ [Next]_vars => SlotsInv'
  <2> SUFFICES ASSUME RInv, RdyInv, SlotsInv, [Next]_vars PROVE SlotsInv'
    OBVIOUS
  <2>1. CASE Next
    <3>1. IInv /\ TypeInv
      BY DEF RInv, IInv
    <3>2. TurnInv' /\ OnlyTrace' /\ PlanAt' /\ EmptyInv'
      BY <2>1, <3>1, TurnNext, OnlyTraceNext, PlanAtNext, EmptyNext DEF SlotsInv
    <3>3. KillInv' /\ ClosedInv'
      BY <2>1, <3>1, KillNext, ClosedNext DEF SlotsInv
    <3> QED BY <3>2, <3>3 DEF SlotsInv
  <2>2. CASE UNCHANGED vars
    BY <2>2 DEF vars, globals, managers, threads, monitors, system, Closed, Draining, Killing,
       SlotsInv, TurnInv, OnlyTrace, PlanAt, EmptyInv, KillInv, ClosedInv
  <2> QED BY <2>1, <2>2
<1> QED BY <1>1, <1>2, RInvAlways, RdyAlways, PTL DEF Spec

\* OrphanInv always holds where a child dies with the thread that spawned it.
LEMMA OrphanAlways == ASSUME PDeathSig PROVE Spec => []OrphanInv
<1>1. Init => OrphanInv
  BY NoneAssumption DEF Init, NoPlan, NoProc, Alive, Names, OrphanInv, Tied, Tracked
<1>2. RInv /\ RefInv /\ RdyInv /\ SlotsInv /\ OrphanInv /\ [Next]_vars => OrphanInv'
  <2> SUFFICES ASSUME RInv, RefInv, RdyInv, SlotsInv, OrphanInv, [Next]_vars PROVE OrphanInv'
    OBVIOUS
  <2>1. CASE Next
    BY <2>1, TiedNext, TrackedNext DEF OrphanInv, SlotsInv, RInv, IInv
  <2>2. CASE UNCHANGED vars
    BY <2>2 DEF vars, managers, threads, monitors, system, Alive, OrphanInv, Tied, Tracked
  <2> QED BY <2>1, <2>2
<1> QED BY <1>1, <1>2, RInvAlways, RefAlways, RdyAlways, SlotsAlways, PTL DEF Spec

\* On Linux, where a child gets SIGTERM when the thread that spawned it exits, stop() leaves nobody
\* behind: a process of a session that is over is dead or has been told to terminate, whatever the
\* number of callers, sessions and children, and wherever stop() met the monitor's round.
THEOREM NoOrphansAlways == ASSUME PDeathSig PROVE Spec => []NoOrphans
<1>1. RInv /\ RefInv /\ RdyInv /\ SlotsInv /\ OrphanInv => NoOrphans
  <2> SUFFICES ASSUME RInv, RefInv, RdyInv, SlotsInv, OrphanInv, NEW p \in Pids, Alive(p),
                      Closed(proc[p].by), ~proc[p].sig
               PROVE  FALSE
    BY DEF NoOrphans
  <2> USE DEF RInv, IInv
  <2>1. \/ \E m \in Managers, n \in Names : child[m][n] = p \/ plan[m][n] = p
        \/ \E c \in Controllers : held[c] = p /\ pc[c] = "commit"
    BY DEF OrphanInv, Tracked
  <2>2. ASSUME NEW m \in Managers, NEW n \in Names, child[m][n] = p PROVE FALSE
    <3>1. proc[p].by = m
      BY <2>2 DEF RefInv, SlotRef, Owned
    <3> QED BY <2>2, <3>1, NoneAssumption DEF SlotsInv, ClosedInv
  <2>3. ASSUME NEW m \in Managers, NEW n \in Names, plan[m][n] = p PROVE FALSE
    <3>1. proc[p].by = m
      BY <2>3 DEF RefInv, PlanRef, Owned
    <3>2. mon[m] \in {"off", "done"}
      BY <3>1 DEF MonInv, Closed
    <3>3. mon[m] \notin {"off", "done"}
      BY <2>3, NoneAssumption DEF SlotsInv, PlanAt, RdyInv, TraceInv, Planned, Names, EmptyInv
    <3> QED BY <3>2, <3>3
  <2>4. ASSUME NEW c \in Controllers, held[c] = p, pc[c] = "commit" PROVE FALSE
    <3>1. proc[p].by = mgr[c]
      BY <2>4 DEF RefInv, HeldRef, Owned
    <3> QED BY <2>4, <3>1 DEF RunInv, Starting, StartPcs, Closed
  <2> QED BY <2>1, <2>2, <2>3, <2>4
<1> QED BY <1>1, RInvAlways, RefAlways, RdyAlways, SlotsAlways, OrphanAlways, PTL

(***************************************************************************)
(* Nobody is told too soon                                                 *)
(***************************************************************************)
\* A session that has not started has no living process.
UnbornInv == \A p \in Pids : Alive(p) =>
               /\ proc[p].by \in Managers /\ proc[p].by <= cell
               /\ \A c \in Controllers : pc[c] = "start" => proc[p].by # mgr[c]
\* A death signal tied to a monitor is for a child of its session.
TiedOwn == \A p \in Pids : Alive(p) /\ proc[p].thr \in Managers => proc[p].by = proc[p].thr
\* The invariant behind KeptAlive.
KeptInv == UnbornInv /\ TiedOwn /\ KeptAlive

\* should_run is set by start() and by nothing else.
LEMMA RunBegins ==
  ASSUME TypeInv, Next, NEW m \in Managers, ~shouldRun[m], shouldRun'[m]
  PROVE  \E c \in Controllers : StartBegin(c) /\ mgr[c] = m
<1> USE DEF TypeInv, TypeOK, ManagersOK
<1>1. \E c \in Controllers : StartBegin(c)
  <2>1. ASSUME NEW c \in Controllers,
               InitializeCall(c) \/ StopCall(c) \/ StartStep(c) \/ StopStep(c)
        PROVE  StartBegin(c)
    <3>1. ~StopSwap(c)
      BY DEF StopSwap, ClearShouldRun
    <3> QED BY <2>1, <3>1 DEF InitializeCall, StopCall, StartStep, StopStep, StartTick,
         StartSpawn, StartSpawnFails, StartCommit, StartMonitor, StartMonitorPanics, StopNotify,
         StopJoin, KillBegin, KillEnd, StopClear, StopReset, managers
  <2> QED BY <2>1, MonFrame, ProxyFrame, EnvironmentFrame DEF Next
<1> PICK c \in Controllers : StartBegin(c)
  BY <1>1
<1>2. mgr[c] = m
  BY DEF StartBegin
<1> QED BY <1>2

\* If no host thread exits, a child is told to terminate by stop(), which has it in its slot, or by
\* the exit of the monitor's thread that spawned it, which stop() has asked for.
LEMMA Signalled ==
  ASSUME Mortal = {}, TypeInv, Next, NEW p \in Pids, Alive(p)', proc[p].st # "free",
         ~proc[p].sig, proc'[p].sig
  PROVE  \/ \E c \in Controllers : KillBegin(c) /\ child[mgr[c]][turn[c]] = p
         \/ \E m \in Managers : /\ MonTop(m) \/ MonRecheck(m)
                                /\ ~shouldRun[m] /\ proc[p].thr = m
<1> USE DEF TypeInv, TypeOK, SystemOK
<1>1. proc[p] \in ProcRec /\ proc'[p] # proc[p]
  OBVIOUS
<1>2. ASSUME NEW x, proc' = [proc EXCEPT ![x] = NoProc] PROVE FALSE
  BY <1>1, <1>2 DEF NoProc
<1>3. ASSUME NEW t, NEW m, NEW n, NEW x \in Pids, Launch(t, m, n, x) PROVE FALSE
  BY <1>1, <1>3 DEF Launch
<1>4. ASSUME NEW x \in Pids, ProcServe(x) \/ ProcExit(x) PROVE FALSE
  <2>1. \A v : [proc[p] EXCEPT !.st = v].sig = FALSE
    BY <1>1 DEF ProcRec
  <2>2. \A v, w : [proc[p] EXCEPT !.st = v, !.thr = w].sig = FALSE
    BY <1>1 DEF ProcRec
  <2>3. x = p
    BY <1>1, <1>4 DEF ProcServe, ProcExit
  <2>4. CASE ProcServe(p)
    <3>1. PICK v : proc' = [proc EXCEPT ![p].st = v]
      BY <2>4 DEF ProcServe
    <3> QED BY <2>1, <3>1
  <2>5. CASE ProcExit(p)
    <3>1. proc'[p] = [proc[p] EXCEPT !.st = "zombie", !.thr = None]
      BY <2>5 DEF ProcExit
    <3> QED BY <2>2, <3>1
  <2> QED BY <1>4, <2>3, <2>4, <2>5
<1>5. ASSUME NEW c \in Controllers,
             InitializeCall(c) \/ StopCall(c) \/ StartStep(c) \/ StopStep(c)
      PROVE  KillBegin(c) /\ child[mgr[c]][turn[c]] = p
  <2>1. KillBegin(c)
    BY <1>1, <1>2, <1>3, <1>5 DEF InitializeCall, StopCall, StartStep, StopStep, StartBegin,
       StartTick, ReapSlot, StartSpawn, StartSpawnFails, StartCommit, StartMonitor,
       StartMonitorPanics, StopSwap, StopNotify, StopJoin, KillEnd, StopClear, StopReset, system
  <2> QED BY <1>1, <2>1 DEF KillBegin
<1>6. ASSUME NEW q \in Proxies, ProxyGet(q) \/ ProxyStep(q) PROVE FALSE
  BY <1>1, <1>6, ProxyFrame
<1>7. ASSUME NEW m \in Managers, MonStep(m)
      PROVE  (MonTop(m) \/ MonRecheck(m)) /\ ~shouldRun[m] /\ proc[p].thr = m
  <2>1. MonTop(m) \/ MonRecheck(m)
    BY <1>1, <1>2, <1>3, <1>7 DEF MonStep, MonCheck, ReapSlot, MonSpawn, MonSpawnFails,
       MonUnready, MonCommit, MonRearm, MonWake, system
  <2>2. ~shouldRun[m] /\ MonExit(m)
    BY <1>1, <2>1 DEF MonTop, MonRecheck, KeepsOn
  <2>3. proc'[p] = IF Alive(p) /\ proc[p].thr = m THEN [proc[p] EXCEPT !.sig = TRUE] ELSE proc[p]
    BY <2>2 DEF MonExit, AfterDeathOf
  <2> QED BY <1>1, <2>1, <2>2, <2>3
<1>8. ASSUME Environment PROVE FALSE
  BY <1>1, <1>4, <1>8 DEF Environment, BackoffElapses, ForeignToggles, system
<1> QED BY <1>5, <1>6, <1>7, <1>8 DEF Next

\* A step keeps UnbornInv: only sessions that run, or that stop() drains, get processes.
LEMMA UnbornNext == ASSUME RInv, RdyInv, UnbornInv, Next PROVE UnbornInv'
<1> USE DEF RInv, IInv
<1> SUFFICES ASSUME NEW p \in Pids, Alive(p)'
             PROVE  /\ proc'[p].by \in Managers /\ proc'[p].by <= cell'
                    /\ \A d \in Controllers : pc'[d] = "start" => proc'[p].by # mgr'[d]
  BY DEF UnbornInv
<1> DEFINE Begun == /\ proc'[p].by \in Managers /\ proc'[p].by <= cell
                    /\ \A d \in Controllers : pc[d] = "start" => proc'[p].by # mgr[d]
<1>1. Begun
  <2>1. CASE proc[p].st # "free"
    BY <2>1, ProcKept DEF UnbornInv
  <2>2. CASE proc[p].st = "free"
    <3>1. proc'[p].st # "free"
      BY DEF Alive
    <3>2. ASSUME NEW c \in Controllers, StartSpawn(c), proc'[p].by = mgr[c] PROVE Begun
      <4>1. mgr[c] \in Managers /\ pc[c] = "spawn" /\ mgr[c] <= cell
        BY <3>2 DEF StartSpawn, TypeInv, MgrOK, Callers, BoundInv
      <4>2. \A d \in Controllers : pc[d] = "start" => mgr[d] # mgr[c]
        BY <4>1 DEF FreshInv
      <4> QED BY <3>2, <4>1, <4>2
    <3>3. ASSUME NEW m \in Managers, MonSpawn(m), proc'[p].by = m PROVE Begun
      <4>1. mon[m] = "spawn"
        BY <3>3 DEF MonSpawn
      <4>2. ~(m > cell)
        BY <4>1 DEF RdyInv, TraceInv, MonitorOff
      <4>3. m <= cell
        BY <4>2, BoundsAssumption DEF Managers, TypeInv, TypeOK, GlobalsOK
      <4>4. \A d \in Controllers : pc[d] = "start" => mgr[d] # m
        BY <4>1 DEF RdyInv, StartOff, StartPcs
      <4> QED BY <3>3, <4>3, <4>4
    <3> HIDE DEF Begun
    <3> QED BY <2>2, <3>1, <3>2, <3>3, OnlySpawns
  <2> QED BY <2>1, <2>2
<1>2. proc'[p].by \in Nat /\ cell \in Nat /\ cell' \in Nat /\ cell <= cell'
  BY <1>1, CellGrows, BoundsAssumption DEF Managers, TypeInv, TypeOK, GlobalsOK
<1>3. ASSUME NEW d \in Controllers, pc'[d] = "start" PROVE proc'[p].by # mgr'[d]
  <2>1. CASE InitializeCall(d)
    <3>1. mgr'[d] = cell + 1
      BY <2>1 DEF InitializeCall, TypeInv, TypeOK, ThreadsOK, Callers
    <3> QED BY <1>1, <1>2, <3>1
  <2>2. ~(StopCall(d) \/ StartStep(d) \/ StopStep(d))
    BY <1>3 DEF StopCall, StartStep, StartBegin, StartTick, StartSpawn, StartSpawnFails,
       StartCommit, StartMonitor, StartMonitorPanics, StopStep, StopSwap, StopNotify, StopJoin,
       KillBegin, KillEnd, StopClear, StopReset, Goto, Return, Advance, TypeInv, TypeOK,
       ThreadsOK, Callers
  <2>3. CASE pc'[d] = pc[d] /\ mgr'[d] = mgr[d]
    BY <1>1, <1>3, <2>3
  <2> QED BY <1>3, <2>1, <2>2, <2>3, OwnMoves
<1> QED BY <1>1, <1>2, <1>3

\* A step keeps TiedOwn: the monitor spawns for its own session only.
LEMMA TiedOwnNext == ASSUME TypeInv, TiedOwn, Next PROVE TiedOwn'
<1> SUFFICES ASSUME NEW p \in Pids, Alive(p)', proc'[p].thr \in Managers
             PROVE  proc'[p].by = proc'[p].thr
  BY DEF TiedOwn
<1>1. CASE proc[p].st # "free"
  BY <1>1, ProcKept DEF TiedOwn
<1>2. CASE proc[p].st = "free"
  <2>1. proc'[p].st # "free"
    BY DEF Alive
  <2>2. ASSUME NEW t, NEW m, NEW n, NEW x \in Pids, Launch(t, m, n, x)
        PROVE  proc'[p].thr \in {t, None} /\ proc'[p].by = m
    BY <1>2, <2>1, <2>2 DEF Launch, TypeInv, TypeOK, SystemOK
  <2>3. ASSUME NEW c \in Controllers, StartSpawn(c) PROVE FALSE
    <3>1. proc'[p].thr \in {c, None}
      BY <2>2, <2>3 DEF StartSpawn
    <3> QED BY <3>1, ThreadAssumption DEF Callers
  <2>4. ASSUME NEW m \in Managers, MonSpawn(m) PROVE proc'[p].by = proc'[p].thr
    <3>1. proc'[p].thr \in {m, None} /\ proc'[p].by = m
      BY <2>2, <2>4 DEF MonSpawn
    <3> QED BY <3>1, ThreadAssumption
  <2> QED BY <1>2, <2>1, <2>3, <2>4, OnlySpawns
<1> QED BY <1>1, <1>2

\* A step keeps KeptAlive: who signals a child works for a stop() of its session, and a session
\* that is over does not begin again.
LEMMA KeptNext ==
  ASSUME Mortal = {}, RInv, RefInv, UnbornInv, TiedOwn, KeptAlive, Next
  PROVE  KeptAlive'
<1> USE DEF RInv, IInv
<1> SUFFICES ASSUME NEW p \in Pids, Alive(p)', proc'[p].sig, shouldRun'[proc'[p].by]
             PROVE  FALSE
  BY DEF KeptAlive
<1>1. proc[p].st # "free"
  <2> SUFFICES ASSUME proc[p].st = "free" PROVE FALSE
    OBVIOUS
  <2>1. proc'[p].st # "free"
    BY DEF Alive
  <2>2. ASSUME NEW t, NEW m, NEW n, NEW x \in Pids, Launch(t, m, n, x) PROVE FALSE
    BY <2>1, <2>2 DEF Launch, TypeInv, TypeOK, SystemOK
  <2> QED BY <2>1, <2>2, OnlySpawns DEF StartSpawn, MonSpawn
<1>2. Alive(p) /\ proc'[p].by = proc[p].by /\ proc'[p].thr = proc[p].thr
  BY <1>1, ProcKept
<1>3. PICK m \in Managers : m = proc[p].by
  BY <1>2 DEF UnbornInv
<1>4. shouldRun[m]
  <2> SUFFICES ASSUME ~shouldRun[m] PROVE FALSE
    OBVIOUS
  <2>1. PICK c \in Controllers : StartBegin(c) /\ mgr[c] = m
    BY <1>2, <1>3, RunBegins
  <2> QED BY <1>2, <1>3, <2>1 DEF StartBegin, UnbornInv
<1>5. ~proc[p].sig
  BY <1>2, <1>3, <1>4 DEF KeptAlive
<1>6. ASSUME NEW c \in Controllers, KillBegin(c), child[mgr[c]][turn[c]] = p PROVE FALSE
  <2>1. Stopping(c) /\ mgr[c] \in Managers /\ turn[c] \in Names
    BY <1>6 DEF KillBegin, Stopping, StopPcs, TypeInv, MgrOK, TypeOK, ThreadsOK, Callers
  <2>2. m = mgr[c]
    BY <1>3, <1>6, <2>1 DEF RefInv, SlotRef, Owned
  <2> QED BY <1>4, <2>1, <2>2 DEF StopInv
<1>7. ASSUME NEW k \in Managers, ~shouldRun[k], proc[p].thr = k PROVE FALSE
  BY <1>2, <1>3, <1>4, <1>7 DEF TiedOwn
<1> QED BY <1>1, <1>5, <1>6, <1>7, Signalled

\* As long as the host threads that start sessions live on, nobody but a stop() of a session has its
\* children told to terminate: not the monitor of another session, not a stop() that comes late.
THEOREM KeptAliveAlways == ASSUME Mortal = {} PROVE Spec => []KeptAlive
<1>1. Init => KeptInv
  BY DEF Init, NoProc, Alive, KeptInv, UnbornInv, TiedOwn, KeptAlive
<1>2. RInv /\ RefInv /\ RdyInv /\ KeptInv /\ [Next]_vars => KeptInv'
  <2> SUFFICES ASSUME RInv, RefInv, RdyInv, KeptInv, [Next]_vars PROVE KeptInv'
    OBVIOUS
  <2>1. CASE Next
    BY <2>1, UnbornNext, TiedOwnNext, KeptNext DEF KeptInv, RInv, IInv
  <2>2. CASE UNCHANGED vars
    BY <2>2 DEF vars, globals, managers, threads, monitors, system, Alive, KeptInv, UnbornInv,
       TiedOwn, KeptAlive
  <2> QED BY <2>1, <2>2
<1>3. KeptInv => KeptAlive
  BY DEF KeptInv
<1> QED BY <1>1, <1>2, <1>3, RInvAlways, RefAlways, RdyAlways, PTL DEF Spec

(***************************************************************************)
(* One trace-agent, if one thread starts and stops the sessions            *)
(***************************************************************************)
\* Inside start() and stop(), the only controller works on the manager in the cell.
AtCell == \A c \in Controllers : pc[c] \in StartPcs \cup StopPcs => mgr[c] = cell
\* Somebody refers to p as a trace-agent of m.
Known(p, m) == \/ child[m]["trace"] = p \/ plan[m]["trace"] = p
               \/ \E c \in Controllers : held[c] = p /\ mgr[c] = m
\* Somebody refers to every trace-agent that lives.
AllKnown == \A p \in Pids : Alive(p) /\ proc[p].name = "trace" => \E m \in Managers : Known(p, m)

\* A step of the only controller keeps AtCell.
LEMMA AtCellNext ==
  ASSUME TypeInv, NEW boss, Controllers = {boss}, AtCell, Next
  PROVE  AtCell'
<1> SUFFICES ASSUME pc'[boss] \in StartPcs \cup StopPcs PROVE mgr'[boss] = cell'
  BY DEF AtCell
<1>1. CASE InitializeCall(boss)
  BY <1>1 DEF InitializeCall, TypeInv, TypeOK, ThreadsOK, Callers
<1>2. CASE StopCall(boss)
  BY <1>2 DEF StopCall, globals, TypeInv, TypeOK, ThreadsOK, Callers
<1>3. CASE StartStep(boss) \/ StopStep(boss)
  <2>1. pc[boss] \in StartPcs \cup StopPcs /\ cell' = cell
    BY <1>3 DEF StartStep, StopStep, StartBegin, StartTick, StartSpawn, StartSpawnFails,
       StartCommit, StartMonitor, StartMonitorPanics, StopSwap, StopNotify, StopJoin, KillBegin,
       KillEnd, StopClear, StopReset, globals, StartPcs, StopPcs
  <2>2. mgr'[boss] = mgr[boss] \/ pc'[boss] = "idle"
    BY <1>3 DEF StartStep, StopStep, StartBegin, StartTick, StartSpawn, StartSpawnFails,
       StartCommit, StartMonitor, StartMonitorPanics, StopSwap, StopNotify, StopJoin, KillBegin,
       KillEnd, StopClear, StopReset, Return, Goto, TypeInv, TypeOK, ThreadsOK, Callers
  <2> QED BY <2>1, <2>2 DEF AtCell, StartPcs, StopPcs
<1>4. CASE ~(InitializeCall(boss) \/ StopCall(boss) \/ StartStep(boss) \/ StopStep(boss))
  <2>1. pc'[boss] = pc[boss] /\ mgr'[boss] = mgr[boss]
    BY <1>4, OwnMoves DEF StartPcs, StopPcs
  <2>2. cell' = cell
    BY <1>4, MonFrame, ProxyFrame, EnvironmentFrame DEF Next
  <2> QED BY <2>1, <2>2 DEF AtCell
<1> QED BY <1>1, <1>2, <1>3, <1>4

\* A step keeps AllKnown: a trace-agent goes from hand to hand, and the last hand collects it.
LEMMA KnownNext ==
  ASSUME RInv, RefInv, RdyInv, PlanAt, EmptyInv, AllKnown, Next
  PROVE  AllKnown'
<1> USE DEF RInv, IInv
<1> SUFFICES ASSUME NEW p \in Pids, Alive(p)', proc'[p].name = "trace"
             PROVE  \E m \in Managers : Known(p, m)'
  BY DEF AllKnown
<1> DEFINE Somewhere == \E m \in Managers : Known(p, m)'
<1>1. ASSUME NEW c \in Controllers, held'[c] = p, mgr'[c] \in Managers PROVE Somewhere
  BY <1>1 DEF Known
<1>2. CASE proc[p].st = "free"
  <2>1. proc'[p].st # "free"
    BY DEF Alive
  <2>2. ASSUME NEW c \in Controllers, StartSpawn(c) PROVE Somewhere
    <3>1. PICK x \in Pids : Launch(c, mgr[c], turn[c], x) /\ held' = [held EXCEPT ![c] = x]
      BY <2>2 DEF StartSpawn
    <3>2. x = p
      BY <1>2, <2>1, <3>1 DEF Launch, TypeInv, TypeOK, SystemOK
    <3>3. held'[c] = p /\ mgr'[c] \in Managers
      BY <2>2, <3>1, <3>2 DEF StartSpawn, TypeInv, TypeOK, ThreadsOK, MgrOK, Callers
    <3> QED BY <1>1, <3>3
  <2>3. ASSUME NEW m \in Managers, MonSpawn(m) PROVE Somewhere
    <3>1. PICK n \in Names : n = monTurn[m]
      BY DEF TypeInv, TypeOK, MonitorsOK
    <3>2. PICK x \in Pids : Launch(m, m, n, x) /\ Plan(m, n, x)
      BY <2>3, <3>1 DEF MonSpawn
    <3>3. x = p
      BY <1>2, <2>1, <3>2 DEF Launch, TypeInv, TypeOK, SystemOK
    <3>4. n = "trace"
      BY <3>2, <3>3 DEF Launch, TypeInv, TypeOK, SystemOK
    <3>5. plan'[m]["trace"] = p
      BY <3>2, <3>3, <3>4 DEF Plan, TypeInv, TypeOK, MonitorsOK
    <3> QED BY <3>5 DEF Known
  <2> HIDE DEF Somewhere
  <2>4. Somewhere
    BY <1>2, <2>1, <2>2, <2>3, OnlySpawns
  <2> QED BY <2>4 DEF Somewhere
<1>3. CASE proc[p].st # "free"
  <2>1. Alive(p) /\ proc[p].name = "trace"
    BY <1>3, ProcKept
  <2>2. PICK m \in Managers : Known(p, m)
    BY <2>1 DEF AllKnown
  <2>3. CASE child[m]["trace"] = p
    <3>1. child'[m]["trace"] = p \/ \E c \in Controllers : held'[c] = p
      BY <1>3, <2>3, SlotKept DEF Names
    <3>2. ASSUME NEW c \in Controllers, held'[c] = p, child'[m]["trace"] # p
          PROVE  mgr'[c] \in Managers
      <4>1. KillBegin(c) \/ held[c] = p
        <5>1. CASE KillBegin(c)
          BY <5>1
        <5>2. CASE ~KillBegin(c)
          <6>1. held'[c] \in {held[c], None} \/ StartSpawn(c)
            BY <5>2, HandsKept DEF InitializeCall, StopCall, StartStep, StopStep, StartBegin,
               StartTick, StartSpawnFails, StartCommit, StartMonitor, StartMonitorPanics,
               StopSwap, StopNotify, StopJoin, KillEnd, StopClear, StopReset, TypeInv, TypeOK,
               ThreadsOK
          <6>2. ~StartSpawn(c)
            <7> SUFFICES ASSUME StartSpawn(c) PROVE FALSE
              OBVIOUS
            <7>1. PICK x \in Pids : /\ Launch(c, mgr[c], turn[c], x)
                                    /\ held' = [held EXCEPT ![c] = x]
              BY DEF StartSpawn
            <7> QED BY <1>3, <3>2, <7>1 DEF Launch, TypeInv, TypeOK, ThreadsOK
          <6> QED BY <3>2, <6>1, <6>2, NoneAssumption
        <5> QED BY <5>1, <5>2
      <4>2. CASE KillBegin(c)
        BY <4>2 DEF KillBegin, TypeInv, MgrOK, Callers
      <4>3. CASE held[c] = p
        <5>1. mgr[c] \in Managers /\ pc[c] \in {"commit", "killing"}
          BY <4>3 DEF RefInv, HeldRef, TypeInv, MgrOK, Callers
        <5>2. mgr'[c] = mgr[c]
          BY <5>1, OwnMoves DEF InitializeCall, StopCall, StartStep, StopStep, StartBegin,
             StartTick, StartSpawn, StartSpawnFails, StartCommit, StartMonitor,
             StartMonitorPanics, StopSwap, StopNotify, StopJoin, KillBegin, KillEnd, StopClear,
             StopReset
        <5> QED BY <5>1, <5>2
      <4> QED BY <4>1, <4>2, <4>3
    <3> QED BY <1>1, <3>1, <3>2 DEF Known
  <2>4. CASE plan[m]["trace"] = p
    <3>1. plan'[m]["trace"] = p \/ child'[m]["trace"] = p
      BY <1>3, <2>4, LocalKept DEF Names
    <3> QED BY <3>1 DEF Known
  <2>5. ASSUME NEW c \in Controllers, held[c] = p PROVE Somewhere
    <3>1. /\ pc[c] \in {"commit", "killing"} /\ mgr[c] \in Managers
          /\ turn[c] = "trace"
      BY <2>1, <2>5 DEF RefInv, HeldRef, Owned, TypeInv, MgrOK, Callers
    <3>2. CASE StartCommit(c)
      <4>1. child' = [child EXCEPT ![mgr[c]]["trace"] = p]
        BY <2>5, <3>1, <3>2 DEF StartCommit, FillSlot
      <4>2. child'[mgr[c]]["trace"] = p
        BY <3>1, <4>1 DEF TypeInv, TypeOK, ManagersOK, Names
      <4> QED BY <3>1, <4>2 DEF Known
    <3>3. ~KillEnd(c)
      BY <2>5 DEF KillEnd, NoProc, Alive, TypeInv, TypeOK, SystemOK
    <3>4. CASE ~StartCommit(c)
      <4>1. ~(InitializeCall(c) \/ StopCall(c) \/ StartStep(c) \/ StopStep(c))
        BY <3>1, <3>3, <3>4 DEF InitializeCall, StopCall, StartStep, StopStep, StartBegin,
           StartTick, StartSpawn, StartSpawnFails, StartMonitor, StartMonitorPanics, StopSwap,
           StopNotify, StopJoin, KillBegin, StopClear, StopReset
      <4>2. mgr'[c] = mgr[c]
        BY <3>1, <4>1, OwnMoves
      <4>3. held'[c] = held[c]
        BY <4>1, HandsKept
      <4> QED BY <1>1, <2>5, <3>1, <4>2, <4>3
    <3> QED BY <3>2, <3>4
  <2> QED BY <2>2, <2>3, <2>4, <2>5 DEF Known
<1> QED BY <1>2, <1>3

\* Where a single controller has a trace-agent, it has no other.
LEMMA OnePlace ==
  ASSUME RInv, RefInv, RdyInv, SlotsInv, NEW boss, Controllers = {boss}, AtCell,
         NEW p \in Pids, NEW q \in Pids, proc[p].name = "trace", proc[q].name = "trace",
         NEW m \in Managers, NEW k \in Managers, Known(p, m), Known(q, k)
  PROVE  p = q
<1> USE DEF RInv, IInv, SlotsInv
<1>1. p # None /\ q # None
  BY NoneAssumption
<1>2. ASSUME NEW x \in Pids, proc[x].name = "trace", held[boss] = x
      PROVE  /\ mgr[boss] = cell /\ cell \in Managers
             /\ child[cell]["trace"] = None /\ plan[cell]["trace"] \notin Pids
  <2>1. pc[boss] \in {"commit", "killing"} /\ turn[boss] = "trace" /\ mgr[boss] \in Managers
    BY <1>2 DEF RefInv, HeldRef, Owned, TypeInv, MgrOK, Callers
  <2>2. mgr[boss] = cell
    BY <2>1 DEF AtCell, StartPcs, StopPcs
  <2>3. child[cell]["trace"] = None
    BY <2>1, <2>2 DEF EmptyInv, KillInv
  <2>4. mon[cell] \in {"off", "done"}
    <3>1. CASE pc[boss] = "commit"
      BY <2>1, <2>2, <3>1 DEF RdyInv, StartOff, StartPcs
    <3>2. CASE pc[boss] = "killing"
      <4>1. ~shouldRun[cell] /\ ~Draining(cell)
        BY <2>1, <2>2, <3>2 DEF StopInv, Stopping, StopPcs, Draining
      <4> QED BY <2>1, <2>2, <4>1 DEF MonInv
    <3> QED BY <2>1, <3>1, <3>2
  <2>5. plan[cell]["trace"] \notin Pids
    BY <2>1, <2>2, <2>4 DEF RdyInv, TraceInv, Planned
  <2> QED BY <2>1, <2>2, <2>3, <2>5
<1>3. ASSUME NEW x \in Pids, NEW j \in Managers, plan[j]["trace"] = x
      PROVE  j = cell /\ child[j]["trace"] = None
  <2>1. mon[j] \notin {"off", "done"}
    BY <1>3 DEF RdyInv, TraceInv, Planned
  <2>2. shouldRun[j] \/ Draining(j)
    BY <2>1 DEF MonInv
  <2>3. j = cell
    BY <2>2 DEF OneActive, Draining, AtCell, StopPcs
  <2>4. child[j]["trace"] = None
    BY <1>3, NoneAssumption DEF EmptyInv, Names
  <2> QED BY <2>3, <2>4
<1>4. ASSUME NEW x \in Pids, NEW j \in Managers, child[j]["trace"] = x PROVE j = cell
  <2>1. ~(j > cell) /\ ~Closed(j)
    BY <1>4, NoneAssumption DEF ClosedInv, Names
  <2>2. j <= cell
    BY <2>1, BoundsAssumption DEF Managers, TypeInv, TypeOK, GlobalsOK
  <2>3. shouldRun[j] \/ Draining(j) \/ Killing(j)
    BY <2>1, <2>2 DEF Closed
  <2> QED BY <2>3 DEF OneActive, Draining, Killing, AtCell, StopPcs
<1>5. /\ child[m]["trace"] = p \/ plan[m]["trace"] = p \/ held[boss] = p
      /\ child[k]["trace"] = q \/ plan[k]["trace"] = q \/ held[boss] = q
  BY DEF Known
<1> QED BY <1>1, <1>2, <1>3, <1>4, <1>5

\* A host that starts and stops its sessions from one thread never has two trace-agents on the one
\* endpoint: not across a respawn, not across a restart, and not after a stop() that met a spawn.
THEOREM OneTraceAgentAlways ==
  ASSUME NEW CONSTANT boss, Controllers = {boss}
  PROVE  Spec => []OneTraceAgent
<1>1. Init => AtCell /\ AllKnown
  BY DEF Init, NoProc, Alive, AtCell, AllKnown, Callers, StartPcs, StopPcs
<1>2. RInv /\ RefInv /\ RdyInv /\ SlotsInv /\ AtCell /\ AllKnown /\ [Next]_vars
        => AtCell' /\ AllKnown'
  <2> SUFFICES ASSUME RInv, RefInv, RdyInv, SlotsInv, AtCell, AllKnown, [Next]_vars
               PROVE  AtCell' /\ AllKnown'
    OBVIOUS
  <2>1. CASE Next
    BY <2>1, AtCellNext, KnownNext DEF RInv, IInv, SlotsInv
  <2>2. CASE UNCHANGED vars
    BY <2>2 DEF vars, globals, managers, threads, monitors, system, Alive, AtCell, AllKnown, Known
  <2> QED BY <2>1, <2>2
<1>3. RInv /\ RefInv /\ RdyInv /\ SlotsInv /\ AtCell /\ AllKnown => OneTraceAgent
  <2> SUFFICES ASSUME RInv, RefInv, RdyInv, SlotsInv, AtCell, AllKnown PROVE OneTraceAgent
    OBVIOUS
  <2> DEFINE Agents == {p \in Pids : Alive(p) /\ proc[p].name = "trace"}
  <2>1. ASSUME NEW p \in Agents, NEW q \in Agents PROVE p = q
    <3>1. PICK m \in Managers : Known(p, m)
      BY DEF AllKnown
    <3>2. PICK k \in Managers : Known(q, k)
      BY DEF AllKnown
    <3> QED BY <3>1, <3>2, OnePlace
  <2>2. CASE Agents = {}
    BY <2>2, FS_EmptySet DEF OneTraceAgent
  <2>3. CASE Agents # {}
    <3>1. PICK p : Agents = {p}
      BY <2>1, <2>3
    <3>2. Cardinality(Agents) = 1
      BY <3>1, FS_Singleton
    <3> QED BY <3>2 DEF OneTraceAgent
  <2> QED BY <2>2, <2>3
<1> QED BY <1>1, <1>2, <1>3, RInvAlways, RefAlways, RdyAlways, SlotsAlways, PTL DEF Spec

=============================================================================
