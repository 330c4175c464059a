-------------------------- MODULE LifecycleProofs --------------------------
(***************************************************************************)
(* The safety of the lifecycle core for any number of threads, sessions    *)
(* and pids. TypeOK is not inductive alone: a step indexes the tables by   *)
(* the manager a thread works on, so MgrOK says that a thread inside a     *)
(* call has one. Then the mutex of GLOBAL_MANAGER is held across start()   *)
(* (CellInv), start_stop_lock across start() and stop() (LockInv), so      *)
(* should_run is stable while either is at work (RunInv), and a monitor    *)
(* thread outlives should_run only until the stop() that cleared it has    *)
(* joined it (MonInv). Last, whoever refers to a child owns it: a slot,    *)
(* the monitor's locals and a thread's hands are disjoint (RefInv), and    *)
(* readiness is withdrawn between each spawn and its commit (RdyInv).      *)
(* Only start() itself is at work on a manager that starts (WaitInv), so   *)
(* the threads can be ranked such that each waits only for lower ones      *)
(* (Rank).                                                                 *)
(***************************************************************************)
EXTENDS Lifecycle, FiniteSetTheorems, TLAPS

(***************************************************************************)
(* Types                                                                   *)
(***************************************************************************)
\* A thread inside initialize(), stop() or a proxy call works on a real manager.
MgrOK == \A t \in Callers : pc[t] \notin {"idle", "gone"} => mgr[t] \in Managers
\* TypeOK and what makes it inductive.
TypeInv == TypeOK /\ MgrOK

\* A function updated at one argument with a value of its range keeps its type.
LEMMA Update == ASSUME NEW S, NEW T, NEW f \in [S -> T], NEW a, NEW v \in T
                PROVE  [f EXCEPT ![a] = v] \in [S -> T]
OBVIOUS

\* The same for a function of functions, updated at two arguments.
LEMMA Update2 == ASSUME NEW R, NEW S, NEW T, NEW f \in [R -> [S -> T]],
                        NEW a \in R, NEW b, NEW v \in T
                 PROVE  [f EXCEPT ![a][b] = v] \in [R -> [S -> T]]
OBVIOUS

\* A child slot filled with a process or emptied keeps the type of child.
LEMMA SlotUpdate ==
  ASSUME ManagersOK, NEW m \in Managers, NEW n \in Names, NEW x \in Pids \cup {None}
  PROVE  [child EXCEPT ![m][n] = x] \in [Managers -> [Names -> Pids \cup {None}]]
BY DEF ManagersOK

\* Manager numbers are positive: a non-zero cell value is a manager.
LEMMA ZeroIsNoManager ==
  Managers \subseteq 0..MaxManagers /\ \A x \in 0..MaxManagers : x # 0 => x \in Managers
BY BoundsAssumption DEF Managers

\* The process records that the actions write are of the process type.
LEMMA ProcRecords ==
  /\ NoProc \in ProcRec
  /\ \A r \in ProcRec : /\ [r EXCEPT !.sig = TRUE] \in ProcRec
                        /\ [r EXCEPT !.st = "serving"] \in ProcRec
                        /\ [r EXCEPT !.st = "silent"] \in ProcRec
                        /\ [r EXCEPT !.st = "zombie", !.thr = None] \in ProcRec
  /\ \A n \in Names, m \in Managers, t \in Controllers \cup Managers \cup {None} :
       [st |-> "silent", name |-> n, by |-> m, thr |-> t, sig |-> FALSE] \in ProcRec
<1> USE DEF ProcRec
<1>1. NoProc \in ProcRec
  BY BoundsAssumption DEF NoProc, Names
<1>2. ASSUME NEW r \in ProcRec
      PROVE  /\ [r EXCEPT !.sig = TRUE] \in ProcRec
             /\ [r EXCEPT !.st = "serving"] \in ProcRec
             /\ [r EXCEPT !.st = "silent"] \in ProcRec
             /\ [r EXCEPT !.st = "zombie", !.thr = None] \in ProcRec
  OBVIOUS
<1>3. ASSUME NEW n \in Names, NEW m \in Managers, NEW t \in Controllers \cup Managers \cup {None}
      PROVE  [st |-> "silent", name |-> n, by |-> m, thr |-> t, sig |-> FALSE] \in ProcRec
  BY ZeroIsNoManager
<1> QED BY <1>1, <1>2, <1>3

\* spawn_process leaves a well-typed process table and history.
LEMMA LaunchType ==
  ASSUME SystemOK, NEW t \in Controllers \cup Managers, NEW m \in Managers,
         NEW n \in Names, NEW p \in Pids, Launch(t, m, n, p)
  PROVE  /\ proc' \in [Pids -> ProcRec]
         /\ seen' \in [Managers -> BOOLEAN]
<1>1. [st |-> "silent", name |-> n, by |-> m, thr |-> IF PDeathSig THEN t ELSE None,
       sig |-> FALSE] \in ProcRec
  BY ProcRecords
<1>2. proc' \in [Pids -> ProcRec]
  BY <1>1, Update DEF Launch, SystemOK
<1>3. seen' \in [Managers -> BOOLEAN]
  BY Update DEF Launch, SystemOK
<1> QED BY <1>2, <1>3

\* Collecting a dead child leaves well-typed slots and process table.
LEMMA ReapType ==
  ASSUME ManagersOK, SystemOK, NEW m \in Managers, NEW n \in Names, ReapSlot(m, n)
  PROVE  /\ child' \in [Managers -> [Names -> Pids \cup {None}]]
         /\ proc' \in [Pids -> ProcRec]
<1>1. child' \in [Managers -> [Names -> Pids \cup {None}]]
  BY Update2 DEF ReapSlot, ManagersOK
<1>2. proc' \in [Pids -> ProcRec]
  BY Update, ProcRecords DEF ReapSlot, SystemOK
<1> QED BY <1>1, <1>2

\* The death signal that a thread exit sends leaves a well-typed process table.
LEMMA OrphanType == ASSUME SystemOK, NEW t PROVE AfterDeathOf(t) \in [Pids -> ProcRec]
BY ProcRecords DEF AfterDeathOf, SystemOK

\* The strengthened type invariant holds before the first initialize().
LEMMA TypeInit == Init => TypeInv
<1> SUFFICES ASSUME Init PROVE TypeInv
  OBVIOUS
<1> USE DEF Init
<1>1. cell \in 0..MaxManagers
  BY BoundsAssumption
<1>1a. GlobalsOK
  BY <1>1, Zenon DEF GlobalsOK
<1>2. ManagersOK BY DEF ManagersOK
<1>3. ThreadsOK BY BoundsAssumption DEF ThreadsOK, First, Names
<1>4. MonitorsOK BY DEF MonitorsOK, First, Names, NoPlan, MonPcs
<1>5. SystemOK BY ProcRecords DEF SystemOK
<1>6. MgrOK BY DEF MgrOK
<1> QED BY <1>1a, <1>2, <1>3, <1>4, <1>5, <1>6 DEF TypeInv, TypeOK

\* A InitializeCall step keeps every type.
LEMMA InitializeCallType == ASSUME TypeInv, NEW c \in Controllers, InitializeCall(c) PROVE TypeInv'
<1> USE DEF TypeInv, TypeOK, InitializeCall
<1>1. cell + 1 \in Managers
  BY BoundsAssumption DEF GlobalsOK, Managers
<1>2. GlobalsOK'
  BY <1>1, SwitchAssumption, BoundsAssumption DEF GlobalsOK, LockCell
<1>3. ThreadsOK'
  BY <1>1, ZeroIsNoManager DEF ThreadsOK, Goto, Callers, StartPcs, StopPcs, ProxyPcs
<1>4. ManagersOK' /\ MonitorsOK' /\ SystemOK'
  BY DEF ManagersOK, managers, MonitorsOK, monitors, SystemOK, system
<1>5. MgrOK'
  BY <1>1 DEF MgrOK, ThreadsOK, Callers, Goto
<1> QED BY <1>2, <1>3, <1>4, <1>5

\* A StopCall step keeps every type.
LEMMA StopCallType == ASSUME TypeInv, NEW c \in Controllers, StopCall(c) PROVE TypeInv'
<1> USE DEF TypeInv, TypeOK, StopCall
<1>1. cell \in Managers /\ Managers \subseteq 0..MaxManagers
  BY ZeroIsNoManager DEF GlobalsOK
<1>2. ThreadsOK'
  BY <1>1 DEF ThreadsOK, Goto, Callers, StartPcs, StopPcs, ProxyPcs
<1>3. GlobalsOK' /\ ManagersOK' /\ MonitorsOK' /\ SystemOK'
  BY DEF GlobalsOK, globals, ManagersOK, managers, MonitorsOK, monitors, SystemOK, system
<1>4. MgrOK'
  BY <1>1 DEF MgrOK, ThreadsOK, Callers, Goto
<1> QED BY <1>2, <1>3, <1>4

\* A StartBegin step keeps every type.
LEMMA StartBeginType == ASSUME TypeInv, NEW c \in Controllers, StartBegin(c) PROVE TypeInv'
<1> USE DEF TypeInv, TypeOK, StartBegin
<1>1. turn[c] \in Names /\ mgr[c] \in Managers
  BY DEF MgrOK, ThreadsOK, Callers
<1>2. GlobalsOK'
  BY <1>1, Zenon DEF GlobalsOK
<1>3. ManagersOK'
  BY <1>1 DEF ManagersOK, ResetReadiness
<1>4. ThreadsOK'
  BY <1>1 DEF ThreadsOK, Goto, Callers, StartPcs, StopPcs, ProxyPcs
<1>5. MonitorsOK' /\ SystemOK'
  BY DEF MonitorsOK, monitors, SystemOK, system
<1>6. MgrOK'
  BY <1>1 DEF MgrOK, ThreadsOK, Callers, Goto
<1> QED BY <1>2, <1>3, <1>4, <1>5, <1>6

\* A StartTick step keeps every type.
LEMMA StartTickType == ASSUME TypeInv, NEW c \in Controllers, StartTick(c) PROVE TypeInv'
<1> USE DEF TypeInv, TypeOK, StartTick
<1>1. turn[c] \in Names /\ mgr[c] \in Managers
  BY DEF MgrOK, ThreadsOK, Callers
<1>2. ManagersOK'
  BY <1>1, ReapType DEF ManagersOK
<1>3. ThreadsOK'
  BY <1>1 DEF ThreadsOK, Advance, Goto, Callers, StartPcs, StopPcs, First, Names
<1>4. SystemOK'
  BY <1>1, ReapType DEF SystemOK
<1>5. GlobalsOK' /\ MonitorsOK'
  BY DEF GlobalsOK, globals, MonitorsOK, monitors
<1>6. MgrOK'
  BY <1>1 DEF MgrOK, ThreadsOK, Callers, Goto, Advance
<1> QED BY <1>2, <1>3, <1>4, <1>5, <1>6

\* A StartSpawn step keeps every type.
LEMMA StartSpawnType == ASSUME TypeInv, NEW c \in Controllers, StartSpawn(c) PROVE TypeInv'
<1> USE DEF TypeInv, TypeOK, StartSpawn
<1>1. turn[c] \in Names /\ mgr[c] \in Managers
  BY DEF MgrOK, ThreadsOK, Callers
<1>2. ThreadsOK'
  BY <1>1 DEF ThreadsOK, Goto, Callers, StartPcs, StopPcs, ProxyPcs
<1>3. SystemOK'
  BY <1>1, LaunchType DEF SystemOK
<1>4. GlobalsOK' /\ ManagersOK' /\ MonitorsOK'
  BY DEF GlobalsOK, globals, ManagersOK, managers, MonitorsOK, monitors
<1>5. MgrOK'
  BY <1>1 DEF MgrOK, ThreadsOK, Callers, Goto
<1> QED BY <1>2, <1>3, <1>4, <1>5

\* A StartSpawnFails step keeps every type.
LEMMA StartSpawnFailsType ==
  ASSUME TypeInv, NEW c \in Controllers, StartSpawnFails(c) PROVE TypeInv'
<1> USE DEF TypeInv, TypeOK, StartSpawnFails
<1>1. turn[c] \in Names /\ mgr[c] \in Managers
  BY DEF MgrOK, ThreadsOK, Callers
<1>2. ManagersOK'
  BY <1>1 DEF ManagersOK
<1>3. ThreadsOK'
  BY <1>1 DEF ThreadsOK, Advance, Goto, Callers, StartPcs, StopPcs, First, Names
<1>4. GlobalsOK' /\ MonitorsOK' /\ SystemOK'
  BY DEF GlobalsOK, globals, MonitorsOK, monitors, SystemOK, system
<1>5. MgrOK'
  BY <1>1 DEF MgrOK, ThreadsOK, Callers, Goto, Advance
<1> QED BY <1>2, <1>3, <1>4, <1>5

\* A StartCommit step keeps every type.
LEMMA StartCommitType == ASSUME TypeInv, NEW c \in Controllers, StartCommit(c) PROVE TypeInv'
<1> USE DEF TypeInv, TypeOK, StartCommit
<1>1. turn[c] \in Names /\ mgr[c] \in Managers
  BY DEF MgrOK, ThreadsOK, Callers
<1>2. ManagersOK'
  BY <1>1, Update2 DEF ManagersOK, ResetReadiness, FillSlot, ThreadsOK
<1>3. ThreadsOK'
  BY <1>1 DEF ThreadsOK, Advance, Goto, Callers, StartPcs, StopPcs, First, Names
<1>4. GlobalsOK' /\ MonitorsOK' /\ SystemOK'
  BY DEF GlobalsOK, globals, MonitorsOK, monitors, SystemOK, system
<1>5. MgrOK'
  BY <1>1 DEF MgrOK, ThreadsOK, Callers, Goto, Advance
<1> QED BY <1>2, <1>3, <1>4, <1>5

\* A StartMonitor step keeps every type.
LEMMA StartMonitorType == ASSUME TypeInv, NEW c \in Controllers, StartMonitor(c) PROVE TypeInv'
<1> USE DEF TypeInv, TypeOK, StartMonitor
<1>1. turn[c] \in Names /\ mgr[c] \in Managers
  BY DEF MgrOK, ThreadsOK, Callers
<1>2. GlobalsOK'
  BY <1>1, Zenon DEF GlobalsOK
<1>3. ManagersOK'
  BY <1>1 DEF ManagersOK
<1>4. ThreadsOK'
  BY <1>1, BoundsAssumption DEF ThreadsOK, Return, Goto, Callers
<1>5. MonitorsOK'
  BY <1>1 DEF MonitorsOK, MonPcs
<1>6. SystemOK'
  BY DEF SystemOK, system
<1>7. MgrOK'
  BY <1>1 DEF MgrOK, ThreadsOK, Callers, Goto, Return
<1> QED BY <1>2, <1>3, <1>4, <1>5, <1>6, <1>7

\* A StartMonitorPanics step keeps every type.
LEMMA StartMonitorPanicsType ==
  ASSUME TypeInv, NEW c \in Controllers, StartMonitorPanics(c) PROVE TypeInv'
<1> USE DEF TypeInv, TypeOK, StartMonitorPanics
<1>1. turn[c] \in Names /\ mgr[c] \in Managers
  BY DEF MgrOK, ThreadsOK, Callers
<1>2. GlobalsOK'
  BY <1>1, Zenon DEF GlobalsOK
<1>3. ManagersOK'
  BY <1>1 DEF ManagersOK
<1>4. ThreadsOK'
  BY <1>1, BoundsAssumption DEF ThreadsOK, Return, Goto, Callers
<1>5. MonitorsOK' /\ SystemOK'
  BY DEF MonitorsOK, monitors, SystemOK, system
<1>6. MgrOK'
  BY <1>1 DEF MgrOK, ThreadsOK, Callers, Goto, Return
<1> QED BY <1>2, <1>3, <1>4, <1>5, <1>6

\* A StopSwap step keeps every type.
LEMMA StopSwapType == ASSUME TypeInv, NEW c \in Controllers, StopSwap(c) PROVE TypeInv'
<1> USE DEF TypeInv, TypeOK, StopSwap
<1>1. turn[c] \in Names /\ mgr[c] \in Managers
  BY DEF MgrOK, ThreadsOK, Callers
<1>2. ManagersOK'
  BY <1>1 DEF ManagersOK, ClearShouldRun
<1>3. ThreadsOK'
  BY <1>1, BoundsAssumption DEF ThreadsOK, Return, Goto, Callers, StopPcs
<1>4. GlobalsOK' /\ MonitorsOK' /\ SystemOK'
  BY DEF GlobalsOK, globals, MonitorsOK, monitors, SystemOK, system
<1>5. MgrOK'
  BY <1>1 DEF MgrOK, ThreadsOK, Callers, Goto, Return
<1> QED BY <1>2, <1>3, <1>4, <1>5

\* A StopNotify step keeps every type.
LEMMA StopNotifyType == ASSUME TypeInv, NEW c \in Controllers, StopNotify(c) PROVE TypeInv'
<1> USE DEF TypeInv, TypeOK, StopNotify
<1>1. turn[c] \in Names /\ mgr[c] \in Managers
  BY DEF MgrOK, ThreadsOK, Callers
<1>2. ThreadsOK'
  BY <1>1 DEF ThreadsOK, Goto, Callers, StartPcs, StopPcs, ProxyPcs
<1>3. MonitorsOK'
  BY <1>1 DEF MonitorsOK, MonPcs
<1>4. GlobalsOK' /\ ManagersOK' /\ SystemOK'
  BY DEF GlobalsOK, globals, ManagersOK, managers, SystemOK, system
<1>5. MgrOK'
  BY <1>1 DEF MgrOK, ThreadsOK, Callers, Goto
<1> QED BY <1>2, <1>3, <1>4, <1>5

\* A StopJoin step keeps every type.
LEMMA StopJoinType == ASSUME TypeInv, NEW c \in Controllers, StopJoin(c) PROVE TypeInv'
<1> USE DEF TypeInv, TypeOK, StopJoin
<1>1. turn[c] \in Names /\ mgr[c] \in Managers
  BY DEF MgrOK, ThreadsOK, Callers
<1>2. ThreadsOK'
  BY <1>1 DEF ThreadsOK, Goto, Callers, StartPcs, StopPcs, ProxyPcs
<1>3. GlobalsOK' /\ ManagersOK' /\ MonitorsOK' /\ SystemOK'
  BY DEF GlobalsOK, globals, ManagersOK, managers, MonitorsOK, monitors, SystemOK, system
<1>4. MgrOK'
  BY <1>1 DEF MgrOK, ThreadsOK, Callers, Goto
<1> QED BY <1>2, <1>3, <1>4

\* A KillBegin step keeps every type.
LEMMA KillBeginType == ASSUME TypeInv, NEW c \in Controllers, KillBegin(c) PROVE TypeInv'
<1> USE DEF TypeInv, TypeOK, KillBegin
<1>1. /\ turn[c] \in Names /\ mgr[c] \in Managers
       /\ child[mgr[c]][turn[c]] \in Pids \cup {None}
  BY DEF MgrOK, ThreadsOK, ManagersOK, Callers
<1>2. ManagersOK'
  <2>1. child' = child \/ child' = [child EXCEPT ![mgr[c]][turn[c]] = None]
    BY DEF TakeSlot
  <2>2. child' \in [Managers -> [Names -> Pids \cup {None}]]
    <3>1. [child EXCEPT ![mgr[c]][turn[c]] = None]
            \in [Managers -> [Names -> Pids \cup {None}]]
      BY <1>1, SlotUpdate
    <3> QED BY <2>1, <3>1 DEF ManagersOK
  <2> QED BY <2>2 DEF ManagersOK
<1>3. ThreadsOK'
  BY <1>1 DEF ThreadsOK, Advance, Goto, Callers, StartPcs, StopPcs, First, Names
<1>4. SystemOK'
  <2> DEFINE p == child[mgr[c]][turn[c]]
  <2>1. CASE p = None
    BY <2>1 DEF SystemOK
  <2>2. CASE p # None
    <3>1. [proc[p] EXCEPT !.sig = TRUE] \in ProcRec
      BY <1>1, <2>2, ProcRecords DEF SystemOK
    <3>2. proc' \in [Pids -> ProcRec]
      BY <2>2, <3>1, Update DEF SystemOK
    <3> QED BY <3>2 DEF SystemOK
  <2> QED BY <2>1, <2>2
<1>5. GlobalsOK' /\ MonitorsOK'
  BY DEF GlobalsOK, globals, MonitorsOK, monitors
<1>6. MgrOK'
  BY <1>1 DEF MgrOK, ThreadsOK, Callers, Goto, Advance
<1> QED BY <1>2, <1>3, <1>4, <1>5, <1>6

\* A KillEnd step keeps every type.
LEMMA KillEndType == ASSUME TypeInv, NEW c \in Controllers, KillEnd(c) PROVE TypeInv'
<1> USE DEF TypeInv, TypeOK, KillEnd
<1>1. turn[c] \in Names /\ mgr[c] \in Managers
  BY DEF MgrOK, ThreadsOK, Callers
<1>2. ThreadsOK'
  BY <1>1 DEF ThreadsOK, Advance, Goto, Callers, StartPcs, StopPcs, First, Names
<1>3. SystemOK'
  BY <1>1, Update, ProcRecords DEF SystemOK
<1>4. GlobalsOK' /\ ManagersOK' /\ MonitorsOK'
  BY DEF GlobalsOK, globals, ManagersOK, managers, MonitorsOK, monitors
<1>5. MgrOK'
  BY <1>1 DEF MgrOK, ThreadsOK, Callers, Goto, Advance
<1> QED BY <1>2, <1>3, <1>4, <1>5

\* A StopClear step keeps every type.
LEMMA StopClearType == ASSUME TypeInv, NEW c \in Controllers, StopClear(c) PROVE TypeInv'
<1> USE DEF TypeInv, TypeOK, StopClear
<1>1. turn[c] \in Names /\ mgr[c] \in Managers
  BY DEF MgrOK, ThreadsOK, Callers
<1>2. GlobalsOK'
  BY <1>1, Zenon DEF GlobalsOK
<1>3. ThreadsOK'
  BY <1>1 DEF ThreadsOK, Goto, Callers, StartPcs, StopPcs, ProxyPcs
<1>4. ManagersOK' /\ MonitorsOK' /\ SystemOK'
  BY DEF ManagersOK, managers, MonitorsOK, monitors, SystemOK, system
<1>5. MgrOK'
  BY <1>1 DEF MgrOK, ThreadsOK, Callers, Goto
<1> QED BY <1>2, <1>3, <1>4, <1>5

\* A StopReset step keeps every type.
LEMMA StopResetType == ASSUME TypeInv, NEW c \in Controllers, StopReset(c) PROVE TypeInv'
<1> USE DEF TypeInv, TypeOK, StopReset
<1>1. turn[c] \in Names /\ mgr[c] \in Managers
  BY DEF MgrOK, ThreadsOK, Callers
<1>2. ManagersOK'
  BY <1>1 DEF ManagersOK, ResetReadiness
<1>3. ThreadsOK'
  BY <1>1, BoundsAssumption DEF ThreadsOK, Return, Goto, Callers
<1>4. GlobalsOK' /\ MonitorsOK' /\ SystemOK'
  BY DEF GlobalsOK, globals, MonitorsOK, monitors, SystemOK, system
<1>5. MgrOK'
  BY <1>1 DEF MgrOK, ThreadsOK, Callers, Goto, Return
<1> QED BY <1>2, <1>3, <1>4, <1>5

\* A ProxyGet step keeps every type.
LEMMA ProxyGetType == ASSUME TypeInv, NEW q \in Proxies, ProxyGet(q) PROVE TypeInv'
<1> USE DEF TypeInv, TypeOK, ProxyGet
<1>1. cell \in Managers /\ Managers \subseteq 0..MaxManagers
  BY ZeroIsNoManager DEF GlobalsOK
<1>2. ThreadsOK'
  BY <1>1 DEF ThreadsOK, Goto, Callers, StartPcs, StopPcs, ProxyPcs
<1>3. GlobalsOK' /\ ManagersOK' /\ MonitorsOK' /\ SystemOK'
  BY DEF GlobalsOK, globals, ManagersOK, managers, MonitorsOK, monitors, SystemOK, system
<1>4. MgrOK'
  BY <1>1 DEF MgrOK, ThreadsOK, Callers, Goto
<1> QED BY <1>2, <1>3, <1>4

\* A ProxyEnter step keeps every type.
LEMMA ProxyEnterType == ASSUME TypeInv, NEW q \in Proxies, ProxyEnter(q) PROVE TypeInv'
<1> USE DEF TypeInv, TypeOK, ProxyEnter
<1>1. mgr[q] \in Managers
  BY DEF MgrOK, ThreadsOK, Callers
<1>2. ManagersOK'
  BY <1>1 DEF ManagersOK
<1>3. ThreadsOK'
  BY <1>1, BoundsAssumption DEF ThreadsOK, Return, Goto, Callers, ProxyPcs
<1>4. GlobalsOK' /\ MonitorsOK' /\ SystemOK'
  BY DEF GlobalsOK, globals, MonitorsOK, monitors, SystemOK, system
<1>5. MgrOK'
  BY <1>1 DEF MgrOK, ThreadsOK, Callers, Goto, Return
<1> QED BY <1>2, <1>3, <1>4, <1>5

\* A ProxyLook step keeps every type.
LEMMA ProxyLookType == ASSUME TypeInv, NEW q \in Proxies, ProxyLook(q) PROVE TypeInv'
<1> USE DEF TypeInv, TypeOK, ProxyLook
<1>1. mgr[q] \in Managers
  BY DEF MgrOK, ThreadsOK, Callers
<1>2. ManagersOK'
  BY <1>1 DEF ManagersOK, UnlockReady
<1>3. ThreadsOK'
  BY <1>1, BoundsAssumption DEF ThreadsOK, Return, Goto, Callers, ProxyPcs
<1>4. GlobalsOK' /\ MonitorsOK' /\ SystemOK'
  BY DEF GlobalsOK, globals, MonitorsOK, monitors, SystemOK, system
<1>5. MgrOK'
  BY <1>1 DEF MgrOK, ThreadsOK, Callers, Goto, Return
<1> QED BY <1>2, <1>3, <1>4, <1>5

\* A ProxyProbe step keeps every type.
LEMMA ProxyProbeType == ASSUME TypeInv, NEW q \in Proxies, ProxyProbe(q) PROVE TypeInv'
<1> USE DEF TypeInv, TypeOK, ProxyProbe
<1>1. mgr[q] \in Managers
  BY DEF MgrOK, ThreadsOK, Callers
<1>2. ManagersOK'
  BY <1>1, SwitchAssumption DEF ManagersOK, UnlockReady, InUse
<1>3. ThreadsOK'
  BY <1>1, BoundsAssumption DEF ThreadsOK, Return, Goto, Callers
<1>4. SystemOK'
  BY <1>1 DEF SystemOK, system, InUse
<1>5. GlobalsOK' /\ MonitorsOK'
  BY DEF GlobalsOK, globals, MonitorsOK, monitors
<1>6. MgrOK'
  BY <1>1 DEF MgrOK, ThreadsOK, Callers, Goto, Return
<1> QED BY <1>2, <1>3, <1>4, <1>5, <1>6

\* A MonTop step keeps every type.
LEMMA MonTopType == ASSUME TypeInv, NEW m \in Managers, MonTop(m) PROVE TypeInv'
<1> USE DEF TypeInv, TypeOK, MonTop
<1>1. monTurn[m] \in Names /\ plan[m] \in [Names -> Pids \cup {"no", "want", "err"}]
  BY DEF MonitorsOK
<1>2. MonitorsOK'
  <2>1. NoPlan \in [Names -> Pids \cup {"no", "want", "err"}] /\ First \in Names
    BY DEF NoPlan, First, Names
  <2>2. CASE KeepsOn(m)
    BY <2>2 DEF MonitorsOK, MonGoto, MonPcs
  <2>3. CASE ~KeepsOn(m)
    <3>1. mon' \in [Managers -> MonPcs]
      BY <2>3 DEF MonitorsOK, MonExit, MonGoto, MonPcs
    <3>2. /\ monTurn' \in [Managers -> Names]
          /\ plan' \in [Managers -> [Names -> Pids \cup {"no", "want", "err"}]]
      <4>1. monTurn' = [monTurn EXCEPT ![m] = First] /\ plan' = [plan EXCEPT ![m] = NoPlan]
        BY <2>3 DEF MonExit
      <4>2. monTurn' \in [Managers -> Names]
        BY <2>1, <4>1, Update DEF MonitorsOK
      <4>3. plan' \in [Managers -> [Names -> Pids \cup {"no", "want", "err"}]]
        BY <2>1, <4>1, Update DEF MonitorsOK
      <4> QED BY <4>2, <4>3
    <3> QED BY <3>1, <3>2 DEF MonitorsOK
  <2> QED BY <2>2, <2>3
<1>3. SystemOK'
  BY <1>1, OrphanType DEF SystemOK, MonExit
<1>4. GlobalsOK' /\ ManagersOK' /\ ThreadsOK'
  BY DEF GlobalsOK, globals, ManagersOK, managers, ThreadsOK, threads
<1>5. MgrOK'
  BY DEF MgrOK, threads
<1> QED BY <1>2, <1>3, <1>4, <1>5

\* A MonCheck step keeps every type.
LEMMA MonCheckType == ASSUME TypeInv, NEW m \in Managers, MonCheck(m) PROVE TypeInv'
<1> USE DEF TypeInv, TypeOK, MonCheck
<1>1. monTurn[m] \in Names /\ plan[m] \in [Names -> Pids \cup {"no", "want", "err"}]
  BY DEF MonitorsOK
<1>2. ManagersOK'
  BY <1>1, ReapType DEF ManagersOK
<1>3. MonitorsOK'
  BY <1>1, Update2 DEF MonitorsOK, MonAdvance, MonGoto, MonPcs, First, Names, Plan
<1>4. SystemOK'
  BY <1>1, ReapType DEF SystemOK
<1>5. GlobalsOK' /\ ThreadsOK'
  BY DEF GlobalsOK, globals, ThreadsOK, threads
<1>6. MgrOK'
  BY DEF MgrOK, threads
<1> QED BY <1>2, <1>3, <1>4, <1>5, <1>6

\* A MonRecheck step keeps every type.
LEMMA MonRecheckType == ASSUME TypeInv, NEW m \in Managers, MonRecheck(m) PROVE TypeInv'
<1> USE DEF TypeInv, TypeOK, MonRecheck
<1>1. monTurn[m] \in Names /\ plan[m] \in [Names -> Pids \cup {"no", "want", "err"}]
  BY DEF MonitorsOK
<1>2. MonitorsOK'
  BY <1>1 DEF MonitorsOK, MonExit, NoPlan, MonAdvance, MonGoto, MonPcs, First, Names
<1>3. SystemOK'
  BY <1>1, OrphanType DEF SystemOK, MonExit
<1>4. GlobalsOK' /\ ManagersOK' /\ ThreadsOK'
  BY DEF GlobalsOK, globals, ManagersOK, managers, ThreadsOK, threads
<1>5. MgrOK'
  BY DEF MgrOK, threads
<1> QED BY <1>2, <1>3, <1>4, <1>5

\* A MonSpawn step keeps every type.
LEMMA MonSpawnType == ASSUME TypeInv, NEW m \in Managers, MonSpawn(m) PROVE TypeInv'
<1> USE DEF TypeInv, TypeOK, MonSpawn
<1>1. monTurn[m] \in Names /\ plan[m] \in [Names -> Pids \cup {"no", "want", "err"}]
  BY DEF MonitorsOK
<1>2. MonitorsOK'
  BY <1>1, Update2 DEF MonitorsOK, MonAdvance, MonGoto, MonPcs, First, Names, Plan
<1>3. SystemOK'
  BY <1>1, LaunchType DEF SystemOK
<1>4. GlobalsOK' /\ ManagersOK' /\ ThreadsOK'
  BY DEF GlobalsOK, globals, ManagersOK, managers, ThreadsOK, threads
<1>5. MgrOK'
  BY DEF MgrOK, threads
<1> QED BY <1>2, <1>3, <1>4, <1>5

\* A MonSpawnFails step keeps every type.
LEMMA MonSpawnFailsType == ASSUME TypeInv, NEW m \in Managers, MonSpawnFails(m) PROVE TypeInv'
<1> USE DEF TypeInv, TypeOK, MonSpawnFails
<1>1. monTurn[m] \in Names /\ plan[m] \in [Names -> Pids \cup {"no", "want", "err"}]
  BY DEF MonitorsOK
<1>2. MonitorsOK'
  BY <1>1, Update2 DEF MonitorsOK, MonAdvance, MonGoto, MonPcs, First, Names, Plan
<1>3. GlobalsOK' /\ ManagersOK' /\ ThreadsOK' /\ SystemOK'
  BY DEF GlobalsOK, globals, ManagersOK, managers, ThreadsOK, threads, SystemOK, system
<1>4. MgrOK'
  BY DEF MgrOK, threads
<1> QED BY <1>2, <1>3, <1>4

\* A MonUnready step keeps every type.
LEMMA MonUnreadyType == ASSUME TypeInv, NEW m \in Managers, MonUnready(m) PROVE TypeInv'
<1> USE DEF TypeInv, TypeOK, MonUnready
<1>1. monTurn[m] \in Names /\ plan[m] \in [Names -> Pids \cup {"no", "want", "err"}]
  BY DEF MonitorsOK
<1>2. ManagersOK'
  BY <1>1 DEF ManagersOK, ResetReadiness
<1>3. MonitorsOK'
  BY <1>1 DEF MonitorsOK, MonGoto, MonPcs
<1>4. GlobalsOK' /\ ThreadsOK' /\ SystemOK'
  BY DEF GlobalsOK, globals, ThreadsOK, threads, SystemOK, system
<1>5. MgrOK'
  BY DEF MgrOK, threads
<1> QED BY <1>2, <1>3, <1>4, <1>5

\* A MonCommit step keeps every type.
LEMMA MonCommitType == ASSUME TypeInv, NEW m \in Managers, MonCommit(m) PROVE TypeInv'
<1> USE DEF TypeInv, TypeOK, MonCommit
<1>1. monTurn[m] \in Names /\ plan[m] \in [Names -> Pids \cup {"no", "want", "err"}]
  BY DEF MonitorsOK
<1>2. ManagersOK'
  <2>1. child' \in [Managers -> [Names -> Pids \cup {None}]]
    <3>1. CASE plan[m][monTurn[m]] \in Pids
      <4>1. child' = [child EXCEPT ![m][monTurn[m]] = plan[m][monTurn[m]]]
        BY <3>1 DEF FillSlot, SpawnedOk
      <4> QED BY <1>1, <3>1, <4>1, Update2 DEF ManagersOK
    <3>2. CASE plan[m][monTurn[m]] \notin Pids
      BY <3>2 DEF ManagersOK, SpawnedOk
    <3> QED BY <3>1, <3>2
  <2>2. backing' \in [Managers -> SUBSET Names]
    BY <1>1 DEF ManagersOK
  <2> QED BY <2>1, <2>2 DEF ManagersOK
<1>3. MonitorsOK'
  BY <1>1, Update2 DEF MonitorsOK, MonAdvance, MonGoto, MonPcs, First, Names, Plan
<1>4. GlobalsOK' /\ ThreadsOK' /\ SystemOK'
  BY DEF GlobalsOK, globals, ThreadsOK, threads, SystemOK, system
<1>5. MgrOK'
  BY DEF MgrOK, threads
<1> QED BY <1>2, <1>3, <1>4, <1>5

\* A MonRearm step keeps every type.
LEMMA MonRearmType == ASSUME TypeInv, NEW m \in Managers, MonRearm(m) PROVE TypeInv'
<1> USE DEF TypeInv, TypeOK, MonRearm
<1>1. monTurn[m] \in Names /\ plan[m] \in [Names -> Pids \cup {"no", "want", "err"}]
  BY DEF MonitorsOK
<1>2. ManagersOK'
  BY <1>1 DEF ManagersOK, ResetReadiness
<1>3. MonitorsOK'
  BY <1>1 DEF MonitorsOK, MonGoto, MonPcs
<1>4. GlobalsOK' /\ ThreadsOK' /\ SystemOK'
  BY DEF GlobalsOK, globals, ThreadsOK, threads, SystemOK, system
<1>5. MgrOK'
  BY DEF MgrOK, threads
<1> QED BY <1>2, <1>3, <1>4, <1>5

\* A MonWake step keeps every type.
LEMMA MonWakeType == ASSUME TypeInv, NEW m \in Managers, MonWake(m) PROVE TypeInv'
<1> USE DEF TypeInv, TypeOK, MonWake
<1>1. monTurn[m] \in Names /\ plan[m] \in [Names -> Pids \cup {"no", "want", "err"}]
  BY DEF MonitorsOK
<1>2. MonitorsOK'
  BY <1>1 DEF MonitorsOK, MonGoto, MonPcs
<1>3. GlobalsOK' /\ ManagersOK' /\ ThreadsOK' /\ SystemOK'
  BY DEF GlobalsOK, globals, ManagersOK, managers, ThreadsOK, threads, SystemOK, system
<1>4. MgrOK'
  BY DEF MgrOK, threads
<1> QED BY <1>2, <1>3, <1>4

\* Nothing the system, the clock or the host does breaks a type.
LEMMA EnvironmentType == ASSUME TypeInv, Environment PROVE TypeInv'
<1> USE DEF TypeInv, TypeOK
<1>1. ASSUME NEW p \in Pids, ProcServe(p) \/ ProcExit(p) PROVE TypeInv'
  <2>1. proc' \in [Pids -> ProcRec]
    <3>1. CASE ProcServe(p)
      <4>1. [proc[p] EXCEPT !.st = IF proc[p].st = "silent" THEN "serving" ELSE "silent"]
              \in ProcRec
        BY ProcRecords DEF SystemOK
      <4> QED BY <3>1, <4>1, Update DEF ProcServe, SystemOK
    <3>2. CASE ProcExit(p)
      BY <3>2, ProcRecords, Update DEF ProcExit, SystemOK
    <3> QED BY <1>1, <3>1, <3>2
  <2>2. UNCHANGED <<globals, managers, threads, monitors, foreign, seen>>
    BY <1>1 DEF ProcServe, ProcExit
  <2> QED BY <2>1, <2>2 DEF GlobalsOK, ManagersOK, ThreadsOK, MonitorsOK, SystemOK, MgrOK,
                            globals, managers, threads, monitors
<1>2. ASSUME NEW m \in Managers, NEW n \in Names, BackoffElapses(m, n) PROVE TypeInv'
  <2>1. ManagersOK'
    BY <1>2 DEF BackoffElapses, ManagersOK
  <2> QED BY <1>2, <2>1 DEF BackoffElapses, GlobalsOK, ThreadsOK, MonitorsOK, SystemOK, MgrOK,
                            globals, threads, monitors, system
<1>3. ASSUME NEW n \in Foreign, ForeignToggles(n) PROVE TypeInv'
  <2>1. foreign' \subseteq Names
    BY <1>3, ThreadAssumption DEF ForeignToggles, SystemOK
  <2> QED BY <1>3, <2>1 DEF ForeignToggles, GlobalsOK, ManagersOK, ThreadsOK, MonitorsOK,
                            SystemOK, MgrOK, globals, managers, threads, monitors
<1>4. ASSUME NEW c \in Mortal, HostThreadExits(c) PROVE TypeInv'
  <2>1. SystemOK'
    BY <1>4, OrphanType DEF HostThreadExits, SystemOK
  <2>2. ThreadsOK' /\ MgrOK'
    BY <1>4, ThreadAssumption DEF HostThreadExits, Goto, ThreadsOK, MgrOK, Callers
  <2> QED BY <1>4, <2>1, <2>2 DEF HostThreadExits, GlobalsOK, ManagersOK, MonitorsOK,
                                 globals, managers, monitors
<1> QED BY <1>1, <1>2, <1>3, <1>4 DEF Environment

\* Every step keeps the strengthened type invariant.
LEMMA TypeNext == TypeInv /\ [Next]_vars => TypeInv'
<1> SUFFICES ASSUME TypeInv, [Next]_vars PROVE TypeInv'
  OBVIOUS
<1>1. CASE UNCHANGED vars
  BY <1>1 DEF vars, globals, managers, threads, monitors, system, TypeInv, TypeOK,
     GlobalsOK, ManagersOK, ThreadsOK, MonitorsOK, SystemOK, MgrOK
<1>2. CASE \E c \in Controllers : InitializeCall(c) \/ StopCall(c)
  BY <1>2, InitializeCallType, StopCallType
<1>3. CASE \E c \in Controllers : StartStep(c)
  BY <1>3, StartBeginType, StartTickType, StartSpawnType, StartSpawnFailsType, StartCommitType,
     StartMonitorType, StartMonitorPanicsType DEF StartStep
<1>4. CASE \E c \in Controllers : StopStep(c)
  BY <1>4, StopSwapType, StopNotifyType, StopJoinType, KillBeginType, KillEndType,
     StopClearType, StopResetType DEF StopStep
<1>5. CASE \E q \in Proxies : ProxyGet(q) \/ ProxyStep(q)
  BY <1>5, ProxyGetType, ProxyEnterType, ProxyLookType, ProxyProbeType DEF ProxyStep
<1>6. CASE \E m \in Managers : MonStep(m)
  BY <1>6, MonTopType, MonCheckType, MonRecheckType, MonSpawnType, MonSpawnFailsType,
     MonUnreadyType, MonCommitType, MonRearmType, MonWakeType DEF MonStep
<1>7. CASE Environment
  BY <1>7, EnvironmentType
<1> QED BY <1>1, <1>2, <1>3, <1>4, <1>5, <1>6, <1>7 DEF Next

\* Type correctness: in every reachable state, for any number of threads, sessions and
\* pids, every variable of the lifecycle core has its type.
THEOREM TypeCorrect == Spec => []TypeOK
<1>1. TypeInv => TypeOK
  BY DEF TypeInv
<1> QED BY TypeInit, TypeNext, <1>1, PTL DEF Spec

(***************************************************************************)
(* One session                                                             *)
(***************************************************************************)
\* c is inside start(), past the point where should_run is set.
Starting(c) == pc[c] \in StartPcs \ {"start"}
\* c is inside stop(), past the swap of should_run.
Stopping(c) == pc[c] \in StopPcs \ {"stop"}

\* The cell is locked by exactly the thread inside initialize(), on the manager it holds.
CellInv == \A c \in Controllers : /\ pc[c] \in StartPcs <=> cellLock = c
                                  /\ pc[c] \in StartPcs => mgr[c] = cell
\* start_stop_lock is held by exactly the thread inside start() or stop() of its manager.
LockInv == \A c \in Controllers, m \in Managers :
             startStop[m] = c <=> mgr[c] = m /\ (Starting(c) \/ Stopping(c))
\* start() runs with should_run set, and enters with it clear.
RunInv == \A c \in Controllers : /\ Starting(c) => shouldRun[mgr[c]]
                                 /\ pc[c] = "start" => ~shouldRun[mgr[c]]
\* A monitor thread lives only while its session runs or a stop() is about to join it.
MonInv == \A m \in Managers : mon[m] \notin {"off", "done"} => shouldRun[m] \/ Draining(m)

\* The inductive invariant.
IInv == TypeInv /\ CellInv /\ OneActive /\ LockInv /\ RunInv /\ MonInv

\* The monitor thread touches neither the global cell, should_run, nor the locks and
\* positions of other threads.
LEMMA MonFrame ==
  ASSUME NEW m \in Managers, MonStep(m)
  PROVE  UNCHANGED <<cell, cellLock, shouldRun, startStop, pc, mgr>>
BY DEF MonStep, MonTop, MonCheck, MonRecheck, MonSpawn, MonSpawnFails, MonUnready,
       MonCommit, MonRearm, MonWake, globals, managers, threads

\* A proxy caller touches no control state of the controllers or the monitor.
LEMMA ProxyFrame ==
  ASSUME TypeInv, NEW q \in Proxies, ProxyGet(q) \/ ProxyStep(q)
  PROVE  /\ UNCHANGED <<cell, cellLock, shouldRun, startStop, mon, proc>>
         /\ \A c \in Controllers : pc'[c] = pc[c] /\ mgr'[c] = mgr[c]
<1>1. UNCHANGED <<cell, cellLock, shouldRun, startStop, mon, proc>>
  BY DEF ProxyStep, ProxyGet, ProxyEnter, ProxyLook, ProxyProbe, globals, managers,
         monitors, system
<1>2. q \notin Controllers
  BY ThreadAssumption
<1>3. \A c \in Controllers : pc'[c] = pc[c] /\ mgr'[c] = mgr[c]
  BY <1>2 DEF ProxyStep, ProxyGet, ProxyEnter, ProxyLook, ProxyProbe, Goto, Return, TypeInv,
              TypeOK, ThreadsOK, Callers
<1> QED BY <1>1, <1>3

\* The environment moves no control state, except that an idle host thread may exit.
LEMMA EnvironmentFrame ==
  ASSUME TypeInv, Environment
  PROVE  /\ UNCHANGED <<cell, cellLock, shouldRun, startStop, mgr, mon>>
         /\ \A c \in Controllers : pc'[c] = pc[c] \/ (pc[c] = "idle" /\ pc'[c] = "gone")
<1>1. UNCHANGED <<cell, cellLock, shouldRun, startStop, mgr, mon>>
  BY DEF Environment, ProcServe, ProcExit, BackoffElapses, ForeignToggles, HostThreadExits,
         globals, managers, threads, monitors
<1>2. \A c \in Controllers : pc'[c] = pc[c] \/ (pc[c] = "idle" /\ pc'[c] = "gone")
  BY DEF Environment, ProcServe, ProcExit, BackoffElapses, ForeignToggles, HostThreadExits,
         Goto, threads, TypeInv, TypeOK, ThreadsOK, Callers
<1> QED BY <1>1, <1>2

\* A step keeps CellInv and OneActive: the mutex on the cell is held from the check of
\* should_run in initialize() until start() has set it.
LEMMA CellNext == ASSUME IInv, Next PROVE CellInv' /\ OneActive'
<1> USE DEF IInv
<1>1. /\ pc \in [Callers -> {"idle", "gone"} \cup StartPcs \cup StopPcs \cup ProxyPcs]
      /\ mgr \in [Callers -> 0..MaxManagers] /\ MgrOK
      /\ shouldRun \in [Managers -> BOOLEAN]
      /\ startStop \in [Managers -> Controllers \cup {None}]
      /\ None \notin Controllers /\ cell \in 0..MaxManagers
      /\ mon \in [Managers -> MonPcs]
  BY NoneAssumption DEF TypeInv, TypeOK, ThreadsOK, ManagersOK, GlobalsOK, MonitorsOK, Callers
<1>2. ASSUME NEW c \in Controllers, InitializeCall(c) PROVE CellInv' /\ OneActive'
  BY <1>1, <1>2, BoundsAssumption DEF InitializeCall, StartPcs, StopPcs, Goto, managers,
     Callers, LockCell, Running, CellInv, OneActive, Managers, MgrOK
<1>3. ASSUME NEW c \in Controllers, StopCall(c) PROVE CellInv' /\ OneActive'
  BY <1>1, <1>3, BoundsAssumption DEF StopCall, StartPcs, StopPcs, Goto, globals, managers,
     Callers, CellInv, OneActive, Managers, MgrOK
<1>4. ASSUME NEW c \in Controllers, StartBegin(c) PROVE CellInv' /\ OneActive'
  BY <1>1, <1>4, BoundsAssumption DEF StartBegin, StartPcs, StopPcs, Goto, Callers, CellInv,
     OneActive, Managers, MgrOK
<1>5. ASSUME NEW c \in Controllers, StartTick(c) PROVE CellInv' /\ OneActive'
  BY <1>1, <1>5, BoundsAssumption DEF StartTick, StartPcs, StopPcs, Goto, Advance, globals,
     Callers, CellInv, OneActive, Managers, MgrOK
<1>6. ASSUME NEW c \in Controllers, StartSpawn(c) PROVE CellInv' /\ OneActive'
  BY <1>1, <1>6, BoundsAssumption DEF StartSpawn, StartPcs, StopPcs, Goto, globals, managers,
     Callers, CellInv, OneActive, Managers, MgrOK
<1>7. ASSUME NEW c \in Controllers, StartSpawnFails(c) PROVE CellInv' /\ OneActive'
  BY <1>1, <1>7, BoundsAssumption DEF StartSpawnFails, StartPcs, StopPcs, Goto, Advance,
     globals, Callers, CellInv, OneActive, Managers, MgrOK
<1>8. ASSUME NEW c \in Controllers, StartCommit(c) PROVE CellInv' /\ OneActive'
  BY <1>1, <1>8, BoundsAssumption DEF StartCommit, StartPcs, StopPcs, Goto, Advance, globals,
     Callers, CellInv, OneActive, Managers, MgrOK
<1>9. ASSUME NEW c \in Controllers, StartMonitor(c) PROVE CellInv' /\ OneActive'
  BY <1>1, <1>9, BoundsAssumption DEF StartMonitor, StartPcs, StopPcs, Goto, Return, Callers,
     CellInv, OneActive, Managers, MgrOK
<1>10. ASSUME NEW c \in Controllers, StartMonitorPanics(c) PROVE CellInv' /\ OneActive'
  BY <1>1, <1>10, BoundsAssumption DEF StartMonitorPanics, StartPcs, StopPcs, Goto, Return,
     Callers, CellInv, OneActive, Managers, MgrOK
<1>11. ASSUME NEW c \in Controllers, StopSwap(c) PROVE CellInv' /\ OneActive'
  BY <1>1, <1>11, BoundsAssumption DEF StopSwap, StartPcs, StopPcs, Goto, Return, globals,
     Callers, ClearShouldRun, CellInv, OneActive, Managers, MgrOK
<1>12. ASSUME NEW c \in Controllers, StopNotify(c) PROVE CellInv' /\ OneActive'
  BY <1>1, <1>12, BoundsAssumption DEF StopNotify, StartPcs, StopPcs, Goto, globals, managers,
     Callers, CellInv, OneActive, Managers, MgrOK
<1>13. ASSUME NEW c \in Controllers, StopJoin(c) PROVE CellInv' /\ OneActive'
  BY <1>1, <1>13, BoundsAssumption DEF StopJoin, StartPcs, StopPcs, Goto, globals, managers,
     Callers, Joined, CellInv, OneActive, Managers, MgrOK
<1>14. ASSUME NEW c \in Controllers, KillBegin(c) PROVE CellInv' /\ OneActive'
  BY <1>1, <1>14, BoundsAssumption DEF KillBegin, StartPcs, StopPcs, Goto, Advance, globals,
     Callers, CellInv, OneActive, Managers, MgrOK
<1>15. ASSUME NEW c \in Controllers, KillEnd(c) PROVE CellInv' /\ OneActive'
  BY <1>1, <1>15, BoundsAssumption DEF KillEnd, StartPcs, StopPcs, Goto, Advance, globals,
     managers, Callers, CellInv, OneActive, Managers, MgrOK
<1>16. ASSUME NEW c \in Controllers, StopClear(c) PROVE CellInv' /\ OneActive'
  BY <1>1, <1>16, BoundsAssumption DEF StopClear, StartPcs, StopPcs, Goto, managers, Callers,
     CellInv, OneActive, Managers, MgrOK
<1>17. ASSUME NEW c \in Controllers, StopReset(c) PROVE CellInv' /\ OneActive'
  BY <1>1, <1>17, BoundsAssumption DEF StopReset, StartPcs, StopPcs, Goto, Return, globals,
     Callers, CellInv, OneActive, Managers, MgrOK
<1>18. ASSUME NEW q \in Proxies, ProxyGet(q) \/ ProxyStep(q) PROVE CellInv' /\ OneActive'
  BY <1>18, ProxyFrame DEF CellInv, OneActive, Managers, MgrOK
<1>19. ASSUME NEW m \in Managers, MonStep(m) PROVE CellInv' /\ OneActive'
  BY <1>19, MonFrame DEF CellInv, OneActive, Managers, MgrOK
<1>20. ASSUME Environment PROVE CellInv' /\ OneActive'
  BY <1>20, EnvironmentFrame DEF CellInv, OneActive, Managers, MgrOK, StartPcs, StopPcs
<1> QED BY <1>2, <1>3, <1>4, <1>5, <1>6, <1>7, <1>8, <1>9, <1>10, <1>11, <1>12, <1>13, <1>14,
   <1>15, <1>16, <1>17, <1>18, <1>19, <1>20 DEF Next, StartStep, StopStep

\* A step keeps LockInv: start_stop_lock is held by exactly the thread inside start() or stop().
LEMMA LockNext == ASSUME IInv, Next PROVE LockInv'
<1> USE DEF IInv
<1>1. /\ pc \in [Callers -> {"idle", "gone"} \cup StartPcs \cup StopPcs \cup ProxyPcs]
      /\ mgr \in [Callers -> 0..MaxManagers] /\ MgrOK
      /\ shouldRun \in [Managers -> BOOLEAN]
      /\ startStop \in [Managers -> Controllers \cup {None}]
      /\ None \notin Controllers /\ cell \in 0..MaxManagers
      /\ mon \in [Managers -> MonPcs]
  BY NoneAssumption DEF TypeInv, TypeOK, ThreadsOK, ManagersOK, GlobalsOK, MonitorsOK, Callers
<1>2. ASSUME NEW c \in Controllers, InitializeCall(c) PROVE LockInv'
  BY <1>1, <1>2 DEF InitializeCall, StartPcs, StopPcs, Goto, managers, Callers, LockCell,
     Running, LockInv, Starting, Stopping, MgrOK
<1>3. ASSUME NEW c \in Controllers, StopCall(c) PROVE LockInv'
  BY <1>1, <1>3 DEF StopCall, StartPcs, StopPcs, Goto, globals, managers, Callers, LockInv,
     Starting, Stopping, MgrOK
<1>4. ASSUME NEW c \in Controllers, StartBegin(c) PROVE LockInv'
  BY <1>1, <1>4 DEF StartBegin, StartPcs, StopPcs, Goto, Callers, LockInv, Starting, Stopping,
     MgrOK
<1>5. ASSUME NEW c \in Controllers, StartTick(c) PROVE LockInv'
  BY <1>1, <1>5 DEF StartTick, StartPcs, StopPcs, Goto, Advance, globals, Callers, LockInv,
     Starting, Stopping, MgrOK
<1>6. ASSUME NEW c \in Controllers, StartSpawn(c) PROVE LockInv'
  BY <1>1, <1>6 DEF StartSpawn, StartPcs, StopPcs, Goto, globals, managers, Callers, LockInv,
     Starting, Stopping, MgrOK
<1>7. ASSUME NEW c \in Controllers, StartSpawnFails(c) PROVE LockInv'
  BY <1>1, <1>7 DEF StartSpawnFails, StartPcs, StopPcs, Goto, Advance, globals, Callers,
     LockInv, Starting, Stopping, MgrOK
<1>8. ASSUME NEW c \in Controllers, StartCommit(c) PROVE LockInv'
  BY <1>1, <1>8 DEF StartCommit, StartPcs, StopPcs, Goto, Advance, globals, Callers, LockInv,
     Starting, Stopping, MgrOK
<1>9. ASSUME NEW c \in Controllers, StartMonitor(c) PROVE LockInv'
  BY <1>1, <1>9 DEF StartMonitor, StartPcs, StopPcs, Goto, Return, Callers, LockInv, Starting,
     Stopping, MgrOK
<1>10. ASSUME NEW c \in Controllers, StartMonitorPanics(c) PROVE LockInv'
  BY <1>1, <1>10 DEF StartMonitorPanics, StartPcs, StopPcs, Goto, Return, Callers, LockInv,
     Starting, Stopping, MgrOK
<1>11. ASSUME NEW c \in Controllers, StopSwap(c) PROVE LockInv'
  BY <1>1, <1>11 DEF StopSwap, StartPcs, StopPcs, Goto, Return, globals, Callers,
     ClearShouldRun, LockInv, Starting, Stopping, MgrOK
<1>12. ASSUME NEW c \in Controllers, StopNotify(c) PROVE LockInv'
  BY <1>1, <1>12 DEF StopNotify, StartPcs, StopPcs, Goto, globals, managers, Callers, LockInv,
     Starting, Stopping, MgrOK
<1>13. ASSUME NEW c \in Controllers, StopJoin(c) PROVE LockInv'
  BY <1>1, <1>13 DEF StopJoin, StartPcs, StopPcs, Goto, globals, managers, Callers, Joined,
     LockInv, Starting, Stopping, MgrOK
<1>14. ASSUME NEW c \in Controllers, KillBegin(c) PROVE LockInv'
  BY <1>1, <1>14 DEF KillBegin, StartPcs, StopPcs, Goto, Advance, globals, Callers, LockInv,
     Starting, Stopping, MgrOK
<1>15. ASSUME NEW c \in Controllers, KillEnd(c) PROVE LockInv'
  BY <1>1, <1>15 DEF KillEnd, StartPcs, StopPcs, Goto, Advance, globals, managers, Callers,
     LockInv, Starting, Stopping, MgrOK
<1>16. ASSUME NEW c \in Controllers, StopClear(c) PROVE LockInv'
  BY <1>1, <1>16 DEF StopClear, StartPcs, StopPcs, Goto, managers, Callers, LockInv, Starting,
     Stopping, MgrOK
<1>17. ASSUME NEW c \in Controllers, StopReset(c) PROVE LockInv'
  BY <1>1, <1>17 DEF StopReset, StartPcs, StopPcs, Goto, Return, globals, Callers, LockInv,
     Starting, Stopping, MgrOK
<1>18. ASSUME NEW q \in Proxies, ProxyGet(q) \/ ProxyStep(q) PROVE LockInv'
  BY <1>18, ProxyFrame DEF LockInv, Starting, Stopping, MgrOK
<1>19. ASSUME NEW m \in Managers, MonStep(m) PROVE LockInv'
  BY <1>19, MonFrame DEF LockInv, Starting, Stopping, MgrOK
<1>20. ASSUME Environment PROVE LockInv'
  BY <1>20, EnvironmentFrame DEF LockInv, Starting, Stopping, MgrOK, StartPcs, StopPcs
<1> QED BY <1>2, <1>3, <1>4, <1>5, <1>6, <1>7, <1>8, <1>9, <1>10, <1>11, <1>12, <1>13, <1>14,
   <1>15, <1>16, <1>17, <1>18, <1>19, <1>20 DEF Next, StartStep, StopStep

\* A step keeps RunInv: should_run is set throughout start(), because stop() cannot get
\* in between without start_stop_lock.
LEMMA RunNext == ASSUME IInv, Next PROVE RunInv'
<1> USE DEF IInv
<1>1. /\ pc \in [Callers -> {"idle", "gone"} \cup StartPcs \cup StopPcs \cup ProxyPcs]
      /\ mgr \in [Callers -> 0..MaxManagers] /\ MgrOK
      /\ shouldRun \in [Managers -> BOOLEAN]
      /\ startStop \in [Managers -> Controllers \cup {None}]
      /\ None \notin Controllers /\ cell \in 0..MaxManagers
      /\ mon \in [Managers -> MonPcs]
  BY NoneAssumption DEF TypeInv, TypeOK, ThreadsOK, ManagersOK, GlobalsOK, MonitorsOK, Callers
<1>2. ASSUME NEW c \in Controllers, InitializeCall(c) PROVE RunInv'
  BY <1>1, <1>2, BoundsAssumption DEF InitializeCall, StartPcs, StopPcs, Goto, managers,
     Callers, LockCell, Running, RunInv, LockInv, CellInv, OneActive, Starting, Stopping, MgrOK,
     Managers
<1>3. ASSUME NEW c \in Controllers, StopCall(c) PROVE RunInv'
  BY <1>1, <1>3, BoundsAssumption DEF StopCall, StartPcs, StopPcs, Goto, globals, managers,
     Callers, RunInv, LockInv, CellInv, OneActive, Starting, Stopping, MgrOK, Managers
<1>4. ASSUME NEW c \in Controllers, StartBegin(c) PROVE RunInv'
  BY <1>1, <1>4, BoundsAssumption DEF StartBegin, StartPcs, StopPcs, Goto, Callers, RunInv,
     LockInv, CellInv, OneActive, Starting, Stopping, MgrOK, Managers
<1>5. ASSUME NEW c \in Controllers, StartTick(c) PROVE RunInv'
  BY <1>1, <1>5, BoundsAssumption DEF StartTick, StartPcs, StopPcs, Goto, Advance, globals,
     Callers, RunInv, LockInv, CellInv, OneActive, Starting, Stopping, MgrOK, Managers
<1>6. ASSUME NEW c \in Controllers, StartSpawn(c) PROVE RunInv'
  BY <1>1, <1>6, BoundsAssumption DEF StartSpawn, StartPcs, StopPcs, Goto, globals, managers,
     Callers, RunInv, LockInv, CellInv, OneActive, Starting, Stopping, MgrOK, Managers
<1>7. ASSUME NEW c \in Controllers, StartSpawnFails(c) PROVE RunInv'
  BY <1>1, <1>7, BoundsAssumption DEF StartSpawnFails, StartPcs, StopPcs, Goto, Advance,
     globals, Callers, RunInv, LockInv, CellInv, OneActive, Starting, Stopping, MgrOK, Managers
<1>8. ASSUME NEW c \in Controllers, StartCommit(c) PROVE RunInv'
  BY <1>1, <1>8, BoundsAssumption DEF StartCommit, StartPcs, StopPcs, Goto, Advance, globals,
     Callers, RunInv, LockInv, CellInv, OneActive, Starting, Stopping, MgrOK, Managers
<1>9. ASSUME NEW c \in Controllers, StartMonitor(c) PROVE RunInv'
  BY <1>1, <1>9, BoundsAssumption DEF StartMonitor, StartPcs, StopPcs, Goto, Return, Callers,
     RunInv, LockInv, CellInv, OneActive, Starting, Stopping, MgrOK, Managers
<1>10. ASSUME NEW c \in Controllers, StartMonitorPanics(c) PROVE RunInv'
  BY <1>1, <1>10, BoundsAssumption DEF StartMonitorPanics, StartPcs, StopPcs, Goto, Return,
     Callers, RunInv, LockInv, CellInv, OneActive, Starting, Stopping, MgrOK, Managers
<1>11. ASSUME NEW c \in Controllers, StopSwap(c) PROVE RunInv'
  BY <1>1, <1>11, BoundsAssumption DEF StopSwap, StartPcs, StopPcs, Goto, Return, globals,
     Callers, ClearShouldRun, RunInv, LockInv, CellInv, OneActive, Starting, Stopping, MgrOK,
     Managers
<1>12. ASSUME NEW c \in Controllers, StopNotify(c) PROVE RunInv'
  BY <1>1, <1>12, BoundsAssumption DEF StopNotify, StartPcs, StopPcs, Goto, globals, managers,
     Callers, RunInv, LockInv, CellInv, OneActive, Starting, Stopping, MgrOK, Managers
<1>13. ASSUME NEW c \in Controllers, StopJoin(c) PROVE RunInv'
  BY <1>1, <1>13, BoundsAssumption DEF StopJoin, StartPcs, StopPcs, Goto, globals, managers,
     Callers, Joined, RunInv, LockInv, CellInv, OneActive, Starting, Stopping, MgrOK, Managers
<1>14. ASSUME NEW c \in Controllers, KillBegin(c) PROVE RunInv'
  BY <1>1, <1>14, BoundsAssumption DEF KillBegin, StartPcs, StopPcs, Goto, Advance, globals,
     Callers, RunInv, LockInv, CellInv, OneActive, Starting, Stopping, MgrOK, Managers
<1>15. ASSUME NEW c \in Controllers, KillEnd(c) PROVE RunInv'
  BY <1>1, <1>15, BoundsAssumption DEF KillEnd, StartPcs, StopPcs, Goto, Advance, globals,
     managers, Callers, RunInv, LockInv, CellInv, OneActive, Starting, Stopping, MgrOK, Managers
<1>16. ASSUME NEW c \in Controllers, StopClear(c) PROVE RunInv'
  BY <1>1, <1>16, BoundsAssumption DEF StopClear, StartPcs, StopPcs, Goto, managers, Callers,
     RunInv, LockInv, CellInv, OneActive, Starting, Stopping, MgrOK, Managers
<1>17. ASSUME NEW c \in Controllers, StopReset(c) PROVE RunInv'
  BY <1>1, <1>17, BoundsAssumption DEF StopReset, StartPcs, StopPcs, Goto, Return, globals,
     Callers, RunInv, LockInv, CellInv, OneActive, Starting, Stopping, MgrOK, Managers
<1>18. ASSUME NEW q \in Proxies, ProxyGet(q) \/ ProxyStep(q) PROVE RunInv'
  BY <1>18, ProxyFrame DEF RunInv, LockInv, CellInv, OneActive, Starting, Stopping, MgrOK, Managers
<1>19. ASSUME NEW m \in Managers, MonStep(m) PROVE RunInv'
  BY <1>19, MonFrame DEF RunInv, LockInv, CellInv, OneActive, Starting, Stopping, MgrOK, Managers
<1>20. ASSUME Environment PROVE RunInv'
  BY <1>20, EnvironmentFrame DEF RunInv, LockInv, CellInv, OneActive, Starting, Stopping, MgrOK,
     Managers, StartPcs, StopPcs
<1> QED BY <1>2, <1>3, <1>4, <1>5, <1>6, <1>7, <1>8, <1>9, <1>10, <1>11, <1>12, <1>13, <1>14,
   <1>15, <1>16, <1>17, <1>18, <1>19, <1>20 DEF Next, StartStep, StopStep

\* A step of one controller moves no other controller.
LEMMA OthersKept ==
  ASSUME TypeInv, NEW c \in Controllers,
         InitializeCall(c) \/ StopCall(c) \/ StartStep(c) \/ StopStep(c)
  PROVE  \A d \in Controllers \ {c} : pc'[d] = pc[d] /\ mgr'[d] = mgr[d]
<1> USE DEF TypeInv, TypeOK, ThreadsOK, Callers, Goto, Return, Advance
<1>1. CASE InitializeCall(c) \/ StopCall(c)
  BY <1>1 DEF InitializeCall, StopCall
<1>2. CASE StartStep(c)
  BY <1>2 DEF StartStep, StartBegin, StartTick, StartSpawn, StartSpawnFails, StartCommit,
              StartMonitor, StartMonitorPanics
<1>3. CASE StopStep(c)
  BY <1>3 DEF StopStep, StopSwap, StopNotify, StopJoin, KillBegin, KillEnd, StopClear, StopReset
<1> QED BY <1>1, <1>2, <1>3

\* Whether m drains depends only on the controllers at notify or join.
LEMMA DrainingSame ==
  ASSUME NEW c \in Controllers,
         \A d \in Controllers \ {c} : pc'[d] = pc[d] /\ mgr'[d] = mgr[d]
  PROVE  /\ \A m : m # mgr[c] /\ Draining(m) => Draining(m)'
         /\ \A m : m # mgr'[c] /\ Draining(m)' => Draining(m)
         /\ pc[c] \notin {"notify", "join"} => \A m : Draining(m) => Draining(m)'
         /\ pc'[c] \notin {"notify", "join"} => \A m : Draining(m)' => Draining(m)
BY DEF Draining

\* The steps of start() and the last steps of stop() are not notify or join steps.
LEMMA QuietSteps ==
  ASSUME TypeInv, NEW c \in Controllers,
         \/ InitializeCall(c) \/ StopCall(c) \/ StartStep(c)
         \/ KillBegin(c) \/ KillEnd(c) \/ StopClear(c) \/ StopReset(c)
  PROVE  pc[c] \notin {"notify", "join"} /\ pc'[c] \notin {"notify", "join"}
<1> USE DEF TypeInv, TypeOK, ThreadsOK, Callers, Goto, Return, Advance
<1>1. CASE InitializeCall(c) \/ StopCall(c)
  BY <1>1 DEF InitializeCall, StopCall
<1>2. CASE StartStep(c)
  BY <1>2 DEF StartStep, StartBegin, StartTick, StartSpawn, StartSpawnFails, StartCommit,
              StartMonitor, StartMonitorPanics
<1>3. CASE KillBegin(c) \/ KillEnd(c) \/ StopClear(c) \/ StopReset(c)
  BY <1>3 DEF KillBegin, KillEnd, StopClear, StopReset
<1> QED BY <1>1, <1>2, <1>3

\* A step keeps MonInv: the monitor thread of m is started while m runs, and a stop() that
\* clears should_run stays in notify or join until that thread has ended.
LEMMA MonNext == ASSUME IInv, Next PROVE MonInv'
<1> USE DEF IInv
<1>1. ASSUME NEW c \in Controllers, InitializeCall(c) \/ StopCall(c) \/ StartStep(c) PROVE MonInv'
  <2>1. \A m \in Managers : Draining(m) => Draining(m)'
    BY <1>1, OthersKept, DrainingSame, QuietSteps
  <2>2. \A m \in Managers : shouldRun[m] => shouldRun'[m]
    BY <1>1 DEF InitializeCall, StopCall, StartStep, StartBegin, StartTick, StartSpawn,
                StartSpawnFails, StartCommit, StartMonitor, StartMonitorPanics, managers,
                TypeInv, TypeOK, ManagersOK
  <2>3. CASE StartMonitor(c)
    <3>1. mgr[c] \in Managers /\ shouldRun[mgr[c]]
      BY <2>3 DEF StartMonitor, TypeInv, MgrOK, Callers, RunInv, Starting, StartPcs
    <3> QED BY <2>1, <2>2, <2>3, <3>1 DEF StartMonitor, MonInv, TypeOK, TypeInv, MonitorsOK
  <2>4. CASE UNCHANGED mon
    BY <2>1, <2>2, <2>4 DEF MonInv
  <2> QED BY <1>1, <2>3, <2>4 DEF InitializeCall, StopCall, StartStep, StartBegin, StartTick,
             StartSpawn, StartSpawnFails, StartCommit, StartMonitorPanics, monitors
<1>2. ASSUME NEW c \in Controllers, KillBegin(c) \/ KillEnd(c) \/ StopClear(c) \/ StopReset(c)
      PROVE  MonInv'
  <2>1. \A m \in Managers : Draining(m) => Draining(m)'
    BY <1>2, OthersKept, DrainingSame, QuietSteps DEF StopStep
  <2>2. UNCHANGED <<mon, shouldRun>>
    BY <1>2 DEF KillBegin, KillEnd, StopClear, StopReset, managers, monitors
  <2> QED BY <2>1, <2>2 DEF MonInv
<1>3. ASSUME NEW c \in Controllers, StopSwap(c) PROVE MonInv'
  <2>1. pc[c] = "stop" /\ UNCHANGED mon
    BY <1>3 DEF StopSwap, monitors
  <2>2. \A m \in Managers : Draining(m) => Draining(m)'
    BY <1>3, <2>1, OthersKept, DrainingSame DEF StopStep
  <2>3. CASE shouldRun[mgr[c]]
    <3>1. \A m \in Managers : m = mgr[c] => Draining(m)'
      BY <1>3, <2>3 DEF StopSwap, Draining, Goto, TypeInv, TypeOK, ThreadsOK, Callers
    <3>2. \A m \in Managers : m # mgr[c] => shouldRun'[m] = shouldRun[m]
      BY <1>3 DEF StopSwap, ClearShouldRun, TypeInv, TypeOK, ManagersOK
    <3> QED BY <2>1, <2>2, <3>1, <3>2 DEF MonInv
  <2>4. CASE ~shouldRun[mgr[c]]
    <3>1. \A m \in Managers : shouldRun[m] => shouldRun'[m]
      BY <1>3, <2>4 DEF StopSwap, ClearShouldRun, TypeInv, TypeOK, ManagersOK
    <3> QED BY <2>1, <2>2, <3>1 DEF MonInv
  <2> QED BY <2>3, <2>4
<1>4. ASSUME NEW c \in Controllers, StopNotify(c) PROVE MonInv'
  <2>1. \A m \in Managers : m # mgr[c] /\ Draining(m) => Draining(m)'
    BY <1>4, OthersKept, DrainingSame DEF StopStep
  <2>2. \A m \in Managers : m = mgr[c] => mon[m] = "off" \/ Draining(m)'
    BY <1>4 DEF StopNotify, Draining, Goto, TypeInv, TypeOK, ThreadsOK, Callers
  <2>3. \A m \in Managers : mon'[m] \notin {"off", "done"} => mon[m] \notin {"off", "done"}
    BY <1>4 DEF StopNotify, TypeInv, TypeOK, MonitorsOK
  <2>4. UNCHANGED shouldRun
    BY <1>4 DEF StopNotify, managers
  <2> QED BY <2>1, <2>2, <2>3, <2>4 DEF MonInv
<1>5. ASSUME NEW c \in Controllers, StopJoin(c) PROVE MonInv'
  <2>1. \A m \in Managers : m # mgr[c] /\ Draining(m) => Draining(m)'
    BY <1>5, OthersKept, DrainingSame DEF StopStep
  <2>2. mon[mgr[c]] = "done" /\ UNCHANGED <<mon, shouldRun>>
    BY <1>5 DEF StopJoin, Joined, monitors, managers
  <2> QED BY <2>1, <2>2 DEF MonInv
<1>6. ASSUME NEW q \in Proxies, ProxyGet(q) \/ ProxyStep(q) PROVE MonInv'
  BY <1>6, ProxyFrame DEF MonInv, Draining
<1>7. ASSUME NEW m \in Managers, MonStep(m) PROVE MonInv'
  <2>1. UNCHANGED <<shouldRun, pc, mgr>>
    BY <1>7, MonFrame
  <2>2. \A k \in Managers : mon'[k] \notin {"off", "done"} => mon[k] \notin {"off", "done"}
    BY <1>7 DEF MonStep, MonTop, MonCheck, MonRecheck, MonSpawn, MonSpawnFails, MonUnready,
       MonCommit, MonRearm, MonWake, MonGoto, MonAdvance, MonExit, TypeInv, TypeOK, MonitorsOK
  <2> QED BY <2>1, <2>2 DEF MonInv, Draining
<1>8. ASSUME Environment PROVE MonInv'
  BY <1>8, EnvironmentFrame DEF MonInv, Draining
<1> QED BY <1>1, <1>2, <1>3, <1>4, <1>5, <1>6, <1>7, <1>8 DEF Next, StopStep

\* The inductive invariant holds initially.
LEMMA IInvInit == Init => IInv
<1> SUFFICES ASSUME Init PROVE IInv
  OBVIOUS
<1>1. TypeInv
  BY TypeInit
<1>2. CellInv /\ OneActive /\ LockInv /\ RunInv /\ MonInv
  BY NoneAssumption DEF Init, CellInv, OneActive, LockInv, RunInv, MonInv, Starting, Stopping,
     StartPcs, StopPcs, Callers
<1> QED BY <1>1, <1>2 DEF IInv

\* The inductive invariant is inductive.
LEMMA IInvNext == IInv /\ [Next]_vars => IInv'
<1> SUFFICES ASSUME IInv, [Next]_vars PROVE IInv'
  OBVIOUS
<1>1. TypeInv'
  BY TypeNext DEF IInv
<1>2. CASE Next
  BY <1>1, <1>2, CellNext, LockNext, RunNext, MonNext DEF IInv
<1>3. CASE UNCHANGED vars
  BY <1>1, <1>3 DEF IInv, vars, globals, managers, threads, monitors, CellInv, OneActive,
     LockInv, RunInv, MonInv, Starting, Stopping, Draining
<1> QED BY <1>2, <1>3

\* The inductive invariant always holds.
LEMMA IInvAlways == Spec => []IInv
BY IInvInit, IInvNext, PTL DEF Spec

\* initialize() raced by itself and by stop(), from any number of threads: at most one
\* manager runs, and it is the one in GLOBAL_MANAGER.
THEOREM OneActiveAlways == Spec => []OneActive
<1>1. IInv => OneActive
  BY DEF IInv
<1> QED BY IInvAlways, <1>1, PTL

\* Collecting a dead child takes no pid into use and leaves the others alone.
LEMMA ReapKeepsFree ==
  ASSUME TypeInv, NEW m \in Managers, NEW n \in Names, ReapSlot(m, n), NEW p \in Pids
  PROVE  /\ proc[p].st = "free" => proc'[p].st = "free"
         /\ proc'[p].st # "free" => proc'[p] = proc[p]
BY DEF ReapSlot, NoProc, TypeInv, TypeOK, SystemOK

\* A thread exit takes no pid into use and frees none.
LEMMA DeathKeepsFree ==
  ASSUME TypeInv, NEW t, proc' = AfterDeathOf(t), NEW p \in Pids
  PROVE  proc'[p].st = proc[p].st /\ proc'[p].by = proc[p].by
BY DEF AfterDeathOf, TypeInv, TypeOK, SystemOK, ProcRec

\* A pid comes into use only by a spawn of start() or of the monitor, for their manager.
LEMMA OnlySpawns ==
  ASSUME TypeInv, Next, NEW p \in Pids, proc[p].st = "free", proc'[p].st # "free"
  PROVE  \/ \E c \in Controllers : StartSpawn(c) /\ proc'[p].by = mgr[c]
         \/ \E m \in Managers : MonSpawn(m) /\ proc'[p].by = m
<1> USE DEF TypeInv, TypeOK, SystemOK
<1>1. ASSUME NEW t, NEW m, NEW n, NEW x \in Pids, Launch(t, m, n, x) PROVE proc'[p].by = m
  BY <1>1 DEF Launch
<1>2. ASSUME NEW c \in Controllers, InitializeCall(c) \/ StopCall(c) PROVE FALSE
  BY <1>2 DEF InitializeCall, StopCall, system
<1>3. ASSUME NEW c \in Controllers, StartStep(c)
      PROVE  StartSpawn(c) /\ proc'[p].by = mgr[c]
  <2>1. CASE StartTick(c)
    <3>1. mgr[c] \in Managers /\ turn[c] \in Names
      BY <2>1 DEF StartTick, MgrOK, Callers, ThreadsOK
    <3> QED BY <2>1, <3>1, ReapKeepsFree DEF StartTick
  <2>2. CASE StartSpawn(c)
    BY <2>2, <1>1 DEF StartSpawn
  <2> QED BY <1>3, <2>1, <2>2 DEF StartStep, StartBegin, StartSpawnFails, StartCommit,
             StartMonitor, StartMonitorPanics, system
<1>4. ASSUME NEW c \in Controllers, StopStep(c) PROVE FALSE
  <2>1. CASE KillBegin(c)
    BY <2>1 DEF KillBegin, Alive
  <2>2. CASE KillEnd(c)
    BY <2>2 DEF KillEnd, NoProc
  <2> QED BY <1>4, <2>1, <2>2 DEF StopStep, StopSwap, StopNotify, StopJoin, StopClear,
             StopReset, system
<1>5. ASSUME NEW q \in Proxies, ProxyGet(q) \/ ProxyStep(q) PROVE FALSE
  BY <1>5, ProxyFrame
<1>6. ASSUME NEW m \in Managers, MonStep(m) PROVE MonSpawn(m) /\ proc'[p].by = m
  <2>1. CASE MonTop(m) \/ MonRecheck(m)
    BY <2>1, DeathKeepsFree DEF MonTop, MonRecheck, MonExit
  <2>2. CASE MonCheck(m)
    <3>1. monTurn[m] \in Names
      BY DEF MonitorsOK
    <3> QED BY <2>2, <3>1, ReapKeepsFree DEF MonCheck
  <2>3. CASE MonSpawn(m)
    BY <2>3, <1>1 DEF MonSpawn
  <2> QED BY <1>6, <2>1, <2>2, <2>3 DEF MonStep, MonSpawnFails, MonUnready, MonCommit,
             MonRearm, MonWake, system
<1>7. ASSUME Environment PROVE FALSE
  <2>1. CASE \E c \in Mortal : HostThreadExits(c)
    BY <2>1, DeathKeepsFree DEF HostThreadExits
  <2>2. CASE \E x \in Pids : ProcServe(x) \/ ProcExit(x)
    <3>1. PICK x \in Pids : ProcServe(x) \/ ProcExit(x)
      BY <2>2
    <3>2. x # p
      BY <3>1 DEF ProcServe, ProcExit, Alive
    <3> QED BY <3>1, <3>2 DEF ProcServe, ProcExit
  <2> QED BY <1>7, <2>1, <2>2 DEF Environment, BackoffElapses, ForeignToggles, system
<1> QED BY <1>2, <1>3, <1>4, <1>5, <1>6, <1>7 DEF Next

\* No process is spawned for a session once stop() has joined its monitor, whatever the
\* number of threads and sessions: spawns happen under should_run or before the join.
THEOREM NoSpawnAfterJoinAlways == Spec => NoSpawnAfterJoin
<1> DEFINE Allowed == \A p \in Pids : (proc[p].st = "free" /\ proc'[p].st # "free")
                        => LET m == proc'[p].by IN shouldRun[m] \/ Draining(m)
<1>1. ASSUME IInv, Next PROVE Allowed
  <2> SUFFICES ASSUME NEW p \in Pids, proc[p].st = "free", proc'[p].st # "free"
               PROVE  shouldRun[proc'[p].by] \/ Draining(proc'[p].by)
    BY DEF Allowed
  <2> USE <1>1 DEF IInv
  <2>1. ASSUME NEW c \in Controllers, StartSpawn(c) PROVE shouldRun[mgr[c]]
    BY <2>1 DEF StartSpawn, RunInv, Starting, StartPcs
  <2>2. ASSUME NEW m \in Managers, MonSpawn(m) PROVE shouldRun[m] \/ Draining(m)
    BY <2>2 DEF MonSpawn, MonInv
  <2> QED BY <2>1, <2>2, OnlySpawns
<1>2. IInv /\ [Next]_vars => [Allowed]_vars
  BY <1>1
<1> QED BY IInvAlways, <1>2, PTL DEF Spec, NoSpawnAfterJoin

(***************************************************************************)
(* References                                                              *)
(***************************************************************************)
\* p is a process of manager m under the name n, and has not been collected.
Owned(p, m, n) == proc[p].st # "free" /\ proc[p].by = m /\ proc[p].name = n

\* What a slot refers to is its own and is not in the monitor's locals as well.
SlotRef(p) == \A m \in Managers, n \in Names :
                child[m][n] = p => Owned(p, m, n) /\ plan[m][n] # p
\* What the monitor's locals refer to is their own.
PlanRef(p) == \A m \in Managers, n \in Names : plan[m][n] = p => Owned(p, m, n)
\* What start() or stop() holds in its hands is in no slot and in no local, and in no other hands.
HeldRef(p) == \A c \in Controllers :
                held[c] = p => /\ pc[c] \in {"commit", "killing"}
                               /\ Owned(p, mgr[c], turn[c])
                               /\ child[mgr[c]][turn[c]] # p /\ plan[mgr[c]][turn[c]] # p
                               /\ \A d \in Controllers : held[d] = p => d = c
\* References are unique and belong to the manager and the name that hold them.
RefInv == \A p \in Pids : SlotRef(p) /\ PlanRef(p) /\ HeldRef(p)

\* A thread that holds a Child outside the slots stays where it is.
HoldersStay == \A c \in Controllers :
                 held[c] \in Pids => pc'[c] = pc[c] /\ mgr'[c] = mgr[c] /\ turn'[c] = turn[c]
\* The monitor's locals keep or drop what they refer to.
LocalsKept == \A m \in Managers, n \in Names : plan'[m][n] = plan[m][n] \/ plan'[m][n] \notin Pids
\* A process that is not collected stays what it is.
StaysOwned(p) == /\ proc[p].st # "free" => proc'[p].st # "free"
                 /\ proc'[p].by = proc[p].by /\ proc'[p].name = proc[p].name

\* A slot that somebody has in hand exists.
LEMMA HolderSlot ==
  ASSUME TypeInv, RefInv, NEW c \in Controllers, held[c] \in Pids
  PROVE  mgr[c] \in Managers /\ turn[c] \in Names
<1>1. pc[c] \in {"commit", "killing"}
  BY DEF RefInv, HeldRef
<1> QED BY <1>1 DEF TypeInv, MgrOK, TypeOK, ThreadsOK, Callers

\* Steps that give no reference to anybody and collect nothing.
LEMMA RefFrame ==
  ASSUME TypeInv, RefInv, HoldersStay, LocalsKept, \A p \in Pids : StaysOwned(p),
         child' = child, held' = held
  PROVE  RefInv'
<1> SUFFICES ASSUME NEW p \in Pids PROVE (SlotRef(p) /\ PlanRef(p) /\ HeldRef(p))'
  BY DEF RefInv
<1>1. SlotRef(p)'
  BY DEF RefInv, SlotRef, Owned, LocalsKept, StaysOwned
<1>2. PlanRef(p)'
  BY DEF RefInv, PlanRef, Owned, LocalsKept, StaysOwned
<1>3. HeldRef(p)'
  <2> SUFFICES ASSUME NEW c \in Controllers, held[c] = p
               PROVE  /\ pc'[c] \in {"commit", "killing"}
                      /\ Owned(p, mgr[c], turn[c])'
                      /\ mgr'[c] = mgr[c] /\ turn'[c] = turn[c]
                      /\ child[mgr[c]][turn[c]] # p /\ plan'[mgr[c]][turn[c]] # p
                      /\ \A d \in Controllers : held[d] = p => d = c
    BY DEF HeldRef
  <2>1. HeldRef(p) /\ pc'[c] = pc[c] /\ mgr'[c] = mgr[c] /\ turn'[c] = turn[c]
    BY DEF RefInv, HoldersStay
  <2>2. mgr[c] \in Managers /\ turn[c] \in Names
    BY HolderSlot
  <2> QED BY <2>1, <2>2 DEF HeldRef, LocalsKept, Owned, StaysOwned
<1> QED BY <1>1, <1>2, <1>3

\* Collecting the dead child of a slot: nobody else refers to it.
LEMMA RefReap ==
  ASSUME TypeInv, RefInv, HoldersStay, LocalsKept, held' = held,
         NEW m \in Managers, NEW n \in Names, ReapSlot(m, n)
  PROVE  RefInv'
<1>1. CASE ~Exited(m, n)
  BY <1>1, RefFrame DEF ReapSlot, StaysOwned
<1>2. CASE Exited(m, n)
  <2> DEFINE x == child[m][n]
  <2>1. x \in Pids
    BY <1>2 DEF Exited, TypeInv, TypeOK, ManagersOK
  <2>2. Owned(x, m, n) /\ plan[m][n] # x /\ HeldRef(x) /\ PlanRef(x)
    BY <2>1 DEF RefInv, SlotRef
  <2>3. /\ child'[m][n] = None
        /\ \A k \in Managers, l \in Names : k # m \/ l # n => child'[k][l] = child[k][l]
    BY <1>2 DEF ReapSlot, TypeInv, TypeOK, ManagersOK
  <2>4. \A p \in Pids : p # x => proc'[p] = proc[p]
    BY <1>2 DEF ReapSlot, TypeInv, TypeOK, SystemOK
  <2>5. \A k \in Managers, l \in Names : child'[k][l] # x /\ plan'[k][l] # x
    BY <2>1, <2>2, <2>3, NoneAssumption DEF RefInv, SlotRef, PlanRef, Owned, LocalsKept
  <2>6. \A c \in Controllers : held[c] # x
    <3> SUFFICES ASSUME NEW c \in Controllers, held[c] = x PROVE FALSE
      OBVIOUS
    <3>1. mgr[c] = m /\ turn[c] = n
      BY <2>2 DEF HeldRef, Owned
    <3> QED BY <2>2, <3>1 DEF HeldRef
  <2> HIDE DEF x
  <2>7. ASSUME NEW p \in Pids, p # x PROVE (SlotRef(p) /\ PlanRef(p))'
    BY <2>3, <2>4, <2>7, NoneAssumption DEF RefInv, SlotRef, PlanRef, Owned, LocalsKept
  <2>8. ASSUME NEW p \in Pids, p # x, NEW c \in Controllers, held[c] = p
        PROVE  /\ pc'[c] \in {"commit", "killing"}
               /\ Owned(p, mgr[c], turn[c])'
               /\ child'[mgr'[c]][turn'[c]] # p /\ plan'[mgr'[c]][turn'[c]] # p
               /\ \A d \in Controllers : held[d] = p => d = c
    <3>1. HeldRef(p) /\ pc'[c] = pc[c] /\ mgr'[c] = mgr[c] /\ turn'[c] = turn[c]
      BY <2>8 DEF RefInv, HoldersStay
    <3>2. mgr[c] \in Managers /\ turn[c] \in Names
      BY <2>8, HolderSlot
    <3> QED BY <2>3, <2>4, <2>8, <3>1, <3>2, NoneAssumption DEF HeldRef, LocalsKept, Owned
  <2>9. ASSUME NEW p \in Pids PROVE (SlotRef(p) /\ PlanRef(p) /\ HeldRef(p))'
    <3>1. CASE p = x
      BY <2>5, <2>6, <3>1 DEF SlotRef, PlanRef, HeldRef
    <3>2. CASE p # x
      <4>1. HeldRef(p)'
        BY <2>8, <3>2 DEF HeldRef
      <4> QED BY <2>7, <3>2, <4>1
    <3> QED BY <3>1, <3>2
  <2> QED BY <2>9 DEF RefInv
<1> QED BY <1>1, <1>2

\* Nobody refers to a pid that is not in use.
LEMMA FreeUnreferred ==
  ASSUME TypeInv, RefInv, NEW p \in Pids, proc[p].st = "free"
  PROVE  /\ \A m \in Managers, n \in Names : child[m][n] # p /\ plan[m][n] # p
         /\ \A c \in Controllers : held[c] # p
BY DEF RefInv, SlotRef, PlanRef, HeldRef, Owned

\* A spawn by start(): the new child is in the hands of that thread alone.
LEMMA RefStartSpawn ==
  ASSUME TypeInv, RefInv, NEW c \in Controllers, StartSpawn(c)
  PROVE  RefInv'
<1>1. PICK x \in Pids : Launch(c, mgr[c], turn[c], x) /\ held' = [held EXCEPT ![c] = x]
  BY DEF StartSpawn
<1>2. /\ pc[c] = "spawn" /\ pc' = [pc EXCEPT ![c] = "commit"]
      /\ UNCHANGED <<child, plan, mgr, turn>>
  BY DEF StartSpawn, Goto, managers, monitors
<1>3. mgr[c] \in Managers /\ turn[c] \in Names /\ c \in Callers
  BY <1>2 DEF TypeInv, MgrOK, TypeOK, ThreadsOK, Callers
<1>4. /\ proc[x].st = "free" /\ \A p \in Pids : p # x => proc'[p] = proc[p]
      /\ Owned(x, mgr[c], turn[c])'
  BY <1>1, <1>2 DEF Launch, TypeInv, TypeOK, SystemOK, Owned
<1>5. /\ held'[c] = x /\ \A d \in Controllers : d # c => held'[d] = held[d]
      /\ pc'[c] = "commit" /\ \A d \in Controllers : d # c => pc'[d] = pc[d]
  BY <1>1, <1>2, <1>3 DEF TypeInv, TypeOK, ThreadsOK, Callers
<1>6. /\ \A m \in Managers, n \in Names : child[m][n] # x /\ plan[m][n] # x
      /\ \A d \in Controllers : held[d] # x
  BY <1>4, FreeUnreferred
<1>7. held[c] \notin Pids
  BY <1>2 DEF RefInv, HeldRef
<1>8. ASSUME NEW p \in Pids PROVE (SlotRef(p) /\ PlanRef(p) /\ HeldRef(p))'
  <2>1. CASE p = x
    <3>1. (SlotRef(p) /\ PlanRef(p))'
      BY <1>2, <1>6, <2>1 DEF SlotRef, PlanRef
    <3>2. HeldRef(p)'
      BY <1>2, <1>3, <1>4, <1>5, <1>6, <2>1 DEF HeldRef
    <3> QED BY <3>1, <3>2
  <2>2. CASE p # x
    <3>1. (SlotRef(p) /\ PlanRef(p))'
      BY <1>2, <1>4, <2>2 DEF RefInv, SlotRef, PlanRef, Owned
    <3>2. HeldRef(p)'
      BY <1>2, <1>4, <1>5, <1>7, <2>2 DEF RefInv, HeldRef, Owned
    <3> QED BY <3>1, <3>2
  <2> QED BY <2>1, <2>2
<1> QED BY <1>8 DEF RefInv

\* A spawn by the monitor: the new child is in its locals alone.
LEMMA RefMonSpawn ==
  ASSUME TypeInv, RefInv, NEW m \in Managers, MonSpawn(m)
  PROVE  RefInv'
<1>1. PICK n \in Names : n = monTurn[m]
  BY DEF TypeInv, TypeOK, MonitorsOK
<1>2. PICK x \in Pids : Launch(m, m, n, x) /\ Plan(m, n, x)
  BY <1>1 DEF MonSpawn
<1>3. UNCHANGED <<child, held, pc, mgr, turn>>
  BY DEF MonSpawn, managers, threads
<1>4. /\ proc[x].st = "free" /\ \A p \in Pids : p # x => proc'[p] = proc[p]
      /\ Owned(x, m, n)'
  BY <1>2 DEF Launch, TypeInv, TypeOK, SystemOK, Owned
<1>5. /\ plan'[m][n] = x
      /\ \A k \in Managers, l \in Names : k # m \/ l # n => plan'[k][l] = plan[k][l]
  BY <1>2, <1>1 DEF Plan, TypeInv, TypeOK, MonitorsOK
<1>6. /\ \A k \in Managers, l \in Names : child[k][l] # x /\ plan[k][l] # x
      /\ \A d \in Controllers : held[d] # x
  BY <1>4, FreeUnreferred
<1>7. ASSUME NEW p \in Pids PROVE (SlotRef(p) /\ PlanRef(p) /\ HeldRef(p))'
  <2>1. CASE p = x
    <3>1. SlotRef(p)' /\ HeldRef(p)'
      BY <1>3, <1>6, <2>1 DEF SlotRef, HeldRef
    <3>2. PlanRef(p)'
      BY <1>4, <1>5, <1>6, <2>1 DEF PlanRef, Owned
    <3> QED BY <3>1, <3>2
  <2>2. CASE p # x
    <3>1. \A k \in Managers, l \in Names : plan'[k][l] = p => plan[k][l] = p
      BY <1>5, <2>2
    <3>2. (SlotRef(p) /\ PlanRef(p))'
      BY <1>3, <1>4, <2>2, <3>1 DEF RefInv, SlotRef, PlanRef, Owned
    <3>3. \A c \in Controllers : held[c] = p => mgr[c] \in Managers /\ turn[c] \in Names
      BY HolderSlot
    <3>4. HeldRef(p)'
      BY <1>3, <1>4, <2>2, <3>1, <3>3 DEF RefInv, HeldRef, Owned
    <3> QED BY <3>2, <3>4
  <2> QED BY <2>1, <2>2
<1> QED BY <1>7 DEF RefInv

\* start() puts what it holds into the slot.
LEMMA RefStartCommit ==
  ASSUME TypeInv, RefInv, NEW c \in Controllers, StartCommit(c)
  PROVE  RefInv'
<1>1. PICK m, n : m = mgr[c] /\ n = turn[c]
  OBVIOUS
<1>2. /\ m \in Managers /\ n \in Names /\ pc[c] = "commit"
  BY <1>1 DEF StartCommit, TypeInv, MgrOK, TypeOK, ThreadsOK, Callers
<1>3. /\ child' = [child EXCEPT ![m][n] = held[c]] /\ held' = [held EXCEPT ![c] = None]
      /\ UNCHANGED <<plan, proc, mgr>>
  BY <1>1 DEF StartCommit, FillSlot, monitors, system
<1>4. \A d \in Controllers : d # c => /\ held'[d] = held[d] /\ pc'[d] = pc[d]
                                      /\ turn'[d] = turn[d]
  BY <1>3 DEF StartCommit, Advance, Goto, TypeInv, TypeOK, ThreadsOK, Callers
<1>5. /\ held'[c] = None /\ child'[m][n] = held[c]
      /\ \A k \in Managers, l \in Names : k # m \/ l # n => child'[k][l] = child[k][l]
  BY <1>2, <1>3 DEF TypeInv, TypeOK, ManagersOK, ThreadsOK
<1>6. ASSUME NEW p \in Pids PROVE (SlotRef(p) /\ PlanRef(p) /\ HeldRef(p))'
  <2>1. SlotRef(p) /\ PlanRef(p) /\ HeldRef(p)
    BY DEF RefInv
  <2>2. held[c] = p => Owned(p, m, n) /\ plan[m][n] # p
    BY <1>1, <2>1 DEF HeldRef
  <2>3. SlotRef(p)' /\ PlanRef(p)'
    BY <1>2, <1>3, <1>5, <2>1, <2>2 DEF SlotRef, PlanRef, Owned
  <2>4. ASSUME NEW d \in Controllers, held'[d] = p
        PROVE  /\ d # c /\ held[d] = p /\ mgr[d] \in Managers /\ turn[d] \in Names
               /\ child'[mgr[d]][turn[d]] # p
    <3>1. d # c /\ held[d] = p
      BY <1>4, <1>5, <2>4, NoneAssumption
    <3>2. mgr[d] \in Managers /\ turn[d] \in Names
      BY <3>1, HolderSlot
    <3> QED BY <1>5, <2>1, <3>1, <3>2 DEF HeldRef
  <2>5. HeldRef(p)'
    BY <1>3, <1>4, <2>1, <2>4 DEF HeldRef, Owned
  <2> QED BY <2>3, <2>5
<1> QED BY <1>6 DEF RefInv

\* stop() takes the child out of the slot.
LEMMA RefKillBegin ==
  ASSUME TypeInv, RefInv, NEW c \in Controllers, KillBegin(c)
  PROVE  RefInv'
<1>1. PICK m, n : m = mgr[c] /\ n = turn[c]
  OBVIOUS
<1>2. /\ m \in Managers /\ n \in Names /\ pc[c] = "kill"
  BY <1>1 DEF KillBegin, TypeInv, MgrOK, TypeOK, ThreadsOK, Callers
<1>3. held[c] \notin Pids
  BY <1>2 DEF RefInv, HeldRef
<1>4. /\ UNCHANGED <<plan, mgr>>
      /\ \A d \in Controllers : d # c => pc'[d] = pc[d] /\ turn'[d] = turn[d]
  BY <1>1 DEF KillBegin, Advance, Goto, monitors, TypeInv, TypeOK, ThreadsOK, Callers
<1>5. CASE child[m][n] = None
  <2>1. UNCHANGED <<child, held, proc>>
    BY <1>1, <1>5 DEF KillBegin
  <2> QED BY <1>3, <1>4, <2>1, RefFrame DEF HoldersStay, LocalsKept, StaysOwned
<1>6. CASE child[m][n] # None
  <2>1. PICK x \in Pids : x = child[m][n]
    BY <1>2, <1>6 DEF TypeInv, TypeOK, ManagersOK
  <2>2. /\ child' = [child EXCEPT ![m][n] = None] /\ held' = [held EXCEPT ![c] = x]
        /\ pc' = [pc EXCEPT ![c] = "killing"] /\ turn' = turn
    BY <1>1, <1>6, <2>1 DEF KillBegin, TakeSlot, Goto
  <2>3. \A p \in Pids : StaysOwned(p)
    BY <1>1, <1>6, <2>1 DEF KillBegin, StaysOwned, Alive, TypeInv, TypeOK, SystemOK, ProcRec
  <2>4. /\ child'[m][n] = None
        /\ \A k \in Managers, l \in Names : k # m \/ l # n => child'[k][l] = child[k][l]
    BY <1>2, <2>2 DEF TypeInv, TypeOK, ManagersOK
  <2>5. held'[c] = x /\ pc'[c] = "killing" /\ \A d \in Controllers : d # c => held'[d] = held[d]
    BY <2>2 DEF TypeInv, TypeOK, ThreadsOK, Callers
  <2>6. \A d \in Controllers : held[d] # x
    BY <1>2, <2>1 DEF RefInv, SlotRef, HeldRef, Owned
  <2>7. ASSUME NEW p \in Pids PROVE (SlotRef(p) /\ PlanRef(p) /\ HeldRef(p))'
    <3>1. SlotRef(p) /\ PlanRef(p) /\ HeldRef(p)
      BY DEF RefInv
    <3>2. (SlotRef(p) /\ PlanRef(p))'
      BY <1>4, <2>3, <2>4, <3>1, NoneAssumption DEF SlotRef, PlanRef, Owned, StaysOwned
    <3>3. CASE p = x
      <4>1. Owned(x, m, n)' /\ child'[m][n] # x /\ plan'[m][n] # x
        BY <1>2, <1>4, <2>1, <2>3, <2>4, <3>1, <3>3, NoneAssumption
           DEF SlotRef, Owned, StaysOwned
      <4>2. \A d \in Controllers : held'[d] = x => d = c
        BY <2>5, <2>6
      <4> QED BY <1>1, <1>4, <2>2, <2>5, <3>2, <3>3, <4>1, <4>2 DEF HeldRef
    <3>4. CASE p # x
      <4>1. ASSUME NEW d \in Controllers, held'[d] = p
            PROVE  /\ d # c /\ held[d] = p
                   /\ child'[mgr[d]][turn[d]] # p
        <5>1. d # c /\ held[d] = p
          BY <2>5, <3>4, <4>1
        <5>2. mgr[d] \in Managers /\ turn[d] \in Names
          BY <5>1, HolderSlot
        <5> QED BY <2>4, <3>1, <5>1, <5>2, NoneAssumption DEF HeldRef
      <4>2. HeldRef(p)'
        BY <1>4, <2>2, <2>3, <2>5, <3>1, <3>4, <4>1 DEF HeldRef, Owned, StaysOwned
      <4> QED BY <3>2, <4>2
    <3> QED BY <3>3, <3>4
  <2> QED BY <2>7 DEF RefInv
<1> QED BY <1>5, <1>6

\* stop() collects what it holds, to which nobody else refers.
LEMMA RefKillEnd ==
  ASSUME TypeInv, RefInv, NEW c \in Controllers, KillEnd(c)
  PROVE  RefInv'
<1>1. /\ proc' = [proc EXCEPT ![held[c]] = NoProc] /\ held' = [held EXCEPT ![c] = None]
      /\ UNCHANGED <<child, plan, mgr>>
  BY DEF KillEnd, managers, monitors
<1>2. /\ held'[c] = None
      /\ \A d \in Controllers : d # c => /\ held'[d] = held[d] /\ pc'[d] = pc[d]
                                         /\ turn'[d] = turn[d]
  BY <1>1 DEF KillEnd, Advance, Goto, TypeInv, TypeOK, ThreadsOK, Callers
<1>3. ASSUME NEW p \in Pids PROVE (SlotRef(p) /\ PlanRef(p) /\ HeldRef(p))'
  <2>1. SlotRef(p) /\ PlanRef(p) /\ HeldRef(p)
    BY DEF RefInv
  <2>2. CASE held[c] = p
    <3>1. \A m \in Managers, n \in Names : child[m][n] # p /\ plan[m][n] # p
      BY <2>1, <2>2 DEF SlotRef, PlanRef, HeldRef, Owned
    <3>2. \A d \in Controllers : held'[d] # p
      BY <1>2, <2>1, <2>2, NoneAssumption DEF HeldRef
    <3> QED BY <1>1, <3>1, <3>2 DEF SlotRef, PlanRef, HeldRef
  <2>3. CASE held[c] # p
    <3>1. proc'[p] = proc[p]
      BY <1>1, <2>3 DEF TypeInv, TypeOK, SystemOK
    <3>2. \A d \in Controllers : held'[d] = p => d # c /\ held[d] = p
      BY <1>2, NoneAssumption
    <3> QED BY <1>1, <1>2, <2>1, <3>1, <3>2 DEF SlotRef, PlanRef, HeldRef, Owned
  <2> QED BY <2>2, <2>3
<1> QED BY <1>3 DEF RefInv

\* The monitor commits a spawn: its reference moves from the locals to the slot.
LEMMA RefMonCommit ==
  ASSUME TypeInv, RefInv, NEW m \in Managers, MonCommit(m)
  PROVE  RefInv'
<1>1. PICK n \in Names : n = monTurn[m]
  BY DEF TypeInv, TypeOK, MonitorsOK
<1>2. UNCHANGED <<held, pc, mgr, turn, proc>>
  BY DEF MonCommit, threads, system
<1>3. /\ plan'[m][n] = "no"
      /\ \A k \in Managers, l \in Names : k # m \/ l # n => plan'[k][l] = plan[k][l]
  BY <1>1 DEF MonCommit, Plan, TypeInv, TypeOK, MonitorsOK
<1>4. CASE plan[m][n] \notin Pids
  <2>1. UNCHANGED child
    BY <1>1, <1>4 DEF MonCommit, SpawnedOk
  <2>2. LocalsKept
    BY <1>3, NoneAssumption DEF LocalsKept
  <2> QED BY <1>2, <2>1, <2>2, RefFrame DEF HoldersStay, StaysOwned
<1>5. CASE plan[m][n] \in Pids
  <2>1. PICK x \in Pids : x = plan[m][n]
    BY <1>5
  <2>2. /\ child'[m][n] = x
        /\ \A k \in Managers, l \in Names : k # m \/ l # n => child'[k][l] = child[k][l]
    BY <1>1, <2>1 DEF MonCommit, SpawnedOk, FillSlot, TypeInv, TypeOK, ManagersOK
  <2>3. ASSUME NEW p \in Pids PROVE (SlotRef(p) /\ PlanRef(p) /\ HeldRef(p))'
    <3>1. SlotRef(p) /\ PlanRef(p) /\ HeldRef(p)
      BY DEF RefInv
    <3>2. plan'[m][n] # p
      BY <1>3, NoneAssumption
    <3>3. (SlotRef(p) /\ PlanRef(p))'
      BY <1>2, <1>3, <2>1, <2>2, <3>1, <3>2 DEF SlotRef, PlanRef, Owned
    <3>4. \A c \in Controllers : held[c] = p => mgr[c] \in Managers /\ turn[c] \in Names
      BY HolderSlot
    <3>5. HeldRef(p)'
      BY <1>2, <1>3, <2>1, <2>2, <3>1, <3>2, <3>4 DEF HeldRef, Owned
    <3> QED BY <3>3, <3>5
  <2> QED BY <2>3 DEF RefInv
<1> QED BY <1>4, <1>5

\* The exit of a thread signals its children and collects none.
LEMMA DeathKeepsOwned ==
  ASSUME TypeInv, NEW t, proc' = AfterDeathOf(t)
  PROVE  \A p \in Pids : StaysOwned(p)
BY DEF AfterDeathOf, StaysOwned, TypeInv, TypeOK, SystemOK, ProcRec

\* The steps of the callers.
LEMMA RefCallers ==
  ASSUME TypeInv, RefInv,
         \/ \E c \in Controllers : InitializeCall(c) \/ StopCall(c) \/ StartStep(c) \/ StopStep(c)
         \/ \E q \in Proxies : ProxyGet(q) \/ ProxyStep(q)
  PROVE  RefInv'
<1> USE DEF TypeInv
<1>1. ASSUME NEW c \in Controllers, pc[c] \notin {"commit", "killing"},
             \A d \in Controllers : d # c => /\ pc'[d] = pc[d] /\ mgr'[d] = mgr[d]
                                             /\ turn'[d] = turn[d]
      PROVE  HoldersStay
  BY <1>1 DEF HoldersStay, RefInv, HeldRef
<1>2. ASSUME NEW c \in Controllers, InitializeCall(c) \/ StopCall(c) PROVE RefInv'
  <2>1. HoldersStay
    BY <1>1, <1>2 DEF InitializeCall, StopCall, Goto, TypeOK, ThreadsOK, Callers
  <2>2. LocalsKept /\ \A p \in Pids : StaysOwned(p)
    BY <1>2 DEF InitializeCall, StopCall, monitors, system, LocalsKept, StaysOwned
  <2> QED BY <1>2, <2>1, <2>2, RefFrame DEF InitializeCall, StopCall, managers
<1>3. ASSUME NEW c \in Controllers, StartStep(c) PROVE RefInv'
  <2>1. CASE StartTick(c)
    <3>1. HoldersStay
      BY <1>1, <2>1 DEF StartTick, Advance, Goto, TypeOK, ThreadsOK, Callers
    <3>2. LocalsKept /\ held' = held
      BY <2>1 DEF StartTick, monitors, LocalsKept
    <3>3. mgr[c] \in Managers /\ turn[c] \in Names /\ ReapSlot(mgr[c], turn[c])
      BY <2>1 DEF StartTick, MgrOK, Callers, TypeOK, ThreadsOK
    <3> QED BY <3>1, <3>2, <3>3, RefReap
  <2>2. CASE StartSpawn(c)
    BY <2>2, RefStartSpawn
  <2>3. CASE StartCommit(c)
    BY <2>3, RefStartCommit
  <2>4. CASE \/ StartBegin(c) \/ StartSpawnFails(c) \/ StartMonitor(c) \/ StartMonitorPanics(c)
    <3>1. HoldersStay
      BY <1>1, <2>4 DEF StartBegin, StartSpawnFails, StartMonitor, StartMonitorPanics, Advance,
         Goto, Return, TypeOK, ThreadsOK, Callers
    <3>2. LocalsKept /\ \A p \in Pids : StaysOwned(p)
      BY <2>4 DEF StartBegin, StartSpawnFails, StartMonitor, StartMonitorPanics, monitors,
         system, LocalsKept, StaysOwned
    <3>3. child' = child /\ held' = held
      BY <2>4 DEF StartBegin, StartSpawnFails, StartMonitor, StartMonitorPanics
    <3> QED BY <3>1, <3>2, <3>3, RefFrame
  <2> QED BY <1>3, <2>1, <2>2, <2>3, <2>4 DEF StartStep
<1>4. ASSUME NEW c \in Controllers, StopStep(c) PROVE RefInv'
  <2>1. CASE KillBegin(c) \/ KillEnd(c)
    BY <2>1, RefKillBegin, RefKillEnd
  <2>2. CASE StopSwap(c) \/ StopNotify(c) \/ StopJoin(c) \/ StopClear(c) \/ StopReset(c)
    <3>1. HoldersStay
      BY <1>1, <2>2 DEF StopSwap, StopNotify, StopJoin, StopClear, StopReset, Goto, Return,
         TypeOK, ThreadsOK, Callers
    <3>2. LocalsKept /\ \A p \in Pids : StaysOwned(p)
      BY <2>2 DEF StopSwap, StopNotify, StopJoin, StopClear, StopReset, monitors, system,
         LocalsKept, StaysOwned
    <3>3. child' = child /\ held' = held
      BY <2>2 DEF StopSwap, StopNotify, StopJoin, StopClear, StopReset, managers
    <3> QED BY <3>1, <3>2, <3>3, RefFrame
  <2> QED BY <1>4, <2>1, <2>2 DEF StopStep
<1>5. ASSUME NEW q \in Proxies, ProxyGet(q) \/ ProxyStep(q) PROVE RefInv'
  <2>1. /\ UNCHANGED <<child, plan, held, turn, proc>>
    BY <1>5 DEF ProxyStep, ProxyGet, ProxyEnter, ProxyLook, ProxyProbe, managers, monitors,
       system
  <2>2. HoldersStay
    BY <1>5, <2>1, ProxyFrame DEF HoldersStay
  <2> QED BY <2>1, <2>2, RefFrame DEF LocalsKept, StaysOwned
<1> QED BY <1>2, <1>3, <1>4, <1>5

\* The steps of the monitor and of the environment.
LEMMA RefOthers ==
  ASSUME TypeInv, RefInv, Environment \/ \E m \in Managers : MonStep(m)
  PROVE  RefInv'
<1>1. ASSUME NEW m \in Managers, MonStep(m) PROVE RefInv'
  <2>1. HoldersStay
    BY <1>1 DEF MonStep, MonTop, MonCheck, MonRecheck, MonSpawn, MonSpawnFails, MonUnready,
       MonCommit, MonRearm, MonWake, threads, HoldersStay
  <2>2. held' = held
    BY <1>1 DEF MonStep, MonTop, MonCheck, MonRecheck, MonSpawn, MonSpawnFails, MonUnready,
       MonCommit, MonRearm, MonWake, threads
  <2>3. monTurn[m] \in Names /\ plan \in [Managers -> [Names -> Pids \cup {"no", "want", "err"}]]
    BY DEF TypeInv, TypeOK, MonitorsOK
  <2>4. CASE MonTop(m) \/ MonRecheck(m)
    <3>1. child' = child
      BY <2>4 DEF MonTop, MonRecheck, managers
    <3>2. LocalsKept
      BY <2>3, <2>4, NoneAssumption DEF MonTop, MonRecheck, MonExit, NoPlan, LocalsKept
    <3>3. \A p \in Pids : StaysOwned(p)
      <4>1. proc' = proc \/ proc' = AfterDeathOf(m)
        BY <2>4 DEF MonTop, MonRecheck, MonExit
      <4>2. proc' = proc => \A p \in Pids : StaysOwned(p)
        BY DEF StaysOwned
      <4> QED BY <4>1, <4>2, DeathKeepsOwned
    <3> QED BY <2>1, <2>2, <3>1, <3>2, <3>3, RefFrame
  <2>5. CASE MonCheck(m)
    <3>1. ReapSlot(m, monTurn[m])
      BY <2>5 DEF MonCheck
    <3>2. LocalsKept
      BY <2>3, <2>5, NoneAssumption DEF MonCheck, Plan, LocalsKept
    <3> QED BY <2>1, <2>2, <2>3, <3>1, <3>2, RefReap
  <2>6. CASE MonSpawn(m)
    BY <2>6, RefMonSpawn
  <2>7. CASE MonCommit(m)
    BY <2>7, RefMonCommit
  <2>8. CASE MonSpawnFails(m) \/ MonUnready(m) \/ MonRearm(m) \/ MonWake(m)
    <3>1. LocalsKept
      BY <2>3, <2>8, NoneAssumption DEF MonSpawnFails, MonUnready, MonRearm, MonWake, Plan,
         LocalsKept
    <3>2. child' = child /\ \A p \in Pids : StaysOwned(p)
      BY <2>8 DEF MonSpawnFails, MonUnready, MonRearm, MonWake, managers, system, StaysOwned
    <3> QED BY <2>1, <2>2, <3>1, <3>2, RefFrame
  <2> QED BY <1>1, <2>4, <2>5, <2>6, <2>7, <2>8 DEF MonStep
<1>2. ASSUME Environment PROVE RefInv'
  <2>1. UNCHANGED <<child, held, plan, mgr, turn>>
    BY <1>2 DEF Environment, ProcServe, ProcExit, BackoffElapses, ForeignToggles,
       HostThreadExits, managers, threads, monitors
  <2>2. HoldersStay
    BY <1>2, <2>1, EnvironmentFrame DEF HoldersStay, RefInv, HeldRef
  <2>3. \A p \in Pids : StaysOwned(p)
    <3>1. CASE \E c \in Mortal : HostThreadExits(c)
      BY <3>1, DeathKeepsOwned DEF HostThreadExits
    <3>2. CASE \E x \in Pids : ProcServe(x) \/ ProcExit(x)
      <4>1. PICK x \in Pids : ProcServe(x) \/ ProcExit(x)
        BY <3>2
      <4>2. \A p \in Pids : p # x => proc'[p] = proc[p]
        BY <4>1 DEF ProcServe, ProcExit, TypeInv, TypeOK, SystemOK
      <4>3. CASE ProcServe(x)
        <5>1. proc' = [proc EXCEPT ![x].st = IF @ = "silent" THEN "serving" ELSE "silent"]
          BY <4>3 DEF ProcServe
        <5>2. proc'[x] = [proc[x] EXCEPT !.st = IF @ = "silent" THEN "serving" ELSE "silent"]
          BY <5>1 DEF TypeInv, TypeOK, SystemOK
        <5> QED BY <4>2, <5>2 DEF StaysOwned, TypeInv, TypeOK, SystemOK, ProcRec
      <4>4. CASE ProcExit(x)
        <5>1. proc'[x] = [proc[x] EXCEPT !.st = "zombie", !.thr = None]
          BY <4>4 DEF ProcExit, TypeInv, TypeOK, SystemOK
        <5>2. proc[x] \in ProcRec
          BY DEF TypeInv, TypeOK, SystemOK
        <5>3. /\ proc'[x].st = "zombie" /\ proc'[x].by = proc[x].by
              /\ proc'[x].name = proc[x].name
          BY <5>1, <5>2 DEF ProcRec
        <5> QED BY <4>2, <5>3 DEF StaysOwned
      <4> QED BY <4>1, <4>3, <4>4
    <3> QED BY <1>2, <3>1, <3>2 DEF Environment, BackoffElapses, ForeignToggles, system, StaysOwned
  <2> QED BY <2>1, <2>2, <2>3, RefFrame DEF LocalsKept
<1> QED BY <1>1, <1>2

\* A process is referred to once at most, and its references are its own.
LEMMA RefSound == ASSUME TypeInv, RefInv PROVE SoundReferences
<1> SUFFICES ASSUME NEW p \in Pids
             PROVE  /\ Cardinality(References(p)) <= 1
                    /\ \A r \in References(p) : /\ proc[p].st # "free"
                                                /\ r[2] = proc[p].by /\ r[3] = proc[p].name
  BY DEF SoundReferences
<1> DEFINE m == proc[p].by
           n == proc[p].name
<1>1. SlotRef(p) /\ PlanRef(p) /\ HeldRef(p)
  BY DEF RefInv
<1>2. \A r \in References(p) :
        \/ r = <<"slot", m, n>> /\ proc[p].st # "free" /\ child[m][n] = p
           /\ m \in Managers /\ n \in Names
        \/ r = <<"plan", m, n>> /\ proc[p].st # "free" /\ plan[m][n] = p
           /\ m \in Managers /\ n \in Names
        \/ r = <<"held", m, n>> /\ proc[p].st # "free" /\ \E c \in Controllers :
             held[c] = p /\ mgr[c] = m /\ turn[c] = n
  BY <1>1 DEF References, SlotRef, PlanRef, HeldRef, Owned
<1> HIDE DEF m, n
<1>3. \A r, s \in References(p) : r = s
  BY <1>1, <1>2 DEF SlotRef, HeldRef
<1>4. Cardinality(References(p)) <= 1
  <2>1. CASE References(p) = {}
    BY <2>1, FS_EmptySet
  <2>2. CASE References(p) # {}
    <3>1. PICK r : References(p) = {r}
      BY <1>3, <2>2
    <3> QED BY <3>1, FS_Singleton
  <2> QED BY <2>1, <2>2
<1> QED BY <1>2, <1>4 DEF m, n

\* RefInv is inductive on top of the type invariant.
LEMMA RefAlways == Spec => [](TypeInv /\ RefInv)
<1>1. Init => TypeInv /\ RefInv
  BY TypeInit, NoneAssumption DEF Init, NoPlan, RefInv, SlotRef, PlanRef, HeldRef
<1>2. TypeInv /\ RefInv /\ [Next]_vars => TypeInv' /\ RefInv'
  <2> SUFFICES ASSUME TypeInv, RefInv, [Next]_vars PROVE TypeInv' /\ RefInv'
    OBVIOUS
  <2>1. TypeInv'
    BY TypeNext
  <2>2. CASE Next
    BY <2>1, <2>2, RefCallers, RefOthers DEF Next
  <2>3. CASE UNCHANGED vars
    BY <2>1, <2>3 DEF vars, managers, threads, monitors, system, RefInv, SlotRef, PlanRef,
       HeldRef, Owned
  <2> QED BY <2>2, <2>3
<1> QED BY <1>1, <1>2, PTL DEF Spec

\* A process is referred to from one place at most, by its own manager and under its own name,
\* and never after it was collected: for any number of threads, sessions and pids, nobody signals
\* or waits for a pid that the system may have given to somebody else.
THEOREM SoundReferencesAlways == Spec => []SoundReferences
<1>1. TypeInv /\ RefInv => SoundReferences
  BY RefSound
<1> QED BY <1>1, RefAlways, PTL

(***************************************************************************)
(* Readiness                                                               *)
(***************************************************************************)
\* A proxy caller that looks for the trace-agent or probes it has trace_agent_ready locked.
ProxyLocks == \A q \in Proxies : pc[q] \in {"look", "probe"} => readyLock[mgr[q]] = q
\* While start() runs, its manager has no monitor yet, and start() spawns into an empty slot.
StartOff == \A c \in Controllers :
              /\ pc[c] \in StartPcs => mon[mgr[c]] = "off"
              /\ pc[c] = "spawn" /\ turn[c] = "trace" => child[mgr[c]]["trace"] = None
\* Before its monitor starts, a manager has nothing planned; a manager to come has no monitor.
MonitorOff(m) == /\ m > cell => mon[m] = "off"
                 /\ mon[m] = "off" => plan[m]["trace"] = "no"
\* The monitor spawns a trace-agent into an empty slot, which stays empty, and commits it with
\* readiness withdrawn and nobody about to grant it.
Planned(m) == /\ plan[m]["trace"] # "no" => child[m]["trace"] = None
              /\ mon[m] = "spawn" /\ monTurn[m] = "trace" => plan[m]["trace"] # "no"
              /\ plan[m]["trace"] \in Pids => mon[m] \in {"unready", "commit"}
              /\ plan[m]["trace"] \in Pids /\ mon[m] = "commit" =>
                   ~ready[m] /\ \A q \in Proxies : mgr[q] = m => pc[q] # "probe"
\* A ready trace-agent was seen to answer.
Sound(m) == ~DebugBuild => (ready[m] /\ child[m]["trace"] # None => seen[m])
\* The part of the invariant about one manager.
TraceInv(m) == MonitorOff(m) /\ Planned(m) /\ Sound(m)
\* The invariant behind ReadySound.
RdyInv == ProxyLocks /\ StartOff /\ \A m \in Managers : TraceInv(m)

\* A step that leaves m's monitor and plan alone, or moves a monitor that has spawned nothing,
\* fills no slot, grants no readiness and lets nobody probe an empty slot.
LEMMA TraceFrame ==
  ASSUME NEW m \in Managers, TraceInv(m),
         m > cell' => mon'[m] = "off",
         mon'[m] = mon[m] \/ (plan[m]["trace"] \notin Pids /\ mon'[m] \notin {"off", "spawn"}),
         monTurn'[m] = monTurn[m], plan'[m] = plan[m],
         child'[m]["trace"] \in {child[m]["trace"], None},
         ready'[m] => ready[m],
         child'[m]["trace"] = None \/ (seen[m] => seen'[m]),
         \A q \in Proxies : mgr'[q] = m /\ pc'[q] = "probe" =>
            \/ mgr[q] = m /\ pc[q] = "probe"
            \/ child[m]["trace"] # None
  PROVE  TraceInv(m)'
<1>1. MonitorOff(m)'
  BY DEF TraceInv, MonitorOff
<1>2. Planned(m)'
  BY NoneAssumption DEF TraceInv, Planned
<1>3. Sound(m)'
  BY DEF TraceInv, Sound
<1> QED BY <1>1, <1>2, <1>3 DEF TraceInv

\* Only the proxy callers lock and unlock trace_agent_ready across steps, and nobody moves them.
LEMMA ProxiesKept ==
  ASSUME TypeInv,
         \/ \E c \in Controllers : InitializeCall(c) \/ StopCall(c) \/ StartStep(c) \/ StopStep(c)
         \/ \E m \in Managers : MonStep(m)
         \/ Environment
  PROVE  readyLock' = readyLock /\ \A q \in Proxies : pc'[q] = pc[q] /\ mgr'[q] = mgr[q]
<1> USE ThreadAssumption DEF TypeInv, TypeOK, ThreadsOK, Callers, Goto, Return, Advance
<1>1. ASSUME NEW c \in Controllers, InitializeCall(c) \/ StopCall(c)
      PROVE  readyLock' = readyLock /\ \A q \in Proxies : pc'[q] = pc[q] /\ mgr'[q] = mgr[q]
  BY <1>1 DEF InitializeCall, StopCall, managers
<1>2. ASSUME NEW c \in Controllers, StartStep(c)
      PROVE  readyLock' = readyLock /\ \A q \in Proxies : pc'[q] = pc[q] /\ mgr'[q] = mgr[q]
  BY <1>2 DEF StartStep, StartBegin, StartTick, StartSpawn, StartSpawnFails, StartCommit,
              StartMonitor, StartMonitorPanics, managers
<1>3. ASSUME NEW c \in Controllers, StopStep(c)
      PROVE  readyLock' = readyLock /\ \A q \in Proxies : pc'[q] = pc[q] /\ mgr'[q] = mgr[q]
  BY <1>3 DEF StopStep, StopSwap, StopNotify, StopJoin, KillBegin, KillEnd, StopClear,
              StopReset, managers
<1>4. ASSUME NEW m \in Managers, MonStep(m)
      PROVE  readyLock' = readyLock /\ \A q \in Proxies : pc'[q] = pc[q] /\ mgr'[q] = mgr[q]
  BY <1>4 DEF MonStep, MonTop, MonCheck, MonRecheck, MonSpawn, MonSpawnFails, MonUnready,
              MonCommit, MonRearm, MonWake, managers, threads
<1>5. ASSUME Environment
      PROVE  readyLock' = readyLock /\ \A q \in Proxies : pc'[q] = pc[q] /\ mgr'[q] = mgr[q]
  BY <1>5 DEF Environment, ProcServe, ProcExit, BackoffElapses, ForeignToggles,
              HostThreadExits, managers, threads
<1> QED BY <1>1, <1>2, <1>3, <1>4, <1>5

\* A step keeps ProxyLocks.
LEMMA ProxyLocksNext == ASSUME TypeInv, ProxyLocks, Next PROVE ProxyLocks'
<1>1. ASSUME NEW q \in Proxies, ProxyGet(q) \/ ProxyStep(q) PROVE ProxyLocks'
  <2>1. q \in Callers /\ pc[q] \notin {"idle", "gone"} => mgr[q] \in Managers
    BY DEF Callers, TypeInv, MgrOK
  <2>2. \A r \in Proxies : r # q => pc'[r] = pc[r] /\ mgr'[r] = mgr[r]
    BY <1>1 DEF ProxyGet, ProxyStep, ProxyEnter, ProxyLook, ProxyProbe, Goto, Return, TypeInv,
       TypeOK, ThreadsOK, Callers
  <2>3. \A r \in Proxies : r # q /\ pc[r] \in {"look", "probe"} =>
          readyLock'[mgr[r]] = readyLock[mgr[r]]
    <3> SUFFICES ASSUME NEW r \in Proxies, r # q, pc[r] \in {"look", "probe"}
                 PROVE  readyLock'[mgr[r]] = readyLock[mgr[r]]
      OBVIOUS
    <3>1. mgr[r] \in Managers /\ readyLock[mgr[r]] = r /\ r # None
      BY NoneAssumption DEF Callers, TypeInv, MgrOK, ProxyLocks
    <3>2. CASE ProxyGet(q)
      BY <3>2 DEF ProxyGet, managers
    <3>3. CASE ProxyEnter(q)
      BY <3>1, <3>3 DEF ProxyEnter, TypeInv, TypeOK, ManagersOK
    <3>4. CASE ProxyLook(q) \/ ProxyProbe(q)
      <4>1. readyLock[mgr[q]] = q
        BY <3>4 DEF ProxyLook, ProxyProbe, ProxyLocks
      <4> QED BY <3>1, <3>4, <4>1 DEF ProxyLook, ProxyProbe, UnlockReady, TypeInv, TypeOK,
                 ManagersOK
    <3> QED BY <1>1, <3>2, <3>3, <3>4 DEF ProxyStep
  <2>4. pc'[q] \in {"look", "probe"} => readyLock'[mgr'[q]] = q
    BY <1>1, <2>1 DEF ProxyGet, ProxyStep, ProxyEnter, ProxyLook, ProxyProbe, Goto, Return,
       TypeInv, TypeOK, ThreadsOK, ManagersOK, Callers, ProxyLocks
  <2> QED BY <2>2, <2>3, <2>4 DEF ProxyLocks
<1>2. CASE \/ \E c \in Controllers :
                InitializeCall(c) \/ StopCall(c) \/ StartStep(c) \/ StopStep(c)
           \/ \E m \in Managers : MonStep(m)
           \/ Environment
  BY <1>2, ProxiesKept DEF ProxyLocks
<1> QED BY <1>1, <1>2 DEF Next

\* Nobody but start() and the monitor fills a slot.
SlotsDrop == \A m \in Managers : child'[m]["trace"] \in {child[m]["trace"], None}

\* What a tick or a check collects leaves its slot empty.
LEMMA ReapDrops ==
  ASSUME TypeInv, NEW m \in Managers, NEW n \in Names, ReapSlot(m, n)
  PROVE  SlotsDrop /\ (ShouldAttempt(m, n) => child'[m][n] = None)
BY DEF ReapSlot, ShouldAttempt, SlotsDrop, Names, TypeInv, TypeOK, ManagersOK

\* The steps of the callers that neither spawn, commit nor start a monitor only take away.
LEMMA QuietCallers ==
  ASSUME TypeInv, NEW c \in Controllers,
         \/ InitializeCall(c) \/ StopCall(c) \/ StopStep(c)
         \/ StartBegin(c) \/ StartTick(c) \/ StartSpawnFails(c) \/ StartMonitorPanics(c)
  PROVE  /\ UNCHANGED <<plan, monTurn, seen>> /\ SlotsDrop
         /\ \A m \in Managers : /\ ready'[m] => ready[m]
                                /\ \/ mon'[m] = mon[m]
                                   \/ mon[m] = "wait" /\ mon'[m] = "top"
         /\ cell' \in {cell, cell + 1}
<1>1. UNCHANGED <<plan, monTurn, seen>>
  BY DEF InitializeCall, StopCall, StopStep, StartBegin, StartTick, StartSpawnFails,
     StartMonitorPanics, StopSwap, StopNotify, StopJoin, KillBegin, KillEnd, StopClear,
     StopReset, monitors
<1>2. cell' \in {cell, cell + 1}
  BY DEF InitializeCall, StopCall, StopStep, StartBegin, StartTick, StartSpawnFails,
     StartMonitorPanics, StopSwap, StopNotify, StopJoin, KillBegin, KillEnd, StopClear,
     StopReset, globals
<1>3. ASSUME NEW m \in Managers PROVE ready'[m] => ready[m]
  BY DEF InitializeCall, StopCall, StopStep, StartBegin, StartTick, StartSpawnFails,
     StartMonitorPanics, StopSwap, StopNotify, StopJoin, KillBegin, KillEnd, StopClear,
     StopReset, managers, ResetReadiness, TypeInv, TypeOK, ManagersOK
<1>4. ASSUME NEW m \in Managers PROVE mon'[m] = mon[m] \/ (mon[m] = "wait" /\ mon'[m] = "top")
  BY DEF InitializeCall, StopCall, StopStep, StartBegin, StartTick, StartSpawnFails,
     StartMonitorPanics, StopSwap, StopNotify, StopJoin, KillBegin, KillEnd, StopClear,
     StopReset, monitors, TypeInv, TypeOK, MonitorsOK
<1>5. SlotsDrop
  <2>1. CASE StartTick(c)
    <3>1. mgr[c] \in Managers /\ turn[c] \in Names /\ ReapSlot(mgr[c], turn[c])
      BY <2>1 DEF StartTick, TypeInv, MgrOK, Callers, TypeOK, ThreadsOK
    <3> QED BY <3>1, ReapDrops
  <2>2. CASE KillBegin(c)
    BY <2>2 DEF KillBegin, TakeSlot, SlotsDrop, Names, TypeInv, TypeOK, ManagersOK
  <2> QED BY <2>1, <2>2 DEF InitializeCall, StopCall, StopStep, StartBegin, StartSpawnFails,
     StartMonitorPanics, StopSwap, StopNotify, StopJoin, KillEnd, StopClear, StopReset,
     managers, SlotsDrop
<1> QED BY <1>1, <1>2, <1>3, <1>4, <1>5

\* A step of another thread leaves a starting thread its position and its empty slot.
LEMMA StartKept ==
  ASSUME TypeInv, RdyInv, NEW d \in Controllers,
         pc'[d] = pc[d], mgr'[d] = mgr[d], turn'[d] = turn[d],
         pc[d] \in StartPcs => /\ mon'[mgr[d]] = "off"
                               /\ child'[mgr[d]]["trace"] \in {child[mgr[d]]["trace"], None}
  PROVE  /\ pc'[d] \in StartPcs => mon'[mgr'[d]] = "off"
         /\ pc'[d] = "spawn" /\ turn'[d] = "trace" => child'[mgr'[d]]["trace"] = None
BY DEF RdyInv, StartOff, StartPcs

\* A step of one controller leaves the others' positions alone.
LEMMA TurnsKept ==
  ASSUME TypeInv, NEW c \in Controllers,
         InitializeCall(c) \/ StopCall(c) \/ StartStep(c) \/ StopStep(c)
  PROVE  \A d \in Controllers : d # c => turn'[d] = turn[d]
<1> USE DEF TypeInv, TypeOK, ThreadsOK, Callers, Goto, Return, Advance
<1>1. CASE InitializeCall(c) \/ StopCall(c)
  BY <1>1 DEF InitializeCall, StopCall
<1>2. CASE StartStep(c)
  BY <1>2 DEF StartStep, StartBegin, StartTick, StartSpawn, StartSpawnFails, StartCommit,
              StartMonitor, StartMonitorPanics
<1>3. CASE StopStep(c)
  BY <1>3 DEF StopStep, StopSwap, StopNotify, StopJoin, KillBegin, KillEnd, StopClear, StopReset
<1> QED BY <1>1, <1>2, <1>3

\* A step of a controller keeps StartOff: the mutex of the cell admits one start() at a time.
LEMMA StartOffCallers ==
  ASSUME IInv, RdyInv, NEW c \in Controllers,
         InitializeCall(c) \/ StopCall(c) \/ StartStep(c) \/ StopStep(c)
  PROVE  StartOff'
<1> USE DEF IInv
<1>1. ASSUME NEW d \in Controllers, d # c
      PROVE  /\ pc'[d] \in StartPcs => mon'[mgr'[d]] = "off"
             /\ pc'[d] = "spawn" /\ turn'[d] = "trace" => child'[mgr'[d]]["trace"] = None
  <2>1. pc'[d] = pc[d] /\ mgr'[d] = mgr[d] /\ turn'[d] = turn[d]
    BY <1>1, OthersKept, TurnsKept
  <2>2. ASSUME pc[d] \in StartPcs
        PROVE  /\ mon'[mgr[d]] = "off"
               /\ child'[mgr[d]]["trace"] \in {child[mgr[d]]["trace"], None}
    <3>1. cellLock = d /\ d # None /\ mgr[d] \in Managers /\ mon[mgr[d]] = "off"
      BY <2>2, NoneAssumption DEF CellInv, RdyInv, StartOff, Callers, TypeInv, MgrOK, StartPcs
    <3>2. pc[c] \notin StartPcs /\ ~InitializeCall(c)
      BY <1>1, <3>1 DEF CellInv, InitializeCall
    <3>3. StopCall(c) \/ StopStep(c)
      BY <3>2 DEF StartStep, StartBegin, StartTick, StartSpawn, StartSpawnFails, StartCommit,
                  StartMonitor, StartMonitorPanics, StartPcs
    <3>4. /\ SlotsDrop
          /\ \A m \in Managers : mon'[m] = mon[m] \/ (mon[m] = "wait" /\ mon'[m] = "top")
      BY <3>3, QuietCallers
    <3> QED BY <3>1, <3>4 DEF SlotsDrop
  <2> QED BY <2>1, <2>2, StartKept
<1>2. /\ pc'[c] \in StartPcs => mon'[mgr'[c]] = "off"
      /\ pc'[c] = "spawn" /\ turn'[c] = "trace" => child'[mgr'[c]]["trace"] = None
  <2> USE DEF TypeInv, TypeOK, ThreadsOK, Callers, Goto, Return, Advance
  <2>1. CASE InitializeCall(c)
    <3>1. mgr'[c] = cell + 1 /\ pc'[c] = "start" /\ mon' = mon
      BY <2>1 DEF InitializeCall, monitors
    <3>2. cell + 1 \in Managers /\ cell + 1 > cell
      BY <2>1, BoundsAssumption DEF InitializeCall, GlobalsOK, Managers
    <3> QED BY <3>1, <3>2 DEF RdyInv, TraceInv, MonitorOff
  <2>2. CASE StopCall(c) \/ StopStep(c) \/ StartMonitor(c) \/ StartMonitorPanics(c)
    BY <2>2 DEF StopCall, StopStep, StopSwap, StopNotify, StopJoin, KillBegin, KillEnd,
       StopClear, StopReset, StartMonitor, StartMonitorPanics, StartPcs
  <2>3. CASE StartTick(c)
    <3>1. PICK m, n : m = mgr[c] /\ n = turn[c]
      OBVIOUS
    <3>2. m \in Managers /\ n \in Names /\ pc[c] = "tick" /\ ReapSlot(m, n)
      BY <2>3, <3>1 DEF StartTick, MgrOK
    <3>3. mon' = mon /\ mgr' = mgr
      BY <2>3 DEF StartTick, monitors
    <3>4. pc'[c] = "spawn" => ShouldAttempt(m, n) /\ turn' = turn
      BY <2>3, <3>1 DEF StartTick
    <3> QED BY <3>1, <3>2, <3>3, <3>4, ReapDrops DEF RdyInv, StartOff, StartPcs
  <2>4. CASE StartBegin(c) \/ StartSpawn(c) \/ StartSpawnFails(c) \/ StartCommit(c)
    BY <2>4 DEF StartBegin, StartSpawn, StartSpawnFails, StartCommit, monitors, StartPcs,
       RdyInv, StartOff
  <2> QED BY <2>1, <2>2, <2>3, <2>4 DEF StartStep
<1> QED BY <1>1, <1>2 DEF StartOff

\* A step of the monitor touches its own manager only.
LEMMA MonOwnOnly ==
  ASSUME TypeInv, NEW m \in Managers, MonStep(m), NEW k \in Managers, k # m
  PROVE  /\ mon'[k] = mon[k] /\ monTurn'[k] = monTurn[k] /\ plan'[k] = plan[k]
         /\ child'[k] = child[k] /\ ready'[k] = ready[k] /\ seen'[k] = seen[k]
<1>1. PICK n \in Names : n = monTurn[m]
  BY DEF TypeInv, TypeOK, MonitorsOK
<1>2. mon'[k] = mon[k] /\ monTurn'[k] = monTurn[k] /\ plan'[k] = plan[k]
  BY DEF MonStep, MonTop, MonCheck, MonRecheck, MonSpawn, MonSpawnFails, MonUnready,
     MonCommit, MonRearm, MonWake, MonExit, MonGoto, MonAdvance, Plan, TypeInv, TypeOK,
     MonitorsOK
<1>3. child'[k] = child[k]
  BY DEF MonStep, MonTop, MonCheck, MonRecheck, MonSpawn, MonSpawnFails, MonUnready,
     MonCommit, MonRearm, MonWake, ReapSlot, FillSlot, managers, TypeInv, TypeOK, ManagersOK
<1>4. ready'[k] = ready[k]
  BY DEF MonStep, MonTop, MonCheck, MonRecheck, MonSpawn, MonSpawnFails, MonUnready,
     MonCommit, MonRearm, MonWake, ResetReadiness, managers, TypeInv, TypeOK, ManagersOK
<1>5. seen'[k] = seen[k]
  BY DEF MonStep, MonTop, MonCheck, MonRecheck, MonSpawn, MonSpawnFails, MonUnready,
     MonCommit, MonRearm, MonWake, Launch, TypeInv, TypeOK, SystemOK
<1> QED BY <1>2, <1>3, <1>4, <1>5

\* A step keeps StartOff.
LEMMA StartOffNext == ASSUME IInv, RdyInv, Next PROVE StartOff'
<1> USE DEF IInv
<1>1. ASSUME NEW q \in Proxies, ProxyGet(q) \/ ProxyStep(q) PROVE StartOff'
  <2>1. UNCHANGED <<child, turn>>
    BY <1>1 DEF ProxyStep, ProxyGet, ProxyEnter, ProxyLook, ProxyProbe, managers
  <2> QED BY <1>1, <2>1, ProxyFrame DEF RdyInv, StartOff
<1>2. ASSUME NEW m \in Managers, MonStep(m) PROVE StartOff'
  <2>1. UNCHANGED <<pc, mgr, turn>> /\ mon[m] # "off"
    BY <1>2 DEF MonStep, MonTop, MonCheck, MonRecheck, MonSpawn, MonSpawnFails, MonUnready,
       MonCommit, MonRearm, MonWake, threads
  <2> SUFFICES ASSUME NEW d \in Controllers, pc[d] \in StartPcs
               PROVE  mon'[mgr[d]] = "off" /\ child'[mgr[d]] = child[mgr[d]]
    BY <2>1, StartKept DEF StartOff, StartPcs
  <2>2. mgr[d] \in Managers /\ mgr[d] # m /\ mon[mgr[d]] = "off"
    BY <2>1 DEF RdyInv, StartOff, Callers, TypeInv, MgrOK, StartPcs
  <2> QED BY <1>2, <2>2, MonOwnOnly
<1>3. ASSUME Environment PROVE StartOff'
  <2>1. UNCHANGED <<child, turn>>
    BY <1>3 DEF Environment, ProcServe, ProcExit, BackoffElapses, ForeignToggles,
       HostThreadExits, managers, threads
  <2> QED BY <1>3, <2>1, EnvironmentFrame DEF RdyInv, StartOff, StartPcs
<1> QED BY <1>1, <1>2, <1>3, StartOffCallers DEF Next

\* The steps of the callers keep TraceInv.
LEMMA TraceCallers ==
  ASSUME IInv, RdyInv, NEW c \in Controllers,
         InitializeCall(c) \/ StopCall(c) \/ StartStep(c) \/ StopStep(c)
  PROVE  \A m \in Managers : TraceInv(m)'
<1> SUFFICES ASSUME NEW m \in Managers PROVE TraceInv(m)'
  OBVIOUS
<1> USE DEF IInv
<1>1. TraceInv(m) /\ MonitorOff(m) /\ Planned(m)
  BY DEF RdyInv, TraceInv
<1>2. \A q \in Proxies : pc'[q] = pc[q] /\ mgr'[q] = mgr[q]
  BY ProxiesKept
<1>3. CASE \/ InitializeCall(c) \/ StopCall(c) \/ StopStep(c)
           \/ StartBegin(c) \/ StartTick(c) \/ StartSpawnFails(c) \/ StartMonitorPanics(c)
  <2>1. /\ UNCHANGED <<plan, monTurn, seen>> /\ SlotsDrop
        /\ ready'[m] => ready[m]
        /\ mon'[m] = mon[m] \/ (mon[m] = "wait" /\ mon'[m] = "top")
        /\ cell' \in {cell, cell + 1}
    BY <1>3, QuietCallers
  <2>2. m > cell' => mon'[m] = "off"
    BY <1>1, <2>1, BoundsAssumption DEF MonitorOff, Managers, TypeInv, TypeOK, GlobalsOK
  <2>3. mon'[m] = mon[m] \/ (plan[m]["trace"] \notin Pids /\ mon'[m] \notin {"off", "spawn"})
    BY <1>1, <2>1 DEF Planned
  <2> QED BY <1>1, <1>2, <2>1, <2>2, <2>3, TraceFrame DEF SlotsDrop
<1>4. CASE StartMonitor(c)
  <2>1. UNCHANGED <<cell, plan, monTurn, seen, child, ready>>
    BY <1>4 DEF StartMonitor
  <2>2. mgr[c] = cell
    BY <1>4 DEF StartMonitor, CellInv, StartPcs
  <2>3. /\ mon'[m] = mon[m] \/ (m = cell /\ mon[m] = "off" /\ mon'[m] = "top")
    BY <1>4, <2>2 DEF StartMonitor, TypeInv, TypeOK, MonitorsOK
  <2>4. m > cell' => mon'[m] = "off"
    BY <1>1, <2>1, <2>3, BoundsAssumption DEF MonitorOff, Managers
  <2>5. mon'[m] = mon[m] \/ (plan[m]["trace"] \notin Pids /\ mon'[m] \notin {"off", "spawn"})
    BY <1>1, <2>3 DEF Planned
  <2> QED BY <1>1, <1>2, <2>1, <2>4, <2>5, TraceFrame
<1>5. CASE StartSpawn(c)
  <2>1. PICK k, n : k = mgr[c] /\ n = turn[c]
    OBVIOUS
  <2>2. UNCHANGED <<cell, mon, plan, monTurn, child, ready>> /\ pc[c] = "spawn"
    BY <1>5 DEF StartSpawn, globals, managers, monitors
  <2>3. PICK p \in Pids : Launch(c, k, n, p)
    BY <1>5, <2>1 DEF StartSpawn
  <2>4. m # k \/ n # "trace" => seen'[m] = seen[m]
    BY <2>3 DEF Launch, TypeInv, TypeOK, SystemOK
  <2>5. m = k /\ n = "trace" => child'[m]["trace"] = None
    BY <2>1, <2>2 DEF RdyInv, StartOff
  <2>6. child'[m]["trace"] = None \/ (seen[m] => seen'[m])
    BY <2>4, <2>5
  <2> QED BY <1>1, <1>2, <2>2, <2>6, TraceFrame DEF MonitorOff
<1>6. CASE StartCommit(c)
  <2>1. PICK k, n : k = mgr[c] /\ n = turn[c]
    OBVIOUS
  <2>2. k \in Managers /\ n \in Names /\ mon[k] = "off" /\ plan[k]["trace"] = "no"
    BY <1>6, <2>1 DEF StartCommit, RdyInv, StartOff, StartPcs, TraceInv, MonitorOff, Callers,
       TypeInv, MgrOK, TypeOK, ThreadsOK
  <2>3. UNCHANGED <<cell, mon, plan, monTurn, seen>>
    BY <1>6 DEF StartCommit, globals, monitors
  <2>4. m # k \/ n # "trace" => child'[m]["trace"] = child[m]["trace"]
    BY <1>6, <2>1, <2>2 DEF StartCommit, FillSlot, Names, TypeInv, TypeOK, ManagersOK
  <2>5. ready'[m] => ready[m]
    BY <1>6, <2>1 DEF StartCommit, ResetReadiness, TypeInv, TypeOK, ManagersOK
  <2>6. CASE m # k \/ n # "trace"
    BY <1>1, <1>2, <2>3, <2>4, <2>5, <2>6, TraceFrame DEF MonitorOff
  <2>7. CASE m = k /\ n = "trace"
    <3>1. ~ready'[m]
      BY <1>6, <2>1, <2>2, <2>7 DEF StartCommit, ResetReadiness, TypeInv, TypeOK, ManagersOK
    <3> QED BY <1>1, <2>2, <2>3, <2>7, <3>1, NoneAssumption DEF TraceInv, MonitorOff, Planned,
               Sound
  <2> QED BY <2>6, <2>7
<1> QED BY <1>3, <1>4, <1>5, <1>6 DEF StartStep

\* The steps of the proxy callers keep TraceInv: whoever grants readiness has seen an answer.
LEMMA TraceProxies ==
  ASSUME TypeInv, RdyInv, NEW q \in Proxies, ProxyGet(q) \/ ProxyStep(q)
  PROVE  \A m \in Managers : TraceInv(m)'
<1> SUFFICES ASSUME NEW m \in Managers PROVE TraceInv(m)'
  OBVIOUS
<1>1. TraceInv(m) /\ MonitorOff(m) /\ Planned(m) /\ Sound(m)
  BY DEF RdyInv, TraceInv
<1>2. UNCHANGED <<cell, mon, monTurn, plan, child>>
  BY DEF ProxyStep, ProxyGet, ProxyEnter, ProxyLook, ProxyProbe, globals, managers, monitors
<1>3. \A r \in Proxies : r # q => pc'[r] = pc[r] /\ mgr'[r] = mgr[r]
  BY DEF ProxyGet, ProxyStep, ProxyEnter, ProxyLook, ProxyProbe, Goto, Return, TypeInv,
     TypeOK, ThreadsOK, Callers
<1>4. CASE ProxyGet(q) \/ ProxyEnter(q) \/ ProxyLook(q)
  <2>1. UNCHANGED <<ready, seen>>
    BY <1>4 DEF ProxyGet, ProxyEnter, ProxyLook, managers
  <2>2. mgr'[q] = m /\ pc'[q] = "probe" => child[m]["trace"] # None
    BY <1>4 DEF ProxyGet, ProxyEnter, ProxyLook, Goto, Return, TypeInv, TypeOK, ThreadsOK,
       Callers
  <2> QED BY <1>1, <1>2, <1>3, <2>1, <2>2, TraceFrame DEF MonitorOff
<1>5. CASE ProxyProbe(q)
  <2>1. pc[q] = "probe" /\ pc'[q] = "idle" /\ mgr[q] \in Managers
    BY <1>5 DEF ProxyProbe, Goto, Return, TypeInv, TypeOK, ThreadsOK, MgrOK, Callers
  <2>2. m # mgr[q] => ready'[m] = ready[m] /\ seen'[m] = seen[m]
    BY <1>5, <2>1 DEF ProxyProbe, TypeInv, TypeOK, ManagersOK, SystemOK
  <2>3. seen[m] => seen'[m]
    BY <1>5 DEF ProxyProbe, TypeInv, TypeOK, SystemOK
  <2>4. CASE m # mgr[q]
    BY <1>1, <1>2, <1>3, <2>1, <2>2, <2>4, TraceFrame DEF MonitorOff
  <2>5. CASE m = mgr[q]
    <3>1. ~DebugBuild => (ready'[m] => ready[m] \/ seen'[m])
      BY <1>5, <2>5 DEF ProxyProbe, TypeInv, TypeOK, ManagersOK, SystemOK
    <3>2. Sound(m)'
      BY <1>1, <1>2, <2>3, <3>1 DEF Sound
    <3>3. ~(plan[m]["trace"] \in Pids /\ mon[m] = "commit")
      BY <1>1, <2>1, <2>5 DEF Planned
    <3>4. MonitorOff(m)' /\ Planned(m)'
      BY <1>1, <1>2, <3>3 DEF MonitorOff, Planned
    <3> QED BY <3>2, <3>4 DEF TraceInv
  <2> QED BY <2>4, <2>5
<1> QED BY <1>4, <1>5 DEF ProxyStep

\* The steps of the environment keep TraceInv.
LEMMA TraceEnvironment ==
  ASSUME TypeInv, RdyInv, Environment
  PROVE  \A m \in Managers : TraceInv(m)'
<1>1. UNCHANGED <<cell, mon, monTurn, plan, child, ready, seen>>
  BY DEF Environment, ProcServe, ProcExit, BackoffElapses, ForeignToggles, HostThreadExits,
     globals, managers, monitors
<1>2. \A q \in Proxies : pc'[q] = pc[q] /\ mgr'[q] = mgr[q]
  BY ProxiesKept
<1> QED BY <1>1, <1>2, TraceFrame DEF RdyInv, TraceInv, MonitorOff

\* The end of the monitor keeps TraceInv.
LEMMA TraceExit ==
  ASSUME TypeInv, RdyInv, NEW m \in Managers, mon[m] # "off", MonExit(m),
         UNCHANGED <<cell, child, ready, seen>>
  PROVE  TraceInv(m)'
<1>1. mon'[m] = "done" /\ plan'[m]["trace"] = "no"
  BY DEF MonExit, MonGoto, NoPlan, Names, TypeInv, TypeOK, MonitorsOK
<1> QED BY <1>1, NoneAssumption DEF RdyInv, TraceInv, MonitorOff, Planned, Sound

\* The steps of the monitor keep TraceInv: it checks, spawns and commits with its slot empty, and
\* resets readiness between the spawn and the commit.
LEMMA TraceMonitor ==
  ASSUME TypeInv, RdyInv, NEW m \in Managers, MonStep(m)
  PROVE  TraceInv(m)'
<1>1. TraceInv(m) /\ MonitorOff(m) /\ Planned(m) /\ Sound(m)
  BY DEF RdyInv, TraceInv
<1>2. /\ UNCHANGED <<cell, pc, mgr>> /\ mon[m] # "off" /\ m <= cell
      /\ mon[m] \in MonPcs /\ monTurn[m] \in Names
  BY <1>1, MonFrame, BoundsAssumption DEF MonStep, MonTop, MonCheck, MonRecheck, MonSpawn,
     MonSpawnFails, MonUnready, MonCommit, MonRearm, MonWake, MonitorOff, Managers, TypeInv,
     TypeOK, GlobalsOK, MonitorsOK
<1>3. PICK n \in Names : n = monTurn[m]
  BY <1>2
<1> USE DEF MonGoto, MonAdvance, TypeInv, TypeOK, MonitorsOK
<1>4. ~(m > cell')
  BY <1>2, BoundsAssumption DEF Managers, GlobalsOK
<1>5. CASE MonTop(m) \/ MonWake(m) \/ MonRearm(m)
  <2>1. CASE MonExit(m)
    <3>1. UNCHANGED <<cell, child, ready, seen>>
      BY <1>5, <2>1, <1>2 DEF MonTop, MonWake, MonRearm, MonExit, managers
    <3> QED BY <1>2, <2>1, <3>1, TraceExit
  <2>2. CASE ~MonExit(m)
    <3>1. /\ mon[m] \in {"top", "wait", "rearm"} /\ mon'[m] \in {"check", "top", "wait"}
          /\ plan' = plan /\ monTurn' = monTurn /\ child' = child /\ seen' = seen
      BY <1>5, <2>2 DEF MonTop, MonWake, MonRearm, managers
    <3>2. ready'[m] => ready[m]
      BY <1>5 DEF MonTop, MonWake, MonRearm, managers, ResetReadiness, ManagersOK
    <3> QED BY <1>1, <1>2, <1>4, <3>1, <3>2, TraceFrame DEF Planned
  <2> QED BY <2>1, <2>2
<1>6. CASE MonCheck(m)
  <2>1. mon[m] = "check" /\ mon'[m] \in {"check", "recheck"} /\ UNCHANGED <<ready, seen>>
    BY <1>6 DEF MonCheck
  <2>2. ReapSlot(m, n) /\ Plan(m, n, IF ShouldAttempt(m, n) THEN "want" ELSE "no")
    BY <1>3, <1>6 DEF MonCheck
  <2>3. child'[m]["trace"] \in {child[m]["trace"], None}
    BY <2>2, ReapDrops DEF SlotsDrop
  <2>4. plan'[m]["trace"] \in {plan[m]["trace"], "want", "no"}
    BY <2>2 DEF Plan, Names
  <2>5. plan'[m]["trace"] # "no" => child'[m]["trace"] = None
    <3>1. CASE n = "trace"
      BY <2>2, <3>1, ReapDrops DEF Plan, Names
    <3>2. CASE n # "trace"
      BY <1>1, <2>2, <2>3, <3>2 DEF Plan, Names, Planned
    <3> QED BY <3>1, <3>2
  <2> QED BY <1>1, <1>4, <2>1, <2>3, <2>4, <2>5, NoneAssumption DEF TraceInv, MonitorOff,
             Planned, Sound
<1>7. CASE MonRecheck(m)
  <2>1. CASE MonExit(m)
    <3>1. UNCHANGED <<cell, child, ready, seen>>
      BY <1>7, <1>2 DEF MonRecheck, managers
    <3> QED BY <1>2, <2>1, <3>1, TraceExit
  <2>2. CASE ~MonExit(m)
    <3>1. /\ mon[m] = "recheck" /\ UNCHANGED <<plan, child, ready, seen>>
          /\ mon'[m] \in {"recheck", "commit", "spawn"}
          /\ mon'[m] = "spawn" => plan[m][monTurn[m]] # "no" /\ monTurn' = monTurn
      BY <1>7, <2>2 DEF MonRecheck, managers
    <3> QED BY <1>1, <1>4, <3>1, NoneAssumption DEF TraceInv, MonitorOff, Planned, Sound
  <2> QED BY <2>1, <2>2
<1>8. CASE MonSpawn(m)
  <2>1. PICK p \in Pids : Launch(m, m, n, p) /\ Plan(m, n, p)
    BY <1>3, <1>8 DEF MonSpawn
  <2>2. /\ mon[m] = "spawn" /\ UNCHANGED <<child, ready>>
        /\ n = "agent" => /\ mon'[m] = "recheck" /\ seen' = seen
                          /\ plan'[m]["trace"] = plan[m]["trace"]
        /\ n = "trace" => mon'[m] = "unready"
    BY <1>3, <1>8, <2>1 DEF MonSpawn, managers, Launch, Plan, Names
  <2>3. CASE n = "agent"
    BY <1>1, <1>4, <2>2, <2>3, NoneAssumption DEF TraceInv, MonitorOff, Planned, Sound
  <2>4. CASE n = "trace"
    BY <1>1, <1>3, <1>4, <2>2, <2>4, NoneAssumption DEF TraceInv, MonitorOff, Planned, Sound
  <2> QED BY <2>3, <2>4 DEF Names
<1>9. CASE MonSpawnFails(m)
  <2>1. /\ mon[m] = "spawn" /\ UNCHANGED <<child, ready, seen>>
        /\ mon'[m] \in {"recheck", "commit"}
        /\ n = "agent" => plan'[m]["trace"] = plan[m]["trace"]
        /\ n = "trace" => plan'[m]["trace"] = "err"
    BY <1>3, <1>9 DEF MonSpawnFails, managers, system, Plan, Names
  <2> QED BY <1>1, <1>3, <1>4, <2>1, NoneAssumption DEF Names, TraceInv, MonitorOff, Planned,
             Sound
<1>10. CASE MonUnready(m)
  <2>1. /\ UNCHANGED <<plan, child, seen>> /\ mon'[m] = "commit" /\ readyLock[m] = None
    BY <1>10 DEF MonUnready
  <2>2. ~ready'[m]
    BY <1>10 DEF MonUnready, ResetReadiness, ManagersOK
  <2>3. \A q \in Proxies : mgr[q] = m => pc[q] # "probe"
    BY <2>1, NoneAssumption DEF RdyInv, ProxyLocks, Callers
  <2> QED BY <1>1, <1>2, <1>4, <2>1, <2>2, <2>3 DEF TraceInv, MonitorOff, Planned, Sound
<1>11. CASE MonCommit(m)
  <2>1. /\ mon[m] = "commit" /\ mon'[m] \in {"commit", "rearm", "wait"}
        /\ UNCHANGED <<ready, seen>> /\ Plan(m, n, "no")
    BY <1>3, <1>11 DEF MonCommit
  <2>2. CASE n = "trace"
    <3>1. plan'[m]["trace"] = "no"
      BY <2>1, <2>2 DEF Plan, Names
    <3>2. plan[m]["trace"] \notin Pids => child' = child
      BY <1>3, <1>11, <2>2 DEF MonCommit, SpawnedOk
    <3>3. plan[m]["trace"] \in Pids => ~ready[m]
      BY <1>1, <2>1 DEF Planned
    <3> QED BY <1>1, <1>4, <2>1, <3>1, <3>2, <3>3, NoneAssumption DEF TraceInv, MonitorOff,
               Planned, Sound
  <2>3. CASE n = "agent"
    <3>1. plan'[m]["trace"] = plan[m]["trace"] /\ child'[m]["trace"] = child[m]["trace"]
      BY <1>3, <1>11, <2>1, <2>3 DEF MonCommit, FillSlot, Plan, Names, ManagersOK
    <3>2. plan[m]["trace"] \in Pids => mon'[m] = "commit"
      BY <1>3, <1>11, <2>3 DEF MonCommit
    <3> QED BY <1>1, <1>2, <1>4, <2>1, <3>1, <3>2 DEF TraceInv, MonitorOff, Planned, Sound
  <2> QED BY <2>2, <2>3 DEF Names
<1> QED BY <1>5, <1>6, <1>7, <1>8, <1>9, <1>10, <1>11 DEF MonStep

\* RdyInv is inductive relative to IInv.
LEMMA RdyNext == ASSUME IInv, RdyInv, Next PROVE RdyInv'
<1>1. TypeInv
  BY DEF IInv
<1>2. ProxyLocks' /\ StartOff'
  BY <1>1, ProxyLocksNext, StartOffNext DEF RdyInv
<1>3. ASSUME NEW k \in Managers, MonStep(k), NEW m \in Managers PROVE TraceInv(m)'
  <2>1. CASE m = k
    BY <1>1, <1>3, <2>1, TraceMonitor
  <2>2. CASE m # k
    <3>1. /\ mon'[m] = mon[m] /\ monTurn'[m] = monTurn[m] /\ plan'[m] = plan[m]
          /\ child'[m] = child[m] /\ ready'[m] = ready[m] /\ seen'[m] = seen[m]
      BY <1>1, <1>3, <2>2, MonOwnOnly
    <3>2. UNCHANGED <<cell, pc, mgr>>
      BY <1>3, MonFrame
    <3>3. TraceInv(m)
      BY DEF RdyInv
    <3> QED BY <3>1, <3>2, <3>3, TraceFrame DEF TraceInv, MonitorOff
  <2> QED BY <2>1, <2>2
<1>4. \A m \in Managers : TraceInv(m)'
  BY <1>1, <1>3, TraceCallers, TraceProxies, TraceEnvironment DEF Next
<1> QED BY <1>2, <1>4 DEF RdyInv

\* RdyInv always holds.
LEMMA RdyAlways == Spec => []RdyInv
<1>1. Init => RdyInv
  BY NoneAssumption DEF Init, NoPlan, Names, Callers, StartPcs, RdyInv, ProxyLocks, StartOff,
     TraceInv, MonitorOff, Planned, Sound
<1>2. IInv /\ RdyInv /\ [Next]_vars => RdyInv'
  <2>1. IInv /\ RdyInv /\ UNCHANGED vars => RdyInv'
    BY DEF vars, globals, managers, threads, monitors, RdyInv, ProxyLocks, StartOff, TraceInv,
       MonitorOff, Planned, Sound
  <2> QED BY <2>1, RdyNext
<1> QED BY <1>1, <1>2, IInvAlways, PTL DEF Spec

\* While the trace-agent's slot is filled, readiness means that a probe connected since the last
\* spawn: neither a respawn by the monitor nor the spawn of start() leaves an old answer standing,
\* whatever the number of callers and sessions (release builds, where a timeout is no answer).
THEOREM ReadySoundAlways == Spec => []ReadySound
<1>1. RdyInv => ReadySound
  BY DEF RdyInv, TraceInv, Sound, ReadySound
<1> QED BY <1>1, RdyAlways, PTL

(***************************************************************************)
(* Who waits for whom                                                      *)
(***************************************************************************)
\* A caller works on the manager in the cell, or on one that was there before.
MgrBound == \A t \in Callers : mgr[t] <= cell
\* While start() runs, nobody else has got hold of its manager.
StartAlone == \A c \in Controllers, t \in Callers :
                pc[c] \in StartPcs /\ t # c /\ pc[t] \notin {"idle", "gone"} => mgr[t] # mgr[c]
\* The holder of trace_agent_ready is a proxy caller of that manager, inside the lock's scope.
ReadyHeld == \A m \in Managers, q \in Proxies :
               readyLock[m] = q => mgr[q] = m /\ pc[q] \in {"look", "probe"}
\* A monitor thread that is joined was started.
JoinOn == \A c \in Controllers : pc[c] = "join" => mon[mgr[c]] # "off"
\* The invariant behind NoDeadlock.
WaitInv == MgrBound /\ StartAlone /\ ReadyHeld /\ JoinOn

\* A thread enters a call with the cell's mutex free, on the manager then in the cell.
Enters(t) == /\ pc[t] = "idle" /\ cellLock = None /\ mgr'[t] = cell'
             /\ pc'[t] \in {"start", "stop", "enter"}
             /\ pc'[t] = "start" => cell' > cell
\* A thread goes on, or stays where it is, or is gone while idle.
GoesOn(t) == /\ mgr'[t] = mgr[t]
             /\ pc[t] \in {"idle", "gone"} => pc'[t] \in {"idle", "gone"}
             /\ pc'[t] \in StartPcs => pc[t] \in StartPcs
             /\ pc'[t] = "start" => pc[t] = "start"
             /\ pc'[t] = "join" => pc[t] = "join" \/ mon[mgr[t]] # "off"
\* A thread returns from its call.
Returns(t) == pc'[t] = "idle" /\ mgr'[t] = 0

\* A step of a controller moves it in one of these ways.
LEMMA ControllerMoves ==
  ASSUME TypeInv, NEW c \in Controllers,
         InitializeCall(c) \/ StopCall(c) \/ StartStep(c) \/ StopStep(c)
  PROVE  /\ Enters(c) \/ GoesOn(c) \/ Returns(c)
         /\ cell' = cell \/ (cell' = cell + 1 /\ pc'[c] = "start" /\ cellLock = None)
<1> USE DEF TypeInv, TypeOK, ThreadsOK, Callers, Goto, Return, Advance, StartPcs, Enters, GoesOn,
            Returns
<1>1. CASE InitializeCall(c)
  <2>1. cell' = cell + 1 /\ cell + 1 > cell
    BY <1>1 DEF InitializeCall, GlobalsOK
  <2> QED BY <1>1, <2>1 DEF InitializeCall
<1>2. CASE StopCall(c)
  BY <1>2 DEF StopCall, globals
<1>3. CASE StartStep(c)
  BY <1>3 DEF StartStep, StartBegin, StartTick, StartSpawn, StartSpawnFails, StartCommit,
              StartMonitor, StartMonitorPanics, globals
<1>4. CASE StopStep(c)
  <2>1. CASE StopNotify(c)
    BY <2>1 DEF StopNotify, globals
  <2>2. CASE StopSwap(c) \/ StopJoin(c)
    BY <2>2 DEF StopSwap, StopJoin, globals
  <2>3. CASE KillBegin(c) \/ KillEnd(c) \/ StopClear(c) \/ StopReset(c)
    BY <2>3 DEF KillBegin, KillEnd, StopClear, StopReset, globals
  <2> QED BY <1>4, <2>1, <2>2, <2>3 DEF StopStep
<1> QED BY <1>1, <1>2, <1>3, <1>4

\* So does a step of a proxy caller.
LEMMA ProxyMoves ==
  ASSUME TypeInv, NEW q \in Proxies, ProxyGet(q) \/ ProxyStep(q)
  PROVE  /\ Enters(q) \/ GoesOn(q) \/ Returns(q)
         /\ cell' = cell
         /\ \A r \in Callers \ {q} : pc'[r] = pc[r] /\ mgr'[r] = mgr[r]
<1> USE DEF TypeInv, TypeOK, ThreadsOK, Callers, Goto, Return, StartPcs, Enters, GoesOn,
            Returns
<1>1. CASE ProxyGet(q)
  BY <1>1 DEF ProxyGet, globals
<1>2. CASE ProxyStep(q)
  BY <1>2 DEF ProxyStep, ProxyEnter, ProxyLook, ProxyProbe, globals
<1> QED BY <1>1, <1>2

\* A step moves one caller at most, and only initialize() changes the cell.
LEMMA CallerMoves ==
  ASSUME TypeInv, Next
  PROVE  /\ \A t \in Callers : Enters(t) \/ GoesOn(t) \/ Returns(t)
         /\ \A t, u \in Callers : t # u => GoesOn(t) \/ GoesOn(u)
         /\ cell <= cell'
<1>0. cell \in Nat
  BY BoundsAssumption DEF TypeInv, TypeOK, GlobalsOK
<1>1. ASSUME NEW c \in Controllers,
             InitializeCall(c) \/ StopCall(c) \/ StartStep(c) \/ StopStep(c)
      PROVE  /\ \A t \in Callers \ {c} : GoesOn(t)
             /\ Enters(c) \/ GoesOn(c) \/ Returns(c)
             /\ cell <= cell'
  <2>1. \A d \in Callers \ {c} : pc'[d] = pc[d] /\ mgr'[d] = mgr[d]
    BY <1>1, OthersKept, ProxiesKept DEF Callers
  <2> QED BY <1>0, <1>1, <2>1, ControllerMoves DEF GoesOn
<1>2. ASSUME NEW q \in Proxies, ProxyGet(q) \/ ProxyStep(q)
      PROVE  /\ \A t \in Callers \ {q} : GoesOn(t)
             /\ Enters(q) \/ GoesOn(q) \/ Returns(q)
             /\ cell <= cell'
  BY <1>0, <1>2, ProxyMoves DEF GoesOn
<1>3. ASSUME NEW m \in Managers, MonStep(m)
      PROVE  (\A t \in Callers : GoesOn(t)) /\ cell <= cell'
  BY <1>0, <1>3, MonFrame DEF GoesOn
<1>4. ASSUME Environment
      PROVE  (\A t \in Callers : GoesOn(t)) /\ cell <= cell'
  <2>1. \A t \in Callers : pc'[t] = pc[t] \/ (pc[t] = "idle" /\ pc'[t] = "gone")
    BY <1>4, EnvironmentFrame, ProxiesKept DEF Callers
  <2> QED BY <1>0, <1>4, <2>1, EnvironmentFrame DEF GoesOn, StartPcs
<1> QED BY <1>1, <1>2, <1>3, <1>4 DEF Next, Callers

\* A step keeps MgrBound.
LEMMA MgrBoundNext == ASSUME TypeInv, MgrBound, Next PROVE MgrBound'
<1>1. /\ cell \in Nat /\ cell' \in Nat
      /\ \A t \in Callers : mgr[t] \in Nat
  BY TypeNext, BoundsAssumption DEF TypeInv, TypeOK, GlobalsOK, ThreadsOK
<1> QED BY <1>1, CallerMoves DEF MgrBound, Enters, GoesOn, Returns

\* A step keeps StartAlone: start() works on a manager newer than all that others have got,
\* and nobody gets it from the cell before start() has returned.
LEMMA StartAloneNext == ASSUME IInv, MgrBound, StartAlone, Next PROVE StartAlone'
<1> SUFFICES ASSUME NEW c \in Controllers, NEW t \in Callers, t # c,
                    pc'[c] \in StartPcs, pc'[t] \notin {"idle", "gone"}
             PROVE  mgr'[t] # mgr'[c]
  BY DEF StartAlone
<1>1. c \in Callers /\ cell \in Nat /\ mgr[t] \in Nat /\ TypeInv
  BY BoundsAssumption DEF Callers, IInv, TypeInv, TypeOK, GlobalsOK, ThreadsOK
<1>2. CASE GoesOn(c) /\ GoesOn(t)
  BY <1>2 DEF GoesOn, StartAlone
<1>3. CASE GoesOn(c) /\ Enters(t)
  <2>1. cellLock = c /\ c # None
    BY <1>3, NoneAssumption DEF GoesOn, IInv, CellInv, Callers
  <2> QED BY <1>3, <2>1 DEF Enters
<1>4. CASE Enters(c) /\ GoesOn(t)
  <2>1. pc'[c] = "start"
    BY <1>4 DEF Enters, StartPcs
  <2> QED BY <1>1, <1>4, <2>1 DEF Enters, GoesOn, MgrBound
<1>5. ~Returns(c) /\ ~Returns(t)
  BY DEF Returns, StartPcs
<1> QED BY <1>1, <1>2, <1>3, <1>4, <1>5, CallerMoves

\* A step keeps ReadyHeld: only proxy callers lock trace_agent_ready across steps, and each
\* unlocks it when it returns.
LEMMA ReadyHeldNext == ASSUME TypeInv, ReadyHeld, Next PROVE ReadyHeld'
<1>1. ASSUME NEW q \in Proxies, ProxyGet(q) \/ ProxyStep(q) PROVE ReadyHeld'
  <2> SUFFICES ASSUME NEW m \in Managers, NEW r \in Proxies, readyLock'[m] = r
               PROVE  mgr'[r] = m /\ pc'[r] \in {"look", "probe"}
    BY DEF ReadyHeld
  <2>1. \A s \in Proxies \ {q} : pc'[s] = pc[s] /\ mgr'[s] = mgr[s]
    BY <1>1, ProxyMoves DEF Callers
  <2>2. r # None /\ readyLock \in [Managers -> Proxies \cup {None}]
    BY NoneAssumption DEF Callers, TypeInv, TypeOK, ManagersOK
  <2>3. readyLock[m] = r => mgr[r] = m /\ pc[r] \in {"look", "probe"}
    BY DEF ReadyHeld
  <2>4. /\ pc \in [Callers -> {"idle", "gone"} \cup StartPcs \cup StopPcs \cup ProxyPcs]
        /\ mgr \in [Callers -> 0..MaxManagers]
        /\ q \in Callers /\ r \in Callers
    BY DEF Callers, TypeInv, TypeOK, ThreadsOK
  <2>5. CASE ProxyGet(q)
    BY <2>1, <2>3, <2>5 DEF ProxyGet, managers
  <2>6. CASE ProxyEnter(q)
    BY <2>1, <2>2, <2>3, <2>4, <2>6 DEF ProxyEnter, Goto, Return
  <2>7. CASE ProxyLook(q)
    BY <2>1, <2>2, <2>3, <2>4, <2>7 DEF ProxyLook, Goto, Return, UnlockReady
  <2>8. CASE ProxyProbe(q)
    BY <2>1, <2>2, <2>3, <2>4, <2>8 DEF ProxyProbe, Return, Goto, UnlockReady
  <2> QED BY <1>1, <2>5, <2>6, <2>7, <2>8 DEF ProxyStep
<1>2. CASE \/ \E c \in Controllers :
                InitializeCall(c) \/ StopCall(c) \/ StartStep(c) \/ StopStep(c)
           \/ \E m \in Managers : MonStep(m)
           \/ Environment
  BY <1>2, ProxiesKept DEF ReadyHeld
<1> QED BY <1>1, <1>2 DEF Next

\* No step takes a monitor back to where it was before it started.
LEMMA MonStaysOn ==
  ASSUME TypeInv, Next, NEW m \in Managers, mon[m] # "off" PROVE mon'[m] # "off"
<1> USE DEF TypeInv, TypeOK, MonitorsOK
<1>1. ASSUME NEW c \in Controllers,
             InitializeCall(c) \/ StopCall(c) \/ StartStep(c) \/ StopStep(c)
      PROVE  mon'[m] # "off"
  BY <1>1 DEF InitializeCall, StopCall, StartStep, StartBegin, StartTick, StartSpawn,
     StartSpawnFails, StartCommit, StartMonitor, StartMonitorPanics, StopStep, StopSwap,
     StopNotify, StopJoin, KillBegin, KillEnd, StopClear, StopReset, monitors
<1>2. ASSUME NEW q \in Proxies, ProxyGet(q) \/ ProxyStep(q) PROVE mon'[m] # "off"
  BY <1>2, ProxyFrame
<1>3. ASSUME NEW k \in Managers, MonStep(k) PROVE mon'[m] # "off"
  BY <1>3 DEF MonStep, MonTop, MonCheck, MonRecheck, MonSpawn, MonSpawnFails, MonUnready,
     MonCommit, MonRearm, MonWake, MonGoto, MonAdvance, MonExit
<1>4. ASSUME Environment PROVE mon'[m] # "off"
  BY <1>4, EnvironmentFrame
<1> QED BY <1>1, <1>2, <1>3, <1>4 DEF Next

\* A step keeps JoinOn: stop() joins only when start() left it a thread to join.
LEMMA JoinOnNext == ASSUME TypeInv, JoinOn, Next PROVE JoinOn'
<1> SUFFICES ASSUME NEW c \in Controllers, pc'[c] = "join" PROVE mon'[mgr'[c]] # "off"
  BY DEF JoinOn
<1>1. GoesOn(c)
  BY CallerMoves DEF Callers, Enters, Returns
<1>2. mgr'[c] = mgr[c] /\ mon[mgr[c]] # "off"
  BY <1>1 DEF GoesOn, JoinOn
<1>3. mgr[c] \in Managers
  BY <1>1 DEF GoesOn, TypeInv, MgrOK, Callers
<1> QED BY <1>2, <1>3, MonStaysOn

\* WaitInv always holds.
LEMMA WaitAlways == Spec => []WaitInv
<1>1. Init => WaitInv
  BY NoneAssumption DEF Init, Callers, StartPcs, WaitInv, MgrBound, StartAlone, ReadyHeld, JoinOn
<1>2. IInv /\ WaitInv /\ [Next]_vars => WaitInv'
  <2>1. IInv /\ WaitInv /\ Next => WaitInv'
    BY MgrBoundNext, StartAloneNext, ReadyHeldNext, JoinOnNext DEF IInv, WaitInv
  <2>2. IInv /\ WaitInv /\ UNCHANGED vars => WaitInv'
    BY DEF vars, globals, managers, threads, monitors, WaitInv, MgrBound, StartAlone, ReadyHeld,
       JoinOn
  <2> QED BY <2>1, <2>2
<1> QED BY <1>1, <1>2, IInvAlways, PTL DEF Spec

\* An order of the threads in which each waits only for lower ones.
Rank(t) == CASE t \in Managers -> 2
             [] t \notin Managers /\ pc[t] = "idle" -> 5
             [] t \notin Managers /\ pc[t] = "stop" -> 4
             [] t \notin Managers /\ pc[t] = "join" -> 3
             [] t \notin Managers /\ pc[t] \in {"rearm", "enter"} -> 2
             [] t \notin Managers /\ pc[t] \in {"kill", "look"} -> 1
             [] OTHER -> 0

\* The rank of a caller is a matter of its position.
LEMMA CallerRank ==
  ASSUME NEW t \in Callers
  PROVE  /\ t \notin Managers
         /\ Rank(t) = IF pc[t] = "idle" THEN 5
                      ELSE IF pc[t] = "stop" THEN 4
                      ELSE IF pc[t] = "join" THEN 3
                      ELSE IF pc[t] \in {"rearm", "enter"} THEN 2
                      ELSE IF pc[t] \in {"kill", "look"} THEN 1 ELSE 0
BY ThreadAssumption DEF Rank

\* Nobody else holds a lock of the manager that start() works on: it waits for nobody.
LEMMA StartFree ==
  ASSUME IInv, WaitInv, NEW t \in Controllers, pc[t] \in StartPcs, NEW u \in Threads
  PROVE  ~WaitsFor(t, u)
<1> SUFFICES ASSUME WaitsFor(t, u) PROVE FALSE
  OBVIOUS
<1>1. t \in Callers /\ t \notin Managers /\ mgr[t] \in Managers
  BY ThreadAssumption DEF Callers, IInv, TypeInv, MgrOK, StartPcs
<1>2. \A q \in Proxies : readyLock[mgr[t]] # q
  BY <1>1, ThreadAssumption DEF WaitInv, ReadyHeld, StartAlone, Callers
<1>3. readyLock[mgr[t]] \in Proxies \cup {None} /\ startStop[mgr[t]] \in Controllers \cup {None}
  BY <1>1 DEF IInv, TypeInv, TypeOK, ManagersOK
<1>4. None \notin Threads
  BY ThreadAssumption, NoneAssumption DEF Threads
<1>5. readyLock[mgr[t]] # u
  BY <1>2, <1>3, <1>4
<1>6. \A n : HoldsChild(u, mgr[t], n) => u = t
  BY <1>1 DEF HoldsChild, WaitInv, StartAlone, Callers
<1>7. startStop[mgr[t]] = u => u \in Controllers /\ mgr[u] = mgr[t] /\ (Starting(u) \/ Stopping(u))
  BY <1>1, <1>3, <1>4 DEF IInv, LockInv
<1>8. startStop[mgr[t]] = u => u = t
  BY <1>1, <1>7 DEF WaitInv, StartAlone, Callers, Starting, Stopping, StartPcs, StopPcs
<1>9. pc[t] = "start" => startStop[mgr[t]] # u
  BY <1>7, <1>8 DEF Starting, Stopping, StopPcs
<1> QED BY <1>1, <1>5, <1>6, <1>9 DEF WaitsFor, HoldsChild, StartPcs

\* The holder of trace_agent_ready looks or probes.
LEMMA ReadyHolder ==
  ASSUME IInv, WaitInv, NEW m \in Managers, NEW u \in Threads, readyLock[m] = u
  PROVE  u \in Callers /\ pc[u] \in {"look", "probe"}
<1>1. u # None
  BY ThreadAssumption, NoneAssumption DEF Threads
<1>2. readyLock[m] \in Proxies \cup {None}
  BY DEF IInv, TypeInv, TypeOK, ManagersOK
<1> QED BY <1>1, <1>2 DEF WaitInv, ReadyHeld, Callers

\* The holder of start_stop_lock is inside start() or stop().
LEMMA StartStopHolder ==
  ASSUME IInv, NEW m \in Managers, NEW u \in Threads, startStop[m] = u
  PROVE  u \in Callers /\ pc[u] \in (StartPcs \ {"start"}) \cup (StopPcs \ {"stop"})
<1>1. u # None
  BY ThreadAssumption, NoneAssumption DEF Threads
<1>2. startStop[m] \in Controllers \cup {None}
  BY DEF IInv, TypeInv, TypeOK, ManagersOK
<1> QED BY <1>1, <1>2 DEF IInv, LockInv, Starting, Stopping, Callers

\* The holder of the cell's mutex is inside start().
LEMMA CellHolder ==
  ASSUME IInv, NEW u \in Threads, cellLock = u PROVE u \in Callers /\ pc[u] \in StartPcs
<1>1. u # None
  BY ThreadAssumption, NoneAssumption DEF Threads
<1>2. cellLock \in Controllers \cup {None}
  BY DEF IInv, TypeInv, TypeOK, GlobalsOK
<1> QED BY <1>1, <1>2 DEF IInv, CellInv, Callers

\* Whoever waits, waits for a thread at work, of a lower rank.
LEMMA WaitsDown ==
  ASSUME IInv, WaitInv, NEW t \in Threads, NEW u \in Threads, WaitsFor(t, u)
  PROVE  AtWork(u) /\ Rank(u) < Rank(t)
<1>1. CASE t \in Managers
  <2>1. Rank(t) = 2 /\ t \notin Callers /\ t \notin Controllers /\ t \notin Proxies
    BY <1>1, ThreadAssumption DEF Rank, Callers
  <2>2. \/ readyLock[t] = u
        \/ u \in Controllers /\ pc[u] \in {"spawn", "commit", "killing"}
    BY <2>1 DEF WaitsFor, HoldsChild
  <2>3. u \in Callers /\ pc[u] \in {"look", "probe", "spawn", "commit", "killing"}
    BY <1>1, <2>2, ReadyHolder DEF Callers
  <2> QED BY <2>1, <2>3, CallerRank DEF AtWork
<1>2. CASE t \in Proxies
  <2>1. t \in Callers /\ t \notin Controllers /\ t \notin Managers
    BY <1>2, ThreadAssumption DEF Callers
  <2>2. CASE pc[t] = "idle"
    <3>1. cellLock = u
      BY <2>1, <2>2 DEF WaitsFor
    <3> QED BY <2>1, <2>2, <3>1, CellHolder, CallerRank DEF AtWork, StartPcs
  <2>3. CASE pc[t] = "enter"
    <3>1. readyLock[mgr[t]] = u /\ mgr[t] \in Managers
      BY <2>1, <2>3 DEF WaitsFor, IInv, TypeInv, MgrOK
    <3> QED BY <2>1, <2>3, <3>1, ReadyHolder, CallerRank DEF AtWork
  <2>4. CASE pc[t] = "look"
    <3>1. u \in Callers /\ pc[u] \in {"spawn", "commit", "killing"}
      BY <2>1, <2>4 DEF WaitsFor, HoldsChild, Callers
    <3> QED BY <2>1, <2>4, <3>1, CallerRank DEF AtWork
  <2> QED BY <2>1, <2>2, <2>3, <2>4 DEF WaitsFor
<1>3. CASE t \in Controllers
  <2>1. t \in Callers /\ t \notin Proxies /\ t \notin Managers
    BY <1>3, ThreadAssumption DEF Callers
  <2>2. pc[t] \notin StartPcs
    BY <1>3, StartFree
  <2>3. CASE pc[t] = "idle"
    <3>1. cellLock = u
      BY <2>1, <2>3 DEF WaitsFor
    <3> QED BY <2>1, <2>3, <3>1, CellHolder, CallerRank DEF AtWork, StartPcs
  <2>4. CASE pc[t] = "stop"
    <3>1. startStop[mgr[t]] = u /\ mgr[t] \in Managers
      BY <2>1, <2>4 DEF WaitsFor, IInv, TypeInv, MgrOK
    <3> QED BY <2>1, <2>4, <3>1, StartStopHolder, CallerRank DEF AtWork, StartPcs, StopPcs
  <2>5. CASE pc[t] = "join"
    <3>1. u = mgr[t] /\ u \in Managers /\ mon[u] # "done"
      BY <2>1, <2>5 DEF WaitsFor, IInv, TypeInv, MgrOK, Joined
    <3>2. mon[u] # "off" /\ Rank(u) = 2
      BY <1>3, <2>5, <3>1 DEF WaitInv, JoinOn, Rank
    <3> QED BY <2>1, <2>5, <3>1, <3>2, CallerRank DEF AtWork
  <2>6. CASE pc[t] = "rearm"
    <3>1. readyLock[mgr[t]] = u /\ mgr[t] \in Managers
      BY <2>1, <2>6 DEF WaitsFor, IInv, TypeInv, MgrOK
    <3> QED BY <2>1, <2>6, <3>1, ReadyHolder, CallerRank DEF AtWork
  <2>7. CASE pc[t] = "kill"
    <3>1. u \in Callers /\ pc[u] \in {"spawn", "commit", "killing"}
      BY <2>1, <2>7 DEF WaitsFor, HoldsChild, Callers
    <3> QED BY <2>1, <2>7, <3>1, CallerRank DEF AtWork
  <2> QED BY <2>1, <2>2, <2>3, <2>4, <2>5, <2>6, <2>7 DEF WaitsFor, StartPcs
<1> QED BY <1>1, <1>2, <1>3 DEF Threads, Callers

\* No threads each wait for one among them: the lowest of them would wait for a lower one.
LEMMA NoCircle ==
  ASSUME IInv, WaitInv, NEW S \in SUBSET Threads,
         \A t \in S : \E u \in S : WaitsFor(t, u)
  PROVE  S = {}
<1>1. \A t \in S : Rank(t) \in 0..5
  <2> SUFFICES ASSUME NEW t \in S PROVE Rank(t) \in 0..5
    OBVIOUS
  <2>1. CASE t \in Managers
    BY <2>1 DEF Rank
  <2>2. CASE t \in Callers
    BY <2>2, CallerRank
  <2> QED BY <2>1, <2>2 DEF Threads
<1>2. \A t \in S : \E u \in S : Rank(u) < Rank(t)
  BY WaitsDown
<1>3. \A t \in S : Rank(t) # 0
  BY <1>1, <1>2
<1>4. \A t \in S : Rank(t) # 1
  BY <1>1, <1>2, <1>3
<1>5. \A t \in S : Rank(t) # 2
  BY <1>1, <1>2, <1>3, <1>4
<1>6. \A t \in S : Rank(t) # 3
  BY <1>1, <1>2, <1>3, <1>4, <1>5
<1>7. \A t \in S : Rank(t) # 4
  BY <1>1, <1>2, <1>3, <1>4, <1>5, <1>6
<1> QED BY <1>1, <1>2, <1>3, <1>4, <1>5, <1>6, <1>7

\* However initialize(), stop(), proxy calls and the monitor meet, nobody waits for a thread
\* that will never let go, and no threads wait in a circle, although the locks are not taken
\* in one order: the mutex of the cell keeps everybody away from a manager that starts, and
\* elsewhere each waits only for what lies further down in Rank.
THEOREM NoDeadlockAlways == Spec => []NoDeadlock
<1>1. ASSUME IInv, WaitInv PROVE NoDeadlock
  <2>1. ASSUME NEW w \in Waits PROVE AtWork(w[2])
    <3>1. w[1] \in Threads /\ w[2] \in Threads /\ WaitsFor(w[1], w[2])
      BY DEF Waits
    <3> QED BY <1>1, <3>1, WaitsDown
  <2>2. ASSUME NEW S \in SUBSET {w[1] : w \in Waits}, S # {}
        PROVE  \E t \in S : \A u \in S : <<t, u>> \notin Waits
    <3>1. S \in SUBSET Threads
      BY DEF Waits
    <3>2. \A t, u \in S : WaitsFor(t, u) => <<t, u>> \in Waits
      BY <3>1 DEF Waits
    <3>3. \A t, u \in S : <<t, u>> \in Waits => WaitsFor(t, u)
      BY DEF Waits
    <3> QED BY <1>1, <2>2, <3>1, <3>3, NoCircle
  <2> QED BY <2>1, <2>2 DEF NoDeadlock
<1> QED BY <1>1, IInvAlways, WaitAlways, PTL

=============================================================================
