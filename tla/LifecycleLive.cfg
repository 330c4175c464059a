\* Liveness, one session. Deadlock is not an error here: once the host threads are gone
\* or the cell is poisoned and stopped nothing may be left to do.
SPECIFICATION FairSpec
CONSTANTS
  None = None
  Controllers = {c1, c2}
  Mortal = {c2}
  Proxies = {q1}
  Pids = {p1}
  MaxManagers = 1
  Foreign = {}
  AgentEnabled = FALSE
  DebugBuild = FALSE
  PDeathSig = FALSE
  ThreadMayFail = TRUE
PROPERTIES CallsReturn Respawned
CHECK_DEADLOCK FALSE
