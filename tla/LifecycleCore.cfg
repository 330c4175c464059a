\* Two host threads race initialize() and stop(), a third waits for the trace-agent
\* while the monitor respawns it. Two sessions, only the trace-agent is managed.
SPECIFICATION Spec
CONSTANTS
  None = None
  Controllers = {c1, c2}
  Mortal = {}
  Proxies = {q1}
  Pids = {p1, p2}
  MaxManagers = 2
  Foreign = {}
  AgentEnabled = FALSE
  DebugBuild = FALSE
  PDeathSig = FALSE
  ThreadMayFail = FALSE
SYMMETRY Symmetry
INVARIANTS TypeOK OneActive SoundReferences ReadySound NoDeadlock
PROPERTIES NoSpawnAfterJoin ImplementsSession
