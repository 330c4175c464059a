\* Agent and trace-agent: stop() between the two spawns of one monitor round.
SPECIFICATION Spec
CONSTANTS
  None = None
  Controllers = {c1}
  Mortal = {}
  Proxies = {}
  Pids = {p1, p2}
  MaxManagers = 1
  Foreign = {}
  AgentEnabled = TRUE
  DebugBuild = FALSE
  PDeathSig = FALSE
  ThreadMayFail = FALSE
INVARIANT NoOrphans
