\* Two controllers: one in the last steps of stop(), one in initialize().
SPECIFICATION Spec
CONSTANTS
  None = None
  Controllers = {c1, c2}
  Mortal = {}
  Proxies = {}
  Pids = {p1, p2}
  MaxManagers = 2
  Foreign = {}
  AgentEnabled = FALSE
  DebugBuild = FALSE
  PDeathSig = TRUE
  ThreadMayFail = FALSE
INVARIANT UptimeKept
