\* One host thread, agent and trace-agent managed, endpoints also served from outside.
\* The host thread outlives the sessions, so the Linux death signal of a thread matters
\* only for the monitor thread.
SPECIFICATION Spec
CONSTANTS
  None = None
  Controllers = {c1}
  Mortal = {}
  Proxies = {}
  Pids = {p1, p2, p3}
  MaxManagers = 2
  Foreign = {"agent", "trace"}
  AgentEnabled = TRUE
  DebugBuild = FALSE
  PDeathSig = TRUE
  ThreadMayFail = FALSE
SYMMETRY Symmetry
INVARIANTS NoOrphans KeptAlive OneTraceAgent
