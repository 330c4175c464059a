\* Two sessions on each platform with two pids, and a trace-agent that ignores SIGTERM.
\* The host may be gone and everything done: deadlock is not an error.
SPECIFICATION FairSpec
CONSTANTS
  Pids = {p1, p2}
  None = None
  MaxSessions = 2
  Deaf = {"trace"}
INVARIANTS TypeOK StopLeavesNone OwnChildren
PROPERTIES Undisturbed Cleaned
CHECK_DEADLOCK FALSE
