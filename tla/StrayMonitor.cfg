\* An orphan monitor signals a pid that the system has given to somebody else.
SPECIFICATION Spec
CONSTANTS
  Pids = {p1, p2}
  None = None
  MaxSessions = 1
  Deaf = {}
INVARIANT NoStranger
CHECK_DEADLOCK FALSE
