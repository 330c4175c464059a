\* Waits of 1, 2, 3, 3, ... seconds: the doubling meets its cap between two powers. The
\* interval is shorter than the longest wait, so a sleep may end before a deadline.
SPECIFICATION FairSpec
CONSTANTS
  None = None
  BackoffInitial = 1
  BackoffMax = 3
  Interval = 2
INVARIANTS TypeOK NoEarlyRetry NoOversleep
PROPERTY Retried
