\* A child with two descendants, any of them deaf to SIGTERM or stuck, with and without a group
\* of its own. It ends: deadlock is not an error.
SPECIFICATION FairSpec
CONSTANTS
  Leader = Leader
  Descendants = {d1, d2}
INVARIANTS Graceful HonestReport
PROPERTIES NoStraySignal Returns
CHECK_DEADLOCK FALSE
