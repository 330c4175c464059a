\* Limits and buffers of a few bytes, so that heads, chunks and bodies meet them; a timeout of two
\* ticks and delays of up to one, so that a slow peer meets the deadline of the pipe.
SPECIFICATION Spec
CONSTANTS
  Transports = {"uds", "pipe"}
  Replies <- MCReplies
  CallerHeaders <- MCCallerHeaders
  OtherNames = {"x"}
  RequestSize = 2
  Timeout = 2
  MaxDelay = 1
  Nap = 1
  ReadSize = 4
  BlockSize = 2
  MaxHead = 12
  MaxLine = 5
  MaxChunk = 3
  MaxBody = 4
INVARIANTS TypeOK Verdict BodyBound RequestFramed PipeDeadline TwoTimeouts
