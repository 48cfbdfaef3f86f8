SPECIFICATION Spec
CONSTANTS
  Clicks = {c1, c2}
  Sessions = {s1, s2}
  MaxBatch = 1
  PipeLines = 1
  None = None
INVARIANT FailureMeansNotWritten
