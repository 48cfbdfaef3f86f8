SPECIFICATION FairSpec
CONSTANTS
  Clicks = {c1, c2}
  Sessions = {s1, s2}
  MaxBatch = 1
  PipeLines = 1
  None = None
INVARIANTS TypeOK WrittenOnce SuccessMeansQueued
PROPERTIES ImplementsDelivery ClicksAreAnswered
