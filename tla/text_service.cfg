CONSTANTS
  MaxCommits = 2
  MaxTexts = 3
  MaxQueue = 3
  Noise = Noise
SPECIFICATION Spec
INVARIANTS TypeOK CommitOnce EatenOnce CommitsArrive PreeditShown NoOrphan
