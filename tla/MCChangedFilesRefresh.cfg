SPECIFICATION LoopSpec
CONSTANTS
  NoJob = NoJob
  Job = {j1, j2}
  Ttl = 3
  MaxVersion = 3
INVARIANTS TypeOK RequestsNeverRunGit
PROPERTIES NeverBackwards ChangesSurface StopReturns
