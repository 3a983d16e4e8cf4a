SPECIFICATION FairSpec
CONSTANTS
  Records = {r1, r2}
  BatchSize = 2
  MaxRetries = 2
  JournalCap = 2
  MaxStarts = 2
PROPERTIES
  MemoryIsEmptied
  StopCompletes
  ReplayCompletes
