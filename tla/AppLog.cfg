SPECIFICATION FairSpec
CONSTANTS
  QueueSize = 2
  OutboxSize = 1
  BatchSize = 2
  MaxRecords = 2
  TrimEvery = 2
  MaxLines = 3
  MaxFaults = 1
  MaxStarts = 2
INVARIANTS ForwarderHiddenOnlyByPoll
PROPERTIES LineLostOnlyByNamedCause StopReturns
CHECK_DEADLOCK FALSE
