SPECIFICATION Spec
CONSTANTS
  Scheduler = scheduler
  Requests = {q1}
  Keep = 1
  MaxMinutes = 2
  MaxCommits = 1
  MaxFaults = 1
INVARIANTS UsableBackupKept TornOnlyByNamedCause BackupIsCurrent
CHECK_DEADLOCK FALSE
