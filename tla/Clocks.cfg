SPECIFICATION ClocksSpec
CONSTANTS
  BatchSize = 3
  Interval = 2
  MaxQueued = 1
  Visitors = {v1, v2}
  Expiry = 1
  Local = 0
  Utc = 1
  Records = {r1}
  Daily = daily
  Admins = {a1, a2}
  MaxDays = 3
  Default = 2
  NotANumber = nan
  MaxFaults = 1
INVARIANT DelayBounded
PROPERTIES FreshLockOpenedOnlyInRace LockoutEnds RecordsLeaveOnlyByNamedCause RetentionComesTrue
CHECK_DEADLOCK FALSE
