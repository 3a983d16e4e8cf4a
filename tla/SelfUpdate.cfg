SPECIFICATION FairSpec
CONSTANTS
  Pages = {p1}
  Clicks = {k1}
  Hourly = hourly
  MaxRelease = 2
  MaxFaults = 1
INVARIANTS MixedOnlyByNamedCause DowngradeOnlyByNamedCause
PROPERTY AutoTriesAgain
CHECK_DEADLOCK FALSE
