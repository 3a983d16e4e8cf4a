SPECIFICATION FairSpec
CONSTANTS
  Collectors = {c1, c2}
  Names = {n1, n2}
  Dismissed = {}
  Silence = 2
  Cooldown = 2
  MaxRenames = 1
  MaxFaults = 2
PROPERTIES
  EventsAreSpaced
  EventsFollowStorage
  SilenceIsReported
  RecoveryResolves
