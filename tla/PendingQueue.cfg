SPECIFICATION FairSpec
CONSTANTS
  Senders = {s1, s2}
  MaxDrops = 3
  None = None
PROPERTIES DropsStayCounted ListedOnlyByNamedCause DroppedIsListed
