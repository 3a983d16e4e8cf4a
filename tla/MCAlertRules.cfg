SPECIFICATION RulesSpec
CONSTANTS
  Senders = {s1, s2}
  Channels = {slack}
  RuleCooldown = 2
  RuleFaults = 1
  Level = Level
  None = None
PROPERTIES
  OneEventPerCooldown
  ForgottenOnlyByNamedCause
  RuleNeverStarves
  EventsFollowMeasure
