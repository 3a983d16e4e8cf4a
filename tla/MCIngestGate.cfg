SPECIFICATION GateSpec
CONSTANTS
  Sources = {s1, s2}
  TTL = 2
  MaxFailures = 1
  NoVerdict = NoVerdict
INVARIANT VerdictLagBounded
