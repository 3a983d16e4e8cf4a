SPECIFICATION Spec
CONSTANTS
  Records = {r1, r2, r3}
  BatchSize = 2
  MaxRetries = 2
  JournalCap = 2
  MaxStarts = 2
SYMMETRY Symmetry
INVARIANTS
  OneHome
  DuplicateOnlyInDoubt
PROPERTIES
  LossOnlyByNamedCause
  ImplementsPromise
