SPECIFICATION FairSpec
CONSTANTS
  Users = {u1, u2}
  Targets = {u1}
  Attempts = {a1, a2}
  Limit = 2
  AddressLimit = 2
  MaxEdits = 2
  MaxExports = 1
  Nobody = Nobody
INVARIANTS GuessesBounded DefaultIsOneAdmin
PROPERTIES PermanentLockIsKept OwnerGetsIn
CHECK_DEADLOCK FALSE
