SPECIFICATION SyncSpec
CONSTANTS
  r1 = r1
  r2 = r2
  p1 = p1
  NoRev = NoRev
  MaxUid = 2
  MaxEpoch = 1
  UndoMayFail = TRUE
  Revs = {r1}
  Prefixes = {}
  Originates <- MCOriginates
  Recoveries <- MCRecoveries
INVARIANTS
  ReadyIsCommitted
PROPERTIES
  ImplementsActivation
