CONSTANTS
  r1 = r1
  r2 = r2
  p1 = p1
  NoRev = NoRev
  MaxUid = 2
  MaxEpoch = 1
  Revs <- MCRevs
  Prefixes <- MCPrefixes
  Originates <- MCOriginates
  Recoveries <- MCRecoveries
SPECIFICATION Spec
INVARIANTS
  CheckpointSound
  ObservedBeforeCommit
  RecoveredIsCheckpointed
  WorksOnNewest
PROPERTIES
  CheckpointForward
  BootSafe
