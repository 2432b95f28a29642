SPECIFICATION FairSpec
CONSTANTS
  r1 = r1
  r2 = r2
  p1 = p1
  NoRev = NoRev
  MaxUid = 1
  MaxEpoch = 1
  UndoMayFail = FALSE
  Revs <- MCRevs
  Prefixes = {}
  Originates <- MCOriginates
  Recoveries <- MCRecoveries
PROPERTIES
  CommittedIsCheckpointed
