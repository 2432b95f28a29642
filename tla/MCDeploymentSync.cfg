SPECIFICATION FairSpec
CONSTANTS
  r1 = r1
  r2 = r2
  p1 = p1
  NoRev = NoRev
  MaxUid = 1
  MaxEpoch = 2
  UndoMayFail = FALSE
  Revs <- MCRevs
  Prefixes = {p1}
  Originates <- MCOriginates
  Recoveries <- MCRecoveries
INVARIANTS
  PromotionWaits
  TargetWasCommitted
  RefusedIsFinal
PROPERTIES
  ReadyIsPersisted
  AcceptedFinishes
  DriftIsUndone
