SPECIFICATION Spec
CONSTANTS
  r1 = r1
  r2 = r2
  cm1 = cm1
  MaxUid = 2
  MaxEpoch = 2
  MaxRecords = 3
  MaxMedia = 3
  Revs = {r1, r2}
  Prefixes = {}
  NoRev = NoRev
  Entries <- MCEntries
  Handoffs = {cm1}
  NoHandoff = NoHandoff
INVARIANTS NeverCorrupt AckedSurvive QueriesAgree
PROPERTY Durable
