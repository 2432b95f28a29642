CONSTANTS
  d1 = d1
  d2 = d2
  a1 = a1
  a2 = a2
  v1 = v1
  v2 = v2
  v3 = v3
  zone = zone
  Release = {a1, a2}
  Deployment = {d1, d2}
  Revision = {v1, v2, v3}
  Domain = {zone}
  Origin = {v1, v2}
  First = v1
  NoRelease = NoRelease
  NoRevision = NoRevision
  Seq <- MCSeq
  Plan <- MCPlan
  DomainOf <- MCDomainOf
  MaxUnavailable = 1
  MaxEpoch = 6
  MaxFaults = 1
SPECIFICATION FairSpec
INVARIANTS
  OneRelease
  WithinLimit
PROPERTIES
  CompletedIsTrue
  WithdrawnStaysWithdrawn
  StartedEnds
CHECK_DEADLOCK FALSE
