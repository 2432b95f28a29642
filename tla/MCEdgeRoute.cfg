SPECIFICATION Spec
CONSTANTS
  r1 = r1
  r2 = r2
  a1 = a1
  a2 = a2
  p1 = p1
  p2 = p2
  NoAtt = NoAtt
  NoRoute = NoRoute
  Route = {r1, r2}
  Prefix = {p1, p2}
  Attachment = {a1, a2}
  Duration = 2
  Margin = 0
  Slow = 1
  Fast = 1
  MaxEpoch = 2
  MaxTerm = 1
  MayReclaim = FALSE
SYMMETRY Sym
INVARIANTS
  ExclusiveGates
  ClosedIsClosed
  AcceptedDisjoint
  WaitBoundsGate
CHECK_DEADLOCK FALSE
