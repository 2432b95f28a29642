SPECIFICATION Spec
CONSTANTS
  i1 = i1
  i2 = i2
  NoOne = NoOne
  Instance <- MCInstance
  Duration = 3
  Margin = 0
  Slow = 2
  Fast = 3
  MaxWrites = 4
SYMMETRY MCSymmetry
INVARIANTS
  OneForwarder
  ValidIsNewest
PROPERTIES
  EpochsForward
