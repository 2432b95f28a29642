SPECIFICATION Spec
CONSTANTS
  MaxUid = 2
  MaxVer = 2
  Text <- MCText
  Invalid <- MCInvalid
  Asked <- Sources
  MayCrash = FALSE
  MayTear = TRUE
  MayRetire = FALSE
PROPERTIES
  OnlyNamedIsApplied
