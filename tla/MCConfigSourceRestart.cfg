SPECIFICATION Spec
CONSTANTS
  MaxUid = 2
  MaxVer = 3
  Text <- MCTextInvalid
  Invalid <- MCBad
  Asked = {"ConfigMap", "CRD"}
  MayCrash = TRUE
  MayTear = FALSE
  MayRetire = FALSE
PROPERTIES
  PinnedAcrossRestarts
