SPECIFICATION FairSpec
CONSTANTS
  MaxUid = 1
  MaxVer = 3
  Text <- MCText
  Invalid <- MCInvalid
  Asked = {"ConfigMap"}
  MayCrash = FALSE
  MayTear = TRUE
  MayRetire = FALSE
PROPERTIES
  ConfigMapConverges
