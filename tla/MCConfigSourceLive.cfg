SPECIFICATION FairSpec
CONSTANTS
  MaxUid = 1
  MaxVer = 2
  Text <- MCText
  Invalid <- MCInvalid
  Asked = {"ConfigMap", "CRD"}
  MayCrash = FALSE
  MayTear = FALSE
  MayRetire = FALSE
PROPERTIES
  ConfigMapConverges
  CrdConverges
  SourceSettles
