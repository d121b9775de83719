CONSTANTS
  p1 = p1
  Process = {p1}
  Upgrader = p1
  Exits = Exits
  a = a
  b = b
  Site = {a, b}
  None = None
  NVar <- MCNVar
  VVar <- MCVVar
  UpgradedN <- MCUpgradedN
  UpgradedV <- MCUpgradedV
  BadN = {"nbad"}
  BadV = {"vbad"}
  API_VERSION = 5
  VarnishInstalled = TRUE
  MaxFaults = 2
  Jobs <- MCJobs
SPECIFICATION USpec
INVARIANT FailureRestores
INVARIANT UpgradeIsWhole
