CONSTANTS
  p1 = p1
  Process = {p1}
  a = a
  b = b
  Site = {a, b}
  None = None
  NVar <- MCNVar
  VVar <- MCVVar
  BadN = {"nbad"}
  BadV = {"vbad"}
  API_VERSION = 5
  VarnishInstalled = TRUE
  MaxFaults = 1
  Jobs <- MCJobs
SPECIFICATION FairSpec
INVARIANTS TypeOK RestoredOnFailure NginxFollowsRollback LiveOnReturn
PROPERTY CallEnds
