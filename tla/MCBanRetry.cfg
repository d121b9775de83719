CONSTANTS
  p1 = p1
  Process = {p1}
  a = a
  b = b
  Site = {a, b}
  CachedSites = {a}
  None = None
  NVar <- MCNVar
  VVar <- MCVVar
  Rules <- MCRules
  Html <- MCHtml
  BadN = {"nbad"}
  BadV = {"vbad"}
  API_VERSION = 5
  VarnishInstalled = TRUE
  MaxFaults = 1
  Requests <- RuleRequests
  Jobs <- MCJobs
SPECIFICATION DSpec
INVARIANT NoStaleObject
