CONSTANTS
  own = own
  shared = shared
  rule = rule
  old = old
  new = new
  bad = bad
  Empty = Empty
  None = None
  Id = {own, shared}
  Rule = {rule}
  Body = {old, new, bad}
  Bad = {bad}
  SiteCerts = {own}
  SiteRules = {rule}
  Job <- Jobs
  MaxRuns = 4
  MaxFaults = 1
SPECIFICATION Spec
INVARIANTS STypeOK StaysLoaded AcceptedIsLive RejectedIsRestored SdkSuccessIsLive
CHECK_DEADLOCK FALSE
