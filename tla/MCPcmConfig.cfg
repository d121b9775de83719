CONSTANTS
  c1 = c1
  c2 = c2
  domain = domain
  apps = apps
  ssl = ssl
  None = None
  Conn = {c1, c2}
  File = {domain, apps, ssl}
  Message <- Framed
  MaxSends = 2
  MaxFaults = 1
SPECIFICATION FairSpec
INVARIANTS SuccessIsApplied PolicyIsWhole PolicyIsApplied AnswersMatch
PROPERTY RequestAnswered
