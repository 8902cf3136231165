SPECIFICATION FairSpec
CONSTANTS
  s1 = s1
  s2 = s2
  s3 = s3
  x = x
  y = y
  c1 = c1
  c2 = c2
  Server = {s1, s2, s3}
  Nobody = Nobody
  NoCommand = NoCommand
  Command <- Commands
  Setups <- AfterFailover
  Campaigns <- NoCampaigns
  Retried = {}
  MaxFailures = 0
  Lingering = {}
PROPERTIES
  PutsEnd
CHECK_DEADLOCK FALSE
