SPECIFICATION FairSpec
CONSTANTS
  s1 = s1
  s2 = s2
  s3 = s3
  x = x
  y = y
  c1 = c1
  c2 = c2
  Server = {s1, s2, s3}
  Nobody = Nobody
  NoCommand = NoCommand
  Command <- Commands
  Setups <- OneLeader
  Campaigns <- NoCampaigns
  Retried <- BehindTheFirst
  MaxFailures = 1
  Lingering = {1, 2, 3, 4}
INVARIANTS
  CommittedOnMajority
  CountedFollowersAgree
  CommittedAgree
  GetSeesAcknowledged
PROPERTIES
  UnobstructedPutsEnd
  RefinesAtomicStore
CHECK_DEADLOCK FALSE
