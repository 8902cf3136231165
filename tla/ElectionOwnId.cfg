SPECIFICATION Spec
CONSTANTS
  s1 = s1
  s2 = s2
  s3 = s3
  Server = {s1, s2, s3}
  Nobody = Nobody
  LogPositions <- EmptyLogs
  Campaigns <- Two
  Puts <- NoPuts
  MaxFailures = 0
INVARIANTS
  OwnIdMeansLeader
CHECK_DEADLOCK FALSE
