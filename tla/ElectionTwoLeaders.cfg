SPECIFICATION Spec
CONSTANTS
  s1 = s1
  s2 = s2
  s3 = s3
  Server = {s1, s2, s3}
  Nobody = Nobody
  LogPositions <- EmptyLogs
  Campaigns <- Overtaken
  Puts <- NoPuts
  MaxFailures = 0
INVARIANTS
  OneLeaderPerTerm
CHECK_DEADLOCK FALSE
