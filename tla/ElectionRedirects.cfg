SPECIFICATION FairSpec
CONSTANTS
  s1 = s1
  s2 = s2
  s3 = s3
  Server = {s1, s2}
  Nobody = Nobody
  LogPositions <- EmptyLogs
  Campaigns <- PairAgain
  Puts <- OnePut
  MaxFailures = 1
PROPERTIES
  StaleLeaderStepsDown
  TermGoesBackOnlyByRedirect
  VoteIsFinal
CHECK_DEADLOCK FALSE
