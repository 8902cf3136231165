SPECIFICATION FairSpec
CONSTANTS
  s1 = s1
  s2 = s2
  s3 = s3
  x = x
  y = y
  c1 = c1
  c2 = c2
  Self = s1
  Nobody = Nobody
  NoCommand = NoCommand
  Command <- Commands
  Setups <- AllCalls
  Majority = 2
  MaxRestarts = 1
INVARIANTS
  TypeOK
  AppliedIsOnDisk
  VotesOnceIfSerial
  LeadsOwnTermIfSerial
  AcknowledgedIsStored
PROPERTIES
  TermGoesBackOnlyByRaceOrRedirect
  ChangesReachTheDisk
CHECK_DEADLOCK FALSE
