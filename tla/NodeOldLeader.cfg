SPECIFICATION Spec
CONSTANTS
  s1 = s1
  s2 = s2
  s3 = s3
  x = x
  y = y
  c1 = c1
  c2 = c2
  Self = s1
  Nobody = Nobody
  NoCommand = NoCommand
  Command <- Commands
  Setups <- AllCalls
  Majority = 2
  MaxRestarts = 0
INVARIANTS
  AcknowledgedIsKept
CHECK_DEADLOCK FALSE
