SPECIFICATION Spec
CONSTANTS
  Services = {ec2, rds}
  Platforms = {amd64}
  Limits = {0, 1}
  PushRetry = 1
  UintSize = 4
SYMMETRY Symmetry
INVARIANTS
  FailsForAReason
CHECK_DEADLOCK FALSE
