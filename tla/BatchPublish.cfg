SPECIFICATION FairSpec
CONSTANTS
  Services = {ec2, rds}
  Platforms = {amd64, arm64}
  Limits = {0, 1}
  PushRetry = 1
  UintSize = 4
INVARIANTS
  TypeOK
  TagIsWhole
  StoredBeforePushed
  WithinConcurrency
  ResultIsHonest
  GivesUpLast
PROPERTIES
  Ends
CHECK_DEADLOCK FALSE
