SPECIFICATION RetrySpec
CONSTANTS
  Wanted = a
  None = None
  Names = {a}
  GenNames = {}
  RobotIds = {r1, r2}
  TokenIds = {t1, t2, t3}
  UserToken = userToken
  MaxFaults = 2
PROPERTIES
  RetryConnects
