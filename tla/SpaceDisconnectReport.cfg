SPECIFICATION Spec
CONSTANTS
  Wanted = a
  None = None
  Names = {a, b}
  GenNames = {g}
  RobotIds = {r1, r2, r3, r4}
  TokenIds = {t1, t2}
  UserToken = userToken
  MaxFaults = 1
SYMMETRY Symmetry
INVARIANTS
  DisconnectedSpaceIsGone
