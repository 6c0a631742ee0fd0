SPECIFICATION Spec
CONSTANTS
  Wanted = a
  None = None
  Names = {a}
  GenNames = {g}
  RobotIds = {r1, r2, r3}
  TokenIds = {t1, t2, t3, t4}
  UserToken = userToken
  MaxFaults = 2
SYMMETRY Symmetry
INVARIANTS
  ConnectedIsUsable
PROPERTIES
  FailedConnectCleansUp
  MapUndoneLast
  DisconnectedLeavesNothing
  OnlyConsentedSpacesRemoved
  LinkSpec
