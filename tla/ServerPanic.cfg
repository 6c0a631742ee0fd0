SPECIFICATION ServerSpec
CONSTANTS
  s3Provider = s3Provider
  family = family
  Packages <- MCPackages
  Versions <- MCVersions
  PackageDeps <- MCPackageDeps
  Objects = 1
  DepCommands <- MCDepCommands
  Wanted <- MCWanted
  Published <- MCPublished
  Declared <- MCDeclared
  Pushed <- MCPushed
  MaxPushes = 1
  MaxKills = 1
  MaxEdits = 1
INVARIANT PanicsOnlyAtInitialize
CHECK_DEADLOCK FALSE
