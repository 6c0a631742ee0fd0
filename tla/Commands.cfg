SPECIFICATION CommandsSpec
CONSTANTS
    configmap = configmap
    caSecret = caSecret
    xrd = xrd
    provider = provider
    vpc = vpc
    xnetwork = xnetwork
    networkClaim = networkClaim
    widget = widget
    widgets = widgets
    configmaps = configmaps
    xrds = xrds
    providers = providers
    vpcs = vpcs
    xnetworks = xnetworks
    networkClaims = networkClaims
    Types = {configmaps, xrds, providers, vpcs, xnetworks, networkClaims, widgets}
    Resources = {configmap, caSecret, xrd, provider, vpc, xnetwork, networkClaim, widget}
    TypeOf <- MCTypeOf
    Category <- MCCategory
    CrossplaneTypes = {xrds, providers, vpcs, xnetworks, networkClaims, widgets}
    ExtraTypes = {configmaps}
    ExcludedTypes = {widgets}
    NativeTypes = {configmaps}
    BaseTypes <- MCBaseTypes
    ReadyTypes = {xrds, providers}
    StatusTypes = {xrds, providers, vpcs, xnetworks, networkClaims}
    Skipped = {caSecret}
    DefinedBy <- MCDefinedBy
    Composes <- MCComposes
    Walk <- MCWalk
    ExportMeta = exportYaml
    MaxChanges = 1
    MaxImports = 2
    s3Provider = s3Provider
    family = family
    Packages <- MCPackages
    Versions <- MCVersions
    PackageDeps <- MCPackageDeps
    Objects = 1
    DepCommands <- MCDepCommands
    Wanted <- MCWanted
    Published <- MCPublished
    Declared <- MCDeclared
    Pushed <- MCPushed
    MaxPushes = 1
    MaxKills = 1
    MaxEdits = 1
    Nodes <- MCNodes
    Disconnected <- MCDisconnected
    Unreachable <- MCUnreachable
    PathArguments <- MCPathArguments
    MaxInFlight = 2
    MaxSwitches = 2
    Processes = {p1, p2}
    Profiles = {"default", "work"}
    DefaultName = "default"
    MaxCommands = 4
    MaxSessions = 2
    Tabs = {1, 2}
    Prerequisites <- MCPrerequisites
    Providers = {"provider"}
    MaxVersion = 2
    MaxLaunches = 4
    Hours = 3
    Windows = {1, 2}
    UsageKeys = {"a", "b"}
    PerCount = 2
    StoredObjects <- MCObjects
    Commands = {1, 2}
    Operations = {"robot create", "robot delete", "token create", "token delete", "team create", "team delete", "robot join", "robot leave", "invite", "user remove", "grant", "revoke"}
    Names = {"a"}
    MaxIds = 4
    TraceKinds = {"bucket", "vpc"}
    Asks <- MCAsks
    Traced = {1, 2}
    KindOfTraced <- MCKindOf
    MaxPolls = 2
    MaxTurns = 2
    MaxAsks = 1
    PackageNames = {"nop", "aws"}
    Installs = {1, 2}
    MaxConditions = 1
    SpaceVersions = {"1.5.0", "1.7.0", "1.8.0-rc.1", "1.9.0"}
    Semver <- MCSemver
    ChartTags = {"1.5.0", "1.7.0", "1.8.0-rc.1"}
    SubResources <- MCSubResources
    Values <- MCValues
    Images <- MCImages
    MaxMirrors = 2
INVARIANTS
    ExportComplete
    ImportComplete
    NoSecondCopy
    AddedIsCached
    QuietServerIsCurrent
    SavedIsServed
    DiagnosticsCatchUp
    ListIsOfTheNode
    SwitchIsTold
    ConfigIsTold
    DefaultExists
    LoginCanEnd
    ReadyIsDeployed
    ReportIsMaximum
    TreeIsTheAnswer
    SuccessWasSeen
    SuccessIsWhole
PROPERTIES
    DefinedFirst
    ManagedUnpausedLast
    DowngradeIsAgreed
    MeantToBeLost
CHECK_DEADLOCK FALSE
