SPECIFICATION MigrationSpec
CONSTANTS
  configmap = configmap
  caSecret = caSecret
  xrd = xrd
  provider = provider
  vpc = vpc
  xnetwork = xnetwork
  networkClaim = networkClaim
  widget = widget
  widgets = widgets
  configmaps = configmaps
  xrds = xrds
  providers = providers
  vpcs = vpcs
  xnetworks = xnetworks
  networkClaims = networkClaims
  Types = {configmaps, xrds, providers, vpcs, xnetworks, networkClaims, widgets}
  Resources = {configmap, caSecret, xrd, provider, vpc, xnetwork, networkClaim, widget}
  TypeOf <- MCTypeOf
  Category <- MCCategory
  CrossplaneTypes = {xrds, providers, vpcs, xnetworks, networkClaims, widgets}
  ExtraTypes = {configmaps}
  ExcludedTypes = {widgets}
  NativeTypes = {configmaps}
  BaseTypes <- MCBaseTypes
  ReadyTypes = {xrds, providers}
  StatusTypes = {xrds, providers, vpcs, xnetworks, networkClaims}
  Skipped = {caSecret}
  DefinedBy <- MCDefinedBy
  Composes <- MCComposes
  Walk <- MCWalk
  ExportMeta = exportYaml
  MaxChanges = 1
  MaxImports = 2
CHECK_DEADLOCK FALSE
PROPERTIES
  ManagedPausedByDefault
