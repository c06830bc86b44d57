SPECIFICATION Spec
CONSTANTS
  app = app
  db = db
  cluster = cluster
  namespaced = namespaced
  owner = owner
  NoValues = NoValues
  NamespaceResource = NamespaceResource
  Values = {NoValues}
  ComponentValues <- OwnerSetsValues
  Pkgs = {app, db}
  Versions = {1}
  None = None
  Controllers = {cluster}
  ControllerOf <- SameController
  Namespaced = {}
  PackageName <- OwnName
  Deps <- AppNeedsDb
  Resources <- OneResource
  Latest <- LatestIs1
  CacheLags = TRUE
  MaxRequests = 2
  MaxFaults = 1
INVARIANTS TypeOK OwnershipCoversUse
PROPERTIES SuspendedIsFrozen NeededPackagesStay ImplementsPackageLife
CHECK_DEADLOCK FALSE
