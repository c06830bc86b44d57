SPECIFICATION Spec
CONSTANTS
  app = app
  db = db
  cluster = cluster
  namespaced = namespaced
  owner = owner
  NoValues = NoValues
  NamespaceResource = NamespaceResource
  Values = {NoValues}
  ComponentValues <- OwnerSetsValues
  Pkgs = {app, db}
  Versions = {1, 2}
  None = None
  Controllers = {cluster}
  ControllerOf <- SameController
  Namespaced = {app, db}
  PackageName <- SharedName
  Deps <- NoDeps
  Resources <- ResourcePerVersion
  Latest <- LatestIs1
  CacheLags = TRUE
  MaxRequests = 3
  MaxFaults = 0
PROPERTIES ReportedVersionIsCurrent NeededInfosStay
CHECK_DEADLOCK FALSE
