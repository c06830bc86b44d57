SPECIFICATION Spec
CONSTANTS
  app = app
  db = db
  cluster = cluster
  namespaced = namespaced
  owner = owner
  NoValues = NoValues
  NamespaceResource = NamespaceResource
  Values = {NoValues, owner}
  ComponentValues <- OwnerSetsValues
  Pkgs = {app, db}
  Versions = {1}
  None = None
  Controllers = {cluster, namespaced}
  ControllerOf <- ByScope
  Namespaced = {db}
  PackageName <- OwnName
  Deps <- AppNeedsDb
  Resources <- OneResource
  Latest <- LatestIs1
  CacheLags = FALSE
  MaxRequests = 2
  MaxFaults = 0
PROPERTIES ComponentsConfigured EventuallyReady 
CHECK_DEADLOCK FALSE
