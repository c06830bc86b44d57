SPECIFICATION Spec
CONSTANTS
  h1 = h1
  argo = argo
  web = web
  api = api
  Pkgs = {argo}
  Ports = {web, api}
  Entrypoints <- OnePackage
  Handlers = {h1}
  MaxOpens = 2
  MaxFaults = 2
  MaxInstalls = 1
INVARIANTS OwnershipInv PanicNeedsError
 
CHECK_DEADLOCK FALSE
