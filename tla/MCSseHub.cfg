SPECIFICATION HubSpec
CONSTANTS
  c1 = c1
  c2 = c2
  app = app
  db = db
  Clients = {c1, c2}
  Senders = {"informer"}
  Pkgs = {app, db}
  Updates <- MCUpdates
  NamespaceScoped = {app}
  MaxCalls = 1
  MaxWriteErrors = 1
INVARIANTS HubInv EventsInOrder
PROPERTIES BroadcastsReturn HandlersReturn
CHECK_DEADLOCK FALSE
