SPECIFICATION Spec
CONSTANTS
  cli = cli
  web = web
  tool = tool
  app = app
  Cli = {cli}
  Web = {web}
  Packages = {tool, app}
  Namespaced = {app}
  Annotated = {}
  Options <- OneOption
  Preinstalled = {tool}
  Latest = 2
  MaxCommands <- OneEach
  MaxEvents = 1
INVARIANT StoreInv
PROPERTIES SuccessIsObserved OnlyOwnFields 
CHECK_DEADLOCK FALSE
