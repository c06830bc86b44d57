SPECIFICATION Spec
CONSTANTS
  app = app
  db = db
  size = size
  label = label
  key = key
  five = five
  ten = ten
  cm = cm
  deploy = deploy
  Pkgs = {app, db}
  ClusterPkgs = {db}
  Names <- SizeThenLabel
  Keys = {key}
  Literals = {five, ten}
  Length <- Lengths
  Number <- Numbers
  Booleans = {}
  Def <- Defs
  Manifests <- OneManifest
  HelmPkgs = {db}
  Targets <- TargetsOf
  Release = Release
  None = None
  Unset = Unset
  Default = Default
  InitialSpec <- ThroughDb
  InitialData <- FiveAtFirst
  MaxDepth = 5
  MaxTries = 2
  MaxEdits = 1
  MaxChanges = 1
  MaxFaults = 1
  
PROPERTY ValuesConverge
CHECK_DEADLOCK FALSE
