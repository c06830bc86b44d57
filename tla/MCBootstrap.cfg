SPECIFICATION Spec
CONSTANTS
  alice = alice
  bob = bob
  Clients = {alice, bob}
  Manifest <- Released
  Options <- Chosen
  Breaking = 2
  Steps = 2
  Retained = TRUE
  MaxRuns = 1
  MaxFaults = 1
PROPERTIES SuccessMeansInstalled ChoicesSurvive  CommandsEnd
CHECK_DEADLOCK FALSE
