SPECIFICATION Spec
CONSTANTS
  main = main
  extra = extra
  u1 = u1
  u2 = u2
  k1 = k1
  Repos = {main, extra}
  Unnamed = Unnamed
  None = None
  Error = Error
  Initial <- Bootstrapped
  Urls = {u1, u2}
  Commands = {k1}
  MaxCommands = 1
  MaxEditions = 1
  MaxInfos = 2
  MaxFaults = 1
 
PROPERTIES  InfoConverges
CHECK_DEADLOCK FALSE
