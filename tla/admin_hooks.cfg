SPECIFICATION Spec
CONSTANTS
  shop = shop  police = police  s1 = s1  s2 = s2  here = here  there = there
  PluginIds = {shop}
  HookedPlugins = {shop}
  SignerOf <- MCSigners
  ServerIds = {here, there}
  Here = here
  MaxWrites = 6
  MaxDeployments = 2
  MaxVersion = 1
  MaxUpdates = 1
  ForeignAudits <- MCForeignAudits
  MaxLives = 1
INVARIANTS HooksReachDatabase
CHECK_DEADLOCK FALSE
