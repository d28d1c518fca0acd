SPECIFICATION MCSpec
CONSTANTS
  shop = shop  police = police  s1 = s1  s2 = s2  here = here  there = there
  PluginIds = {shop}
  HookedPlugins = {}
  SignerOf <- MCSigners
  ServerIds = {here, there}
  Here = here
  MaxWrites = 4
  MaxDeployments = 3
  MaxVersion = 1
  MaxUpdates = 1
  ForeignAudits <- MCForeignAudits
  MaxLives = 2
CHECK_DEADLOCK FALSE
INVARIANTS QueueIsSound MirrorIsCurrent CacheSettles DisabledAreOut
