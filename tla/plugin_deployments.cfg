SPECIFICATION Spec
CONSTANTS
  b1 = b1  b2 = b2  s1 = s1  s2 = s2  good = good  bad = bad  None = None
  BundleIds = {b1, b2}
  UnknownSigners = {}
  SignerIds = {s1, s2}
  PluginIds <- MCTwoPlugins
  ServerIds <- MCOneServer
  Bytes = {good, bad}
  BundleInputs <- MCBothPlugins
  MaxDeployments = 3
  MaxFetches = 1
CHECK_DEADLOCK FALSE
INVARIANTS DeploymentsAreSound OneActive RevokedNeverLive OnlyVerifiedRan
PROPERTIES FailuresFailOver SlotsSpec
