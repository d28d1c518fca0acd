SPECIFICATION FairSidecarSpec
CONSTANTS
  b1 = b1  b2 = b2  s1 = s1  good = good  None = None
  BundleIds = {b1, b2}
  UnknownSigners = {}
  SignerIds = {s1}
  PluginIds <- MCTwoPlugins
  ServerIds <- MCServers
  Server <- MCServer
  SidecarBundles = {b1}
  Bytes = {good}
  BundleInputs <- MCOnePerPlugin
  MaxDeployments = 2
  MaxFetches = 0
  MaxStale = 0

PROPERTIES KilledSandboxesStop
CHECK_DEADLOCK FALSE
