SPECIFICATION FairSidecarSpec
CONSTANTS
  b1 = b1  b2 = b2  s1 = s1  good = good  None = None
  BundleIds = {b1, b2}
  UnknownSigners = {}
  SignerIds = {s1}
  PluginIds <- MCOnePlugin
  ServerIds <- MCServers
  Server <- MCServer
  SidecarBundles = {b1, b2}
  Bytes = {good}
  BundleInputs <- MCOneSigned
  MaxDeployments = 2
  MaxFetches = 0
  MaxStale = 1
CHECK_DEADLOCK FALSE
INVARIANTS SandboxesAreSound
PROPERTIES StopsOnlyRetired RetiredSandboxesStop ActiveGetsSandbox
