SPECIFICATION MCSpec
CONSTANTS
  core = core  alt = alt  job = job  k1 = k1  s1 = s1  e1 = e1  t1 = t1  None = None
  kit = kit  mod = mod  ems = ems  low = low  high = high  ann = ann  bob = bob  alice = alice  driver = driver  cash = cash
  PluginIds = {core, alt, job}
  ManifestsOf <- MCManifests
  PackageIds = {k1}
  SignerIds = {s1}
  EnsuredLists <- MCLists
  EntityIds = {e1}
  EntityTypes = {t1}
  DataPlugins = {core, alt}
  Schemas = {{0}, {1}}
  Dumps <- MCDumps
  ItemInputs <- MCItemInputs
  JobInputs <- MCJobInputs
  CharacterInputs <- MCCharacterInputs
  Owners <- MCOwners
  Quantities = {1, 2}
  Missing = Missing
  MaxImports = 2
  MaxGameplayCalls = 2
  MaxRegistryCalls = 3
CHECK_DEADLOCK FALSE
INVARIANTS ActivePluginsMayRun OneCharacterSelected ImportsAreWhole TablesAreSound
PROPERTIES ImportEnablesWhatItCan
