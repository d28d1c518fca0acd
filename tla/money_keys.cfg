CONSTANTS
    admin = admin
    mod = mod
    alice = alice
    driver = driver
    ban = ban
    spawn = spawn
    banAce = banAce
    panel = panel
    cash = cash
    police = police
    cap1 = cap1
    cap2 = cap2
    weather = weather
    night = night
    Permissions <- MCAccessPermissions
    Contexts <- MCContexts
    EdgeKeys <- MCEdgeKeys
    GrantKeys <- MCGrantKeys
    RuleInputs <- MCRuleInputs
    PolicyInputs <- MCPolicyInputs
    Guild = discord
    Users = {alice}
    RoleMappings <- MCRoleMappings
    EdgeTtl = 1
    Never = Never
    Absent = Absent
    MaxClock = 2
    MaxEdits = 3
    MaxFaults = 1
    Principals = {driver}
    Permissions_ = {spawn}
    Definitions <- MCDefinitions
    Commands <- MCCommands
    Menus <- MCMenus
    AfterHooks <- MCAfterHooks
    SandboxHooks <- MCSandboxHooks
    Answers <- MCAnswers
    maxActionsPerHook = 2
    actionCapabilities <- MCActionCapabilities
    CapabilitySets <- MCCapabilitySets
    Keys = {k1}
    Nonces = {n1, n2}
    None = None
    here = here
    there = there
    p1 = p1
    p2 = p2
    ActiveSets <- MCActiveSets
    KeysOf <- MCKeysOf
    NamespaceOf <- MCNamespaceOf
    Inputs <- MCInputs
    Server = here
    MoneyInputs <- MCMoneyInputs
    Unset = Unset
    MaxValue = 2
    MaxWork = 3
    MaxSyncFaults = 0
    MaxCalls = 2
    MaxDeployments = 2
    MaxChanges = 2
    MaxVersion = 3
SPECIFICATION Spec
INVARIANTS EveryMoneyChangeStored
CHECK_DEADLOCK FALSE
