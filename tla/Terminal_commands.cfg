\* One behaviour of bare rein, rein init, rein handoff or rein sync verify at a time.
SPECIFICATION Spec
CONSTANTS
    Sessions <- Three
    FirstIndex <- Found
    InProject = {"a", "c"}
    ReadOnly = {"c"}
    Matching <- OneLetter
    Heights = {2, 4}
    MaxConcurrentProbes = 1
    MaxProbeRetries = 2
    MaxKeys = 2
    MaxChanges = 1
    AgentOf <- Agents
    Receivers <- Catalog
    Policies <- TwoPolicies
    Previews <- Found2
    Environments <- Looks
    MaxPresses = 4
    Profiles = {"p1", "p2", "p3"}
    Accounts = {"a1", "a2"}
    Providers = {"r2", "s3"}
    MaxSetups = 3
    MaxStrokes = 6
    Launchers = {"h1", "h2"}
    Capsules = {c1}
    TicksPerSecond = 2
    MaxTicks = 2
    MaxLaunches = 2
    MaxStored = 3
    MaxUses = 1
    MaxPushes = 1
    MaxRenewals = 1
    MaxChecks = 1
INVARIANTS ListIsUsable DecisionIsWhatWasShown SetupIsWhole ResolvedIsTheHandoff ReportIsHonest
CHECK_DEADLOCK FALSE
