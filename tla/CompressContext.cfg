CONSTANTS
    Configs <- MCConfigs
    Agents = {a, b}
    a = a
    b = b
    Weights = {4}
    ProtectFirst = 2
    ProtectLast = 3
    TailBudget = 4
    SummaryWeight = 1
    MaxAsks = 2
    MaxRounds = 2
    MaxCompactions = 3
    MaxSessions = 3
    MaxMishaps = 1
    NoOne = NoOne
    Dead = Dead
SPECIFICATION Spec
INVARIANTS Sendable OneCompactorPerSession CooldownRespected
PROPERTY LatestAskKept
SYMMETRY Alike
CHECK_DEADLOCK FALSE
