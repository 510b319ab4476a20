SPECIFICATION AuxSpec
CONSTANTS
    main = main
    nous = nous
    Endpoint = {main, nous}
    Main = main
    Nous = {nous}
    Pooled = {nous}
    Hosts = {main, nous}
    Unpinned = {main}
    Custom = {}
    TaskChain = {nous}
    MainChain = {}
    BuiltIn = {main, nous}
    Transients = 2
    Asked <- MCAsked
    MaxCalls = 2
    MaxRenewals = 1
    None = None
INVARIANTS LadderBounded FreshByName
CHECK_DEADLOCK FALSE
