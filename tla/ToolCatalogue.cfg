SPECIFICATION CSpec
CONSTANTS
    t1 = t1
    t2 = t2
    checked = checked
    plain = plain
    base = base
    mcp = mcp
    Thread <- MCThread
    Tool <- MCTool
    Toolset <- MCToolset
    Static <- MCStatic
    Discovered = {mcp}
    Checked = {checked}
    Request <- MCRequest
    Initial <- MCInitial
    MemoMax = 1
    MaxGeneration = 1
    Ttl = 1
    Grace = 2
    MaxClock = 2
    None = None
SYMMETRY MCSymmetry
INVARIANTS OutageHonoured NoFailurePinnedInGrace MemoOfItsGeneration MemoBounded
