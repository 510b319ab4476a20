SPECIFICATION Spec
CONSTANTS
    read = read
    write = write
    one = one
    other = other
    Tool = {read, write}
    Signature <- MCSignature
    Reads = {read}
    Raising = {write}
    Result = {one, other}
    ExactBlock = 2
    SameHalt = 2
    IdleBlock = 2
    ExactWarn = 1
    SameWarn = 1
    IdleWarn = 2
    NumCalls = 2
    MaxCalls = 3
    None = None
INVARIANTS GuardrailSound EachCallAnsweredInOrder
CHECK_DEADLOCK FALSE
