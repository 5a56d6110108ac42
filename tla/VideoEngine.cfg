SPECIFICATION FairSpec
CONSTANTS
    a = a
    b = b
    c = c
    Decoders = {a, b, c}
    Format <- MCFormat
    Faults = {"veOpen", "ionOpen", "init", "sbmInit", "reopenInit"}
    MaxCalls <- MCMaxCalls
    NoOne = NoOne
INVARIANTS EngineMine CountsExact MemoryThere
PROPERTY CallsReturn
CHECK_DEADLOCK FALSE
