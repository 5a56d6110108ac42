SPECIFICATION Spec
CONSTANTS
    a = a
    b = b
    c = c
    Decoders = {a, b, c}
    Format <- MCFormat
    Faults = {"veOpen", "ionOpen", "init", "sbmInit", "reopenInit"}
    MaxCalls <- MCMaxCalls
    NoOne = NoOne
INVARIANT ReferenceCount

CHECK_DEADLOCK FALSE
