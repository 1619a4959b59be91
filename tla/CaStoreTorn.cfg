SPECIFICATION Spec
CONSTANTS
    Missing = Missing
    Torn = Torn
    None = None
    Instance = {first}
    Key = {k1, k2, k3}
    ReadMayFail = FALSE
    MaxStarts = 3
INVARIANT
    TrustedStaysValid
CHECK_DEADLOCK FALSE
