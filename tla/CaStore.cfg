SPECIFICATION Spec
CONSTANTS
    Missing = Missing
    Torn = Torn
    None = None
    Instance = {first, second}
    Key = {k1, k2, k3, k4}
    ReadMayFail = TRUE
    MaxStarts = 5
INVARIANTS
    TrustedUnlessDisturbed
    ServedIsExported
PROPERTIES
    StorePromise
CHECK_DEADLOCK FALSE
