SPECIFICATION Spec
CONSTANTS
    None = None
    Id = {1, 2}
    Process <- MCProcess
    Name = {"browser", "editor"}
    Unknown = "unknown"
    Ja4 = {"first", "second"}
    Event <- MCEvent
    Filter = {"", "browser", "invalid"}
INVARIANTS
    AppViewInv
    IconsShowTheirProgram
    OneFingerprintShown
PROPERTIES
    SelectionKeepsRows
CHECK_DEADLOCK FALSE
