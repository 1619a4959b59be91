SPECIFICATION FairSpec
CONSTANTS
    None = None
    Pid = {1, 2, 3, 4}
    Exe = {"appwatch", "browser"}
    Relauncher = {"worker", "cli"}
    Window = {"worker"}
    Own <- MCOwn
    Started <- MCStarted
    MaxProcesses = 5
    MaxChanges = 1
    MaxRequests = 2
INVARIANTS
    OneReplacementEach
    RestartsWhatWasChosen
PROPERTY
    CallsEnd
CHECK_DEADLOCK FALSE
