CONSTANTS
    a = a
    b = b
    p1 = p1
    AnyArm = AnyArm
    NoSpec = NoSpec
    Procs = {p1}
    Files <- ThreeFiles
    Flags <- AllOrB
    DefaultTrials = 1
    MaxTrials = 1
    Newer = {a}
    MaxCommands = 2
    MaxFaults = 1
SPECIFICATION FairSpec
INVARIANTS SpecKept CompletedRecoverable Sequential
PROPERTIES CompletedKept CommandsEnd
CHECK_DEADLOCK FALSE
